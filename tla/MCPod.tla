------------------------------- MODULE MCPod -------------------------------
(***************************************************************************)
(* The runtime's handlers that read and change the pod's files and ports,  *)
(* and the adoption of a draft's files, each part on its own: `part' says  *)
(* which of them a behaviour is about.                                     *)
(***************************************************************************)
EXTENDS Lines, Workspace, SafePath, Search, Glob, Skills, Compare, Ports, Drafts

VARIABLE part

vars == <<part, linesVars, workVars, pathVars, searchVars, globVars, skillVars,
          compareVars, portVars, draftVars>>

MCContents == {<<"x", "x">>, <<"y">>}
MCEdits == {<<[from |-> "x", to |-> "z"]>>,
            <<[from |-> "x", to |-> "y"], [from |-> "x", to |-> "z"]>>}
MCLower == [n \in Name |-> "a"]
MCWorkDir == <<"a">>

(* a, b: codes of the letters; 65 is A, 46 the dot. *)
a == 97
b == 98
MCFile(path, nul, size, lines, words) ==
    [path |-> path, dir |-> FALSE, ignored |-> FALSE, gone |-> FALSE,
     nul |-> nul, size |-> size, lines |-> lines, words |-> words]
MCDirectory(path) == [MCFile(path, FALSE, 0, 0, {}) EXCEPT !.dir = TRUE]
MCUniverse ==
    {MCFile(<<<<a, b>>>>, FALSE, 1, 1, {}),
     MCFile(<<<<65>>>>, TRUE, 1, 4, {<<b>>}),
     MCDirectory(<<<<b>>>>),
     MCFile(<<<<b>>, <<a>>>>, TRUE, 2, 1, {<<b>>}),
     [MCFile(<<<<b>>, <<b, b>>>>, FALSE, 1, 1, {}) EXCEPT !.gone = TRUE],
     MCDirectory(<<<<46, b>>>>),
     [MCFile(<<<<46, b>>, <<a, a>>>>, FALSE, 3, 1, {<<b>>}) EXCEPT !.ignored = TRUE],
     MCFile(<<<<46, b>>, <<b, a>>>>, FALSE, 1, 1, {})}
MCQueries == {<<a>>, <<b>>}

MCEntries ==
    {EntryIn(1, <<a>>, 2, FALSE, 0), EntryIn(1, <<a, Dot, b>>, Leaf, FALSE, 2),
     EntryIn(1, <<b>>, Leaf, TRUE, 0), EntryIn(2, <<b>>, Leaf, FALSE, 1),
     EntryIn(2, <<a>>, 3, FALSE, 0), EntryIn(3, <<b>>, Leaf, FALSE, 2),
     EntryIn(2, <<b, b>>, 1, TRUE, 0)}
MCSpaces == SUBSET MCEntries
MCGlobs == {<<Star>>, <<a, Star>>, <<Quest>>, <<LBracket, Bang, a, RBracket>>, <<Star, Slash, b>>}
MCSigns == {a, Dot, Hyphen, Star, Quest, LBracket, RBracket, Backslash, Bang, Caret}
MCPatterns == BoundedSeq(MCSigns, 3) \cup {<<LBracket>> \o p : p \in [1..4 -> MCSigns]}
MCAlphabet == {a, b, Bell, Dot, Hyphen, Slash, LBracket, RBracket, Backslash, Bang, Caret, Newline}
MCSamples == BoundedSeq({a, b, LBracket, RBracket}, 2)
               \cup {<<c>> : c \in {Bang, Caret, Dot, Hyphen, Backslash, Newline}}

MCManual(name, description, word) ==
    <<Rule>> \o name \o description \o <<Rule, Line("", <<word>>, FALSE)>>
MCFolded == <<Line("description", <<Fold>>, FALSE), Line("name", <<"x">>, TRUE)>>
MCManuals ==
    {MCManual(<<Line("name", <<"n">>, FALSE)>>, <<Line("description", <<"d">>, FALSE)>>, "s"),
     MCManual(<<>>, <<Line("description", <<"e">>, FALSE)>>, "t"),
     MCManual(<<Line("name", <<"n">>, FALSE)>>, MCFolded, "u"),
     MCManual(<<Line("other", <<Fold>>, FALSE)>>, <<Line("description", <<"d">>, TRUE)>>, "v"),
     <<Rule, Rule, Line("name", <<"n">>, FALSE)>>}
MCSkillDirs == <<"m", "n">>
MCKit == [at \in Place |-> {<<1>>, <<0>>, <<2, 1>>, <<2, 2>>, <<2, 2, 1>>}]

MCOriginals == {Unreadable} \cup BoundedSeq({<<"a">>, <<"a", " ">>}, 3) \cup {<<<<"u">>>>}
MCRevisions == {Unreadable} \cup BoundedSeq({<<"a">>, <<"a", " ">>}, 5) \cup {<<<<"u">>>>}

MCSymmetry == Permutations(Chat) \cup Permutations(File)

MCSocket == {[port |-> 1, six |-> FALSE], [port |-> 1, six |-> TRUE], [port |-> 8, six |-> FALSE]}

(* The parts that are not asked about start in one state. *)
Init ==
    /\ part \in {"lines", "work", "path", "search", "glob", "skills", "compare", "ports", "drafts"}
    /\ mode \in IF part = "drafts" THEN Modes ELSE {CHOOSE m \in Modes : TRUE}
    /\ WorkInit /\ PortsInit /\ DraftsInit
    /\ IF part = "lines" THEN LinesInit
       ELSE text = <<>> /\ chunk = <<>> /\ edited = NotYet
    /\ IF part = "path" THEN PathInit
       ELSE fs = <<>> /\ asked = <<>> /\ given = Pending
    /\ IF part = "search" THEN SearchInit
       ELSE /\ tree = {} /\ repo = FALSE /\ query = [text |-> <<a>>, show |-> FALSE, limit |-> 1]
            /\ offset = 0 /\ first = 0 /\ seen = <<>> /\ edits = 0
    /\ IF part = "glob" THEN GlobInit
       ELSE space = {} /\ request = [pattern |-> <<>>] /\ found = NotAsked
    /\ IF part = "skills" THEN SkillsInit
       ELSE shelf = <<>> /\ reader = [pc |-> "none", answer |-> Unread] /\ rewritten = [all |-> 0]
    /\ IF part = "compare" THEN CompareInit
       ELSE sides = <<>> /\ answer = NoAnswer

Next ==
    /\ UNCHANGED part
    /\ \/ /\ part = "lines" /\ EditText
          /\ UNCHANGED <<workVars, pathVars, searchVars, globVars, skillVars, compareVars, portVars, draftVars>>
       \/ /\ part = "work" /\ WorkNext
          /\ UNCHANGED <<linesVars, pathVars, searchVars, globVars, skillVars, compareVars, portVars, draftVars>>
       \/ /\ part = "path" /\ Ask
          /\ UNCHANGED <<linesVars, workVars, searchVars, globVars, skillVars, compareVars, portVars, draftVars>>
       \/ /\ part = "search" /\ SearchNext
          /\ UNCHANGED <<linesVars, workVars, pathVars, globVars, skillVars, compareVars, portVars, draftVars>>
       \/ /\ part = "glob" /\ GlobNext
          /\ UNCHANGED <<linesVars, workVars, pathVars, searchVars, skillVars, compareVars, portVars, draftVars>>
       \/ /\ part = "skills" /\ SkillsNext
          /\ UNCHANGED <<linesVars, workVars, pathVars, searchVars, globVars, compareVars, portVars, draftVars>>
       \/ /\ part = "compare" /\ CompareFiles
          /\ UNCHANGED <<linesVars, workVars, pathVars, searchVars, globVars, skillVars, portVars, draftVars>>
       \/ /\ part = "ports" /\ PortsNext
          /\ UNCHANGED <<linesVars, workVars, pathVars, searchVars, globVars, skillVars, compareVars, draftVars>>
       \/ /\ part = "drafts" /\ DraftsNext
          /\ UNCHANGED <<linesVars, workVars, pathVars, searchVars, globVars, skillVars, compareVars, portVars>>

Spec == Init /\ [][Next]_vars
=============================================================================
