------------------------------- MODULE Skills -------------------------------
(***************************************************************************)
(* GET /skills and GET /skills/read (runtime/src/skills.rs): the listing   *)
(* of the SKILL.md files under the skill roots, and the reading of one by  *)
(* name, while the chat's own commands rewrite them.                       *)
(*                                                                         *)
(* A SKILL.md is a sequence of lines.  A line has a key if it has a colon, *)
(* one of name, description and other; a value is the sequence of words    *)
(* collected under a key.                                                  *)
(***************************************************************************)
EXTENDS Naturals, FiniteSets, Sequences, SequencesExt

CONSTANTS
    SkillRoots,         \* GLOBAL_SKILL_DIRS has four; searched in this order
    SkillDirs,          \* names of the directories of a root, sorted
    Manuals,            \* what a SKILL.md may hold
    Kit,                \* resource files of each place, as paths of numbers, 0 hidden
    MaxResourceDepth,   \* MAX_RESOURCE_DEPTH
    MaxResourceFiles,   \* MAX_RESOURCE_FILES
    MaxRewrites         \* bound: rewrites

VARIABLES
    shelf,      \* the SKILL.md at each place
    reader,     \* a client that lists the skills and reads one of them
    rewritten   \* rewrites: in all, and since the listing

skillVars == <<shelf, reader, rewritten>>

Place == (1..SkillRoots) \X DOMAIN SkillDirs
NoManual == <<>>

Line(key, value, indented) == [key |-> key, value |-> value, indented |-> indented]
Rule == Line("---", <<>>, FALSE)            \* a line of three dashes
Fold == "fold"                              \* the value > or |
NoField == [name |-> <<"unset">>, description |-> <<>>, other |-> <<>>]

-----------------------------------------------------------------------------
(* parse_frontmatter.  `open' is the key whose block is being collected. *)
Field(state, line) ==
    CASE state.open # "" /\ line.indented ->
            [state EXCEPT !.fields[state.open] = @ \o line.value]
      [] ~(state.open # "" /\ line.indented) /\ line.key \in DOMAIN NoField ->
            IF line.value = <<Fold>>
            THEN [fields |-> [state.fields EXCEPT ![line.key] = <<>>], open |-> line.key]
            ELSE [fields |-> [state.fields EXCEPT ![line.key] = line.value], open |-> ""]
      [] OTHER -> [state EXCEPT !.open = ""]

ParseFrontmatter(text) ==
    LET ends == {k \in 2..Len(text) : text[k] = Rule}
        end == CHOOSE k \in ends : \A j \in ends : k <= j
    IN  IF text = <<>> \/ Head(text) # Rule \/ ends = {} \/ end = 2
        THEN [fields |-> NoField, body |-> text]
        ELSE [fields |-> FoldLeft(Field, [fields |-> NoField, open |-> ""],
                                  SubSeq(text, 2, end - 1)).fields,
              body |-> SubSeq(text, end + 1, Len(text))]

(* list_skills_in_dir: a skill has a description and a name, by default    *)
(* that of its directory.                                                  *)
NameAt(at, fields) == IF fields.name = NoField.name THEN <<SkillDirs[at[2]]>> ELSE fields.name
Summary(at) ==
    LET fields == ParseFrontmatter(shelf[at]).fields
    IN  [location |-> at, name |-> NameAt(at, fields), description |-> fields.description]
IsSkill(at) ==
    shelf[at] # NoManual /\ Summary(at).description # <<>> /\ Summary(at).name # <<>>
ListSkillsInDir(root) ==
    LET at == SelectSeq([d \in DOMAIN SkillDirs |-> <<root, d>>], IsSkill)
    IN  [i \in DOMAIN at |-> Summary(at[i])]

(* Mutant: a later root takes a name over. *)
AddAll(skills, root) ==
    LET more == ListSkillsInDir(root)
    IN  SelectSeq(skills, LAMBDA s : \A t \in Range(more) : t.name # s.name) \o more

(* scan_skills: the first to have a name keeps it. *)
AddNew(skills, root) ==
    FoldLeft(LAMBDA all, s : IF \E t \in Range(all) : t.name = s.name THEN all ELSE Append(all, s),
             skills, ListSkillsInDir(root))
ScanSkills == FoldLeft(AddNew, <<>>, [r \in 1..SkillRoots |-> r])

(* list_skill_resources: name by name, hidden ones left out, up to the     *)
(* limits of depth and number.                                             *)
RECURSIVE KitBefore(_, _)
KitBefore(p, q) ==
    IF p = <<>> \/ q = <<>> THEN q # <<>>
    ELSE Head(p) < Head(q) \/ (Head(p) = Head(q) /\ KitBefore(Tail(p), Tail(q)))
ListSkillResources(at) ==
    LET shown == {p \in Kit[at] : Len(p) <= MaxResourceDepth /\ 0 \notin Range(p)}
    IN  {p \in shown : Cardinality({q \in shown : KitBefore(q, p)}) < MaxResourceFiles}

-----------------------------------------------------------------------------
Unread == [status |-> 0, skill |-> <<>>, content |-> <<>>, resources |-> {}]

SkillsInit ==
    /\ shelf \in [Place -> Manuals \cup {NoManual}]
    /\ reader = [pc |-> "list", listed |-> <<>>, wants |-> <<>>, skill |-> <<>>, answer |-> Unread]
    /\ rewritten = [all |-> 0, since |-> 0]

(* list_skills *)
ListSkills ==
    /\ reader.pc = "list"
    /\ reader' = [reader EXCEPT !.pc = "ask", !.listed = ScanSkills]
    /\ rewritten' = [rewritten EXCEPT !.since = 0]
    /\ UNCHANGED shelf

(* read_skill_inner: the scan and, when it has the name, the text at the   *)
(* place it found.                                                         *)
FindSkill ==
    /\ reader.pc = "ask"
    /\ \E s \in Range(reader.listed) :
        LET same == SelectSeq(ScanSkills, LAMBDA t : t.name = s.name)
        IN  reader' = IF same = <<>>
                      THEN [reader EXCEPT !.pc = "done", !.wants = s, !.answer.status = 404]
                      ELSE [reader EXCEPT !.pc = "text", !.wants = s, !.skill = same[1]]
    /\ UNCHANGED <<shelf, rewritten>>

ReadSkill ==
    /\ reader.pc = "text"
    /\ LET at == reader.skill.location
       IN  reader' = [reader EXCEPT
                !.pc = "done",
                !.answer = IF shelf[at] = NoManual THEN [Unread EXCEPT !.status = 500]
                           ELSE [status |-> 200, skill |-> reader.skill,
                                 content |-> ParseFrontmatter(shelf[at]).body,
                                 resources |-> ListSkillResources(at)]]
    /\ UNCHANGED <<shelf, rewritten>>

(* A command of the chat writes or removes a SKILL.md. *)
Rewrite ==
    /\ rewritten.all < MaxRewrites /\ reader.pc # "done"
    /\ rewritten' = [all |-> rewritten.all + 1, since |-> rewritten.since + 1]
    /\ \E at \in Place, m \in Manuals \cup {NoManual} : shelf' = [shelf EXCEPT ![at] = m]
    /\ UNCHANGED reader

SkillsNext == ListSkills \/ FindSkill \/ ReadSkill \/ Rewrite

-----------------------------------------------------------------------------
Earlier(p, q) == p[1] < q[1] \/ (p[1] = q[1] /\ p[2] < q[2])

(* read_skill: what was listed is read under its name unless a SKILL.md    *)
(* was rewritten meanwhile, and it is the first skill of that name in the  *)
(* order of roots and directories: a manual that is no skill shadows none. *)
ReadAsListed ==
    reader.pc = "done" /\ rewritten.since = 0 =>
        LET at == reader.answer.skill.location
        IN  /\ reader.answer.status = 200 /\ reader.answer.skill = reader.wants
            /\ reader.answer.content = ParseFrontmatter(shelf[at]).body
            /\ IsSkill(at)
            /\ \A p \in Place : IsSkill(p) /\ Summary(p).name = reader.wants.name => ~Earlier(p, at)

(* Does not hold: the description and the content of an answer are of one  *)
(* text.  The text is read a second time after the scan.                   *)
OneVersion ==
    reader.answer.status = 200 =>
        \E m \in Manuals : /\ ParseFrontmatter(m).body = reader.answer.content
                           /\ ParseFrontmatter(m).fields.description = reader.answer.skill.description
=============================================================================
