----------------------------- MODULE Workspace -----------------------------
(***************************************************************************)
(* The file handlers of the runtime (runtime/src/files/io.rs, archive.rs,  *)
(* tools.rs) over one directory.  They run in parallel and take no lock: a *)
(* step is one call into the file system.                                  *)
(*                                                                         *)
(* A name is absent, a directory or a file, which is an inode: a handler   *)
(* that has opened a file keeps writing to it whatever becomes of its      *)
(* name.  expect is history: what a caller who was alone on a name may     *)
(* rely on.                                                                *)
(***************************************************************************)
EXTENDS Naturals, Sequences, Functions

CONSTANTS
    Call,       \* handlers at work
    Name,       \* entries of the directory
    Lower,      \* to_ascii_lowercase of a name
    Contents,   \* what may be written
    Edits,      \* the chunks of a replace: sequences of [from, to]
    MaxInode,   \* bound: files ever created
    MaxRequests \* bound: requests

ASSUME WorkspaceAssumption ==
    /\ MaxInode \in Nat /\ Lower \in [Name -> Name]
    /\ Contents \subseteq Seq(UNION {Range(c) : c \in Contents})

VARIABLES
    entry,      \* name -> its inode, or one of NoEntry and DirEntry
    data,       \* inode -> content
    inodes,     \* inodes in use
    call,       \* handler -> its request and how far it is
    expect,     \* name -> what was last put there undisturbed
    requests

workVars == <<entry, data, inodes, call, expect, requests>>

NoEntry == 0
DirEntry == MaxInode + 1
IsFile(n) == entry[n] \in 1..MaxInode

View(kind, body) == [kind |-> kind, body |-> body]
Missing == View("absent", <<>>)
Unknown == View("unknown", <<>>)
ViewOf(n) == CASE entry[n] = NoEntry -> Missing
               [] entry[n] = DirEntry -> View("dir", <<>>)
               [] OTHER -> View("file", data[entry[n]])

Idle == [op |-> "none", pc |-> "idle"]
Underway(c) == c.pc \notin {"idle", "done"}

(* The names a handler works on, the ones its open file has got included. *)
NamesOf(c) ==
    CASE c.op = "none" -> {}
      [] c.op = "list" -> {c.name, Lower[c.name]}
      [] OTHER -> {c.name, c.to} \cup {n \in Name : c.inode # 0 /\ entry[n] = c.inode}
Mutating == {"write", "upload", "replace", "move", "delete", "mkdir"}

WorkInit ==
    /\ entry = [n \in Name |-> NoEntry]
    /\ data = [i \in 1..MaxInode |-> <<>>]
    /\ inodes = 0
    /\ call = [h \in Call |-> Idle]
    /\ expect = [n \in Name |-> Missing]
    /\ requests = 0

-----------------------------------------------------------------------------
(* Bytes written over a file from an offset on. *)
Hole == "0"
Over(old, at, new) ==
    [i \in 1..IF Len(old) > at + Len(new) THEN Len(old) ELSE at + Len(new) |->
        IF i \in at + 1..at + Len(new) THEN new[i - at] ELSE IF i <= Len(old) THEN old[i] ELSE Hole]

(* The reference: what a request does when nothing else happens. *)
ApplyChunk(r, chunk) ==
    IF r.ok /\ chunk.from \in Range(r.text)
    THEN [ok |-> TRUE, text |-> [i \in DOMAIN r.text |-> IF r.text[i] = chunk.from THEN chunk.to ELSE r.text[i]]]
    ELSE [ok |-> FALSE, text |-> <<>>]
Applied(text, edits) ==
    LET after[i \in 0..Len(edits)] ==
            IF i = 0 THEN [ok |-> TRUE, text |-> text] ELSE ApplyChunk(after[i - 1], edits[i])
    IN  after[Len(edits)]

Outcome(status, files, found) == [status |-> status, files |-> files, found |-> found]

Serial(c, f) ==
    LET n == c.name
        Fails(status) == Outcome(status, f, <<>>)
        Puts(view) == Outcome(200, [f EXCEPT ![n] = view], <<>>)
        edited == Applied(f[n].body, c.edits)
    IN  CASE c.op = "write" -> IF f[n].kind = "dir" THEN Fails(500) ELSE Puts(View("file", c.content))
          [] c.op = "upload" -> IF f[n].kind = "dir" THEN Fails(400) ELSE Puts(View("file", c.content))
          [] c.op = "mkdir" -> IF f[n].kind = "file" THEN Fails(400) ELSE Puts(View("dir", <<>>))
          [] c.op = "delete" -> IF f[n] = Missing THEN Fails(404) ELSE Puts(Missing)
          [] c.op = "replace" -> IF f[n].kind # "file" THEN Fails(404)
                                 ELSE IF edited.ok THEN Puts(View("file", Over(<<>>, 0, edited.text))) ELSE Fails(400)
          [] c.op = "move" -> IF f[n] = Missing THEN Fails(404)
                              ELSE IF f[c.to] # Missing THEN Fails(409)
                              ELSE Outcome(200, [f EXCEPT ![c.to] = f[n], ![n] = Missing], <<>>)
          [] c.op = "read" -> IF f[n].kind = "file" THEN Outcome(200, f, <<f[n].body>>) ELSE Fails(404)
          [] c.op = "list" -> IF f[Lower[n]].kind = "dir" THEN Outcome(200, f, <<>>) ELSE Fails(404)
          [] c.op = "archive" ->
                IF f[n] = Missing \/ f[c.to] = Missing THEN Fails(404)
                ELSE Outcome(200, f, [i \in 1..2 |-> f[IF i = 1 THEN n ELSE c.to].body])

Consulted(c) == IF c.op = "list" THEN {Lower[c.name]} ELSE {c.name, c.to}
Known(c) == \A n \in Consulted(c) : c.was[n] # Unknown

-----------------------------------------------------------------------------
(* Requests *)

Request(op, n, to, content, edits, pc) ==
    [op |-> op, name |-> n, to |-> to, content |-> content, edits |-> edits, pc |-> pc,
     inode |-> 0, at |-> 0, dir |-> FALSE, found |-> <<>>, status |-> 0, alone |-> TRUE, was |-> expect]

(* A handler starts: those that it may disturb are no longer alone, and    *)
(* those that are done are forgotten.  Handlers are alike: the first free  *)
(* one takes the request.                                                  *)
Begin(h, c) ==
    LET shares(d) == Underway(d) /\ NamesOf(c) \cap NamesOf(d) # {} /\ {c.op, d.op} \cap Mutating # {}
        disturbed == {g \in Call : shares(call[g])}
    IN  /\ ~Underway(call[h]) /\ h = (CHOOSE g \in Call : ~Underway(call[g]))
        /\ requests < MaxRequests
        /\ requests' = requests + 1
        /\ call' = [g \in Call |-> IF g = h THEN [c EXCEPT !.alone = disturbed = {}]
                                   ELSE IF g \in disturbed THEN [call[g] EXCEPT !.alone = FALSE]
                                   ELSE IF Underway(call[g]) THEN call[g] ELSE Idle]
        /\ expect' = [n \in Name |-> IF c.op \in Mutating /\ n \in NamesOf(c) THEN Unknown ELSE expect[n]]
        /\ UNCHANGED <<entry, data, inodes>>

Start(h) ==
    \E n \in Name :
        \/ \E c \in Contents : Begin(h, Request("write", n, n, c, <<>>, "open"))
        \/ \E c \in Contents : Begin(h, Request("upload", n, n, c, <<>>, "open"))
        \/ \E e \in Edits : Begin(h, Request("replace", n, n, <<>>, e, "check"))
        \/ \E m \in Name : Begin(h, Request("move", n, m, <<>>, <<>>, "check"))
        \/ \E m \in Name : Begin(h, Request("archive", n, m, <<>>, <<>>, "check"))
        \/ \E op \in {"delete", "mkdir", "read", "list"} : Begin(h, Request(op, n, n, <<>>, <<>>, "check"))

(* What is there after a request that succeeded, whatever was before. *)
Result(c) ==
    CASE c.op \in {"write", "upload"} -> View("file", c.content)
      [] c.op = "mkdir" -> View("dir", <<>>)
      [] c.op = "delete" -> Missing
      [] OTHER -> Unknown

(* The answer of a handler and what its caller may now rely on. *)
Finish(h, c, status) ==
    LET done == [c EXCEPT !.pc = "done", !.status = status, !.inode = 0]
    IN  /\ call' = [call EXCEPT ![h] = done]
        /\ expect' = IF ~c.alone \/ c.op \notin Mutating THEN expect
                     ELSE IF Known(c) THEN [n \in Name |-> IF n \in {c.name, c.to} THEN Serial(c, c.was).files[n] ELSE expect[n]]
                     ELSE IF status = 200 THEN [expect EXCEPT ![c.name] = Result(c)]
                     ELSE expect

Fail(h, status) == Finish(h, call[h], status) /\ UNCHANGED <<entry, data, inodes, requests>>
Go(h, c) == call' = [call EXCEPT ![h] = c] /\ UNCHANGED expect

At(h, op, pc) == call[h].op \in op /\ call[h].pc = pc

-----------------------------------------------------------------------------
(* write_file, upload and tool_upload, and the second half of replace *)

(* Mutant: what was there is not cut off. *)
OpenKeeps(h) ==
    LET c == call[h] n == c.name
        inode == IF IsFile(n) THEN entry[n] ELSE inodes + 1
    IN  /\ At(h, {"write", "upload", "replace"}, "open")
        /\ entry[n] # DirEntry /\ inode <= MaxInode
        /\ entry' = [entry EXCEPT ![n] = inode]
        /\ inodes' = IF IsFile(n) THEN inodes ELSE inode
        /\ Go(h, [c EXCEPT !.pc = "put", !.inode = inode])
        /\ UNCHANGED <<requests, data>>

(* The name is opened: created, or cut to nothing. *)
Open(h) ==
    LET c == call[h] n == c.name
        inode == IF IsFile(n) THEN entry[n] ELSE inodes + 1
    IN  /\ At(h, {"write", "upload", "replace"}, "open")
        /\ \/ /\ entry[n] = DirEntry
              /\ Fail(h, IF c.op = "write" THEN 500 ELSE 400)
           \/ /\ entry[n] # DirEntry /\ inode <= MaxInode
              /\ entry' = [entry EXCEPT ![n] = inode]
              /\ data' = [data EXCEPT ![inode] = <<>>]
              /\ inodes' = IF IsFile(n) THEN inodes ELSE inode
              /\ Go(h, [c EXCEPT !.pc = "put", !.inode = inode])
              /\ UNCHANGED requests

Put(h) ==
    LET c == call[h]
    IN  /\ At(h, {"write", "replace"}, "put")
        /\ data' = [data EXCEPT ![c.inode] = Over(@, 0, c.content)]
        /\ Finish(h, c, 200)
        /\ UNCHANGED <<entry, inodes, requests>>

(* An upload is written as it arrives, and stops where its client does. *)
PutChunk(h) ==
    LET c == call[h]
    IN  /\ At(h, {"upload"}, "put")
        /\ \/ /\ c.at < Len(c.content)
              /\ data' = [data EXCEPT ![c.inode] = Over(@, c.at, <<c.content[c.at + 1]>>)]
              /\ Go(h, [c EXCEPT !.at = @ + 1])
              /\ UNCHANGED <<entry, inodes, requests>>
           \/ /\ c.at = Len(c.content)
              /\ Fail(h, 200)
           \/ /\ c.at < Len(c.content)
              /\ Finish(h, [c EXCEPT !.alone = FALSE], 400)
              /\ UNCHANGED <<entry, data, inodes, requests>>

(* replace: the file is read and edited; every chunk must apply. *)
Load(h) ==
    LET c == call[h]
        edited == Applied(data[entry[c.name]], c.edits)
    IN  \/ /\ At(h, {"replace"}, "check")
           /\ IF IsFile(c.name)
              THEN Go(h, [c EXCEPT !.pc = "load"]) /\ UNCHANGED <<entry, data, inodes, requests>>
              ELSE Fail(h, 404)
        \/ /\ At(h, {"replace"}, "load")
           /\ IF IsFile(c.name) /\ edited.ok
              THEN /\ Go(h, [c EXCEPT !.pc = "open", !.content = edited.text])
                   /\ UNCHANGED <<entry, data, inodes, requests>>
              ELSE Fail(h, 400)

-----------------------------------------------------------------------------
(* move_entry: two checks, then the rename, which checks nothing *)
Move(h) ==
    LET c == call[h] n == c.name m == c.to
        clash == entry[n] = NoEntry \/ (entry[m] # NoEntry /\ (entry[n] = DirEntry) # (entry[m] = DirEntry))
    IN  /\ UNCHANGED <<data, inodes, requests>>
        /\ \/ /\ At(h, {"move"}, "check")
              /\ IF entry[n] = NoEntry THEN Finish(h, c, 404) ELSE Go(h, [c EXCEPT !.pc = "target"])
              /\ UNCHANGED entry
           \/ /\ At(h, {"move"}, "target")
              /\ IF entry[m] # NoEntry THEN Finish(h, c, 409) ELSE Go(h, [c EXCEPT !.pc = "rename"])
              /\ UNCHANGED entry
           \/ /\ At(h, {"move"}, "rename")
              /\ entry' = IF clash \/ n = m THEN entry ELSE [entry EXCEPT ![m] = entry[n], ![n] = NoEntry]
              /\ Finish(h, c, IF clash THEN 400 ELSE 200)

(* delete_entry: what it is, then the removal *)
Delete(h) ==
    LET c == call[h] n == c.name
        clash == entry[n] = NoEntry \/ c.dir # (entry[n] = DirEntry)
    IN  /\ UNCHANGED <<data, inodes, requests>>
        /\ \/ /\ At(h, {"delete"}, "check")
              /\ IF entry[n] = NoEntry THEN Finish(h, c, 404)
                 ELSE Go(h, [c EXCEPT !.pc = "remove", !.dir = entry[n] = DirEntry])
              /\ UNCHANGED entry
           \/ /\ At(h, {"delete"}, "remove")
              /\ entry' = IF clash THEN entry ELSE [entry EXCEPT ![n] = NoEntry]
              /\ Finish(h, c, IF clash THEN 400 ELSE 200)

Mkdir(h) ==
    LET c == call[h] n == c.name
    IN  /\ At(h, {"mkdir"}, "check")
        /\ entry' = IF IsFile(n) THEN entry ELSE [entry EXCEPT ![n] = DirEntry]
        /\ Finish(h, c, IF IsFile(n) THEN 400 ELSE 200)
        /\ UNCHANGED <<data, inodes, requests>>

-----------------------------------------------------------------------------
(* read_file, view_file, serve_file, tool_download: a check, then the      *)
(* bytes of whatever the name leads to by then                             *)
Read(h) ==
    LET c == call[h] n == c.name
    IN  /\ UNCHANGED <<entry, data, inodes, requests>>
        /\ \/ /\ At(h, {"read"}, "check")
              /\ IF IsFile(n) THEN Go(h, [c EXCEPT !.pc = "look"]) ELSE Finish(h, c, 404)
           \/ /\ At(h, {"read"}, "look")
              /\ IF IsFile(n) THEN Go(h, [c EXCEPT !.pc = "get", !.inode = entry[n]]) ELSE Finish(h, c, 500)
           \/ /\ At(h, {"read"}, "get")
              /\ Finish(h, [c EXCEPT !.found = <<data[c.inode]>>], 200)

(* list_dir: of the name in lower case *)
ListDir(h) ==
    LET c == call[h] n == Lower[c.name]
    IN  /\ UNCHANGED <<entry, data, inodes, requests>>
        /\ \/ /\ At(h, {"list"}, "check")
              /\ IF entry[n] = DirEntry THEN Go(h, [c EXCEPT !.pc = "scan"]) ELSE Finish(h, c, 404)
           \/ /\ At(h, {"list"}, "scan")
              /\ Finish(h, c, IF entry[n] = DirEntry THEN 200 ELSE 500)

(* archive: every path must exist, then each is read into the zip. *)
BuildZip(h) ==
    LET c == call[h]
        n == IF c.at = 0 THEN c.name ELSE c.to
        body == IF IsFile(n) THEN data[entry[n]] ELSE <<>>
        zipped == [c EXCEPT !.found = Append(@, body), !.at = 1]
    IN  /\ UNCHANGED <<entry, data, inodes, requests>>
        /\ \/ /\ At(h, {"archive"}, "check")
              /\ IF entry[n] = NoEntry THEN Finish(h, c, 404)
                 ELSE Go(h, IF c.at = 0 THEN [c EXCEPT !.at = 1] ELSE [c EXCEPT !.at = 0, !.pc = "zip"])
           \/ /\ At(h, {"archive"}, "zip")
              /\ IF entry[n] = NoEntry THEN Finish(h, c, 500)
                 ELSE IF c.at = 1 THEN Finish(h, zipped, 200) ELSE Go(h, zipped)

-----------------------------------------------------------------------------
WorkNext ==
    \E h \in Call :
        \/ Start(h) \/ Open(h) \/ Put(h) \/ PutChunk(h) \/ Load(h)
        \/ Move(h) \/ Delete(h) \/ Mkdir(h) \/ Read(h) \/ ListDir(h) \/ BuildZip(h)

WorkSpec == WorkInit /\ [][WorkNext]_workVars

(* A file request that nothing disturbs on its names does what it would do *)
(* by itself, whatever goes on beside it: its answer is the one of the     *)
(* sequential request, what it returns is what is there, a refused one     *)
(* changes nothing, and what it put there stays (io.rs:444-783,            *)
(* archive.rs:92-321).  A list answers for the name in lower case, and a   *)
(* write to a directory with 500, as the code does.                        *)
AloneIsExact ==
    /\ \A h \in Call : LET c == call[h] IN
         c.pc = "done" /\ c.alone /\ Known(c) =>
             /\ c.status = Serial(c, c.was).status
             /\ c.status = 200 => c.found = Serial(c, c.was).found
    /\ \A n \in Name : expect[n] \in {Unknown, ViewOf(n)}

(* Refuted: "List the entries of a workspace-relative directory", 404 "if  *)
(* it is missing or not a directory" (io.rs:120-126).  The directory A is  *)
(* looked for under the name a (io.rs:148).                                *)
ListsWhatWasAsked ==
    \A h \in Call : LET c == call[h] IN
        c.pc = "done" /\ c.op = "list" /\ c.alone /\ c.was[c.name] # Unknown =>
            (c.status = 200) = (c.was[c.name].kind = "dir")

(* Refuted: BadRequest if "the create/open/write fails", Internal only if  *)
(* the task does not join (io.rs:427-431): a failed open is a 500.         *)
FailedWriteIsBadRequest ==
    \A h \in Call : call[h].op = "write" => call[h].status # 500

(* "destination path (must not already exist)" (io.rs:524): a rename does  *)
(* replace what was written there after the check.                         *)
MoveNeverReplaces ==
    [][\A h \in Call : At(h, {"move"}, "rename") /\ call'[h].status = 200
            => entry[call[h].to] = NoEntry]_workVars

(* "the write is fully complete before the handler returns" (io.rs:464-    *)
(* 465): once all have answered, a file holds what one of them wrote.  Two *)
(* writes of one name are mixed.                                           *)
WritesNotMixed ==
    (\A h \in Call : ~Underway(call[h])) =>
        \A n \in Name : IsFile(n) => \E c \in Contents : \E k \in 0..Len(c) : ViewOf(n).body = SubSeq(c, 1, k)
=============================================================================
