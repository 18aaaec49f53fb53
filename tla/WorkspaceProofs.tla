-------------------------- MODULE WorkspaceProofs --------------------------
(***************************************************************************)
(* Proofs about the file handlers of the runtime, for any number of        *)
(* handlers, names and files: one that nothing disturbs on its names does  *)
(* what it would by itself.  The invariant says that no two names share a  *)
(* file, that a handler that is alone shares none of its names with a      *)
(* handler that writes, so its checks still hold when it acts, and that    *)
(* nobody is about to change what a caller relies on.                      *)
(***************************************************************************)
EXTENDS Workspace, TLAPS

(* A request as a handler holds it. *)
Asked(c, top) ==
    /\ c \in [op : Mutating \cup {"read", "list", "archive"}, name : Name, to : Name, content : {c.content},
              edits : {c.edits}, pc : {c.pc}, inode : 0..top, at : Nat, dir : {c.dir}, found : {c.found},
              status : {c.status}, alone : BOOLEAN, was : {c.was}]
    /\ DOMAIN c.was = Name /\ c.pc # "idle"
    /\ c.op \notin {"move", "archive"} => c.to = c.name
    /\ c.op \in {"write", "upload"} => c.content \in Contents

(* The directory and its handlers: no two names share a file, and every    *)
(* file that has a name has been created.                                  *)
Shape ==
    /\ entry \in [Name -> 0..MaxInode + 1] /\ inodes \in 0..MaxInode
    /\ DOMAIN data = 1..MaxInode /\ DOMAIN expect = Name /\ DOMAIN call = Call
    /\ \A h \in Call : call[h] = Idle \/ Asked(call[h], inodes)
    /\ \A n \in Name : entry[n] \in 1..MaxInode => entry[n] <= inodes
    /\ \A n, m \in Name : entry[n] \in 1..MaxInode /\ entry[n] = entry[m] => n = m

(* NamesOf and ViewOf in given entries and data. *)
Spots(c, e) ==
    IF c.op = "list" THEN {c.name, Lower[c.name]}
    ELSE {c.name, c.to} \cup {n \in Name : c.inode # 0 /\ e[n] = c.inode}
Seen(n, e, d) == IF e[n] = NoEntry THEN Missing
                 ELSE IF e[n] = DirEntry THEN View("dir", <<>>)
                 ELSE View("file", d[e[n]])

(* A handler that is alone shares no name with another, unless both only   *)
(* read.                                                                   *)
Clash(c, d) == Underway(c) /\ Underway(d) /\ c.alone /\ (c.op \in Mutating \/ d.op \in Mutating)
Apart ==
    \A g, h \in Call : g # h /\ Clash(call[g], call[h]) => Spots(call[g], entry) \cap Spots(call[h], entry) = {}

(* What is relied on is there, and no handler is about to change it. *)
Relied ==
    \A n \in Name : expect[n] # Unknown =>
        /\ expect[n] = Seen(n, entry, data)
        /\ \A h \in Call : Underway(call[h]) /\ call[h].op \in Mutating => n \notin Spots(call[h], entry)

(* How far a handler is that is alone: until it writes, its names are as   *)
(* they were, and what its checks found still holds.                       *)
Bytes(n, e, d) == IF e[n] \in 1..MaxInode THEN d[e[n]] ELSE <<>>
Stage(c, e, d) ==
    /\ c.pc # "put" => \A n \in {c.name, c.to} : c.was[n] # Unknown => c.was[n] = Seen(n, e, d)
    /\ IF c.pc \in {"put", "get"} THEN c.inode # 0 /\ e[c.name] = c.inode ELSE c.inode = 0
    /\ c.pc # "put" /\ c.op # "archive" => c.at = 0
    /\ c.op \notin {"archive", "read"} => c.found = <<>>
    /\ c.pc = "put" =>
         /\ d[c.inode] = [i \in 1..c.at |-> c.content[i]]
         /\ IF c.op = "upload" THEN c.at <= Len(c.content) ELSE c.at = 0
         /\ c.was[c.name] # Unknown =>
              IF c.op = "replace" THEN /\ c.was[c.name].kind = "file"
                                       /\ Applied(c.was[c.name].body, c.edits).ok
                                       /\ Applied(c.was[c.name].body, c.edits).text = c.content
              ELSE c.was[c.name].kind # "dir"
    /\ c.op = "replace" /\ c.pc \in {"load", "open"} => e[c.name] \in 1..MaxInode
    /\ c.op = "replace" /\ c.pc = "open" =>
         /\ Applied(d[e[c.name]], c.edits).ok
         /\ Applied(d[e[c.name]], c.edits).text = c.content
    /\ c.pc = "look" => e[c.name] \in 1..MaxInode
    /\ c.pc \in {"target", "rename", "remove"} => e[c.name] # NoEntry
    /\ c.pc = "rename" => e[c.to] = NoEntry
    /\ c.pc = "remove" => c.dir = (e[c.name] = DirEntry)
    /\ c.op = "list" => c.was[Lower[c.name]] \in {Unknown, Seen(Lower[c.name], e, d)}
    /\ c.op = "list" /\ c.pc = "scan" => e[Lower[c.name]] = DirEntry
    /\ c.op = "archive" =>
         /\ c.at \in {0, 1}
         /\ c.pc = "check" => c.found = <<>> /\ (c.at = 1 => e[c.name] # NoEntry)
         /\ c.pc = "zip" => /\ e[c.name] # NoEntry /\ e[c.to] # NoEntry
                            /\ c.found = IF c.at = 0 THEN <<>> ELSE <<Bytes(c.name, e, d)>>
Staged == \A h \in Call : Underway(call[h]) /\ call[h].alone => Stage(call[h], entry, data)

(* A handler that was alone has answered as it would by itself. *)
Exact(c, status) ==
    c.alone /\ Known(c) => /\ status = Serial(c, c.was).status
                           /\ status = 200 => c.found = Serial(c, c.was).found
Settled == \A h \in Call : call[h].pc = "done" => Exact(call[h], call[h].status)

WorkIInv == Shape /\ Apart /\ Relied /\ Staged /\ Settled

-----------------------------------------------------------------------------
(* What a step of handler h that leaves it at r may do: it changes only    *)
(* the entries of its own names, gives a file that has one at most the     *)
(* other of them, and writes only to its open file or the one it names.    *)
Moves(h, r) ==
    /\ Underway(call[h]) /\ call' = [call EXCEPT ![h] = r] /\ Shape'
    /\ r.op = call[h].op /\ r.name = call[h].name /\ r.to = call[h].to /\ r.was = call[h].was
    /\ r.alone => call[h].alone
    /\ r.inode \in {0, call[h].inode, entry'[call[h].name]}
    /\ call[h].op \notin Mutating => entry' = entry /\ data' = data
    /\ \A n \in Name : entry'[n] # entry[n] =>
         /\ n \in {call[h].name, call[h].to}
         /\ entry'[n] \in 1..inodes => n = call[h].to /\ entry'[n] = entry[call[h].name]
    /\ \A i \in 1..inodes : data'[i] # data[i] => i \in {call[h].inode, entry[call[h].name]}

(* A handler that is underway holds a request. *)
LEMMA UnderwayAsked ==
    ASSUME Shape, NEW h \in Call, Underway(call[h])
    PROVE  Asked(call[h], inodes)
  BY DEF Shape, Underway, Idle

(* The names of a request are its spots (NamesOf). *)
LEMMA SpotsAre ==
    ASSUME NEW c, NEW top, Asked(c, top)
    PROVE  NamesOf(c) = Spots(c, entry)
  BY Zenon DEF Asked, Spots, NamesOf, Mutating

(* What the model shows of a name is what is seen there (ViewOf). *)
LEMMA SeenIs ==
    ASSUME NEW n
    PROVE  ViewOf(n) = Seen(n, entry, data)
  BY WorkspaceAssumption DEF ViewOf, Seen, NoEntry, DirEntry

(* A step of one handler adds to the names of another at most the          *)
(* destination of a move of one of them.                                   *)
LEMMA Growth ==
    ASSUME Shape, NEW h \in Call, NEW r, Moves(h, r), NEW g \in Call, g # h, Underway(call[g]),
           NEW n \in Spots(call[g], entry')
    PROVE  \/ n \in Spots(call[g], entry)
           \/ /\ n = call[h].to /\ call[h].op \in Mutating
              /\ call[h].name \in Spots(call[g], entry)
<1>1. Asked(call[g], inodes) /\ Asked(call[h], inodes)  BY UnderwayAsked, Zenon DEF Moves
<1>2. SUFFICES ASSUME n \notin Spots(call[g], entry)
               PROVE  /\ n = call[h].to /\ call[h].op \in Mutating
                      /\ call[h].name \in Spots(call[g], entry)
  OBVIOUS
<1>3. call[g].op # "list" /\ n \in Name /\ call[g].inode # 0 /\ entry'[n] = call[g].inode /\ entry[n] # entry'[n]
  BY <1>2, Zenon DEF Spots
<1>4. entry'[n] \in 1..inodes  BY <1>1, <1>3 DEF Asked, Shape
<1>5. n = call[h].to /\ entry'[n] = entry[call[h].name] /\ call[h].op \in Mutating
  BY <1>3, <1>4, Zenon DEF Moves
<1>6. call[h].name \in Name  BY <1>1, Zenon DEF Asked
<1>. QED  BY <1>3, <1>5, <1>6, Zenon DEF Spots

(* It has itself no new name. *)
LEMMA Shrinks ==
    ASSUME Shape, NEW h \in Call, NEW r, Moves(h, r)
    PROVE  Spots(r, entry') \subseteq Spots(call[h], entry)
<1>1. Asked(call[h], inodes)  BY UnderwayAsked, Zenon DEF Moves
<1>2. call'[h] = r  BY Zenon DEF Shape, Moves
<1>3. r = Idle \/ Asked(r, inodes')  BY <1>2, Zenon DEF Moves, Shape
<1>4. r.op # "none"  BY <1>1, Zenon DEF Moves, Asked, Mutating
<1>5. Asked(r, inodes')  BY <1>3, <1>4 DEF Idle
<1>6. SUFFICES ASSUME NEW n \in Name, r.op # "list", r.inode # 0, entry'[n] = r.inode
               PROVE  n \in Spots(call[h], entry)
  BY Zenon DEF Spots, Moves
<1>7. r.inode \in 1..MaxInode  BY <1>5, <1>6, WorkspaceAssumption DEF Asked, Moves, Shape
<1>8. CASE r.inode = entry'[call[h].name]
  <2>1. call[h].name \in Name  BY <1>1, Zenon DEF Asked
  <2>2. n = call[h].name  BY <1>6, <1>7, <1>8, <2>1 DEF Moves, Shape
  <2>. QED  BY <2>2, <1>6, Zenon DEF Spots, Moves
<1>9. CASE r.inode = call[h].inode
  <2>1. CASE entry'[n] = entry[n]  BY <1>6, <1>9, <2>1, Zenon DEF Spots, Moves
  <2>2. CASE entry'[n] # entry[n]  BY <1>6, <2>2, Zenon DEF Spots, Moves
  <2>. QED  BY <2>1, <2>2, Zenon
<1>. QED  BY <1>6, <1>8, <1>9, Zenon DEF Moves

(* A name that is none of a handler's stays as it is. *)
LEMMA Untouched ==
    ASSUME Shape, NEW h \in Call, NEW r, Moves(h, r), NEW n \in Name,
           call[h].op \in Mutating => n \notin Spots(call[h], entry)
    PROVE  /\ entry'[n] = entry[n]
           /\ entry[n] \in 1..MaxInode => data'[entry[n]] = data[entry[n]]
           /\ Seen(n, entry', data') = Seen(n, entry, data)
<1>1. Asked(call[h], inodes)  BY UnderwayAsked, Zenon DEF Moves
<1>2. CASE call[h].op \notin Mutating  BY <1>2, Zenon DEF Moves
<1>3. CASE call[h].op \in Mutating
  <2>1. n \notin {call[h].name, call[h].to}  BY <1>3, Zenon DEF Spots, Mutating
  <2>2. entry'[n] = entry[n]  BY <2>1, Zenon DEF Moves
  <2>3. ASSUME entry[n] \in 1..MaxInode
        PROVE  data'[entry[n]] = data[entry[n]]
    <3>1. entry[n] \in 1..inodes  BY <2>3, WorkspaceAssumption DEF Shape
    <3>2. SUFFICES ASSUME entry[n] \in {call[h].inode, entry[call[h].name]}
                   PROVE  FALSE
      BY <3>1, Zenon DEF Moves
    <3>3. entry[n] # 0  BY <3>1 DEF Shape
    <3>4. entry[n] # call[h].inode  BY <1>3, <3>3, Zenon DEF Spots, Mutating
    <3>5. entry[n] = entry[call[h].name] /\ call[h].name \in Name  BY <1>1, <3>2, <3>4, Zenon DEF Asked
    <3>6. n = call[h].name  BY <2>3, <3>5, Zenon DEF Shape
    <3>. QED  BY <2>1, <3>6, Zenon
  <2>4. entry[n] \in 1..MaxInode \/ entry[n] = NoEntry \/ entry[n] = DirEntry
    BY WorkspaceAssumption DEF Shape, NoEntry, DirEntry
  <2>. QED  BY <2>2, <2>3, <2>4, Zenon DEF Seen
<1>. QED  BY <1>2, <1>3, Zenon

(* A handler that is alone stays where it is while another takes a step. *)
LEMMA StageKept ==
    ASSUME WorkIInv, NEW h \in Call, NEW r, Moves(h, r), NEW g \in Call, g # h,
           Underway(call[g]), call[g].alone
    PROVE  Stage(call[g], entry', data')
<1>. DEFINE c == call[g]
<1>1. Asked(c, inodes) /\ Underway(call[h]) /\ Stage(c, entry, data)
  BY UnderwayAsked, Zenon DEF Moves, WorkIInv, Staged
<1>2. call[h].op \in Mutating => Spots(c, entry) \cap Spots(call[h], entry) = {}
  BY <1>1, Zenon DEF WorkIInv, Apart, Clash
<1>3. \A n \in Spots(c, entry) \cap Name :
        /\ entry'[n] = entry[n]
        /\ entry[n] \in 1..MaxInode => data'[entry[n]] = data[entry[n]]
        /\ Seen(n, entry', data') = Seen(n, entry, data)
  BY <1>2, Untouched, Zenon DEF WorkIInv
<1>4. /\ {c.name, c.to} \subseteq Spots(c, entry) \cap Name
      /\ c.op = "list" => Lower[c.name] \in Spots(c, entry) \cap Name
  BY <1>1, WorkspaceAssumption, Zenon DEF Asked, Spots
<1>5. c.pc \in {"put", "get"} => c.inode \in 1..MaxInode
  BY <1>1, WorkspaceAssumption DEF Asked, Stage, WorkIInv, Shape
<1>6. /\ entry'[c.name] = entry[c.name] /\ entry'[c.to] = entry[c.to]
      /\ Seen(c.name, entry', data') = Seen(c.name, entry, data)
      /\ Seen(c.to, entry', data') = Seen(c.to, entry, data)
      /\ Bytes(c.name, entry', data') = Bytes(c.name, entry, data)
      /\ c.op = "list" =>
            /\ entry'[Lower[c.name]] = entry[Lower[c.name]]
            /\ Seen(Lower[c.name], entry', data') = Seen(Lower[c.name], entry, data)
      /\ entry[c.name] \in 1..MaxInode => data'[entry[c.name]] = data[entry[c.name]]
  BY <1>3, <1>4, Zenon DEF Bytes
<1>7. c.pc = "put" => data'[c.inode] = data[c.inode]
  BY <1>1, <1>5, <1>6, Zenon DEF Stage
<1>8. Stage(c, entry', data')
  <2>. HIDE DEF c
  <2>. QED  BY <1>1, <1>6, <1>7 DEF Stage
<1>. QED  BY <1>8, Zenon

(* Handlers that are alone stay apart while one takes a step. *)
LEMMA ApartKept ==
    ASSUME WorkIInv, NEW h \in Call, NEW r, Moves(h, r)
    PROVE  Apart'
<1>. SUFFICES ASSUME NEW a \in Call, NEW b \in Call, a # b, Clash(call'[a], call'[b]),
                     NEW n \in Spots(call'[a], entry'), n \in Spots(call'[b], entry')
              PROVE  FALSE
  BY Zenon DEF Apart
<1>. USE DEF WorkIInv
<1>1. call'[h] = r /\ \A g \in Call : g # h => call'[g] = call[g]  BY Zenon DEF Shape, Moves
<1>2. Underway(call[h]) /\ r.op = call[h].op /\ (r.alone => call[h].alone)  BY Zenon DEF Moves
<1>3. Asked(call[h], inodes)  BY <1>2, UnderwayAsked, Zenon
<1>4. call[h].name \in Spots(call[h], entry) /\ (call[h].op \in Mutating => call[h].to \in Spots(call[h], entry))
  BY <1>3, Zenon DEF Spots, Mutating
<1>5. CASE a # h /\ b # h
  <2>1. Clash(call[a], call[b]) /\ n \in Spots(call[a], entry') /\ n \in Spots(call[b], entry')  BY <1>1, <1>5, Zenon
  <2>2. Spots(call[a], entry) \cap Spots(call[b], entry) = {}  BY <2>1, Zenon DEF Apart
  <2>3. call[h].op \in Mutating => Spots(call[a], entry) \cap Spots(call[h], entry) = {}
    BY <1>2, <1>5, <2>1, Zenon DEF Apart, Clash
  <2>4. Underway(call[a]) /\ Underway(call[b])  BY <2>1, Zenon DEF Clash
  <2>5. n \in Spots(call[a], entry)  BY <1>4, <1>5, <2>1, <2>3, <2>4, Growth, Zenon
  <2>. QED  BY <1>4, <1>5, <2>1, <2>2, <2>3, <2>4, <2>5, Growth
<1>6. CASE a = h /\ b # h
  <2>1. Clash(call[h], call[b]) /\ n \in Spots(r, entry') /\ n \in Spots(call[b], entry')
    BY <1>1, <1>2, <1>6, Zenon DEF Clash
  <2>2. Spots(call[h], entry) \cap Spots(call[b], entry) = {} /\ Underway(call[b])
    BY <1>6, <2>1, Zenon DEF Apart, Clash
  <2>3. n \in Spots(call[h], entry)  BY <2>1, Shrinks, Zenon
  <2>. QED  BY <1>4, <1>6, <2>1, <2>2, <2>3, Growth, Zenon
<1>7. CASE a # h /\ b = h
  <2>1. Clash(call[a], call[h]) /\ n \in Spots(call[a], entry') /\ n \in Spots(r, entry')
    BY <1>1, <1>2, <1>7, Zenon DEF Clash
  <2>2. Spots(call[a], entry) \cap Spots(call[h], entry) = {} /\ Underway(call[a])
    BY <1>7, <2>1, Zenon DEF Apart, Clash
  <2>3. n \in Spots(call[h], entry)  BY <2>1, Shrinks, Zenon
  <2>. QED  BY <1>4, <1>7, <2>1, <2>2, <2>3, Growth, Zenon
<1>. QED  BY <1>5, <1>6, <1>7, Zenon

(* What is relied on stays so while a handler takes a step on other names. *)
LEMMA ReliedKept ==
    ASSUME WorkIInv, NEW h \in Call, NEW r, Moves(h, r), NEW n \in Name, expect[n] # Unknown
    PROVE  /\ expect[n] = Seen(n, entry', data')
           /\ \A g \in Call : Underway(call'[g]) /\ call'[g].op \in Mutating => n \notin Spots(call'[g], entry')
<1>. USE DEF WorkIInv
<1>1. call'[h] = r /\ \A g \in Call : g # h => call'[g] = call[g]  BY Zenon DEF Shape, Moves
<1>2. Underway(call[h]) /\ r.op = call[h].op  BY Zenon DEF Moves
<1>3. Asked(call[h], inodes)  BY <1>2, UnderwayAsked, Zenon
<1>4. call[h].op \in Mutating => n \notin Spots(call[h], entry)  BY <1>2, Zenon DEF Relied
<1>5. expect[n] = Seen(n, entry', data')  BY <1>4, Untouched, Zenon DEF Relied
<1>6. ASSUME NEW g \in Call, Underway(call'[g]), call'[g].op \in Mutating, n \in Spots(call'[g], entry')
      PROVE  FALSE
  <2>1. CASE g = h  BY <1>1, <1>2, <1>4, <1>6, <2>1, Shrinks, Zenon
  <2>2. CASE g # h
    <3>1. Underway(call[g]) /\ call[g].op \in Mutating /\ n \in Spots(call[g], entry')  BY <1>1, <1>6, <2>2, Zenon
    <3>2. n \notin Spots(call[g], entry)  BY <3>1, Zenon DEF Relied
    <3>3. n = call[h].to /\ call[h].op \in Mutating  BY <2>2, <3>1, <3>2, Growth, Zenon
    <3>. QED  BY <1>3, <1>4, <3>3, Zenon DEF Spots, Mutating
  <2>. QED  BY <2>1, <2>2, Zenon
<1>. QED  BY <1>5, <1>6, Zenon

(* No handler is about to change what one leaves that was alone. *)
LEMMA LeftAlone ==
    ASSUME WorkIInv, NEW h \in Call, NEW r, Moves(h, r), call[h].alone, call[h].op \in Mutating,
           ~ Underway(r), NEW n \in {call[h].name, call[h].to},
           NEW g \in Call, Underway(call'[g])
    PROVE  n \notin Spots(call'[g], entry')
<1>. USE DEF WorkIInv
<1>1. call'[h] = r /\ \A f \in Call : f # h => call'[f] = call[f]  BY Zenon DEF Shape, Moves
<1>2. Underway(call[h]) /\ g # h /\ call'[g] = call[g]  BY <1>1, Zenon DEF Moves
<1>3. Spots(call[h], entry) \cap Spots(call[g], entry) = {}  BY <1>2, Zenon DEF Apart, Clash
<1>4. {call[h].name, call[h].to} \subseteq Spots(call[h], entry)  BY Zenon DEF Spots, Mutating
<1>. QED  BY <1>2, <1>3, <1>4, Growth, Zenon

(* A step that does not answer. *)
LEMMA GoKeeps ==
    ASSUME WorkIInv, NEW h \in Call, NEW r, Moves(h, r), UNCHANGED expect, Underway(r),
           r.alone => Stage(r, entry', data')
    PROVE  WorkIInv'
<1>. USE DEF WorkIInv
<1>1. call'[h] = r /\ \A g \in Call : g # h => call'[g] = call[g]  BY Zenon DEF Shape, Moves
<1>2. Shape' /\ Apart'  BY ApartKept, Zenon DEF Moves
<1>3. Relied'  BY ReliedKept, Zenon DEF Relied
<1>4. Staged'  BY <1>1, StageKept, Zenon DEF Staged
<1>5. Settled'
  <2>1. SUFFICES ASSUME NEW g \in Call, call'[g].pc = "done"
                 PROVE  Exact(call'[g], call'[g].status)
    BY Zenon DEF Settled
  <2>2. g # h  BY <1>1, <2>1, Zenon DEF Underway
  <2>. QED  BY <1>1, <2>1, <2>2, Zenon DEF Settled
<1>. QED  BY <1>2, <1>3, <1>4, <1>5, Zenon

(* What the answer leaves behind is what the caller is then told to rely   *)
(* on.                                                                     *)
Left(c, status, e, d) ==
    c.alone /\ c.op \in Mutating =>
        IF Known(c) THEN \A n \in {c.name, c.to} : Serial(c, c.was).files[n] = Seen(n, e, d)
        ELSE status = 200 => Result(c) \in {Unknown, Seen(c.name, e, d)}

Answered(c, status) == [c EXCEPT !.pc = "done", !.status = status, !.inode = 0]

(* What a step may set of its request. *)
Later(c, r) ==
    r = [c EXCEPT !.content = r.content, !.pc = r.pc, !.inode = r.inode, !.at = r.at, !.dir = r.dir,
                  !.found = r.found, !.status = r.status, !.alone = r.alone]

(* A request a step has gone on with is still that request. *)
LEMMA LaterAsked ==
    ASSUME NEW c, NEW r, NEW top, NEW more, Asked(c, top), Later(c, r),
           r.inode \in 0..more, r.at \in Nat, r.alone \in BOOLEAN, r.pc # "idle",
           c.op \in {"write", "upload"} => r.content = c.content
    PROVE  /\ Asked(r, more)
           /\ r.op = c.op /\ r.name = c.name /\ r.to = c.to /\ r.was = c.was /\ r.edits = c.edits
<1>1. r.op = c.op /\ r.name = c.name /\ r.to = c.to /\ r.was = c.was /\ r.edits = c.edits
  BY ZenonT(60) DEF Asked, Later
<1>2. r \in [op : Mutating \cup {"read", "list", "archive"}, name : Name, to : Name, content : {r.content},
              edits : {r.edits}, pc : {r.pc}, inode : 0..more, at : Nat, dir : {r.dir}, found : {r.found},
              status : {r.status}, alone : BOOLEAN, was : {r.was}]
  BY <1>1, Zenon DEF Asked, Later
<1>. QED  BY <1>1, <1>2, Zenon DEF Asked

(* The answer keeps the request. *)
LEMMA AnsweredSame ==
    ASSUME NEW c, NEW top, Asked(c, top), NEW status
    PROVE  /\ Answered(c, status).op = c.op /\ Answered(c, status).name = c.name
           /\ Answered(c, status).to = c.to /\ Answered(c, status).was = c.was
           /\ Answered(c, status).content = c.content /\ Answered(c, status).edits = c.edits
           /\ Answered(c, status).alone = c.alone /\ Answered(c, status).found = c.found
           /\ Answered(c, status).pc = "done" /\ Answered(c, status).status = status
           /\ Answered(c, status).inode = 0
  BY Zenon DEF Asked, Answered

(* The request a handler has once it has answered. *)
LEMMA AnsweredAsked ==
    ASSUME NEW c, NEW top, Asked(c, top), NEW more \in Nat, NEW status
    PROVE  Asked(Answered(c, status), more)
<1>. DEFINE r == Answered(c, status)
<1>1. Later(c, r) /\ r.at = c.at  BY ZenonT(60) DEF Asked, Answered, Later
<1>2. r.inode = 0 /\ r.pc = "done" /\ r.content = c.content /\ r.alone = c.alone  BY AnsweredSame
<1>3. 0 \in 0..more /\ c.at \in Nat /\ c.alone \in BOOLEAN  BY DEF Asked
<1>4. Asked(r, more)
  <2>. HIDE DEF r
  <2>. QED  BY <1>1, <1>2, <1>3, LaterAsked, Zenon
<1>. QED  BY <1>4, Zenon

(* The reference depends on the request alone. *)
LEMMA SerialSame ==
    ASSUME NEW c, NEW d, c.op = d.op, c.name = d.name, c.to = d.to, c.content = d.content, c.edits = d.edits, NEW f
    PROVE  Serial(c, f) = Serial(d, f)
  BY DEF Serial

(* A step that answers. *)
LEMMA FinishKeeps ==
    ASSUME WorkIInv, NEW h \in Call, NEW c, NEW top, Asked(c, top), NEW status,
           Moves(h, Answered(c, status)), Finish(h, c, status),
           Exact(c, status), Left(c, status, entry', data')
    PROVE  WorkIInv'
<1>. USE DEF WorkIInv
<1>. DEFINE r == Answered(c, status)
<1>1. call'[h] = r /\ \A g \in Call : g # h => call'[g] = call[g]  BY Zenon DEF Shape, Moves
<1>2. Shape' /\ Apart'  BY ApartKept, Zenon DEF Moves
<1>3. /\ r.op = c.op /\ r.name = c.name /\ r.to = c.to /\ r.was = c.was /\ r.content = c.content
      /\ r.edits = c.edits /\ r.alone = c.alone /\ r.found = c.found /\ r.pc = "done" /\ r.status = status
  BY AnsweredSame
<1>4. ~ Underway(r)  BY <1>3, Zenon DEF Underway
<1>5. /\ c.op = call[h].op /\ c.name = call[h].name /\ c.to = call[h].to
      /\ c.alone => call[h].alone
  BY <1>3, Zenon DEF Moves
<1>6. Staged'  BY <1>1, <1>4, StageKept, Zenon DEF Staged
<1>7. Settled'
  <2>1. SUFFICES ASSUME NEW g \in Call, call'[g].pc = "done"
                 PROVE  Exact(call'[g], call'[g].status)
    BY Zenon DEF Settled
  <2>2. CASE g # h  BY <1>1, <2>1, <2>2, Zenon DEF Settled
  <2>3. CASE g = h
    <3>1. Serial(r, r.was) = Serial(c, c.was)  BY <1>3, SerialSame, ZenonT(60)
    <3>2. Known(r) = Known(c)  BY <1>3, Zenon DEF Known, Consulted
    <3>3. Exact(r, r.status)
      <4>. HIDE DEF r
      <4>. QED  BY <1>3, <3>1, <3>2, Zenon DEF Exact
    <3>. QED  BY <1>1, <2>3, <3>3, Zenon
  <2>. QED  BY <2>2, <2>3, Zenon
<1>8. Relied'
  <2>1. SUFFICES ASSUME NEW n \in Name, expect'[n] # Unknown
                 PROVE  /\ expect'[n] = Seen(n, entry', data')
                        /\ \A g \in Call : Underway(call'[g]) /\ call'[g].op \in Mutating
                             => n \notin Spots(call'[g], entry')
    BY Zenon DEF Relied
  <2>2. CASE expect'[n] = expect[n]  BY <2>1, <2>2, ReliedKept, Zenon
  <2>3. CASE expect'[n] # expect[n]
    <3>1. c.alone /\ c.op \in Mutating  BY <2>3, Zenon DEF Finish
    <3>2. /\ n \in {c.name, c.to}
          /\ IF Known(c) THEN expect'[n] = Serial(c, c.was).files[n]
             ELSE status = 200 /\ n = c.name /\ expect'[n] = Result(c)
      BY <2>3, <3>1, Zenon DEF Finish, Shape
    <3>3. expect'[n] = Seen(n, entry', data')  BY <2>1, <3>1, <3>2, Zenon DEF Left
    <3>4. \A g \in Call : Underway(call'[g]) => n \notin Spots(call'[g], entry')
      BY <1>4, <1>5, <3>1, <3>2, LeftAlone
    <3>. QED  BY <3>3, <3>4, Zenon
  <2>. QED  BY <2>2, <2>3, Zenon
<1>. QED  BY <1>2, <1>6, <1>7, <1>8, Zenon

-----------------------------------------------------------------------------
(* A request as it arrives. *)
Fresh(c) ==
    /\ Asked(c, inodes) /\ c.inode = 0 /\ c.at = 0 /\ c.found = <<>> /\ c.was = expect
    /\ c.pc \in {"open", "check"} /\ (c.op = "replace" => c.pc = "check")

(* A request that arrives is at its first stage: it was told only what is  *)
(* there.                                                                  *)
LEMMA FreshStage ==
    ASSUME WorkIInv, NEW c, Fresh(c)
    PROVE  Stage(c, entry, data)
<1>1. \A n \in {c.name, c.to} : c.was[n] # Unknown => c.was[n] = Seen(n, entry, data)
  BY Zenon DEF Fresh, Asked, WorkIInv, Relied
<1>2. Lower[c.name] \in Name  BY WorkspaceAssumption, Zenon DEF Fresh, Asked
<1>3. c.was[Lower[c.name]] \in {Unknown, Seen(Lower[c.name], entry, data)}
  BY <1>2, Zenon DEF Fresh, WorkIInv, Relied
<1>. QED  BY <1>1, <1>3 DEF Fresh, Stage

(* A request that starts takes every handler it could disturb, and itself, *)
(* out of those that are alone.                                            *)
LEMMA BeginKeeps ==
    ASSUME WorkIInv, NEW h \in Call, NEW c, Fresh(c), Begin(h, c)
    PROVE  WorkIInv'
<1>. USE DEF WorkIInv
<1>. DEFINE Shared(g) == /\ Underway(call[g]) /\ Spots(c, entry) \cap Spots(call[g], entry) # {}
                         /\ (c.op \in Mutating \/ call[g].op \in Mutating)
            q(g) == call'[g]
<1>1. Asked(c, inodes) /\ c.pc \in {"open", "check"}  BY Zenon DEF Fresh
<1>2. /\ entry' = entry /\ data' = data /\ inodes' = inodes /\ DOMAIN call' = Call
      /\ call'[h] = [c EXCEPT !.alone = {g \in Call : Shared(g)} = {}]
      /\ \A g \in Call : g # h =>
            call'[g] = IF Shared(g) THEN [call[g] EXCEPT !.alone = FALSE]
                       ELSE IF Underway(call[g]) THEN call[g] ELSE Idle
  <2>1. NamesOf(c) = Spots(c, entry)  BY <1>1, SpotsAre, Zenon
  <2>2. \A g \in Call : Underway(call[g]) => NamesOf(call[g]) = Spots(call[g], entry)
    BY UnderwayAsked, SpotsAre, Zenon
  <2>3. {g \in Call : Shared(g)} =
          {g \in Call : /\ Underway(call[g]) /\ NamesOf(c) \cap NamesOf(call[g]) # {}
                        /\ {c.op, call[g].op} \cap Mutating # {}}
    BY <2>1, <2>2, Zenon
  <2>. HIDE DEF Shared
  <2>. QED  BY <2>3, Zenon DEF Begin
<1>3. expect' = [n \in Name |-> IF c.op \in Mutating /\ n \in Spots(c, entry) THEN Unknown ELSE expect[n]]
  BY <1>1, SpotsAre DEF Begin
<1>4. /\ Asked(q(h), inodes) /\ Underway(q(h)) /\ q(h).op = c.op /\ Spots(q(h), entry) = Spots(c, entry)
      /\ q(h).alone => \A g \in Call : ~ Shared(g)
      /\ Stage(q(h), entry, data)
  <2>1. q(h) = [c EXCEPT !.alone = q(h).alone] /\ q(h).alone \in BOOLEAN
        /\ (q(h).alone => \A g \in Call : ~ Shared(g))
    <3>. HIDE DEF Shared
    <3>. QED  BY <1>1, <1>2, Zenon DEF Asked
  <2>2. /\ q(h).op = c.op /\ q(h).name = c.name /\ q(h).to = c.to /\ q(h).content = c.content
        /\ q(h).edits = c.edits /\ q(h).pc = c.pc /\ q(h).inode = c.inode /\ q(h).at = c.at
        /\ q(h).dir = c.dir /\ q(h).found = c.found /\ q(h).status = c.status /\ q(h).was = c.was
    <3>. HIDE DEF q
    <3>. QED  BY <1>1, <2>1, Zenon DEF Asked
  <2>3. Asked(q(h), inodes)
    <3>. HIDE DEF q
    <3>. QED  BY <1>1, <2>1, <2>2, Zenon DEF Asked
  <2>4. Fresh(q(h))
    <3>. HIDE DEF q
    <3>. QED  BY <2>2, <2>3, Zenon DEF Fresh
  <2>5. Underway(q(h)) /\ Spots(q(h), entry) = Spots(c, entry)
    <3>. HIDE DEF q
    <3>. QED  BY <1>1, <2>2, Zenon DEF Underway, Spots
  <2>. QED  BY <2>1, <2>2, <2>3, <2>4, <2>5, FreshStage, Zenon
<1>5. ASSUME NEW g \in Call, g # h
      PROVE  /\ q(g) = Idle \/ Asked(q(g), inodes)
             /\ q(g).pc # "done"
             /\ Underway(q(g)) =>
                  /\ Underway(call[g]) /\ q(g).op = call[g].op /\ Spots(q(g), entry) = Spots(call[g], entry)
                  /\ q(g).alone => q(g) = call[g] /\ ~ Shared(g)
  <2>1. CASE ~ Underway(call[g])
    <3>1. q(g) = Idle  BY <1>2, <1>5, <2>1, Zenon
    <3>. QED  BY <3>1 DEF Idle, Underway
  <2>2. CASE Underway(call[g]) /\ ~ Shared(g)
    <3>1. q(g) = call[g]
      <4>. HIDE DEF Shared
      <4>. QED  BY <1>2, <1>5, <2>2, Zenon
    <3>2. Asked(call[g], inodes)  BY <2>2, UnderwayAsked, Zenon
    <3>3. q(g).pc # "done"  BY <2>2, <3>1, Zenon DEF Underway
    <3>. QED  BY <2>2, <3>1, <3>2, <3>3, Zenon
  <2>3. CASE Shared(g)
    <3>1. q(g) = [call[g] EXCEPT !.alone = FALSE] /\ Underway(call[g])  BY <1>2, <1>5, <2>3, Zenon
    <3>2. Asked(call[g], inodes)  BY <3>1, UnderwayAsked, Zenon
    <3>3. /\ q(g).op = call[g].op /\ q(g).name = call[g].name /\ q(g).to = call[g].to
          /\ q(g).content = call[g].content /\ q(g).edits = call[g].edits /\ q(g).pc = call[g].pc
          /\ q(g).inode = call[g].inode /\ q(g).at = call[g].at /\ q(g).dir = call[g].dir
          /\ q(g).found = call[g].found /\ q(g).status = call[g].status /\ q(g).was = call[g].was
          /\ q(g).alone = FALSE
      <4>. HIDE DEF q
      <4>. QED  BY <3>1, <3>2, ZenonT(60) DEF Asked
    <3>4. Asked(q(g), inodes)
      <4>. HIDE DEF q
      <4>. QED  BY <3>1, <3>2, <3>3, Zenon DEF Asked
    <3>5. Spots(q(g), entry) = Spots(call[g], entry) /\ q(g).pc # "done"
      <4>. HIDE DEF q
      <4>. QED  BY <3>1, <3>3, Zenon DEF Spots, Underway
    <3>. QED  BY <3>1, <3>3, <3>4, <3>5, Zenon
  <2>. QED  BY <2>1, <2>2, <2>3, Zenon
<1>6. Shape'
  <2>1. \A g \in Call : call'[g] = Idle \/ Asked(call'[g], inodes)  BY <1>4, <1>5, Zenon
  <2>2. DOMAIN expect' = Name  BY <1>3, Zenon
  <2>. QED  BY <1>2, <2>1, <2>2, Zenon DEF Shape
<1>7. Apart'
  <2>1. SUFFICES ASSUME NEW x \in Call, NEW y \in Call, x # y, Clash(q(x), q(y))
                 PROVE  Spots(q(x), entry) \cap Spots(q(y), entry) = {}
    BY <1>2, Zenon DEF Apart
  <2>2. Underway(q(x)) /\ Underway(q(y)) /\ q(x).alone /\ (q(x).op \in Mutating \/ q(y).op \in Mutating)
    BY <2>1, Zenon DEF Clash
  <2>3. CASE x = h  BY <1>4, <1>5, <2>1, <2>2, <2>3, Zenon
  <2>4. CASE y = h
    <3>1. ~ Shared(x) /\ Underway(call[x]) /\ q(x) = call[x]  BY <1>5, <2>1, <2>2, <2>4, Zenon
    <3>. QED  BY <1>4, <2>2, <2>4, <3>1, Zenon
  <2>5. CASE x # h /\ y # h
    <3>1. q(x) = call[x] /\ Underway(call[y]) /\ q(y).op = call[y].op /\ Spots(q(y), entry) = Spots(call[y], entry)
      BY <1>5, <2>2, <2>5, Zenon
    <3>2. Clash(call[x], call[y])
      <4>. HIDE DEF q
      <4>. QED  BY <2>2, <3>1, Zenon DEF Clash
    <3>. QED  BY <2>1, <3>1, <3>2, Zenon DEF Apart
  <2>. QED  BY <2>3, <2>4, <2>5, Zenon
<1>8. Relied'
  <2>1. SUFFICES ASSUME NEW n \in Name, expect'[n] # Unknown
                 PROVE  /\ expect'[n] = Seen(n, entry, data)
                        /\ \A g \in Call : Underway(q(g)) /\ q(g).op \in Mutating => n \notin Spots(q(g), entry)
    BY <1>2, Zenon DEF Relied
  <2>2. expect'[n] = expect[n] /\ ~ (c.op \in Mutating /\ n \in Spots(c, entry))  BY <1>3, <2>1, Zenon
  <2>3. /\ expect[n] = Seen(n, entry, data)
        /\ \A g \in Call : Underway(call[g]) /\ call[g].op \in Mutating => n \notin Spots(call[g], entry)
    BY <2>1, <2>2, Zenon DEF Relied
  <2>4. ASSUME NEW g \in Call, Underway(q(g)), q(g).op \in Mutating
        PROVE  n \notin Spots(q(g), entry)
    <3>1. CASE g = h  BY <1>4, <2>2, <2>4, <3>1, Zenon
    <3>2. CASE g # h
      <4>1. Underway(call[g]) /\ q(g).op = call[g].op /\ Spots(q(g), entry) = Spots(call[g], entry)
        BY <1>5, <2>4, <3>2, Zenon
      <4>. QED  BY <2>3, <2>4, <4>1, Zenon
    <3>. QED  BY <3>1, <3>2, Zenon
  <2>. QED  BY <2>2, <2>3, <2>4, Zenon
<1>9. Staged'
  <2>1. SUFFICES ASSUME NEW g \in Call, Underway(q(g)), q(g).alone
                 PROVE  Stage(q(g), entry, data)
    BY <1>2, Zenon DEF Staged
  <2>2. CASE g = h  BY <1>4, <2>2, Zenon
  <2>3. CASE g # h
    <3>1. q(g) = call[g] /\ Underway(call[g])  BY <1>5, <2>1, <2>3, Zenon
    <3>. QED  BY <2>1, <3>1, Zenon DEF Staged
  <2>. QED  BY <2>2, <2>3, Zenon
<1>10. Settled'
  <2>1. \A g \in Call : q(g).pc # "done"  BY <1>4, <1>5, Zenon DEF Underway
  <2>. QED  BY <2>1, Zenon DEF Settled
<1>. QED  BY <1>6, <1>7, <1>8, <1>9, <1>10, Zenon

(* A request as Start forms it. *)
LEMMA RequestKeeps ==
    ASSUME WorkIInv, NEW h \in Call, NEW op \in Mutating \cup {"read", "list", "archive"}, NEW n \in Name, NEW m \in Name,
           NEW content, NEW edits, NEW pc \in {"open", "check"},
           op \notin {"move", "archive"} => m = n, op \in {"write", "upload"} => content \in Contents,
           op = "replace" => pc = "check", Begin(h, Request(op, n, m, content, edits, pc))
    PROVE  WorkIInv'
<1>1. Fresh(Request(op, n, m, content, edits, pc))  BY DEF Fresh, Request, Asked, WorkIInv, Shape
<1>. QED  BY <1>1, BeginKeeps, Zenon

(* A request starts (the first step of every file handler). *)
LEMMA StartKeeps ==
    ASSUME WorkIInv, NEW h \in Call, Start(h)
    PROVE  WorkIInv'
<1>. USE DEF Mutating
<1>1. PICK n \in Name :
        \/ \E c \in Contents : Begin(h, Request("write", n, n, c, <<>>, "open"))
        \/ \E c \in Contents : Begin(h, Request("upload", n, n, c, <<>>, "open"))
        \/ \E e \in Edits : Begin(h, Request("replace", n, n, <<>>, e, "check"))
        \/ \E m \in Name : Begin(h, Request("move", n, m, <<>>, <<>>, "check"))
        \/ \E m \in Name : Begin(h, Request("archive", n, m, <<>>, <<>>, "check"))
        \/ \E op \in {"delete", "mkdir", "read", "list"} : Begin(h, Request(op, n, n, <<>>, <<>>, "check"))
  BY Zenon DEF Start
<1>2. ASSUME NEW c \in Contents, NEW op \in {"write", "upload"}, Begin(h, Request(op, n, n, c, <<>>, "open"))
      PROVE  WorkIInv'
  BY <1>2, RequestKeeps, Zenon
<1>3. ASSUME NEW e \in Edits, Begin(h, Request("replace", n, n, <<>>, e, "check"))
      PROVE  WorkIInv'
  BY <1>3, RequestKeeps, Zenon
<1>4. ASSUME NEW m \in Name, NEW op \in {"move", "archive"}, Begin(h, Request(op, n, m, <<>>, <<>>, "check"))
      PROVE  WorkIInv'
  BY <1>4, RequestKeeps, Zenon
<1>5. ASSUME NEW op \in {"delete", "mkdir", "read", "list"}, Begin(h, Request(op, n, n, <<>>, <<>>, "check"))
      PROVE  WorkIInv'
  BY <1>5, RequestKeeps, Zenon
<1>. QED  BY <1>1, <1>2, <1>3, <1>4, <1>5, Zenon

-----------------------------------------------------------------------------
(* A step that changes no file. *)
LEMMA QuietMoves ==
    ASSUME WorkIInv, NEW h \in Call, NEW r, Underway(call[h]), call' = [call EXCEPT ![h] = r],
           UNCHANGED <<entry, data, inodes>>, DOMAIN expect' = Name, Asked(r, inodes),
           r.op = call[h].op, r.name = call[h].name, r.to = call[h].to, r.was = call[h].was,
           r.alone => call[h].alone, r.inode \in {0, call[h].inode, entry[call[h].name]}
    PROVE  Moves(h, r)
<1>1. Shape'
  <2>1. \A g \in Call : call'[g] = Idle \/ Asked(call'[g], inodes)  BY Zenon DEF WorkIInv, Shape
  <2>. QED  BY <2>1, Zenon DEF WorkIInv, Shape
<1>. QED  BY <1>1, Zenon DEF Moves

(* A step that changes no file and does not answer. *)
LEMMA QuietGo ==
    ASSUME WorkIInv, NEW h \in Call, NEW r, Underway(call[h]), Go(h, r), UNCHANGED <<entry, data, inodes>>,
           Asked(r, inodes), Underway(r),
           r.op = call[h].op, r.name = call[h].name, r.to = call[h].to, r.was = call[h].was,
           r.alone => call[h].alone, r.inode \in {0, call[h].inode, entry[call[h].name]},
           r.alone => Stage(r, entry, data)
    PROVE  WorkIInv'
<1>1. DOMAIN expect' = Name  BY Zenon DEF Go, WorkIInv, Shape
<1>2. Moves(h, r)  BY <1>1, QuietMoves, Zenon DEF Go
<1>. QED  BY <1>2, GoKeeps, Zenon DEF Go

(* An answer says something of every name. *)
LEMMA FinishDomain ==
    ASSUME WorkIInv, NEW h \in Call, NEW c, NEW status, Finish(h, c, status)
    PROVE  DOMAIN expect' = Name
  BY Zenon DEF Finish, WorkIInv, Shape

(* An answer that comes without a change of the directory. *)
LEMMA QuietFinish ==
    ASSUME WorkIInv, NEW h \in Call, NEW c, NEW status, Underway(call[h]), Finish(h, c, status),
           UNCHANGED <<entry, data, inodes>>, Asked(c, inodes),
           c.op = call[h].op, c.name = call[h].name, c.to = call[h].to, c.was = call[h].was,
           c.alone => call[h].alone, Exact(c, status), Left(c, status, entry, data)
    PROVE  WorkIInv'
<1>. DEFINE r == Answered(c, status)
<1>1. Asked(r, inodes)  BY AnsweredAsked DEF WorkIInv, Shape
<1>2. r.inode = 0 /\ r.alone = c.alone /\ r.op = c.op /\ r.name = c.name /\ r.to = c.to /\ r.was = c.was
  BY AnsweredSame
<1>3. call' = [call EXCEPT ![h] = r] /\ DOMAIN expect' = Name
  BY FinishDomain, Zenon DEF Finish, Answered
<1>. HIDE DEF r
<1>4. Moves(h, r)  BY <1>1, <1>2, <1>3, QuietMoves, Zenon
<1>. QED  BY <1>4, FinishKeeps, Zenon DEF r

(* A refusal that the reference also gives. *)
Refuses(h, status) ==
    /\ Underway(call[h]) /\ call[h].pc # "put" /\ status # 200
    /\ Finish(h, call[h], status) /\ UNCHANGED <<entry, data, inodes>>
    /\ call[h].alone /\ Known(call[h]) => Serial(call[h], call[h].was) = Outcome(status, call[h].was, <<>>)

(* Such a refusal keeps the invariant. *)
LEMMA Refused ==
    ASSUME WorkIInv, NEW h \in Call, NEW status, Refuses(h, status)
    PROVE  WorkIInv'
<1>. USE DEF Refuses
<1>1. Asked(call[h], inodes)  BY UnderwayAsked, Zenon DEF WorkIInv
<1>2. Exact(call[h], status)  BY DEF Exact, Outcome
<1>3. call[h].alone => \A n \in {call[h].name, call[h].to} : call[h].was[n] # Unknown => call[h].was[n] = Seen(n, entry, data)
  BY Zenon DEF WorkIInv, Staged, Stage
<1>4. Left(call[h], status, entry, data)  BY <1>3 DEF Left, Known, Consulted, Mutating, Outcome
<1>. QED  BY <1>1, <1>2, <1>4, QuietFinish, Zenon

(* What the checks of a handler see, and what it was told was there. *)
LEMMA AloneSees ==
    ASSUME WorkIInv, NEW h \in Call, Underway(call[h]), call[h].alone, call[h].pc # "put",
           NEW n \in {call[h].name, call[h].to}, call[h].was[n] # Unknown
    PROVE  /\ call[h].was[n] = Seen(n, entry, data)
           /\ entry[n] = NoEntry <=> call[h].was[n] = Missing
           /\ entry[n] = DirEntry <=> call[h].was[n].kind = "dir"
           /\ entry[n] \in 1..MaxInode <=> call[h].was[n].kind = "file"
           /\ call[h].was[n].body = Bytes(n, entry, data)
<1>1. call[h].was[n] = Seen(n, entry, data)  BY Zenon DEF WorkIInv, Staged, Stage
<1>2. Asked(call[h], inodes)  BY UnderwayAsked, Zenon DEF WorkIInv
<1>3. n \in Name  BY <1>2, Zenon DEF Asked
<1>4. entry[n] \in 0..MaxInode + 1  BY <1>3, Zenon DEF WorkIInv, Shape
<1>. QED  BY <1>1, <1>4, WorkspaceAssumption DEF Seen, Missing, View, NoEntry, DirEntry, Bytes

(* The replace handler reads the file and edits it. *)
LEMMA LoadKeeps ==
    ASSUME WorkIInv, NEW h \in Call, Load(h)
    PROVE  WorkIInv'
<1>. DEFINE c == call[h]
<1>1. c.op = "replace" /\ Underway(c) /\ c.pc # "put"  BY Zenon DEF Load, At, Underway
<1>2. Asked(c, inodes)  BY <1>1, UnderwayAsked, Zenon DEF WorkIInv
<1>3. c.alone => Stage(c, entry, data)  BY <1>1, Zenon DEF WorkIInv, Staged
<1>4. c.name \in Name /\ c.to = c.name  BY <1>1, <1>2, Zenon DEF Asked
<1>5. c.alone /\ Known(c) =>
        /\ c.was[c.name].kind = "file" <=> entry[c.name] \in 1..MaxInode
        /\ c.was[c.name].body = Bytes(c.name, entry, data)
  BY <1>1, AloneSees, Zenon DEF Known, Consulted
<1>6. CASE c.pc = "check" /\ entry[c.name] \in 1..MaxInode
  <2>. DEFINE r == [c EXCEPT !.pc = "load"]
  <2>1. Go(h, r) /\ UNCHANGED <<entry, data, inodes>>  BY <1>1, <1>6, ZenonT(60) DEF Load, At, IsFile
  <2>2. /\ Later(c, r) /\ r.pc = "load" /\ r.inode = c.inode /\ r.at = c.at /\ r.alone = c.alone
        /\ r.content = c.content /\ r.found = c.found
    BY <1>2, Zenon DEF Asked, Later
  <2>. HIDE DEF r
  <2>3. Asked(r, inodes) /\ r.op = c.op /\ r.name = c.name /\ r.to = c.to /\ r.was = c.was
    <3>1. c.inode \in 0..inodes /\ c.at \in Nat /\ c.alone \in BOOLEAN  BY <1>2, Zenon DEF Asked
    <3>. HIDE DEF c
    <3>. QED  BY <1>2, <2>2, <3>1, LaterAsked, Zenon
  <2>4. r.alone => Stage(r, entry, data)
    <3>. HIDE DEF c
    <3>. QED  BY <1>1, <1>3, <1>6, <2>2, <2>3, ZenonT(60) DEF Stage
  <2>5. Underway(r)  BY <2>2, Zenon DEF Underway
  <2>. QED  BY <1>1, <2>1, <2>2, <2>3, <2>4, <2>5, QuietGo, Zenon
<1>7. CASE c.pc = "check" /\ entry[c.name] \notin 1..MaxInode
  <2>1. Finish(h, c, 404) /\ UNCHANGED <<entry, data, inodes>>  BY <1>1, <1>7, Zenon DEF Load, At, IsFile, Fail
  <2>2. c.alone /\ Known(c) => Serial(c, c.was) = Outcome(404, c.was, <<>>)
    <3>. HIDE DEF c
    <3>. QED  BY <1>1, <1>5, <1>7, Zenon DEF Serial
  <2>3. Refuses(h, 404)  BY <1>1, <2>1, <2>2 DEF Refuses
  <2>. QED  BY <2>3, Refused, Zenon
<1>8. CASE c.pc = "load" /\ entry[c.name] \in 1..MaxInode /\ Applied(data[entry[c.name]], c.edits).ok
  <2>. DEFINE r == [c EXCEPT !.pc = "open", !.content = Applied(data[entry[c.name]], c.edits).text]
  <2>1. Go(h, r) /\ UNCHANGED <<entry, data, inodes>>  BY <1>1, <1>8, Zenon DEF Load, At, IsFile
  <2>2. /\ Later(c, r) /\ r.pc = "open" /\ r.inode = c.inode /\ r.at = c.at /\ r.alone = c.alone
        /\ r.content = Applied(data[entry[c.name]], c.edits).text /\ r.found = c.found
    BY <1>2, ZenonT(60) DEF Asked, Later
  <2>. HIDE DEF r
  <2>3. /\ Asked(r, inodes) /\ r.op = c.op /\ r.name = c.name /\ r.to = c.to /\ r.was = c.was
        /\ r.edits = c.edits
    <3>1. c.inode \in 0..inodes /\ c.at \in Nat /\ c.alone \in BOOLEAN  BY <1>2, Zenon DEF Asked
    <3>. HIDE DEF c
    <3>. QED  BY <1>1, <1>2, <2>2, <3>1, LaterAsked, ZenonT(60)
  <2>4. r.alone => Stage(r, entry, data)
    <3>. HIDE DEF c
    <3>. QED  BY <1>1, <1>3, <1>8, <2>2, <2>3, ZenonT(60) DEF Stage
  <2>5. Underway(r)  BY <2>2, Zenon DEF Underway
  <2>. QED  BY <1>1, <2>1, <2>2, <2>3, <2>4, <2>5, QuietGo, Zenon
<1>9. CASE c.pc = "load" /\ ~ (entry[c.name] \in 1..MaxInode /\ Applied(data[entry[c.name]], c.edits).ok)
  <2>1. Finish(h, c, 400) /\ UNCHANGED <<entry, data, inodes>>  BY <1>1, <1>9, Zenon DEF Load, At, IsFile, Fail
  <2>2. c.alone => entry[c.name] \in 1..MaxInode  BY <1>1, <1>3, <1>9, Zenon DEF Stage
  <2>3. c.alone /\ Known(c) => Serial(c, c.was) = Outcome(400, c.was, <<>>)
    <3>. HIDE DEF c
    <3>1. SUFFICES ASSUME c.alone, Known(c)
                   PROVE  Serial(c, c.was) = Outcome(400, c.was, <<>>)
      OBVIOUS
    <3>2. c.was[c.name].kind = "file" /\ ~ Applied(c.was[c.name].body, c.edits).ok
      BY <1>5, <1>9, <2>2, <3>1, Zenon DEF Bytes
    <3>. QED  BY <1>1, <3>2, Zenon DEF Serial
  <2>4. Refuses(h, 400)  BY <1>1, <2>1, <2>3 DEF Refuses
  <2>. QED  BY <2>4, Refused, Zenon
<1>. QED  BY <1>1, <1>6, <1>7, <1>8, <1>9, Zenon DEF Load, At

-----------------------------------------------------------------------------
(* Bytes. *)
LEMMA NoBytes ==
    ASSUME NEW s
    PROVE  [i \in 1..0 |-> s[i]] = <<>>
  OBVIOUS

(* Bytes written over nothing are the file. *)
LEMMA OverNothing ==
    ASSUME NEW S, NEW s \in Seq(S)
    PROVE  Over(<<>>, 0, s) = s
<1>1. Len(s) \in Nat /\ DOMAIN s = 1..Len(s)  OBVIOUS
<1>2. Over(<<>>, 0, s) = [i \in 1..Len(s) |-> s[i]]  BY <1>1 DEF Over
<1>. QED  BY <1>1, <1>2

(* A chunk written behind the first ones makes them one longer. *)
LEMMA OverNext ==
    ASSUME NEW S, NEW s \in Seq(S), NEW k \in Nat, k < Len(s)
    PROVE  Over([i \in 1..k |-> s[i]], k, <<s[k + 1]>>) = [i \in 1..k + 1 |-> s[i]]
<1>. DEFINE old == [i \in 1..k |-> s[i]]
            new == <<s[k + 1]>>
<1>1. Len(s) \in Nat  OBVIOUS
<1>2. Len(new) = 1 /\ new[1] = s[k + 1]  OBVIOUS
<1>3. old \in Seq(S) /\ Len(old) = k  BY <1>1
<1>4. \A i \in 1..k : old[i] = s[i]  OBVIOUS
<1>. HIDE DEF old, new
<1>5. Over(old, k, new) = [i \in 1..k + 1 |-> IF i \in k + 1..k + 1 THEN new[i - k] ELSE IF i <= k THEN old[i] ELSE Hole]
  BY <1>2, <1>3 DEF Over
<1>6. \A i \in 1..k + 1 : (IF i \in k + 1..k + 1 THEN new[i - k] ELSE IF i <= k THEN old[i] ELSE Hole) = s[i]
  BY <1>2, <1>4
<1>7. Over(old, k, new) = [i \in 1..k + 1 |-> s[i]]  BY <1>5, <1>6, Zenon
<1>. QED  BY <1>7, Zenon DEF old, new

(* What a client sends is a sequence of bytes, so it can be written at     *)
(* once or byte by byte.                                                   *)
LEMMA ContentsAre ==
    ASSUME NEW s \in Contents
    PROVE  /\ Len(s) \in Nat /\ [i \in 1..Len(s) |-> s[i]] = s
           /\ Over(<<>>, 0, s) = s
           /\ \A k \in Nat : k < Len(s) => Over([i \in 1..k |-> s[i]], k, <<s[k + 1]>>) = [i \in 1..k + 1 |-> s[i]]
<1>. DEFINE S == UNION {Range(c) : c \in Contents}
<1>1. s \in Seq(S)  BY WorkspaceAssumption, Zenon
<1>. HIDE DEF S
<1>2. Len(s) \in Nat /\ [i \in 1..Len(s) |-> s[i]] = s  BY <1>1
<1>. QED  BY <1>1, <1>2, OverNothing, OverNext, Zenon

(* A request stays one when files are created. *)
LEMMA AskedMore ==
    ASSUME NEW c, NEW top \in Nat, NEW more \in Nat, top <= more, Asked(c, top)
    PROVE  Asked(c, more)
<1>1. c.inode \in 0..more  BY DEF Asked
<1>. QED  BY <1>1, Zenon DEF Asked

(* The shape after a step that may change entries and data. *)
LEMMA ShapeNext ==
    ASSUME WorkIInv, NEW h \in Call, NEW r, call' = [call EXCEPT ![h] = r],
           inodes' \in inodes..MaxInode, Asked(r, inodes'), entry' \in [Name -> 0..MaxInode + 1],
           DOMAIN data' = 1..MaxInode, DOMAIN expect' = Name,
           \A n \in Name : entry'[n] \in 1..MaxInode => entry'[n] <= inodes',
           \A n, m \in Name : entry'[n] \in 1..MaxInode /\ entry'[n] = entry'[m] => n = m
    PROVE  Shape'
<1>1. inodes \in Nat /\ inodes' \in 0..MaxInode /\ inodes <= inodes'
  BY WorkspaceAssumption DEF WorkIInv, Shape
<1>2. \A g \in Call : call'[g] = Idle \/ Asked(call'[g], inodes')
  BY <1>1, AskedMore DEF WorkIInv, Shape
<1>3. DOMAIN call' = Call  BY Zenon DEF WorkIInv, Shape
<1>. QED  BY <1>1, <1>2, <1>3, Zenon DEF Shape

(* The name is opened: created, or cut to nothing (io.rs write_file,       *)
(* upload; tools.rs replace).                                              *)
LEMMA OpeningKeeps ==
    ASSUME WorkIInv, NEW h \in Call, Open(h)
    PROVE  WorkIInv'
<1>. DEFINE c == call[h]
            n == c.name
<1>1. c.op \in {"write", "upload", "replace"} /\ c.pc = "open" /\ Underway(c)  BY Zenon DEF Open, At, Underway
<1>2. Asked(c, inodes)  BY <1>1, UnderwayAsked, Zenon DEF WorkIInv
<1>3. c.alone => Stage(c, entry, data)  BY <1>1, Zenon DEF WorkIInv, Staged
<1>4. n \in Name /\ c.to = n /\ c.op \in Mutating  BY <1>1, <1>2, Zenon DEF Asked, Mutating
<1>5. c.alone /\ c.was[n] # Unknown =>
        /\ c.was[n].kind = "dir" <=> entry[n] = DirEntry
        /\ c.was[n].kind = "file" <=> entry[n] \in 1..MaxInode
        /\ c.was[n].body = Bytes(n, entry, data)
  BY <1>1, AloneSees, Zenon
<1>6. CASE entry[n] = DirEntry
  <2>. DEFINE status == IF c.op = "write" THEN 500 ELSE 400
  <2>1. Finish(h, c, status) /\ UNCHANGED <<entry, data, inodes>>  BY <1>6, Zenon DEF Open, Fail
  <2>2. c.alone => c.op # "replace"
    BY <1>1, <1>3, <1>6, WorkspaceAssumption DEF Stage, DirEntry
  <2>3. c.alone /\ Known(c) => Serial(c, c.was) = Outcome(status, c.was, <<>>)
    <3>1. Known(c) => c.was[n] # Unknown  BY <1>1, Zenon DEF Known, Consulted
    <3>. HIDE DEF c
    <3>. QED  BY <1>1, <1>5, <1>6, <2>2, <3>1, ZenonT(60) DEF Serial
  <2>4. status # 200  OBVIOUS
  <2>5. Refuses(h, status)  BY <1>1, <2>1, <2>3, <2>4, Zenon DEF Refuses
  <2>. QED  BY <2>5, Refused, ZenonT(60)
<1>7. CASE entry[n] # DirEntry
  <2>. DEFINE inode == IF IsFile(n) THEN entry[n] ELSE inodes + 1
              r == [c EXCEPT !.pc = "put", !.inode = inode]
  <2>1. /\ inode <= MaxInode /\ Go(h, r)
        /\ entry' = [entry EXCEPT ![n] = inode] /\ data' = [data EXCEPT ![inode] = <<>>]
        /\ inodes' = IF IsFile(n) THEN inodes ELSE inode
    BY <1>1, <1>7, Zenon DEF Open
  <2>2. /\ Later(c, r) /\ r.pc = "put" /\ r.inode = inode /\ r.at = c.at /\ r.alone = c.alone
        /\ r.content = c.content /\ r.found = c.found
    BY <1>2, ZenonT(60) DEF Asked, Later
  <2>3. /\ inode \in 1..MaxInode /\ inode <= inodes' /\ inodes' \in inodes..MaxInode
        /\ IF IsFile(n) THEN inode = entry[n] ELSE inode = inodes + 1
    BY <1>4, <2>1, WorkspaceAssumption DEF IsFile, WorkIInv, Shape
  <2>. HIDE DEF inode, r
  <2>4. Asked(r, inodes') /\ r.op = c.op /\ r.name = n /\ r.to = n /\ r.was = c.was /\ r.edits = c.edits
    <3>1. inode \in 0..inodes' /\ c.at \in Nat /\ c.alone \in BOOLEAN
      BY <1>2, <2>3, WorkspaceAssumption DEF Asked, WorkIInv, Shape
    <3>. HIDE DEF c
    <3>. QED  BY <1>2, <1>4, <2>2, <3>1, LaterAsked, Zenon
  <2>5. /\ entry' \in [Name -> 0..MaxInode + 1] /\ DOMAIN data' = 1..MaxInode /\ DOMAIN expect' = Name
        /\ entry'[n] = inode /\ data'[inode] = <<>>
        /\ \A m \in Name \ {n} : entry'[m] = entry[m]
        /\ \A i \in 1..MaxInode : i # inode => data'[i] = data[i]
    <3>1. inode \in 0..MaxInode + 1  BY <2>3, WorkspaceAssumption
    <3>. HIDE DEF c
    <3>. QED  BY <1>4, <2>1, <2>3, <3>1, Zenon DEF WorkIInv, Shape, Go
  <2>6. \A m \in Name : entry[m] = inode => IsFile(n) /\ m = n
    BY <1>4, <2>3, WorkspaceAssumption DEF WorkIInv, Shape, IsFile
  <2>7. \A m \in Name : entry'[m] \in 1..MaxInode => entry'[m] <= inodes'
    <3>. SUFFICES ASSUME NEW m \in Name, entry'[m] \in 1..MaxInode
                  PROVE  entry'[m] <= inodes'
      OBVIOUS
    <3>. HIDE DEF c
    <3>1. CASE m = n  BY <2>3, <2>5, <3>1, Zenon
    <3>2. CASE m # n
      <4>1. entry'[m] = entry[m] /\ entry[m] <= inodes  BY <1>4, <2>5, <3>2, Zenon DEF WorkIInv, Shape
      <4>2. inodes \in Nat /\ entry[m] \in Nat  BY <1>4, <4>1, WorkspaceAssumption DEF WorkIInv, Shape
      <4>. QED  BY <2>3, <4>1, <4>2, WorkspaceAssumption
    <3>. QED  BY <3>1, <3>2, Zenon
  <2>8. \A m, k \in Name : entry'[m] \in 1..MaxInode /\ entry'[m] = entry'[k] => m = k
    BY <1>4, <2>3, <2>5, <2>6 DEF WorkIInv, Shape
  <2>9. Shape'  BY <2>1, <2>3, <2>4, <2>5, <2>7, <2>8, ShapeNext, Zenon DEF Go
  <2>10. Moves(h, r)
    <3>1. \A m \in Name : entry'[m] # entry[m] => m = n /\ entry'[m] \notin 1..inodes
      BY <2>3, <2>5, WorkspaceAssumption DEF IsFile, WorkIInv, Shape
    <3>2. \A i \in 1..inodes : data'[i] # data[i] => i = entry[n]
      BY <2>3, <2>5, WorkspaceAssumption DEF WorkIInv, Shape
    <3>. QED  BY <1>1, <1>4, <2>1, <2>2, <2>4, <2>5, <2>9, <3>1, <3>2, Zenon DEF Moves, Go
  <2>11. r.alone => Stage(r, entry', data')
    <3>1. SUFFICES ASSUME r.alone
                   PROVE  Stage(r, entry', data')
      OBVIOUS
    <3>2. c.at = 0 /\ c.found = <<>>  BY <1>1, <1>3, <2>2, <3>1, Zenon DEF Stage
    <3>3. data'[inode] = [i \in 1..r.at |-> r.content[i]]  BY <2>2, <2>5, <3>2, NoBytes
    <3>4. r.op = "upload" => r.at <= Len(r.content)
      BY <1>2, <2>2, <2>4, <3>2, ContentsAre DEF Asked
    <3>5. ASSUME c.was[n] # Unknown
          PROVE  IF c.op = "replace" THEN /\ c.was[n].kind = "file"
                                          /\ Applied(c.was[n].body, c.edits).ok
                                          /\ Applied(c.was[n].body, c.edits).text = c.content
                 ELSE c.was[n].kind # "dir"
      <4>. HIDE DEF c
      <4>. QED  BY <1>1, <1>3, <1>5, <1>7, <2>2, <3>1, <3>5, Zenon DEF Stage, Bytes, n
    <3>6. inode # 0  BY <2>3
    <3>. HIDE DEF c
    <3>. QED  BY <1>1, <2>2, <2>4, <2>5, <3>2, <3>3, <3>4, <3>5, <3>6, ZenonT(60) DEF Stage
  <2>12. Underway(r) /\ UNCHANGED expect  BY <2>1, <2>2, Zenon DEF Underway, Go
  <2>. QED  BY <2>10, <2>11, <2>12, GoKeeps, Zenon
<1>. QED  BY <1>6, <1>7, Zenon

(* An answer that comes with a change of the directory. *)
Changes(h, status) ==
    /\ Underway(call[h]) /\ call[h].op \in Mutating
    /\ Finish(h, call[h], status) /\ inodes' = inodes
    /\ entry' \in [Name -> 0..MaxInode + 1] /\ DOMAIN data' = 1..MaxInode
    /\ \A n \in Name : entry'[n] \in 1..MaxInode => entry'[n] <= inodes
    /\ \A n, m \in Name : entry'[n] \in 1..MaxInode /\ entry'[n] = entry'[m] => n = m
    /\ \A n \in Name : entry'[n] # entry[n] =>
         /\ n \in {call[h].name, call[h].to}
         /\ entry'[n] \in 1..inodes => n = call[h].to /\ entry'[n] = entry[call[h].name]
    /\ \A i \in 1..inodes : data'[i] # data[i] => i = call[h].inode

(* Such an answer is a step of its handler. *)
LEMMA FinishMoves ==
    ASSUME WorkIInv, NEW h \in Call, NEW status, Changes(h, status)
    PROVE  Moves(h, Answered(call[h], status))
<1>. USE DEF Changes
<1>. DEFINE r == Answered(call[h], status)
<1>1. Asked(call[h], inodes)  BY UnderwayAsked, Zenon DEF WorkIInv
<1>2. inodes \in Nat /\ inodes' \in inodes..MaxInode  BY WorkspaceAssumption DEF WorkIInv, Shape
<1>3. Asked(r, inodes')  BY <1>1, <1>2, AnsweredAsked, Zenon
<1>4. /\ r.op = call[h].op /\ r.name = call[h].name /\ r.to = call[h].to /\ r.was = call[h].was
      /\ r.alone = call[h].alone /\ r.inode = 0
  BY <1>1, AnsweredSame
<1>5. call' = [call EXCEPT ![h] = r] /\ DOMAIN expect' = Name
  BY FinishDomain, ZenonT(60) DEF Finish, Answered
<1>. HIDE DEF r
<1>6. Shape'  BY <1>2, <1>3, <1>5, ShapeNext, Zenon
<1>7. Moves(h, r)  BY <1>4, <1>5, <1>6, Zenon DEF Moves
<1>. QED  BY <1>7, Zenon DEF r

(* The bytes are written, all at once or as they arrive (io.rs write_file  *)
(* and upload; tools.rs replace).                                          *)
LEMMA PutKeeps ==
    ASSUME WorkIInv, NEW h \in Call, Put(h)
    PROVE  WorkIInv'
<1>. DEFINE c == call[h]
            n == c.name
<1>1. c.op \in {"write", "replace"} /\ c.pc = "put" /\ Underway(c) /\ c.op \in Mutating
  BY Zenon DEF Put, At, Underway, Mutating
<1>2. Asked(c, inodes)  BY <1>1, UnderwayAsked, Zenon DEF WorkIInv
<1>3. c.alone => Stage(c, entry, data)  BY <1>1, Zenon DEF WorkIInv, Staged
<1>4. n \in Name /\ c.to = n /\ c.inode \in 0..inodes /\ DOMAIN c.was = Name  BY <1>1, <1>2, Zenon DEF Asked
<1>5. /\ data' = [data EXCEPT ![c.inode] = Over(data[c.inode], 0, c.content)]
      /\ Finish(h, c, 200) /\ entry' = entry /\ inodes' = inodes
  BY Zenon DEF Put
<1>6. Moves(h, Answered(c, 200))
  <2>1. DOMAIN data' = 1..MaxInode  BY <1>5, Zenon DEF WorkIInv, Shape
  <2>2. \A i \in 1..inodes : data'[i] # data[i] => i = c.inode
    BY <1>5, WorkspaceAssumption DEF WorkIInv, Shape
  <2>3. Changes(h, 200)  BY <1>1, <1>5, <2>1, <2>2, Zenon DEF WorkIInv, Shape, Changes
  <2>. QED  BY <2>3, FinishMoves, ZenonT(60)
<1>7. c.alone => /\ c.found = <<>> /\ entry[n] \in 1..MaxInode
                 /\ data'[entry[n]] = Over(<<>>, 0, c.content)
  <2>1. SUFFICES ASSUME c.alone
                 PROVE  /\ c.found = <<>> /\ entry[n] \in 1..MaxInode
                        /\ data'[entry[n]] = Over(<<>>, 0, c.content)
    OBVIOUS
  <2>2. /\ c.found = <<>> /\ c.inode # 0 /\ entry[n] = c.inode /\ c.at = 0
        /\ data[c.inode] = [i \in 1..c.at |-> c.content[i]]
    <3>. HIDE DEF c
    <3>. QED  BY <1>1, <1>3, <2>1, Zenon DEF Stage, n
  <2>3. c.inode \in 1..MaxInode  BY <1>4, <2>2, WorkspaceAssumption DEF WorkIInv, Shape
  <2>4. data[c.inode] = <<>>  BY <2>2, NoBytes, Zenon
  <2>. QED  BY <1>5, <2>2, <2>3, <2>4, Zenon DEF WorkIInv, Shape
<1>8. c.alone => Seen(n, entry', data') = View("file", Over(<<>>, 0, c.content))
  BY <1>5, <1>7, WorkspaceAssumption DEF Seen, NoEntry, DirEntry
<1>9. c.op = "write" => Over(<<>>, 0, c.content) = c.content  BY <1>2, ContentsAre, Zenon DEF Asked
<1>10. c.alone /\ Known(c) =>
         Serial(c, c.was) = Outcome(200, [c.was EXCEPT ![n] = View("file", Over(<<>>, 0, c.content))], <<>>)
  <2>1. SUFFICES ASSUME c.alone, Known(c)
                 PROVE  Serial(c, c.was) = Outcome(200, [c.was EXCEPT ![n] = View("file", Over(<<>>, 0, c.content))], <<>>)
    OBVIOUS
  <2>2. c.was[n] # Unknown  BY <1>1, <2>1, Zenon DEF Known, Consulted
  <2>3. IF c.op = "replace" THEN /\ c.was[n].kind = "file"
                                 /\ Applied(c.was[n].body, c.edits).ok
                                 /\ Applied(c.was[n].body, c.edits).text = c.content
        ELSE c.was[n].kind # "dir"
    <3>. HIDE DEF c
    <3>. QED  BY <1>1, <1>3, <2>1, <2>2, Zenon DEF Stage, n
  <2>4. CASE c.op = "replace"
    <3>. HIDE DEF c
    <3>. QED  BY <2>3, <2>4, ZenonT(60) DEF Serial, n
  <2>5. CASE c.op = "write"
    <3>. HIDE DEF c
    <3>. QED  BY <1>9, <2>3, <2>5, Zenon DEF Serial, n
  <2>. QED  BY <1>1, <2>4, <2>5, Zenon
<1>11. Exact(c, 200)
  <2>. HIDE DEF c
  <2>. QED  BY <1>7, <1>10 DEF Exact, Outcome
<1>12. Left(c, 200, entry', data')
  <2>1. Result(c) = IF c.op = "write" THEN View("file", c.content) ELSE Unknown  BY <1>1, Zenon DEF Result
  <2>. HIDE DEF c
  <2>. QED  BY <1>4, <1>8, <1>9, <1>10, <2>1 DEF Left, Outcome, n
<1>. QED  BY <1>2, <1>5, <1>6, <1>11, <1>12, FinishKeeps, ZenonT(60)

(* The chunks of an upload. *)
LEMMA PutChunkKeeps ==
    ASSUME WorkIInv, NEW h \in Call, PutChunk(h)
    PROVE  WorkIInv'
<1>. DEFINE c == call[h]
            n == c.name
<1>1. c.op = "upload" /\ c.pc = "put" /\ Underway(c) /\ c.op \in Mutating
  BY Zenon DEF PutChunk, At, Underway, Mutating
<1>2. Asked(c, inodes)  BY <1>1, UnderwayAsked, Zenon DEF WorkIInv
<1>3. c.alone => Stage(c, entry, data)  BY <1>1, Zenon DEF WorkIInv, Staged
<1>4. /\ n \in Name /\ c.to = n /\ c.inode \in 0..inodes /\ DOMAIN c.was = Name /\ c.content \in Contents
      /\ c.at \in Nat /\ c.alone \in BOOLEAN
  BY <1>1, <1>2, Zenon DEF Asked
<1>5. c.alone => /\ c.found = <<>> /\ c.inode \in 1..MaxInode /\ entry[n] = c.inode
                 /\ data[c.inode] = [i \in 1..c.at |-> c.content[i]]
                 /\ c.was[n] # Unknown => c.was[n].kind # "dir"
  <2>1. c.alone => /\ c.found = <<>> /\ c.inode # 0 /\ entry[n] = c.inode
                   /\ data[c.inode] = [i \in 1..c.at |-> c.content[i]]
                   /\ c.was[n] # Unknown => c.was[n].kind # "dir"
    <3>. HIDE DEF c
    <3>. QED  BY <1>1, <1>3, Zenon DEF Stage, n
  <2>. QED  BY <1>4, <2>1, WorkspaceAssumption DEF WorkIInv, Shape
<1>6. CASE /\ c.at < Len(c.content)
           /\ data' = [data EXCEPT ![c.inode] = Over(data[c.inode], c.at, <<c.content[c.at + 1]>>)]
           /\ Go(h, [c EXCEPT !.at = c.at + 1])
           /\ UNCHANGED <<entry, inodes, requests>>
  <2>. DEFINE r == [c EXCEPT !.at = c.at + 1]
  <2>1. /\ Later(c, r) /\ r.pc = c.pc /\ r.inode = c.inode /\ r.at = c.at + 1 /\ r.alone = c.alone
        /\ r.content = c.content /\ r.found = c.found
    BY <1>2, ZenonT(60) DEF Asked, Later
  <2>2. Go(h, r) /\ call' = [call EXCEPT ![h] = r]  BY <1>6, Zenon DEF Go
  <2>. HIDE DEF r
  <2>3. Asked(r, inodes) /\ r.op = c.op /\ r.name = n /\ r.to = n /\ r.was = c.was /\ r.edits = c.edits
    <3>1. c.at + 1 \in Nat /\ c.pc # "idle"  BY <1>1, <1>4
    <3>. HIDE DEF c
    <3>. QED  BY <1>2, <1>4, <2>1, <3>1, LaterAsked, ZenonT(60) DEF n
  <2>4. DOMAIN data' = 1..MaxInode /\ DOMAIN expect' = Name  BY <1>6, Zenon DEF WorkIInv, Shape, Go
  <2>5. \A i \in 1..inodes : data'[i] # data[i] => i = c.inode
    BY <1>6, WorkspaceAssumption DEF WorkIInv, Shape
  <2>6. inodes' \in inodes..MaxInode /\ entry' = entry /\ inodes' = inodes
    BY <1>6, WorkspaceAssumption DEF WorkIInv, Shape
  <2>7. Shape'  BY <2>2, <2>3, <2>4, <2>6, ShapeNext, Zenon DEF WorkIInv, Shape
  <2>8. Moves(h, r)  BY <1>1, <2>1, <2>2, <2>3, <2>5, <2>6, <2>7, <1>4, Zenon DEF Moves
  <2>9. ASSUME c.alone
        PROVE  Stage(r, entry', data')
    <3>1. data'[c.inode] = Over([i \in 1..c.at |-> c.content[i]], c.at, <<c.content[c.at + 1]>>)
      BY <1>5, <1>6, <2>9, Zenon DEF WorkIInv, Shape
    <3>2. data'[c.inode] = [i \in 1..c.at + 1 |-> c.content[i]]
      BY <1>4, <1>6, <3>1, ContentsAre, Zenon
    <3>3. c.at + 1 <= Len(c.content)  BY <1>4, <1>6, ContentsAre
    <3>4. c.inode # 0  BY <1>5, <2>9
    <3>. HIDE DEF c
    <3>. QED  BY <1>1, <1>5, <2>1, <2>3, <2>6, <2>9, <3>2, <3>3, <3>4, ZenonT(60) DEF Stage, n
  <2>10. Underway(r) /\ UNCHANGED expect  BY <1>1, <2>1, <2>2, Zenon DEF Underway, Go
  <2>. QED  BY <2>1, <2>8, <2>9, <2>10, GoKeeps, Zenon
<1>7. CASE c.at = Len(c.content) /\ Fail(h, 200)
  <2>1. Finish(h, c, 200) /\ UNCHANGED <<entry, data, inodes>>  BY <1>7, Zenon DEF Fail
  <2>2. c.alone => Seen(n, entry, data) = View("file", c.content)
    <3>1. c.alone => data[c.inode] = c.content  BY <1>4, <1>5, <1>7, ContentsAre, Zenon
    <3>. QED  BY <1>5, <3>1, WorkspaceAssumption DEF Seen, NoEntry, DirEntry
  <2>3. c.alone /\ Known(c) => Serial(c, c.was) = Outcome(200, [c.was EXCEPT ![n] = View("file", c.content)], <<>>)
    <3>1. Known(c) => c.was[n] # Unknown  BY <1>1, Zenon DEF Known, Consulted
    <3>. HIDE DEF c
    <3>. QED  BY <1>1, <1>5, <3>1, Zenon DEF Serial, n
  <2>4. Exact(c, 200)
    <3>. HIDE DEF c
    <3>. QED  BY <1>5, <2>3 DEF Exact, Outcome
  <2>5. Left(c, 200, entry, data)
    <3>1. Result(c) = View("file", c.content)  BY <1>1, Zenon DEF Result
    <3>. HIDE DEF c
    <3>. QED  BY <1>4, <2>2, <2>3, <3>1 DEF Left, Outcome, n
  <2>. QED  BY <1>1, <1>2, <2>1, <2>4, <2>5, QuietFinish, ZenonT(60)
<1>8. CASE Finish(h, [c EXCEPT !.alone = FALSE], 400) /\ UNCHANGED <<entry, data, inodes, requests>>
  <2>. DEFINE r == [c EXCEPT !.alone = FALSE]
  <2>1. /\ Later(c, r) /\ r.pc = c.pc /\ r.inode = c.inode /\ r.at = c.at /\ r.alone = FALSE
        /\ r.content = c.content
    BY <1>2, Zenon DEF Asked, Later
  <2>2. Finish(h, r, 400)  BY <1>8, Zenon
  <2>. HIDE DEF r
  <2>3. Asked(r, inodes) /\ r.op = c.op /\ r.name = c.name /\ r.to = c.to /\ r.was = c.was
    <3>1. c.pc # "idle"  BY <1>1, Zenon
    <3>. HIDE DEF c
    <3>. QED  BY <1>2, <1>4, <2>1, <3>1, LaterAsked, Zenon
  <2>4. Exact(r, 400) /\ Left(r, 400, entry, data)  BY <2>1, Zenon DEF Exact, Left
  <2>. QED  BY <1>1, <1>8, <2>1, <2>2, <2>3, <2>4, QuietFinish, ZenonT(60)
<1>. QED  BY <1>6, <1>7, <1>8, Zenon DEF PutChunk

(* An answer of a handler that is not alone promises nothing. *)
LEMMA DisturbedPromisesNothing ==
    ASSUME NEW c, ~ c.alone, NEW status, NEW e, NEW d
    PROVE  Exact(c, status) /\ Left(c, status, e, d)
  BY Zenon DEF Exact, Left

(* An entry that is there is a directory or a file. *)
LEMMA EntryIs ==
    ASSUME WorkIInv, NEW n \in Name
    PROVE  entry[n] = NoEntry \/ entry[n] = DirEntry \/ entry[n] \in 1..MaxInode
  BY WorkspaceAssumption DEF WorkIInv, Shape, NoEntry, DirEntry

(* delete_entry (io.rs): what it is, then the removal. *)
LEMMA DeleteKeeps ==
    ASSUME WorkIInv, NEW h \in Call, Delete(h)
    PROVE  WorkIInv'
<1>. DEFINE c == call[h]
            n == c.name
<1>1. c.op = "delete" /\ c.pc \in {"check", "remove"} /\ Underway(c) /\ c.op \in Mutating
  BY Zenon DEF Delete, At, Underway, Mutating
<1>2. Asked(c, inodes) /\ UNCHANGED <<data, inodes>>  BY <1>1, UnderwayAsked, Zenon DEF WorkIInv, Delete
<1>3. c.alone => Stage(c, entry, data)  BY <1>1, Zenon DEF WorkIInv, Staged
<1>4. /\ n \in Name /\ c.to = n /\ DOMAIN c.was = Name
      /\ c.inode \in 0..inodes /\ c.at \in Nat /\ c.alone \in BOOLEAN
  BY <1>1, <1>2, Zenon DEF Asked
<1>5. c.alone /\ c.was[n] # Unknown => (entry[n] = NoEntry <=> c.was[n] = Missing)
  BY <1>1, AloneSees, Zenon
<1>6. CASE c.pc = "check" /\ entry[n] = NoEntry
  <2>1. Finish(h, c, 404) /\ UNCHANGED entry  BY <1>6, Zenon DEF Delete, At
  <2>2. c.alone /\ Known(c) => Serial(c, c.was) = Outcome(404, c.was, <<>>)
    <3>1. Known(c) => c.was[n] # Unknown  BY <1>1, Zenon DEF Known, Consulted
    <3>. HIDE DEF c
    <3>. QED  BY <1>1, <1>5, <1>6, <3>1, Zenon DEF Serial, n
  <2>3. Refuses(h, 404)  BY <1>1, <1>2, <2>1, <2>2 DEF Refuses
  <2>. QED  BY <2>3, Refused, ZenonT(60)
<1>7. CASE c.pc = "check" /\ entry[n] # NoEntry
  <2>. DEFINE r == [c EXCEPT !.pc = "remove", !.dir = entry[n] = DirEntry]
  <2>1. Go(h, r) /\ UNCHANGED entry  BY <1>7, Zenon DEF Delete, At
  <2>2. /\ Later(c, r) /\ r.pc = "remove" /\ r.inode = c.inode /\ r.at = c.at /\ r.alone = c.alone
        /\ r.content = c.content /\ r.found = c.found /\ r.dir = (entry[n] = DirEntry)
    BY <1>2, ZenonT(60) DEF Asked, Later
  <2>. HIDE DEF r
  <2>3. Asked(r, inodes) /\ r.op = c.op /\ r.name = c.name /\ r.to = c.to /\ r.was = c.was
    <3>. HIDE DEF c
    <3>. QED  BY <1>2, <1>4, <2>2, LaterAsked, ZenonT(60)
  <2>4. r.alone => Stage(r, entry, data)
    <3>. HIDE DEF c
    <3>. QED  BY <1>1, <1>3, <1>7, <2>2, <2>3 DEF Stage, n
  <2>5. Underway(r)  BY <2>2, Zenon DEF Underway
  <2>. QED  BY <1>1, <1>2, <2>1, <2>2, <2>3, <2>4, <2>5, QuietGo, Zenon
<1>8. CASE c.pc = "remove"
  <2>. DEFINE clash == entry[n] = NoEntry \/ c.dir # (entry[n] = DirEntry)
  <2>1. /\ entry' = IF clash THEN entry ELSE [entry EXCEPT ![n] = NoEntry]
        /\ Finish(h, c, IF clash THEN 400 ELSE 200)
    BY <1>8, Zenon DEF Delete, At
  <2>2. c.alone => ~ clash /\ c.found = <<>>
    <3>. HIDE DEF c
    <3>. QED  BY <1>1, <1>3, <1>8, Zenon DEF Stage, n
  <2>3. CASE clash
    <3>1. Finish(h, c, 400) /\ UNCHANGED <<entry, data, inodes>> /\ ~ c.alone  BY <1>2, <2>1, <2>2, <2>3, Zenon
    <3>. QED  BY <1>1, <1>2, <3>1, DisturbedPromisesNothing, QuietFinish, ZenonT(60)
  <2>4. CASE ~ clash
    <3>1. entry' = [entry EXCEPT ![n] = NoEntry] /\ Finish(h, c, 200)  BY <2>1, <2>4, Zenon
    <3>2. /\ entry' \in [Name -> 0..MaxInode + 1] /\ entry'[n] = 0
          /\ \A m \in Name \ {n} : entry'[m] = entry[m]
      BY <1>4, <3>1, WorkspaceAssumption DEF WorkIInv, Shape, NoEntry
    <3>3. Changes(h, 200)
      <4>1. \A m \in Name : entry'[m] \in 1..MaxInode => m # n /\ entry'[m] = entry[m]  BY <3>2
      <4>2. \A m \in Name : entry'[m] # entry[m] => m = n /\ entry'[m] \notin 1..inodes  BY <3>2
      <4>. QED  BY <1>1, <1>2, <3>1, <3>2, <4>1, <4>2, ZenonT(60) DEF Changes, WorkIInv, Shape
    <3>4. Moves(h, Answered(c, 200))  BY <3>3, FinishMoves, ZenonT(60)
    <3>5. Seen(n, entry', data') = Missing  BY <3>2, Zenon DEF Seen, NoEntry
    <3>6. c.alone /\ Known(c) => Serial(c, c.was) = Outcome(200, [c.was EXCEPT ![n] = Missing], <<>>)
      <4>1. Known(c) => c.was[n] # Unknown  BY <1>1, Zenon DEF Known, Consulted
      <4>2. entry[n] # NoEntry  BY <2>4, Zenon
      <4>. HIDE DEF c
      <4>. QED  BY <1>1, <1>5, <4>1, <4>2, Zenon DEF Serial, n
    <3>7. Exact(c, 200)
      <4>. HIDE DEF c, clash
      <4>. QED  BY <2>2, <3>6 DEF Exact, Outcome
    <3>8. Left(c, 200, entry', data')
      <4>1. Result(c) = Missing  BY <1>1, Zenon DEF Result
      <4>. HIDE DEF c, clash
      <4>. QED  BY <1>4, <3>5, <3>6, <4>1 DEF Left, Outcome, n
    <3>. QED  BY <1>2, <3>1, <3>4, <3>7, <3>8, FinishKeeps, Zenon
  <2>. QED  BY <2>3, <2>4, Zenon
<1>. QED  BY <1>1, <1>6, <1>7, <1>8, Zenon

(* mkdir (io.rs): one call. *)
LEMMA MkdirKeeps ==
    ASSUME WorkIInv, NEW h \in Call, Mkdir(h)
    PROVE  WorkIInv'
<1>. DEFINE c == call[h]
            n == c.name
<1>1. c.op = "mkdir" /\ c.pc = "check" /\ Underway(c) /\ c.op \in Mutating
  BY Zenon DEF Mkdir, At, Underway, Mutating
<1>2. Asked(c, inodes) /\ UNCHANGED <<data, inodes>>  BY <1>1, UnderwayAsked, Zenon DEF WorkIInv, Mkdir
<1>3. c.alone => Stage(c, entry, data)  BY <1>1, Zenon DEF WorkIInv, Staged
<1>4. n \in Name /\ c.to = n /\ DOMAIN c.was = Name  BY <1>1, <1>2, Zenon DEF Asked
<1>5. c.alone /\ c.was[n] # Unknown => (entry[n] \in 1..MaxInode <=> c.was[n].kind = "file")
  BY <1>1, AloneSees, Zenon
<1>6. Known(c) => c.was[n] # Unknown  BY <1>1, Zenon DEF Known, Consulted
<1>7. CASE IsFile(n)
  <2>1. Finish(h, c, 400) /\ UNCHANGED entry /\ entry[n] \in 1..MaxInode  BY <1>7, Zenon DEF Mkdir, IsFile
  <2>2. c.alone /\ Known(c) => Serial(c, c.was) = Outcome(400, c.was, <<>>)
    <3>. HIDE DEF c
    <3>. QED  BY <1>1, <1>5, <1>6, <2>1, Zenon DEF Serial, n
  <2>3. Refuses(h, 400)  BY <1>1, <1>2, <2>1, <2>2 DEF Refuses
  <2>. QED  BY <2>3, Refused, ZenonT(60)
<1>8. CASE ~ IsFile(n)
  <2>1. entry' = [entry EXCEPT ![n] = DirEntry] /\ Finish(h, c, 200) /\ entry[n] \notin 1..MaxInode
    BY <1>8, Zenon DEF Mkdir, IsFile
  <2>2. /\ entry' \in [Name -> 0..MaxInode + 1] /\ entry'[n] = MaxInode + 1
        /\ \A m \in Name \ {n} : entry'[m] = entry[m]
    BY <1>4, <2>1, WorkspaceAssumption DEF WorkIInv, Shape, DirEntry
  <2>3. Changes(h, 200)
    <3>1. \A m \in Name : entry'[m] \in 1..MaxInode => m # n /\ entry'[m] = entry[m]
      BY <2>2, WorkspaceAssumption
    <3>2. \A m \in Name : entry'[m] # entry[m] => m = n /\ entry'[m] \notin 1..inodes
      BY <2>2, WorkspaceAssumption DEF WorkIInv, Shape
    <3>. QED  BY <1>1, <1>2, <2>1, <2>2, <3>1, <3>2, ZenonT(60) DEF Changes, WorkIInv, Shape
  <2>4. Moves(h, Answered(c, 200))  BY <2>3, FinishMoves, Zenon
  <2>5. Seen(n, entry', data') = View("dir", <<>>)
    BY <2>2, WorkspaceAssumption DEF Seen, NoEntry, DirEntry
  <2>6. c.alone /\ Known(c) => Serial(c, c.was) = Outcome(200, [c.was EXCEPT ![n] = View("dir", <<>>)], <<>>)
    <3>. HIDE DEF c
    <3>. QED  BY <1>1, <1>5, <1>6, <2>1, Zenon DEF Serial, n
  <2>7. Exact(c, 200)
    <3>1. c.alone => c.found = <<>>  BY <1>1, <1>3, Zenon DEF Stage
    <3>. HIDE DEF c
    <3>. QED  BY <2>6, <3>1 DEF Exact, Outcome
  <2>8. Left(c, 200, entry', data')
    <3>1. Result(c) = View("dir", <<>>)  BY <1>1, Zenon DEF Result
    <3>. HIDE DEF c
    <3>. QED  BY <1>4, <2>5, <2>6, <3>1 DEF Left, Outcome, n
  <2>. QED  BY <1>2, <2>1, <2>4, <2>7, <2>8, FinishKeeps, Zenon
<1>. QED  BY <1>7, <1>8, Zenon

(* move_entry (io.rs): two checks, then the rename. *)
LEMMA MoveKeeps ==
    ASSUME WorkIInv, NEW h \in Call, Move(h)
    PROVE  WorkIInv'
<1>. DEFINE c == call[h]
            n == c.name
            m == c.to
<1>1. c.op = "move" /\ c.pc \in {"check", "target", "rename"} /\ Underway(c) /\ c.op \in Mutating
  BY Zenon DEF Move, At, Underway, Mutating
<1>2. Asked(c, inodes) /\ UNCHANGED <<data, inodes>>  BY <1>1, UnderwayAsked, Zenon DEF WorkIInv, Move
<1>3. c.alone => Stage(c, entry, data)  BY <1>1, Zenon DEF WorkIInv, Staged
<1>4. /\ n \in Name /\ m \in Name /\ DOMAIN c.was = Name
      /\ c.inode \in 0..inodes /\ c.at \in Nat /\ c.alone \in BOOLEAN
  BY <1>1, <1>2, Zenon DEF Asked
<1>5. c.alone /\ Known(c) =>
        /\ entry[n] = NoEntry <=> c.was[n] = Missing
        /\ entry[m] = NoEntry <=> c.was[m] = Missing
        /\ c.was[n] = Seen(n, entry, data)
  BY <1>1, AloneSees, Zenon DEF Known, Consulted
<1>6. CASE c.pc = "check" /\ entry[n] = NoEntry
  <2>1. Finish(h, c, 404) /\ UNCHANGED entry  BY <1>6, Zenon DEF Move, At
  <2>2. c.alone /\ Known(c) => Serial(c, c.was) = Outcome(404, c.was, <<>>)
    <3>. HIDE DEF c
    <3>. QED  BY <1>1, <1>5, <1>6, Zenon DEF Serial, n
  <2>3. Refuses(h, 404)  BY <1>1, <1>2, <2>1, <2>2 DEF Refuses
  <2>. QED  BY <2>3, Refused, ZenonT(60)
<1>7. CASE c.pc = "target" /\ entry[m] # NoEntry
  <2>1. Finish(h, c, 409) /\ UNCHANGED entry  BY <1>7, Zenon DEF Move, At
  <2>2. c.alone => entry[n] # NoEntry  BY <1>1, <1>3, <1>7, Zenon DEF Stage
  <2>3. c.alone /\ Known(c) => Serial(c, c.was) = Outcome(409, c.was, <<>>)
    <3>. HIDE DEF c
    <3>. QED  BY <1>1, <1>5, <1>7, <2>2, ZenonT(60) DEF Serial, n, m
  <2>4. Refuses(h, 409)  BY <1>1, <1>2, <1>7, <2>1, <2>3 DEF Refuses
  <2>. QED  BY <2>4, Refused, ZenonT(60)
<1>8. ASSUME NEW pc \in {"target", "rename"}, Go(h, [c EXCEPT !.pc = pc]), UNCHANGED entry,
             pc = "target" => c.pc = "check" /\ entry[n] # NoEntry,
             pc = "rename" => c.pc = "target" /\ entry[m] = NoEntry
      PROVE  WorkIInv'
  <2>. DEFINE r == [c EXCEPT !.pc = pc]
  <2>1. Go(h, r) /\ UNCHANGED entry  BY <1>8, Zenon
  <2>2. /\ Later(c, r) /\ r.pc = pc /\ r.inode = c.inode /\ r.at = c.at /\ r.alone = c.alone
        /\ r.content = c.content /\ r.found = c.found
    BY <1>2, ZenonT(60) DEF Asked, Later
  <2>. HIDE DEF r
  <2>3. Asked(r, inodes) /\ r.op = c.op /\ r.name = c.name /\ r.to = c.to /\ r.was = c.was
    <3>1. pc # "idle"  OBVIOUS
    <3>. HIDE DEF c
    <3>. QED  BY <1>2, <1>4, <2>2, <3>1, LaterAsked, Zenon
  <2>4. r.alone => Stage(r, entry, data)
    <3>. HIDE DEF c
    <3>. QED  BY <1>1, <1>3, <1>8, <2>2, <2>3 DEF Stage, n, m
  <2>5. Underway(r)  BY <2>2, Zenon DEF Underway
  <2>. QED  BY <1>1, <1>2, <2>1, <2>2, <2>3, <2>4, <2>5, QuietGo, Zenon
<1>9. CASE c.pc = "rename"
  <2>. DEFINE clash == entry[n] = NoEntry \/ (entry[m] # NoEntry /\ (entry[n] = DirEntry) # (entry[m] = DirEntry))
  <2>1. /\ entry' = IF clash \/ n = m THEN entry ELSE [entry EXCEPT ![m] = entry[n], ![n] = NoEntry]
        /\ Finish(h, c, IF clash THEN 400 ELSE 200)
    BY <1>9, Zenon DEF Move, At
  <2>2. c.alone => ~ clash /\ n # m /\ c.found = <<>> /\ entry[n] # NoEntry /\ entry[m] = NoEntry
    <3>. HIDE DEF c
    <3>. QED  BY <1>1, <1>3, <1>9, Zenon DEF Stage, n, m
  <2>. HIDE DEF clash
  <2>3. CASE clash \/ n = m
    <3>. DEFINE status == IF clash THEN 400 ELSE 200
    <3>1. Finish(h, c, status) /\ UNCHANGED <<entry, data, inodes>> /\ ~ c.alone  BY <1>2, <2>1, <2>2, <2>3, Zenon
    <3>. HIDE DEF status
    <3>. QED  BY <1>1, <1>2, <3>1, DisturbedPromisesNothing, QuietFinish, Zenon
  <2>4. CASE ~ clash /\ n # m
    <3>1. entry' = [entry EXCEPT ![m] = entry[n], ![n] = NoEntry] /\ Finish(h, c, 200)  BY <2>1, <2>4, Zenon
    <3>2. /\ entry' \in [Name -> 0..MaxInode + 1] /\ entry'[n] = 0 /\ entry'[m] = entry[n]
          /\ \A k \in Name \ {n, m} : entry'[k] = entry[k]
      <4>. HIDE DEF c, n, m
      <4>. QED  BY <1>4, <2>4, <3>1, WorkspaceAssumption DEF WorkIInv, Shape, NoEntry
    <3>3. Changes(h, 200)
      <4>1. \A k \in Name : entry'[k] \in 1..MaxInode => entry'[k] <= inodes
        BY <1>4, <3>2 DEF WorkIInv, Shape
      <4>2. \A k, l \in Name : entry'[k] \in 1..MaxInode /\ entry'[k] = entry'[l] => k = l
        <5>. HIDE DEF c, n, m
        <5>. QED  BY <1>4, <3>2 DEF WorkIInv, Shape
      <4>3. \A k \in Name : entry'[k] # entry[k] =>
              /\ k \in {n, m}
              /\ entry'[k] \in 1..inodes => k = m /\ entry'[k] = entry[n]
        BY <3>2
      <4>. QED  BY <1>1, <1>2, <3>1, <3>2, <4>1, <4>2, <4>3, Zenon DEF Changes, WorkIInv, Shape
    <3>4. Moves(h, Answered(c, 200))  BY <3>3, FinishMoves, Zenon
    <3>5. Seen(n, entry', data') = Missing /\ Seen(m, entry', data') = Seen(n, entry, data)
      BY <1>2, <3>2, Zenon DEF Seen, NoEntry
    <3>6. c.alone /\ Known(c) => Serial(c, c.was) = Outcome(200, [c.was EXCEPT ![m] = c.was[n], ![n] = Missing], <<>>)
      <4>. HIDE DEF c
      <4>. QED  BY <1>1, <1>5, <2>2, Zenon DEF Serial, n, m
    <3>7. Exact(c, 200)
      <4>. HIDE DEF c
      <4>. QED  BY <2>2, <3>6 DEF Exact, Outcome
    <3>8. Left(c, 200, entry', data')
      <4>1. Result(c) = Unknown  BY <1>1, Zenon DEF Result
      <4>2. ASSUME c.alone, Known(c), NEW k \in {n, m}
            PROVE  Serial(c, c.was).files[k] = Seen(k, entry', data')
        <5>1. Serial(c, c.was).files = [c.was EXCEPT ![m] = c.was[n], ![n] = Missing]
          <6>. HIDE DEF c, n, m
          <6>. QED  BY <3>6, <4>2 DEF Outcome
        <5>2. c.was[n] = Seen(n, entry, data)  BY <1>5, <4>2, Zenon
        <5>. HIDE DEF c, n, m
        <5>. QED  BY <1>4, <2>4, <3>5, <4>2, <5>1, <5>2, Zenon
      <4>. HIDE DEF c
      <4>. QED  BY <4>1, <4>2, Zenon DEF Left, n, m
    <3>. QED  BY <1>2, <3>1, <3>4, <3>7, <3>8, FinishKeeps, Zenon
  <2>. QED  BY <2>3, <2>4, Zenon
<1>10. \/ c.pc = "check" /\ entry[n] # NoEntry /\ Go(h, [c EXCEPT !.pc = "target"]) /\ UNCHANGED entry
       \/ c.pc = "target" /\ entry[m] = NoEntry /\ Go(h, [c EXCEPT !.pc = "rename"]) /\ UNCHANGED entry
       \/ c.pc = "check" /\ entry[n] = NoEntry
       \/ c.pc = "target" /\ entry[m] # NoEntry
       \/ c.pc = "rename"
  BY Zenon DEF Move, At
<1>. QED  BY <1>6, <1>7, <1>8, <1>9, <1>10, Zenon

(* read_file (io.rs): the checks, then the bytes. *)
LEMMA ReadKeeps ==
    ASSUME WorkIInv, NEW h \in Call, Read(h)
    PROVE  WorkIInv'
<1>. DEFINE c == call[h]
            n == c.name
<1>1. c.op = "read" /\ c.pc \in {"check", "look", "get"} /\ Underway(c) /\ c.op \notin Mutating
  BY Zenon DEF Read, At, Underway, Mutating
<1>2. Asked(c, inodes) /\ UNCHANGED <<entry, data, inodes>>  BY <1>1, UnderwayAsked, Zenon DEF WorkIInv, Read
<1>3. c.alone => Stage(c, entry, data)  BY <1>1, Zenon DEF WorkIInv, Staged
<1>4. n \in Name /\ c.inode \in 0..inodes /\ c.at \in Nat /\ c.alone \in BOOLEAN  BY <1>1, <1>2, Zenon DEF Asked
<1>5. c.alone /\ Known(c) =>
        /\ entry[n] \in 1..MaxInode <=> c.was[n].kind = "file"
        /\ c.was[n].body = Bytes(n, entry, data)
  BY <1>1, AloneSees, Zenon DEF Known, Consulted
<1>6. CASE c.pc = "check" /\ ~ IsFile(n)
  <2>1. Finish(h, c, 404) /\ entry[n] \notin 1..MaxInode  BY <1>6, Zenon DEF Read, At, IsFile
  <2>2. c.alone /\ Known(c) => Serial(c, c.was) = Outcome(404, c.was, <<>>)
    <3>. HIDE DEF c
    <3>. QED  BY <1>1, <1>5, <2>1, Zenon DEF Serial, n
  <2>3. Refuses(h, 404)  BY <1>1, <1>2, <2>1, <2>2 DEF Refuses
  <2>. QED  BY <2>3, Refused, Zenon
<1>7. CASE c.pc = "look" /\ ~ IsFile(n)
  <2>1. Finish(h, c, 500)  BY <1>7, Zenon DEF Read, At
  <2>2. ~ c.alone  BY <1>1, <1>3, <1>7, Zenon DEF Stage, IsFile
  <2>. QED  BY <1>1, <1>2, <2>1, <2>2, DisturbedPromisesNothing, QuietFinish
<1>8. CASE c.pc \in {"check", "look"} /\ IsFile(n)
  <2>. DEFINE r == IF c.pc = "check" THEN [c EXCEPT !.pc = "look"] ELSE [c EXCEPT !.pc = "get", !.inode = entry[n]]
  <2>1. Go(h, r) /\ entry[n] \in 1..MaxInode  BY <1>8, Zenon DEF Read, At, IsFile
  <2>2. /\ Later(c, r) /\ r.at = c.at /\ r.alone = c.alone /\ r.content = c.content /\ r.found = c.found
        /\ IF c.pc = "check" THEN r.pc = "look" /\ r.inode = c.inode ELSE r.pc = "get" /\ r.inode = entry[n]
    <3>1. CASE c.pc = "check"  BY <1>2, <3>1, ZenonT(60) DEF Asked, Later
    <3>2. CASE c.pc # "check"  BY <1>2, <3>2, ZenonT(60) DEF Asked, Later
    <3>. QED  BY <3>1, <3>2, Zenon
  <2>. HIDE DEF r
  <2>3. Asked(r, inodes) /\ r.op = c.op /\ r.name = c.name /\ r.to = c.to /\ r.was = c.was
    <3>1. r.inode \in 0..inodes /\ r.pc # "idle"
      BY <1>4, <2>1, <2>2, WorkspaceAssumption DEF WorkIInv, Shape
    <3>. HIDE DEF c
    <3>. QED  BY <1>2, <1>4, <2>2, <3>1, LaterAsked, Zenon
  <2>4. r.alone => Stage(r, entry, data)
    <3>1. entry[n] # 0  BY <2>1
    <3>. HIDE DEF c
    <3>2. CASE c.pc = "check"
      BY <1>1, <1>3, <1>8, <2>1, <2>2, <2>3, <3>1, <3>2, ZenonT(120) DEF Stage, n
    <3>3. CASE c.pc = "look"
      BY <1>1, <1>3, <1>8, <2>1, <2>2, <2>3, <3>1, <3>3, ZenonT(60) DEF Stage, n
    <3>. QED  BY <1>8, <3>2, <3>3, Zenon
  <2>5. Underway(r) /\ r.inode \in {0, c.inode, entry[n]}  BY <2>2, Zenon DEF Underway
  <2>. QED  BY <1>1, <1>2, <2>1, <2>2, <2>3, <2>4, <2>5, QuietGo, Zenon
<1>9. CASE c.pc = "get"
  <2>. DEFINE r == [c EXCEPT !.found = <<data[c.inode]>>]
  <2>1. Finish(h, r, 200)  BY <1>9, Zenon DEF Read, At
  <2>2. /\ Later(c, r) /\ r.at = c.at /\ r.alone = c.alone /\ r.content = c.content /\ r.found = <<data[c.inode]>>
        /\ r.pc = c.pc /\ r.inode = c.inode
    BY <1>2, ZenonT(60) DEF Asked, Later
  <2>. HIDE DEF r
  <2>3. Asked(r, inodes) /\ r.op = c.op /\ r.name = c.name /\ r.to = c.to /\ r.was = c.was
    <3>. HIDE DEF c
    <3>. QED  BY <1>2, <1>4, <1>9, <2>2, LaterAsked, Zenon
  <2>4. c.alone => entry[n] = c.inode /\ c.inode \in 1..MaxInode
    <3>1. c.alone => entry[n] = c.inode /\ c.inode # 0  BY <1>3, <1>9, Zenon DEF Stage
    <3>. QED  BY <1>4, <3>1, WorkspaceAssumption DEF WorkIInv, Shape
  <2>5. r.alone /\ Known(r) => Serial(r, r.was) = Outcome(200, r.was, <<data[c.inode]>>)
    <3>1. Known(r) = Known(c)  BY <2>3, Zenon DEF Known, Consulted
    <3>2. c.alone => Bytes(n, entry, data) = data[c.inode]  BY <2>4, Zenon DEF Bytes
    <3>. HIDE DEF c
    <3>. QED  BY <1>1, <1>5, <2>2, <2>3, <2>4, <3>1, <3>2, ZenonT(60) DEF Serial, n
  <2>6. Exact(r, 200)  BY <2>2, <2>5 DEF Exact, Outcome
  <2>7. Left(r, 200, entry, data)  BY <1>1, <2>3, Zenon DEF Left
  <2>. QED  BY <1>1, <1>2, <2>1, <2>2, <2>3, <2>6, <2>7, QuietFinish, ZenonT(60)
<1>. QED  BY <1>1, <1>6, <1>7, <1>8, <1>9, Zenon

(* list_dir (io.rs): the check, then the entries, of the name in lower     *)
(* case.                                                                   *)
LEMMA ListDirKeeps ==
    ASSUME WorkIInv, NEW h \in Call, ListDir(h)
    PROVE  WorkIInv'
<1>. DEFINE c == call[h]
            n == Lower[c.name]
<1>1. c.op = "list" /\ c.pc \in {"check", "scan"} /\ Underway(c) /\ c.op \notin Mutating
  BY Zenon DEF ListDir, At, Underway, Mutating
<1>2. Asked(c, inodes) /\ UNCHANGED <<entry, data, inodes>>  BY <1>1, UnderwayAsked, Zenon DEF WorkIInv, ListDir
<1>3. c.alone => Stage(c, entry, data)  BY <1>1, Zenon DEF WorkIInv, Staged
<1>4. /\ n \in Name /\ c.inode \in 0..inodes /\ c.at \in Nat /\ c.alone \in BOOLEAN
  BY <1>1, <1>2, WorkspaceAssumption, Zenon DEF Asked
<1>5. c.alone /\ Known(c) => (entry[n] = DirEntry <=> c.was[n].kind = "dir")
  <2>1. SUFFICES ASSUME c.alone, Known(c) PROVE entry[n] = DirEntry <=> c.was[n].kind = "dir"  OBVIOUS
  <2>2. c.was[n] = Seen(n, entry, data)  BY <1>1, <1>3, <2>1, Zenon DEF Stage, Known, Consulted
  <2>3. entry[n] \in 0..MaxInode + 1  BY <1>4, Zenon DEF WorkIInv, Shape
  <2>. QED  BY <2>2, <2>3, WorkspaceAssumption DEF Seen, Missing, View, NoEntry, DirEntry
<1>6. CASE c.pc = "check" /\ entry[n] # DirEntry
  <2>1. Finish(h, c, 404)  BY <1>4, <1>6, Zenon DEF ListDir, At
  <2>2. c.alone /\ Known(c) => Serial(c, c.was) = Outcome(404, c.was, <<>>)
    <3>. HIDE DEF c
    <3>. QED  BY <1>1, <1>5, <1>6, Zenon DEF Serial, n
  <2>3. Refuses(h, 404)  BY <1>1, <1>2, <2>1, <2>2 DEF Refuses
  <2>. QED  BY <2>3, Refused
<1>7. CASE c.pc = "check" /\ entry[n] = DirEntry
  <2>. DEFINE r == [c EXCEPT !.pc = "scan"]
  <2>1. Go(h, r)  BY <1>4, <1>7, Zenon DEF ListDir, At
  <2>2. /\ Later(c, r) /\ r.pc = "scan" /\ r.inode = c.inode /\ r.at = c.at /\ r.alone = c.alone
        /\ r.content = c.content /\ r.found = c.found
    BY <1>2, ZenonT(60) DEF Asked, Later
  <2>. HIDE DEF r
  <2>3. Asked(r, inodes) /\ r.op = c.op /\ r.name = c.name /\ r.to = c.to /\ r.was = c.was
    <3>. HIDE DEF c
    <3>. QED  BY <1>2, <1>4, <2>2, LaterAsked, ZenonT(60)
  <2>4. r.alone => Stage(r, entry, data)
    <3>. HIDE DEF c
    <3>1. SUFFICES ASSUME r.alone PROVE Stage(r, entry, data)  OBVIOUS
    <3>2. entry[Lower[r.name]] = DirEntry  BY <1>7, <2>3, Zenon DEF n
    <3>3. /\ c.was[Lower[c.name]] \in {Unknown, Seen(Lower[c.name], entry, data)}
          /\ \A k \in {c.name, c.to} : c.was[k] # Unknown => c.was[k] = Seen(k, entry, data)
          /\ c.inode = 0 /\ c.at = 0 /\ c.found = <<>>
      BY <1>1, <1>3, <1>7, <2>2, <3>1, Zenon DEF Stage
    <3>. QED  BY <1>1, <2>2, <2>3, <3>2, <3>3, Zenon DEF Stage
  <2>5. Underway(r)  BY <2>2, Zenon DEF Underway
  <2>. QED  BY <1>1, <1>2, <2>1, <2>2, <2>3, <2>4, <2>5, QuietGo, Zenon
<1>8. CASE c.pc = "scan"
  <2>. DEFINE status == IF entry[n] = DirEntry THEN 200 ELSE 500
  <2>1. Finish(h, c, status)  BY <1>4, <1>8 DEF ListDir, At
  <2>2. c.alone => entry[n] = DirEntry /\ c.found = <<>>
    <3>. HIDE DEF c
    <3>. QED  BY <1>1, <1>3, <1>4, <1>8, Zenon DEF Stage, n
  <2>3. c.alone /\ Known(c) => Serial(c, c.was) = Outcome(200, c.was, <<>>)
    <3>. HIDE DEF c
    <3>. QED  BY <1>1, <1>5, <2>2, Zenon DEF Serial, n
  <2>4. Exact(c, status)
    <3>. HIDE DEF c
    <3>. QED  BY <2>2, <2>3 DEF Exact, Outcome
  <2>5. Left(c, status, entry, data)  BY <1>1, Zenon DEF Left
  <2>. HIDE DEF status
  <2>. QED  BY <1>1, <1>2, <2>1, <2>4, <2>5, QuietFinish, Zenon
<1>. QED  BY <1>1, <1>6, <1>7, <1>8, Zenon

(* The bytes of a path are put behind those before them. *)
LEMMA Appended ==
    ASSUME NEW x, NEW y
    PROVE  Append(<<>>, y) = <<y>> /\ Append(<<x>>, y) = <<x, y>>
<1>. DEFINE S == {x, y}
<1>1. ASSUME NEW s \in Seq(S), NEW t \in Seq(S), Len(s) = Len(t), \A i \in 1..Len(s) : s[i] = t[i]
      PROVE  s = t
  BY <1>1
<1>2. <<>> \in Seq(S) /\ <<x>> \in Seq(S) /\ <<y>> \in Seq(S) /\ <<x, y>> \in Seq(S)  OBVIOUS
<1>. HIDE DEF S
<1>3. y \in S  BY Zenon DEF S
<1>4. Append(<<>>, y) = <<y>>
  <2>1. /\ Append(<<>>, y) \in Seq(S) /\ Len(Append(<<>>, y)) = 1 /\ Append(<<>>, y)[1] = y
    BY <1>2, <1>3
  <2>. QED  BY <1>1, <1>2, <2>1
<1>5. Append(<<x>>, y) = <<x, y>>
  <2>1. /\ Append(<<x>>, y) \in Seq(S) /\ Len(Append(<<x>>, y)) = 2
        /\ Append(<<x>>, y)[1] = x /\ Append(<<x>>, y)[2] = y
    BY <1>2, <1>3
  <2>2. Len(<<x, y>>) = 2 /\ <<x, y>>[1] = x /\ <<x, y>>[2] = y  OBVIOUS
  <2>3. \A i \in 1..2 : Append(<<x>>, y)[i] = <<x, y>>[i]  BY <2>1, <2>2
  <2>. QED  BY <1>1, <1>2, <2>1, <2>2, <2>3, Zenon
<1>. QED  BY <1>4, <1>5, Zenon

(* build_zip (archive.rs): every path must exist, then each is read. *)
LEMMA BuildZipKeeps ==
    ASSUME WorkIInv, NEW h \in Call, BuildZip(h)
    PROVE  WorkIInv'
<1>. DEFINE c == call[h]
            n == IF c.at = 0 THEN c.name ELSE c.to
            zipped == [c EXCEPT !.found = Append(@, Bytes(n, entry, data)), !.at = 1]
<1>1. c.op = "archive" /\ c.pc \in {"check", "zip"} /\ Underway(c) /\ c.op \notin Mutating
  BY Zenon DEF BuildZip, At, Underway, Mutating
<1>2. Asked(c, inodes) /\ UNCHANGED <<entry, data, inodes>>  BY <1>1, UnderwayAsked, Zenon DEF WorkIInv, BuildZip
<1>3. c.alone => Stage(c, entry, data)  BY <1>1, Zenon DEF WorkIInv, Staged
<1>4. /\ c.name \in Name /\ c.to \in Name /\ n \in Name /\ c.inode \in 0..inodes
      /\ c.at \in Nat /\ c.alone \in BOOLEAN
  BY <1>1, <1>2, Zenon DEF Asked
<1>5. c.alone /\ Known(c) => \A k \in {c.name, c.to} :
        /\ entry[k] = NoEntry <=> c.was[k] = Missing
        /\ c.was[k].body = Bytes(k, entry, data)
  BY <1>1, AloneSees, Zenon DEF Known, Consulted
<1>6. c.alone => /\ c.at \in {0, 1} /\ c.inode = 0
                 /\ c.pc = "check" => c.found = <<>> /\ (c.at = 1 => entry[c.name] # NoEntry)
                 /\ c.pc = "zip" => /\ entry[c.name] # NoEntry /\ entry[c.to] # NoEntry
                                    /\ c.found = IF c.at = 0 THEN <<>> ELSE <<Bytes(c.name, entry, data)>>
  <2>. HIDE DEF c
  <2>. QED  BY <1>1, <1>3, Zenon DEF Stage
<1>7. CASE c.pc = "check" /\ entry[n] = NoEntry
  <2>1. Finish(h, c, 404)  BY <1>7, Zenon DEF BuildZip, At
  <2>2. c.alone /\ Known(c) => Serial(c, c.was) = Outcome(404, c.was, <<>>)
    <3>1. c.alone /\ Known(c) => c.was[c.name] = Missing \/ c.was[c.to] = Missing  BY <1>5, <1>7, Zenon
    <3>. HIDE DEF c
    <3>. QED  BY <1>1, <3>1, Zenon DEF Serial
  <2>3. Refuses(h, 404)  BY <1>1, <1>2, <2>1, <2>2 DEF Refuses
  <2>. QED  BY <2>3, Refused, ZenonT(60)
<1>8. CASE c.pc = "check" /\ entry[n] # NoEntry
  <2>. DEFINE r == IF c.at = 0 THEN [c EXCEPT !.at = 1] ELSE [c EXCEPT !.at = 0, !.pc = "zip"]
  <2>1. Go(h, r)  BY <1>8, Zenon DEF BuildZip, At
  <2>2. /\ Later(c, r) /\ r.inode = c.inode /\ r.alone = c.alone /\ r.content = c.content /\ r.found = c.found
        /\ IF c.at = 0 THEN r.at = 1 /\ r.pc = "check" ELSE r.at = 0 /\ r.pc = "zip"
    <3>1. CASE c.at = 0  BY <1>2, <1>8, <3>1, ZenonT(60) DEF Asked, Later
    <3>2. CASE c.at # 0  BY <1>2, <1>8, <3>2, ZenonT(60) DEF Asked, Later
    <3>. QED  BY <3>1, <3>2, Zenon
  <2>. HIDE DEF r
  <2>3. Asked(r, inodes) /\ r.op = c.op /\ r.name = c.name /\ r.to = c.to /\ r.was = c.was
    <3>1. r.at \in Nat /\ r.pc # "idle"  BY <2>2
    <3>. HIDE DEF c
    <3>. QED  BY <1>1, <1>2, <1>4, <2>2, <3>1, LaterAsked, ZenonT(60)
  <2>4. r.alone => Stage(r, entry, data)
    <3>1. SUFFICES ASSUME r.alone
                   PROVE  Stage(r, entry, data)
      OBVIOUS
    <3>2. CASE c.at = 0
      <4>1. r.at = 1 /\ r.pc = "check" /\ entry[c.name] # NoEntry  BY <1>8, <2>2, <3>2, Zenon
      <4>. HIDE DEF c
      <4>. QED  BY <1>1, <1>3, <1>6, <1>8, <2>2, <2>3, <3>1, <4>1, ZenonT(60) DEF Stage
    <3>3. CASE c.at = 1
      <4>0. c.at # 0  BY <3>3
      <4>1. r.at = 0 /\ r.pc = "zip" /\ entry[c.to] # NoEntry /\ entry[c.name] # NoEntry
        BY <1>1, <1>6, <1>8, <2>2, <3>1, <3>3, <4>0, ZenonT(60)
      <4>. HIDE DEF c
      <4>. QED  BY <1>1, <1>3, <1>6, <1>8, <2>2, <2>3, <3>1, <4>1, ZenonT(60) DEF Stage
    <3>. QED  BY <1>6, <2>2, <3>1, <3>2, <3>3, Zenon
  <2>5. Underway(r)  BY <2>2, Zenon DEF Underway
  <2>. QED  BY <1>1, <1>2, <2>1, <2>2, <2>3, <2>4, <2>5, QuietGo, Zenon
<1>9. CASE c.pc = "zip" /\ entry[n] = NoEntry
  <2>1. Finish(h, c, 500)  BY <1>9, Zenon DEF BuildZip, At
  <2>2. ~ c.alone  BY <1>6, <1>9, Zenon
  <2>. QED  BY <1>1, <1>2, <2>1, <2>2, DisturbedPromisesNothing, QuietFinish
<1>10. zipped.found = Append(c.found, Bytes(n, entry, data))  BY <1>2, Zenon DEF Asked
<1>11. /\ Later(c, zipped) /\ zipped.inode = c.inode /\ zipped.alone = c.alone /\ zipped.content = c.content
       /\ zipped.pc = c.pc /\ zipped.at = 1 /\ zipped.at \in Nat
  BY <1>2, ZenonT(60) DEF Asked, Later
<1>12. c.pc = "zip" /\ entry[n] # NoEntry =>
         IF c.at = 1 THEN Finish(h, zipped, 200) ELSE Go(h, zipped)
  BY Zenon DEF BuildZip, At, Bytes, IsFile
<1>. HIDE DEF zipped
<1>13. Asked(zipped, inodes) /\ zipped.op = c.op /\ zipped.name = c.name /\ zipped.to = c.to /\ zipped.was = c.was
  <2>1. c.pc # "idle"  BY <1>1, Zenon
  <2>. HIDE DEF c, n
  <2>. QED  BY <1>1, <1>2, <1>4, <1>11, <2>1, LaterAsked, ZenonT(60)
<1>14. CASE c.pc = "zip" /\ entry[n] # NoEntry /\ c.at # 1
  <2>1. zipped.alone => Stage(zipped, entry, data)
    <3>1. SUFFICES ASSUME c.alone
                   PROVE  Stage(zipped, entry, data)
      BY <1>11, Zenon
    <3>2. c.found = <<>> /\ n = c.name  BY <1>6, <1>14, <3>1, Zenon
    <3>3. zipped.found = <<Bytes(c.name, entry, data)>>
      <4>. HIDE DEF c, n
      <4>. QED  BY <1>10, <3>2, Appended, Zenon
    <3>. HIDE DEF c, n
    <3>. QED  BY <1>1, <1>3, <1>6, <1>13, <1>14, <1>11, <3>1, <3>3 DEF Stage
  <2>2. Underway(zipped)  BY <1>1, <1>11, Zenon DEF Underway
  <2>. QED  BY <1>1, <1>2, <1>11, <1>12, <1>13, <1>14, <2>1, <2>2, QuietGo, Zenon
<1>15. CASE c.pc = "zip" /\ entry[n] # NoEntry /\ c.at = 1
  <2>1. ASSUME c.alone, Known(c)
        PROVE  Serial(c, c.was) = Outcome(200, c.was, zipped.found)
    <3>1. c.was[c.name] # Missing /\ c.was[c.to] # Missing  BY <1>5, <1>6, <1>15, <2>1, Zenon
    <3>4. c.found = <<Bytes(c.name, entry, data)>> /\ n = c.to  BY <1>6, <1>15, <2>1
    <3>5. zipped.found = <<Bytes(c.name, entry, data), Bytes(c.to, entry, data)>>
      <4>. HIDE DEF c, n
      <4>. QED  BY <1>10, <3>4, Appended, Zenon
    <3>2. zipped.found = <<c.was[c.name].body, c.was[c.to].body>>  BY <1>5, <2>1, <3>5, Zenon
    <3>3. zipped.found = [i \in 1..2 |-> c.was[IF i = 1 THEN c.name ELSE c.to].body]
      <4>. HIDE DEF c
      <4>. QED  BY <3>2
    <3>. HIDE DEF c
    <3>. QED  BY <1>1, <3>1, <3>3, Zenon DEF Serial
  <2>2. Exact(zipped, 200)
    <3>1. Known(zipped) = Known(c)  BY <1>13, Zenon DEF Known, Consulted
    <3>2. zipped.edits = c.edits
      <4>. HIDE DEF c
      <4>. QED  BY <1>2, <1>11, ZenonT(60) DEF Later, Asked
    <3>3. Serial(zipped, zipped.was) = Serial(c, c.was)  BY <1>13, <1>11, <3>2, SerialSame, ZenonT(60)
    <3>. HIDE DEF c
    <3>. QED  BY <1>11, <2>1, <3>1, <3>3 DEF Exact, Outcome
  <2>3. Left(zipped, 200, entry, data)  BY <1>1, <1>13, Zenon DEF Left
  <2>. QED  BY <1>1, <1>2, <1>11, <1>12, <1>13, <1>15, <2>2, <2>3, QuietFinish, ZenonT(60)
<1>. QED  BY <1>1, <1>7, <1>8, <1>9, <1>14, <1>15, Zenon

-----------------------------------------------------------------------------
(* The empty directory, with no handler at work. *)
LEMMA WorkStarts ==
    ASSUME WorkInit
    PROVE  WorkIInv
<1>. USE DEF WorkInit
<1>1. \A h \in Call : call[h] = Idle /\ ~ Underway(call[h]) /\ call[h].pc # "done"
  BY Zenon DEF Underway, Idle
<1>2. Shape  BY <1>1, WorkspaceAssumption DEF Shape, NoEntry
<1>3. Relied  BY <1>1, Zenon DEF Relied, Seen
<1>. QED  BY <1>1, <1>2, <1>3, Zenon DEF WorkIInv, Apart, Clash, Staged, Settled

(* Every step of every handler keeps the invariant. *)
LEMMA WorkSteps ==
    ASSUME WorkIInv, [WorkNext]_workVars
    PROVE  WorkIInv'
<1>1. CASE UNCHANGED workVars
  BY <1>1, Zenon DEF workVars, WorkIInv, Shape, Apart, Relied, Staged, Settled
<1>2. CASE WorkNext
  <2>1. PICK h \in Call :
          \/ Start(h) \/ Open(h) \/ Put(h) \/ PutChunk(h) \/ Load(h)
          \/ Move(h) \/ Delete(h) \/ Mkdir(h) \/ Read(h) \/ ListDir(h) \/ BuildZip(h)
    BY <1>2, Zenon DEF WorkNext
  <2>2. CASE Start(h)  BY <2>2, StartKeeps, Zenon
  <2>3. CASE Open(h)  BY <2>3, OpeningKeeps, Zenon
  <2>4. CASE Put(h)  BY <2>4, PutKeeps, Zenon
  <2>5. CASE PutChunk(h)  BY <2>5, PutChunkKeeps, Zenon
  <2>6. CASE Load(h)  BY <2>6, LoadKeeps, Zenon
  <2>7. CASE Move(h)  BY <2>7, MoveKeeps, Zenon
  <2>8. CASE Delete(h)  BY <2>8, DeleteKeeps, Zenon
  <2>9. CASE Mkdir(h)  BY <2>9, MkdirKeeps, Zenon
  <2>10. CASE Read(h)  BY <2>10, ReadKeeps, Zenon
  <2>11. CASE ListDir(h)  BY <2>11, ListDirKeeps, Zenon
  <2>12. CASE BuildZip(h)  BY <2>12, BuildZipKeeps, Zenon
  <2>. QED  BY <2>1, <2>2, <2>3, <2>4, <2>5, <2>6, <2>7, <2>8, <2>9, <2>10, <2>11, <2>12, Zenon
<1>. QED  BY <1>1, <1>2, Zenon

(* What the invariant says of the handlers that have answered. *)
LEMMA WorkExact ==
    ASSUME WorkIInv
    PROVE  AloneIsExact
<1>1. \A n \in Name : expect[n] \in {Unknown, ViewOf(n)}  BY SeenIs, Zenon DEF WorkIInv, Relied
<1>2. \A h \in Call : call[h].pc = "done" /\ call[h].alone /\ Known(call[h]) =>
        /\ call[h].status = Serial(call[h], call[h].was).status
        /\ call[h].status = 200 => call[h].found = Serial(call[h], call[h].was).found
  BY Zenon DEF WorkIInv, Settled, Exact
<1>. QED  BY <1>1, <1>2, Zenon DEF AloneIsExact

(* However many handlers run beside it, a file request that nothing        *)
(* disturbs on its names answers and leaves behind what it would by        *)
(* itself (io.rs:144-783, archive.rs:92-321); a list, for the name in lower*)
(* case.                                                                   *)
THEOREM AloneTheorem == WorkSpec => []AloneIsExact
<1>1. WorkInit => WorkIInv  BY WorkStarts, Zenon
<1>2. WorkIInv /\ [WorkNext]_workVars => WorkIInv'  BY WorkSteps, Zenon
<1>3. WorkIInv => AloneIsExact  BY WorkExact, Zenon
<1>. QED  BY <1>1, <1>2, <1>3, PTL DEF WorkSpec
=============================================================================
