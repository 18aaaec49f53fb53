------------------------------ MODULE Archive ------------------------------
(***************************************************************************)
(* GET /snapshot and PUT /restore of the runtime (runtime/src/snapshot.rs):*)
(* the workspace as a stream of tar entries, made and unpacked by tasks    *)
(* that are joined by bounded channels, while the user's processes go on   *)
(* changing files.                                                         *)
(*                                                                         *)
(* A snapshot: build_archive on a blocking thread -> bridge -> the encoder *)
(* task -> body -> the caller, which stores what it gets.  A restore into  *)
(* the next pod: the handler -> duplex -> the decoder task -> plain ->     *)
(* extract_archive on a blocking thread.  Compression adds an end mark to  *)
(* the stream.  A file is a number, 0 if there is none and Outward if it   *)
(* is a symbolic link with an absolute target; Mixed is one restored with  *)
(* bytes that are not its own.                                             *)
(***************************************************************************)
EXTENDS Integers, Sequences, FiniteSets, FiniteSetsExt

CONSTANTS
    Files,          \* how many files a workspace may have
    Depth,          \* bound of every channel: CHANNEL_DEPTH, BODY_CHANNEL_DEPTH
    Limits,         \* values of MAX_WORKSPACE_BYTES; a file is one byte, so is a frame
    MaxChanges      \* bound: changes to files while a snapshot is made

ASSUME ArchiveAssumption ==
    Files \in Nat /\ Depth \in Nat \ {0} /\ Limits \subseteq Nat /\ MaxChanges \in Nat

VARIABLES
    limit,      \* the limit deployed
    files,      \* the workspace that is archived
    before,     \* history: the workspace when the snapshot was asked for
    changes,    \* history: the changes since then
    cut,        \* history: the first entry that was gone or rewritten when its
                \* turn came, Files + 1 if none
    todo,       \* the entries that build_archive has yet to append, in ascending order
    header,     \* the content the header of the first of them speaks of, 0 if none
    bridge, encoder, body, caller, object,
    hot,        \* the workspace that is restored into
    input,      \* the frames of the request that are yet to come
    received, duplex, decoder, plain, extractor, reply

makeVars == <<limit, files, before, changes, cut, todo, header, bridge, encoder, body, caller, object>>
unpackVars == <<hot, input, received, duplex, decoder, plain, extractor, reply>>
archiveVars == <<makeVars, unpackVars>>

File == 1..Files
NoFiles == [f \in File |-> 0]
Outward == 7
Mixed == 8

(* A channel: its frames, whether its sender and its receiver are there. *)
Channel == [frames |-> << >>, tx |-> TRUE, rx |-> TRUE]
Unused == [frames |-> << >>, tx |-> FALSE, rx |-> FALSE]
Push(c, x) == [c EXCEPT !.frames = Append(@, x)]
Get(c) == [c EXCEPT !.frames = Tail(@)]
Hangup(c) == [c EXCEPT !.tx = FALSE]
Drop(c) == [c EXCEPT !.rx = FALSE, !.frames = << >>]
Full(c) == Len(c.frames) >= Depth
Spent(c) == c.frames = << >> /\ ~ c.tx

(* Frames: an entry is a file with its content; a torn one has not as much *)
(* data as its header says; "end" closes the tar, "seal" the compression.  *)
Entry(f, v) == [kind |-> "entry", file |-> f, content |-> v]
TornEntry(f) == [kind |-> "torn", file |-> f, content |-> Mixed]
Mark(m) == [kind |-> m, file |-> 0, content |-> 0]

(* The first entry that raced. *)
Cut(f) == IF cut <= Files THEN cut ELSE f

ArchiveInit ==
    /\ limit \in Limits
    /\ files \in {[f \in File |-> 1], [[f \in File |-> 1] EXCEPT ![1] = 0],
                 [[f \in File |-> 1] EXCEPT ![Files] = Outward]}
    /\ before = NoFiles /\ changes = 0 /\ cut = Files + 1
    /\ todo = {} /\ header = 0 /\ bridge = Unused /\ encoder = "off" /\ body = Unused
    /\ caller = "idle" /\ object = << >>
    /\ hot \in {NoFiles, [NoFiles EXCEPT ![1] = 2]}
    /\ input = << >> /\ received = 0 /\ duplex = Unused /\ decoder = "off"
    /\ plain = Unused /\ extractor = "off" /\ reply = "none"

-----------------------------------------------------------------------------
(* GET /snapshot *)

Present == {f \in File : files[f] # 0}

(* workspace_size: refused before anything is streamed; else the tasks are *)
(* spawned, and build_archive begins with a walk, in order.                *)
Snapshot ==
    /\ caller = "idle"
    /\ IF Cardinality(Present) > limit
       THEN caller' = "refused" /\ UNCHANGED <<before, todo, bridge, encoder, body>>
       ELSE /\ caller' = "reading"
            /\ before' = files
            /\ todo' = Present
            /\ bridge' = Channel /\ body' = Channel /\ encoder' = "on"
    /\ UNCHANGED <<limit, files, changes, cut, header, object, unpackVars>>

(* append_path_with_name stats and opens the entry, and fails, and with it *)
(* build_archive, if it is gone; the builder closes the tar as it is       *)
(* dropped.                                                                *)
OpenEntry ==
    /\ todo # {} /\ header = 0
    /\ IF files[Min(todo)] # 0
       THEN header' = files[Min(todo)] /\ UNCHANGED <<bridge, todo, cut>>
       ELSE /\ ~ bridge.rx \/ ~ Full(bridge)
            /\ bridge' = Hangup(IF bridge.rx THEN Push(bridge, Mark("end")) ELSE bridge)
            /\ todo' = {}
            /\ cut' = Cut(Min(todo))
            /\ UNCHANGED header
    /\ UNCHANGED <<limit, files, before, changes, encoder, body, caller, object, unpackVars>>

(* The data follows, up to the end of the file and padded to a block: of a *)
(* file unlinked since, as it was; of one rewritten since, as it is, and   *)
(* then not as long as the header says.                                    *)
CopyEntry ==
    /\ todo # {} /\ header # 0
    /\ LET f == Min(todo)
           same == files[f] \in {0, header}
       IN  /\ IF bridge.rx
              THEN /\ ~ Full(bridge)
                   /\ bridge' = Push(bridge, IF same THEN Entry(f, header)
                                                     ELSE TornEntry(f))
                   /\ todo' = todo \ {f}
              ELSE bridge' = Hangup(bridge) /\ todo' = {}
           /\ cut' = IF same THEN cut ELSE Cut(f)
    /\ header' = 0
    /\ UNCHANGED <<limit, files, before, changes, encoder, body, caller, object, unpackVars>>

(* into_inner: the end of the tar, and the sender is dropped. *)
FinishTar ==
    /\ todo = {} /\ bridge.tx
    /\ ~ bridge.rx \/ ~ Full(bridge)
    /\ bridge' = Hangup(IF bridge.rx THEN Push(bridge, Mark("end")) ELSE bridge)
    /\ UNCHANGED <<limit, files, before, changes, cut, todo, header, encoder, body, caller, object, unpackVars>>

(* Mutant: an encoder without a caller keeps its end of the bridge. *)
EncodeHolds ==
    /\ encoder = "on"
    /\ IF ~ body.rx
       THEN /\ encoder' = "off"
            /\ body' = Hangup(body)
            /\ UNCHANGED bridge
       ELSE /\ ~ Full(body)
            /\ \/ /\ bridge.frames # << >>
                  /\ body' = Push(body, Head(bridge.frames))
                  /\ bridge' = Get(bridge)
                  /\ UNCHANGED encoder
               \/ /\ Spent(bridge)
                  /\ body' = Hangup(Push(body, Mark("seal")))
                  /\ encoder' = "off"
                  /\ UNCHANGED bridge
    /\ UNCHANGED <<limit, files, before, changes, cut, todo, header, caller, object, unpackVars>>

(* The encoder's task: a frame from the bridge into the body; when the     *)
(* bridge is at its end, the compression is sealed.                        *)
Encode ==
    /\ encoder = "on"
    /\ IF ~ body.rx
       THEN /\ encoder' = "off"
            /\ bridge' = Drop(bridge) /\ body' = Hangup(body)
       ELSE /\ ~ Full(body)
            /\ \/ /\ bridge.frames # << >>
                  /\ body' = Push(body, Head(bridge.frames))
                  /\ bridge' = Get(bridge)
                  /\ UNCHANGED encoder
               \/ /\ Spent(bridge)
                  /\ body' = Hangup(Push(body, Mark("seal")))
                  /\ encoder' = "off"
                  /\ UNCHANGED bridge
    /\ UNCHANGED <<limit, files, before, changes, cut, todo, header, caller, object, unpackVars>>

(* The caller stores the stream: it is complete if the body ends. *)
Receive ==
    /\ caller = "reading"
    /\ \/ /\ body.frames # << >>
          /\ object' = Append(object, Head(body.frames))
          /\ body' = Get(body)
          /\ UNCHANGED caller
       \/ /\ Spent(body)
          /\ caller' = "stored"
          /\ UNCHANGED <<object, body>>
    /\ UNCHANGED <<limit, files, before, changes, cut, todo, header, bridge, encoder, unpackVars>>

(* Or it goes away, and what it has is discarded. *)
CallerLeaves ==
    /\ caller = "reading"
    /\ caller' = "gone"
    /\ body' = Drop(body) /\ object' = << >>
    /\ UNCHANGED <<limit, files, before, changes, cut, todo, header, bridge, encoder, unpackVars>>

(* The user's processes, while the snapshot is made. *)
Change(f) ==
    /\ caller = "reading" /\ changes < MaxChanges
    /\ \E v \in {0, 2} : files[f] # v /\ files' = [files EXCEPT ![f] = v]
    /\ changes' = changes + 1
    /\ UNCHANGED <<limit, before, cut, todo, header, bridge, encoder, body, caller, object, unpackVars>>

-----------------------------------------------------------------------------
(* PUT /restore, of what was stored *)

(* workspace_non_empty: the restore is declined. *)
WorkspaceNonEmpty == hot # NoFiles

Restore ==
    /\ caller = "stored" /\ reply = "none"
    /\ IF WorkspaceNonEmpty
       THEN reply' = "skipped" /\ UNCHANGED <<input, duplex, decoder, plain, extractor>>
       ELSE /\ reply' = "pending"
            /\ input' = object
            /\ duplex' = Channel /\ plain' = Channel
            /\ decoder' = "on" /\ extractor' = "on"
    /\ UNCHANGED <<makeVars, hot, received>>

(* The handler passes the body on, counting; when the decoder has gone it  *)
(* reads no further.                                                       *)
PassOn ==
    /\ reply = "pending" /\ duplex.tx /\ input # << >>
    /\ received' = received + 1
    /\ \/ /\ received' > limit
          /\ reply' = "413" /\ duplex' = Hangup(duplex)
          /\ UNCHANGED input
       \/ /\ received' <= limit /\ duplex.rx /\ ~ Full(duplex)
          /\ duplex' = Push(duplex, Head(input)) /\ input' = Tail(input)
          /\ UNCHANGED reply
       \/ /\ received' <= limit /\ ~ duplex.rx
          /\ duplex' = Hangup(duplex)
          /\ UNCHANGED <<input, reply>>
    /\ UNCHANGED <<makeVars, hot, decoder, plain, extractor>>

(* The body ends; or the connection breaks, and the handler answers 500 or *)
(* is itself dropped.                                                      *)
BodyEnds ==
    /\ reply = "pending" /\ duplex.tx
    /\ \/ input = << >> /\ UNCHANGED reply
       \/ reply' = "lost"
    /\ duplex' = Hangup(duplex)
    /\ UNCHANGED <<makeVars, hot, input, received, decoder, plain, extractor>>

(* The decoder's task.  An end of the stream without the seal is an error; *)
(* an extractor that has gone is not, since it has its own result.         *)
Decode ==
    /\ decoder = "on"
    /\ \/ /\ duplex.frames # << >>
          /\ LET x == Head(duplex.frames) IN
             IF x.kind # "seal" /\ plain.rx
             THEN /\ ~ Full(plain)
                  /\ plain' = Push(plain, x) /\ duplex' = Get(duplex)
                  /\ UNCHANGED decoder
             ELSE decoder' = "ok" /\ plain' = Hangup(plain) /\ duplex' = Drop(duplex)
       \/ /\ Spent(duplex)
          /\ decoder' = "err" /\ plain' = Hangup(plain) /\ duplex' = Drop(duplex)
    /\ UNCHANGED <<makeVars, hot, input, received, extractor, reply>>

(* confine_entry: the target of a link must lie within the workspace. *)
ConfineEntry(x) == x.content # Outward

(* extract_archive: entries up to the end of the tar, or of the stream. *)
Extracting == extractor \in {"on", "lost"}

Unpack ==
    /\ extractor = "on" /\ plain.frames # << >>
    /\ LET x == Head(plain.frames) IN
       \/ /\ x.kind = "entry" /\ ConfineEntry(x)
          /\ hot' = [hot EXCEPT ![x.file] = x.content]
          /\ plain' = Get(plain)
          /\ UNCHANGED extractor
       \/ /\ x.kind \in {"entry", "torn"}
          /\ extractor' = "disk" /\ plain' = Drop(plain) /\ UNCHANGED hot
       \/ /\ ~ ConfineEntry(x)
          /\ extractor' = "bad" /\ plain' = Drop(plain) /\ UNCHANGED hot
       \/ /\ x.kind = "torn"
          /\ hot' = [hot EXCEPT ![x.file] = x.content]
          /\ plain' = Get(plain)
          /\ extractor' = "lost"
       \/ /\ x.kind = "end"
          /\ extractor' = "ok" /\ plain' = Drop(plain) /\ UNCHANGED hot
    /\ UNCHANGED <<makeVars, input, received, duplex, decoder, reply>>

(* After a torn entry the next header is looked for at the wrong place: it *)
(* may be there, what follows may be taken for data, a block of zeros for  *)
(* the end, and any other is no header.                                    *)
Resynchronise ==
    /\ extractor = "lost"
    /\ \/ /\ plain.frames # << >>
          /\ plain' \in {plain, Get(plain)}
          /\ extractor' \in {"on", "lost"} /\ <<plain', extractor'>> # <<plain, extractor>>
       \/ /\ plain.frames # << >> \/ Spent(plain)
          /\ extractor' \in {"ok", "bad"}
          /\ plain' = Drop(plain)
    /\ UNCHANGED <<makeVars, hot, input, received, duplex, decoder, reply>>

ReadToEnd ==
    /\ extractor = "on" /\ Spent(plain)
    /\ extractor' = "ok" /\ plain' = Drop(plain)
    /\ UNCHANGED <<makeVars, hot, input, received, duplex, decoder, reply>>

Extract == Unpack \/ Resynchronise \/ ReadToEnd

(* Mutant: the answer waits for the decoder only. *)
AnswerEarly ==
    /\ reply = "pending" /\ ~ duplex.tx /\ decoder # "on"
    /\ reply' = IF decoder = "ok" THEN "restored" ELSE "500"
    /\ UNCHANGED <<makeVars, hot, input, received, duplex, decoder, plain, extractor>>

(* The answer: the decoder is joined first, then the extractor. *)
Answer ==
    /\ reply = "pending" /\ ~ duplex.tx /\ decoder # "on"
    /\ decoder = "err" \/ ~ Extracting
    /\ reply' = IF decoder = "ok" /\ extractor = "ok" THEN "restored" ELSE "500"
    /\ UNCHANGED <<makeVars, hot, input, received, duplex, decoder, plain, extractor>>

-----------------------------------------------------------------------------
Builder == OpenEntry \/ CopyEntry \/ FinishTar
Handler == PassOn \/ BodyEnds \/ Answer

ArchiveNext ==
    \/ Snapshot \/ Builder \/ Encode \/ Receive \/ CallerLeaves
    \/ \E f \in File : Change(f)
    \/ Restore \/ Handler \/ Decode \/ Extract

ArchiveSpec == ArchiveInit /\ [][ArchiveNext]_archiveVars

(* What went cold comes back: a restore that answers 200 restored has put  *)
(* back every file that nobody touched while the snapshot was made (#82,   *)
(* snapshot.rs:31-36), up to the first one that vanished or changed its    *)
(* length under the builder.                                               *)
RestoredWhole ==
    reply = "restored" =>
        \A f \in File : files[f] = before[f] /\ f < cut => hot[f] = before[f]

(* "a snapshot is not failed because a single file raced out from under    *)
(* us" (snapshot.rs:228-230).  It is cut short: the entries that come      *)
(* after the one that vanished are missing from an archive that is         *)
(* otherwise well formed, and some that come after one that grew or shrank *)
(* may be.                                                                 *)
RestoredWholeAlways ==
    reply = "restored" =>
        \A f \in File : files[f] = before[f] => hot[f] = before[f]

(* Nothing is archived that cannot be unpacked: a snapshot of a workspace  *)
(* at rest, within the size limits and without links out of it, is refused *)
(* by a restore only if the disk or the connection fails.                  *)
UndisturbedRestores ==
    reply = "500" /\ changes = 0 /\ (\A f \in File : before[f] # Outward)
        => extractor = "disk"

(* The same with links that have absolute targets, which the snapshot      *)
(* archives (snapshot.rs:214-218) and the restore refuses.                 *)
ArchivedRestores ==
    reply = "500" /\ changes = 0 => extractor = "disk"

(* No orphans (snapshot.rs:22-23, 526-529): whoever is waiting for a       *)
(* snapshot or a restore leaves or is answered, and the tasks behind it    *)
(* come to an end.                                                         *)
TasksEnd ==
    /\ caller \in {"gone", "stored"} ~> encoder = "off" /\ ~ bridge.tx
    /\ reply \notin {"none", "pending"} ~> decoder # "on" /\ ~ Extracting
=============================================================================
