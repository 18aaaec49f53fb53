------------------------------- MODULE Drafts -------------------------------
(***************************************************************************)
(* Adoption of a user's draft workspace (what was uploaded before the      *)
(* first message) into a new chat, by the resolve of that chat             *)
(* (broker/src/resolve.rs, store.rs, s3.rs).  With a PVC both directories  *)
(* are on one volume and a Job moves the files; its intent is stamped on   *)
(* the chat's Sandbox so that a resolve after a timeout takes it up.  With *)
(* s3-record the draft is archived under the chat's keys.                  *)
(*                                                                         *)
(* A directory has a file under each of its names; files are numbered as   *)
(* they are made.  A resolve takes one step per await that reads or        *)
(* changes shared state; the pod of a Job is a process of its own, which   *)
(* may outlive the Job.                                                    *)
(***************************************************************************)
EXTENDS Integers, FiniteSets

CONSTANTS
    Chat,      \* the user's new chats
    Asker,     \* resolves that may be in progress at once
    File,      \* names of files
    Second,    \* seconds in which a plan may be made: part of the Job's name
    Modes,     \* persistent modes considered, of "pvc" and "s3-record"
    MaxAsks,   \* bound: resolves in all
    MaxFiles,  \* bound: files made in all
    Nobody

Draft == "draft"

ASSUME DraftsAssumption ==
    /\ Modes \subseteq {"pvc", "s3-record"}
    /\ {MaxAsks, MaxFiles} \subseteq Nat
    /\ Second \subseteq Nat /\ Nobody \notin Chat \cup Second
    /\ Draft \notin Chat

VARIABLES
    mode,     \* persistent_mode
    draft,    \* its Sandbox: there under its name, and used within the window
    dir,      \* the directories of the chats and of the draft: name -> file, or 0
    snap,     \* s3-record: the latest snapshot of each chat
    chatBox,  \* the chats' Sandboxes: there, and with the pending marker
    asker,    \* the resolves
    jobs,     \* the pods of the Jobs, `held' while their Job is there
    owed,     \* history: names the draft held when the chat's Sandbox was created
    foul,     \* history: a Job or a read failed, the draft aged, or somebody competed
    made,     \* history: files made
    asks

draftVars == <<mode, draft, dir, snap, chatBox, asker, jobs, owed, foul, made, asks>>

NoBox == [there |-> FALSE, marker |-> FALSE, restored |-> FALSE]
JobName == Chat \X Second   \* draft-adopt-{chat}-{now}
NotAsking == [pc |-> "idle", chat |-> Nobody, job |-> Nobody]
Empty == [f \in File |-> 0]
NamesIn(d) == {f \in File : d[f] # 0}

DraftsInit ==
    /\ mode \in Modes
    /\ draft = [there |-> FALSE, recent |-> FALSE, mounted |-> TRUE]
    /\ dir = [d \in Chat \cup {Draft} |-> Empty]
    /\ snap = [c \in Chat |-> Empty]
    /\ chatBox = [c \in Chat |-> NoBox]
    /\ asker = [r \in Asker |-> NotAsking]
    /\ jobs = {}
    /\ owed = [c \in Chat |-> {}] /\ foul = [c \in Chat |-> FALSE]
    /\ made = 0 /\ asks = 0

Step(r, label) == asker' = [asker EXCEPT ![r].pc = label]
AtStep(r, label) == asker[r].pc = label
apart == <<mode, draft, owed, foul, made, asks>>

-----------------------------------------------------------------------------
(* The resolve of a chat *)

(* get_sandbox of the chat.  Resolves are alike: the first that is free. *)
AskFor(r, c) ==
    /\ AtStep(r, "idle") /\ r = (CHOOSE q \in Asker : AtStep(q, "idle"))
    /\ asks < MaxAsks
    /\ asks' = asks + 1
    /\ asker' = [asker EXCEPT ![r] = [NotAsking EXCEPT !.pc = IF chatBox[c].there THEN "ready" ELSE "capture",
                                                  !.chat = c]]
    /\ UNCHANGED <<mode, draft, dir, snap, chatBox, jobs, owed, foul, made>>

(* The draft is there and was used within the window. *)
Adoptable == draft.there /\ draft.recent

(* A plan is made in no second before that of another. *)
Plan(r, n, label) ==
    /\ \A m \in {asker[q].job : q \in Asker} \cup {j.name[2] : j \in jobs} : m # Nobody => m <= n
    /\ asker' = [asker EXCEPT ![r].pc = label, ![r].job = n]

(* capture_draft_adoption: a plan, in the PVC modes only; none if the      *)
(* draft cannot be read.  Its name has the second in it.                   *)
Capture(r) ==
    /\ AtStep(r, "capture")
    /\ \/ /\ mode = "pvc" /\ Adoptable
          /\ \E n \in Second : Plan(r, n, "create")
       \/ Step(r, "create")
    /\ UNCHANGED <<apart, dir, snap, chatBox, jobs>>

(* create_sandbox, with the marker if there is a plan.  The loser of a     *)
(* race keeps its plan.                                                    *)
CreateChat(r) ==
    LET c == asker[r].chat IN
    /\ AtStep(r, "create")
    /\ IF chatBox[c].there THEN UNCHANGED <<chatBox, owed>>
       ELSE /\ chatBox' = [chatBox EXCEPT ![c] = [NoBox EXCEPT !.there = TRUE, !.marker = asker[r].job # Nobody]]
            /\ owed' = [owed EXCEPT ![c] = IF asker[r].job # Nobody THEN NamesIn(dir[Draft]) ELSE {}]
    /\ Step(r, "ready")
    /\ UNCHANGED <<mode, draft, dir, snap, jobs, foul, made, asks>>

(* Readiness, or a 503; with s3-record the restore comes with it. *)
Readiness(r) ==
    LET c == asker[r].chat IN
    /\ AtStep(r, "ready")
    /\ \/ asker' = [asker EXCEPT ![r] = NotAsking] /\ UNCHANGED <<dir, chatBox>>
       \/ /\ chatBox[c].there
          /\ chatBox' = [chatBox EXCEPT ![c].restored = TRUE]
          /\ dir' = IF mode = "s3-record" /\ dir[c] = Empty THEN [dir EXCEPT ![c] = snap[c]] ELSE dir
          /\ Step(r, CASE mode = "s3-record" -> "adopt"
                       [] mode = "pvc" /\ asker[r].job # Nobody -> "launch"
                       [] OTHER -> "resume")
    /\ UNCHANGED <<apart, snap, jobs>>

(* Mutant: only the resolve that made the plan carries it out. *)
ResumeNot(r) ==
    /\ AtStep(r, "resume") /\ Step(r, "served")
    /\ UNCHANGED <<apart, dir, snap, chatBox, jobs>>

(* resume_draft_adoption: the marker and a draft that is still recent make *)
(* a plan again; a failed read makes none.                                 *)
ResumeAdoption(r) ==
    LET c == asker[r].chat IN
    /\ AtStep(r, "resume")
    /\ \/ /\ chatBox[c].marker /\ Adoptable
          /\ \E n \in Second : Plan(r, n, "launch")
          /\ UNCHANGED foul
       \/ /\ Step(r, "served")
          /\ foul' = [foul EXCEPT ![c] = @ \/ chatBox[c].marker]
    /\ UNCHANGED <<mode, draft, dir, snap, chatBox, jobs, owed, made, asks>>

PlanOf(r) == <<asker[r].chat, asker[r].job>>
Held(n) == {j \in jobs : j.held /\ j.name = n}

(* move_workspace_dir creates the Job; one of that name is reused. *)
Launch(r) ==
    LET n == PlanOf(r) IN
    /\ AtStep(r, "launch")
    /\ jobs' = IF Held(n) # {} THEN jobs
               ELSE jobs \cup {[name |-> n, held |-> TRUE, status |-> "pending", todo |-> {}]}
    /\ Step(r, "await")
    /\ UNCHANGED <<apart, dir, snap, chatBox>>

Ended(j) == j.status \in {"succeeded", "failed"}

(* The poll: done, or the deadline.  A Job that another resolve has taken  *)
(* away is waited for until the deadline.  The Job is deleted either way,  *)
(* with the default propagation: a pod that has not ended may run on.      *)
AwaitJob(r) ==
    LET n == PlanOf(r)  c == asker[r].chat IN
    /\ AtStep(r, "await")
    /\ jobs' = (jobs \ Held(n)) \cup {[j EXCEPT !.held = FALSE] : j \in {j \in Held(n) : ~ Ended(j)}}
    /\ foul' = [foul EXCEPT ![c] = @ \/ \A j \in Held(n) : j.status # "succeeded"]
    /\ asker' = [asker EXCEPT ![r].pc = "clear", ![r].job = Nobody]
    /\ UNCHANGED <<mode, draft, dir, snap, chatBox, owed, made, asks>>

(* clear_annotation, whatever the outcome of the Job; it may fail. *)
ClearMarker(r) ==
    LET c == asker[r].chat IN
    /\ AtStep(r, "clear")
    /\ chatBox' \in {chatBox, [chatBox EXCEPT ![c].marker = FALSE]}
    /\ Step(r, "served")
    /\ UNCHANGED <<apart, dir, snap, jobs>>

(* adopt_draft_s3, first half: not if the marker is there, nor without a   *)
(* draft of that name used within the window; the marker goes first, and   *)
(* without it there is no copy.                                            *)
MarkAdopted(r) ==
    LET c == asker[r].chat IN
    /\ AtStep(r, "adopt")
    /\ \/ /\ ~ chatBox[c].marker /\ Adoptable /\ chatBox[c].there
          /\ chatBox' = [chatBox EXCEPT ![c].marker = TRUE]
          /\ Step(r, "copy")
       \/ Step(r, "served") /\ UNCHANGED chatBox
    /\ UNCHANGED <<apart, dir, snap, jobs>>

(* offload_draft_to_chat: the draft's archive becomes the chat's latest    *)
(* snapshot and the others are deleted; or it fails.                       *)
CopyDraft(r) ==
    LET c == asker[r].chat IN
    /\ AtStep(r, "copy")
    /\ snap' \in {snap, [snap EXCEPT ![c] = dir[Draft]]}
    /\ Step(r, "served")
    /\ UNCHANGED <<apart, dir, chatBox, jobs>>

(* The user makes a file in a directory, in the place of one of its name. *)
Make(d, f) ==
    /\ made < MaxFiles /\ made' = made + 1
    /\ dir' = [dir EXCEPT ![d][f] = made + 1]

(* The user works in the chat, and is done. *)
UseChat(r) ==
    LET c == asker[r].chat IN
    /\ AtStep(r, "served")
    /\ \/ chatBox[c].there /\ \E f \in File : Make(c, f)
       \/ UNCHANGED <<dir, made>>
    /\ asker' = [asker EXCEPT ![r] = NotAsking]
    /\ UNCHANGED <<mode, draft, owed, foul, asks, snap, chatBox, jobs>>

-----------------------------------------------------------------------------
(* The pod of a Job: mkdir; find, and a mv of each name found; rmdir. *)

Becomes(j, k) == jobs' = (jobs \ {j}) \cup (IF Ended(k) /\ ~ k.held THEN {} ELSE {k})

(* find of a directory that an earlier Job removed fails. *)
JobStarts(j) ==
    /\ j.status = "pending"
    /\ Becomes(j, IF draft.mounted THEN [j EXCEPT !.status = "running", !.todo = NamesIn(dir[Draft])]
                  ELSE [j EXCEPT !.status = "failed"])
    /\ UNCHANGED <<apart, dir, snap, chatBox, asker>>

(* A mv is a rename on one volume, which replaces a file of that name.     *)
(* That of a file another Job has moved fails, which is no failure of find.*)
JobMoves(j) ==
    /\ j.status = "running"
    /\ \E f \in j.todo :
         /\ Becomes(j, [j EXCEPT !.todo = @ \ {f}])
         /\ dir' = IF dir[Draft][f] = 0 THEN dir
                   ELSE [dir EXCEPT ![Draft][f] = 0, ![j.name[1]][f] = dir[Draft][f]]
         /\ foul' = [c \in Chat |-> foul[c] \/ (c # j.name[1] /\ f \in owed[c])]
    /\ UNCHANGED <<mode, draft, owed, made, asks, snap, chatBox, asker>>

(* Mutant: the draft directory is removed with what is in it. *)
JobEndsRecursive(j) ==
    /\ j.status = "running" /\ j.todo = {}
    /\ Becomes(j, [j EXCEPT !.status = "succeeded"])
    /\ dir' = [dir EXCEPT ![Draft] = Empty]
    /\ draft' = [draft EXCEPT !.mounted = FALSE]
    /\ UNCHANGED <<mode, owed, foul, made, asks, snap, chatBox, asker>>

(* rmdir takes the directory only when it is empty (it is not if the       *)
(* runtime keeps its own files there).                                     *)
JobEnds(j) ==
    /\ j.status = "running" /\ j.todo = {}
    /\ Becomes(j, [j EXCEPT !.status = "succeeded"])
    /\ draft' \in {draft, [draft EXCEPT !.mounted = draft.mounted /\ dir[Draft] # Empty]}
    /\ UNCHANGED <<mode, owed, foul, made, asks, dir, snap, chatBox, asker>>

-----------------------------------------------------------------------------
(* The environment *)

(* An upload to the draft, through its own Sandbox. *)
UploadDraft(f) ==
    /\ draft.mounted
    /\ Make(Draft, f)
    /\ draft' = [draft EXCEPT !.there = TRUE, !.recent = TRUE]
    /\ UNCHANGED <<mode, snap, chatBox, asker, jobs, owed, foul, asks>>

(* The window passes without use of the draft. *)
DraftAges ==
    /\ draft.recent
    /\ draft' = [draft EXCEPT !.recent = FALSE]
    /\ UNCHANGED <<mode, dir, snap, chatBox, asker, jobs, owed, foul, made, asks>>

(* The reap of an idle chat.  A directory on a volume stays.  With         *)
(* s3-record a workspace that was restored (the other case is in           *)
(* Lifecycle) is archived, and the snapshot that was there is deleted.     *)
ReapChat(c) ==
    /\ chatBox[c].there
    /\ \A r \in Asker : asker[r].chat # c \/ AtStep(r, "idle")
    /\ \/ mode = "pvc" /\ UNCHANGED <<snap, dir>>
       \/ /\ mode = "s3-record" /\ chatBox[c].restored
          /\ snap' = [snap EXCEPT ![c] = dir[c]] /\ dir' = [dir EXCEPT ![c] = Empty]
    /\ chatBox' = [chatBox EXCEPT ![c] = NoBox]
    /\ UNCHANGED <<apart, asker, jobs>>

-----------------------------------------------------------------------------
Adopting(r) == Launch(r) \/ AwaitJob(r) \/ ClearMarker(r) \/ MarkAdopted(r) \/ CopyDraft(r)
Asking(r) ==
    \/ \E c \in Chat : AskFor(r, c)
    \/ Capture(r) \/ CreateChat(r) \/ Readiness(r) \/ ResumeAdoption(r) \/ Adopting(r) \/ UseChat(r)
Moving(j) == JobStarts(j) \/ JobMoves(j) \/ JobEnds(j)

DraftsNext ==
    \/ \E r \in Asker : Asking(r)
    \/ \E j \in jobs : Moving(j)
    \/ \E f \in File : UploadDraft(f)
    \/ DraftAges
    \/ \E c \in Chat : ReapChat(c)

-----------------------------------------------------------------------------
(* "block until the draft->chat move completed so the first file listing   *)
(* already sees the adopted files" (resolve.rs:308-309, 312-315): whoever  *)
(* resolves the new chat, after whatever timeout or race of resolves, sees *)
(* what the draft held when the chat was created, unless a Job or a read   *)
(* failed, the draft grew old or another chat adopted it too.              *)
FirstListingComplete ==
    \A r \in Asker :
        AtStep(r, "served") /\ mode = "pvc" /\ ~ foul[asker[r].chat]
            => owed[asker[r].chat] \subseteq NamesIn(dir[asker[r].chat])

(* A file leaves its place only for another directory or a snapshot, or    *)
(* because one of its name takes the place, although Jobs of several       *)
(* resolves move files, may be deleted half-way and run on, while uploads  *)
(* go on and chats are reaped and built again (store.rs:1332-1333).        *)
UploadsKept ==
    [][\A d \in DOMAIN dir : \A f \in NamesIn(dir[d]) :
         \/ f \in NamesIn(dir'[d])
         \/ \E e \in DOMAIN dir : dir'[e][f] = dir[d][f]
         \/ \E c \in Chat : snap'[c][f] = dir[d][f]]_draftVars

(* Refuted: the move is "for a freshly created chat sandbox" (resolve.rs:  *)
(* 1016-1017), so that no Job replaces a file the user made later.  A chat *)
(* that is built again, a second Job, or a pod that outlived its Job meets *)
(* files of the chat, and mv replaces them.                                *)
NoNewerReplaced ==
    [][\A d \in DOMAIN dir : \A f \in NamesIn(dir[d]) :
         f \in NamesIn(dir'[d]) => dir'[d][f] >= dir[d][f]]_draftVars

(* What resolve.rs:930-934 says of s3-record: the chat is given what the   *)
(* draft held.                                                             *)
DraftReachesChat ==
    [][\A r \in Asker :
         AtStep(r, "copy") /\ snap'[asker[r].chat] # snap[asker[r].chat]
            => NamesIn(dir[Draft]) \subseteq NamesIn(dir'[asker[r].chat])]_draftVars

=============================================================================
