------------------------------- MODULE Claims -------------------------------
(***************************************************************************)
(* Resolving a chat through a SandboxClaim on a warm pool (resolve_by_claim*)
(* in broker/src/resolve.rs) and releasing it when idle (broker/src/       *)
(* reaper.rs, s3.rs), for the two services that claim: ephemeral sandboxes *)
(* and persistent s3-record ones.                                          *)
(*                                                                         *)
(* The claim has the chat's name, the Sandbox bound to it a name of the    *)
(* pool.  The controller builds the Sandbox, so the broker patches its own *)
(* marks onto it one by one, and the reaper sees it from the first mark on.*)
(* A resolve and the reaper take one step per await that reads or changes  *)
(* shared state.  Detail of the S3 tier is in Lifecycle: here an upload is *)
(* one step.                                                               *)
(***************************************************************************)
EXTENDS Integers, FiniteSets

CONSTANTS
    Boxes,       \* bound: Sandboxes the controller may bind, 1..Boxes in turn
    Caller,      \* resolves of the chat that may be in progress at once
    Threshold,   \* idle_ttl_seconds or park_idle_seconds, in ticks
    Services,    \* the services considered, one of which is the case
    Nil

(* touch: the best-effort bump of last-used fails.  stamp: the best-effort *)
(* stamp of an uploaded key fails.  store: another call of the API server  *)
(* fails.  s3: an offload fails.  runtime: a restore fails, at its start   *)
(* or half-way.  suspend: an operator suspends the Sandbox.  delete: the   *)
(* claim, destroy: the Sandbox is deleted from outside.  slow: the idle    *)
(* threshold passes during a resolve, or with the workspace not restored.  *)
(* aged: the pool's member is older than the threshold when it is bound.   *)
(* lag: the controller takes longer than the reaper's period to follow a   *)
(* claim.  tie: a resolve comes within the second of a snapshot.           *)
ClaimEvents ==
    {"touch", "stamp", "store", "s3", "runtime", "suspend", "delete", "destroy", "slow", "aged", "lag", "tie"}

ASSUME ClaimsAssumption ==
    /\ {Boxes, Threshold} \subseteq Nat
    /\ \A s \in Services :
         /\ s.profile \in {"ephemeral", "persistent"} /\ s.record \in BOOLEAN
         /\ s.profile = "persistent" => s.record
         /\ s.volume \in BOOLEAN
         /\ s.env \subseteq ClaimEvents
         /\ {s.calls, s.visits, s.work, s.outside} \subseteq Nat
    /\ Nil \notin Int /\ Nil \notin [uid : Nat, bound : 1..Boxes \cup {Nil}]

VARIABLES
    service,   \* the profile, whether the mode is s3-record, whether the pool's members
               \* have a volume that outlives their pods, the events and the bounds
    claim,     \* the SandboxClaim: its uid and the Sandbox bound, or Nil
    box,       \* the Sandboxes, by their names in the pool
    saved,     \* S3: the write in the chat's snapshot, 0 if there is none
    caller,    \* the resolves
    sweep,     \* the reaper's tick
    kept,      \* history: the last write the user saw succeed
    calm,      \* history: it raced no reap and no restore, no earlier Sandbox of the
               \* chat was still there; since, no loss was reported and no restore cut
    uids, visits, outside

claimVars == <<service, claim, box, saved, caller, sweep, kept, calm, uids, visits, outside>>

Box == 1..Boxes
Aged == Threshold + 1   \* ages are counted up to the first that matters
Persistent == service.profile = "persistent"
Can(e) == e \in service.env
MaxCalls == service.calls       \* bound: resolves in progress at once
MaxVisits == service.visits     \* bound: resolves in all
MaxWork == service.work         \* bound: writes of the user
MaxOutside == service.outside   \* bound: interventions from outside

Blank ==
    [is |-> "free", owner |-> 0, label |-> FALSE, ref |-> FALSE, ident |-> FALSE,
     fin |-> FALSE, term |-> FALSE, mode |-> "Running", idle |-> Nil, age |-> 0,
     up |-> FALSE, pod |-> 0, ws |-> 0, restored |-> 0, fresh |-> FALSE]
Torn == -1      \* a workspace half unpacked, or mixed

Away == [pc |-> "idle", box |-> Nil, pod |-> 0, skip |-> FALSE, body |-> 0]
Nothing == [term |-> FALSE, fin |-> FALSE, ref |-> FALSE, ident |-> FALSE,
            up |-> FALSE, mode |-> "Running", to |-> "next"]
Resting == [pc |-> "idle", todo |-> <<>>, at |-> Nil, v |-> Nothing]

ClaimsInit ==
    /\ service \in Services
    /\ claim = Nil /\ box = [b \in Box |-> Blank] /\ saved = 0
    /\ caller = [c \in Caller |-> Away] /\ sweep = Resting
    /\ kept = 0 /\ calm = TRUE
    /\ uids = 0 /\ visits = 0 /\ outside = 0

Live(b) == box[b].is = "live"
Bound == IF claim = Nil THEN Nil ELSE claim.bound
Owned(b) == IF claim = Nil THEN FALSE ELSE claim.uid = box[b].owner

-----------------------------------------------------------------------------
(* Resolve *)

On(c, label) == caller[c].pc = label
Move(c, label) == caller' = [caller EXCEPT ![c].pc = label]
Fail(c) == caller' = [caller EXCEPT ![c] = Away]
Put(b, f, x) == box' = [box EXCEPT ![b][f] = x]

(* A call by name: it changes the Sandbox if that is there, and else the   *)
(* resolve fails (stamping retries a NotFound until the deadline).         *)
Stamp(c, from, f, x, to) ==
    LET b == caller[c].box IN
    /\ On(c, from)
    /\ \/ Live(b) /\ Put(b, f, x) /\ Move(c, to)
       \/ ~ Live(b) /\ Fail(c) /\ UNCHANGED box
    /\ UNCHANGED <<service, claim, saved, sweep, kept, calm, uids, visits, outside>>

(* create_claim; a Conflict means that there is one to poll. *)
CreateClaim(c) ==
    /\ On(c, "idle") /\ visits < MaxVisits
    /\ Cardinality({d \in Caller : ~ On(d, "idle")}) < MaxCalls
    /\ visits' = visits + 1
    /\ IF claim = Nil THEN /\ claim' = [uid |-> uids + 1, bound |-> Nil]
                           /\ uids' = uids + 1
                      ELSE UNCHANGED <<claim, uids>>
    /\ Move(c, "poll")
    /\ UNCHANGED <<service, box, saved, sweep, kept, calm, outside>>

(* The poll: bound, vanished, or past the deadline. *)
PollClaim(c) ==
    /\ On(c, "poll")
    /\ \/ /\ Bound # Nil
          /\ caller' = [caller EXCEPT ![c].pc = "label", ![c].box = Bound]
       \/ Bound = Nil /\ Fail(c)
    /\ UNCHANGED <<service, claim, box, saved, sweep, kept, calm, uids, visits, outside>>

(* The stamping loop: labels, the claim's name, user and session (of use   *)
(* once both are there), and for a persistent one the finalizer.           *)
StampLabels(c) == Stamp(c, "label", "label", TRUE, "ref")

StampClaim(c) == Stamp(c, "ref", "ref", TRUE, IF Persistent THEN "ident" ELSE "inspect")

StampIdentity(c) == Stamp(c, "ident", "ident", TRUE, "finalizer")

(* add_finalizer reads the list and patches only when ours is missing. *)
ReadFinalizers(c) ==
    LET b == caller[c].box IN
    /\ On(c, "finalizer")
    /\ IF ~ Live(b) THEN Fail(c)
       ELSE Move(c, IF box[b].fin THEN "inspect" ELSE "hold")
    /\ UNCHANGED <<service, claim, box, saved, sweep, kept, calm, uids, visits, outside>>

(* The API server admits no new finalizer on a terminating object. *)
AddFinalizer(c) ==
    LET b == caller[c].box IN
    /\ On(c, "hold")
    /\ \/ Live(b) /\ ~ box[b].term /\ Put(b, "fin", TRUE) /\ Move(c, "inspect")
       \/ (~ Live(b) \/ box[b].term) /\ Fail(c) /\ UNCHANGED box
    /\ UNCHANGED <<service, claim, saved, sweep, kept, calm, uids, visits, outside>>

(* A call of the API server fails while the Sandbox is bound, stamped or   *)
(* awaited: so does the resolve, and its marks stay.                       *)
GivesUp(c) ==
    /\ Can("store")
    /\ caller[c].pc \in {"poll", "label", "ref", "ident", "finalizer", "hold", "wait"}
    /\ Fail(c)
    /\ UNCHANGED <<service, claim, box, saved, sweep, kept, calm, uids, visits, outside>>

(* A bound Sandbox that is seen suspended is asked to run, once.  Every    *)
(* resolve goes on to the readiness gate, whatever came of it.             *)
Inspect(c) ==
    LET b == caller[c].box IN
    /\ On(c, "inspect")
    /\ \/ Live(b) /\ box[b].mode = "Suspended" /\ Move(c, "resume")
       \/ (Can("store") \/ ~ Live(b) \/ box[b].mode # "Suspended") /\ Move(c, "wait")
    /\ UNCHANGED <<service, claim, box, saved, sweep, kept, calm, uids, visits, outside>>

Resume(c) ==
    LET b == caller[c].box IN
    /\ On(c, "resume")
    /\ \/ Live(b) /\ Put(b, "mode", "Running") /\ Move(c, "retouch")
       \/ (Can("store") \/ ~ Live(b)) /\ Move(c, "wait") /\ UNCHANGED box
    /\ UNCHANGED <<service, claim, saved, sweep, kept, calm, uids, visits, outside>>

(* touch_last_used, best-effort: a bump after a snapshot makes it stale,   *)
(* unless it has the same second.                                          *)
Bump(b) ==
    IF Live(b) THEN \/ \E f \in {FALSE} \cup (IF Can("tie") THEN {box[b].fresh} ELSE {}) :
                         box' = [box EXCEPT ![b].idle = 0, ![b].fresh = f]
                    \/ Can("touch") /\ UNCHANGED box
               ELSE UNCHANGED box

TouchClaimed(c) ==
    /\ \/ On(c, "retouch") /\ Move(c, "wait")
       \/ On(c, "touch") /\ Move(c, IF Persistent THEN "restore" ELSE "serve")
    /\ Bump(caller[c].box)
    /\ UNCHANGED <<service, claim, saved, sweep, kept, calm, uids, visits, outside>>

(* wait_for_ready on the bound name; its answer decides whether the        *)
(* restore is skipped: same pod, same session, Running.                    *)
WaitBound(c) ==
    LET b == caller[c].box IN
    /\ On(c, "wait")
    /\ \/ /\ Live(b) /\ box[b].up
          /\ caller' = [caller EXCEPT ![c].pc = "touch", ![c].pod = box[b].pod,
                                      ![c].skip = box[b].restored = box[b].pod /\ box[b].mode = "Running"]
       \/ (~ Live(b) \/ ~ box[b].up) /\ Fail(c)
    /\ UNCHANGED <<service, claim, box, saved, sweep, kept, calm, uids, visits, outside>>

(* The pod whose address the resolve has is there. *)
Reaches(c) ==
    LET b == caller[c].box IN Live(b) /\ box[b].up /\ box[b].pod = caller[c].pod

(* Mutant: the restore is skipped for any session of the pod. *)
FetchSkips(c) ==
    /\ On(c, "restore") /\ Move(c, "serve")
    /\ UNCHANGED <<service, claim, box, saved, sweep, kept, calm, uids, visits, outside>>

(* restore_on_resolve: nothing to do, nothing to restore, or the snapshot; *)
(* a failure is a 502.                                                     *)
Fetch(c) ==
    /\ On(c, "restore")
    /\ \/ caller[c].skip /\ Move(c, "serve")
       \/ ~ caller[c].skip /\ saved = 0 /\ Move(c, "mark")
       \/ /\ ~ caller[c].skip /\ saved # 0
          /\ caller' = [caller EXCEPT ![c].pc = "put", ![c].body = saved]
       \/ ~ caller[c].skip /\ Can("runtime") /\ Fail(c)
    /\ UNCHANGED <<service, claim, box, saved, sweep, kept, calm, uids, visits, outside>>

(* PUT /restore: an empty workspace is filled, another one is kept. *)
Unpack(c) ==
    LET b == caller[c].box IN
    /\ On(c, "put")
    /\ \/ Reaches(c) /\ box[b].ws # 0 /\ Move(c, "mark") /\ UNCHANGED box
       \/ Reaches(c) /\ box[b].ws = 0 /\ Put(b, "ws", Torn) /\ Move(c, "unpack")
       \/ (Can("runtime") \/ ~ Reaches(c)) /\ Fail(c) /\ UNCHANGED box
    /\ UNCHANGED <<service, claim, saved, sweep, kept, calm, uids, visits, outside>>

(* It is unpacked, over what was written meanwhile, or cut short. *)
Unpacked(c) ==
    LET b == caller[c].box IN
    /\ On(c, "unpack")
    /\ \/ /\ Reaches(c) /\ Move(c, "mark")
          /\ Put(b, "ws", IF box[b].ws = Torn THEN caller[c].body ELSE Torn)
          /\ UNCHANGED calm
       \/ /\ Can("runtime") \/ ~ Reaches(c)
          /\ Fail(c) /\ calm' = FALSE /\ UNCHANGED box
    /\ UNCHANGED <<service, claim, saved, sweep, kept, uids, visits, outside>>

(* The stamps of the session and of the pod, best-effort: the first says   *)
(* nothing without the second.                                             *)
MarkRestored(c) ==
    LET b == caller[c].box IN
    /\ On(c, "mark") /\ Move(c, "serve")
    /\ \/ Live(b) /\ Put(b, "restored", caller[c].pod)
       \/ (Can("store") \/ ~ Live(b)) /\ UNCHANGED box
    /\ UNCHANGED <<service, claim, saved, sweep, kept, calm, uids, visits, outside>>

(* A caller fills the workspace of b. *)
Unpacking(c, b) == On(c, "unpack") /\ caller[c].box = b

(* What the user does with the sandbox: one write, or nothing more. *)
Work(c) ==
    LET b == caller[c].box IN
    /\ On(c, "serve")
    /\ Reaches(c) /\ kept < MaxWork
    /\ kept' = kept + 1
    /\ Put(b, "ws", kept + 1)
    /\ calm' = /\ sweep.pc = "idle" /\ ~ box[b].term /\ Owned(b) /\ \A x \in Box \ {b} : ~ Live(x)
               /\ \A d \in Caller : ~ Unpacking(d, b)
    /\ Fail(c)
    /\ UNCHANGED <<service, claim, saved, sweep, uids, visits, outside>>

Leave(c) ==
    /\ On(c, "serve") /\ Fail(c)
    /\ UNCHANGED <<service, claim, box, saved, sweep, kept, calm, uids, visits, outside>>

-----------------------------------------------------------------------------
(* The reaper's tick *)

Doing(label) == sweep.pc = label
Then(label) == sweep' = [sweep EXCEPT !.pc = label]
still == <<service, caller, kept, uids, visits, outside>>

(* Mutant: an s3-record Sandbox without a last-used stamp is left alone. *)
IdleOfTracked(v) == v.idle

(* idle_secs: without a stamp, s3-record ages from the creation. *)
IdleOf(v) == IF v.idle = Nil /\ service.record THEN v.age ELSE v.idle

(* decide() for the two services that claim. *)
Reapable(v) == IF IdleOf(v) = Nil THEN FALSE ELSE IdleOf(v) > Threshold

(* handle_terminating and the idle policy, on the object as it was listed. *)
Verdict(v) ==
    CASE v.term /\ ~ v.fin -> "next"
      [] v.term /\ v.fin /\ (v.fresh \/ (~ v.up /\ v.mode # "Suspended")) -> "unhold"
      [] v.term /\ v.fin /\ ~ v.fresh /\ (v.up \/ v.mode = "Suspended") -> "offload"
      [] ~ v.term /\ Reapable(v) -> "offload"
      [] OTHER -> "next"

(* What a tick uses of a listed Sandbox. *)
Listed(b) ==
    [term |-> box[b].term, fin |-> box[b].fin, ref |-> box[b].ref,
     ident |-> box[b].ident, up |-> box[b].up, mode |-> box[b].mode,
     to |-> Verdict(box[b])]

(* The controller has deleted what a claim took along, before the next     *)
(* tick unless it lags.                                                    *)
CascadePending == \E b \in Box : Live(b) /\ ~ box[b].term /\ ~ Owned(b)

(* list_sandboxes by the managed-by label; the rest need nothing done. *)
ListClaimed ==
    LET due == {b \in Box : Live(b) /\ box[b].label /\ Verdict(box[b]) # "next"} IN
    /\ Doing("idle") /\ due # {}
    /\ Can("lag") \/ ~ CascadePending
    /\ sweep' = [Resting EXCEPT !.pc = "next", !.todo = [b \in due |-> Listed(b)]]
    /\ UNCHANGED <<still, claim, box, saved, calm>>

NextClaimed ==
    /\ Doing("next")
    /\ \/ DOMAIN sweep.todo = {} /\ sweep' = Resting
       \/ \E b \in DOMAIN sweep.todo :
            sweep' = [pc |-> sweep.todo[b].to, at |-> b, v |-> sweep.todo[b],
                      todo |-> [x \in DOMAIN sweep.todo \ {b} |-> sweep.todo[x]]]
    /\ UNCHANGED <<still, claim, box, saved, calm>>

(* offload_on_reap has failed: the finalizer is held or the Sandbox kept,  *)
(* but a suspended s3-record Sandbox is looked at again.                   *)
Keep == Then(IF ~ sweep.v.term /\ service.record /\ sweep.v.mode = "Suspended"
             THEN "recheck" ELSE "next")

(* ensure_running_pod: the pod that was listed, or a suspended Sandbox's   *)
(* pod once it is asked to run.  An ephemeral Sandbox has nothing to save. *)
OffloadBegins ==
    LET b == sweep.at IN
    /\ Doing("offload")
    /\ \/ ~ Persistent /\ Then("unhold") /\ UNCHANGED box
       \/ Persistent /\ sweep.v.up /\ Then("upload") /\ UNCHANGED box
       \/ /\ Persistent /\ ~ sweep.v.up /\ sweep.v.mode = "Suspended"
          /\ IF Live(b) THEN Put(b, "mode", "Running") /\ Then("boot")
                        ELSE Keep /\ UNCHANGED box
       \/ /\ Persistent /\ ~ sweep.v.up /\ sweep.v.mode # "Suspended"
          /\ Keep /\ UNCHANGED box
    /\ UNCHANGED <<still, claim, saved, calm>>

AwaitBoot ==
    LET b == sweep.at IN
    /\ Doing("boot")
    /\ IF Live(b) /\ box[b].up THEN Then("upload") ELSE Keep
    /\ UNCHANGED <<still, claim, box, saved, calm>>

(* Snapshot, upload and prune, then the stamp of the key, which is of no   *)
(* use without a last-used stamp.  Without user and session on the listed  *)
(* object the key is nobody's.                                             *)
Upload ==
    LET b == sweep.at IN
    /\ Doing("upload")
    /\ Live(b) /\ box[b].up
    /\ saved' = IF sweep.v.ident THEN box[b].ws ELSE saved
    /\ \/ Put(b, "fresh", box[b].idle # Nil)
       \/ Can("stamp") /\ UNCHANGED box
    /\ Then("unhold")
    /\ UNCHANGED <<still, claim, calm>>

(* Mutant: an offload that failed counts as done. *)
UploadFailsOpen ==
    /\ Doing("upload")
    /\ Can("s3") \/ ~ Live(sweep.at) \/ ~ box[sweep.at].up
    /\ Then("unhold")
    /\ UNCHANGED <<still, claim, box, saved, calm>>

(* Every attempt failed. *)
UploadFails ==
    /\ Doing("upload")
    /\ Can("s3") \/ ~ Live(sweep.at) \/ ~ box[sweep.at].up
    /\ Keep
    /\ UNCHANGED <<still, claim, box, saved, calm>>

(* The re-fetch: still suspended means released without a snapshot, which  *)
(* is counted and logged.                                                  *)
RecheckClaimed ==
    LET b == sweep.at IN
    /\ Doing("recheck")
    /\ IF Live(b) /\ box[b].mode = "Suspended"
       THEN Then("unhold") /\ calm' = FALSE
       ELSE Then("next") /\ UNCHANGED calm
    /\ UNCHANGED <<still, claim, box, saved>>

(* What follows the removal of the finalizer. *)
Onward == IF sweep.v.term THEN "next" ELSE "unclaim"

(* remove_finalizer, if the listed object bore it: read the list, then     *)
(* patch it.  It may fail; a reap goes on all the same.                    *)
ReadHeld ==
    LET b == sweep.at IN
    /\ Doing("unhold")
    /\ Then(IF sweep.v.fin /\ Live(b) /\ box[b].fin THEN "strip" ELSE Onward)
    /\ UNCHANGED <<still, claim, box, saved, calm>>

Strip ==
    LET b == sweep.at IN
    /\ Doing("strip")
    /\ IF Live(b) THEN Put(b, "fin", FALSE) \/ (Can("store") /\ UNCHANGED box)
                  ELSE UNCHANGED box
    /\ Then(Onward)
    /\ UNCHANGED <<still, claim, saved, calm>>

(* release_reaped: the claim goes first, by its name, and the Sandbox only *)
(* when there is no claim.                                                 *)
Unclaim ==
    /\ Doing("unclaim")
    /\ \/ ~ sweep.v.ref /\ Then("delete") /\ UNCHANGED claim
       \/ sweep.v.ref /\ claim = Nil /\ Then("delete") /\ UNCHANGED claim
       \/ sweep.v.ref /\ claim # Nil /\ claim' = Nil /\ Then("next")
       \/ sweep.v.ref /\ Can("store") /\ Then("next") /\ UNCHANGED claim
    /\ UNCHANGED <<still, box, saved, calm>>

DeleteClaimed ==
    LET b == sweep.at IN
    /\ Doing("delete")
    /\ IF Live(b) THEN Put(b, "term", TRUE) \/ (Can("store") /\ UNCHANGED box)
                  ELSE UNCHANGED box
    /\ Then("next")
    /\ UNCHANGED <<still, claim, saved, calm>>

-----------------------------------------------------------------------------
(* The controller and the API server (external), as resolve.rs:614-616 and *)
(* reaper.rs:505-507 describe them: a claim is bound once, in place, and a *)
(* bound Sandbox is never replaced; a deleted claim takes it along.        *)

world == <<service, saved, caller, sweep, kept, calm, visits>>

Bind ==
    /\ claim # Nil /\ claim.bound = Nil
    /\ \E b \in Box :
         /\ box[b].is = "free" /\ \A x \in 1..(b - 1) : box[x].is # "free"
         /\ claim' = [claim EXCEPT !.bound = b]
         /\ \E warm \in BOOLEAN, age \in {0} \cup (IF Can("aged") THEN {Aged} ELSE {}) :
              box' = [box EXCEPT ![b] = [Blank EXCEPT !.is = "live", !.owner = claim.uid,
                                                      !.up = warm, !.pod = IF warm THEN 1 ELSE 0,
                                                      !.age = age]]
    /\ UNCHANGED <<world, uids, outside>>

Cascade(b) ==
    /\ Live(b) /\ ~ box[b].term /\ ~ Owned(b)
    /\ Put(b, "term", TRUE)
    /\ UNCHANGED <<world, claim, uids, outside>>

Remove(b) ==
    /\ Live(b) /\ box[b].term /\ ~ box[b].fin
    /\ box' = [box EXCEPT ![b] = [Blank EXCEPT !.is = "gone"]]
    /\ UNCHANGED <<world, claim, uids, outside>>

StartPod(b) ==
    /\ Live(b) /\ ~ box[b].term /\ box[b].mode = "Running" /\ ~ box[b].up
    /\ box' = [box EXCEPT ![b].up = TRUE, ![b].pod = @ + 1]
    /\ UNCHANGED <<world, claim, uids, outside>>

(* A member without a volume loses its workspace with its pod. *)
StopSuspended(b) ==
    /\ Live(b) /\ box[b].mode = "Suspended" /\ box[b].up
    /\ box' = [box EXCEPT ![b].up = FALSE, ![b].ws = IF service.volume THEN @ ELSE 0]
    /\ UNCHANGED <<world, claim, uids, outside>>

(* Interventions: an operator suspends the Sandbox or deletes the claim,   *)
(* DELETE /api/sandboxes/{name} deletes the Sandbox.                       *)
Intervene ==
    /\ outside < MaxOutside /\ outside' = outside + 1
    /\ \/ /\ Can("delete") /\ claim # Nil
          /\ claim' = Nil /\ UNCHANGED box
       \/ \E b \in Box : /\ Can("suspend") /\ Live(b) /\ ~ box[b].term /\ box[b].mode = "Running"
                         /\ Put(b, "mode", "Suspended") /\ UNCHANGED claim
       \/ \E b \in Box : /\ Can("destroy") /\ Live(b) /\ ~ box[b].term
                         /\ Put(b, "term", TRUE) /\ UNCHANGED claim
    /\ UNCHANGED <<world, uids>>

Older(x) == IF x = Nil \/ x = Aged THEN x ELSE x + 1

(* A resolve is under way, or was given up with its Sandbox not stamped or *)
(* the workspace not restored.                                             *)
Unsettled ==
    \/ \E c \in Caller : caller[c].pc \notin {"idle", "serve"}
    \/ \E b \in Box : /\ Live(b) /\ ~ box[b].term
                      /\ ~ box[b].ref \/ (Persistent /\ box[b].ws # kept)

Elapse ==
    /\ Can("slow") \/ ~ Unsettled
    /\ box' = [b \in Box |-> IF Live(b)
                 THEN [box[b] EXCEPT !.idle = Older(@), !.age = Older(@)] ELSE box[b]]
    /\ box' # box
    /\ UNCHANGED <<world, claim, uids, outside>>

-----------------------------------------------------------------------------
Stamping(c) == StampLabels(c) \/ StampClaim(c) \/ StampIdentity(c) \/ ReadFinalizers(c) \/ AddFinalizer(c)
Readying(c) == Inspect(c) \/ Resume(c) \/ TouchClaimed(c) \/ WaitBound(c)
Restoring(c) == Fetch(c) \/ Unpack(c) \/ Unpacked(c) \/ MarkRestored(c)
Calling(c) == CreateClaim(c) \/ PollClaim(c) \/ GivesUp(c) \/ Stamping(c) \/ Readying(c) \/ Restoring(c)
              \/ Work(c) \/ Leave(c)

Offloading == OffloadBegins \/ AwaitBoot \/ Upload \/ UploadFails \/ RecheckClaimed
Sweep == ListClaimed \/ NextClaimed \/ Offloading \/ ReadHeld \/ Strip \/ Unclaim \/ DeleteClaimed

Controls(b) == Cascade(b) \/ Remove(b) \/ StartPod(b) \/ StopSuspended(b)

ClaimsNext ==
    \/ \E c \in Caller : Calling(c)
    \/ Sweep
    \/ Bind
    \/ \E b \in Box : Controls(b)
    \/ Intervene
    \/ Elapse

-----------------------------------------------------------------------------
(* What the claims' resolve and the reaper promise where nobody deletes,   *)
(* no idle threshold passes before the workspace is restored, and only     *)
(* members with a volume are suspended.                                    *)
Undisturbed ==
    /\ service.env \cap {"delete", "destroy", "slow", "aged", "lag"} = {}
    /\ Can("suspend") => service.volume

(* A persistent chat's last write is in a Sandbox that is not on its way   *)
(* out unsaved, or in its snapshot, although each reap gives the Sandbox   *)
(* back (s3.rs:706, resolve.rs:739-741).                                   *)
ClaimedWorkSafe ==
    Persistent /\ calm /\ kept # 0 =>
        \/ saved = kept
        \/ \E b \in Box : Live(b) /\ box[b].ws = kept /\ (box[b].term => box[b].fin)

(* The same where nothing disturbs a reap (reaper.rs:505-507, s3.rs:706).  *)
ClaimedWorkKept == Undisturbed => ClaimedWorkSafe

(* The step by which a resolve is answered. *)
ClaimServes ==
    \A c \in Caller :
        LET b == caller'[c].box IN
        /\ ~ On(c, "serve") /\ caller'[c].pc = "serve"
        /\ Persistent /\ calm /\ Reaches(c)
        /\ \A d \in Caller : ~ Unpacking(d, b)
        => box'[b].ws = kept

(* A persistent resolve that succeeds serves the last write, in whichever  *)
(* Sandbox the claim is bound to now and whoever restored it (resolve.rs:  *)
(* 811-812), unless a restore was cut short or another resolve is in the   *)
(* middle of one.                                                          *)
ClaimServesLastWrite == [][Undisturbed => ClaimServes]_claimVars

(* A claim that is bound is bound to a Sandbox that is there and stays: a  *)
(* reap deletes the claim before its Sandbox (reaper.rs:505-507).  The     *)
(* controller replaces no bound Sandbox, so that a claim left without one  *)
(* could never be resolved again.                                          *)
BoundIsThere ==
    Bound # Nil => Live(Bound) /\ ~ box[Bound].term

(* The same where nothing disturbs a reap (reaper.rs:505-507).             *)
BoundStays == Undisturbed => BoundIsThere

(* A Sandbox whose idle time the reaper can tell. *)
Tracked(b) == Live(b) /\ box[b].label /\ (service.record \/ box[b].idle # Nil)

(* A Sandbox that was marked as the broker's is given back once nobody     *)
(* comes any more, whatever failed while it was stamped, resumed, touched  *)
(* or saved (reaper.rs:634-639, 158).                                      *)
IdleReleased == Can("slow") => <>[](\A b \in Box : ~ Tracked(b))

(* The same without asking for a last-used stamp (reaper.rs:158, "return   *)
(* capacity to pool").                                                     *)
MarkedReleased == Can("slow") => <>[](\A b \in Box : ~ (Live(b) /\ box[b].label))

=============================================================================
