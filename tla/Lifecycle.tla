------------------------------ MODULE Lifecycle ------------------------------
(***************************************************************************)
(* The life of one persistent chat's Sandbox and of its workspace: the     *)
(* resolve path of the broker (broker/src/resolve.rs, direct path without  *)
(* a claim), the reaper's tick over it (broker/src/reaper.rs), the S3 cold *)
(* tier (broker/src/s3.rs) and the runtime's snapshot and restore          *)
(* (runtime/src/snapshot.rs), against the API server, the sandbox          *)
(* controller and S3.                                                      *)
(*                                                                         *)
(* An agent is a resolve in progress or a reaper tick; it takes one step   *)
(* per await that reads or changes shared state, and every object is       *)
(* addressed by its name, whichever incarnation bears it.  A workspace is  *)
(* the number of the last write in it.                                     *)
(***************************************************************************)
EXTENDS Integers, FiniteSets, FiniteSetsExt

CONSTANTS
    Reaper,     \* reaper ticks that may overlap (one while leases hold)
    Resolver,   \* resolves of this chat that may be in progress at once
    None,
    Deployments,  \* the deployments considered, one of which is the case
    Finalizer,    \* s3_termination_finalizer
    IdleTTL,      \* idle_ttl_seconds, in ticks
    ParkIdle,     \* park_idle_seconds
    ReapIdle,     \* reap_seconds
    Grace         \* RECYCLE_GRACE_SECS

(* s3, runtime, store: a call of S3, the runtime, the API server fails and *)
(* has no effect.  torn: a restore or a purge is cut short.  cancel: a     *)
(* resolve's client hangs up, or the reaper's process dies.  linger: the   *)
(* pod of a deleted Sandbox serves on until it is collected.  podloss: a   *)
(* pod dies.  delete: the Sandbox is deleted through the API.  suspend: an *)
(* operator suspends it.  slow: a resolve takes as long as the idle        *)
(* thresholds, or is given up with the workspace not restored.             *)
Events == {"s3", "runtime", "store", "torn", "cancel", "linger", "podloss",
           "delete", "suspend", "slow"}

(* The Sandbox objects and the ready pods there may be in a deployment.    *)
Objects(d) ==
    [mode : {"Running", "Suspended"}, used : 0..d.time, fin : BOOLEAN,
     term : BOOLEAN, stamp : 0..d.time \cup {None},
     restored : 1..d.pods \cup {None}, recycled : 0..d.time \cup {None},
     drift : BOOLEAN]

ReadyPods(d) == [uid : 1..d.pods, mine : BOOLEAN, keyed : BOOLEAN]

(* A deployment: its configuration, the events its environment admits, and *)
(* the bounds of the instance.                                             *)
ASSUME LifecycleAssumption ==
    /\ \A d \in Deployments :
         /\ d.mode \in {"pvc", "empty-dir", "s3-record"}
         /\ d.s3 \in BOOLEAN
         /\ d.mode # "pvc" => d.s3
         /\ d.env \subseteq Events
         /\ d.alone \in BOOLEAN /\ {d.time, d.writes, d.pods, d.edits} \subseteq Nat
         /\ None \notin Objects(d) /\ None \notin ReadyPods(d)
    /\ Finalizer \in BOOLEAN
    /\ IdleTTL \in Nat /\ ParkIdle \in Nat /\ ReapIdle \in Nat /\ Grace \in Nat
    /\ Reaper \cap Resolver = {}
    /\ None \notin Int /\ None \notin {"reap", "recycle", "terminate"}

VARIABLES
    conf,       \* the deployment; it never changes
    now,        \* the clock, in ticks
    cr,         \* the Sandbox object, or None
    pod,        \* the pod of that name, once it is ready, or None
    hot,        \* what is in the workspace volume
    cold,       \* S3: the snapshot under the key of each time, or None
    secret,     \* the runtime-key Secret exists
    agent,      \* the resolves and the reaper ticks
    acked,      \* history: the last write the user saw succeed
    settled,    \* history: that write raced no reap, and no loss was reported
    pods,       \* pods created so far
    edits       \* template edits so far

vars == <<conf, now, cr, pod, hot, cold, secret, agent, acked, settled, pods,
          edits>>
ghosts == <<acked, settled>>
counters == <<conf, pods, edits>>

Mode == conf.mode           \* persistent_mode
S3 == conf.s3               \* s3_enabled
Env == conf.env             \* what the environment does: a subset of Events
Alone == conf.alone         \* bound: one resolve in progress at a time
MaxTime == conf.time        \* bound: ticks of the clock
MaxWrites == conf.writes    \* bound: writes of the user
MaxPods == conf.pods        \* bound: pods the controller creates
MaxEdits == conf.edits      \* bound: edits of the base template

Agent == Reaper \cup Resolver
Time == 0..MaxTime
Torn == -1
Content == Torn..MaxWrites

Idle ==
    [pc |-> "idle", seen |-> None, task |-> None, at |-> 0, pod |-> None,
     byPod |-> FALSE, skip |-> FALSE, key |-> None, listed |-> None, old |-> {},
     body |-> 0]

(* build_sandbox, and the finalizer that create_sandbox_from_template sets. *)
FinalizerActive == Finalizer /\ Mode = "s3-record" /\ S3

NewSandbox(t) ==
    [mode |-> "Running", used |-> t, fin |-> FinalizerActive, term |-> FALSE,
     stamp |-> None, restored |-> None, recycled |-> None, drift |-> FALSE]

Init ==
    /\ conf \in Deployments
    /\ now = 0
    /\ cr = None /\ pod = None /\ hot = 0 /\ secret = FALSE
    /\ cold = [t \in Time |-> None]
    /\ agent = [a \in Agent |-> Idle]
    /\ acked = 0 /\ settled = TRUE
    /\ pods = 0 /\ edits = 0

-----------------------------------------------------------------------------
(* What the broker reads *)

(* status.podIPs of the Sandbox. *)
StatusPod == IF cr # None /\ pod # None /\ pod.mine THEN pod.uid ELSE None

(* A Sandbox as get_sandbox and list_sandboxes return it. *)
Read == [obj |-> cr, ip |-> StatusPod]

(* A request to the pod's address reaches the pod it was resolved to, and  *)
(* is authorised by the per-session key.                                   *)
Runs(uid) == IF pod = None THEN FALSE ELSE pod.uid = uid
Reaches(uid) == Runs(uid) /\ pod.keyed

(* decide(): Skip, Park or Reap. *)
decide(idle, mode) ==
    CASE Mode = "empty-dir" /\ idle > IdleTTL -> "reap"
      [] Mode = "empty-dir" /\ idle <= IdleTTL -> "skip"
      [] Mode # "empty-dir" /\ idle > ReapIdle -> "reap"
      [] Mode = "s3-record" /\ idle > ParkIdle -> "reap"
      [] Mode = "pvc" /\ idle > ParkIdle /\ idle <= ReapIdle
           /\ mode # "Suspended" -> "park"
      [] OTHER -> "skip"

idle_secs(obj, t) == IF obj.used > t THEN 0 ELSE t - obj.used

recycle_eligible(obj, t) ==
    /\ ~ obj.term
    /\ obj.mode # "Suspended"
    /\ obj.recycled # None => t - obj.recycled >= Grace
    /\ decide(idle_secs(obj, t), obj.mode) # "skip"

fresh_snapshot(obj) == obj.stamp # None /\ obj.stamp >= obj.used

(* latest_key: the newest key of the namespace. *)
Stored == {t \in Time : cold[t] # None}

LatestKey == IF Stored = {} THEN None ELSE Max(Stored)

-----------------------------------------------------------------------------
(* Where an agent goes *)

Set(a, r) == agent' = [agent EXCEPT ![a] = r]
Goto(a, label) == agent' = [agent EXCEPT ![a].pc = label]
Done(a) == Set(a, Idle)
At(a, label) == agent[a].pc = label

(* A resolve that keeps the Sandbox it found. *)
KeepServing(a) ==
    Set(a, [Idle EXCEPT
              !.pc = IF agent[a].seen.obj.mode = "Suspended" THEN "resume"
                                                             ELSE "wait"])

(* recycle_drifted_idle returns None, or recycle_sandbox returns false and *)
(* the tick goes on with its idle policy.                                  *)
RecycleDropped(a) ==
    IF a \in Resolver
      THEN KeepServing(a)
      ELSE Set(a, [Idle EXCEPT !.pc = "policy", !.seen = agent[a].seen,
                               !.at = agent[a].at])

OffloadOk(a) ==
    Set(a, [agent[a] EXCEPT !.pc = "release", !.pod = None, !.key = None,
                            !.body = 0])

(* Mutant: a failed offload does not stop the reap. *)
OffloadErrIgnored(a) == OffloadOk(a)

(* offload_on_reap returned Err to the caller it was made for. *)
OffloadErr(a) ==
    CASE agent[a].task = "recycle" -> RecycleDropped(a)
      [] agent[a].task = "reap" /\ Mode = "s3-record"
           /\ agent[a].seen.obj.mode = "Suspended" -> Goto(a, "recheck")
      [] OTHER -> Done(a)

(* The API server removes the object; its pod is collected with it, or     *)
(* serves on for a while.                                                  *)
RemoveObject ==
    /\ cr' = None
    /\ pod' = IF pod # None /\ "linger" \in Env
                THEN [pod EXCEPT !.mine = FALSE] ELSE None

(* DELETE of the object: held back while it carries the finalizer. *)
DeleteObject ==
    IF cr # None /\ cr.fin
      THEN cr' = [cr EXCEPT !.term = TRUE] /\ UNCHANGED pod
      ELSE RemoveObject

(* A merge-patch of the object by name, or the call fails (logged). *)
Patch(f, v) ==
    \/ cr # None /\ cr' = [cr EXCEPT ![f] = v]
    \/ (cr = None \/ "store" \in Env) /\ UNCHANGED cr

-----------------------------------------------------------------------------
(* offload_on_reap, for a reap, a recycle or a termination *)

(* NoopOffload without S3; else ensure_running_pod, which resumes a parked *)
(* Sandbox.                                                                *)
OffloadStart(a) ==
    /\ At(a, "offload")
    /\ LET seen == agent[a].seen IN
       \/ ~ S3 /\ OffloadOk(a) /\ UNCHANGED cr
       \/ /\ S3 /\ seen.ip # None
          /\ Set(a, [agent[a] EXCEPT !.pc = "attempt", !.pod = seen.ip])
          /\ UNCHANGED cr
       \/ /\ S3 /\ seen.ip = None /\ seen.obj.mode = "Suspended" /\ cr # None
          /\ cr' = [cr EXCEPT !.mode = "Running"]
          /\ Goto(a, "boot")
       \/ /\ S3 /\ seen.ip = None
          /\ seen.obj.mode # "Suspended" \/ cr = None \/ "store" \in Env
          /\ OffloadErr(a)
          /\ UNCHANGED cr
    /\ UNCHANGED <<now, pod, hot, cold, secret, ghosts, counters>>

(* The wait for the resumed pod; it times out, or the Sandbox vanishes.    *)
Boot(a) ==
    /\ At(a, "boot")
    /\ \/ /\ StatusPod # None
          /\ Set(a, [agent[a] EXCEPT !.pc = "attempt", !.pod = StatusPod])
       \/ OffloadErr(a)
    /\ UNCHANGED <<now, cr, pod, hot, cold, secret, ghosts, counters>>

(* Mutant: the old snapshots make room for the new one. *)
AttemptPrunes(a) ==
    /\ At(a, "attempt")
    /\ Set(a, [agent[a] EXCEPT !.pc = "snapshot", !.key = now])
    /\ cold' = [t \in Time |-> None]
    /\ UNCHANGED <<now, cr, pod, hot, secret, ghosts, counters>>

(* The key is named for the time at which the attempt begins. *)
Attempt(a) ==
    /\ At(a, "attempt")
    /\ Set(a, [agent[a] EXCEPT !.pc = "snapshot", !.key = now])
    /\ UNCHANGED <<now, cr, pod, hot, cold, secret, ghosts, counters>>

(* Mutant: the snapshot moves the files instead of copying them. *)
SnapshotMoves(a) ==
    /\ At(a, "snapshot")
    /\ Reaches(agent[a].pod)
    /\ Set(a, [agent[a] EXCEPT !.pc = "put", !.body = hot])
    /\ hot' = 0
    /\ UNCHANGED <<now, cr, pod, cold, secret, ghosts, counters>>

Snapshot(a) ==
    /\ At(a, "snapshot")
    /\ Reaches(agent[a].pod)
    /\ Set(a, [agent[a] EXCEPT !.pc = "put", !.body = hot])
    /\ UNCHANGED <<now, cr, pod, hot, cold, secret, ghosts, counters>>

Put(a) ==
    /\ At(a, "put")
    /\ cold' = [cold EXCEPT ![agent[a].key] = agent[a].body]
    /\ Goto(a, "prune")
    /\ UNCHANGED <<now, cr, pod, hot, secret, ghosts, counters>>

(* The attempt failed: back off and retry, or give up after max_attempts.  *)
AttemptFailed(a) ==
    \/ At(a, "snapshot") /\ (~ Reaches(agent[a].pod) \/ "runtime" \in Env)
    \/ At(a, "put") /\ "s3" \in Env

Retry(a) ==
    /\ AttemptFailed(a)
    /\ Set(a, [agent[a] EXCEPT !.pc = "attempt", !.key = None, !.body = 0])
    /\ UNCHANGED <<now, cr, pod, hot, cold, secret, ghosts, counters>>

(* Mutant: the hot tier is cleared although nothing was uploaded. *)
GiveUpPurges(a) ==
    /\ AttemptFailed(a)
    /\ IF Mode = "pvc" THEN Goto(a, "purge") ELSE OffloadErr(a)
    /\ UNCHANGED <<now, cr, pod, hot, cold, secret, ghosts, counters>>

GiveUp(a) ==
    /\ AttemptFailed(a)
    /\ OffloadErr(a)
    /\ UNCHANGED <<now, cr, pod, hot, cold, secret, ghosts, counters>>

(* delete_prefix_except lists the namespace, and then deletes every other  *)
(* key in the order listed, unless a call fails before key n; that is not  *)
(* fatal.                                                                  *)
ListOld(a) ==
    /\ At(a, "prune")
    /\ Set(a, [agent[a] EXCEPT !.pc = "pruning", !.old = Stored \ {agent[a].key}])
    /\ UNCHANGED <<now, cr, pod, hot, cold, secret, ghosts, counters>>

Prune(a) ==
    /\ At(a, "pruning")
    /\ \E n \in 0..(MaxTime + 1) :
         /\ n = MaxTime + 1 \/ "s3" \in Env
         /\ cold' = [t \in Time |-> IF t \in agent[a].old /\ t < n THEN None
                                                                  ELSE cold[t]]
    /\ Set(a, [agent[a] EXCEPT !.pc = "stamp", !.old = {}])
    /\ UNCHANGED <<now, cr, pod, hot, secret, ghosts, counters>>

StampKey(a) ==
    /\ At(a, "stamp")
    /\ Patch("stamp", agent[a].key)
    /\ IF Mode = "pvc" THEN Goto(a, "purge") ELSE OffloadOk(a)
    /\ UNCHANGED <<now, pod, hot, cold, secret, ghosts, counters>>

(* The chat directory of a PVC hot tier is emptied by a find that deletes  *)
(* file after file, and that the timeout of /execute may kill half-way.    *)
Purge(a) ==
    /\ At(a, "purge")
    /\ \/ Reaches(agent[a].pod) /\ hot' = 0
       \/ Reaches(agent[a].pod) /\ "torn" \in Env /\ hot # 0 /\ hot' = Torn
       \/ (~ Reaches(agent[a].pod) \/ "runtime" \in Env) /\ UNCHANGED hot
    /\ OffloadOk(a)
    /\ UNCHANGED <<now, cr, pod, cold, secret, ghosts, counters>>

-----------------------------------------------------------------------------
(* After the offload: release, delete, and recreate if it was a recycle *)

(* remove_finalizer, if the object was seen to carry it; a terminating     *)
(* object goes with its last finalizer.                                    *)
Releases(a) ==
    IF cr = None
      THEN FALSE
      ELSE /\ cr.fin /\ agent[a].seen.obj.fin
           /\ agent[a].task = "terminate" \/ FinalizerActive

Release(a) ==
    /\ At(a, "release")
    /\ \/ /\ Releases(a)
          /\ IF cr.term THEN RemoveObject
                        ELSE cr' = [cr EXCEPT !.fin = FALSE] /\ UNCHANGED pod
       \/ /\ ~ Releases(a) \/ "store" \in Env
          /\ UNCHANGED <<cr, pod>>
    /\ IF agent[a].task = "terminate" THEN Done(a) ELSE Goto(a, "delete")
    /\ UNCHANGED <<now, hot, cold, secret, ghosts, counters>>

Delete(a) ==
    /\ At(a, "delete")
    /\ \/ /\ cr # None
          /\ DeleteObject
          /\ Goto(a, IF agent[a].task = "reap" THEN "delkey" ELSE "key")
       \/ /\ cr = None
          /\ IF agent[a].task = "reap" THEN Done(a) ELSE Goto(a, "key")
          /\ UNCHANGED <<cr, pod>>
       \/ /\ "store" \in Env
          /\ IF agent[a].task = "reap" THEN Done(a) ELSE RecycleDropped(a)
          /\ UNCHANGED <<cr, pod>>
    /\ UNCHANGED <<now, hot, cold, secret, ghosts, counters>>

(* The Secret goes; a pod that still runs under the name keeps a key that  *)
(* the broker no longer has.                                               *)
DeleteKey(a) ==
    /\ At(a, "delkey")
    /\ \/ /\ secret' = FALSE
          /\ pod' = IF pod = None THEN None ELSE [pod EXCEPT !.keyed = FALSE]
       \/ "store" \in Env /\ UNCHANGED <<secret, pod>>
    /\ Done(a)
    /\ UNCHANGED <<now, cr, hot, cold, ghosts, counters>>

(* create_sandbox_from_template ensures the key before the object: the     *)
(* Secret is read, and a key minted and created if there was none.         *)
KeyFails(a) ==
    /\ "store" \in Env
    /\ IF a \in Reaper THEN RecycleDropped(a) ELSE Done(a)
    /\ UNCHANGED <<secret, pod>>

KeyEnsured(a) == Set(a, [agent[a] EXCEPT !.pc = "create", !.key = now])

EnsureKey(a) ==
    /\ At(a, "key")
    /\ \/ /\ IF secret THEN KeyEnsured(a) ELSE Goto(a, "mint")
          /\ UNCHANGED <<secret, pod>>
       \/ KeyFails(a)
    /\ UNCHANGED <<now, cr, hot, cold, ghosts, counters>>

(* A minted key is like no other: the pod that runs has not mounted it.    *)
Minted ==
    /\ secret' = TRUE
    /\ pod' = IF pod = None THEN None ELSE [pod EXCEPT !.keyed = FALSE]

(* Mutant: the key read as missing is applied, not created. *)
MintKeyApplies(a) ==
    /\ At(a, "mint")
    /\ Minted /\ KeyEnsured(a)
    /\ UNCHANGED <<now, cr, hot, cold, ghosts, counters>>

(* The create that finds a Secret (409) leaves it: a concurrent ensure won.*)
MintKey(a) ==
    /\ At(a, "mint")
    /\ \/ ~ secret /\ Minted /\ KeyEnsured(a)
       \/ secret /\ KeyEnsured(a) /\ UNCHANGED <<secret, pod>>
       \/ KeyFails(a)
    /\ UNCHANGED <<now, cr, hot, cold, ghosts, counters>>

(* An object that is there already (Conflict) is taken for the winner of a *)
(* create race.  A recycle stamps recycled-at on whatever bears the name,  *)
(* the reaper with the time it gave the new object.                        *)
Created(a) == IF cr = None THEN NewSandbox(agent[a].key) ELSE cr

Create(a) ==
    /\ At(a, "create")
    /\ \/ /\ cr' \in IF agent[a].task = "recycle"
                       THEN {[Created(a) EXCEPT !.recycled =
                                                IF a \in Reaper THEN agent[a].key
                                                                ELSE now]}
                              \cup (IF "store" \in Env THEN {Created(a)} ELSE {})
                       ELSE {Created(a)}
          /\ IF a \in Reaper THEN Done(a) ELSE Set(a, [Idle EXCEPT !.pc = "wait"])
       \/ /\ "store" \in Env
          /\ IF a \in Reaper THEN RecycleDropped(a) ELSE Done(a)
          /\ UNCHANGED cr
    /\ UNCHANGED <<now, pod, hot, cold, secret, ghosts, counters>>

-----------------------------------------------------------------------------
(* The reaper's tick *)

List(a) ==
    /\ At(a, "idle")
    /\ cr # None
    /\ Set(a, [Idle EXCEPT !.pc = "decide", !.seen = Read, !.at = now])
    /\ UNCHANGED <<now, cr, pod, hot, cold, secret, ghosts, counters>>

Begin(a, task, label) == Set(a, [agent[a] EXCEPT !.task = task, !.pc = label])

(* Mutant: a termination insists on its snapshot without a pod, as it did  *)
(* before the incident that reaper.rs:398-405 recounts.                    *)
DecideHolds(a) ==
    LET seen == agent[a].seen IN
    /\ At(a, "decide")
    /\ \/ seen.obj.term /\ ~ seen.obj.fin /\ Done(a)
       \/ /\ seen.obj.term /\ seen.obj.fin
          /\ Begin(a, "terminate",
                   IF fresh_snapshot(seen.obj) THEN "release" ELSE "offload")
       \/ ~ seen.obj.term /\ Goto(a, "policy")
    /\ UNCHANGED <<now, cr, pod, hot, cold, secret, ghosts, counters>>

(* The listed object, when the tick comes to it. *)
Decide(a) ==
    LET seen == agent[a].seen IN
    /\ At(a, "decide")
    /\ \/ seen.obj.term /\ ~ seen.obj.fin /\ Done(a)
       \/ /\ seen.obj.term /\ seen.obj.fin
          /\ IF \/ ~ FinalizerActive
                \/ fresh_snapshot(seen.obj)
                \/ seen.ip = None /\ seen.obj.mode # "Suspended"
               THEN Begin(a, "terminate", "release")
               ELSE Begin(a, "terminate", "offload")
       \/ /\ ~ seen.obj.term
          /\ seen.obj.drift /\ recycle_eligible(seen.obj, agent[a].at)
          /\ Begin(a, "recycle", "offload")
       \/ /\ ~ seen.obj.term
          /\ \/ ~ (seen.obj.drift /\ recycle_eligible(seen.obj, agent[a].at))
             \/ "store" \in Env
          /\ Goto(a, "policy")
    /\ UNCHANGED <<now, cr, pod, hot, cold, secret, ghosts, counters>>

(* The idle policy, on the object as it was listed. *)
Policy(a) ==
    LET obj == agent[a].seen.obj
        action == decide(idle_secs(obj, agent[a].at), obj.mode)
    IN  /\ At(a, "policy")
        /\ CASE action = "skip" -> Done(a) /\ UNCHANGED cr
             [] action = "park" -> Done(a) /\ Patch("mode", "Suspended")
             [] action = "reap" -> Begin(a, "reap", "offload") /\ UNCHANGED cr
        /\ UNCHANGED <<now, pod, hot, cold, secret, ghosts, counters>>

(* A suspended s3-record Sandbox whose offload failed is released without  *)
(* a snapshot if it is still suspended; the loss is counted and logged.    *)
StillSuspended == IF cr = None THEN FALSE ELSE cr.mode = "Suspended"

Recheck(a) ==
    /\ At(a, "recheck")
    /\ \/ /\ StillSuspended
          /\ Goto(a, "release")
          /\ settled' = FALSE
       \/ /\ ~ StillSuspended \/ "store" \in Env
          /\ Done(a)
          /\ UNCHANGED settled
    /\ UNCHANGED <<now, cr, pod, hot, cold, secret, acked, counters>>

-----------------------------------------------------------------------------
(* A resolve *)

Get(a) ==
    /\ At(a, "idle")
    /\ Alone => \A r \in Resolver : At(r, "idle")
    /\ IF cr = None
         THEN Set(a, [Idle EXCEPT !.pc = "key"])
         ELSE Set(a, [Idle EXCEPT !.pc = "drift", !.seen = Read])
    /\ UNCHANGED <<now, cr, pod, hot, cold, secret, ghosts, counters>>

(* recycle_drifted_idle: the template is read and the idle predicate asked *)
(* about the object as it was read.                                        *)
Drift(a) ==
    LET obj == agent[a].seen.obj IN
    /\ At(a, "drift")
    /\ \/ /\ obj.drift /\ recycle_eligible(obj, now)
          /\ Begin(a, "recycle", "offload")
       \/ /\ ~ (obj.drift /\ recycle_eligible(obj, now)) \/ "store" \in Env
          /\ KeepServing(a)
    /\ UNCHANGED <<now, cr, pod, hot, cold, secret, ghosts, counters>>

(* A parked Sandbox is set Running and, if that worked, its idle clock is  *)
(* restarted.                                                              *)
Resume(a) ==
    /\ At(a, "resume")
    /\ \/ /\ cr # None
          /\ cr' = [cr EXCEPT !.mode = "Running"]
          /\ Goto(a, "retouch")
       \/ /\ cr = None \/ "store" \in Env
          /\ Goto(a, "wait")
          /\ UNCHANGED cr
    /\ UNCHANGED <<now, pod, hot, cold, secret, ghosts, counters>>

Retouch(a) ==
    /\ At(a, "retouch")
    /\ Patch("used", now)
    /\ Goto(a, "wait")
    /\ UNCHANGED <<now, pod, hot, cold, secret, ghosts, counters>>

(* wait_for_ready: the pod of that name is ready, seen on the Pod object,  *)
(* or in the Sandbox status, which does not have its UID.                  *)
WaitForReady(a) ==
    /\ At(a, "wait")
    /\ \/ /\ pod # None
          /\ Set(a, [Idle EXCEPT !.pc = "gate", !.pod = pod.uid, !.byPod = TRUE])
       \/ /\ StatusPod # None
          /\ Set(a, [Idle EXCEPT !.pc = "touch", !.pod = StatusPod,
                                 !.key = cr.stamp])
    /\ UNCHANGED <<now, cr, pod, hot, cold, secret, ghosts, counters>>

(* After the Pod the Sandbox is read, if it can be, for its annotations;   *)
(* the gate of #209 is judged on them.                                     *)
ReadGate(a) ==
    /\ At(a, "gate")
    /\ \/ /\ cr # None
          /\ Set(a, [agent[a] EXCEPT
                       !.pc = "touch", !.key = cr.stamp,
                       !.skip = /\ cr.restored = agent[a].pod
                                /\ cr.mode = "Running"])
       \/ (cr = None \/ "store" \in Env) /\ Goto(a, "touch")
    /\ UNCHANGED <<now, cr, pod, hot, cold, secret, ghosts, counters>>

(* The deadline passes, or the pod is unschedulable: 503. *)
NotReady(a) ==
    /\ At(a, "wait")
    /\ Done(a)
    /\ UNCHANGED <<now, cr, pod, hot, cold, secret, ghosts, counters>>

Touch(a) ==
    /\ At(a, "touch")
    /\ Patch("used", now)
    /\ Goto(a, IF S3 /\ ~ agent[a].skip THEN "list" ELSE "serve")
    /\ UNCHANGED <<now, pod, hot, cold, secret, ghosts, counters>>

(* restore_on_resume lists the namespace. *)
ListKeys(a) ==
    /\ At(a, "list")
    /\ Set(a, [agent[a] EXCEPT !.pc = "fetch", !.listed = LatestKey])
    /\ UNCHANGED <<now, cr, pod, hot, cold, secret, ghosts, counters>>

(* It gets the stamped key, or the newest listed if that cannot be read or *)
(* there is no stamp.                                                      *)
Readable(t) == IF t = None THEN FALSE ELSE cold[t] # None

Fetch(a) ==
    /\ At(a, "fetch")
    /\ \E t \in Time :
         /\ Readable(t)
         /\ \/ t = agent[a].key
            \/ /\ t = agent[a].listed
               /\ ~ Readable(agent[a].key) \/ "s3" \in Env
         /\ Set(a, [agent[a] EXCEPT !.pc = "restore", !.key = None,
                                    !.listed = None, !.body = cold[t]])
    /\ UNCHANGED <<now, cr, pod, hot, cold, secret, ghosts, counters>>

FetchNothing(a) ==
    /\ At(a, "fetch")
    /\ agent[a].listed = None
    /\ ~ Readable(agent[a].key) \/ "s3" \in Env
    /\ Set(a, [agent[a] EXCEPT !.pc = "restored", !.key = None])
    /\ UNCHANGED <<now, cr, pod, hot, cold, secret, ghosts, counters>>

(* PUT /restore declines a workspace that is not empty; else the files of  *)
(* the archive appear one by one.                                          *)
Restore(a) ==
    /\ At(a, "restore")
    /\ Reaches(agent[a].pod)
    /\ IF hot # 0 \/ agent[a].body = 0
         THEN /\ Set(a, [agent[a] EXCEPT !.pc = "restored", !.body = 0])
              /\ UNCHANGED hot
         ELSE Goto(a, "unpack") /\ hot' = Torn
    /\ UNCHANGED <<now, cr, pod, cold, secret, ghosts, counters>>

Unpacked(a) ==
    /\ At(a, "unpack")
    /\ Runs(agent[a].pod)
    /\ hot' = agent[a].body
    /\ Set(a, [agent[a] EXCEPT !.pc = "restored", !.body = 0])
    /\ UNCHANGED <<now, cr, pod, cold, secret, ghosts, counters>>

(* Mutant: a failed restore is logged and the pod handed back. *)
RestoreFailsOpen(a) ==
    /\ \/ At(a, "list") /\ "s3" \in Env
       \/ /\ At(a, "fetch")
          /\ \/ "s3" \in Env
             \/ /\ agent[a].listed # None
                /\ ~ Readable(agent[a].listed) /\ ~ Readable(agent[a].key)
       \/ At(a, "restore") /\ (~ Reaches(agent[a].pod) \/ "runtime" \in Env)
       \/ At(a, "unpack") /\ (~ Runs(agent[a].pod) \/ "torn" \in Env)
    /\ Set(a, [agent[a] EXCEPT !.pc = "restored", !.key = None,
                               !.listed = None, !.body = 0])
    /\ UNCHANGED <<now, cr, pod, hot, cold, secret, ghosts, counters>>

(* S3 or the runtime fails the restore, or the pod is gone: 502. *)
RestoreFails(a) ==
    /\ \/ At(a, "list") /\ "s3" \in Env
       \/ /\ At(a, "fetch")
          /\ \/ "s3" \in Env
             \/ /\ agent[a].listed # None
                /\ ~ Readable(agent[a].listed) /\ ~ Readable(agent[a].key)
       \/ At(a, "restore") /\ (~ Reaches(agent[a].pod) \/ "runtime" \in Env)
       \/ At(a, "unpack") /\ (~ Runs(agent[a].pod) \/ "torn" \in Env)
    /\ Done(a)
    /\ UNCHANGED <<now, cr, pod, hot, cold, secret, ghosts, counters>>

(* The pod that now serves the session is stamped, if its UID is known.    *)
StampRestored(a) ==
    /\ At(a, "restored")
    /\ IF agent[a].byPod THEN Patch("restored", agent[a].pod)
                         ELSE UNCHANGED cr
    /\ Set(a, [Idle EXCEPT !.pc = "serve", !.pod = agent[a].pod])
    /\ UNCHANGED <<now, pod, hot, cold, secret, ghosts, counters>>

(* A tick or a recycle has read the Sandbox and may still act on it.       *)
ReapPending ==
    \E a \in Agent : agent[a].task # None \/ agent[a].pc \in {"decide", "policy"}

(* The resolved request is proxied: a write, or nothing that matters here. *)
Write(a) ==
    /\ At(a, "serve")
    /\ Reaches(agent[a].pod)
    /\ acked < MaxWrites
    /\ acked' = acked + 1
    /\ hot' = acked + 1
    /\ settled' = ~ ReapPending
    /\ Done(a)
    /\ UNCHANGED <<now, cr, pod, cold, secret, counters>>

Answered(a) ==
    /\ At(a, "serve")
    /\ Done(a)
    /\ UNCHANGED <<now, cr, pod, hot, cold, secret, ghosts, counters>>

-----------------------------------------------------------------------------
(* The environment *)

(* The hot tier still holds what was written to it: a PVC always, the     *)
(* emptyDir of the base template, the direct path's for the other modes,   *)
(* while its pod is there.                                                 *)
HotLives == Mode = "pvc" \/ (pod # None /\ pod.mine)

(* The workspace of the Sandbox is not yet what the user left, nor a part  *)
(* of it that is taken for a hot tier.                                     *)
Unrestored ==
    \/ cr # None /\ ~ (HotLives /\ hot \in {acked, Torn})
    \/ \E a \in Resolver : At(a, "unpack")

Tick ==
    /\ now < MaxTime
    /\ \/ "slow" \in Env
       \/ ~ Unrestored /\ \A a \in Resolver : agent[a].pc \in {"idle", "serve"}
    /\ now' = now + 1
    /\ UNCHANGED <<cr, pod, hot, cold, secret, agent, ghosts, counters>>

(* The controller runs a pod for a Running Sandbox whose key Secret can be *)
(* mounted.  The workspace is that of the PVC, or a new emptyDir.          *)
SchedulePod ==
    /\ cr # None /\ ~ cr.term /\ cr.mode = "Running"
    /\ pod = None /\ secret
    /\ pods < MaxPods
    /\ pods' = pods + 1
    /\ pod' = [uid |-> pods + 1, mine |-> TRUE, keyed |-> TRUE]
    /\ hot' = IF Mode = "pvc" THEN hot ELSE 0
    /\ UNCHANGED <<now, cr, cold, secret, agent, ghosts, conf, edits>>

(* The pod of a suspended or a deleted Sandbox is stopped, or a pod dies.  *)
StopPod ==
    /\ pod # None
    /\ \/ ~ pod.mine
       \/ cr # None /\ cr.mode = "Suspended"
       \/ "podloss" \in Env
    /\ pod' = None
    /\ UNCHANGED <<now, cr, hot, cold, secret, agent, ghosts, counters>>

(* The kubelet brings a new Secret into the running pod. *)
SyncKey ==
    /\ pod # None /\ pod.mine /\ ~ pod.keyed /\ secret
    /\ pod' = [pod EXCEPT !.keyed = TRUE]
    /\ UNCHANGED <<now, cr, hot, cold, secret, agent, ghosts, counters>>

(* DELETE /api/sandboxes/{name}. *)
ApiDelete ==
    /\ "delete" \in Env
    /\ cr # None /\ ~ cr.term
    /\ "slow" \in Env \/ ~ Unrestored
    /\ DeleteObject
    /\ UNCHANGED <<now, hot, cold, secret, agent, ghosts, counters>>

Suspend ==
    /\ "suspend" \in Env
    /\ cr # None /\ ~ cr.term /\ cr.mode = "Running"
    /\ cr' = [cr EXCEPT !.mode = "Suspended"]
    /\ UNCHANGED <<now, pod, hot, cold, secret, agent, ghosts, counters>>

EditTemplate ==
    /\ edits < MaxEdits
    /\ edits' = edits + 1
    /\ cr # None
    /\ cr' = [cr EXCEPT !.drift = TRUE]
    /\ UNCHANGED <<now, pod, hot, cold, secret, agent, ghosts, conf, pods>>

(* The client of a resolve hangs up and its handler is dropped, or the     *)
(* reaper's process dies.  A restore that is cut so stays torn.            *)
Abort(a) ==
    /\ "cancel" \in Env
    /\ ~ At(a, "idle") /\ (At(a, "unpack") => "torn" \in Env)
    /\ Done(a)
    /\ UNCHANGED <<now, cr, pod, hot, cold, secret, ghosts, counters>>

Environment ==
    Tick \/ SchedulePod \/ StopPod \/ SyncKey \/ ApiDelete \/ Suspend \/ EditTemplate

Offload(a) ==
    OffloadStart(a) \/ Boot(a) \/ Attempt(a) \/ Snapshot(a) \/ Put(a)
    \/ Retry(a) \/ GiveUp(a) \/ ListOld(a) \/ Prune(a) \/ StampKey(a)
    \/ Purge(a)

Replace(a) == Release(a) \/ Delete(a) \/ EnsureKey(a) \/ MintKey(a) \/ Create(a)

Reap(a) == List(a) \/ Decide(a) \/ Policy(a) \/ Recheck(a) \/ DeleteKey(a)

Resolve(a) ==
    Get(a) \/ Drift(a) \/ Resume(a) \/ Retouch(a) \/ WaitForReady(a)
    \/ ReadGate(a) \/ NotReady(a) \/ Touch(a) \/ ListKeys(a) \/ Fetch(a) \/ FetchNothing(a) \/ Restore(a)
    \/ Unpacked(a) \/ RestoreFails(a) \/ StampRestored(a) \/ Write(a)
    \/ Answered(a)

Next ==
    \/ Environment
    \/ \E a \in Agent : Offload(a) \/ Replace(a) \/ Abort(a)
    \/ \E a \in Reaper : Reap(a)
    \/ \E a \in Resolver : Resolve(a)

Spec == Init /\ [][Next]_vars

(* The reaper's loop ticks again and again and its calls are answered, an  *)
(* offload gives up after max_attempts, and S3 and the runtime do not fail *)
(* for ever.  The clock, the users and the environment owe nothing.        *)
Fairness ==
    \A a \in Reaper :
        /\ WF_vars(Offload(a)) /\ WF_vars(Replace(a)) /\ WF_vars(Reap(a))
        /\ SF_vars(Snapshot(a)) /\ SF_vars(Put(a)) /\ SF_vars(GiveUp(a))

FairSpec == Spec /\ Fairness

-----------------------------------------------------------------------------
Object == Objects(conf)

PC ==
    {"idle", "offload", "boot", "attempt", "snapshot", "put", "prune",
     "pruning", "stamp", "purge", "release", "delete", "delkey", "key", "mint",
     "create", "decide", "policy", "recheck", "drift", "resume", "retouch",
     "wait", "gate", "touch", "list", "fetch", "restore", "unpack", "restored", "serve"}

TypeOK ==
    /\ conf \in Deployments
    /\ now \in Time
    /\ cr \in Object \cup {None}
    /\ pod \in ReadyPods(conf) \cup {None}
    /\ hot \in Content
    /\ cold \in [Time -> Content \cup {None}]
    /\ secret \in BOOLEAN
    /\ \A a \in Agent :
         /\ agent[a].pc \in PC
         /\ agent[a].seen # None =>
              agent[a].seen \in [obj : Object, ip : 1..MaxPods \cup {None}]
         /\ agent[a].task \in {None, "reap", "recycle", "terminate"}
         /\ agent[a].at \in Time
         /\ agent[a].pod \in 1..MaxPods \cup {None}
         /\ agent[a].byPod \in BOOLEAN /\ agent[a].skip \in BOOLEAN
         /\ {agent[a].key, agent[a].listed} \subseteq Time \cup {None}
         /\ agent[a].old \subseteq Time
         /\ agent[a].body \in Content
    /\ acked \in 0..MaxWrites /\ settled \in BOOLEAN
    /\ pods \in 0..MaxPods /\ edits \in 0..MaxEdits

(* D7 (reaper.rs:23-24, docs/s3-tiered-storage.md:35): the user's last     *)
(* write is in the hot tier or in a snapshot, whichever step of an offload,*)
(* a reap, a park, a resume or a restore is next, if it raced none of them.*)
WorkKept ==
    settled /\ acked # 0 =>
        \/ HotLives /\ hot = acked
        \/ \E t \in Time : cold[t] = acked

(* The same where the source makes the promise good: no idle threshold     *)
(* passes and no DELETE comes before a workspace is restored, no restore   *)
(* and no purge is cut short, and no pod dies with the workspace, by       *)
(* itself (reaper.rs:23-24) or because its Sandbox is suspended.           *)
Sheltered ==
    /\ Env \cap {"slow", "torn", "podloss"} = {}
    /\ Mode = "pvc" \/ "suspend" \notin Env

WorkKeptSheltered == Sheltered => WorkKept

(* Whatever fails, be it the delete after a purge or the purge half-way, a *)
(* PVC chat's last write leaves both tiers only by an offload whose own    *)
(* snapshot was of another workspace: one that half a restore, half a purge*)
(* or a purge without its delete had left.  An offload that has the write  *)
(* in its snapshot never loses it (s3.rs:533-535, 873-876).                *)
OnlyBadSnapshotsLose ==
    [][Mode = "pvc" /\ WorkKept /\ ~ WorkKept' =>
         \E a \in Agent : /\ agent[a].pc \in {"put", "pruning", "purge"}
                         /\ agent[a].body # acked /\ agent'[a] # agent[a]]_vars

(* A resolve that succeeds hands back the workspace as the user's last     *)
(* write left it: never an older, an empty or a half-restored one          *)
(* (docs/s3-tiered-storage.md:36, resolve.rs:301-302, s3.rs:596-597).      *)
HandsBackLastWrite ==
    \A a \in Resolver :
        /\ agent[a].pc # "serve" /\ agent'[a].pc = "serve"
        /\ settled /\ Runs(agent'[a].pod)
        => hot = acked

ServesLastWrite == [][HandsBackLastWrite]_vars

(* The same where nothing cuts a restore short: a Sandbox that is suspended*)
(* while its archive is unpacked keeps half of it (snapshot.rs:107-111).   *)
ServesLastWriteSheltered ==
    [][Sheltered /\ "suspend" \notin Env => HandsBackLastWrite]_vars

(* A chat that has a snapshot keeps one: an offload uploads the new one    *)
(* before it deletes the old ones (s3.rs:533-535).                         *)
ColdNeverEmptied ==
    [][Stored # {} => Stored' # {}]_vars

(* What resolve.rs:291-293 says of the activity bump: the reaper does not  *)
(* park or reap a sandbox mid-session, that is one whose idle time is      *)
(* under every threshold when it is parked or deleted.                     *)
ReapSparesActive ==
    [][\A a \in Reaper :
         /\ agent[a].pc \in {"policy", "delete"} /\ agent'[a] # agent[a]
         /\ cr # None /\ cr' # cr
         => decide(idle_secs(cr, now), cr.mode) # "skip"]_vars

(* What resolve.rs:430-433 says: the Secret is there before the Sandbox    *)
(* is, so that the volume which mounts it can be satisfied.                *)
KeyForSandbox ==
    cr # None /\ ~ cr.term => secret

(* "never rotate on the create/resolve path" (store.rs:422): of resolves   *)
(* and recycles that all find no Secret only one puts its key there, so    *)
(* that the key a running pod mounted stays the Secret's until a reap      *)
(* deletes it.                                                             *)
KeyNeverRotated ==
    [][pod # None /\ pod' # None =>
         (pod.uid = pod'.uid /\ pod.keyed /\ ~ pod'.keyed
            => \E a \in Reaper : At(a, "delkey"))]_vars

(* A deletion that waits for its snapshot goes through in the end, however *)
(* the pod was lost or suspended meanwhile (reaper.rs:373-408).            *)
DeletionCompletes == (cr # None /\ cr.term) ~> (cr = None)

=============================================================================
