------------------------------- MODULE Leaser -------------------------------
(***************************************************************************)
(* Leader election of the broker replicas over one coordination.k8s.io     *)
(* Lease (broker/src/leaser.rs), and the reaper loop that its gate admits  *)
(* (broker/src/reaper.rs, maybe_reap_once).                                *)
(*                                                                         *)
(* Each await of the leader loop is a step of its own: the GET's answer is *)
(* judged later than the API server produced it, the write is applied      *)
(* later than it was stamped, and the gate is set later than the write was *)
(* applied.  Any amount of time may pass between two steps.                *)
(*                                                                         *)
(* Times are ages.  An age saturates at MaxAge, from which on a lease is   *)
(* expired on every replica's clock, so no behaviour runs out of time.     *)
(***************************************************************************)
EXTENDS Integers

CONSTANTS
    Broker,     \* the replicas, by holder identity (HOSTNAME)
    NoLease,    \* the Lease object does not exist (HTTP 404)
    Duration,   \* leaseDurationSeconds, the same on every replica
    Skew,       \* Skew[b]: how far b's wall clock is ahead of true time
    SkewSpan,   \* no two wall clocks differ by more than this
    MaxAge,     \* ages saturate here
    MaxStops    \* bound: crashes and graceful shutdowns in one behaviour

ASSUME LeaserAssumption ==
    /\ Duration \in Nat \ {0}
    /\ Skew \in [Broker -> Int]
    /\ SkewSpan \in Nat
    /\ \A b, c \in Broker : Skew[b] - Skew[c] <= SkewSpan
    /\ MaxAge \in Nat
    /\ MaxAge >= Duration + SkewSpan
    /\ MaxStops \in Nat
    /\ NoLease \notin [holder : Broker, age : 0..MaxAge]

VARIABLES
    lease,      \* the Lease object: its holder and the age of its renewTime
    pc,         \* where each replica's leader loop is
    seen,       \* the object the replica's GET returned
    current,    \* no write or delete happened since that GET (resourceVersion)
    stamp,      \* age of the renewTime in the write the replica is sending
    leading,    \* the answer acquire_or_renew is about to return
    gate,       \* LeaderGate: the reaper of this replica may run
    reaping,    \* a reaper tick that found the gate open is still running
    renewed,    \* history: age of the renewTime of the last write applied
    evicted,    \* history: the replica's lease was deleted by another replica
    stops       \* crashes and shutdowns so far

vars == <<lease, pc, seen, current, stamp, leading, gate, reaping, renewed,
          evicted, stops>>

Age == 0..MaxAge
LeaseObject == [holder : Broker, age : Age]
PC == {"get", "judge", "apply", "reply", "sleep", "release", "stepdown", "down"}

Older(a) == IF a < MaxAge THEN a + 1 ELSE a
OlderObject(l) == IF l = NoLease THEN l ELSE [l EXCEPT !.age = Older(l.age)]

-----------------------------------------------------------------------------
Init ==
    /\ lease = NoLease
    /\ pc = [b \in Broker |-> "down"]
    /\ seen = [b \in Broker |-> NoLease]
    /\ current = [b \in Broker |-> FALSE]
    /\ stamp = [b \in Broker |-> MaxAge]
    /\ leading = [b \in Broker |-> FALSE]
    /\ gate = [b \in Broker |-> FALSE]
    /\ reaping = [b \in Broker |-> FALSE]
    /\ renewed = [b \in Broker |-> MaxAge]
    /\ evicted = [b \in Broker |-> FALSE]
    /\ stops = 0

(* A second passes. *)
Tick ==
    /\ lease' = OlderObject(lease)
    /\ seen' = [b \in Broker |-> OlderObject(seen[b])]
    /\ stamp' = [b \in Broker |-> Older(stamp[b])]
    /\ renewed' = [b \in Broker |-> Older(renewed[b])]
    /\ UNCHANGED <<pc, current, leading, gate, reaping, evicted, stops>>

(* A process starts with a closed gate and goes straight to the GET. *)
Start(b) ==
    /\ pc[b] = "down"
    /\ ~ reaping[b]
    /\ pc' = [pc EXCEPT ![b] = "get"]
    /\ UNCHANGED <<lease, seen, current, stamp, leading, gate, reaping,
                   renewed, evicted, stops>>

(* acquire_or_renew is done with the object it read and has its answer.    *)
Return(b, answer) ==
    /\ leading' = [leading EXCEPT ![b] = answer]
    /\ seen' = [seen EXCEPT ![b] = NoLease]
    /\ stamp' = [stamp EXCEPT ![b] = MaxAge]
    /\ pc' = [pc EXCEPT ![b] = "reply"]

(* The API server answers the GET, with the object or with a 404. *)
Get(b) ==
    /\ pc[b] = "get"
    /\ seen' = [seen EXCEPT ![b] = lease]
    /\ current' = [current EXCEPT ![b] = TRUE]
    /\ pc' = [pc EXCEPT ![b] = "judge"]
    /\ UNCHANGED <<lease, stamp, leading, gate, reaping, renewed, evicted,
                   stops>>

(* Any other failure of the GET defers. *)
GetFails(b) ==
    /\ pc[b] = "get"
    /\ Return(b, FALSE)
    /\ UNCHANGED <<lease, current, gate, reaping, renewed, evicted, stops>>

(* renewTime was written by the holder's clock, now is read from b's. *)
AgeFor(b, l) == l.age + Skew[b] - Skew[l.holder]

(* Mutant: the comparison with the duration is off by one. *)
HeldByOtherEarly(b, l) ==
    /\ l # NoLease
    /\ l.holder # b
    /\ AgeFor(b, l) < Duration - 1

(* Mutant: expiry is not looked at. *)
HeldByOther(b, l) ==
    /\ l # NoLease
    /\ l.holder # b

HeldByOtherLive(b, l) ==
    /\ l # NoLease
    /\ l.holder # b
    /\ AgeFor(b, l) < Duration

(* Defer to another live holder, or stamp a renewTime and send the write. *)
Judge(b) ==
    /\ pc[b] = "judge"
    /\ IF HeldByOtherLive(b, seen[b])
         THEN Return(b, FALSE)
         ELSE /\ stamp' = [stamp EXCEPT ![b] = 0]
              /\ pc' = [pc EXCEPT ![b] = "apply"]
              /\ UNCHANGED <<seen, leading>>
    /\ UNCHANGED <<lease, current, gate, reaping, renewed, evicted, stops>>

(* Mutant: the write carries no resourceVersion. *)
AcceptsAny(b) == seen[b] = NoLease => lease = NoLease

(* The API server accepts a create when there is no object, and a replace  *)
(* when the resourceVersion the GET returned is still the object's.        *)
Accepts(b) ==
    IF seen[b] = NoLease THEN lease = NoLease ELSE current[b]

Write(b) ==
    /\ lease' = [holder |-> b, age |-> stamp[b]]
    /\ current' = [c \in Broker |-> FALSE]
    /\ renewed' = [renewed EXCEPT ![b] = stamp[b]]
    /\ evicted' = [evicted EXCEPT ![b] = FALSE]

Apply(b) ==
    /\ pc[b] = "apply"
    /\ Accepts(b)
    /\ Write(b)
    /\ Return(b, TRUE)
    /\ UNCHANGED <<gate, reaping, stops>>

(* The write is applied and its answer is lost: the call returns an error. *)
ApplyAnswerLost(b) ==
    /\ pc[b] = "apply"
    /\ Accepts(b)
    /\ Write(b)
    /\ Return(b, FALSE)
    /\ UNCHANGED <<gate, reaping, stops>>

(* The write is rejected (conflict, already exists, not found) or fails.   *)
ApplyFails(b) ==
    /\ pc[b] = "apply"
    /\ Return(b, FALSE)
    /\ UNCHANGED <<lease, current, gate, reaping, renewed, evicted, stops>>

(* acquire_or_renew returns: the gate takes its answer, the loop sleeps.   *)
SetGate(b) ==
    /\ pc[b] = "reply"
    /\ gate' = [gate EXCEPT ![b] = leading[b]]
    /\ leading' = [leading EXCEPT ![b] = FALSE]
    /\ pc' = [pc EXCEPT ![b] = "sleep"]
    /\ UNCHANGED <<lease, seen, current, stamp, reaping, renewed, evicted,
                   stops>>

Wake(b) ==
    /\ pc[b] = "sleep"
    /\ pc' = [pc EXCEPT ![b] = "get"]
    /\ UNCHANGED <<lease, seen, current, stamp, leading, gate, reaping,
                   renewed, evicted, stops>>

(* Mutant: every replica that shuts down releases. *)
ShutdownReleases(b) ==
    /\ pc[b] = "sleep"
    /\ stops < MaxStops
    /\ stops' = stops + 1
    /\ pc' = [pc EXCEPT ![b] = "release"]
    /\ UNCHANGED <<lease, seen, current, stamp, leading, gate, reaping,
                   renewed, evicted>>

(* The shutdown signal ends the sleep; a leader goes on to release.        *)
Shutdown(b) ==
    /\ pc[b] = "sleep"
    /\ stops < MaxStops
    /\ stops' = stops + 1
    /\ pc' = [pc EXCEPT ![b] = IF gate[b] THEN "release" ELSE "down"]
    /\ UNCHANGED <<lease, seen, current, stamp, leading, gate, reaping,
                   renewed, evicted>>

(* Step down: the Lease is deleted by name, whoever holds it.              *)
Release(b) ==
    /\ pc[b] = "release"
    /\ lease' = NoLease
    /\ current' = [c \in Broker |-> FALSE]
    /\ evicted' = [c \in Broker |->
                     evicted[c] \/ (lease # NoLease /\ lease.holder = c /\ c # b)]
    /\ pc' = [pc EXCEPT ![b] = "stepdown"]
    /\ UNCHANGED <<seen, stamp, leading, gate, reaping, renewed, stops>>

ReleaseFails(b) ==
    /\ pc[b] = "release"
    /\ pc' = [pc EXCEPT ![b] = "stepdown"]
    /\ UNCHANGED <<lease, seen, current, stamp, leading, gate, reaping,
                   renewed, evicted, stops>>

(* The gate closes after the delete was answered.                          *)
StepDown(b) ==
    /\ pc[b] = "stepdown"
    /\ gate' = [gate EXCEPT ![b] = FALSE]
    /\ pc' = [pc EXCEPT ![b] = "down"]
    /\ UNCHANGED <<lease, seen, current, stamp, leading, reaping, renewed,
                   evicted, stops>>

(* The process dies: its tick, its gate and its request die with it.       *)
Crash(b) ==
    /\ pc[b] # "down"
    /\ stops < MaxStops
    /\ stops' = stops + 1
    /\ pc' = [pc EXCEPT ![b] = "down"]
    /\ gate' = [gate EXCEPT ![b] = FALSE]
    /\ reaping' = [reaping EXCEPT ![b] = FALSE]
    /\ seen' = [seen EXCEPT ![b] = NoLease]
    /\ stamp' = [stamp EXCEPT ![b] = MaxAge]
    /\ leading' = [leading EXCEPT ![b] = FALSE]
    /\ UNCHANGED <<lease, current, renewed, evicted>>

(* A reaper tick reads the gate once, when it begins.                      *)
ReapBegin(b) ==
    /\ pc[b] # "down"
    /\ ~ reaping[b]
    /\ gate[b]
    /\ reaping' = [reaping EXCEPT ![b] = TRUE]
    /\ UNCHANGED <<lease, pc, seen, current, stamp, leading, gate, renewed,
                   evicted, stops>>

ReapEnd(b) ==
    /\ reaping[b]
    /\ reaping' = [reaping EXCEPT ![b] = FALSE]
    /\ UNCHANGED <<lease, pc, seen, current, stamp, leading, gate, renewed,
                   evicted, stops>>

BrokerStep(b) ==
    \/ Start(b) \/ Get(b) \/ GetFails(b) \/ Judge(b)
    \/ Apply(b) \/ ApplyAnswerLost(b) \/ ApplyFails(b)
    \/ SetGate(b) \/ Wake(b)
    \/ Shutdown(b) \/ Release(b) \/ ReleaseFails(b) \/ StepDown(b)
    \/ Crash(b) \/ ReapBegin(b) \/ ReapEnd(b)

Next == Tick \/ \E b \in Broker : BrokerStep(b)

Spec == Init /\ [][Next]_vars

(* The tokio tasks of a live process are scheduled and time passes (weak   *)
(* fairness), every write is answered (the client has timeouts), and the   *)
(* API server does not fail for ever (strong fairness of the calls that    *)
(* succeed).  Nothing forces a stopped process to start again.             *)
Fairness ==
    /\ WF_vars(Tick)
    /\ \A b \in Broker :
         /\ WF_vars(Judge(b))
         /\ WF_vars(SetGate(b))
         /\ WF_vars(Wake(b))
         /\ WF_vars(StepDown(b))
         /\ WF_vars(Apply(b) \/ ApplyFails(b))
         /\ SF_vars(Get(b))
         /\ SF_vars(Apply(b))

FairSpec == Spec /\ Fairness

-----------------------------------------------------------------------------
TypeOK ==
    /\ lease \in LeaseObject \cup {NoLease}
    /\ pc \in [Broker -> PC]
    /\ seen \in [Broker -> LeaseObject \cup {NoLease}]
    /\ current \in [Broker -> BOOLEAN]
    /\ stamp \in [Broker -> Age]
    /\ leading \in [Broker -> BOOLEAN]
    /\ gate \in [Broker -> BOOLEAN]
    /\ reaping \in [Broker -> BOOLEAN]
    /\ renewed \in [Broker -> Age]
    /\ evicted \in [Broker -> BOOLEAN]
    /\ stops \in 0..MaxStops

(* A holder is replaced only once its renewTime has expired on the new     *)
(* holder's clock (leaser.rs:147-160), whatever happens between the GET    *)
(* that was judged and the write: a renewal in between changes the         *)
(* resourceVersion, so the write of the overtaken judgement is rejected.   *)
TakeoverOnlyAfterExpiry ==
    [][(lease # NoLease /\ lease' # NoLease /\ lease'.holder # lease.holder)
         => AgeFor(lease'.holder, lease) >= Duration]_vars

(* A replica that leads and knows it: its gate is open, its last applied   *)
(* renewal is recent enough that no clock can call it expired, and nobody  *)
(* deleted its lease under it.                                             *)
FreshLeader(b) ==
    /\ gate[b]
    /\ renewed[b] + SkewSpan < Duration
    /\ ~ evicted[b]

(* While renewals are applied in time and no peer deletes the lease, the   *)
(* Lease object names the replica whose gate is open or it is stepping     *)
(* down: two replicas never both lead (leaser.rs:3-5).                     *)
FreshLeaderHoldsLease ==
    \A b \in Broker :
        FreshLeader(b) => \/ lease # NoLease /\ lease.holder = b
                          \/ pc[b] = "stepdown"

(* The delete of a step-down carries no precondition (leaser.rs:214-221).  *)
(* It takes the lease of another replica only if the one that steps down   *)
(* still had its gate open although its own renewal had come to expire for *)
(* somebody or its lease had been deleted under it.                        *)
EvictedOnlyByDeposed ==
    [][\A c \in Broker :
         evicted'[c] /\ ~ evicted[c] =>
            \E b \in Broker \ {c} :
                /\ pc[b] = "release" /\ gate[b]
                /\ renewed[b] + SkewSpan >= Duration \/ evicted[b]]_vars

(* What leaser.rs:3-5 and reaper.rs:14-16 promise, for replicas whose      *)
(* renewals are all in time: two of them never run a reaper tick at once.  *)
SingleReaper ==
    \A b, c \in Broker :
        /\ reaping[b] /\ renewed[b] < Duration
        /\ reaping[c] /\ renewed[c] < Duration
        => b = c

(* What leaser.rs:3-5 promises of the gate: one replica at a time may run  *)
(* the reaper.                                                             *)
SingleLeader ==
    \A b, c \in Broker : gate[b] /\ gate[c] => b = c

(* What leaser.rs:79-81 says of release: it is about a lease this replica  *)
(* holds.  No release deletes the lease of another replica.                *)
ReleaseOnlyOwnLease ==
    \A b \in Broker : ~ evicted[b]

Up(b) == pc[b] \notin {"down", "release", "stepdown"}

(* A lease never stays stuck with a dead or deposed holder: as long as     *)
(* some replica stays up, the reaper is always admitted somewhere again    *)
(* (leaser.rs:14-17, expiry and takeover).                                 *)
LeadershipRecovers ==
    (\E b \in Broker : <>[]Up(b)) => []<>(\E b \in Broker : gate[b])

=============================================================================
