------------------------------ MODULE Terminals ------------------------------
(***************************************************************************)
(* The runtime's terminal surface (runtime/src/terminals.rs): the registry *)
(* of PTY sessions, the WebSocket relays that attach to a session, detach  *)
(* from it and resume it, the reader pump thread of each session, the POST *)
(* and DELETE handlers, the idle-detached sweep and the SIGTERM flush.     *)
(*                                                                         *)
(* A handler that runs under the registry lock is one step.  A relay takes *)
(* one step per lock it takes, the pump thread one per lock or send.       *)
(* Output is a count of chunks; a scrollback tail is present or absent.    *)
(***************************************************************************)
EXTENDS Integers, Sequences, FiniteSets

CONSTANTS
    Id,           \* terminal ids (X-Session-Id)
    Session,      \* identities of Session objects (the Arc)
    Relay,        \* connections: WebSocket upgrades and plain GETs of an id
    None,
    MaxTerminals, \* MAX_TERMINAL_SESSIONS
    DetachTTL,    \* TERMINAL_DETACH_TTL_SECS, in ticks
    OutChan,      \* OUT_CHAN, the capacity of a relay's output channel
    MaxOutput,    \* bound: chunks a shell writes
    MaxRestarts   \* bound: pod generations after the first

ASSUME TerminalsAssumption ==
    /\ MaxTerminals \in Nat /\ DetachTTL \in Nat /\ OutChan \in Nat \ {0}
    /\ MaxOutput \in Nat /\ MaxRestarts \in Nat
    /\ None \notin Session \cup Relay \cup Nat /\ None \notin {"dead", "sweep"}

VARIABLES
    registry,   \* TerminalRegistry: the session registered under an id
    sess,       \* the Session objects and their pump threads
    relay,      \* the connections
    file,       \* a flushed scrollback file exists for the id
    restarts    \* pod generations so far

disk == <<file, restarts>>
vars == <<registry, sess, relay, file, restarts>>

(* sink: the relay whose sender is installed (out_tx); since: the age of   *)
(* detached_since; doomed: taken out of the registry, awaiting             *)
(* teardown_one; target: the relay whose sender the pump has cloned;       *)
(* cause: what ended the shell while it was live.                          *)
SessionState ==
    [shell : {"free", "live", "dead"},
     sink : Relay \cup {None},
     since : 0..(DetachTTL + 1) \cup {None},
     doomed : {None, "dead", "sweep"},
     output : 0..MaxOutput,
     preloaded : BOOLEAN,
     pump : {"read", "peek", "send", "clear"},
     target : Relay \cup {None},
     cause : {None, "exit", "delete", "sweep", "relay", "drop"}]

NewSession ==
    [shell |-> "free", sink |-> None, since |-> None, doomed |-> None,
     output |-> 0, preloaded |-> FALSE, pump |-> "read", target |-> None,
     cause |-> None]

(* replayed: chunks in the tail sent on attach; streamed: chunks taken     *)
(* from the channel.                                                       *)
NewRelay ==
    [pc |-> "idle", held |-> None, channel |-> << >>, replayed |-> 0,
     streamed |-> {}]

RelayPC == {"idle", "check", "attach", "replay", "loop", "gone", "ended",
            "detach", "unlink", "kill", "closed"}

(* A relay owns the receiver of its channel from the attach to the drop.   *)
Receiving(r) == relay[r].pc \in {"replay", "loop", "gone", "ended"}

(* A sender of r's channel is alive: in a sink, or cloned by a pump.       *)
HasSender(r) == \E s \in Session : r \in {sess[s].sink, sess[s].target}

Live(s) == sess[s].shell = "live"
Registered == {id \in Id : registry[id] # None}
DeadIds == {id \in Registered : ~ Live(registry[id])}
Without(ids) == [id \in Id |-> IF id \in ids THEN None ELSE registry[id]]

-----------------------------------------------------------------------------
Init ==
    /\ registry = [id \in Id |-> None]
    /\ sess = [s \in Session |-> NewSession]
    /\ relay = [r \in Relay |-> NewRelay]
    /\ file = [id \in Id |-> FALSE]
    /\ restarts = 0

-----------------------------------------------------------------------------
(* The handlers that run under the registry lock *)

Doom(ids, why) ==
    [s \in Session |-> IF \E id \in ids : registry[id] = s
                         THEN [sess[s] EXCEPT !.doomed = why] ELSE sess[s]]

(* GET of the list, and a POST that resumes a live session, meets the cap  *)
(* (429) or fails to spawn (503): the dead entries are taken out.          *)
BuryDead ==
    /\ DeadIds # {}
    /\ registry' = Without(DeadIds)
    /\ sess' = Doom(DeadIds, "dead")
    /\ UNCHANGED <<relay, disk>>

(* POST takes out the dead entries and, below the cap, spawns a PTY whose  *)
(* ring is preloaded with the flushed tail of its id.                      *)
Create(id, s) ==
    /\ sess[s].shell = "free"
    /\ Without(DeadIds)[id] = None
    /\ Cardinality(Registered \ DeadIds) < MaxTerminals
    /\ registry' = [Without(DeadIds) EXCEPT ![id] = s]
    /\ sess' = [Doom(DeadIds, "dead") EXCEPT ![s].shell = "live",
                                             ![s].preloaded = file[id]]
    /\ UNCHANGED <<relay, disk>>

(* SIGKILL of the group and the reap: st, with the cause if it was live.   *)
Killed(st, why) ==
    [st EXCEPT !.shell = "dead",
               !.cause = IF st.shell = "live" THEN why ELSE @]

(* teardown_one, after the registry lock is released. *)
Teardown(s) ==
    /\ sess[s].doomed # None
    /\ sess' = [sess EXCEPT ![s] = [Killed(@, @.doomed) EXCEPT !.doomed = None]]
    /\ UNCHANGED <<registry, relay, disk>>

(* DELETE holds the registry lock through the teardown.  An id that is not *)
(* registered is answered at once, and its flushed file stays.             *)
Kill(id) ==
    /\ IF registry[id] = None
         THEN UNCHANGED <<registry, sess, file>>
         ELSE /\ registry' = Without({id})
              /\ sess' = [sess EXCEPT ![registry[id]] = Killed(@, "delete")]
              /\ file' = [file EXCEPT ![id] = FALSE]
    /\ UNCHANGED <<relay, restarts>>

Holders(s) == {r \in Relay : relay[r].held = s}

(* The client of a DELETE hangs up while its handler waits for the session *)
(* lock: the entry is gone and its Arc is dropped.  If it was the last one *)
(* Session::drop kills the group.                                          *)
KillCancelled(id) ==
    /\ registry[id] # None
    /\ registry' = Without({id})
    /\ sess' = IF Holders(registry[id]) = {}
                 THEN [sess EXCEPT ![registry[id]] = Killed(@, "delete")]
                 ELSE sess
    /\ UNCHANGED <<relay, disk>>

(* The sweep takes out every session detached for longer than the TTL.     *)
Expired ==
    {id \in Registered : sess[registry[id]].since \in {DetachTTL + 1}}

Sweep ==
    /\ Expired # {}
    /\ registry' = Without(Expired)
    /\ sess' = Doom(Expired, "sweep")
    /\ UNCHANGED <<relay, disk>>

Ages(s) == sess[s].since \in 0..DetachTTL

Tick ==
    /\ \E s \in Session : Ages(s)
    /\ sess' = [s \in Session |-> IF Ages(s) THEN [sess[s] EXCEPT !.since = @ + 1]
                                             ELSE sess[s]]
    /\ UNCHANGED <<registry, relay, disk>>

-----------------------------------------------------------------------------
(* The shell and its reader pump *)

ShellExit(s) ==
    /\ Live(s)
    /\ sess' = [sess EXCEPT ![s] = Killed(@, "exit")]
    /\ UNCHANGED <<registry, relay, disk>>

(* A chunk is read from the PTY and pushed into the ring.                  *)
PumpRead(s) ==
    /\ sess[s].pump = "read"
    /\ Live(s)
    /\ sess[s].output < MaxOutput
    /\ sess' = [sess EXCEPT ![s].output = @ + 1, ![s].pump = "peek"]
    /\ UNCHANGED <<registry, relay, disk>>

(* The sink is cloned out of its lock. *)
PumpPeek(s) ==
    /\ sess[s].pump = "peek"
    /\ sess' = [sess EXCEPT
                  ![s].target = sess[s].sink,
                  ![s].pump = IF sess[s].sink = None THEN "read" ELSE "send"]
    /\ UNCHANGED <<registry, relay, disk>>

(* Mutant: try_send, which drops the chunk when the channel is full. *)
PumpTrySend(s) ==
    LET r == sess[s].target IN
    /\ sess[s].pump = "send"
    /\ relay' = IF Receiving(r) /\ Len(relay[r].channel) < OutChan
                  THEN [relay EXCEPT ![r].channel = Append(@, sess[s].output)]
                  ELSE relay
    /\ sess' = [sess EXCEPT ![s].pump = "read", ![s].target = None]
    /\ UNCHANGED <<registry, disk>>

(* blocking_send: waits for room, fails once the receiver is dropped.      *)
PumpSend(s) ==
    LET r == sess[s].target IN
    /\ sess[s].pump = "send"
    /\ IF Receiving(r)
         THEN /\ Len(relay[r].channel) < OutChan
              /\ relay' = [relay EXCEPT ![r].channel =
                             Append(@, sess[s].output)]
              /\ sess' = [sess EXCEPT ![s].pump = "read", ![s].target = None]
         ELSE /\ sess' = [sess EXCEPT ![s].pump = "clear", ![s].target = None]
              /\ UNCHANGED relay
    /\ UNCHANGED <<registry, disk>>

(* The stale sink is cleared, whoever installed it.                        *)
PumpClear(s) ==
    /\ sess[s].pump = "clear"
    /\ sess' = [sess EXCEPT ![s].sink = None, ![s].pump = "read"]
    /\ UNCHANGED <<registry, relay, disk>>

-----------------------------------------------------------------------------
(* The relay *)

Goto(r, label) == relay' = [relay EXCEPT ![r].pc = label]

(* The connection is over and its locals are gone. *)
Close(r) == relay' = [relay EXCEPT ![r] = [NewRelay EXCEPT !.pc = "closed"]]

(* st once r's Arc is dropped: Session::drop runs with the last one.       *)
ArcDropped(r, st) ==
    LET s == relay[r].held IN
    IF /\ Holders(s) = {r}
       /\ \A id \in Id : registry[id] # s
       /\ st.doomed = None
      THEN Killed(st, "drop")
      ELSE st

(* The Arc is cloned out of the registry; an unknown id is closed (4004).  *)
Connect(r, id) ==
    /\ relay[r].pc = "idle"
    /\ relay' = [relay EXCEPT
                   ![r].held = registry[id],
                   ![r].pc = IF registry[id] = None THEN "closed" ELSE "check"]
    /\ UNCHANGED <<registry, sess, disk>>

Check(r) ==
    /\ relay[r].pc = "check"
    /\ Goto(r, IF Live(relay[r].held) THEN "attach" ELSE "unlink")
    /\ UNCHANGED <<registry, sess, disk>>

(* GET without an upgrade: the info of a live session is the answer.       *)
Info(r) ==
    /\ relay[r].pc = "check"
    /\ Live(relay[r].held)
    /\ sess' = [sess EXCEPT ![relay[r].held] = ArcDropped(r, @)]
    /\ Close(r)
    /\ UNCHANGED <<registry, disk>>

(* A session with a sink already has a client: close with 4009.            *)
AttachBusy(r) ==
    /\ relay[r].pc = "attach"
    /\ sess[relay[r].held].sink # None
    /\ sess' = [sess EXCEPT ![relay[r].held] = ArcDropped(r, @)]
    /\ Close(r)
    /\ UNCHANGED <<registry, disk>>

Attach(r) ==
    /\ relay[r].pc = "attach"
    /\ sess[relay[r].held].sink = None
    /\ sess' = [sess EXCEPT ![relay[r].held].sink = r,
                            ![relay[r].held].since = None]
    /\ Goto(r, "replay")
    /\ UNCHANGED <<registry, disk>>

Replay(r) ==
    /\ relay[r].pc = "replay"
    /\ relay' = [relay EXCEPT ![r].replayed = sess[relay[r].held].output,
                              ![r].pc = "loop"]
    /\ UNCHANGED <<registry, sess, disk>>

(* A chunk is forwarded to the client. *)
Forward(r) ==
    /\ relay[r].pc = "loop"
    /\ relay[r].channel # << >>
    /\ relay' = [relay EXCEPT
                   ![r].streamed = @ \cup {Head(relay[r].channel)},
                   ![r].channel = Tail(@)]
    /\ UNCHANGED <<registry, sess, disk>>

(* The client closes, errors, or a send to it fails. *)
ClientGone(r) ==
    /\ relay[r].pc = "loop"
    /\ Goto(r, "gone")
    /\ UNCHANGED <<registry, sess, disk>>

(* recv() returns None: the channel is empty and has no sender left.       *)
ChannelClosed(r) ==
    /\ relay[r].pc = "loop"
    /\ relay[r].channel = << >>
    /\ ~ HasSender(r)
    /\ Goto(r, "ended")
    /\ UNCHANGED <<registry, sess, disk>>

(* Mutant: the heartbeat pings and does not ask for the shell. *)
HeartbeatBlind(r) == FALSE /\ UNCHANGED vars

(* The heartbeat finds the shell dead. *)
Heartbeat(r) ==
    /\ relay[r].pc = "loop"
    /\ ~ Live(relay[r].held)
    /\ Goto(r, "ended")
    /\ UNCHANGED <<registry, sess, disk>>

(* drop(out_rx), then is_alive: the client of a live shell detaches.       *)
DropReceiver(r) ==
    /\ relay[r].pc \in {"gone", "ended"}
    /\ relay' = [relay EXCEPT
                   ![r].channel = << >>,
                   ![r].pc = IF @ = "gone" /\ Live(relay[r].held)
                               THEN "detach" ELSE "unlink"]
    /\ UNCHANGED <<registry, sess, disk>>

(* Detach clears the sink, whoever installed it. *)
Detach(r) ==
    /\ relay[r].pc = "detach"
    /\ sess' = [sess EXCEPT ![relay[r].held] =
                  ArcDropped(r, [@ EXCEPT !.sink = None, !.since = 0])]
    /\ Close(r)
    /\ UNCHANGED <<registry, disk>>

(* Mutant: whatever is registered is removed. *)
RemoveAny(s) == Without({id \in Id : registry[id] # None})

(* remove_if_eq: the entry goes only if it is still this relay's session.  *)
RemoveIfEq(s) == Without({id \in Id : registry[id] = s})

Unlink(r) ==
    /\ relay[r].pc = "unlink"
    /\ registry' = RemoveIfEq(relay[r].held)
    /\ Goto(r, "kill")
    /\ UNCHANGED <<sess, disk>>

KillHeld(r) ==
    /\ relay[r].pc = "kill"
    /\ sess' = [sess EXCEPT ![relay[r].held] = Killed(@, "relay")]
    /\ Close(r)
    /\ UNCHANGED <<registry, disk>>

-----------------------------------------------------------------------------
(* The pod ends: on SIGTERM, after the flush of every non-empty ring, or   *)
(* without warning.  The workspace volume survives it.                     *)
HasTail(id) ==
    /\ registry[id] # None
    /\ sess[registry[id]].preloaded \/ sess[registry[id]].output > 0

(* The sessions and the connections of the process end with it. *)
NewProcess ==
    /\ restarts < MaxRestarts
    /\ restarts' = restarts + 1
    /\ registry' = [id \in Id |-> None]
    /\ sess' = [s \in Session |->
                  [NewSession EXCEPT
                     !.shell = IF sess[s].shell = "free" THEN "free" ELSE "dead"]]
    /\ relay' = [r \in Relay |->
                   [NewRelay EXCEPT
                      !.pc = IF relay[r].pc = "idle" THEN "idle" ELSE "closed"]]

FlushAndExit ==
    /\ file' = [id \in Id |-> file[id] \/ HasTail(id)]
    /\ NewProcess

PodLost ==
    /\ NewProcess
    /\ UNCHANGED file

RelayStep(r) ==
    \/ \E id \in Id : Connect(r, id)
    \/ Check(r) \/ Info(r) \/ AttachBusy(r) \/ Attach(r) \/ Replay(r)
    \/ Forward(r) \/ ClientGone(r) \/ ChannelClosed(r) \/ Heartbeat(r)
    \/ DropReceiver(r) \/ Detach(r) \/ Unlink(r) \/ KillHeld(r)

PumpStep(s) == PumpRead(s) \/ PumpPeek(s) \/ PumpSend(s) \/ PumpClear(s)

Next ==
    \/ \E r \in Relay : RelayStep(r)
    \/ \E s \in Session : ShellExit(s) \/ Teardown(s) \/ PumpStep(s)
    \/ \E id \in Id, s \in Session : Create(id, s)
    \/ \E id \in Id : Kill(id) \/ KillCancelled(id)
    \/ BuryDead \/ Sweep \/ Tick \/ FlushAndExit \/ PodLost

Spec == Init /\ [][Next]_vars

(* The tokio tasks and the pump threads of the process are scheduled, the  *)
(* sweep's timer fires and time passes.  Clients and shells owe nothing.   *)
Fairness ==
    /\ WF_vars(Tick) /\ WF_vars(Sweep)
    /\ \A s \in Session :
         WF_vars(Teardown(s)) /\ WF_vars(PumpPeek(s)) /\ WF_vars(PumpSend(s))
         /\ WF_vars(PumpClear(s))
    /\ \A r \in Relay :
         /\ WF_vars(Check(r)) /\ WF_vars(AttachBusy(r) \/ Attach(r))
         /\ WF_vars(Replay(r)) /\ WF_vars(Forward(r))
         /\ WF_vars(ChannelClosed(r) \/ Heartbeat(r))
         /\ WF_vars(DropReceiver(r)) /\ WF_vars(Detach(r))
         /\ WF_vars(Unlink(r)) /\ WF_vars(KillHeld(r))

FairSpec == Spec /\ Fairness

-----------------------------------------------------------------------------
TypeOK ==
    /\ registry \in [Id -> Session \cup {None}]
    /\ sess \in [Session -> SessionState]
    /\ \A r \in Relay :
         /\ relay[r].pc \in RelayPC
         /\ relay[r].held \in Session \cup {None}
         /\ Len(relay[r].channel) <= OutChan
         /\ relay[r].replayed \in 0..MaxOutput
         /\ relay[r].streamed \subseteq 1..MaxOutput
    /\ file \in [Id -> BOOLEAN]
    /\ restarts \in 0..MaxRestarts

(* No output is lost across a detach and a resume: while its sender stays  *)
(* installed, a client has every chunk of the shell in the replayed tail,  *)
(* in what was streamed to it, in its channel or in the pump's hand        *)
(* (terminals.rs:443-450 against 638-661).                                 *)
Owed(r) == 1..sess[relay[r].held].output
InHand(s) == IF sess[s].pump \in {"peek", "send"} THEN {sess[s].output} ELSE {}
NoOutputLost ==
    \A r \in Relay :
        relay[r].pc = "loop" /\ sess[relay[r].held].sink = r =>
            Owed(r) \subseteq
                1..relay[r].replayed \cup relay[r].streamed
                \cup {relay[r].channel[i] : i \in 1..Len(relay[r].channel)}
                \cup InHand(relay[r].held)

(* What a client is sent twice is bounded: the replay is read after the    *)
(* sender is installed, so only what the pump could send before the relay  *)
(* takes its first chunk, a full channel and the chunk it blocks on, is in *)
(* both (terminals.rs:648-661 against 443-450).                            *)
RepeatsBounded ==
    \A r \in Relay :
        Cardinality(relay[r].streamed \cap 1..relay[r].replayed) <= OutChan + 1

(* The cap counts what it must: no interleaving of POSTs, exits and sweeps *)
(* leaves more live shells behind than the cap, the ones being torn down   *)
(* and the ones a connection still holds aside (terminals.rs:288-338).     *)
LiveShellsBounded ==
    Cardinality({s \in Session : /\ Live(s)
                                 /\ sess[s].doomed = None
                                 /\ Holders(s) = {}}) <= MaxTerminals

(* No shell outlives its owners: whichever of a late relay's unlink, a     *)
(* DELETE whose client hangs up, the sweep, a POST's burial of the dead and*)
(* a restart come in between, a live shell is registered, about to be torn *)
(* down, or held by a connection; so a relay that finishes late never takes*)
(* out the session that was created under its id meanwhile                 *)
(* (terminals.rs:179-190, 226-245, 920-930).                               *)
NoOrphanShell ==
    \A s \in Session :
        Live(s) => \/ \E id \in Id : registry[id] = s
                   \/ sess[s].doomed # None
                   \/ Holders(s) # {}

(* What terminals.rs:36-38 says: a PTY ends only when the shell exits,     *)
(* DELETE runs, or the sweep reaps it.  No relay kills a live shell.       *)
ShellEndsByContract ==
    \A s \in Session : sess[s].cause # "relay"

(* What terminals.rs:856-858 says: an attach that races the sweep keeps    *)
(* its session.                                                            *)
SweepSparesAttached ==
    \A s \in Session :
        sess[s].cause = "sweep" =>
            \A r \in Relay : ~ (relay[r].held = s /\ Receiving(r))

(* What terminals.rs:636-637 says: exactly one live relay per session.     *)
OneRelayPerSession ==
    \A r, q \in Relay :
        relay[r].pc = "loop" /\ relay[q].pc = "loop"
          /\ relay[r].held = relay[q].held => r = q

(* What terminals.rs:24 says of the relayed output (1:1, byte for byte): a *)
(* chunk that was replayed is not streamed again.                          *)
DeliveredOnce ==
    \A r \in Relay : relay[r].streamed \cap 1..relay[r].replayed = {}

(* A slot of max_terminal_sessions is given back: by a shell that exits    *)
(* under its client, which the heartbeat notices (terminals.rs:700-725),   *)
(* and by a session whose client has gone and to which nobody comes back   *)
(* (terminals.rs:836-838).                                                 *)
SlotsFreed ==
    \A s \in Session :
        /\ (sess[s].shell = "dead" /\ \E r \in Holders(s) : relay[r].pc = "loop")
              ~> (\A id \in Id : registry[id] # s)
        /\ (sess[s].since # None) ~> (~ Live(s) \/ Holders(s) # {})
=============================================================================
