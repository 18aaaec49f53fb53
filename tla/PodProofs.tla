----------------------------- MODULE PodProofs -----------------------------
(***************************************************************************)
(* What the runtime promises of the processes of its pod: the terminals,   *)
(* for any number of ids, sessions, connections and restarts and for any   *)
(* capacity of the output channels; POST /execute, for any number of       *)
(* processes and any output; and GET /ports, for any number of processes   *)
(* and sockets.                                                            *)
(***************************************************************************)
EXTENDS Terminals, Execute, Ports, WellFoundedInduction, TLAPS

Fields == {"shell", "sink", "since", "doomed", "output", "preloaded", "pump", "target", "cause"}

(* What the pump, the sink and the channel are, as far as output goes.     *)
SessionOK(s) ==
    /\ DOMAIN sess[s] = Fields
    /\ sess[s].output \in Nat
    /\ sess[s].sink \in Relay \cup {None}
    /\ sess[s].pump = "send" => sess[s].target \in Relay

RelayOK(r) ==
    /\ DOMAIN relay[r] = {"pc", "held", "channel", "replayed", "streamed"}
    /\ relay[r].channel \in Seq(Nat)
    /\ relay[r].pc \notin {"idle", "closed"} => relay[r].held \in Session
    /\ relay[r].pc \in {"idle", "closed"} => relay[r].held = None

TerminalsTypeOK ==
    /\ registry \in [Id -> Session \cup {None}]
    /\ DOMAIN sess = Session /\ \A s \in Session : SessionOK(s)
    /\ DOMAIN relay = Relay /\ \A r \in Relay : RelayOK(r)

(* A chunk is on its way to r if the pump has not yet looked for the sink, *)
(* or has cloned r's sender.  One that it is about to send elsewhere was   *)
(* in the ring before r read the tail.                                     *)
Queued(r) == {relay[r].channel[i] : i \in 1..Len(relay[r].channel)}
Coming(r) ==
    LET st == sess[relay[r].held] IN
    IF st.pump = "peek" \/ (st.pump = "send" /\ st.target = r) THEN {st.output} ELSE {}

Covered(r) ==
    relay[r].pc = "loop" /\ sess[relay[r].held].sink = r =>
        Owed(r) \subseteq 1..relay[r].replayed \cup relay[r].streamed \cup Queued(r) \cup Coming(r)

TerminalsIInv == TerminalsTypeOK /\ \A r \in Relay : Covered(r)
-----------------------------------------------------------------------------
(* The end of a shell changes nothing of the pump, nor does the drop of an *)
(* Arc.                                                                    *)
SameOutput(st, now) ==
    /\ DOMAIN now = Fields
    /\ now.sink = st.sink /\ now.output = st.output
    /\ now.pump = st.pump /\ now.target = st.target

(* SIGKILL and the reap leave the pump alone (terminals.rs:226-245).       *)
LEMMA KilledOutput ==
    ASSUME NEW st, DOMAIN st = Fields, NEW why
    PROVE  /\ SameOutput(st, Killed(st, why))
           /\ Killed(st, why).shell = "dead" /\ Killed(st, why).doomed = st.doomed
  BY Zenon DEF Killed, SameOutput, Fields

(* Session::drop kills the shell of the last Arc, or nothing happens.      *)
LEMMA DroppedOutput ==
    ASSUME NEW r, NEW st, DOMAIN st = Fields
    PROVE  /\ SameOutput(st, ArcDropped(r, st)) /\ ArcDropped(r, st).doomed = st.doomed
           /\ ArcDropped(r, st).shell \in {st.shell, "dead"}
  <1>1. SameOutput(st, st)
    BY Zenon DEF SameOutput
  <1> QED
    BY <1>1, KilledOutput, Zenon DEF ArcDropped

(* Taking entries out of the registry leaves the pumps alone.              *)
LEMMA DoomOutput ==
    ASSUME TerminalsTypeOK, NEW ids, NEW why
    PROVE  /\ DOMAIN Doom(ids, why) = Session
           /\ \A s \in Session : SameOutput(sess[s], Doom(ids, why)[s]) /\ Doom(ids, why)[s].shell = sess[s].shell
  BY Zenon DEF TerminalsTypeOK, SessionOK, Doom, SameOutput, Fields

(* What a relay is owed depends on itself and on its session's output.     *)
LEMMA CoveredKept ==
    ASSUME NEW r, Covered(r), relay'[r] = relay[r],
           SameOutput(sess[relay[r].held], sess'[relay[r].held])
    PROVE  Covered(r)'
<1>1. Owed(r)' = Owed(r) /\ Queued(r)' = Queued(r) /\ Coming(r)' = Coming(r)
  BY Zenon DEF Owed, Queued, Coming, SameOutput
<1> QED
  BY <1>1, Zenon DEF Covered, SameOutput

(* A step is of no account to the output if it leaves the pumps, the sinks *)
(* and every relay in its loop alone.                                      *)
LEMMA OutputKept ==
    ASSUME TerminalsIInv, registry' \in [Id -> Session \cup {None}],
           DOMAIN sess' = Session, \A s \in Session : SameOutput(sess[s], sess'[s]),
           DOMAIN relay' = Relay,
           \A r \in Relay : relay'[r] = relay[r] \/ (relay'[r].pc # "loop" /\ RelayOK(r)')
    PROVE  TerminalsIInv'
<1> USE DEF TerminalsIInv
<1>1. \A s \in Session : SessionOK(s)'
  BY Zenon DEF TerminalsTypeOK, SessionOK, SameOutput
<1>2. ASSUME NEW r \in Relay PROVE RelayOK(r)' /\ Covered(r)'
  <2>1. CASE relay'[r] = relay[r]
    <3>1. RelayOK(r) /\ Covered(r)
      BY Zenon DEF TerminalsTypeOK
    <3>2. RelayOK(r)'
      BY <2>1, <3>1, Zenon DEF RelayOK
    <3>3. CASE relay[r].pc = "loop"
      <4>1. SameOutput(sess[relay[r].held], sess'[relay[r].held])
        BY <3>1, <3>3, Zenon DEF RelayOK
      <4> QED
        BY <2>1, <3>1, <3>2, <4>1, CoveredKept, Zenon
    <3>4. CASE relay[r].pc # "loop"
      BY <2>1, <3>2, <3>4, Zenon DEF Covered
    <3> QED
      BY <3>3, <3>4, Zenon
  <2>2. CASE relay'[r].pc # "loop" /\ RelayOK(r)'
    BY <2>2, Zenon DEF Covered
  <2> QED
    BY <2>1, <2>2, Zenon
<1> QED
  BY <1>1, <1>2, Zenon DEF TerminalsTypeOK

(* A connection that has not begun, and one that is over, holds nothing.   *)
LEMMA FreshRelay ==
    /\ DOMAIN NewRelay = {"pc", "held", "channel", "replayed", "streamed"}
    /\ NewRelay.channel \in Seq(Nat) /\ NewRelay.channel = << >>
    /\ NewRelay.pc = "idle" /\ NewRelay.held = None
  BY DEF NewRelay

(* Nothing is registered, attached or written at first.                    *)
LEMMA TerminalsInitial == Init => TerminalsIInv
<1> SUFFICES ASSUME Init PROVE TerminalsIInv
  OBVIOUS
<1>1. \A s \in Session : SessionOK(s)
  BY Zenon DEF Init, SessionOK, NewSession, Fields
<1>2. \A r \in Relay : RelayOK(r) /\ Covered(r)
  <2>1. \A r \in Relay : relay[r] = NewRelay
    BY Zenon DEF Init
  <2> QED
    BY <2>1, FreshRelay, Zenon DEF RelayOK, Covered
<1> QED
  BY <1>1, <1>2, Zenon DEF Init, TerminalsIInv, TerminalsTypeOK

(* The handlers under the registry lock, the shells, the teardowns and     *)
(* time are of no account to the output.                                   *)
LEMMA HandlersKeep ==
    ASSUME TerminalsIInv,
           \/ \E s \in Session : ShellExit(s) \/ Teardown(s)
           \/ \E id \in Id, s \in Session : Create(id, s)
           \/ \E id \in Id : Kill(id) \/ KillCancelled(id)
           \/ BuryDead \/ Sweep \/ Tick
    PROVE  TerminalsIInv'
<1> USE DEF TerminalsIInv
<1>r. relay' = relay
  BY Zenon DEF ShellExit, Teardown, Create, Kill, KillCancelled, BuryDead, Sweep, Tick
<1>w. \A ids : Without(ids) \in [Id -> Session \cup {None}]
  BY Zenon DEF TerminalsTypeOK, Without
<1>g. registry' \in [Id -> Session \cup {None}]
  <2>1. ASSUME NEW id \in Id, NEW s \in Session, Create(id, s) PROVE registry' \in [Id -> Session \cup {None}]
    BY <1>w, <2>1, Zenon DEF Create
  <2> QED
    BY <1>w, <2>1, Zenon DEF TerminalsTypeOK, ShellExit, Teardown, Kill, KillCancelled, BuryDead, Sweep, Tick
<1>f. \A s \in Session : DOMAIN sess[s] = Fields /\ SameOutput(sess[s], sess[s])
  BY Zenon DEF TerminalsTypeOK, SessionOK, SameOutput
<1> DEFINE Same == DOMAIN sess' = Session /\ \A s \in Session : SameOutput(sess[s], sess'[s])
<1>1. ASSUME NEW s \in Session, ShellExit(s) PROVE Same
  BY <1>1, <1>f, KilledOutput, Zenon DEF ShellExit, TerminalsTypeOK
<1>2. ASSUME NEW s \in Session, Teardown(s) PROVE Same
  <2>1. SameOutput(sess[s], [Killed(sess[s], sess[s].doomed) EXCEPT !.doomed = None])
    BY <1>f, KilledOutput DEF SameOutput, Fields
  <2> QED
    BY <1>2, <1>f, <2>1, Zenon DEF Teardown, TerminalsTypeOK
<1>3. ASSUME NEW id \in Id, NEW s \in Session, Create(id, s) PROVE Same
  <2> DEFINE buried == Doom(DeadIds, "dead")
  <2>1. DOMAIN buried = Session /\ \A q \in Session : SameOutput(sess[q], buried[q])
    BY DoomOutput, Zenon
  <2>2. sess' = [buried EXCEPT ![s].shell = "live", ![s].preloaded = file[id]]
    BY <1>3, Zenon DEF Create
  <2> HIDE DEF buried
  <2> QED
    BY <2>1, <2>2 DEF SameOutput, Fields
<1>4. ASSUME NEW id \in Id, Kill(id) \/ KillCancelled(id) PROVE Same
  <2>1. registry[id] # None => registry[id] \in Session
    BY Zenon DEF TerminalsTypeOK
  <2> QED
    BY <1>4, <1>f, <2>1, KilledOutput DEF Kill, KillCancelled, TerminalsTypeOK
<1>5. ASSUME BuryDead \/ Sweep PROVE Same
  BY <1>5, DoomOutput, Zenon DEF BuryDead, Sweep
<1>6. ASSUME Tick PROVE Same
  <2>1. ASSUME NEW s \in Session PROVE SameOutput(sess[s], sess'[s])
    <3>1. sess'[s] = [sess[s] EXCEPT !.since = sess[s].since + 1] \/ sess'[s] = sess[s]
      BY <1>6, Zenon DEF Tick
    <3> QED
      BY <1>f, <3>1, Zenon DEF SameOutput, Fields
  <2> QED
    BY <1>6, <2>1, Zenon DEF Tick
<1>7. Same
  BY <1>1, <1>2, <1>3, <1>4, <1>5, <1>6, Zenon
<1>8. DOMAIN relay' = Relay
  BY <1>r, Zenon DEF TerminalsTypeOK
<1> QED
  BY <1>r, <1>g, <1>7, <1>8, OutputKept, Zenon
(* A relay that does not forward: what it holds is the session it came     *)
(* for, until it is over.                                                  *)
LEMMA RelaysKeep ==
    ASSUME TerminalsIInv, NEW r \in Relay,
           \/ \E id \in Id : Connect(r, id)
           \/ Check(r) \/ Info(r) \/ AttachBusy(r) \/ ClientGone(r) \/ ChannelClosed(r) \/ Heartbeat(r)
           \/ DropReceiver(r) \/ Unlink(r) \/ KillHeld(r)
    PROVE  TerminalsIInv'
<1> USE DEF TerminalsIInv
<1>k. RelayOK(r) /\ DOMAIN relay = Relay
  BY Zenon DEF TerminalsTypeOK
<1>g. registry' \in [Id -> Session \cup {None}]
  <2>1. \A s : RemoveIfEq(s) \in [Id -> Session \cup {None}]
    BY Zenon DEF TerminalsTypeOK, RemoveIfEq, Without
  <2> QED
    BY <2>1, Zenon DEF TerminalsTypeOK, Connect, Check, Info, AttachBusy, ClientGone, ChannelClosed, Heartbeat,
                DropReceiver, Unlink, KillHeld
<1>f. \A s \in Session : DOMAIN sess[s] = Fields /\ SameOutput(sess[s], sess[s])
  BY Zenon DEF TerminalsTypeOK, SessionOK, SameOutput
<1>1. DOMAIN sess' = Session /\ \A s \in Session : SameOutput(sess[s], sess'[s])
  <2>1. CASE sess' = sess
    BY <1>f, <2>1, Zenon DEF TerminalsTypeOK
  <2>2. CASE Info(r) \/ AttachBusy(r)
    <3>1. relay[r].held \in Session
      BY <1>k, <2>2, Zenon DEF Info, AttachBusy, RelayOK
    <3>2. SameOutput(sess[relay[r].held], ArcDropped(r, sess[relay[r].held]))
      BY <1>f, <3>1, DroppedOutput, Zenon
    <3>3. sess' = [sess EXCEPT ![relay[r].held] = ArcDropped(r, sess[relay[r].held])]
      BY <2>2, Zenon DEF Info, AttachBusy
    <3> QED
      BY <1>f, <3>1, <3>2, <3>3, Zenon DEF TerminalsTypeOK
  <2>3. CASE KillHeld(r)
    <3>1. relay[r].held \in Session
      BY <1>k, <2>3, Zenon DEF KillHeld, RelayOK
    <3>2. SameOutput(sess[relay[r].held], Killed(sess[relay[r].held], "relay"))
      BY <1>f, <3>1, KilledOutput, Zenon
    <3> QED
      BY <1>f, <2>3, <3>1, <3>2, Zenon DEF KillHeld, TerminalsTypeOK
  <2> QED
    BY <2>1, <2>2, <2>3, Zenon DEF Connect, Check, ClientGone, ChannelClosed, Heartbeat, DropReceiver, Unlink
<1>2. DOMAIN relay' = Relay /\ \A q \in Relay \ {r} : relay'[q] = relay[q]
  BY <1>k, Zenon DEF Connect, Check, Info, AttachBusy, ClientGone, ChannelClosed, Heartbeat, DropReceiver, Unlink,
              KillHeld, Goto, Close
<1>3. relay'[r].pc # "loop" /\ RelayOK(r)'
  <2>1. ASSUME NEW id \in Id, Connect(r, id) PROVE relay'[r].pc # "loop" /\ RelayOK(r)'
    BY <1>k, <2>1, Zenon DEF Connect, RelayOK, TerminalsTypeOK
  <2>2. ASSUME NEW label \in RelayPC \ {"idle", "closed", "loop"}, Goto(r, label), relay[r].pc \notin {"idle", "closed"}
        PROVE  relay'[r].pc # "loop" /\ RelayOK(r)'
    BY <1>k, <2>2, Zenon DEF Goto, RelayOK
  <2>3. ASSUME Close(r) PROVE relay'[r].pc # "loop" /\ RelayOK(r)'
    <3>1. relay'[r] = [NewRelay EXCEPT !.pc = "closed"]
      BY <1>k, <2>3, Zenon DEF Close
    <3> QED
      BY <3>1, FreshRelay, Zenon DEF RelayOK
  <2>4. ASSUME DropReceiver(r) PROVE relay'[r].pc # "loop" /\ RelayOK(r)'
    BY <1>k, <2>4, FreshRelay, Zenon DEF DropReceiver, RelayOK
  <2> QED
    BY <2>1, <2>2, <2>3, <2>4, Zenon DEF Check, Info, AttachBusy, ClientGone, ChannelClosed, Heartbeat, Unlink,
                                  KillHeld, RelayPC
<1> QED
  BY <1>g, <1>1, <1>2, <1>3, OutputKept, Zenon

(* The pump: a chunk that is read is on its way to the client until it is  *)
(* in its channel.                                                         *)
LEMMA PumpsKeep == ASSUME TerminalsIInv, NEW s \in Session, PumpStep(s) PROVE TerminalsIInv'
<1> USE DEF TerminalsIInv
<1>k. /\ SessionOK(s) /\ DOMAIN sess = Session /\ DOMAIN relay = Relay
      /\ \A r \in Relay : RelayOK(r) /\ Covered(r)
  BY Zenon DEF TerminalsTypeOK
<1>g. registry' = registry /\ DOMAIN sess' = Session /\ \A q \in Session \ {s} : sess'[q] = sess[q]
  BY <1>k, Zenon DEF PumpStep, PumpRead, PumpPeek, PumpSend, PumpClear
<1>o. \A q \in Session \ {s} : SessionOK(q)'
  BY <1>g, Zenon DEF TerminalsTypeOK, SessionOK
<1>l. \A r \in Relay : relay[r].pc = "loop" => relay[r].held \in Session
  BY <1>k, Zenon DEF RelayOK
<1>0. ASSUME relay' = relay, SessionOK(s)',
             \A r \in Relay : relay[r].pc = "loop" /\ relay[r].held = s => Covered(r)'
      PROVE  TerminalsIInv'
  <2>1. ASSUME NEW r \in Relay PROVE RelayOK(r)' /\ Covered(r)'
    <3>1. RelayOK(r)'
      BY <1>0, <1>k, Zenon DEF RelayOK
    <3>2. CASE relay[r].pc # "loop"
      BY <1>0, <3>1, <3>2, Zenon DEF Covered
    <3>3. CASE relay[r].pc = "loop" /\ relay[r].held # s
      <4>1. SameOutput(sess[relay[r].held], sess'[relay[r].held])
        BY <1>g, <1>l, <1>o, <3>3, Zenon DEF SessionOK, SameOutput
      <4> QED
        BY <1>0, <1>k, <3>1, <4>1, CoveredKept, Zenon
    <3> QED
      BY <1>0, <3>1, <3>2, <3>3, Zenon
  <2> QED
    BY <1>0, <1>g, <1>o, <2>1, Zenon DEF TerminalsTypeOK
<1>1. CASE PumpRead(s)
  <2>1. /\ DOMAIN sess'[s] = Fields /\ sess'[s].sink = sess[s].sink /\ sess'[s].pump = "peek"
        /\ sess'[s].output = sess[s].output + 1 /\ sess[s].pump = "read" /\ relay' = relay
    BY <1>1, <1>k, Zenon DEF PumpRead, SessionOK, Fields
  <2>2. SessionOK(s)'
    BY <1>k, <2>1 DEF SessionOK
  <2>3. 1..sess'[s].output \subseteq 1..sess[s].output \cup {sess'[s].output}
    BY <1>k, <2>1 DEF SessionOK
  <2>4. ASSUME NEW r \in Relay, relay[r].pc = "loop", relay[r].held = s PROVE Covered(r)'
    BY <1>k, <2>1, <2>3, <2>4 DEF Covered, Owed, Queued, Coming
  <2> QED
    BY <1>0, <2>1, <2>2, <2>4, Zenon
<1>2. CASE PumpPeek(s)
  <2>1. /\ DOMAIN sess'[s] = Fields /\ sess'[s].sink = sess[s].sink /\ sess'[s].output = sess[s].output
        /\ sess'[s].target = sess[s].sink /\ sess[s].pump = "peek" /\ relay' = relay
        /\ sess'[s].pump = IF sess[s].sink = None THEN "read" ELSE "send"
    BY <1>2, <1>k, Zenon DEF PumpPeek, SessionOK, Fields
  <2>2. SessionOK(s)'
    BY <1>k, <2>1, Zenon DEF SessionOK
  <2>3. ASSUME NEW r \in Relay, relay[r].pc = "loop", relay[r].held = s PROVE Covered(r)'
    BY <1>k, <2>1, <2>3, TerminalsAssumption DEF Covered, Owed, Queued, Coming
  <2> QED
    BY <1>0, <2>1, <2>2, <2>3, Zenon
<1>3. CASE PumpClear(s)
  <2>1. DOMAIN sess'[s] = Fields /\ sess'[s].sink = None /\ sess'[s].output = sess[s].output
        /\ sess'[s].pump = "read" /\ relay' = relay
    BY <1>3, <1>k, Zenon DEF PumpClear, SessionOK, Fields
  <2>2. SessionOK(s)'
    BY <1>k, <2>1, Zenon DEF SessionOK
  <2>3. ASSUME NEW r \in Relay, relay[r].pc = "loop", relay[r].held = s PROVE Covered(r)'
    BY <2>1, <2>3, TerminalsAssumption, Zenon DEF Covered
  <2> QED
    BY <1>0, <2>1, <2>2, <2>3, Zenon
<1>4. CASE PumpSend(s)
  <2>t. PICK t \in Relay : t = sess[s].target
    BY <1>4, <1>k, Zenon DEF PumpSend, SessionOK
  <2>1. /\ DOMAIN sess'[s] = Fields /\ sess'[s].sink = sess[s].sink /\ sess'[s].output = sess[s].output
        /\ sess'[s].pump \in {"read", "clear"} /\ sess[s].pump = "send"
    BY <1>4, <1>k DEF PumpSend, SessionOK, Fields
  <2>2. SessionOK(s)'
    BY <1>k, <2>1, Zenon DEF SessionOK
  <2>3. CASE ~ Receiving(t)
    <3>1. relay' = relay /\ relay[t].pc # "loop"
      BY <1>4, <2>t, <2>3, Zenon DEF PumpSend, Receiving
    <3>2. ASSUME NEW r \in Relay, relay[r].pc = "loop", relay[r].held = s PROVE Covered(r)'
      BY <1>k, <2>t, <2>1, <3>1, <3>2, SMTT(60) DEF Covered, Owed, Queued, Coming
    <3> QED
      BY <1>0, <2>2, <3>1, <3>2, Zenon
  <2>4. CASE Receiving(t)
    <3>1. relay' = [relay EXCEPT ![t].channel = Append(relay[t].channel, sess[s].output)]
      BY <1>4, <2>t, <2>4, Zenon DEF PumpSend
    <3>2. /\ DOMAIN relay' = Relay /\ \A r \in Relay \ {t} : relay'[r] = relay[r]
          /\ DOMAIN relay'[t] = {"pc", "held", "channel", "replayed", "streamed"}
          /\ relay'[t].channel = Append(relay[t].channel, sess[s].output)
          /\ relay'[t].pc = relay[t].pc /\ relay'[t].held = relay[t].held
          /\ relay'[t].replayed = relay[t].replayed /\ relay'[t].streamed = relay[t].streamed
      BY <1>k, <2>1, <3>1, Zenon DEF RelayOK
    <3>3. relay'[t].channel \in Seq(Nat) /\ Queued(t)' = Queued(t) \cup {sess[s].output}
      <4> DEFINE c == relay[t].channel
                 n == sess[s].output
      <4>1. c \in Seq(Nat) /\ n \in Nat
        BY <1>k, Zenon DEF RelayOK, SessionOK
      <4>2. {Append(c, n)[i] : i \in 1..Len(Append(c, n))} = {c[i] : i \in 1..Len(c)} \cup {n}
        <5>1. /\ Len(Append(c, n)) = Len(c) + 1 /\ Len(c) \in Nat
              /\ \A i \in 1..Len(c) : Append(c, n)[i] = c[i]
              /\ Append(c, n)[Len(c) + 1] = n
          BY <4>1
        <5>2. 1..(Len(c) + 1) = 1..Len(c) \cup {Len(c) + 1}
          BY <5>1
        <5> QED
          BY <5>1, <5>2
      <4> QED
        BY <3>2, <4>1, <4>2, SMTT(60) DEF Queued
    <3>4. \A r \in Relay : RelayOK(r)'
      BY <1>k, <3>2, <3>3, ZenonT(60) DEF RelayOK
    <3>5. ASSUME NEW r \in Relay, relay'[r].pc = "loop", sess'[relay'[r].held].sink = r PROVE Covered(r)'
      <4>1. /\ relay'[r].held = relay[r].held /\ relay[r].pc = "loop" /\ relay[r].held \in Session
            /\ relay'[r].replayed = relay[r].replayed /\ relay'[r].streamed = relay[r].streamed
        BY <1>l, <3>2, <3>5
      <4>2. /\ sess'[relay[r].held].sink = sess[relay[r].held].sink
            /\ sess'[relay[r].held].output = sess[relay[r].held].output
        BY <1>g, <2>1, <4>1, Zenon
      <4>3. Queued(r) \subseteq Queued(r)'
        <5>1. CASE r = t
          BY <3>3, <5>1, Zenon
        <5>2. CASE r # t
          BY <3>2, <5>2, Zenon DEF Queued
        <5> QED
          BY <5>1, <5>2, Zenon
      <4>4. Coming(r) \subseteq Queued(r)' \cup Coming(r)'
        <5>1. CASE relay[r].held # s
          BY <1>g, <4>1, <5>1, Zenon DEF Coming
        <5>2. CASE relay[r].held = s
          BY <2>t, <2>1, <3>3, <5>2, Zenon DEF Coming
        <5> QED
          BY <5>1, <5>2, Zenon
      <4>5. Owed(r) \subseteq 1..relay[r].replayed \cup relay[r].streamed \cup Queued(r) \cup Coming(r)
        BY <1>k, <3>5, <4>1, <4>2, Zenon DEF Covered
      <4>6. Owed(r)' = Owed(r)
        BY <4>1, <4>2, Zenon DEF Owed
      <4> QED
        BY <4>1, <4>3, <4>4, <4>5, <4>6, Zenon DEF Covered
    <3>6. \A r \in Relay : Covered(r)'
      BY <3>5, Zenon DEF Covered
    <3> QED
      BY <1>g, <1>o, <2>2, <3>2, <3>4, <3>6, Zenon DEF TerminalsTypeOK
  <2> QED
    BY <2>3, <2>4, Zenon
<1> QED
  BY <1>1, <1>2, <1>3, <1>4, Zenon DEF PumpStep

(* A relay attaches, reads the tail, forwards and detaches; or the pod     *)
(* ends.                                                                   *)
LEMMA TerminalsStep == TerminalsIInv /\ [Next]_vars => TerminalsIInv'
<1> SUFFICES ASSUME TerminalsIInv, [Next]_vars PROVE TerminalsIInv'
  OBVIOUS
<1> USE DEF TerminalsIInv
<1>k. /\ \A s \in Session : SessionOK(s)
      /\ DOMAIN sess = Session /\ DOMAIN relay = Relay /\ registry \in [Id -> Session \cup {None}]
      /\ \A r \in Relay : RelayOK(r) /\ Covered(r)
  BY Zenon DEF TerminalsTypeOK
<1>l. \A r \in Relay : relay[r].pc = "loop" => relay[r].held \in Session
  BY <1>k, Zenon DEF RelayOK
<1>1. ASSUME NEW r \in Relay, Attach(r) PROVE TerminalsIInv'
  <2>s. PICK s \in Session : s = relay[r].held
    BY <1>1, <1>k, Zenon DEF Attach, RelayOK
  <2>1. /\ registry' = registry /\ DOMAIN sess' = Session
        /\ \A q \in Session \ {s} : sess'[q] = sess[q]
        /\ DOMAIN sess'[s] = Fields /\ sess'[s].sink = r /\ sess'[s].output = sess[s].output
        /\ sess'[s].pump = sess[s].pump /\ sess'[s].target = sess[s].target
    BY <1>1, <1>k, <2>s DEF Attach, SessionOK, Fields
  <2>2. /\ DOMAIN relay' = Relay /\ \A q \in Relay \ {r} : relay'[q] = relay[q]
        /\ relay'[r].pc = "replay" /\ RelayOK(r)'
    BY <1>1, <1>k, Zenon DEF Attach, Goto, RelayOK
  <2>3. \A q \in Session : SessionOK(q)'
    BY <1>k, <2>1, Zenon DEF SessionOK
  <2>4. ASSUME NEW q \in Relay, q # r PROVE RelayOK(q)' /\ Covered(q)'
    <3>1. CASE relay[q].pc # "loop" \/ relay[q].held = s
      BY <1>k, <2>1, <2>2, <2>4, <3>1, SMTT(60) DEF RelayOK, Covered
    <3>2. CASE relay[q].pc = "loop" /\ relay[q].held # s
      <4>1. SameOutput(sess[relay[q].held], sess'[relay[q].held]) /\ relay'[q] = relay[q]
        BY <1>k, <1>l, <2>1, <2>2, <2>4, <3>2, Zenon DEF SessionOK, SameOutput
      <4> QED
        BY <1>k, <4>1, CoveredKept, Zenon DEF RelayOK
    <3> QED
      BY <3>1, <3>2, Zenon
  <2>5. Covered(r)'
    BY <2>2, Zenon DEF Covered
  <2> QED
    BY <1>k, <2>1, <2>2, <2>3, <2>4, <2>5, Zenon DEF TerminalsTypeOK
<1>2. ASSUME NEW r \in Relay, Detach(r) PROVE TerminalsIInv'
  <2>s. PICK s \in Session : s = relay[r].held
    BY <1>2, <1>k, Zenon DEF Detach, RelayOK
  <2> DEFINE left == [sess[s] EXCEPT !.sink = None, !.since = 0]
  <2>1. /\ DOMAIN left = Fields /\ left.sink = None /\ left.output = sess[s].output
        /\ left.pump = sess[s].pump /\ left.target = sess[s].target
    BY <1>k, Zenon DEF SessionOK, Fields
  <2>2. sess' = [sess EXCEPT ![s] = ArcDropped(r, left)] /\ registry' = registry
    BY <1>2, <2>s, Zenon DEF Detach
  <2> HIDE DEF left
  <2>3. SameOutput(left, ArcDropped(r, left))
    BY <2>1, DroppedOutput, Zenon
  <2>4. /\ DOMAIN relay' = Relay /\ \A q \in Relay \ {r} : relay'[q] = relay[q]
        /\ relay'[r].pc # "loop" /\ RelayOK(r)'
    <3>1. relay'[r] = [NewRelay EXCEPT !.pc = "closed"]
      BY <1>2, <1>k, Zenon DEF Detach, Close
    <3> QED
      BY <1>2, <1>k, <3>1, FreshRelay, Zenon DEF Detach, Close, RelayOK
  <2>5. /\ DOMAIN sess' = Session /\ \A q \in Session \ {s} : sess'[q] = sess[q]
        /\ SessionOK(s)' /\ sess'[s].sink = None
    BY <1>k, <2>1, <2>2, <2>3, Zenon DEF SessionOK, SameOutput
  <2>6. \A q \in Session : SessionOK(q)'
    BY <1>k, <2>5, Zenon DEF SessionOK
  <2>7. ASSUME NEW q \in Relay, q # r PROVE RelayOK(q)' /\ Covered(q)'
    <3>1. CASE relay[q].pc # "loop" \/ relay[q].held = s
      BY <1>k, <2>4, <2>5, <2>7, <3>1, TerminalsAssumption, SMTT(60) DEF RelayOK, Covered
    <3>2. CASE relay[q].pc = "loop" /\ relay[q].held # s
      <4>1. SameOutput(sess[relay[q].held], sess'[relay[q].held]) /\ relay'[q] = relay[q]
        BY <1>k, <1>l, <2>4, <2>5, <2>7, <3>2, Zenon DEF SessionOK, SameOutput
      <4> QED
        BY <1>k, <4>1, CoveredKept, Zenon DEF RelayOK
    <3> QED
      BY <3>1, <3>2, Zenon
  <2>8. Covered(r)'
    BY <2>4, Zenon DEF Covered
  <2> QED
    BY <1>k, <2>2, <2>4, <2>5, <2>6, <2>7, <2>8, Zenon DEF TerminalsTypeOK
<1>3. ASSUME NEW r \in Relay, Replay(r) \/ Forward(r) PROVE TerminalsIInv'
  <2>1. /\ UNCHANGED <<registry, sess>> /\ DOMAIN relay' = Relay
        /\ \A q \in Relay \ {r} : relay'[q] = relay[q]
        /\ relay'[r].held = relay[r].held /\ relay[r].held \in Session
        /\ DOMAIN relay'[r] = {"pc", "held", "channel", "replayed", "streamed"}
        /\ relay'[r].pc = "loop"
    BY <1>3, <1>k DEF Replay, Forward, RelayOK
  <2>2. ASSUME NEW q \in Relay, q # r PROVE RelayOK(q)' /\ Covered(q)'
    <3>1. relay[q].pc = "loop" => SameOutput(sess[relay[q].held], sess'[relay[q].held])
      BY <1>k, <1>l, <2>1, Zenon DEF SessionOK, SameOutput
    <3>2. CASE relay[q].pc = "loop"
      BY <1>k, <2>1, <2>2, <3>1, <3>2, CoveredKept, Zenon DEF RelayOK
    <3>3. CASE relay[q].pc # "loop"
      BY <1>k, <2>1, <2>2, <3>3, Zenon DEF RelayOK, Covered
    <3> QED
      BY <3>2, <3>3, Zenon
  <2>3. RelayOK(r)' /\ Covered(r)'
    <3>1. CASE Replay(r)
      <4>1. relay'[r].replayed = sess[relay[r].held].output /\ relay'[r].channel = relay[r].channel
        BY <1>k, <3>1, Zenon DEF Replay, RelayOK
      <4> QED
        BY <1>k, <2>1, <4>1, Zenon DEF RelayOK, Covered, Owed
    <3>2. CASE Forward(r)
      <4> DEFINE c == relay[r].channel
      <4>1. /\ relay'[r].replayed = relay[r].replayed /\ relay'[r].channel = Tail(c)
            /\ relay'[r].streamed = relay[r].streamed \cup {Head(c)}
            /\ relay[r].pc = "loop" /\ c # << >> /\ c \in Seq(Nat)
        BY <1>k, <3>2, Zenon DEF Forward, RelayOK
      <4>2. Tail(c) \in Seq(Nat)
        BY <4>1
      <4>3. Queued(r) \subseteq Queued(r)' \cup {Head(c)}
        <5>1. Queued(r) = {c[i] : i \in 1..Len(c)} /\ Queued(r)' = {Tail(c)[i] : i \in 1..Len(Tail(c))}
          BY <4>1, Zenon DEF Queued
        <5>2. c[1] = Head(c)
          BY <4>1
        <5>3. ASSUME NEW i \in 1..Len(c), i # 1 PROVE c[i] \in Queued(r)'
          <6>1. i - 1 \in 1..Len(Tail(c)) /\ Tail(c)[i - 1] = c[i]
            BY <4>1, <5>3
          <6> QED
            BY <5>1, <6>1, Zenon
        <5> HIDE DEF c
        <5> QED
          BY <5>1, <5>2, <5>3, Zenon
      <4>4. Owed(r)' = Owed(r) /\ Coming(r)' = Coming(r)
        BY <2>1, Zenon DEF Owed, Coming
      <4> HIDE DEF c
      <4> QED
        BY <1>k, <2>1, <4>1, <4>2, <4>3, <4>4 DEF RelayOK, Covered
    <3> QED
      BY <1>3, <3>1, <3>2, Zenon
  <2> QED
    BY <1>k, <2>1, <2>2, <2>3, Zenon DEF TerminalsTypeOK, SessionOK
<1>4. CASE FlushAndExit \/ PodLost
  <2>1. /\ registry' = [id \in Id |-> None] /\ DOMAIN sess' = Session /\ DOMAIN relay' = Relay
        /\ \A s \in Session : sess'[s] =
              [NewSession EXCEPT !.shell = IF sess[s].shell = "free" THEN "free" ELSE "dead"]
        /\ \A r \in Relay : relay'[r] =
              [NewRelay EXCEPT !.pc = IF relay[r].pc = "idle" THEN "idle" ELSE "closed"]
    BY <1>4, Zenon DEF FlushAndExit, PodLost, NewProcess
  <2>2. ASSUME NEW s \in Session PROVE SessionOK(s)'
    <3>1. /\ DOMAIN sess'[s] = Fields /\ sess'[s].output = 0
          /\ sess'[s].sink = None /\ sess'[s].pump = NewSession.pump
      BY <2>1 DEF NewSession, Fields
    <3> QED
      BY <3>1 DEF SessionOK, NewSession
  <2>3. ASSUME NEW r \in Relay PROVE RelayOK(r)' /\ Covered(r)'
    <3>1. /\ DOMAIN relay'[r] = {"pc", "held", "channel", "replayed", "streamed"}
          /\ relay'[r].channel = << >> /\ relay'[r].held = None /\ relay'[r].pc \in {"idle", "closed"}
      BY <2>1 DEF NewRelay
    <3>2. relay'[r].channel \in Seq(Nat)
      BY <3>1
    <3>3. relay'[r].pc # "loop"
      BY <3>1
    <3> QED
      BY <3>1, <3>2, <3>3, Zenon DEF RelayOK, Covered
  <2>4. registry' \in [Id -> Session \cup {None}]
    BY <2>1, Zenon
  <2> QED
    BY <2>1, <2>2, <2>3, <2>4, Zenon DEF TerminalsTypeOK
<1>5. CASE UNCHANGED vars
  <2>1. \A s \in Session : SameOutput(sess[s], sess'[s])
    BY <1>5, <1>k, Zenon DEF vars, SameOutput, SessionOK
  <2> QED
    BY <1>5, <1>k, <2>1, OutputKept, Zenon DEF vars
<1> QED
  BY <1>1, <1>2, <1>3, <1>4, <1>5, HandlersKeep, RelaysKeep, PumpsKeep, Zenon DEF Next, RelayStep

(* No output is lost across a detach and a resume (terminals.rs:443-450,   *)
(* 638-661), for any number of sessions and connections and any capacity   *)
(* of the channels: while its sender stays installed, a client has every   *)
(* chunk of the shell in the replayed tail, in what was streamed to it, in *)
(* its channel or in the pump's hand.                                      *)
THEOREM OutputTheorem == Spec => []NoOutputLost
<1>1. TerminalsIInv => NoOutputLost
  <2> SUFFICES ASSUME TerminalsIInv, NEW r \in Relay PROVE Coming(r) \subseteq InHand(relay[r].held)
    BY Zenon DEF TerminalsIInv, Covered, NoOutputLost, Queued
  <2> QED
    BY Zenon DEF Coming, InHand
<1> QED
  BY <1>1, TerminalsInitial, TerminalsStep, PTL DEF Spec
-----------------------------------------------------------------------------
(* The owners of a shell *)

Minded(s) == (\E id \in Id : registry[id] = s) \/ sess[s].doomed # None \/ Holders(s) # {}

(* A shell keeps its owners if the step leaves its entries, its teardown   *)
(* and the connections that hold it alone, or starts no shell.             *)
LEMMA OwnersKept ==
    ASSUME NEW s \in Session, Live(s) => Minded(s),
           \/ sess'[s].shell # "live"
           \/ /\ sess'[s].shell = sess[s].shell /\ sess'[s].doomed = sess[s].doomed
              /\ \A id \in Id : registry[id] = s => registry'[id] = s
              /\ \A r \in Relay : relay[r].held = s => relay'[r].held = s
    PROVE  Live(s)' => Minded(s)'
  BY Zenon DEF Live, Minded, Holders

(* What takes an Arc, an entry or a teardown away leaves another owner, or *)
(* kills the shell.                                                        *)
LEMMA OwnersStep == TerminalsIInv /\ NoOrphanShell /\ [Next]_vars => NoOrphanShell'
<1> SUFFICES ASSUME TerminalsIInv, NoOrphanShell, [Next]_vars, NEW s \in Session PROVE Live(s)' => Minded(s)'
  BY Zenon DEF NoOrphanShell, Minded
<1>i. Live(s) => Minded(s)
  BY Zenon DEF NoOrphanShell, Minded
<1>k. /\ \A q \in Session : DOMAIN sess[q] = Fields
      /\ DOMAIN sess = Session /\ DOMAIN relay = Relay /\ registry \in [Id -> Session \cup {None}]
      /\ \A r \in Relay : RelayOK(r)
  BY Zenon DEF TerminalsIInv, TerminalsTypeOK, SessionOK
<1>1. ASSUME NEW r \in Relay, NEW id \in Id, Connect(r, id) PROVE Live(s)' => Minded(s)'
  <2>1. relay[r].held = None
    BY <1>1, <1>k, Zenon DEF Connect, RelayOK
  <2>2. \A q \in Relay : relay[q].held = s => relay'[q].held = s
    BY <1>1, <1>k, <2>1, TerminalsAssumption, Zenon DEF Connect
  <2> QED
    BY <1>1, <1>i, <2>2, OwnersKept, Zenon DEF Connect
<1>2. ASSUME NEW r \in Relay,
             Check(r) \/ Replay(r) \/ Forward(r) \/ ClientGone(r) \/ ChannelClosed(r) \/ Heartbeat(r) \/ DropReceiver(r)
      PROVE  Live(s)' => Minded(s)'
  <2>1. \A q \in Relay : relay'[q].held = relay[q].held
    <3>1. CASE Replay(r)
      BY <1>k, <3>1, Zenon DEF Replay, RelayOK
    <3>2. CASE Forward(r)
      BY <1>k, <3>2, Zenon DEF Forward, RelayOK
    <3>3. CASE DropReceiver(r)
      BY <1>k, <3>3, Zenon DEF DropReceiver, RelayOK
    <3>4. ASSUME NEW label, Goto(r, label) PROVE \A q \in Relay : relay'[q].held = relay[q].held
      BY <1>k, <3>4, Zenon DEF Goto, RelayOK
    <3> QED
      BY <1>2, <3>1, <3>2, <3>3, <3>4, Zenon DEF Check, ClientGone, ChannelClosed, Heartbeat
  <2>2. UNCHANGED <<registry, sess>>
    BY <1>2, Zenon DEF Check, Replay, Forward, ClientGone, ChannelClosed, Heartbeat, DropReceiver
  <2> QED
    BY <1>i, <2>1, <2>2, OwnersKept, Zenon
<1>3. ASSUME NEW r \in Relay, Attach(r) PROVE Live(s)' => Minded(s)'
  <2>1. \A q \in Relay : relay'[q].held = relay[q].held
    BY <1>3, <1>k, Zenon DEF Attach, Goto, RelayOK
  <2>2. sess'[s].shell = sess[s].shell /\ sess'[s].doomed = sess[s].doomed /\ registry' = registry
    BY <1>3, <1>k, Zenon DEF Attach, Fields
  <2> QED
    BY <1>i, <2>1, <2>2, OwnersKept, Zenon
<1>4. ASSUME NEW r \in Relay, NEW h \in Session, h = relay[r].held, NEW st, DOMAIN st = Fields,
             st.shell = sess[h].shell, st.doomed = sess[h].doomed,
             sess' = [sess EXCEPT ![h] = ArcDropped(r, st)], Close(r), registry' = registry
      PROVE  Live(s)' => Minded(s)'
  <2>1. \A q \in Relay \ {r} : relay'[q] = relay[q]
    BY <1>4, <1>k, Zenon DEF Close
  <2>2. CASE s # h
    BY <1>i, <1>4, <1>k, <2>1, <2>2, OwnersKept, Zenon
  <2>3. CASE s = h /\ ArcDropped(r, st) = Killed(st, "drop")
    <3>1. sess'[s].shell = "dead"
      BY <1>4, <1>k, <2>3, KilledOutput, SMTT(60)
    <3> QED
      BY <3>1, Zenon DEF Live
  <2>4. CASE s = h /\ ArcDropped(r, st) # Killed(st, "drop")
    <3>1. /\ ArcDropped(r, st) = st
          /\ Holders(h) # {r} \/ (\E id \in Id : registry[id] = h) \/ st.doomed # None
      BY <1>4, <2>4, Zenon DEF ArcDropped
    <3>2. sess'[s].doomed = sess[s].doomed
      BY <1>4, <1>k, <2>4, <3>1, Zenon
    <3>3. Holders(h) # {r} => \E q \in Relay \ {r} : relay[q].held = h
      BY <1>4, Zenon DEF Holders
    <3> QED
      BY <1>4, <2>1, <2>4, <3>1, <3>2, <3>3, Zenon DEF Minded, Holders
  <2> QED
    BY <2>2, <2>3, <2>4, Zenon
<1>5. ASSUME NEW r \in Relay, Info(r) \/ AttachBusy(r) PROVE Live(s)' => Minded(s)'
  <2>1. relay[r].held \in Session
    BY <1>5, <1>k, Zenon DEF Info, AttachBusy, RelayOK
  <2> QED
    BY <1>4, <1>5, <1>k, <2>1, Zenon DEF Info, AttachBusy
<1>6. ASSUME NEW r \in Relay, Detach(r) PROVE Live(s)' => Minded(s)'
  <2> DEFINE st == [sess[relay[r].held] EXCEPT !.sink = None, !.since = 0]
  <2>1. relay[r].held \in Session
    BY <1>6, <1>k, Zenon DEF Detach, RelayOK
  <2>2. DOMAIN st = Fields /\ st.shell = sess[relay[r].held].shell /\ st.doomed = sess[relay[r].held].doomed
    BY <1>k, <2>1, Zenon DEF Fields
  <2>3. sess' = [sess EXCEPT ![relay[r].held] = ArcDropped(r, st)] /\ Close(r) /\ registry' = registry
    BY <1>6, Zenon DEF Detach
  <2> HIDE DEF st
  <2> QED
    BY <1>4, <2>1, <2>2, <2>3, Zenon
<1>7. ASSUME NEW r \in Relay, Unlink(r) PROVE Live(s)' => Minded(s)'
  <2>1. \A q \in Relay : relay'[q].held = relay[q].held
    BY <1>7, <1>k, Zenon DEF Unlink, Goto, RelayOK
  <2>2. CASE s = relay[r].held
    BY <2>1, <2>2, Zenon DEF Minded, Holders
  <2>3. CASE s # relay[r].held
    <3>1. \A id \in Id : registry[id] = s => registry'[id] = s
      BY <1>7, <2>3, Zenon DEF Unlink, RemoveIfEq, Without
    <3> QED
      BY <1>7, <1>i, <2>1, <3>1, OwnersKept, Zenon DEF Unlink
  <2> QED
    BY <2>2, <2>3, Zenon
<1>8. ASSUME NEW r \in Relay, KillHeld(r) PROVE Live(s)' => Minded(s)'
  <2>1. relay[r].held \in Session
    BY <1>8, <1>k, Zenon DEF KillHeld, RelayOK
  <2>2. CASE s = relay[r].held
    <3>1. sess'[s].shell = "dead"
      BY <1>8, <1>k, <2>1, <2>2, KilledOutput, Zenon DEF KillHeld
    <3> QED
      BY <3>1, Zenon DEF Live
  <2>3. CASE s # relay[r].held
    <3>1. \A q \in Relay : relay[q].held = s => relay'[q].held = s
      BY <1>8, <1>k, <2>3, Zenon DEF KillHeld, Close
    <3> QED
      BY <1>8, <1>i, <1>k, <2>3, <3>1, OwnersKept, Zenon DEF KillHeld
  <2> QED
    BY <2>2, <2>3, Zenon
<1>9. ASSUME NEW q \in Session, ShellExit(q) \/ Teardown(q) PROVE Live(s)' => Minded(s)'
  <2>1. CASE s = q
    <3>1. sess'[s].shell = "dead"
      <4>1. CASE ShellExit(q)
        BY <1>k, <2>1, <4>1, KilledOutput, Zenon DEF ShellExit
      <4>2. CASE Teardown(q)
        <5>1. /\ DOMAIN Killed(sess[q], sess[q].doomed) = Fields
              /\ Killed(sess[q], sess[q].doomed).shell = "dead"
          BY <1>k, KilledOutput, Zenon DEF SameOutput
        <5> QED
          BY <1>k, <2>1, <4>2, <5>1, Zenon DEF Teardown, Fields
      <4> QED
        BY <1>9, <4>1, <4>2, Zenon
    <3> QED
      BY <3>1, Zenon DEF Live
  <2>2. CASE s # q
    <3>1. UNCHANGED <<registry, relay>> /\ sess'[s] = sess[s]
      BY <1>9, <1>k, <2>2, Zenon DEF ShellExit, Teardown
    <3> QED
      BY <1>i, <3>1, OwnersKept, Zenon
  <2> QED
    BY <2>1, <2>2, Zenon
<1>10. ASSUME NEW q \in Session, PumpStep(q) PROVE Live(s)' => Minded(s)'
  <2>1. registry' = registry /\ \A r \in Relay : relay'[r].held = relay[r].held
    <3>1. registry' = registry /\ (relay' = relay \/ \E t, c : relay' = [relay EXCEPT ![t].channel = c])
      BY <1>10, Zenon DEF PumpStep, PumpRead, PumpPeek, PumpSend, PumpClear
    <3>2. ASSUME NEW t, NEW c, relay' = [relay EXCEPT ![t].channel = c], NEW r \in Relay
          PROVE  relay'[r].held = relay[r].held
      BY <1>k, <3>2, Zenon DEF RelayOK
    <3> QED
      BY <3>1, <3>2, Zenon
  <2>2. sess'[s].shell = sess[s].shell /\ sess'[s].doomed = sess[s].doomed
    BY <1>10, <1>k DEF PumpStep, PumpRead, PumpPeek, PumpSend, PumpClear, Fields
  <2> QED
    BY <1>i, <2>1, <2>2, OwnersKept, Zenon
<1>d. ASSUME NEW why PROVE Live(s) => Doom(DeadIds, why)[s] = sess[s]
  BY Zenon DEF Doom, DeadIds, Live
<1>e. Live(s) => \A id \in Id : registry[id] = s => Without(DeadIds)[id] = s
  BY Zenon DEF Without, DeadIds, Live
<1>s. \A ids, why : Doom(ids, why)[s].shell = sess[s].shell
  BY DoomOutput, Zenon DEF TerminalsIInv
<1>11. ASSUME NEW id \in Id, NEW q \in Session, Create(id, q) PROVE Live(s)' => Minded(s)'
  <2> DEFINE buried == Doom(DeadIds, "dead")
  <2>1. /\ DOMAIN buried = Session /\ \A x \in Session : DOMAIN buried[x] = Fields
        /\ sess' = [buried EXCEPT ![q].shell = "live", ![q].preloaded = file[id]]
        /\ registry' = [Without(DeadIds) EXCEPT ![id] = q] /\ relay' = relay
        /\ Without(DeadIds)[id] = None
    BY <1>11, DoomOutput DEF Create, TerminalsIInv, SameOutput
  <2>2. Live(s) => buried[s] = sess[s]
    BY <1>d, Zenon
  <2>3. buried[s].shell = sess[s].shell
    BY <1>s, Zenon
  <2> HIDE DEF buried
  <2>4. CASE s = q
    <3>1. registry'[id] = s
      BY <2>1, <2>4, Zenon DEF Without
    <3> QED
      BY <3>1, Zenon DEF Minded
  <2>5. CASE s # q
    <3>1. sess'[s] = buried[s]
      BY <2>1, <2>5, Zenon
    <3>2. CASE ~ Live(s)
      BY <2>3, <3>1, <3>2, Zenon DEF Live
    <3>3. CASE Live(s)
      <4>1. \A j \in Id : registry[j] = s => registry'[j] = s
        BY <1>e, <2>1, <3>3, TerminalsAssumption, Zenon DEF Without
      <4> QED
        BY <1>i, <2>1, <2>2, <3>1, <3>3, <4>1, OwnersKept, Zenon
    <3> QED
      BY <3>2, <3>3, Zenon
  <2> QED
    BY <2>4, <2>5, Zenon
<1>12. CASE BuryDead
  <2>1. CASE ~ Live(s)
    BY <1>12, <1>s, <2>1, Zenon DEF BuryDead, Live
  <2>2. CASE Live(s)
    BY <1>12, <1>d, <1>e, <1>i, <2>2, OwnersKept, Zenon DEF BuryDead
  <2> QED
    BY <2>1, <2>2, Zenon
<1>13. CASE Sweep
  <2>1. CASE \E id \in Expired : registry[id] = s
    <3>1. sess'[s].doomed = "sweep"
      BY <1>13, <1>k, <2>1, Zenon DEF Sweep, Doom, Fields
    <3> QED
      BY <3>1, TerminalsAssumption, Zenon DEF Minded
  <2>2. CASE ~ \E id \in Expired : registry[id] = s
    <3>1. sess'[s] = sess[s] /\ relay' = relay /\ \A id \in Id : registry[id] = s => registry'[id] = s
      BY <1>13, <2>2, Zenon DEF Sweep, Doom, Without
    <3> QED
      BY <1>i, <3>1, OwnersKept, Zenon
  <2> QED
    BY <2>1, <2>2, Zenon
<1>14. ASSUME NEW id \in Id, Kill(id) \/ KillCancelled(id) PROVE Live(s)' => Minded(s)'
  <2>1. relay' = relay
    BY <1>14, Zenon DEF Kill, KillCancelled
  <2>2. CASE registry[id] # s
    <3>1. \A j \in Id : registry[j] = s => registry'[j] = s
      BY <1>14, <2>2, Zenon DEF Kill, KillCancelled, Without
    <3>2. sess'[s] = sess[s]
      BY <1>14, <1>k, <2>2, Zenon DEF Kill, KillCancelled
    <3> QED
      BY <1>i, <2>1, <3>1, <3>2, OwnersKept, Zenon
  <2>3. CASE registry[id] = s
    <3>1. s # None
      BY TerminalsAssumption, Zenon
    <3>2. sess'[s] = Killed(sess[s], "delete") \/ Holders(s) # {}
      BY <1>14, <1>k, <2>3, <3>1, Zenon DEF Kill, KillCancelled
    <3>3. CASE sess'[s] = Killed(sess[s], "delete")
      BY <1>k, <3>3, KilledOutput, Zenon DEF Live
    <3>4. CASE Holders(s) # {}
      BY <2>1, <3>4, Zenon DEF Minded, Holders
    <3> QED
      BY <3>2, <3>3, <3>4, Zenon
  <2> QED
    BY <2>2, <2>3, Zenon
<1>15. CASE Tick
  <2>1. sess'[s] = sess[s] \/ sess'[s] = [sess[s] EXCEPT !.since = sess[s].since + 1]
    BY <1>15, Zenon DEF Tick
  <2>2. sess'[s].shell = sess[s].shell /\ sess'[s].doomed = sess[s].doomed
    BY <1>k, <2>1, Zenon DEF Fields
  <2> QED
    BY <1>15, <1>i, <2>2, OwnersKept, Zenon DEF Tick
<1>16. CASE FlushAndExit \/ PodLost
  BY <1>16, SMTT(60) DEF FlushAndExit, PodLost, NewProcess, NewSession, Live
<1>17. CASE UNCHANGED vars
  BY <1>17, <1>i, OwnersKept, Zenon DEF vars
<1> QED
  BY <1>1, <1>2, <1>3, <1>5, <1>6, <1>7, <1>8, <1>9, <1>10, <1>11, <1>12, <1>13, <1>14, <1>15, <1>16, <1>17, Zenon
     DEF Next, RelayStep

(* No shell outlives its owners (terminals.rs:179-190, 226-245), for any   *)
(* number of sessions and connections and any interleaving of their ends:  *)
(* a live shell is registered, about to be torn down, or held by a         *)
(* connection.                                                             *)
THEOREM OwnersTheorem == Spec => []NoOrphanShell
<1>1. Init => NoOrphanShell
  BY DEF Init, NoOrphanShell, Live, NewSession
<1> QED
  BY <1>1, TerminalsInitial, TerminalsStep, OwnersStep, PTL DEF Spec

-----------------------------------------------------------------------------
(* POST /execute *)

ExecuteTypeOK ==
    /\ handler \in {"idle", "read", "wait", "reap", "done", "dropped"}
    /\ proc \in [Proc -> [state : {"unborn", "runs", "dead"}, grouped : BOOLEAN, pipes : BOOLEAN]]
    /\ written \in Nat /\ heard \in Nat
    /\ result \in [code : Int, chunks : Nat, cut : BOOLEAN]

(* The handler waits for the shell once all is read and nobody is left who *)
(* could write; after the timeout nobody is left in the group.  A process  *)
(* passes on only what it has.                                             *)
OutputComplete == handler = "wait" => Writers = {} /\ heard = written
GroupKilled == handler = "reap" => Grouped = {}

ExecuteIInv == ExecuteTypeOK /\ OutputComplete /\ GroupKilled /\ NothingLeftBehind

(* Before the command is spawned there is no group and no answer.          *)
LEMMA ExecuteInitial == ExecuteInit => ExecuteIInv
BY ExecuteAssumption
   DEF ExecuteInit, ExecuteIInv, ExecuteTypeOK, OutputComplete, GroupKilled, NothingLeftBehind,
       NoResult, Unborn

(* Nothing joins the group or gets the pipes by a process that ends, that  *)
(* closes its pipes or that starts another, if nobody had them.            *)
LEMMA NobodyJoins ==
    ASSUME ExecuteTypeOK, NEW p \in Proc,
           ClosePipes(p) \/ Exit(p) \/ \E q \in Proc : Fork(p, q)
    PROVE  /\ Writers = {} => Writers' = {}
           /\ Grouped = {} => Grouped' = {}
<1>1. CASE ClosePipes(p)
  BY <1>1, Zenon DEF ClosePipes, ExecuteTypeOK, Writers, Grouped, Alive
<1>2. CASE Exit(p)
  BY <1>2, Zenon DEF Exit, Ended, ExecuteTypeOK, Writers, Grouped, Alive
<1>3. ASSUME NEW q \in Proc, Fork(p, q)
      PROVE  /\ Writers = {} => Writers' = {}
             /\ Grouped = {} => Grouped' = {}
  <2>1. PICK pipes \in BOOLEAN, grouped \in BOOLEAN :
          /\ pipes => proc[p].pipes
          /\ grouped => proc[p].grouped
          /\ proc' = [proc EXCEPT ![q] = [state |-> "runs", grouped |-> grouped, pipes |-> pipes]]
    BY <1>3, Zenon DEF Fork
  <2>2. p \in Alive
    BY <1>3, Zenon DEF Fork
  <2> QED
    BY <2>1, <2>2, Zenon DEF ExecuteTypeOK, Writers, Grouped, Alive
<1> QED
  BY <1>1, <1>2, <1>3, Zenon

(* The types of the request, the processes and the pipes.                  *)
LEMMA ExecuteTyped == ExecuteTypeOK /\ [ExecuteNext]_executeVars => ExecuteTypeOK'
<1> SUFFICES ASSUME ExecuteTypeOK, [ExecuteNext]_executeVars PROVE ExecuteTypeOK'
  OBVIOUS
<1> USE ExecuteAssumption DEF ExecuteTypeOK
<1>0. \A n \in Int : [NoResult EXCEPT !.code = n] \in [code : Int, chunks : Nat, cut : BOOLEAN]
  BY Zenon DEF NoResult
<1>1. CASE Spawn
  <2>1. [state |-> "runs", grouped |-> TRUE, pipes |-> TRUE]
           \in [state : {"unborn", "runs", "dead"}, grouped : BOOLEAN, pipes : BOOLEAN]
    OBVIOUS
  <2>2. CASE handler' = "read" /\ UNCHANGED result
    BY <1>1, <2>1, <2>2, ZenonT(60) DEF Spawn
  <2>3. CASE result' = [NoResult EXCEPT !.code = 1] /\ UNCHANGED proc
    BY <1>0, <1>1, <2>3 DEF Spawn
  <2> QED
    BY <1>1, <2>2, <2>3, Zenon DEF Spawn
<1>2. CASE ReadOpt
  BY <1>2 DEF ReadOpt
<1>3. CASE EndOfOutput
  BY <1>3, Zenon DEF EndOfOutput
<1>4. CASE Expire
  BY <1>4, Zenon DEF Expire, Ended
<1>5. CASE Reap
  <2>1. [code |-> 0, chunks |-> Cap(heard), cut |-> heard > MaxOutputBytes]
           \in [code : Int, chunks : Nat, cut : BOOLEAN]
    BY DEF Cap
  <2> QED
    BY <1>0, <1>5, <2>1 DEF Reap, TimedOut
<1>6. CASE Disconnect
  BY <1>6 DEF Disconnect, Ended
<1>7. ASSUME NEW p \in Proc, Write(p) PROVE ExecuteTypeOK'
  BY <1>7 DEF Write
<1>8. ASSUME NEW p \in Proc, ClosePipes(p) PROVE ExecuteTypeOK'
  BY <1>8, Zenon DEF ClosePipes
<1>9. ASSUME NEW p \in Proc, Exit(p) PROVE ExecuteTypeOK'
  BY <1>9, Zenon DEF Exit, Ended
<1>10. ASSUME NEW p \in Proc, NEW q \in Proc, Fork(p, q) PROVE ExecuteTypeOK'
  BY <1>10 DEF Fork
<1>11. CASE UNCHANGED executeVars
  BY <1>11, Zenon DEF executeVars
<1> QED
  BY <1>1, <1>2, <1>3, <1>4, <1>5, <1>6, <1>7, <1>8, <1>9, <1>10, <1>11, Zenon DEF ExecuteNext

(* The steps of the handler, of the processes of the group and of those    *)
(* that left it.                                                           *)
LEMMA ExecuteStep == ExecuteIInv /\ [ExecuteNext]_executeVars => ExecuteIInv'
<1> SUFFICES ASSUME ExecuteIInv, [ExecuteNext]_executeVars PROVE ExecuteIInv'
  OBVIOUS
<1>0. ExecuteTypeOK /\ ExecuteTypeOK'
  BY ExecuteTyped, Zenon DEF ExecuteIInv
<1> USE DEF ExecuteIInv, OutputComplete, GroupKilled, NothingLeftBehind
<1>1. CASE Spawn
  BY <1>0, <1>1, SMTT(60) DEF Spawn, NoResult, TimedOut
<1>2. CASE ReadOpt
  BY <1>0, <1>2, Zenon DEF ReadOpt, Writers, Grouped, Alive
<1>3. CASE EndOfOutput
  BY <1>0, <1>3, Zenon DEF EndOfOutput, Writers, Grouped, Alive
<1>4. CASE Expire
  <2>1. Grouped' = {}
    BY <1>0, <1>4 DEF Expire, Ended, Grouped, Alive, ExecuteTypeOK
  <2> QED
    BY <1>0, <1>4, <2>1, Zenon DEF Expire
<1>5. CASE Reap
  <2>1. Writers' = Writers /\ Grouped' = Grouped
    BY <1>5, Zenon DEF Reap, Writers, Grouped, Alive
  <2> QED
    BY <1>0, <1>5, <2>1 DEF Reap, NoResult, TimedOut, ExecuteTypeOK
<1>6. CASE Disconnect
  BY <1>0, <1>6, Zenon DEF Disconnect
<1>7. ASSUME NEW p \in Proc, Write(p) PROVE ExecuteIInv'
  BY <1>0, <1>7, Zenon DEF Write, Writers, Grouped, Alive
<1>8. ASSUME NEW p \in Proc, ClosePipes(p) \/ Exit(p) \/ \E q \in Proc : Fork(p, q)
      PROVE  ExecuteIInv'
  <2>1. UNCHANGED <<handler, written, heard, result>>
    BY <1>8, Zenon DEF ClosePipes, Exit, Fork
  <2> QED
    BY <1>0, <1>8, <2>1, NobodyJoins, Zenon DEF Cap
<1>9. CASE UNCHANGED executeVars
  BY <1>0, <1>9, Zenon DEF executeVars, Writers, Grouped, Alive
<1> QED
  BY <1>1, <1>2, <1>3, <1>4, <1>5, <1>6, <1>7, <1>8, <1>9, Zenon DEF ExecuteNext

(* The tree kill of run_command (execute.rs:132-184), for any number of    *)
(* processes: once a command is reported as timed out nothing of its group *)
(* runs, and an answer that is not a timeout holds all that was written,   *)
(* up to the cap.                                                          *)
THEOREM ExecuteTheorem == ExecuteSpec => []NothingLeftBehind
<1>1. ExecuteIInv => NothingLeftBehind
  BY Zenon DEF ExecuteIInv
<1> QED
  BY <1>1, ExecuteInitial, ExecuteStep, PTL DEF ExecuteSpec

-----------------------------------------------------------------------------
(* GET /ports *)

(* Where the scan is, and what it has read.                                *)
ScanRecord == [pc : {"idle", "stat", "rows", "fds", "filter", "done"}, at : Pid, ppid : [Pid -> 0..(MaxPid + 1)],
               rows : SUBSET Socket, owner : [Socket -> {0} \cup Pid], visible : SUBSET Nat]

PortsTypeOK ==
    /\ parent \in [Pid -> 0..(MaxPid + 1)]
    /\ born \in Pid
    /\ holders \in [Socket -> SUBSET Pid]
    /\ scan \in ScanRecord
    /\ quiet \in BOOLEAN
    /\ steady \in SUBSET Socket

(* The processes are a tree in which a child has a greater pid than its    *)
(* parent, with the runtime at its root.                                   *)
Tree ==
    /\ parent[Root] # 0
    /\ \A p \in Living : p <= born
    /\ \A p \in Living \ {Root} : parent[p] \in Living /\ parent[p] < p

(* Who holds a socket lives.  The runtime holds its own and no other, and  *)
(* nobody else holds that one.                                             *)
Held ==
    \A s \in Socket : /\ holders[s] \subseteq Living
                      /\ s.port = OwnPort => holders[s] \subseteq {Root}
                      /\ s.port # OwnPort => Root \notin holders[s]

(* While it is quiet, whoever listens on a port of a steady socket is      *)
(* steady.                                                                 *)
NoNewcomer == quiet => \A s \in steady, t \in Listening : t.port = s.port => t \in steady

(* While it is quiet there is a last pid b of those that were there when   *)
(* the scan began: the steady sockets have a holder among these, and what  *)
(* the scan read of their parents is still so.                             *)
StatRead(p) == scan.pc # "stat" \/ p < scan.at
Original(b) ==
    /\ b <= born
    /\ \A s \in steady : \E p \in holders[s] : p <= b
    /\ \A p \in Pid : p <= b /\ StatRead(p) => scan.ppid[p] = parent[p]
Since == scan.pc \in {"stat", "rows", "fds", "filter"} /\ quiet => \E b \in Pid : Original(b)

(* Once the rows are read, every steady socket's port has the row of a     *)
(* steady socket.                                                          *)
RowsRead ==
    scan.pc \in {"fds", "filter"} /\ quiet =>
        \A s \in steady : \E t \in steady \cap scan.rows : t.port = s.port

(* What socket_pids found so far: the owner of a steady socket is the      *)
(* first of its holders, and the runtime's socket has no owner but the     *)
(* runtime.                                                                *)
OwnersRead ==
    /\ \A s \in Socket : s.port = OwnPort => scan.owner[s] \in {0, Root}
    /\ scan.pc \in {"stat", "rows"} => \A s \in Socket : scan.owner[s] = 0
    /\ scan.pc \in {"idle", "stat", "rows", "fds"} => scan.visible = {}
    /\ scan.pc = "rows" => scan.at = 1
    /\ scan.pc \in {"fds", "filter"} /\ quiet =>
        \A s \in steady \cap scan.rows :
            /\ scan.owner[s] # 0 => scan.owner[s] \in holders[s] /\ \A q \in holders[s] : scan.owner[s] <= q
            /\ scan.owner[s] = 0 => scan.pc = "fds" /\ \A q \in holders[s] : scan.at <= q

PortsIInv == PortsTypeOK /\ Tree /\ Held /\ NoNewcomer /\ Since /\ RowsRead /\ OwnersRead /\ QuietScanComplete


(* Of a set of numbers that is not empty, one is the least.                *)
LEMMA LeastNumber ==
    ASSUME NEW S, S \subseteq Nat, S # {}
    PROVE  \E k \in S : \A y \in S : k <= y
<1> DEFINE R == {ss \in Nat \X Nat : ss[1] < ss[2]}
<1>1. IsWellFoundedOn(R, Nat)
  BY NatLessThanWellFounded, Zenon DEF OpToRel
<1>2. PICK k \in S : \A y \in S : ~ (<<y, k>> \in R)
  <2> HIDE DEF R
  <2> QED
    BY <1>1, WFMin, Zenon
<1>3. ASSUME NEW y \in S PROVE k <= y
  <2>1. k \in Nat /\ y \in Nat /\ ~ (<<y, k>> \in R)
    BY <1>2, Zenon
  <2> QED
    BY <2>1
<1> QED
  BY <1>3, Zenon

(* descendant_pids finds every process that was there when the scan began  *)
(* if the parents it read are still theirs: its parent has a lower pid, so *)
(* a first process that the search misses has a parent that it found.      *)
LEMMA DescendantsFound ==
    ASSUME PortsIInv, NEW b \in Pid,
           \A p \in Pid : p <= b => scan.ppid[p] = parent[p],
           NEW p \in Living \ {Root}, p <= b
    PROVE  p \in Descendants
<1> SUFFICES ASSUME NEW S \in SUBSET Pid, Complete(S), p \notin S
             PROVE  FALSE
  BY Zenon DEF Descendants, Living
<1> DEFINE Missed == {q \in Living : q <= b /\ q \notin S}
<1>1. Missed \subseteq Nat /\ Missed # {}
  BY DEF Living, Pid
<1>2. PICK k \in Missed : \A q \in Missed : k <= q
  <2> HIDE DEF Missed
  <2> QED
    BY <1>1, LeastNumber, Zenon
<1>3. k \in Living \ {Root} /\ k \notin S /\ k <= b
  BY <1>2, Zenon DEF Complete
<1>4. parent[k] \in Living /\ parent[k] < k
  BY <1>3, Zenon DEF PortsIInv, Tree
<1>5. parent[k] \in S
  <2>1. k \in Nat /\ parent[k] \in Nat /\ b \in Nat
    BY <1>3, <1>4, PortsAssumption DEF Living, Pid
  <2> QED
    BY <2>1, <1>2, <1>3, <1>4
<1>6. scan.ppid[k] = parent[k] /\ k \in Pid
  BY <1>3, Zenon DEF Living
<1> QED
  BY <1>3, <1>5, <1>6, Zenon DEF Complete

(* At the start the runtime is alone and listens on its own port.          *)
LEMMA PortsInitHolds == PortsInit => PortsIInv
<1> SUFFICES ASSUME PortsInit PROVE PortsIInv
  BY Zenon 
<1> USE PortsAssumption DEF PortsInit, NoScan, Root
<1>1. PortsTypeOK
  BY DEF PortsTypeOK, ScanRecord, Pid
<1>2. Living = {Root}
  BY DEF Living, Pid
<1>3. Tree
  BY <1>2 DEF Tree, Pid
<1>4. Held
  BY <1>2, Zenon DEF Held
<1>5. NoNewcomer /\ Since /\ RowsRead /\ OwnersRead /\ QuietScanComplete
  BY Zenon DEF NoNewcomer, Since, RowsRead, OwnersRead, QuietScanComplete
<1> QED
  BY <1>1, <1>3, <1>4, <1>5, Zenon DEF PortsIInv


(* A new process has a greater pid than all others, and holds what its     *)
(* parent holds, unless that is the runtime: the first holder of a socket  *)
(* stays the first, and what the scan read before stays so.                *)
LEMMA ForkKeeps == ASSUME PortsIInv, NEW p \in Pid, ForkChild(p) PROVE PortsIInv'
<1> DEFINE c == born + 1
<1>1. /\ p \in Living /\ c \in Pid /\ c \in Nat /\ born \in Nat /\ p \in Nat /\ born' = c /\ p <= born
      /\ parent' = [parent EXCEPT ![c] = p] /\ UNCHANGED <<scan, quiet, steady>>
      /\ holders' = [s \in Socket |-> IF p \in holders[s] \ {Root} THEN holders[s] \cup {c} ELSE holders[s]]
  BY PortsAssumption DEF ForkChild, PortsIInv, PortsTypeOK, Tree, Pid
<1>2. PortsTypeOK'
  BY <1>1, PortsAssumption, SMTT(60) DEF PortsIInv, PortsTypeOK, Pid
<1>3. c \notin Living /\ Living' = Living \cup {c} /\ p # 0 /\ c # Root /\ \A q \in Living : q \in Nat /\ q < c
  BY <1>1, PortsAssumption, SMTT(60) DEF PortsIInv, PortsTypeOK, Tree, Living, Pid, Root
<1>4. \A q \in Living : parent'[q] = parent[q]
  BY <1>1, <1>3, Zenon DEF PortsIInv, PortsTypeOK, Living
<1>5. parent'[c] = p /\ Root \in Living
  BY <1>1, PortsAssumption DEF PortsIInv, PortsTypeOK, Tree, Living, Root, Pid
<1>6. Tree'
  <2>1. \A q \in Living' : q <= born'
    BY <1>1, <1>3, SMTT(60)
  <2>2. \A q \in Living' \ {Root} : parent'[q] \in Living' /\ parent'[q] < q
    BY <1>1, <1>3, <1>4, <1>5, SMTT(60) DEF PortsIInv, Tree
  <2> QED
    BY <2>1, <2>2, <1>4, <1>5, Zenon DEF PortsIInv, Tree
<1>7. ASSUME NEW s \in Socket
      PROVE  /\ holders[s] \subseteq Living
             /\ holders[s] \subseteq holders'[s] /\ holders'[s] \subseteq holders[s] \cup {c}
             /\ holders[s] = {} => holders'[s] = {}
             /\ holders[s] \subseteq {Root} => holders'[s] = holders[s]
  BY <1>1, Zenon DEF PortsIInv, Held
<1>8. Held'
  BY <1>3, <1>7, Zenon DEF PortsIInv, Held
<1>9. NoNewcomer'
  <2>1. Listening' = Listening
    BY <1>7, Zenon DEF Listening
  <2> QED
    BY <1>1, <2>1, Zenon DEF PortsIInv, NoNewcomer
<1>10. Since'
  <2> SUFFICES ASSUME scan.pc \in {"stat", "rows", "fds", "filter"}, quiet
               PROVE  \E b \in Pid : Original(b)'
    BY <1>1, Zenon DEF Since
  <2>1. PICK b \in Pid : Original(b)
    BY Zenon DEF PortsIInv, Since
  <2>2. \A q \in Pid : q <= b => parent'[q] = parent[q]
    BY <1>1, <2>1, PortsAssumption, SMTT(60) DEF PortsIInv, PortsTypeOK, Original, Pid
  <2>3. \A s \in steady : \E q \in holders'[s] : q <= b
    BY <1>7, <2>1, Zenon DEF PortsIInv, PortsTypeOK, Original
  <2>4. b <= born'
    BY <1>1, <2>1, PortsAssumption, SMT DEF PortsIInv, PortsTypeOK, Original, Pid
  <2>5. Original(b)'
    BY <1>1, <2>1, <2>2, <2>3, <2>4, Zenon DEF Original, StatRead
  <2> QED
    BY <2>5, Zenon
<1>11. RowsRead'
  BY <1>1, Zenon DEF PortsIInv, RowsRead
<1>12. OwnersRead'
  <2>1. ASSUME NEW s \in steady \cap scan.rows, scan.pc \in {"fds", "filter"}, quiet
        PROVE  /\ scan.owner[s] # 0 => scan.owner[s] \in holders'[s] /\ \A q \in holders'[s] : scan.owner[s] <= q
               /\ scan.owner[s] = 0 => scan.pc = "fds" /\ \A q \in holders'[s] : scan.at <= q
    <3>1. /\ scan.owner[s] # 0 => scan.owner[s] \in holders[s] /\ \A q \in holders[s] : scan.owner[s] <= q
          /\ scan.owner[s] = 0 => scan.pc = "fds" /\ \A q \in holders[s] : scan.at <= q
          /\ s \in Socket
      BY <2>1, Zenon DEF PortsIInv, PortsTypeOK, OwnersRead
    <3>2. scan.at \in Nat
      BY PortsAssumption, SMTT(60) DEF PortsIInv, PortsTypeOK, ScanRecord, Pid
    <3>3. c \in holders'[s] => p \in holders[s]
      BY <1>1, <1>3, <1>7, <3>1, Zenon
    <3>4. CASE scan.owner[s] # 0
      <4>1. scan.owner[s] \in holders[s] /\ \A q \in holders[s] : scan.owner[s] <= q
        BY <3>1, <3>4, Zenon
      <4>2. scan.owner[s] \in Nat /\ scan.owner[s] < c
        BY <4>1, <3>1, <1>3, <1>7, Zenon
      <4>3. \A q \in holders'[s] : scan.owner[s] <= q
        BY <4>1, <4>2, <3>1, <1>1, <1>7, SMTT(60)
      <4> QED
        BY <4>1, <4>3, <3>1, <3>4, <1>7, Zenon
    <3>5. CASE scan.owner[s] = 0
      BY <1>1, <1>7, <3>1, <3>2, <3>3, <3>5, SMTT(60)
    <3> QED
      BY <3>4, <3>5, Zenon
  <2> QED
    BY <1>1, <2>1, Zenon DEF PortsIInv, OwnersRead
<1>13. QuietScanComplete'
  BY <1>1, Zenon DEF PortsIInv, QuietScanComplete
<1> QED
  BY <1>2, <1>6, <1>8, <1>9, <1>10, <1>11, <1>12, <1>13, Zenon DEF PortsIInv

(* A new listener: nobody held its socket, so it is not a steady one.      *)
LEMMA ListenKeeps == ASSUME PortsIInv, NEW p \in Pid, NEW s \in Socket, Listen(p, s) PROVE PortsIInv'
<1>1. /\ p \in Living \ {Root} /\ s.port # OwnPort /\ holders[s] = {} /\ holders' = [holders EXCEPT ![s] = {p}]
      /\ quiet' = (quiet /\ \A t \in steady : t.port # s.port) /\ UNCHANGED <<parent, born, scan, steady>>
  BY Zenon DEF Listen
<1>2. PortsTypeOK'
  BY <1>1, Zenon DEF PortsIInv, PortsTypeOK
<1>3. Living' = Living
  BY <1>1, Zenon DEF Living
<1>4. Tree'
  BY <1>1, <1>3, Zenon DEF PortsIInv, Tree
<1>5. Held'
  BY <1>1, <1>3, Zenon DEF PortsIInv, PortsTypeOK, Held
<1>6. Listening' = Listening \cup {s} /\ \A t \in Socket : t # s => holders'[t] = holders[t]
  BY <1>1, Zenon DEF PortsIInv, PortsTypeOK, Listening
<1>7. NoNewcomer'
  BY <1>1, <1>6, Zenon DEF PortsIInv, NoNewcomer
<1>8. quiet' => quiet /\ s \notin steady
  BY <1>1, Zenon
<1>9. quiet' => \A t \in steady : holders'[t] = holders[t]
  BY <1>6, <1>8, Zenon DEF PortsIInv, PortsTypeOK
<1>10. Since'
  <2> SUFFICES ASSUME scan.pc \in {"stat", "rows", "fds", "filter"}, quiet'
               PROVE  \E b \in Pid : Original(b)'
    BY <1>1, Zenon DEF Since
  <2>1. PICK b \in Pid : Original(b)
    BY <1>8, Zenon DEF PortsIInv, Since
  <2>2. Original(b)'
    BY <1>1, <1>9, <2>1, Zenon DEF Original, StatRead
  <2> QED
    BY <2>2, Zenon
<1>11. RowsRead'
  BY <1>1, <1>8, Zenon DEF PortsIInv, RowsRead
<1>12. OwnersRead'
  BY <1>1, <1>8, <1>9, Zenon DEF PortsIInv, OwnersRead
<1>13. QuietScanComplete'
  BY <1>1, <1>8, Zenon DEF PortsIInv, QuietScanComplete
<1> QED
  BY <1>2, <1>4, <1>5, <1>7, <1>10, <1>11, <1>12, <1>13, Zenon DEF PortsIInv


(* Something closed: it is not quiet any more, and nothing is claimed but  *)
(* that the runtime's port stays hidden.                                   *)
LEMMA GoneKeeps ==
    ASSUME PortsIInv, NEW p \in Pid \ {Root}, NEW sockets \in SUBSET Socket, Gone(p, sockets),
           parent' \in [Pid -> 0..(MaxPid + 1)], Tree', Held'
    PROVE  PortsIInv'
<1>1. /\ holders' = [s \in Socket |-> IF s \in sockets THEN holders[s] \ {p} ELSE holders[s]]
      /\ quiet' = FALSE /\ steady' \subseteq steady /\ UNCHANGED <<born, scan>>
  BY Zenon DEF Gone
<1>2. PortsTypeOK'
  BY <1>1, Zenon DEF PortsIInv, PortsTypeOK
<1>3. NoNewcomer' /\ Since' /\ RowsRead'
  BY <1>1, Zenon DEF NoNewcomer, Since, RowsRead
<1>4. OwnersRead'
  BY <1>1, Zenon DEF PortsIInv, OwnersRead
<1>5. QuietScanComplete'
  BY <1>1, Zenon DEF PortsIInv, QuietScanComplete
<1> QED
  BY <1>2, <1>3, <1>4, <1>5, Zenon DEF PortsIInv

(* A process closes a socket.                                              *)
LEMMA CloseKeeps == ASSUME PortsIInv, NEW p \in Pid, NEW s \in Socket, CloseSocket(p, s) PROVE PortsIInv'
<1>1. /\ p \in Pid \ {Root} /\ Gone(p, {s}) /\ parent' = parent /\ born' = born
      /\ holders' = [t \in Socket |-> IF t \in {s} THEN holders[t] \ {p} ELSE holders[t]]
  BY Zenon DEF CloseSocket, Gone
<1>2. parent' \in [Pid -> 0..(MaxPid + 1)]
  BY <1>1, Zenon DEF PortsIInv, PortsTypeOK
<1>3. Living' = Living
  BY <1>1, Zenon DEF Living
<1>4. Tree'
  BY <1>1, <1>3, Zenon DEF PortsIInv, Tree
<1>5. Held'
  BY <1>1, <1>3, Zenon DEF PortsIInv, Held
<1> QED
  BY <1>1, <1>2, <1>4, <1>5, GoneKeeps, Zenon

(* A process exits: its children go to the runtime, whose pid is below     *)
(* theirs.                                                                 *)
LEMMA ExitKeeps == ASSUME PortsIInv, NEW p \in Pid, ExitProcess(p) PROVE PortsIInv'
<1>1. /\ p \in Pid \ {Root} /\ p \in Living /\ Gone(p, Socket) /\ born' = born
      /\ parent' = [q \in Pid |-> IF q = p THEN 0 ELSE IF parent[q] = p THEN Root ELSE parent[q]]
      /\ holders' = [t \in Socket |-> IF t \in Socket THEN holders[t] \ {p} ELSE holders[t]]
  BY Zenon DEF ExitProcess, Gone
<1>2. parent' \in [Pid -> 0..(MaxPid + 1)]
  BY <1>1, PortsAssumption DEF PortsIInv, PortsTypeOK, Root
<1>3. Living' = Living \ {p} /\ Root \in Living
  BY <1>1, PortsAssumption DEF PortsIInv, Tree, Living, Root, Pid
<1>4. Tree'
  <2>1. ASSUME NEW q \in Living' \ {Root} PROVE parent'[q] \in Living' /\ parent'[q] < q
    <3>1. q \in Living \ {Root} /\ q # p /\ q \in Pid
      BY <1>3, Zenon DEF Living
    <3>2. parent[q] \in Living /\ parent[q] < q
      BY <3>1, Zenon DEF PortsIInv, Tree
    <3>3. CASE parent[q] = p
      <4>1. parent'[q] = Root
        BY <1>1, <3>1, <3>3, Zenon
      <4>2. Root < q
        BY <3>1, PortsAssumption DEF Root, Pid
      <4> QED
        BY <1>1, <1>3, <4>1, <4>2
    <3>4. CASE parent[q] # p
      BY <1>1, <1>3, <3>1, <3>2, <3>4, Zenon
    <3> QED
      BY <3>3, <3>4, Zenon
  <2>2. \A q \in Living' : q <= born'
    BY <1>1, <1>3, Zenon DEF PortsIInv, Tree
  <2>3. parent'[Root] # 0
    BY <1>3, <1>1, Zenon DEF Living
  <2> QED
    BY <2>1, <2>2, <2>3, Zenon DEF Tree
<1>5. Held'
  BY <1>1, <1>3, Zenon DEF PortsIInv, Held
<1> QED
  BY <1>1, <1>2, <1>4, <1>5, GoneKeeps, Zenon

(* What the steps of the scan leave alone.                                 *)
LEMMA ScanStands ==
    ASSUME PortsIInv, UNCHANGED <<parent, born, holders>>
    PROVE  Tree' /\ Held' /\ Living' = Living /\ Listening' = Listening
<1>1. Living' = Living /\ Listening' = Listening
  BY Zenon DEF Living, Listening
<1> QED
  BY <1>1, Zenon DEF PortsIInv, Tree, Held

(* A scan begins: every process there is now is an original one.           *)
LEMMA ScanBegins == ASSUME PortsIInv, ScanVisiblePorts PROVE PortsIInv'
<1>1. /\ UNCHANGED <<parent, born, holders>> /\ quiet' = TRUE /\ steady' = Listening
      /\ scan' = [NoScan EXCEPT !.pc = "stat"]
  BY Zenon DEF ScanVisiblePorts
<1>2. /\ scan'.pc = "stat" /\ scan'.at = 1 /\ scan'.owner = [s \in Socket |-> 0] /\ scan'.visible = {}
      /\ scan' \in ScanRecord
  <2>1. /\ NoScan \in ScanRecord /\ NoScan.at = 1 /\ NoScan.owner = [s \in Socket |-> 0] /\ NoScan.visible = {}
    BY PortsAssumption DEF NoScan, ScanRecord, Pid
  <2> QED
    BY <1>1, <2>1, Zenon DEF ScanRecord
<1>3. PortsTypeOK'
  BY <1>1, <1>2, Zenon DEF PortsIInv, PortsTypeOK, Listening
<1>4. Tree' /\ Held' /\ Listening' = Listening
  BY <1>1, ScanStands, Zenon
<1>5. NoNewcomer' /\ RowsRead' /\ QuietScanComplete'
  BY <1>1, <1>2, <1>4, Zenon DEF NoNewcomer, RowsRead, QuietScanComplete
<1>6. Since'
  <2>1. \A s \in Listening : \E q \in holders[s] : q <= born
    BY Zenon DEF PortsIInv, Listening, Held, Tree
  <2>2. \A q \in Pid : ~ (q < 1)
    BY PortsAssumption DEF Pid
  <2>3. Original(born)'
    BY <1>1, <1>2, <2>1, <2>2, PortsAssumption, SMTT(60) DEF PortsIInv, PortsTypeOK, Original, StatRead, Pid
  <2> QED
    BY <1>1, <2>3, Zenon DEF PortsIInv, PortsTypeOK, Since
<1>7. OwnersRead'
  BY <1>2, Zenon DEF OwnersRead
<1> QED
  BY <1>3, <1>4, <1>5, <1>6, <1>7, Zenon DEF PortsIInv


(* The scan goes to the next pid or, after the last, to its next part.     *)
LEMMA Advanced ==
    ASSUME PortsIInv, NEW now \in ScanRecord, now.at = scan.at, NEW then \in {"rows", "filter"}
    PROVE  LET new == Advance(now, then)
           IN  /\ new \in ScanRecord /\ new.ppid = now.ppid /\ new.rows = now.rows
               /\ new.owner = now.owner /\ new.visible = now.visible
               /\ \/ scan.at < MaxPid /\ new.at = scan.at + 1 /\ new.pc = now.pc
                  \/ scan.at = MaxPid /\ new.at = 1 /\ new.pc = then
<1> DEFINE new == Advance(now, then)
<1>1. scan.at \in 1..MaxPid /\ MaxPid \in Nat \ {0}
  BY PortsAssumption, Zenon DEF PortsIInv, PortsTypeOK, ScanRecord, Pid
<1>2. CASE scan.at < MaxPid
  <2>1. new = [now EXCEPT !.at = @ + 1]
    BY <1>2, Zenon DEF Advance
  <2>2. now.at + 1 \in Pid
    BY <1>1, <1>2 DEF Pid
  <2>3. new \in ScanRecord /\ new.at = now.at + 1 /\ new.pc = now.pc /\ new.ppid = now.ppid /\ new.rows = now.rows
        /\ new.owner = now.owner /\ new.visible = now.visible
    BY <2>1, <2>2, Zenon DEF ScanRecord
  <2> QED
    BY <1>2, <2>3, Zenon
<1>3. CASE ~ (scan.at < MaxPid)
  <2>1. new = [now EXCEPT !.at = 1, !.pc = then]
    BY <1>3, Zenon DEF Advance
  <2>2. 1 \in Pid /\ scan.at = MaxPid
    BY <1>1, <1>3 DEF Pid
  <2>3. new \in ScanRecord /\ new.at = 1 /\ new.pc = then /\ new.ppid = now.ppid /\ new.rows = now.rows
        /\ new.owner = now.owner /\ new.visible = now.visible
    BY <2>1, <2>2, Zenon DEF ScanRecord
  <2> QED
    BY <2>2, <2>3, Zenon
<1> QED
  BY <1>2, <1>3, Zenon

(* The parent of one more process is read.                                 *)
LEMMA StatKeeps == ASSUME PortsIInv, StatPpid PROVE PortsIInv'
<1> DEFINE now == [scan EXCEPT !.ppid[scan.at] = parent[scan.at]]
<1>0. /\ scan \in ScanRecord /\ scan.pc = "stat" /\ UNCHANGED <<parent, born, holders, quiet, steady>>
      /\ scan' = Advance(now, "rows")
  BY Zenon DEF StatPpid, PortsIInv, PortsTypeOK
<1>1. /\ now \in ScanRecord /\ now.at = scan.at /\ now.pc = "stat" /\ now.owner = scan.owner
      /\ now.visible = scan.visible /\ now.ppid = [scan.ppid EXCEPT ![scan.at] = parent[scan.at]]
  BY <1>0, Zenon DEF ScanRecord, PortsIInv, PortsTypeOK
<1> HIDE DEF now
<1>2. /\ scan' \in ScanRecord /\ scan'.owner = scan.owner /\ scan'.visible = scan.visible
      /\ scan'.ppid = [scan.ppid EXCEPT ![scan.at] = parent[scan.at]]
      /\ \/ scan.at < MaxPid /\ scan'.at = scan.at + 1 /\ scan'.pc = "stat"
         \/ scan.at = MaxPid /\ scan'.at = 1 /\ scan'.pc = "rows"
  BY <1>0, <1>1, Advanced, Zenon
<1>3. PortsTypeOK'
  BY <1>0, <1>2, Zenon DEF PortsIInv, PortsTypeOK
<1>4. Tree' /\ Held' /\ Listening' = Listening
  BY <1>0, ScanStands, Zenon
<1>5. NoNewcomer' /\ RowsRead' /\ QuietScanComplete'
  BY <1>0, <1>2, <1>4, Zenon DEF PortsIInv, NoNewcomer, RowsRead, QuietScanComplete
<1>6. Since'
  <2> SUFFICES ASSUME quiet PROVE \E b \in Pid : Original(b)'
    BY <1>0, Zenon DEF Since
  <2>1. PICK b \in Pid : Original(b)
    BY <1>0, Zenon DEF PortsIInv, Since
  <2>2. ASSUME NEW p \in Pid, p <= b, scan'.pc # "stat" \/ p < scan'.at PROVE scan'.ppid[p] = parent[p]
    <3>1. scan.ppid \in [Pid -> 0..(MaxPid + 1)] /\ p \in Nat /\ scan.at \in Nat /\ p <= MaxPid
      BY <1>0, PortsAssumption DEF ScanRecord, Pid
    <3>2. p = scan.at \/ p < scan.at
      BY <1>2, <2>2, <3>1, PortsAssumption
    <3>3. p # scan.at => scan.ppid[p] = parent[p]
      BY <2>1, <2>2, <3>2, Zenon DEF Original, StatRead
    <3> QED
      BY <1>2, <3>1, <3>3, Zenon
  <2>3. Original(b)'
    BY <1>0, <2>1, <2>2, Zenon DEF Original, StatRead
  <2> QED
    BY <2>3, Zenon
<1>7. OwnersRead'
  BY <1>0, <1>2, Zenon DEF PortsIInv, OwnersRead
<1> QED
  BY <1>3, <1>4, <1>5, <1>6, <1>7, Zenon DEF PortsIInv

(* The rows are read: one for each port that has a listener, and if that   *)
(* is not the row of a steady socket it is the one of its IPv4 twin, which *)
(* is as old.                                                              *)
LEMMA RowsKeep == ASSUME PortsIInv, ListeningRows PROVE PortsIInv'
<1> DEFINE rows == {s \in Listening : s.six => ~ \E t \in Listening : t.port = s.port /\ ~t.six}
<1>0. /\ scan \in ScanRecord /\ scan.pc = "rows" /\ UNCHANGED <<parent, born, holders, quiet, steady>>
      /\ scan' = [scan EXCEPT !.pc = "fds", !.rows = rows]
  BY Zenon DEF ListeningRows, PortsIInv, PortsTypeOK
<1>1. rows \in SUBSET Socket
  BY Zenon DEF Listening
<1>2. /\ scan' \in ScanRecord /\ scan'.owner = scan.owner /\ scan'.visible = scan.visible
      /\ scan'.ppid = scan.ppid /\ scan'.at = scan.at /\ scan'.pc = "fds" /\ scan'.rows = rows
  <2> HIDE DEF rows
  <2> QED
    BY <1>0, <1>1, Zenon DEF ScanRecord
<1>3. PortsTypeOK'
  BY <1>0, <1>2, Zenon DEF PortsIInv, PortsTypeOK
<1>4. Tree' /\ Held' /\ Listening' = Listening
  BY <1>0, ScanStands, Zenon
<1>5. NoNewcomer' /\ QuietScanComplete'
  BY <1>0, <1>2, <1>4, Zenon DEF PortsIInv, NoNewcomer, QuietScanComplete
<1>6. quiet => \E b \in Pid : Original(b) /\ Original(b)'
  <2> SUFFICES ASSUME quiet PROVE \E b \in Pid : Original(b) /\ Original(b)'
    OBVIOUS
  <2>1. PICK b \in Pid : Original(b)
    BY <1>0, Zenon DEF PortsIInv, Since
  <2>2. Original(b)'
    BY <1>0, <1>2, <2>1, Zenon DEF Original, StatRead
  <2> QED
    BY <2>1, <2>2, Zenon
<1>7. quiet => steady \subseteq Listening
  BY <1>6, Zenon DEF PortsIInv, PortsTypeOK, Original, Listening
<1>8. RowsRead'
  <2> SUFFICES ASSUME quiet, NEW s \in steady PROVE \E t \in steady \cap rows : t.port = s.port
    BY <1>0, <1>2 DEF RowsRead
  <2>1. CASE s \in rows
    BY <2>1, Zenon
  <2>2. CASE s \notin rows
    <3>1. PICK t \in Listening : t.port = s.port /\ ~t.six
      BY <1>7, <2>2, Zenon
    <3> QED
      BY <3>1, Zenon DEF PortsIInv, NoNewcomer
  <2> QED
    BY <2>1, <2>2, Zenon
<1>9. OwnersRead'
  <2>1. \A s \in Socket : scan.owner[s] = 0 /\ scan.at = 1 /\ \A q \in holders[s] : 1 <= q
    BY <1>0, PortsAssumption DEF PortsIInv, PortsTypeOK, OwnersRead, Pid
  <2> QED
    BY <1>0, <1>1, <1>2, <2>1 DEF PortsIInv, OwnersRead
<1> QED
  BY <1>0, <1>2, <1>3, <1>4, <1>5, <1>6, <1>8, <1>9, Zenon DEF PortsIInv, Since


(* The sockets of one more process are read: the first that holds a        *)
(* socket becomes its owner.                                               *)
LEMMA OwnersKeep == ASSUME PortsIInv, SocketPids PROVE PortsIInv'
<1> DEFINE owner == [s \in Socket |-> IF s \in scan.rows THEN Owned(s, scan.at) ELSE 0]
           now == [scan EXCEPT !.owner = owner]
<1>0. /\ scan \in ScanRecord /\ scan.pc = "fds" /\ UNCHANGED <<parent, born, holders, quiet, steady>>
      /\ scan' = Advance(now, "filter")
  BY Zenon DEF SocketPids, PortsIInv, PortsTypeOK
<1>1. owner \in [Socket -> {0} \cup Pid] /\ scan.at \in Pid
  BY <1>0, Zenon DEF Owned, ScanRecord
<1>2. /\ now \in ScanRecord /\ now.at = scan.at /\ now.pc = "fds" /\ now.owner = owner
      /\ now.visible = scan.visible /\ now.ppid = scan.ppid /\ now.rows = scan.rows
  <2> HIDE DEF owner
  <2> QED
    BY <1>0, <1>1, Zenon DEF ScanRecord
<1>3. /\ scan' \in ScanRecord /\ scan'.owner = owner /\ scan'.visible = scan.visible
      /\ scan'.ppid = scan.ppid /\ scan'.rows = scan.rows
      /\ \/ scan.at < MaxPid /\ scan'.at = scan.at + 1 /\ scan'.pc = "fds"
         \/ scan.at = MaxPid /\ scan'.at = 1 /\ scan'.pc = "filter"
  <2> HIDE DEF owner, now
  <2> QED
    BY <1>0, <1>2, Advanced, Zenon
<1>4. PortsTypeOK'
  BY <1>0, <1>3, Zenon DEF PortsIInv, PortsTypeOK
<1>5. Tree' /\ Held' /\ Listening' = Listening
  BY <1>0, ScanStands, Zenon
<1>6. NoNewcomer' /\ RowsRead' /\ QuietScanComplete'
  BY <1>0, <1>3, <1>5, ZenonT(60) DEF PortsIInv, NoNewcomer, RowsRead, QuietScanComplete
<1>7. Since'
  <2> SUFFICES ASSUME quiet PROVE \E b \in Pid : Original(b)'
    BY <1>0, Zenon DEF Since
  <2>1. PICK b \in Pid : Original(b)
    BY <1>0, Zenon DEF PortsIInv, Since
  <2>2. Original(b)'
    BY <1>0, <1>3, <2>1, Zenon DEF Original, StatRead
  <2> QED
    BY <2>2, Zenon
<1>8. OwnersRead'
  <2>1. \A s \in Socket : s.port = OwnPort => owner[s] \in {0, Root}
    BY Zenon DEF PortsIInv, OwnersRead, Held, Owned
  <2>2. ASSUME NEW s \in steady \cap scan.rows, quiet
        PROVE  /\ owner[s] # 0 => owner[s] \in holders[s] /\ \A q \in holders[s] : owner[s] <= q
               /\ owner[s] = 0 => scan'.pc = "fds" /\ \A q \in holders[s] : scan'.at <= q
    <3>1. /\ s \in Socket /\ owner[s] = Owned(s, scan.at)
          /\ scan.owner[s] # 0 => scan.owner[s] \in holders[s] /\ \A q \in holders[s] : scan.owner[s] <= q
          /\ scan.owner[s] = 0 => \A q \in holders[s] : scan.at <= q
      BY <1>0, <2>2, Zenon DEF PortsIInv, PortsTypeOK, OwnersRead
    <3>2. CASE owner[s] # 0
      BY <3>1, <3>2, Zenon DEF Owned
    <3>3. CASE owner[s] = 0
      <4>1. scan.owner[s] = 0 /\ scan.at \notin holders[s] /\ scan.at \in Nat /\ MaxPid \in Nat
        BY <1>1, <3>1, <3>3, PortsAssumption, SMTT(60) DEF Owned, Pid
      <4>2. \A q \in holders[s] : q \in Nat /\ q <= MaxPid /\ scan.at < q
        <5>1. \A q \in holders[s] : q \in Nat /\ q <= MaxPid
          BY <3>1, PortsAssumption DEF PortsIInv, PortsTypeOK, Pid
        <5> QED
          BY <5>1, <3>1, <4>1, SMTT(60)
      <4>3. holders[s] # {}
        BY <1>0, <2>2, Zenon DEF PortsIInv, Since, Original
      <4> QED
        BY <1>3, <3>3, <4>1, <4>2, <4>3, SMTT(60)
    <3> QED
      BY <3>2, <3>3, Zenon
  <2> HIDE DEF owner
  <2>3. scan.visible = {}
    BY <1>0, Zenon DEF PortsIInv, OwnersRead
  <2> QED
    BY <1>0, <1>3, <2>1, <2>2, <2>3, SMTT(60) DEF OwnersRead
<1> QED
  BY <1>4, <1>5, <1>6, <1>7, <1>8, Zenon DEF PortsIInv

(* The rows whose owner is a descendant of the runtime are what is shown.  *)
LEMMA FilterKeeps == ASSUME PortsIInv, VisiblePorts PROVE PortsIInv'
<1> DEFINE shown == {s.port : s \in {s \in scan.rows : scan.owner[s] \in Descendants}}
<1>0. /\ scan \in ScanRecord /\ scan.pc = "filter" /\ UNCHANGED <<parent, born, holders, quiet, steady>>
      /\ scan' = [scan EXCEPT !.pc = "done", !.visible = shown]
  BY Zenon DEF VisiblePorts, PortsIInv, PortsTypeOK
<1>1. shown \in SUBSET Nat
  <2>1. \A s \in scan.rows : s.port \in Nat
    BY <1>0, PortsAssumption, Zenon DEF ScanRecord
  <2> QED
    BY <2>1, Zenon
<1>2. scan' \in ScanRecord /\ scan'.owner = scan.owner /\ scan'.pc = "done" /\ scan'.visible = shown
  <2> HIDE DEF shown
  <2> QED
    BY <1>0, <1>1, Zenon DEF ScanRecord
<1>3. PortsTypeOK'
  BY <1>0, <1>2, Zenon DEF PortsIInv, PortsTypeOK
<1>4. Tree' /\ Held' /\ Listening' = Listening
  BY <1>0, ScanStands, Zenon
<1>5. NoNewcomer' /\ RowsRead' /\ Since' /\ OwnersRead'
  BY <1>0, <1>2, <1>4, Zenon DEF PortsIInv, NoNewcomer, RowsRead, Since, OwnersRead
<1>6. OwnPort \notin shown
  <2> SUFFICES ASSUME NEW s \in scan.rows, scan.owner[s] \in Descendants, s.port = OwnPort PROVE FALSE
    OBVIOUS
  <2>1. s \in Socket
    BY <1>0, Zenon DEF ScanRecord
  <2>2. scan.owner[s] \in {0, Root}
    BY <2>1, Zenon DEF PortsIInv, OwnersRead
  <2> QED
    BY <2>2, PortsAssumption DEF Descendants, Pid
<1>7. ASSUME quiet, NEW s \in steady, s.port # OwnPort PROVE s.port \in shown
  <2>1. PICK t \in steady \cap scan.rows : t.port = s.port
    BY <1>0, <1>7, Zenon DEF PortsIInv, RowsRead
  <2>2. t \in Socket /\ scan.owner[t] \in holders[t] /\ \A q \in holders[t] : scan.owner[t] <= q
    BY <1>0, <1>7, Zenon DEF PortsIInv, PortsTypeOK, OwnersRead
  <2>3. PICK b \in Pid : Original(b)
    BY <1>0, <1>7, Zenon DEF PortsIInv, Since
  <2>4. PICK q \in holders[t] : q <= b
    BY <2>3, Zenon DEF Original
  <2>5. scan.owner[t] \in Living \ {Root}
    BY <1>7, <2>1, <2>2, Zenon DEF PortsIInv, Held
  <2>6. scan.owner[t] <= b
    BY <2>2, <2>4, PortsAssumption, SMTT(60) DEF PortsIInv, PortsTypeOK, Pid
  <2>7. scan.owner[t] \in Descendants
    BY <1>0, <2>3, <2>5, <2>6, DescendantsFound, Zenon DEF Original, StatRead
  <2> QED
    BY <2>1, <2>7, Zenon
<1>8. QuietScanComplete'
  <2> HIDE DEF shown
  <2> QED
    BY <1>0, <1>2, <1>6, <1>7, Zenon DEF QuietScanComplete
<1> QED
  BY <1>3, <1>4, <1>5, <1>8, Zenon DEF PortsIInv

(* GET /ports, for any number of processes and sockets: unless something   *)
(* exits or closes meanwhile, or a port gets a second listener, the scan   *)
(* shows every port a process of the session listened on all the time, and *)
(* it never shows the runtime's own.                                       *)
THEOREM PortsTheorem == PortsSpec => []QuietScanComplete
<1>1. PortsIInv /\ [PortsNext]_portVars => PortsIInv'
  <2> SUFFICES ASSUME PortsIInv, [PortsNext]_portVars PROVE PortsIInv'
    OBVIOUS
  <2>1. ASSUME NEW p \in Pid, ForkChild(p) PROVE PortsIInv'
    BY <2>1, ForkKeeps, Zenon
  <2>2. ASSUME NEW p \in Pid, ExitProcess(p) PROVE PortsIInv'
    BY <2>2, ExitKeeps, Zenon
  <2>3. ASSUME NEW p \in Pid, NEW s \in Socket, Listen(p, s) PROVE PortsIInv'
    BY <2>3, ListenKeeps, Zenon
  <2>4. ASSUME NEW p \in Pid, NEW s \in Socket, CloseSocket(p, s) PROVE PortsIInv'
    BY <2>4, CloseKeeps, Zenon
  <2>5. ScanVisiblePorts => PortsIInv'
    BY ScanBegins, Zenon
  <2>6. StatPpid => PortsIInv'
    BY StatKeeps, Zenon
  <2>7. ListeningRows => PortsIInv'
    BY RowsKeep, Zenon
  <2>8. SocketPids => PortsIInv'
    BY OwnersKeep, Zenon
  <2>9. VisiblePorts => PortsIInv'
    BY FilterKeeps, Zenon
  <2>10. CASE UNCHANGED portVars
    <3>1. UNCHANGED <<parent, born, holders, scan, quiet, steady>>
      BY <2>10, Zenon DEF portVars
    <3>2. Tree' /\ Held' /\ Listening' = Listening
      BY <3>1, ScanStands, Zenon
    <3>3. PortsTypeOK' /\ NoNewcomer' /\ RowsRead' /\ OwnersRead' /\ QuietScanComplete'
      BY <3>1, <3>2, Zenon DEF PortsIInv, PortsTypeOK, NoNewcomer, RowsRead, OwnersRead, QuietScanComplete
    <3>4. Since'
      BY <3>1, Zenon DEF PortsIInv, Since, Original, StatRead
    <3> QED
      BY <3>2, <3>3, <3>4, Zenon DEF PortsIInv
  <2> QED
    BY <2>1, <2>2, <2>3, <2>4, <2>5, <2>6, <2>7, <2>8, <2>9, <2>10, Zenon DEF PortsNext
<1>2. PortsIInv => QuietScanComplete
  BY Zenon DEF PortsIInv
<1> QED
  BY <1>1, <1>2, PortsInitHolds, PTL DEF PortsSpec
=============================================================================
