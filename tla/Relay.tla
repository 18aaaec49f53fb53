------------------------------- MODULE Relay -------------------------------
(***************************************************************************)
(* A WebSocket through the broker (broker/src/terminal.rs, desktop.rs) and,*)
(* for the desktop, on through the runtime to its sidecar                  *)
(* (runtime/src/desktop.rs).                                               *)
(*                                                                         *)
(* Socket 0 is the client's, socket h the one that hop h connects to: hop  *)
(* 1 is the broker, hop 2 the runtime.  A hop has one pump per direction;  *)
(* when either ends the other is aborted and both sockets are dropped.     *)
(* The broker's pumps refresh the idle clock of the Sandbox (SessionTouch) *)
(* that the reaper parks by.  Times are ages which saturate at MaxAge.     *)
(***************************************************************************)
EXTENDS Integers, Sequences

CONSTANTS
    Lanes,          \* the relays deployed: TerminalLane and DesktopLane records
    ParkIdle,       \* park_idle_seconds
    TouchDelay,     \* bound: how long a write of the idle clock takes
    TouchFaults,    \* such a write may fail
    MaxQueue        \* bound: frames in a socket's buffer

ASSUME RelayAssumption ==
    /\ \A l \in Lanes : /\ l.hops \in {1, 2} /\ l.interval \in Nat
                         /\ l.secret \in BOOLEAN /\ l.pty \in BOOLEAN /\ l.active \in BOOLEAN
    /\ ParkIdle \in Nat /\ TouchDelay \in Nat /\ MaxQueue \in Nat \ {0}
    /\ TouchFaults \in BOOLEAN

VARIABLES
    lane,       \* the lane of this connection
    phase,      \* how far relay() has come, per hop
    sock,       \* the sockets: open, and the frames under way in each direction
    pump,       \* the pumps of each hop
    code,       \* the code the client's socket was closed with, 0 if none
    last,       \* SessionTouch.last: its age, per direction
    used,       \* the age of the Sandbox's broker-last-used
    fresh,      \* history: the age of the youngest frame relayed
    listed,     \* what the reaper's tick found, "none" between ticks
    pod         \* the pod runs

relayVars == <<lane, phase, sock, pump, code, last, used, fresh, listed, pod>>

MaxAge == ParkIdle + 1
NoAge == -1
Older(a) == IF a = NoAge \/ a = MaxAge THEN a ELSE a + 1

Dir == {"up", "down"}
Hop == 1..lane.hops
Far == lane.hops
From(h, d) == IF d = "up" THEN h - 1 ELSE h
Onto(h, d) == IF d = "up" THEN h ELSE h - 1

(* relay: a terminal's socket ends at the runtime, which is first asked    *)
(* for a PTY.  interval is ws_touch_interval_seconds, 0 for no touches.    *)
TerminalLane(secret, interval) ==
    [hops |-> 1, secret |-> secret, interval |-> interval, pty |-> TRUE, active |-> TRUE]

(* relay_desktop: the same steps without a PTY; the runtime relays on to   *)
(* the sidecar where its desktop lane is active.                           *)
DesktopLane(secret, interval, active) ==
    [hops |-> 2, secret |-> secret, interval |-> interval, pty |-> FALSE, active |-> active]

Closed == [open |-> FALSE, up |-> << >>, down |-> << >>]
Opened == [Closed EXCEPT !.open = TRUE]
Idle == [pc |-> "off", frame |-> "data", age |-> NoAge]
Ready == [Idle EXCEPT !.pc = "next"]

(* terminal_identity and desktop_identity have passed before the upgrade. *)
RelayInit ==
    /\ lane \in Lanes
    /\ phase = <<"auth", "none">>
    /\ sock = [s \in 0..2 |-> IF s = 0 THEN Opened ELSE Closed]
    /\ pump = [h \in 1..2 |-> [d \in Dir |-> Idle]]
    /\ code = 0
    /\ last = [d \in Dir |-> NoAge]
    /\ used = MaxAge /\ fresh = MaxAge /\ listed = "none"
    /\ pod = TRUE

-----------------------------------------------------------------------------
(* The broker before the pumps *)

(* close_4001, close_1011: a Close frame, then the socket is dropped. *)
CloseClient(c) ==
    /\ code' = c
    /\ phase' = [phase EXCEPT ![1] = "closed"]
    /\ sock' = [sock EXCEPT ![0] = Closed]

(* wait_auth: the first message is taken, whatever it is; one that is no   *)
(* JSON, or none within AUTH_TIMEOUT, is a timeout.                        *)
WaitAuth == IF sock[0].up = << >> THEN {"Timeout"} ELSE {"Ok", "Deny", "Timeout"}

(* authenticate_first_message: a placeholder secret skips the handshake.   *)
Authenticate ==
    /\ phase[1] = "auth"
    /\ \E result \in IF lane.secret THEN WaitAuth ELSE {"Ok"} :
         IF result = "Ok"
         THEN /\ phase' = [phase EXCEPT ![1] = "resolve"]
              /\ sock' = IF lane.secret THEN [sock EXCEPT ![0].up = Tail(@)] ELSE sock
              /\ UNCHANGED code
         ELSE CloseClient(4001)
    /\ UNCHANGED <<lane, pump, last, used, fresh, listed, pod>>

(* resolve_and_key: a resolve touches the Sandbox and returns a ready pod. *)
(* Where nothing refreshes the idle clock after that, it may run out at    *)
(* any time, and counts as run out.                                        *)
ResolveAndKey ==
    /\ phase[1] = "resolve"
    /\ \/ /\ phase' = [phase EXCEPT ![1] = IF lane.pty THEN "pty" ELSE "connect"]
          /\ used' = (IF lane.interval > 0 THEN 0 ELSE MaxAge)
          /\ pod' = TRUE
          /\ UNCHANGED <<code, sock>>
       \/ CloseClient(1011) /\ UNCHANGED <<used, pod>>
    /\ UNCHANGED <<lane, pump, last, fresh, listed>>

(* ensure_pty: a POST whose outcome is ignored. *)
EnsurePty ==
    /\ phase[1] = "pty"
    /\ phase' = [phase EXCEPT ![1] = "connect"]
    /\ UNCHANGED <<lane, sock, pump, code, last, used, fresh, listed, pod>>

(* desktop_ws_route, in the runtime: an inactive lane answers 404. *)
Upgrades == lane.active

(* relay_to_upstream_with_headers up to the pumps: the runtime upgrades    *)
(* the connection, or the client is closed.                                *)
Connect ==
    /\ phase[1] = "connect"
    /\ \/ /\ pod /\ Upgrades
          /\ phase' = <<"relay", IF lane.hops = 2 THEN "connect" ELSE "none">>
          /\ sock' = [sock EXCEPT ![1] = Opened]
          /\ pump' = [pump EXCEPT ![1] = [d \in Dir |-> Ready]]
          /\ UNCHANGED code
       \/ CloseClient(1011) /\ UNCHANGED pump
    /\ UNCHANGED <<lane, last, used, fresh, listed, pod>>

(* relay_ws in the runtime: connect_sidecar_ws, or a Close frame with 1011 *)
(* to the broker.                                                          *)
ConnectSidecar ==
    /\ phase[2] = "connect"
    /\ \/ /\ phase' = [phase EXCEPT ![2] = "relay"]
          /\ sock' = [sock EXCEPT ![2] = Opened]
          /\ pump' = [pump EXCEPT ![2] = [d \in Dir |-> Ready]]
       \/ /\ phase' = [phase EXCEPT ![2] = "closed"]
          /\ sock' = [sock EXCEPT ![1] = [Closed EXCEPT !.down = Append(@, "close")]]
          /\ UNCHANGED pump
    /\ UNCHANGED <<lane, code, last, used, fresh, listed, pod>>

-----------------------------------------------------------------------------
(* The pumps *)

(* Mutant: the relay waits for both pumps. *)
EndHalf(h, d) ==
    LET other == CHOOSE e \in Dir : e # d IN
    IF pump[h][other].pc = "off"
    THEN /\ pump' = [pump EXCEPT ![h] = [e \in Dir |-> Idle]]
         /\ phase' = [phase EXCEPT ![h] = "closed"]
         /\ sock' = [s \in 0..2 |->
                       CASE s = h - 1 -> [sock[s] EXCEPT !.open = FALSE, !.up = << >>]
                         [] s = h     -> [sock[s] EXCEPT !.open = FALSE, !.down = << >>]
                         [] OTHER     -> sock[s]]
    ELSE /\ pump' = [pump EXCEPT ![h][d] = Idle]
         /\ UNCHANGED <<phase, sock>>

(* select!: a pump of hop h has ended.  What was sent before the drop can  *)
(* still be read at the other end of each socket.                          *)
End(h, d) ==
    /\ pump' = [pump EXCEPT ![h] = [e \in Dir |-> Idle]]
    /\ phase' = [phase EXCEPT ![h] = "closed"]
    /\ sock' = [s \in 0..2 |->
                  CASE s = h - 1 -> [sock[s] EXCEPT !.open = FALSE, !.up = << >>]
                    [] s = h     -> [sock[s] EXCEPT !.open = FALSE, !.down = << >>]
                    [] OTHER     -> sock[s]]

(* Mutant: only the first frame of a session touches. *)
DueOnce(d) == lane.interval > 0 /\ last[d] = NoAge

(* note_activity: the throttle of one pump. *)
Due(d) == lane.interval > 0 /\ (last[d] = NoAge \/ last[d] >= lane.interval)

(* The next frame is taken from the socket, and is activity.  The throttle *)
(* is reset before the write of the idle clock is known to succeed.        *)
Take(h, d) ==
    LET s == From(h, d)
        touches == h = 1 /\ Due(d)
    IN  /\ pump[h][d].pc = "next"
        /\ sock[s][d] # << >>
        /\ pump' = [pump EXCEPT ![h][d] =
                      [pc |-> IF touches THEN "touch" ELSE "send",
                       frame |-> Head(sock[s][d]),
                       age |-> IF h = 1 THEN 0 ELSE NoAge]]
        /\ sock' = [sock EXCEPT ![s][d] = Tail(@)]
        /\ last' = IF touches THEN [last EXCEPT ![d] = 0] ELSE last
        /\ UNCHANGED <<lane, phase, code, used, fresh, listed, pod>>

(* touch_last_used writes the time at which the frame was taken, late or   *)
(* not at all.                                                             *)
Touched(d) ==
    /\ pump[1][d].pc = "touch"
    /\ used' \in {pump[1][d].age} \cup (IF TouchFaults THEN {used} ELSE {})
    /\ pump' = [pump EXCEPT ![1][d].pc = "send"]
    /\ UNCHANGED <<lane, phase, sock, code, last, fresh, listed, pod>>

(* The broker's to_upstream and to_client: a Close frame has no form. *)
Converts(h, frame) == h = 2 \/ frame # "close"

(* The runtime's keep it a Close frame; its stream is at an end after it.  *)
After(frame) == IF frame = "close" THEN "ended" ELSE "next"

(* The frame goes on to the other socket, or the pump ends. *)
Forward(h, d) ==
    LET s == Onto(h, d)
        frame == pump[h][d].frame
    IN  /\ pump[h][d].pc = "send"
        /\ IF ~ Converts(h, frame) \/ ~ sock[s].open
           THEN End(h, d) /\ UNCHANGED fresh
           ELSE /\ Len(sock[s][d]) < MaxQueue
                /\ sock' = [sock EXCEPT ![s][d] = Append(@, frame)]
                /\ pump' = [pump EXCEPT ![h][d] = [Ready EXCEPT !.pc = After(frame)]]
                /\ fresh' = IF h = 1 /\ pump[h][d].age < fresh THEN pump[h][d].age ELSE fresh
                /\ UNCHANGED phase
        /\ UNCHANGED <<lane, code, last, used, listed, pod>>

EndOfStream(h, d) ==
    /\ \/ pump[h][d].pc = "ended"
       \/ /\ pump[h][d].pc = "next"
          /\ ~ sock[From(h, d)].open /\ sock[From(h, d)][d] = << >>
    /\ End(h, d)
    /\ UNCHANGED <<lane, code, last, used, fresh, listed, pod>>

-----------------------------------------------------------------------------
(* The two ends, the reaper and time *)

(* The client is a browser; the far end is the runtime's terminal session  *)
(* or the sidecar.                                                         *)
Ends == {<<0, "up">>, <<Far, "down">>}

Speaks(s, d) ==
    /\ sock[s].open
    /\ \/ /\ Len(sock[s][d]) < MaxQueue
          /\ "close" \notin {sock[s][d][i] : i \in DOMAIN sock[s][d]}
          /\ \E frame \in {"data", "close"} :
               sock' = [sock EXCEPT ![s][d] = Append(@, frame)]
       \/ sock' = [sock EXCEPT ![s].open = FALSE]
    /\ UNCHANGED <<lane, phase, pump, code, last, used, fresh, listed, pod>>

Hears(s, d) ==
    /\ sock[s][d] # << >>
    /\ sock' = [sock EXCEPT ![s][d] = Tail(@)]
    /\ UNCHANGED <<lane, phase, pump, code, last, used, fresh, listed, pod>>

(* reap_once lists, and acts on what it listed. *)
List ==
    /\ listed = "none" /\ pod
    /\ listed' = IF used > ParkIdle THEN "idle" ELSE "busy"
    /\ UNCHANGED <<lane, phase, sock, pump, code, last, used, fresh, pod>>

(* A parked Sandbox loses its pod, and with it the runtime's sockets. *)
Park ==
    /\ listed # "none"
    /\ listed' = "none"
    /\ pod' = (pod /\ listed = "busy")
    /\ IF pod /\ ~ pod'
       THEN /\ sock' = [s \in 0..2 |-> IF s = 0 THEN sock[0] ELSE Closed]
            /\ pump' = [pump EXCEPT ![2] = [d \in Dir |-> Idle]]
            /\ phase' = [phase EXCEPT ![2] = IF @ = "none" THEN @ ELSE "closed"]
       ELSE UNCHANGED <<sock, pump, phase>>
    /\ UNCHANGED <<lane, code, last, used, fresh>>

RelayTick ==
    /\ lane.interval > 0
    /\ \A d \in Dir : pump[1][d].pc = "touch" => pump[1][d].age < TouchDelay
    /\ used' = Older(used) /\ fresh' = Older(fresh)
    /\ last' = [d \in Dir |-> IF last[d] >= lane.interval THEN last[d] ELSE Older(last[d])]
    /\ pump' = [pump EXCEPT ![1] = [d \in Dir |-> [pump[1][d] EXCEPT !.age = Older(pump[1][d].age)]]]
    /\ UNCHANGED <<lane, phase, sock, code, listed, pod>>

-----------------------------------------------------------------------------
Pump(h, d) == Take(h, d) \/ Forward(h, d) \/ EndOfStream(h, d)

RelayNext ==
    \/ Authenticate \/ ResolveAndKey \/ EnsurePty \/ Connect \/ ConnectSidecar
    \/ \E h \in Hop, d \in Dir : Pump(h, d)
    \/ \E d \in Dir : Touched(d)
    \/ \E end \in Ends : Speaks(end[1], end[2])
    \/ Hears(0, "down") \/ Hears(Far, "up")
    \/ List \/ Park \/ RelayTick

RelaySpec == RelayInit /\ [][RelayNext]_relayVars

(* SessionTouch (terminal.rs:396-398: an actively-used terminal is never   *)
(* parked mid-session): when the reaper lists a Sandbox as idle, no frame  *)
(* was relayed within the park window, less the throttle's interval and    *)
(* the time that a write of the idle clock takes.                          *)
ListsOnlyQuiet ==
    [][listed # "idle" /\ listed' = "idle" /\ lane.interval > 0
         => fresh > ParkIdle - lane.interval - TouchDelay]_relayVars

(* First-completed-wins (terminal.rs:522-523, runtime desktop.rs:381-382): *)
(* once either end is gone, every hop ends and every socket is dropped.    *)
Over == ~ sock[0].open \/ (phase[Far] = "relay" /\ ~ sock[Far].open)
AllDown == \A h \in Hop : phase[h] \in {"closed", "none"} /\ \A s \in 0..2 : ~ sock[s].open
RelayEnds == Over ~> AllDown
=============================================================================
