----------------------------- MODULE MCGateway -----------------------------
(***************************************************************************)
(* The request paths of the broker and the runtime's gate, each part on    *)
(* its own: `part' says which of them a behaviour is about.                *)
(***************************************************************************)
EXTENDS RuntimeKey, Relay, RateLimit, ConfigCache, Identity

VARIABLE part

vars == <<part, keyVars, relayVars, limitVars, configVars, asked>>

(* A terminal whose pumps touch, and desktops whose pumps do not. *)
MCLanes == {TerminalLane(TRUE, 1), DesktopLane(FALSE, 0, TRUE), DesktopLane(TRUE, 0, FALSE)}

(* The part that is not asked about starts in one state. *)
Rigid(p, x, only) == part = p \/ x = only

Init ==
    /\ part \in {"key", "relay", "limit", "config", "identity"}
    /\ KeyInit /\ RelayInit /\ LimitInit /\ ConfigInit /\ IdentityInit
    /\ Rigid("key", minted, 1)
    /\ Rigid("relay", lane, CHOOSE l \in Lanes : TRUE)
    /\ Rigid("config", laneActive, TRUE)

Next ==
    /\ UNCHANGED part
    /\ \/ /\ part = "key" /\ KeyNext
          /\ UNCHANGED <<relayVars, limitVars, configVars, asked>>
       \/ /\ part = "relay" /\ RelayNext
          /\ UNCHANGED <<keyVars, limitVars, configVars, asked>>
       \/ /\ part = "limit" /\ LimitNext
          /\ UNCHANGED <<keyVars, relayVars, configVars, asked>>
       \/ /\ part = "config" /\ ConfigNext
          /\ UNCHANGED <<keyVars, relayVars, limitVars, asked>>
       \/ /\ part = "identity" /\ IdentityNext
          /\ UNCHANGED <<keyVars, relayVars, limitVars, configVars>>

(* The tasks of a relay run, their calls are answered, and the two ends    *)
(* read what they are sent.                                                *)
Fairness ==
    /\ WF_relayVars(part = "relay" /\ Authenticate)
    /\ WF_relayVars(part = "relay" /\ ResolveAndKey)
    /\ WF_relayVars(part = "relay" /\ EnsurePty)
    /\ WF_relayVars(part = "relay" /\ Connect)
    /\ WF_relayVars(part = "relay" /\ ConnectSidecar)
    /\ \A d \in Dir : WF_relayVars(part = "relay" /\ Pump(1, d))
    /\ \A d \in Dir : WF_relayVars(part = "relay" /\ Pump(2, d))
    /\ \A d \in Dir : WF_relayVars(part = "relay" /\ Touched(d))
    /\ WF_relayVars(part = "relay" /\ Hears(0, "down"))
    /\ WF_relayVars(part = "relay" /\ Hears(Far, "up"))

Spec == Init /\ [][Next]_vars /\ Fairness
=============================================================================
