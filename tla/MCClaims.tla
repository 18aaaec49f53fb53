------------------------------ MODULE MCClaims ------------------------------
(***************************************************************************)
(* Chats resolved through a claim, and what Sandboxes are built from, each *)
(* part on its own: `part' says which of them a behaviour is about.        *)
(***************************************************************************)
EXTENDS Claims, Blueprint

VARIABLE part

vars == <<part, claimVars, blueprintVars>>

(* A service: profile, s3-record, volume, events, and the bounds on        *)
(* resolves at once, resolves in all, writes and interventions.            *)
MCService(profile, record, volume, env, c, v, w, o) ==
    [profile |-> profile, record |-> record, volume |-> volume, env |-> env,
     calls |-> c, visits |-> v, work |-> w, outside |-> o]

MCServices ==
    {MCService("persistent", TRUE, FALSE, {"touch", "store", "s3", "runtime", "tie"}, 1, 2, 2, 0),
     MCService("persistent", TRUE, TRUE, {"stamp", "s3", "suspend"}, 1, 2, 2, 1),
     MCService("persistent", TRUE, FALSE, {"runtime"}, 2, 3, 2, 0),
     MCService("persistent", TRUE, FALSE, {"s3", "destroy", "slow"}, 1, 2, 0, 1),
     MCService("ephemeral", FALSE, FALSE, {"touch", "store", "suspend", "delete", "slow"}, 2, 2, 1, 1)}

(* Blueprints: in two orders of keys, with a key volume of its own, and    *)
(* with no mount of the workspace.                                         *)
MCPod(order, vols, mounts) ==
    [order |-> order, image |-> 1, label |-> "none",
     vols |-> [v \in vols |-> <<v>>], mounts |-> [i \in DOMAIN mounts |-> [v \in mounts[i] |-> <<>>]]]
MCWork == {"workspace"}
MCKeyed == {"workspace", "runtime-key"}
MCFirst == MCPod(1, MCWork, <<MCWork, MCWork>>)
MCBlueprints ==
    {MCFirst, MCPod(2, MCWork, <<MCWork, MCWork>>), MCPod(1, MCKeyed, <<MCKeyed>>), MCPod(1, MCWork, <<{}>>)}

MCNamed ==
    {[name |-> 1, user |-> "u", session |-> "s", profile |-> "persistent", post |-> FALSE],
     [name |-> 2, user |-> "u", session |-> "t", profile |-> "ephemeral", post |-> TRUE]}

(* Sandboxes without a stamp: of the first blueprint or without one. *)
MCOld(n) == {cr \in Unstamped(n) : cr.pod \in {NoPod, Marked(MCFirst, n)}}

Init ==
    /\ part \in {"claims", "blueprint"}
    /\ live = [t \in Template |-> IF part = "blueprint" THEN MCFirst ELSE Missing]
    /\ crs \in {[n \in Named |-> IF n.post THEN Missing ELSE cr] :
                  cr \in {Missing} \cup IF part = "blueprint" THEN UNION {MCOld(n) : n \in Named} ELSE {}}
    /\ tier \in IF part = "blueprint" THEN Tiers ELSE {"empty-dir"}
    /\ service \in IF part = "claims" THEN Services ELSE {CHOOSE s \in Services : TRUE}
    /\ ClaimsInit /\ BlueprintInit

Next ==
    /\ UNCHANGED part
    /\ \/ part = "claims" /\ ClaimsNext /\ UNCHANGED blueprintVars
       \/ part = "blueprint" /\ BlueprintNext /\ UNCHANGED claimVars

(* The reaper's loop runs and its calls are answered, time passes, the     *)
(* controller acts, and neither S3 nor the API server fails for ever.      *)
Fairness ==
    /\ WF_claimVars(part = "claims" /\ Sweep)
    /\ WF_claimVars(part = "claims" /\ Elapse)
    /\ SF_claimVars(part = "claims" /\ Upload)
    /\ SF_claimVars(part = "claims" /\ Unclaim /\ claim' = Nil)
    /\ SF_claimVars(part = "claims" /\ (Strip \/ DeleteClaimed) /\ box' # box)
    /\ \A b \in Box : WF_claimVars(part = "claims" /\ Controls(b))

Spec == Init /\ [][Next]_vars /\ Fairness
=============================================================================
