------------------------------ MODULE Blueprint ------------------------------
(***************************************************************************)
(* What a Sandbox is built from, and when it is found to be out of date    *)
(* (broker/src/sandbox.rs, runtime_key.rs, resolve.rs, api.rs).            *)
(*                                                                         *)
(* A template's pod blueprint is cloned into the Sandbox, changed (label,  *)
(* key volume, workspace volume), and stamped with the hash of what was    *)
(* cloned.  A resolve or the reaper later compares the stamp with the      *)
(* template as it is then; an outdated Sandbox is deleted and built again. *)
(* Operators edit templates at any time.  Whether a Sandbox is idle enough *)
(* is a choice here (Lifecycle has the policy).                            *)
(***************************************************************************)
EXTENDS Naturals, Sequences, TLC

CONSTANTS
    Named,          \* Sandboxes: name, user, session, profile; made by POST or by resolves
    Template,       \* names of templates
    BaseTemplate,
    Blueprints,     \* the blueprints an operator may give a template
    NoPod,          \* the blueprint of a template without podTemplate
    Tiers,          \* persistent modes considered
    Maker,          \* resolves, ticks and POSTs that may be in progress at once
    MaxEdits,       \* bound: edits of templates
    MaxMakes,       \* bound: resolves, ticks and POSTs in all
    Missing

ASSUME BlueprintAssumption ==
    /\ BaseTemplate \in Template
    /\ Tiers \subseteq {"per-user-pvc", "shared-subpath", "empty-dir"}
    /\ {MaxEdits, MaxMakes} \subseteq Nat
    /\ {NoPod, Missing} \cap Blueprints = {} /\ NoPod # Missing
    /\ \A b \in Blueprints :
         /\ b = [order |-> b.order, image |-> b.image, label |-> b.label, vols |-> b.vols, mounts |-> b.mounts]
         /\ Missing # [b EXCEPT !.order = 1]

VARIABLES
    tier,    \* persistent_mode
    live,    \* the templates: a blueprint, NoPod, or Missing
    pvcs,    \* the volume claims that are there
    crs,     \* the Sandboxes, or Missing
    maker,   \* the resolves, ticks and POSTs
    edits, makes

blueprintVars == <<tier, live, pvcs, crs, maker, edits, makes>>

-----------------------------------------------------------------------------
(* A blueprint: the order of its keys, an image, the profile label, the    *)
(* volumes (name to source) and each container's mounts (name to subPath). *)

(* canonical_json: the keys in one order. *)
canonical_json(pod) == [pod EXCEPT !.order = 1]

(* Mutant: of the blueprint only the containers' image is hashed. *)
HashOfImage(pod) == IF pod \in {NoPod, Missing} THEN Missing ELSE pod.image

(* template_hash; sha256 is taken to be injective. *)
template_hash(pod) == IF pod \in {NoPod, Missing} THEN Missing ELSE canonical_json(pod)

(* hex12, workspace_layout: the claim and the path in it; digests are      *)
(* taken to be injective.                                                  *)
workspace_layout(n) ==
    IF tier = "shared-subpath" THEN [claim |-> <<"shared">>, sub |-> <<"users", n.user, "chats", n.user, n.session>>]
    ELSE [claim |-> <<"user", n.user>>, sub |-> <<"chats", n.user, n.session>>]

OnPvc(n) == n.profile = "persistent" /\ tier # "empty-dir"

Repointable(pod) ==
    "workspace" \in DOMAIN pod.vols /\ \E i \in DOMAIN pod.mounts : "workspace" \in DOMAIN pod.mounts[i]

apply_persistent_volume(pod, at) ==
    [pod EXCEPT !.vols["workspace"] = at.claim,
                !.mounts = [i \in DOMAIN @ |-> [v \in DOMAIN @[i] |-> IF v = "workspace" THEN at.sub ELSE @[i][v]]]]

(* inject_volume: what is there under the name stays. *)
inject_volume(pod, n) ==
    [pod EXCEPT !.vols = @ @@ ("runtime-key" :> <<"secret", n.name>>),
                !.mounts = [i \in DOMAIN @ |-> @[i] @@ ("runtime-key" :> <<>>)]]

Marked(pod, n) == inject_volume([pod EXCEPT !.label = n.profile], n)

(* build_sandbox; source and repointed are history. *)
build_sandbox(n, pod, from, source, repointed) ==
    [pod |-> Marked(pod, n), hash |-> template_hash(source), from |-> from,
     source |-> source, repointed |-> repointed]

(* template_name_of, else the base template. *)
template_name_of(cr) == IF cr.from = Missing THEN BaseTemplate ELSE cr.from

(* Without a stamp the blueprints are compared; what cannot be compared    *)
(* has not drifted.                                                        *)
template_drifted(cr, pod) ==
    IF cr.hash # Missing THEN template_hash(pod) # Missing /\ template_hash(pod) # cr.hash
    ELSE NoPod \notin {cr.pod, pod} /\ canonical_json(cr.pod) # canonical_json(pod)

-----------------------------------------------------------------------------
(* A Sandbox of a broker without stamps, or one the controller built; the  *)
(* controller may name the template.                                       *)
Unstamped(n) ==
    {[pod |-> p, hash |-> Missing, from |-> t, source |-> Missing, repointed |-> FALSE] :
        p \in {NoPod} \cup {Marked(b, n) : b \in Blueprints}, t \in Template \cup {Missing}}

(* A resolve, tick or POST that has begun. *)
Begun(label, n, seen) ==
    [pc |-> label, n |-> n, seen |-> seen, judged |-> Missing,
     from |-> Missing, pod |-> Missing, source |-> Missing, repointed |-> FALSE]

BlueprintInit ==
    /\ tier \in Tiers
    /\ live \in [Template -> Blueprints \cup {NoPod, Missing}]
    /\ pvcs \in IF tier = "shared-subpath" THEN {{}, {<<"shared">>}} ELSE {{}}
    /\ crs \in [Named -> {Missing} \cup UNION {Unstamped(n) : n \in Named}]
    /\ \A n \in Named : crs[n] # Missing => crs[n] \in Unstamped(n)
    /\ maker = [m \in Maker |-> Missing]
    /\ edits = 0 /\ makes = 0

Makes(m, rec) == maker' = [maker EXCEPT ![m] = rec]
Ends(m) == Makes(m, Missing)
At(m, label) == IF maker[m] = Missing THEN FALSE ELSE maker[m].pc = label
Begins(m) == maker[m] = Missing /\ makes < MaxMakes /\ makes' = makes + 1

(* get_sandbox, by the resolve of a chat or from the reaper's list. *)
GetSandbox(m, n) ==
    /\ Begins(m)
    /\ \/ crs[n] # Missing /\ Makes(m, Begun("drift", n, crs[n]))
       \/ crs[n] = Missing /\ ~ n.post /\ Makes(m, Begun("fetch", n, Missing))
    /\ UNCHANGED <<tier, live, pvcs, crs, edits>>

(* recycle_drifted_idle and the reaper's branch: the template of this      *)
(* Sandbox is read.  It is kept if that fails, if it has not drifted, or   *)
(* is in use.                                                              *)
CheckDrift(m) ==
    LET pod == live[template_name_of(maker[m].seen)] IN
    /\ At(m, "drift")
    /\ \/ /\ pod # Missing /\ template_drifted(maker[m].seen, pod)
          /\ Makes(m, [maker[m] EXCEPT !.pc = "delete", !.judged = pod])
       \/ Ends(m)
    /\ UNCHANGED <<tier, live, pvcs, crs, edits, makes>>

(* After the offload the Sandbox is deleted, by its name; or not. *)
DeleteStale(m) ==
    /\ At(m, "delete")
    /\ \/ crs' = [crs EXCEPT ![maker[m].n] = Missing] /\ Makes(m, [maker[m] EXCEPT !.pc = "fetch"])
       \/ Ends(m) /\ UNCHANGED crs
    /\ UNCHANGED <<tier, live, pvcs, edits, makes>>

(* extract_pod_template of the template that was read, or an error. *)
Clones(m, work, t) ==
    Makes(m, IF live[t] \in {Missing, NoPod} THEN Missing
             ELSE [work EXCEPT !.from = t, !.pod = live[t], !.source = live[t]])

(* create_sandbox_from_template: always the base template. *)
FetchTemplate(m) ==
    /\ At(m, "fetch")
    /\ Clones(m, [maker[m] EXCEPT !.pc = IF OnPvc(maker[m].n) THEN "pvc" ELSE "create"], BaseTemplate)
    /\ UNCHANGED <<tier, live, pvcs, crs, edits, makes>>

(* ensure_workspace_pvc: the shared claim is not the broker's to create.   *)
(* Then the workspace volume is repointed, if there is one.                *)
EnsureWorkspacePvc(m) ==
    LET at == workspace_layout(maker[m].n) IN
    /\ At(m, "pvc")
    /\ IF tier = "shared-subpath" /\ at.claim \notin pvcs THEN Ends(m) /\ UNCHANGED pvcs
       ELSE /\ pvcs' = pvcs \cup {at.claim}
            /\ Makes(m, IF Repointable(maker[m].pod)
                        THEN [maker[m] EXCEPT !.pc = "create", !.repointed = TRUE,
                                              !.pod = apply_persistent_volume(@, at)]
                        ELSE Missing)
    /\ UNCHANGED <<tier, live, crs, edits, makes>>

(* create_sandbox of the API server: the loser of a race takes what is     *)
(* there.                                                                  *)
CreateSandbox(m) ==
    LET w == maker[m] IN
    /\ At(m, "create")
    /\ crs' = IF crs[w.n] # Missing THEN crs
              ELSE [crs EXCEPT ![w.n] = build_sandbox(w.n, w.pod, w.from, w.source, w.repointed)]
    /\ Ends(m)
    /\ UNCHANGED <<tier, live, pvcs, edits, makes>>

(* A call of the API server fails: the resolve or the POST answers an      *)
(* error, the tick logs it.                                                *)
CallFails(m) ==
    /\ At(m, "fetch") \/ At(m, "pvc") \/ At(m, "create")
    /\ Ends(m)
    /\ UNCHANGED <<tier, live, pvcs, crs, edits, makes>>

(* POST /api/sandboxes: any template, and no volume of its own. *)
PostSandbox(m, n, t) ==
    /\ Begins(m) /\ n.post
    /\ Clones(m, Begun("create", n, Missing), t)
    /\ UNCHANGED <<tier, live, pvcs, crs, edits>>

(* An operator edits, writes anew in another order, or deletes a template. *)
Edit(t) ==
    /\ edits < MaxEdits /\ edits' = edits + 1
    /\ \E b \in Blueprints \cup {NoPod, Missing} : b # live[t] /\ live' = [live EXCEPT ![t] = b]
    /\ UNCHANGED <<tier, pvcs, crs, maker, makes>>

Making(m) ==
    \/ \E n \in Named : GetSandbox(m, n) \/ \E t \in Template : PostSandbox(m, n, t)
    \/ CheckDrift(m) \/ DeleteStale(m) \/ FetchTemplate(m) \/ EnsureWorkspacePvc(m) \/ CreateSandbox(m)
    \/ CallFails(m)

BlueprintNext == (\E m \in Maker : Making(m)) \/ (\E t \in Template : Edit(t))

-----------------------------------------------------------------------------
(* A stamped Sandbox that is taken to be up to date runs its template as   *)
(* it is now, with the broker's changes, whatever was edited while it was  *)
(* built (sandbox.rs:144-150, resolve.rs:386-388).                         *)
StampTrue ==
    \A n \in Named :
        LET cr == crs[n] IN
        IF cr = Missing THEN TRUE ELSE
        LET pod == live[template_name_of(cr)] IN
        cr.hash # Missing /\ pod \notin {Missing, NoPod} /\ ~ template_drifted(cr, pod) =>
            canonical_json(cr.pod) =
                canonical_json(Marked(IF cr.repointed THEN apply_persistent_volume(pod, workspace_layout(n)) ELSE pod, n))

(* A stamped Sandbox is given up as outdated only if what it was cloned    *)
(* from differs from its template in more than the order of keys: one just *)
(* recycled is not recycled again (sandbox.rs:84-87, 155-156).             *)
DriftIsReal ==
    \A m \in Maker :
        At(m, "delete") /\ maker[m].seen.hash # Missing =>
            canonical_json(maker[m].seen.source) # canonical_json(maker[m].judged)

(* In the PVC modes every container of a chat's Sandbox that mounts the    *)
(* workspace mounts the chat's own directory of the user's volume, after   *)
(* whatever edits and recycles (resolve.rs:100-103, sandbox.rs:193-194).   *)
OwnDirectory ==
    \A n \in Named :
        LET cr == crs[n]  at == workspace_layout(n) IN
        IF cr = Missing THEN TRUE ELSE
        OnPvc(n) /\ ~ n.post /\ cr.hash # Missing =>
            /\ at.claim \in pvcs /\ cr.pod.vols["workspace"] = at.claim
            /\ \A i \in DOMAIN cr.pod.mounts :
                 "workspace" \in DOMAIN cr.pod.mounts[i] => cr.pod.mounts[i]["workspace"] = at.sub

(* "a sandbox created from a non-base template must never be recycled into *)
(* the base one" (sandbox.rs:68-70).                                       *)
RecycleKeepsTemplate ==
    \A m \in Maker :
        At(m, "create") /\ maker[m].seen # Missing => maker[m].from = template_name_of(maker[m].seen)

=============================================================================
