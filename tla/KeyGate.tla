------------------------------ MODULE KeyGate ------------------------------
(***************************************************************************)
(* What the runtime promises of its key check (runtime/src/auth.rs:11-14): *)
(* a request is judged in one step, by the key that the mounted file holds *)
(* at that moment.  The file is watched by its modification time, so a key *)
(* which it held under the same time may stand for the present one.        *)
(***************************************************************************)
CONSTANTS Request, Key, NoKey

VARIABLES
    current,    \* the key in the mounted file
    alike,      \* the keys it has held since its modification time changed
    asked,      \* the key that each request presents, while it is judged
    verdict     \* the verdict on each request

gateVars == <<current, alike, asked, verdict>>

GateInit ==
    /\ alike = {current}
    /\ asked = [r \in Request |-> NoKey]
    /\ verdict = [r \in Request |-> "none"]

(* A request with a key comes in. *)
Ask(r, k) ==
    /\ asked' = [asked EXCEPT ![r] = k]
    /\ verdict' = [verdict EXCEPT ![r] = "none"]
    /\ UNCHANGED <<current, alike>>

(* It is let in or refused, as its key is or is not the one in the file. *)
Judge(r) ==
    /\ verdict[r] = "none"
    /\ \E k \in alike :
         verdict' = [verdict EXCEPT ![r] = IF asked[r] = k THEN "ok" ELSE "invalid"]
    /\ UNCHANGED <<current, alike, asked>>

(* Another key is mounted, with or without a new modification time. *)
Remount ==
    /\ alike' = {current'} \/ alike' = alike \cup {current'}
    /\ UNCHANGED <<asked, verdict>>

GateNext ==
    \/ \E r \in Request : Judge(r) \/ \E k \in Key : Ask(r, k)
    \/ Remount

GateSpec == GateInit /\ [][GateNext]_gateVars
=============================================================================
