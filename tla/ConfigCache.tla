---------------------------- MODULE ConfigCache ----------------------------
(***************************************************************************)
(* GET /api/config, by which Open WebUI learns what a sandbox offers: the  *)
(* broker asks the runtime and falls back to flags of its own              *)
(* (broker/src/api.rs); the runtime merges its flags with the sidecar's,   *)
(* which it caches for a while, and whose fetch it does under the cache's  *)
(* lock (runtime/src/desktop.rs).                                          *)
(*                                                                         *)
(* A document maps the features it states to whoever states them.          *)
(* Times are ages.                                                         *)
(***************************************************************************)
EXTENDS Integers

CONSTANTS
    Getter,             \* requests in progress at once
    Nobody,
    CacheTTL,           \* desktop_config_cache_ttl
    FetchTimeout        \* desktop_config_fetch_timeout

ASSUME ConfigAssumption ==
    /\ CacheTTL \in Nat /\ FetchTimeout \in Nat
    /\ Nobody \notin Getter

VARIABLES
    laneActive, \* desktop_lane_active()
    flags,      \* the features the sidecar states at present
    stored,     \* DesktopConfigCache
    mutex,      \* the request that holds the cache's lock, or Nobody
    getter,     \* the requests
    stale       \* history: how long ago the sidecar stated each document

configVars == <<laneActive, flags, stored, mutex, getter, stale>>

RuntimeFlags == [terminal |-> "runtime"]
LocalFlags == [terminal |-> "broker"]
Sidecars == {[terminal |-> "sidecar", desktop |-> "sidecar"],
             [browser |-> "sidecar", desktop |-> "sidecar"]}

(* How long the age of a document can matter. *)
Ancient == CacheTTL + FetchTimeout + 1
Later(a) == IF a < Ancient THEN a + 1 ELSE a

Empty == [filled |-> FALSE, age |-> 0, payload |-> RuntimeFlags]
Rest == [pc |-> "rest", age |-> 0, body |-> LocalFlags, fetched |-> RuntimeFlags]

ConfigInit ==
    /\ laneActive \in BOOLEAN
    /\ flags = CHOOSE f \in Sidecars : "terminal" \in DOMAIN f
    /\ stored = Empty
    /\ mutex = Nobody
    /\ getter = [g \in Getter |-> Rest]
    /\ stale = [f \in Sidecars |-> IF f = flags THEN 0 ELSE Ancient]

(* merge_configs: what the runtime states is kept, the rest is added. *)
MergeConfigs(runtime, sidecar) ==
    [o \in DOMAIN runtime \cup DOMAIN sidecar |->
        IF o \in DOMAIN runtime THEN runtime[o] ELSE sidecar[o]]

Reply(g, body) == getter' = [getter EXCEPT ![g].pc = "done", ![g].body = body]

-----------------------------------------------------------------------------
(* The broker *)

(* api_config: without an identity, a Sandbox or its key, the local flags. *)
AskConfig(g) ==
    /\ getter[g].pc = "rest"
    /\ \/ getter' = [getter EXCEPT ![g] = [Rest EXCEPT !.pc = "wait"]]
       \/ Reply(g, LocalFlags)
    /\ UNCHANGED <<laneActive, flags, stored, mutex, stale>>

(* The hop takes too long or fails: the local flags.  The runtime's        *)
(* handler is dropped with the connection, and its lock with it.           *)
ForwardFails(g) ==
    /\ getter[g].pc \in {"wait", "fetch", "read"}
    /\ Reply(g, LocalFlags)
    /\ mutex' = IF mutex = g THEN Nobody ELSE mutex
    /\ UNCHANGED <<laneActive, flags, stored, stale>>

-----------------------------------------------------------------------------
(* merged_api_config in the runtime *)

(* With the lane off the runtime states its own flags. *)
LaneOff(g) ==
    /\ getter[g].pc = "wait" /\ ~ laneActive
    /\ Reply(g, RuntimeFlags)
    /\ UNCHANGED <<laneActive, flags, stored, mutex, stale>>

(* Mutant: a hit prolongs the entry. *)
HitProlongs(g) ==
    /\ getter[g].pc = "wait" /\ laneActive /\ mutex = Nobody
    /\ stored.filled /\ stored.age < CacheTTL
    /\ Reply(g, MergeConfigs(RuntimeFlags, stored.payload))
    /\ stored' = [stored EXCEPT !.age = 0]
    /\ UNCHANGED <<laneActive, flags, mutex, stale>>

CacheHit(g) ==
    /\ getter[g].pc = "wait" /\ laneActive /\ mutex = Nobody
    /\ stored.filled /\ stored.age < CacheTTL
    /\ Reply(g, MergeConfigs(RuntimeFlags, stored.payload))
    /\ UNCHANGED <<laneActive, flags, stored, mutex, stale>>

CacheMiss(g) ==
    /\ getter[g].pc = "wait" /\ laneActive /\ mutex = Nobody
    /\ ~ (stored.filled /\ stored.age < CacheTTL)
    /\ mutex' = g
    /\ getter' = [getter EXCEPT ![g].pc = "fetch"]
    /\ UNCHANGED <<laneActive, flags, stored, stale>>

(* fetch_sidecar_config: the sidecar answers with its document, *)
SidecarAnswers(g) ==
    /\ getter[g].pc = "fetch"
    /\ getter' = [getter EXCEPT ![g].pc = "read", ![g].fetched = flags]
    /\ UNCHANGED <<laneActive, flags, stored, mutex, stale>>

(* which is read and cached from then on, *)
SidecarRead(g) ==
    /\ getter[g].pc = "read"
    /\ stored' = [filled |-> TRUE, age |-> 0, payload |-> getter[g].fetched]
    /\ Reply(g, MergeConfigs(RuntimeFlags, getter[g].fetched))
    /\ mutex' = Nobody
    /\ UNCHANGED <<laneActive, flags, stale>>

(* or it is down, hangs past the timeout or talks nonsense: the runtime's  *)
(* own flags, and the cache as it was.                                     *)
FetchFails(g) ==
    /\ getter[g].pc \in {"fetch", "read"}
    /\ Reply(g, RuntimeFlags)
    /\ mutex' = Nobody
    /\ UNCHANGED <<laneActive, flags, stored, stale>>

ConfigDone(g) ==
    /\ getter[g].pc = "done"
    /\ getter' = [getter EXCEPT ![g] = Rest]
    /\ UNCHANGED <<laneActive, flags, stored, mutex, stale>>
-----------------------------------------------------------------------------
(* The sidecar and time *)

SidecarChanges ==
    /\ flags' \in Sidecars \ {flags}
    /\ stale' = [stale EXCEPT ![flags'] = 0]
    /\ UNCHANGED <<laneActive, stored, mutex, getter>>

(* A fetch is given up after FetchTimeout; an answer goes out at once. *)
ConfigTick ==
    /\ \A g \in Getter :
         /\ getter[g].pc # "done"
         /\ getter[g].pc \in {"fetch", "read"} => getter[g].age < FetchTimeout
    /\ stored' = [stored EXCEPT !.age = IF stored.filled THEN Later(@) ELSE @]
    /\ getter' = [g \in Getter |->
                    [getter[g] EXCEPT !.age = IF getter[g].pc \in {"fetch", "read"} THEN @ + 1 ELSE @]]
    /\ stale' = [f \in Sidecars |-> IF f = flags THEN 0 ELSE Later(stale[f])]
    /\ UNCHANGED <<laneActive, flags, mutex>>

ConfigNext ==
    \/ \E g \in Getter :
         \/ AskConfig(g) \/ ForwardFails(g) \/ LaneOff(g) \/ CacheHit(g) \/ CacheMiss(g)
         \/ SidecarAnswers(g) \/ SidecarRead(g) \/ FetchFails(g) \/ ConfigDone(g)
    \/ SidecarChanges \/ ConfigTick

ConfigSpec == ConfigInit /\ [][ConfigNext]_configVars

(* Feature discovery (api.rs:245-256, desktop.rs:468-475): every answer is *)
(* the broker's own flags, or the runtime's, to which nothing but features *)
(* are added that the sidecar stated lately; whatever several requests     *)
(* make of the one cache.                                                  *)
ConfigSound ==
    \A g \in Getter :
        LET body == getter[g].body IN
        getter[g].pc = "done" =>
            \/ body \in {LocalFlags, RuntimeFlags}
            \/ /\ body["terminal"] = "runtime"
               /\ \E f \in Sidecars :
                    /\ DOMAIN body = DOMAIN f \cup DOMAIN RuntimeFlags
                    /\ stale[f] <= CacheTTL + FetchTimeout
=============================================================================
