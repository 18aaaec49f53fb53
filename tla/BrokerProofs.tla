---------------------------- MODULE BrokerProofs ----------------------------
(***************************************************************************)
(* Proofs about the broker: the leader election of its replicas and the    *)
(* Sandbox's blueprint.                                                    *)
(*                                                                         *)
(* The election, for every set of replicas, every lease duration and every *)
(* assignment of bounded clock skews: a write that the API server accepts  *)
(* was judged on the object it replaces (SeenIsCurrent: an unchanged       *)
(* resourceVersion means an unchanged object), and a judgement that a      *)
(* lease has expired cannot be overtaken by time (JudgedStaysExpired).  So *)
(* a holder that renewed recently enough is still the holder (FreshHolder).*)
(*                                                                         *)
(* The blueprint, for any number of templates and Sandboxes.               *)
(***************************************************************************)
EXTENDS Leaser, Blueprint, TLAPS


(* The object read is the object stored, as long as nobody wrote it. *)
SeenIsCurrent ==
    \A b \in Broker :
        pc[b] \in {"judge", "apply"} /\ current[b] => seen[b] = lease

(* A write is in flight only against an object that was not held live. *)
JudgedStaysExpired ==
    \A b \in Broker : pc[b] = "apply" => ~ HeldByOtherLive(b, seen[b])

(* The history variable agrees with the object. *)
HolderAge ==
    lease # NoLease => renewed[lease.holder] = lease.age

(* b's gate is open, or is about to be opened by an applied write. *)
Holding(b) == gate[b] \/ (pc[b] = "reply" /\ leading[b])

Recent(b) == renewed[b] + SkewSpan < Duration /\ ~ evicted[b]

FreshHolder ==
    \A b \in Broker :
        Holding(b) /\ Recent(b) => \/ lease # NoLease /\ lease.holder = b
                                   \/ pc[b] = "stepdown"

(* Only a replica whose gate is open goes on to release. *)
ReleasingLeads == \A b \in Broker : pc[b] = "release" => gate[b]

IInv ==
    /\ TypeOK
    /\ ReleasingLeads
    /\ SeenIsCurrent
    /\ JudgedStaysExpired
    /\ HolderAge
    /\ FreshHolder

-----------------------------------------------------------------------------
(* Growing older keeps an age in range and never makes it smaller. *)
LEMMA OlderAge ==
    ASSUME NEW a \in Age
    PROVE  Older(a) \in Age /\ Older(a) >= a
  BY LeaserAssumption DEF Older, Age

(* Growing older keeps an object an object with the same holder. *)
LEMMA OlderLease ==
    ASSUME NEW l \in LeaseObject \cup {NoLease}
    PROVE  /\ OlderObject(l) \in LeaseObject \cup {NoLease}
           /\ OlderObject(l) = NoLease <=> l = NoLease
           /\ l # NoLease => /\ OlderObject(l).holder = l.holder
                             /\ OlderObject(l).age = Older(l.age)
                             /\ l.holder \in Broker
                             /\ l.age \in Age
  <1>1. CASE l = NoLease
    BY <1>1, Zenon DEF OlderObject
  <1>2. CASE l # NoLease
    <2>1. l \in LeaseObject
      BY <1>2, Zenon
    <2>2. Older(l.age) \in Age
      BY <2>1, OlderAge, Zenon DEF LeaseObject
    <2>3. OlderObject(l) = [l EXCEPT !.age = Older(l.age)]
      BY <1>2, Zenon DEF OlderObject
    <2>4. OlderObject(l) \in LeaseObject
      BY <2>1, <2>2, <2>3, Zenon DEF LeaseObject
    <2>5. OlderObject(l) # NoLease
      BY <2>4, LeaserAssumption, Zenon DEF LeaseObject, Age
    <2>6. QED
      BY <1>2, <2>1, <2>3, <2>4, <2>5, Zenon DEF LeaseObject
  <1>3. QED
    BY <1>1, <1>2, Zenon

(* An expired lease stays expired for every replica. *)
LEMMA ExpiredStaysExpired ==
    ASSUME NEW l \in LeaseObject \cup {NoLease}, NEW b \in Broker,
           ~ HeldByOtherLive(b, l)
    PROVE  ~ HeldByOtherLive(b, OlderObject(l))
  <1>1. CASE l = NoLease
    BY <1>1, OlderLease, Zenon DEF HeldByOtherLive
  <1>2. CASE l # NoLease
    <2>1. /\ OlderObject(l).holder = l.holder
          /\ OlderObject(l).age = Older(l.age)
          /\ l.holder \in Broker
          /\ l.age \in Age
      BY <1>2, OlderLease, Zenon
    <2>2. Older(l.age) \in Age /\ Older(l.age) >= l.age
      BY <2>1, OlderAge, Zenon
    <2>3. Skew[b] \in Int /\ Skew[l.holder] \in Int /\ Duration \in Nat
      BY <2>1, LeaserAssumption, Zenon
    <2>4. CASE l.holder = b
      BY <2>1, <2>4, Zenon DEF HeldByOtherLive
    <2>5. CASE l.holder # b
      <3>1. ~ (AgeFor(b, l) < Duration)
        BY <1>2, <2>5, Zenon DEF HeldByOtherLive
      <3>2. ~ (AgeFor(b, OlderObject(l)) < Duration)
        BY <3>1, <2>1, <2>2, <2>3 DEF AgeFor, Age
      <3>3. QED
        BY <3>2, Zenon DEF HeldByOtherLive
    <2>6. QED
      BY <2>4, <2>5, Zenon
  <1>3. QED
    BY <1>1, <1>2, Zenon

-----------------------------------------------------------------------------
(* Every variable keeps its type (leaser.rs: the loop's locals, the gate   *)
(* and the Lease object).                                                  *)
LEMMA TypeInit == Init => TypeOK
  BY LeaserAssumption DEF Init, TypeOK, PC, Age

(* Every step of a broker keeps the types (leaser.rs).                     *)
LEMMA TypeNext == TypeOK /\ [Next]_vars => TypeOK'
  <1> SUFFICES ASSUME TypeOK, [Next]_vars PROVE TypeOK'
    OBVIOUS
  <1> USE DEF TypeOK
  <1>0. MaxAge \in Age /\ 0 \in Age /\ MaxStops \in Nat
    BY LeaserAssumption DEF Age
  <1>1. CASE Tick
    <2>1. lease' \in LeaseObject \cup {NoLease}
      BY <1>1, OlderLease, Zenon DEF Tick
    <2>2. seen' \in [Broker -> LeaseObject \cup {NoLease}]
      BY <1>1, OlderLease, Zenon DEF Tick
    <2>3. stamp' \in [Broker -> Age] /\ renewed' \in [Broker -> Age]
      BY <1>1, OlderAge, Zenon DEF Tick
    <2>4. QED
      BY <1>1, <2>1, <2>2, <2>3, Zenon DEF Tick
  <1>2. ASSUME NEW b \in Broker, BrokerStep(b) PROVE TypeOK'
    <2>1. CASE Start(b)
      BY <2>1, Zenon DEF Start, PC
    <2>2. CASE Get(b)
      BY <2>2, Zenon DEF Get, PC
    <2>3. CASE GetFails(b)
      BY <2>3, <1>0, Zenon DEF GetFails, Return, PC
    <2>4. CASE Judge(b)
      <3>1. CASE HeldByOtherLive(b, seen[b])
        <4>1. Return(b, FALSE) /\ UNCHANGED <<lease, current, gate, reaping, renewed, evicted, stops>>
          BY <2>4, <3>1, Zenon DEF Judge
        <4> QED
          BY <4>1, <1>0, Zenon DEF Return, PC
      <3>2. CASE ~ HeldByOtherLive(b, seen[b])
        BY <2>4, <3>2, <1>0, Zenon DEF Judge, PC
      <3>3. QED
        BY <3>1, <3>2, Zenon
    <2>5. CASE Apply(b) \/ ApplyAnswerLost(b)
      <3>1. Write(b) /\ \E answer \in BOOLEAN : Return(b, answer)
        BY <2>5, Zenon DEF Apply, ApplyAnswerLost
      <3>2. lease' \in LeaseObject
        BY <3>1, Zenon DEF Write, LeaseObject
      <3>3. /\ current' \in [Broker -> BOOLEAN]
            /\ renewed' \in [Broker -> Age]
            /\ evicted' \in [Broker -> BOOLEAN]
        BY <3>1, Zenon DEF Write
      <3>4. /\ leading' \in [Broker -> BOOLEAN]
            /\ seen' \in [Broker -> LeaseObject \cup {NoLease}]
            /\ stamp' \in [Broker -> Age]
            /\ pc' \in [Broker -> PC]
        BY <3>1, <1>0 DEF Return, PC
      <3>5. QED
        BY <2>5, <3>2, <3>3, <3>4, Zenon DEF Apply, ApplyAnswerLost
    <2>6. CASE ApplyFails(b)
      BY <2>6, <1>0, Zenon DEF ApplyFails, Return, PC
    <2>7. CASE SetGate(b)
      BY <2>7, Zenon DEF SetGate, PC
    <2>8. CASE Wake(b)
      BY <2>8, Zenon DEF Wake, PC
    <2>9. CASE Shutdown(b)
      BY <2>9, <1>0 DEF Shutdown, PC
    <2>10. CASE Release(b)
      <3>1. evicted' \in [Broker -> BOOLEAN]
        BY <2>10, Zenon DEF Release
      <3>2. QED
        BY <2>10, <3>1, Zenon DEF Release, PC
    <2>11. CASE ReleaseFails(b)
      BY <2>11, Zenon DEF ReleaseFails, PC
    <2>12. CASE StepDown(b)
      BY <2>12, Zenon DEF StepDown, PC
    <2>13. CASE Crash(b)
      BY <2>13, <1>0 DEF Crash, PC
    <2>14. CASE ReapBegin(b)
      BY <2>14, Zenon DEF ReapBegin
    <2>15. CASE ReapEnd(b)
      BY <2>15, Zenon DEF ReapEnd
    <2>16. QED
      BY <1>2, <2>1, <2>2, <2>3, <2>4, <2>5, <2>6, <2>7, <2>8, <2>9, <2>10,
         <2>11, <2>12, <2>13, <2>14, <2>15, Zenon DEF BrokerStep
  <1>3. CASE UNCHANGED vars
    BY <1>3, Zenon DEF vars
  <1>4. QED
    BY <1>1, <1>2, <1>3, Zenon DEF Next

(* The leader loop's locals, the gates and the Lease object stay in their  *)
(* types in every behaviour.                                               *)
THEOREM LeaserTypes == Spec => []TypeOK
  BY TypeInit, TypeNext, PTL DEF Spec
-----------------------------------------------------------------------------
(* Why an accepted write is safe: it meets no object, or an object that    *)
(* its own replica holds or that has expired on its own clock.             *)
LEMMA AcceptedWriteIsSafe ==
    ASSUME IInv, NEW b \in Broker, pc[b] = "apply", Accepts(b)
    PROVE  ~ HeldByOtherLive(b, lease)
  <1>1. CASE seen[b] = NoLease
    BY <1>1, Zenon DEF Accepts, HeldByOtherLive
  <1>2. CASE seen[b] # NoLease
    <2>1. current[b]
      BY <1>2, Zenon DEF Accepts
    <2>2. seen[b] = lease
      BY <2>1, Zenon DEF IInv, SeenIsCurrent
    <2>3. QED
      BY <2>2, Zenon DEF IInv, JudgedStaysExpired
  <1>3. QED
    BY <1>1, <1>2, Zenon

(* A replica whose renewal is recent is live to every other replica.       *)
LEMMA RecentIsLive ==
    ASSUME IInv, NEW b \in Broker, NEW c \in Broker, b # c, Recent(b),
           lease # NoLease, lease.holder = b
    PROVE  HeldByOtherLive(c, lease)
  <1>1. lease.age = renewed[b] /\ renewed[b] \in 0..MaxAge
    BY Zenon DEF IInv, HolderAge, TypeOK, Age
  <1>2. /\ Skew[b] \in Int /\ Skew[c] \in Int /\ SkewSpan \in Nat
        /\ Duration \in Nat /\ MaxAge \in Nat
        /\ Skew[c] - Skew[b] <= SkewSpan
    BY LeaserAssumption, Zenon
  <1>3. renewed[b] + SkewSpan < Duration
    BY Zenon DEF Recent
  <1>4. AgeFor(c, lease) < Duration
    BY <1>1, <1>2, <1>3 DEF AgeFor
  <1>5. QED
    BY <1>4, Zenon DEF HeldByOtherLive

(* At the start nobody leads and the Lease is not there, so the invariant  *)
(* holds.                                                                  *)
LEMMA InvInit == Init => IInv
  <1> SUFFICES ASSUME Init PROVE IInv
    OBVIOUS
  <1>1. TypeOK
    BY TypeInit, Zenon
  <1>2. SeenIsCurrent /\ JudgedStaysExpired /\ HolderAge /\ ReleasingLeads
    BY Zenon DEF Init, SeenIsCurrent, JudgedStaysExpired, HolderAge, ReleasingLeads
  <1>3. FreshHolder
    BY Zenon DEF Init, FreshHolder, Holding
  <1>4. QED
    BY <1>1, <1>2, <1>3, Zenon DEF IInv

(* The passing of a second keeps the invariant: it ages the leader's       *)
(* reading and the Lease alike.                                            *)
LEMMA InvTick == ASSUME IInv, Tick PROVE IInv'
  <1> USE DEF IInv
  <1>0. TypeOK'
    BY TypeNext, Zenon DEF Next
  <1>1. SeenIsCurrent'
    BY Zenon DEF Tick, SeenIsCurrent, TypeOK
  <1>2. JudgedStaysExpired'
    <2> SUFFICES ASSUME NEW b \in Broker, pc'[b] = "apply"
                 PROVE  ~ HeldByOtherLive(b, seen'[b])
      BY Zenon DEF JudgedStaysExpired, HeldByOtherLive, AgeFor
    <2>1. /\ pc[b] = "apply"
          /\ seen'[b] = OlderObject(seen[b])
          /\ seen[b] \in LeaseObject \cup {NoLease}
      BY Zenon DEF Tick, TypeOK
    <2>2. QED
      BY <2>1, ExpiredStaysExpired, Zenon DEF JudgedStaysExpired
  <1>3. HolderAge'
    <2> SUFFICES ASSUME lease' # NoLease
                 PROVE  renewed'[lease'.holder] = lease'.age
      BY Zenon DEF HolderAge
    <2>1. /\ lease # NoLease
          /\ lease'.holder = lease.holder
          /\ lease'.age = Older(lease.age)
          /\ lease.holder \in Broker
      BY OlderLease, Zenon DEF Tick, TypeOK
    <2>2. QED
      BY <2>1, Zenon DEF Tick, HolderAge
  <1>4. FreshHolder'
    <2> SUFFICES ASSUME NEW b \in Broker, Holding(b)', Recent(b)'
                 PROVE  \/ lease' # NoLease /\ lease'.holder = b
                        \/ pc'[b] = "stepdown"
      BY Zenon DEF FreshHolder
    <2>1. Holding(b)
      BY Zenon DEF Tick, Holding
    <2>2. renewed'[b] = Older(renewed[b]) /\ renewed[b] \in Age
      BY Zenon DEF Tick, TypeOK
    <2>3. Older(renewed[b]) \in Age /\ Older(renewed[b]) >= renewed[b]
      BY <2>2, OlderAge, Zenon
    <2>4. renewed[b] + SkewSpan < Duration
      BY <2>2, <2>3, LeaserAssumption DEF Recent, Age
    <2>5. Recent(b)
      BY <2>4, Zenon DEF Tick, Recent
    <2>6. \/ lease # NoLease /\ lease.holder = b
          \/ pc[b] = "stepdown"
      BY <2>1, <2>5, Zenon DEF FreshHolder
    <2>7. QED
      BY <2>6, OlderLease, Zenon DEF Tick, TypeOK
  <1>5. ReleasingLeads'
    BY Zenon DEF Tick, ReleasingLeads
  <1>6. QED
    BY <1>0, <1>1, <1>2, <1>3, <1>4, <1>5, Zenon

(* The accepted writes, whether or not their answer arrives.               *)
LEMMA InvWrite ==
    ASSUME IInv, NEW b \in Broker, Apply(b) \/ ApplyAnswerLost(b)
    PROVE  IInv'
  <1> USE DEF IInv
  <1>0. TypeOK'
    BY TypeNext, Zenon DEF Next, BrokerStep
  <1>1. /\ pc[b] = "apply" /\ Accepts(b) /\ Write(b)
        /\ \E answer \in BOOLEAN : Return(b, answer)
        /\ UNCHANGED <<gate, reaping, stops>>
    BY Zenon DEF Apply, ApplyAnswerLost
  <1>2. \A c \in Broker : ~ current'[c]
    BY <1>1, Zenon DEF Write
  <1>3. lease' = [holder |-> b, age |-> stamp[b]] /\ lease' # NoLease
    <2>1. lease' = [holder |-> b, age |-> stamp[b]]
      BY <1>1, Zenon DEF Write
    <2>2. lease' \in LeaseObject
      BY <2>1, Zenon DEF LeaseObject, TypeOK
    <2>3. QED
      BY <2>1, <2>2, LeaserAssumption, Zenon DEF LeaseObject, Age
  <1>4. /\ pc'[b] = "reply"
        /\ \A c \in Broker : c # b => /\ pc'[c] = pc[c]
                                      /\ seen'[c] = seen[c]
                                      /\ leading'[c] = leading[c]
    BY <1>1, Zenon DEF Return, TypeOK
  <1>5. SeenIsCurrent'
    BY <1>2, Zenon DEF SeenIsCurrent
  <1>6. JudgedStaysExpired'
    <2> SUFFICES ASSUME NEW c \in Broker, pc'[c] = "apply"
                 PROVE  ~ HeldByOtherLive(c, seen'[c])
      BY Zenon DEF JudgedStaysExpired, HeldByOtherLive, AgeFor
    <2>1. pc[c] = "apply" /\ seen'[c] = seen[c]
      BY <1>4, Zenon
    <2>2. QED
      BY <2>1, Zenon DEF JudgedStaysExpired
  <1>7. HolderAge'
    BY <1>1, <1>3 DEF HolderAge, Write, TypeOK
  <1>8. FreshHolder'
    <2> SUFFICES ASSUME NEW c \in Broker, c # b, Holding(c)', Recent(c)'
                 PROVE  pc'[c] = "stepdown"
      BY <1>3, Zenon DEF FreshHolder
    <2>1. Holding(c) /\ pc'[c] = pc[c]
      BY <1>1, <1>4, Zenon DEF Holding
    <2>2. Recent(c)
      BY <1>1, Zenon DEF Recent, Write, TypeOK
    <2>3. CASE lease # NoLease /\ lease.holder = c
      <3>1. HeldByOtherLive(b, lease)
        BY <2>2, <2>3, RecentIsLive, Zenon
      <3>2. QED
        BY <3>1, <1>1, AcceptedWriteIsSafe, Zenon
    <2>4. QED
      BY <2>1, <2>2, <2>3, Zenon DEF FreshHolder
  <1>9. ReleasingLeads'
    BY <1>1, <1>4, Zenon DEF ReleasingLeads
  <1>10. QED
    BY <1>0, <1>5, <1>6, <1>7, <1>8, <1>9, Zenon

(* The delete of a step-down, whoever held the lease.                      *)
LEMMA InvRelease ==
    ASSUME IInv, NEW b \in Broker, Release(b)
    PROVE  IInv'
  <1> USE DEF IInv
  <1>0. TypeOK'
    BY TypeNext, Zenon DEF Next, BrokerStep
  <1>1. SeenIsCurrent' /\ HolderAge'
    BY Zenon DEF Release, SeenIsCurrent, HolderAge
  <1>2. JudgedStaysExpired'
    BY Zenon DEF Release, JudgedStaysExpired, HeldByOtherLive, AgeFor, TypeOK
  <1>3. FreshHolder'
    <2> SUFFICES ASSUME NEW c \in Broker, Holding(c)', Recent(c)'
                 PROVE  pc'[c] = "stepdown"
      BY Zenon DEF FreshHolder
    <2>1. CASE c = b
      BY <2>1, Zenon DEF Release, TypeOK
    <2>2. CASE c # b
      <3>1. Holding(c) /\ pc'[c] = pc[c]
        BY <2>2, Zenon DEF Release, Holding, TypeOK
      <3>2. Recent(c) /\ ~ (lease # NoLease /\ lease.holder = c)
        BY <2>2, Zenon DEF Release, Recent
      <3>3. QED
        BY <3>1, <3>2, Zenon DEF FreshHolder
    <2>3. QED
      BY <2>1, <2>2, Zenon
  <1>4. ReleasingLeads'
    BY Zenon DEF Release, ReleasingLeads, TypeOK
  <1>5. QED
    BY <1>0, <1>1, <1>2, <1>3, <1>4, Zenon

(* The steps of the loop that leave the Lease object alone.                *)
LEMMA InvLocal ==
    ASSUME IInv, NEW b \in Broker, UNCHANGED <<lease, renewed, evicted>>,
           BrokerStep(b), ~ Apply(b), ~ ApplyAnswerLost(b), ~ Release(b)
    PROVE  IInv'
  <1> USE DEF IInv
  <1>0. TypeOK'
    BY TypeNext, Zenon DEF Next
  <1>1. HolderAge'
    BY Zenon DEF HolderAge
  <1>2. \A c \in Broker : Recent(c)' <=> Recent(c)
    BY Zenon DEF Recent
  <1>3. /\ SeenIsCurrent' /\ JudgedStaysExpired' /\ FreshHolder'
        /\ ReleasingLeads'
    <2> USE DEF SeenIsCurrent, JudgedStaysExpired, FreshHolder, Holding,
                ReleasingLeads
    <2>1. CASE Start(b)
      BY <1>2, <2>1, Zenon DEF Start, HeldByOtherLive, AgeFor, TypeOK
    <2>2. CASE Get(b)
      BY <1>2, <2>2, Zenon DEF Get, HeldByOtherLive, AgeFor, TypeOK
    <2>3. CASE GetFails(b)
      BY <1>2, <2>3, Zenon DEF GetFails, Return, HeldByOtherLive, AgeFor, TypeOK
    <2>4. CASE Judge(b)
      <3>1. CASE HeldByOtherLive(b, seen[b])
        BY <1>2, <2>4, <3>1, SMTT(60)
           DEF Judge, Return, HeldByOtherLive, AgeFor, TypeOK
      <3>2. CASE ~ HeldByOtherLive(b, seen[b])
        BY <1>2, <2>4, <3>2, Zenon DEF Judge, HeldByOtherLive, AgeFor, TypeOK
      <3>3. QED
        BY <3>1, <3>2, Zenon
    <2>5. CASE ApplyFails(b)
      BY <1>2, <2>5, Zenon DEF ApplyFails, Return, HeldByOtherLive, AgeFor, TypeOK
    <2>6. CASE SetGate(b)
      BY <1>2, <2>6, Zenon DEF SetGate, HeldByOtherLive, AgeFor, TypeOK
    <2>7. CASE Wake(b)
      BY <1>2, <2>7, Zenon DEF Wake, HeldByOtherLive, AgeFor, TypeOK
    <2>8. CASE Shutdown(b)
      BY <1>2, <2>8, Zenon DEF Shutdown, HeldByOtherLive, AgeFor, TypeOK
    <2>9. CASE ReleaseFails(b)
      BY <1>2, <2>9, Zenon DEF ReleaseFails, HeldByOtherLive, AgeFor, TypeOK
    <2>10. CASE StepDown(b)
      BY <1>2, <2>10, Zenon DEF StepDown, HeldByOtherLive, AgeFor, TypeOK
    <2>11. CASE Crash(b)
      BY <1>2, <2>11, Zenon DEF Crash, HeldByOtherLive, AgeFor, TypeOK
    <2>12. CASE ReapBegin(b) \/ ReapEnd(b)
      BY <1>2, <2>12, Zenon DEF ReapBegin, ReapEnd, HeldByOtherLive, AgeFor, TypeOK
    <2>13. QED
      BY <2>1, <2>2, <2>3, <2>4, <2>5, <2>6, <2>7, <2>8, <2>9, <2>10, <2>11,
         <2>12, Zenon DEF BrokerStep
  <1>4. QED
    BY <1>0, <1>1, <1>3, Zenon

(* Every step of a broker and of the clock keeps the invariant.            *)
LEMMA InvNext == IInv /\ [Next]_vars => IInv'
  <1> SUFFICES ASSUME IInv, [Next]_vars PROVE IInv'
    OBVIOUS
  <1>1. CASE Tick
    BY <1>1, InvTick, Zenon
  <1>2. ASSUME NEW b \in Broker, BrokerStep(b) PROVE IInv'
    <2>1. CASE Apply(b) \/ ApplyAnswerLost(b)
      BY <2>1, InvWrite, Zenon
    <2>2. CASE Release(b)
      BY <2>2, InvRelease, Zenon
    <2>3. CASE ~ Apply(b) /\ ~ ApplyAnswerLost(b) /\ ~ Release(b)
      <3>1. UNCHANGED <<lease, renewed, evicted>>
        BY <1>2, <2>3, Zenon DEF BrokerStep, Start, Get, GetFails, Judge, ApplyFails,
           SetGate, Wake, Shutdown, ReleaseFails, StepDown, Crash, ReapBegin,
           ReapEnd
      <3>2. QED
        BY <1>2, <2>3, <3>1, InvLocal, Zenon
    <2>4. QED
      BY <2>1, <2>2, <2>3, Zenon
  <1>3. CASE UNCHANGED vars
    <2>1. TypeOK'
      BY <1>3, TypeNext, Zenon DEF IInv
    <2>2. QED
      BY <1>3, <2>1, Zenon DEF vars, IInv, SeenIsCurrent, JudgedStaysExpired,
         HolderAge, FreshHolder, Holding, Recent, HeldByOtherLive, AgeFor,
         ReleasingLeads
  <1>4. QED
    BY <1>1, <1>2, <1>3, Zenon DEF Next

(* A replica whose gate is open and whose last applied renewal no clock    *)
(* can yet call expired is the holder in the Lease object, unless it is    *)
(* stepping down or a peer deleted the lease (leaser.rs:340-370).          *)
THEOREM FreshLeaderTheorem == Spec => []FreshLeaderHoldsLease
  <1>1. IInv => FreshLeaderHoldsLease
    BY Zenon DEF IInv, FreshHolder, FreshLeaderHoldsLease, FreshLeader, Holding,
       Recent
  <1>2. QED
    BY <1>1, InvInit, InvNext, PTL DEF Spec

(* A live holder is never overwritten, whatever interleaving of reads,     *)
(* delays and writes (leaser.rs:139-181).                                  *)
THEOREM TakeoverTheorem == Spec => TakeoverOnlyAfterExpiry
  <1> DEFINE Safe == (lease # NoLease /\ lease' # NoLease
                        /\ lease'.holder # lease.holder)
                      => AgeFor(lease'.holder, lease) >= Duration
  <1>1. IInv /\ [Next]_vars => [Safe]_vars
    <2> SUFFICES ASSUME IInv, Next, lease # NoLease, lease' # NoLease,
                        lease'.holder # lease.holder
                 PROVE  AgeFor(lease'.holder, lease) >= Duration
      OBVIOUS
    <2>1. lease \in LeaseObject /\ lease.holder \in Broker
      BY Zenon DEF IInv, TypeOK, LeaseObject
    <2>2. ~ Tick
      BY OlderLease, Zenon DEF Tick, IInv, TypeOK
    <2>3. PICK b \in Broker : BrokerStep(b)
      BY <2>2, Zenon DEF Next
    <2>4. Apply(b) \/ ApplyAnswerLost(b)
      BY <2>3, Zenon DEF BrokerStep, Start, Get, GetFails, Judge, ApplyFails,
         SetGate, Wake, Shutdown, Release, ReleaseFails, StepDown, Crash,
         ReapBegin, ReapEnd
    <2>5. lease'.holder = b /\ pc[b] = "apply" /\ Accepts(b)
      <3>1. pc[b] = "apply" /\ Accepts(b) /\ Write(b)
        BY <2>4, Zenon DEF Apply, ApplyAnswerLost
      <3>2. lease'.holder = b
        BY <3>1, Zenon DEF Write
      <3>3. QED
        BY <3>1, <3>2, Zenon
    <2>6. ~ HeldByOtherLive(b, lease)
      BY <2>5, AcceptedWriteIsSafe, Zenon
    <2>7. ~ (AgeFor(b, lease) < Duration)
      BY <2>5, <2>6, Zenon DEF HeldByOtherLive
    <2>8. AgeFor(b, lease) \in Int /\ Duration \in Int
      BY <2>1, LeaserAssumption DEF AgeFor, LeaseObject, Age
    <2>9. QED
      BY <2>5, <2>7, <2>8
  <1>2. QED
    BY <1>1, InvInit, InvNext, PTL DEF Spec, TakeoverOnlyAfterExpiry

(* A step-down deletes the lease of another replica only if the one that   *)
(* steps down leads on a renewal that may have expired, or had its own     *)
(* lease deleted (leaser.rs:214-221, 366-368).                             *)
THEOREM EvictionTheorem == Spec => EvictedOnlyByDeposed
  <1> DEFINE Blame(c) ==
               \E b \in Broker \ {c} :
                   /\ pc[b] = "release" /\ gate[b]
                   /\ renewed[b] + SkewSpan >= Duration \/ evicted[b]
  <1> DEFINE Safe == \A c \in Broker : evicted'[c] /\ ~ evicted[c] => Blame(c)
  <1>1. IInv /\ [Next]_vars => [Safe]_vars
    <2> SUFFICES ASSUME IInv, Next, NEW c \in Broker, evicted'[c], ~ evicted[c]
                 PROVE  Blame(c)
      OBVIOUS
    <2>1. PICK b \in Broker : BrokerStep(b)
      BY Zenon DEF Next, Tick
    <2>2. CASE Apply(b) \/ ApplyAnswerLost(b)
      <3>1. Write(b)
        BY <2>2, Zenon DEF Apply, ApplyAnswerLost
      <3>2. QED
        BY <3>1, Zenon DEF Write, IInv, TypeOK
    <2>3. CASE Release(b)
      <3>1. c # b /\ lease # NoLease /\ lease.holder = c /\ pc[b] = "release"
        BY <2>3, Zenon DEF Release
      <3>2. gate[b]
        BY <3>1, Zenon DEF IInv, ReleasingLeads
      <3>3. ~ Recent(b)
        BY <3>1, <3>2, Zenon DEF IInv, FreshHolder, Holding
      <3>4. renewed[b] \in Nat /\ SkewSpan \in Nat /\ Duration \in Nat
        BY LeaserAssumption DEF IInv, TypeOK, Age
      <3>5. ~ (renewed[b] + SkewSpan < Duration) \/ evicted[b]
        BY <3>3, Zenon DEF Recent
      <3>6. ~ (renewed[b] + SkewSpan < Duration) => renewed[b] + SkewSpan >= Duration
        BY <3>4, SMT
      <3>7. renewed[b] + SkewSpan >= Duration \/ evicted[b]
        BY <3>5, <3>6, Zenon
      <3>8. QED
        BY <3>1, <3>2, <3>7, Zenon
    <2>4. CASE ~ Apply(b) /\ ~ ApplyAnswerLost(b) /\ ~ Release(b)
      BY <2>1, <2>4, Zenon DEF BrokerStep, Start, Get, GetFails, Judge, ApplyFails,
         SetGate, Wake, Shutdown, ReleaseFails, StepDown, Crash, ReapBegin,
         ReapEnd
    <2>5. QED
      BY <2>2, <2>3, <2>4, Zenon
  <1>2. QED
    BY <1>1, InvInit, InvNext, PTL DEF Spec, EvictedOnlyByDeposed

-----------------------------------------------------------------------------
(* What a Sandbox is built from *)

(* What a Sandbox, or a resolve that builds one, has for a pod. *)
Shaped(source, repointed, n) ==
    IF repointed THEN apply_persistent_volume(source, workspace_layout(n)) ELSE source

(* A stamped Sandbox is its source with the broker's changes. *)
StampedFrom(n) ==
    crs[n] # Missing /\ crs[n].hash # Missing =>
        \E source \in Blueprints, t \in Template, repointed \in BOOLEAN :
            crs[n] = build_sandbox(n, Shaped(source, repointed, n), t, source, repointed)

(* A resolve or POST at its creation has cloned a template, and one in the *)
(* PVC modes has repointed the clone.                                      *)
MakerTrue(m) ==
    maker[m] # Missing =>
        /\ DOMAIN maker[m] = {"pc", "n", "seen", "judged", "from", "pod", "source", "repointed"}
        /\ maker[m].n \in Named
        /\ maker[m].pc # "create" => maker[m].repointed = FALSE
        /\ maker[m].pc \in {"pvc", "create"} =>
              /\ maker[m].source \in Blueprints /\ maker[m].from \in Template
              /\ maker[m].repointed \in BOOLEAN
              /\ maker[m].pod = Shaped(maker[m].source, maker[m].repointed, maker[m].n)

BlueprintIInv ==
    /\ live \in [Template -> Blueprints \cup {NoPod, Missing}]
    /\ DOMAIN crs = Named /\ DOMAIN maker = Maker
    /\ \A n \in Named : StampedFrom(n)
    /\ \A m \in Maker : MakerTrue(m)

(* The broker's changes do not depend on the order of a blueprint's keys:  *)
(* two that have one hash make the same pod.                               *)
LEMMA SameHashSamePod ==
    ASSUME NEW p \in Blueprints, NEW q \in Blueprints, canonical_json(p) = canonical_json(q),
           NEW n, NEW repointed \in BOOLEAN
    PROVE  canonical_json(Marked(Shaped(p, repointed, n), n)) = canonical_json(Marked(Shaped(q, repointed, n), n))
<1> DEFINE Pod(o, i, l, v, ms) == [order |-> o, image |-> i, label |-> l, vols |-> v, mounts |-> ms]
           With(pod, x, y) == [[pod EXCEPT !.vols = x] EXCEPT !.mounts = y]
           Locked(v) == v @@ ("runtime-key" :> <<"secret", n.name>>)
           Claimed(v) == [v EXCEPT !["workspace"] = workspace_layout(n).claim]
           Keyed(ms) == [i \in DOMAIN ms |-> ms[i] @@ ("runtime-key" :> <<>>)]
           Moved(ms) == [i \in DOMAIN ms |-> [v \in DOMAIN ms[i] |-> IF v = "workspace" THEN workspace_layout(n).sub ELSE ms[i][v]]]
<1>1. \A b \in Blueprints : b = Pod(b.order, b.image, b.label, b.vols, b.mounts)
  BY BlueprintAssumption, Zenon
<1>2. ASSUME NEW o, NEW i, NEW l, NEW v, NEW ms
      PROVE  canonical_json(Pod(o, i, l, v, ms)) = Pod(1, i, l, v, ms)
  BY DEF canonical_json
<1>0. ASSUME NEW o, NEW i, NEW l, NEW v, NEW ms
      PROVE  /\ Pod(o, i, l, v, ms).vols = v /\ Pod(o, i, l, v, ms).mounts = ms
             /\ \A x, y : With(Pod(o, i, l, v, ms), x, y) = Pod(o, i, l, x, y)
  <2>1. ASSUME NEW x, NEW y PROVE With(Pod(o, i, l, v, ms), x, y) = Pod(o, i, l, x, y)
    <3>1. [Pod(o, i, l, v, ms) EXCEPT !.vols = x] = Pod(o, i, l, x, ms)
      OBVIOUS
    <3>2. [Pod(o, i, l, x, ms) EXCEPT !.mounts = y] = Pod(o, i, l, x, y)
      OBVIOUS
    <3> QED
      BY <3>1, <3>2, Zenon
  <2>2. Pod(o, i, l, v, ms).vols = v /\ Pod(o, i, l, v, ms).mounts = ms
    OBVIOUS
  <2> HIDE DEF Pod, With
  <2> QED
    BY <2>1, <2>2, Zenon
<1>3. ASSUME NEW o, NEW i, NEW l, NEW v, NEW ms
      PROVE  Marked(Pod(o, i, l, v, ms), n) = Pod(o, i, n.profile, Locked(v), Keyed(ms))
  <2>1. ASSUME NEW pod PROVE inject_volume(pod, n) = With(pod, Locked(pod.vols), Keyed(pod.mounts))
    BY Zenon DEF inject_volume
  <2>2. Marked(Pod(o, i, l, v, ms), n) = inject_volume([Pod(o, i, l, v, ms) EXCEPT !.label = n.profile], n)
    BY Zenon DEF Marked
  <2>3. [Pod(o, i, l, v, ms) EXCEPT !.label = n.profile] = Pod(o, i, n.profile, v, ms)
    OBVIOUS
  <2> HIDE DEF Pod, With, Locked, Keyed
  <2> QED
    BY <1>0, <2>1, <2>2, <2>3
<1>4. ASSUME NEW o, NEW i, NEW l, NEW v, NEW ms
      PROVE  apply_persistent_volume(Pod(o, i, l, v, ms), workspace_layout(n)) = Pod(o, i, l, Claimed(v), Moved(ms))
  <2>1. ASSUME NEW pod
        PROVE  apply_persistent_volume(pod, workspace_layout(n)) = With(pod, Claimed(pod.vols), Moved(pod.mounts))
    BY Zenon DEF apply_persistent_volume
  <2> HIDE DEF Pod, With, Claimed, Moved
  <2> QED
    BY <1>0, <2>1
<1>5. p.image = q.image /\ p.label = q.label /\ p.vols = q.vols /\ p.mounts = q.mounts
  <2>1. Pod(1, p.image, p.label, p.vols, p.mounts) = Pod(1, q.image, q.label, q.vols, q.mounts)
    BY <1>1, <1>2
  <2> QED
    BY <2>1, Zenon
<1> HIDE DEF Pod, Locked, Claimed, Keyed, Moved
<1>6. CASE repointed
  <2>1. \A b \in Blueprints : Shaped(b, repointed, n) = Pod(b.order, b.image, b.label, Claimed(b.vols), Moved(b.mounts))
    BY <1>1, <1>4, <1>6, SMTT(60) DEF Shaped
  <2>2. \A b \in Blueprints :
          canonical_json(Marked(Shaped(b, repointed, n), n))
            = Pod(1, b.image, n.profile, Locked(Claimed(b.vols)), Keyed(Moved(b.mounts)))
    BY <1>2, <1>3, <2>1, SMTT(60)
  <2> QED
    BY <1>5, <2>2, Zenon
<1>7. CASE ~ repointed
  <2>1. \A b \in Blueprints :
          canonical_json(Marked(Shaped(b, repointed, n), n))
            = Pod(1, b.image, n.profile, Locked(b.vols), Keyed(b.mounts))
    BY <1>1, <1>2, <1>3, <1>7 DEF Shaped
  <2> QED
    BY <1>5, <2>1, Zenon
<1> QED
  BY <1>6, <1>7, Zenon

(* No Sandbox is stamped at first.                                         *)
LEMMA BlueprintInitial == BlueprintInit => BlueprintIInv
<1> SUFFICES ASSUME BlueprintInit PROVE BlueprintIInv
  OBVIOUS
<1>1. \A n \in Named : StampedFrom(n)
  BY DEF BlueprintInit, Unstamped, StampedFrom
<1>2. \A m \in Maker : MakerTrue(m)
  BY Zenon DEF BlueprintInit, MakerTrue
<1> QED
  BY <1>1, <1>2, Zenon DEF BlueprintInit, BlueprintIInv
(* Every step of a resolve, a tick or a POST, and every edit, keeps what   *)
(* the stamps say.                                                         *)
LEMMA BlueprintStep == BlueprintIInv /\ [BlueprintNext]_blueprintVars => BlueprintIInv'
<1> SUFFICES ASSUME BlueprintIInv, [BlueprintNext]_blueprintVars PROVE BlueprintIInv'
  BY Zenon 
<1> USE DEF BlueprintIInv
<1>t. tier' = tier
  BY Zenon DEF BlueprintNext, Making, GetSandbox, PostSandbox, CheckDrift, DeleteStale, FetchTemplate,
         EnsureWorkspacePvc, CreateSandbox, CallFails, Edit, blueprintVars
<1>s. \A p, repointed, n : Shaped(p, repointed, n)' = Shaped(p, repointed, n)
  BY <1>t, Zenon DEF Shaped, workspace_layout
<1>0. ASSUME NEW m \in Maker, NEW w, Makes(m, w), UNCHANGED <<live, crs>>,
             w = Missing \/ (maker' = [maker EXCEPT ![m] = w] => MakerTrue(m)')
      PROVE  BlueprintIInv'
  <2>1. \A n \in Named : StampedFrom(n)'
    BY <1>0, <1>s, Zenon DEF StampedFrom
  <2>2. ASSUME NEW k \in Maker PROVE MakerTrue(k)'
    <3>1. CASE k # m
      <4>1. maker'[k] = maker[k] /\ MakerTrue(k)
        BY <1>0, <3>1, Zenon DEF Makes
      <4> QED
        BY <1>s, <4>1, Zenon DEF MakerTrue
    <3>2. CASE k = m
      BY <1>0, <3>2, Zenon DEF Makes, MakerTrue
    <3> QED
      BY <3>1, <3>2, Zenon
  <2> QED
    BY <1>0, <2>1, <2>2, Zenon DEF Makes
<1>1. ASSUME NEW m \in Maker, NEW n \in Named, GetSandbox(m, n) PROVE BlueprintIInv'
  <2>1. ASSUME NEW label \in {"drift", "fetch"}, NEW got, Makes(m, Begun(label, n, got)) PROVE MakerTrue(m)'
    BY <2>1, Zenon DEF Makes, Begun, MakerTrue
  <2> QED
    BY <1>0, <1>1, <2>1, Zenon DEF GetSandbox
<1>2. ASSUME NEW m \in Maker, NEW work, NEW t \in Template, Clones(m, work, t), UNCHANGED <<live, crs>>,
             DOMAIN work = {"pc", "n", "seen", "judged", "from", "pod", "source", "repointed"},
             work.n \in Named, work.repointed = FALSE
      PROVE  BlueprintIInv'
  <2>1. CASE live[t] \in {Missing, NoPod}
    BY <1>0, <1>2, <2>1, Zenon DEF Clones
  <2>2. CASE live[t] \notin {Missing, NoPod}
    <3> DEFINE w == [work EXCEPT !.from = t, !.pod = live[t], !.source = live[t]]
    <3>1. /\ DOMAIN w = {"pc", "n", "seen", "judged", "from", "pod", "source", "repointed"}
          /\ w.n = work.n /\ w.repointed = FALSE
          /\ w.source = live[t] /\ w.pod = live[t] /\ w.from = t
      BY <1>2, Zenon
    <3>2. Makes(m, w) /\ live[t] \in Blueprints
      BY <1>2, <2>2, Zenon DEF Clones
    <3>3. Shaped(w.source, w.repointed, w.n) = w.pod
      BY <3>1, Zenon DEF Shaped
    <3> HIDE DEF w
    <3>4. maker' = [maker EXCEPT ![m] = w] => MakerTrue(m)'
      BY <1>2, <1>s, <3>1, <3>2, <3>3, Zenon DEF MakerTrue
    <3> QED
      BY <1>0, <1>2, <3>2, <3>4, Zenon
  <2> QED
    BY <2>1, <2>2, Zenon
<1>3. ASSUME NEW m \in Maker, NEW n \in Named, NEW t \in Template, PostSandbox(m, n, t) PROVE BlueprintIInv'
  <2> DEFINE work == Begun("create", n, Missing)
  <2>1. /\ DOMAIN work = {"pc", "n", "seen", "judged", "from", "pod", "source", "repointed"}
        /\ work.n \in Named /\ work.repointed = FALSE
    BY Zenon DEF Begun
  <2> HIDE DEF work
  <2> QED
    BY <1>2, <1>3, <2>1, Zenon DEF PostSandbox, work
<1>4. ASSUME NEW m \in Maker, CheckDrift(m) PROVE BlueprintIInv'
  <2>1. maker[m] # Missing /\ maker[m].pc = "drift"
    BY <1>4, Zenon DEF CheckDrift, At
  <2>2. ASSUME NEW pod, Makes(m, [maker[m] EXCEPT !.pc = "delete", !.judged = pod]) PROVE MakerTrue(m)'
    BY <2>1, <2>2, Zenon DEF Makes, MakerTrue
  <2> QED
    BY <1>0, <1>4, <2>2, Zenon DEF CheckDrift, Ends
<1>5. ASSUME NEW m \in Maker, DeleteStale(m) PROVE BlueprintIInv'
  <2>1. maker[m] # Missing /\ maker[m].pc = "delete"
    BY <1>5, Zenon DEF DeleteStale, At
  <2>2. CASE Ends(m) /\ UNCHANGED crs
    BY <1>0, <1>5, <2>2, Zenon DEF DeleteStale, Ends
  <2>3. CASE /\ crs' = [crs EXCEPT ![maker[m].n] = Missing]
             /\ Makes(m, [maker[m] EXCEPT !.pc = "fetch"])
    <3>1. \A n \in Named : StampedFrom(n)'
      BY <1>s, <2>3, Zenon DEF StampedFrom
    <3>2. \A k \in Maker : MakerTrue(k)'
      BY <1>s, <2>1, <2>3, Zenon DEF Makes, MakerTrue
    <3> QED
      BY <1>5, <2>3, <3>1, <3>2, Zenon DEF DeleteStale, Makes
  <2> QED
    BY <1>5, <2>2, <2>3, Zenon DEF DeleteStale
<1>6. ASSUME NEW m \in Maker, FetchTemplate(m) PROVE BlueprintIInv'
  <2>1. maker[m] # Missing /\ maker[m].pc = "fetch" /\ MakerTrue(m)
    BY <1>6, Zenon DEF FetchTemplate, At
  <2> DEFINE work == [maker[m] EXCEPT !.pc = IF OnPvc(maker[m].n) THEN "pvc" ELSE "create"]
  <2>2. /\ DOMAIN work = {"pc", "n", "seen", "judged", "from", "pod", "source", "repointed"}
        /\ work.n \in Named /\ work.repointed = FALSE
    BY <2>1, Zenon DEF MakerTrue
  <2>3. Clones(m, work, BaseTemplate) /\ UNCHANGED <<live, crs>>
    BY <1>6, Zenon DEF FetchTemplate
  <2> HIDE DEF work
  <2> QED
    BY <1>2, <2>2, <2>3, BlueprintAssumption, Zenon
<1>7. ASSUME NEW m \in Maker, EnsureWorkspacePvc(m) PROVE BlueprintIInv'
  <2> DEFINE at == workspace_layout(maker[m].n)
             w == [maker[m] EXCEPT !.pc = "create", !.repointed = TRUE, !.pod = apply_persistent_volume(maker[m].pod, at)]
  <2>1. maker[m] # Missing /\ maker[m].pc = "pvc" /\ MakerTrue(m) /\ UNCHANGED <<live, crs>>
    BY <1>7, Zenon DEF EnsureWorkspacePvc, At
  <2>2. Makes(m, Missing) \/ Makes(m, w)
    BY <1>7, Zenon DEF EnsureWorkspacePvc, Ends
  <2>3. /\ DOMAIN w = {"pc", "n", "seen", "judged", "from", "pod", "source", "repointed"}
        /\ w.n = maker[m].n /\ w.repointed = TRUE /\ w.source = maker[m].source /\ w.from = maker[m].from
        /\ w.pod = apply_persistent_volume(maker[m].pod, at) /\ w.pc = "create"
    BY <2>1, Zenon DEF MakerTrue
  <2>4. maker[m].pod = maker[m].source
    BY <2>1, Zenon DEF MakerTrue, Shaped
  <2>5. w.pod = Shaped(w.source, w.repointed, w.n)
    BY <2>3, <2>4, Zenon DEF Shaped
  <2> HIDE DEF w
  <2>6. maker' = [maker EXCEPT ![m] = w] => MakerTrue(m)'
    BY <1>s, <2>1, <2>3, <2>5, Zenon DEF MakerTrue
  <2> QED
    BY <1>0, <2>1, <2>2, <2>6, Zenon
<1>8. ASSUME NEW m \in Maker, CreateSandbox(m) PROVE BlueprintIInv'
  <2> DEFINE w == maker[m]
             cr == build_sandbox(w.n, w.pod, w.from, w.source, w.repointed)
  <2>1. w # Missing /\ w.pc = "create" /\ MakerTrue(m)
    BY <1>8, Zenon DEF CreateSandbox, At
  <2>2. crs' = crs \/ crs' = [crs EXCEPT ![w.n] = cr]
    BY <1>8, Zenon DEF CreateSandbox
  <2>3. \E source \in Blueprints, t \in Template, repointed \in BOOLEAN :
          cr = build_sandbox(w.n, Shaped(source, repointed, w.n), t, source, repointed)
    BY <2>1, Zenon DEF MakerTrue
  <2> HIDE DEF cr
  <2>4. ASSUME NEW n \in Named PROVE StampedFrom(n)'
    <3>1. CASE crs'[n] = crs[n]
      <4>1. StampedFrom(n)
        BY Zenon 
      <4> QED
        BY <1>s, <3>1, <4>1, Zenon DEF StampedFrom, build_sandbox
    <3>2. CASE n = w.n /\ crs'[n] = cr
      BY <1>s, <2>3, <3>2, Zenon DEF StampedFrom, build_sandbox
    <3> QED
      BY <2>2, <3>1, <3>2, Zenon
  <2>5. \A k \in Maker : MakerTrue(k)'
    BY <1>8, <1>s, Zenon DEF CreateSandbox, Ends, Makes, MakerTrue
  <2>6. live' = live /\ DOMAIN crs' = Named /\ DOMAIN maker' = Maker
    BY <1>8, <2>2, Zenon DEF CreateSandbox, Ends, Makes
  <2> QED
    BY <2>4, <2>5, <2>6, Zenon
<1>9. ASSUME NEW m \in Maker, CallFails(m) PROVE BlueprintIInv'
  BY <1>0, <1>9, Zenon DEF CallFails, Ends
<1>10. ASSUME NEW t \in Template, Edit(t) PROVE BlueprintIInv'
  <2>1. UNCHANGED <<crs, maker>> /\ live' \in [Template -> Blueprints \cup {NoPod, Missing}]
    BY <1>10, Zenon DEF Edit
  <2> QED
    BY <1>s, <2>1, Zenon DEF StampedFrom, MakerTrue
<1>11. CASE UNCHANGED blueprintVars
  BY <1>s, <1>11, Zenon DEF blueprintVars, StampedFrom, MakerTrue
<1> QED
  BY <1>1, <1>3, <1>4, <1>5, <1>6, <1>7, <1>8, <1>9, <1>10, <1>11, Zenon DEF BlueprintNext, Making

(* The drift check (sandbox.rs:144-150, resolve.rs:386-388), for any       *)
(* templates and any number of resolves, ticks, POSTs and edits: a stamped *)
(* Sandbox that is taken to be up to date runs its template as it is now,  *)
(* with the broker's changes, whatever was edited while it was built.      *)
THEOREM StampTheorem == BlueprintInit /\ [][BlueprintNext]_blueprintVars => []StampTrue
<1>1. BlueprintIInv => StampTrue
  <2> SUFFICES ASSUME BlueprintIInv, NEW n \in Named, crs[n] # Missing, crs[n].hash # Missing,
                      NEW pod, pod = live[template_name_of(crs[n])], pod \notin {Missing, NoPod},
                      ~ template_drifted(crs[n], pod)
               PROVE  canonical_json(crs[n].pod) = canonical_json(Marked(Shaped(pod, crs[n].repointed, n), n))
    BY Zenon DEF StampTrue, Shaped
  <2>1. PICK source \in Blueprints, t \in Template, repointed \in BOOLEAN :
             crs[n] = build_sandbox(n, Shaped(source, repointed, n), t, source, repointed)
    BY Zenon DEF BlueprintIInv, StampedFrom
  <2>2. /\ crs[n].pod = Marked(Shaped(source, repointed, n), n) /\ crs[n].hash = template_hash(source)
        /\ crs[n].from = t /\ crs[n].repointed = repointed
    BY <2>1, SMTT(60) DEF build_sandbox
  <2>3. pod \in Blueprints
    BY <2>2, BlueprintAssumption, Zenon DEF BlueprintIInv, template_name_of
  <2>4. /\ template_hash(pod) = canonical_json(pod) /\ template_hash(source) = canonical_json(source)
        /\ canonical_json(pod) # Missing
    BY <2>3, BlueprintAssumption, Zenon DEF template_hash, canonical_json
  <2>5. canonical_json(pod) = canonical_json(source)
    BY <2>2, <2>4, Zenon DEF template_drifted
  <2> QED
    BY <2>2, <2>3, <2>5, SameHashSamePod, SMTT(60)
<1> QED
  BY <1>1, BlueprintInitial, BlueprintStep, PTL
=============================================================================
