------------------------ MODULE AuditListener_proofs ------------------------
(* Proofs about AuditListener.                                             *)
EXTENDS AuditListener, TLAPS

-----------------------------------------------------------------------------
(* Type correctness.                                                       *)

LEMMA TakesType ==
  ASSUME elapsed \in Nat, NEW o \in Outcomes, Takes(o)
  PROVE  elapsed' \in Nat
BY DEF Takes, RequestWait

(* The switch is put back to what status said, so restore() is not run      *)
(* unless it said something.                                               *)
RestoresOff == pc = "restore" => prior = "off"

LEMMA NextType == TypeOK /\ RestoresOff /\ [Next]_vars => TypeOK' /\ RestoresOff'
<1> SUFFICES ASSUME TypeOK, RestoresOff, [Next]_vars PROVE TypeOK' /\ RestoresOff'
  OBVIOUS
<1> USE DEF RestoresOff, TypeOK, kernel, consumer, listener, service, ghosts
<1>1. CASE OpenSocket
  BY <1>1 DEF OpenSocket
<1>2. CASE StatusRead
  BY <1>2 DEF StatusRead
<1>3. CASE StatusUnread
  <2>1. known' \in BOOLEAN
    BY <1>3, Zenon DEF StatusUnread
  <2>2. elapsed' \in Nat
    BY <1>3 DEF StatusUnread, RequestWait
  <2> QED
    BY <1>3, <2>1, <2>2 DEF StatusUnread
<1>4. ASSUME NEW o \in Outcomes, Claim(o) PROVE TypeOK' /\ RestoresOff'
  BY <1>4, TakesType DEF Claim, Granted, Outcomes
<1>5. ASSUME NEW o \in Outcomes, AddRule(o) PROVE TypeOK' /\ RestoresOff'
  BY <1>5, TakesType DEF AddRule, Granted, Outcomes
<1>6. ASSUME NEW o \in Outcomes, DeleteRule(o) PROVE TypeOK' /\ RestoresOff'
  BY <1>6, TakesType DEF DeleteRule, StopRequest, Outcomes
<1>7. ASSUME NEW o \in Outcomes, Release(o) PROVE TypeOK' /\ RestoresOff'
  BY <1>7, TakesType DEF Release, StopRequest, AfterRelease, Outcomes
<1>8. ASSUME NEW o \in Outcomes, Restore(o) PROVE TypeOK' /\ RestoresOff'
  <2>1. enabled' \in {"off", "on"}
    BY <1>8 DEF Restore
  <2> QED
    BY <1>8, <2>1, TakesType DEF Restore, StopRequest, Outcomes
<1>9. CASE Close
  <2>1. open' \in BOOLEAN /\ claimed' \in BOOLEAN
    BY <1>9, Zenon DEF Close
  <2> QED
    BY <1>9, <2>1 DEF Close
<1>10. CASE Serve \/ LoopEnds
  BY <1>10 DEF Serve, LoopEnds
<1>13. CASE Sigterm
  BY <1>13 DEF Sigterm
<1>14. CASE GiveUp \/ ForceStop
  BY <1>14 DEF GiveUp, ForceStop
<1>15. CASE HandOver
  BY <1>15 DEF HandOver
<1>11. CASE ConsumerStarts \/ ConsumerDies
  <2>1. alive' \in BOOLEAN
    BY <1>11, Zenon DEF ConsumerStarts, ConsumerDies
  <2> QED
    BY <1>11, <2>1 DEF ConsumerStarts, ConsumerDies
<1>12. CASE UNCHANGED vars
  BY <1>12 DEF vars
<1> QED
  BY <1>1, <1>2, <1>3, <1>4, <1>5, <1>6, <1>7, <1>8, <1>9, <1>10, <1>11, <1>12, <1>13,
     <1>14, <1>15
     DEF Next, Helper

-----------------------------------------------------------------------------
(* Where the helper holds what.  Conj by conj: what the main thread does   *)
(* at each point, what the kernel has while every request of stop() took   *)
(* effect, what the switch was and is, how long stop() has taken, and who  *)
(* gets the records.                                                       *)

NothingHeld == owner # "helper" /\ ~rule
Serving     == open /\ pc \in {"bind", "serving"}

PlaceInv ==
  /\ pc \in {"open", "status"} => ~heard /\ ~late /\ NothingHeld /\ enabled = before
  /\ pc = "open" => ~open
  /\ pc \in {"handing", "exited"} => ~open /\ stopping
  /\ pc \in {"status", "claim", "rule", "delete", "release", "restore"} => open
  /\ Serving => ~stopping
  /\ asked => stopping
  /\ stopping => pc \in {"delete", "release", "restore", "close", "handing",
                         "serving", "exited", "forced"}

HeldInv ==
  known /\ effective =>
    /\ pc \in {"claim", "restore", "close", "forced"} => NothingHeld
    /\ pc \in {"rule", "release"} => owner = "helper" /\ ~rule
    /\ pc \in {"rule", "delete"} \/ Serving => owner = "helper" /\ claimed
    /\ ~open => NothingHeld

SwitchInv ==
  known /\ effective /\ ~late =>
    /\ pc \in {"claim", "rule", "delete", "release", "restore"} \/ Serving
         => prior = before /\ heard
    /\ pc = "claim" => enabled = before
    /\ pc \in {"rule", "delete", "release"} \/ Serving => enabled = "on"
    /\ pc = "close" \/ ~open => owner = "other" \/ enabled = before

ClockInv ==
  stopping => /\ pc = "delete"  => elapsed = 0
              /\ pc = "release" => elapsed <= RequestWait

ConsumerInv ==
  heard /\ ~late /\ owner = "other" /\ alive =>
    \/ pc \in {"close", "killed", "forced"}
    \/ ~open /\ pc \in {"bind", "serving", "handing", "exited"}

ListenerInv ==
  TypeOK /\ RestoresOff /\ PlaceInv /\ HeldInv /\ SwitchInv /\ ClockInv /\ ConsumerInv

LEMMA InitListener == Init => ListenerInv
<1> SUFFICES ASSUME Init PROVE ListenerInv
  OBVIOUS
<1>1. TypeOK
  BY DEF Init, TypeOK
<1> QED
  BY <1>1 DEF Init, TypeOK, ListenerInv, RestoresOff, PlaceInv, HeldInv, SwitchInv,
              ClockInv, ConsumerInv, Serving, NothingHeld

LEMMA NextListener == ListenerInv /\ [Next]_vars => ListenerInv'
<1> SUFFICES ASSUME ListenerInv, [Next]_vars PROVE ListenerInv'
  OBVIOUS
<1>0. TypeOK' /\ RestoresOff'
  BY NextType DEF ListenerInv
<1> DEFINE Inv == PlaceInv /\ HeldInv /\ SwitchInv /\ ClockInv /\ ConsumerInv
<1> USE DEF ListenerInv, TypeOK, RestoresOff, PlaceInv, HeldInv, SwitchInv, ClockInv,
            ConsumerInv, Serving, NothingHeld,
            kernel, consumer, listener, service, ghosts
<1>1. CASE OpenSocket
  BY <1>0, <1>1 DEF OpenSocket
<1>2. CASE StatusRead
  BY <1>0, <1>2 DEF StatusRead, OwnerConflict
<1>3. CASE StatusUnread
  BY <1>0, <1>3 DEF StatusUnread
<1>4. ASSUME NEW o \in Outcomes, Claim(o) PROVE Inv'
  BY <1>0, <1>4 DEF Claim, Granted, Outcomes
<1>5. ASSUME NEW o \in Outcomes, AddRule(o) PROVE Inv'
  BY <1>0, <1>5 DEF AddRule, Granted, Outcomes
<1>6. ASSUME NEW o \in Outcomes, DeleteRule(o) PROVE Inv'
  <2>1. /\ pc = "delete" /\ stopping' = stopping /\ pc' \in {"release", "close"}
        /\ pc' = "close" \/ claimed
        /\ effective' => effective /\ o.applied /\ (claimed => pc' = "release")
        /\ UNCHANGED <<owner, enabled, alive, late, open, claimed, prior, asked,
                       heard, known, before>>
    BY <1>6 DEF DeleteRule, StopRequest
  <2>2. effective' => ~rule'
    BY <1>0, <1>6, <2>1 DEF DeleteRule
  <2>3. elapsed = 0 => elapsed' \in {0, RequestWait}
    BY <1>6 DEF DeleteRule, Takes, RequestWait
  <2>4. ClockInv'
    BY <2>1, <2>3 DEF RequestWait
  <2>5. PlaceInv' /\ SwitchInv' /\ ConsumerInv'
    BY <1>0, <2>1
  <2>6. HeldInv'
    BY <1>0, <2>1, <2>2
  <2> QED
    BY <2>4, <2>5, <2>6
<1>7. ASSUME NEW o \in Outcomes, Release(o) PROVE Inv'
  BY <1>0, <1>7 DEF Release, StopRequest, AfterRelease, Outcomes
<1>8. ASSUME NEW o \in Outcomes, Restore(o) PROVE Inv'
  BY <1>0, <1>8 DEF Restore, StopRequest, Outcomes
<1>9. CASE Close
  BY <1>0, <1>9 DEF Close
<1>10. CASE Serve
  BY <1>0, <1>10 DEF Serve
<1>11. CASE HandOver
  BY <1>0, <1>11 DEF HandOver
<1>12. CASE LoopEnds
  BY <1>0, <1>12 DEF LoopEnds
<1>13. CASE Sigterm
  BY <1>0, <1>13 DEF Sigterm
<1>14. CASE GiveUp
  BY <1>0, <1>14 DEF GiveUp
<1>15. CASE ForceStop
  BY <1>0, <1>15 DEF ForceStop, TermGrace, RequestWait
<1>16. CASE ConsumerStarts
  BY <1>0, <1>16 DEF ConsumerStarts
<1>17. CASE ConsumerDies
  BY <1>0, <1>17 DEF ConsumerDies
<1>18. CASE UNCHANGED vars
  BY <1>0, <1>18 DEF vars
<1> QED
  BY <1>0, <1>1, <1>2, <1>3, <1>4, <1>5, <1>6, <1>7, <1>8, <1>9, <1>10, <1>11, <1>12, <1>13, <1>14, <1>15, <1>16, <1>17, <1>18 DEF Next, Helper

LEMMA ListenerInvariant == Spec => []ListenerInv
<1> QED
  BY InitListener, NextListener, PTL DEF Spec

(* Every variable keeps its type: the switch is never "restored" to a      *)
(* status nobody read.                                                     *)
THEOREM TypeCorrect == Spec => []TypeOK
<1>1. ListenerInv => TypeOK
  BY DEF ListenerInv
<1> QED
  BY <1>1, ListenerInvariant, PTL

(* On every path of start() and stop() that closes the socket, the rule,   *)
(* the claim and the switch are given back first.                          *)
THEOREM StoppedClean == Spec => []StoppedIsClean
<1>1. ListenerInv => StoppedIsClean
  BY DEF ListenerInv, HeldInv, SwitchInv, NothingHeld, StoppedIsClean
<1> QED
  BY <1>1, ListenerInvariant, PTL

(* When teardown.sh loses its patience, stop() has got past the rule and   *)
(* the claim: each unanswered request takes it RequestWait of TermGrace.   *)
THEOREM ForcedHarmless == Spec => []ForcedIsHarmless
<1>1. ListenerInv => ForcedIsHarmless
  BY DEF ListenerInv, HeldInv, NothingHeld, ForcedIsHarmless
<1> QED
  BY <1>1, ListenerInvariant, PTL

(* No step takes the delivery from a consumer that had it when start()     *)
(* read the status.                                                        *)
THEOREM ConsumerKept == Spec => ConsumerKeepsDelivery
<1> DEFINE Keeps == owner = "other" /\ alive /\ heard /\ ~late => owner' = "other"
<1>1. ListenerInv /\ [Next]_vars => [Keeps]_vars
  <2> SUFFICES ASSUME ListenerInv, Next, owner = "other", alive, heard, ~late
               PROVE  owner' = owner
    BY DEF vars, kernel
  <2>1. pc \notin {"claim", "release"}
    BY DEF ListenerInv, PlaceInv, ConsumerInv
  <2> QED
    BY <2>1
       DEF Next, Helper, OpenSocket, StatusRead, StatusUnread, Claim, AddRule,
           DeleteRule, Release, Restore, Close, Serve, HandOver, LoopEnds, Sigterm,
           GiveUp, ForceStop, ConsumerStarts, ConsumerDies, kernel
<1> QED
  BY <1>1, ListenerInvariant, PTL DEF Spec, ConsumerKeepsDelivery
=============================================================================
