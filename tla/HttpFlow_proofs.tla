--------------------------- MODULE HttpFlow_proofs ---------------------------
(* Proofs about HttpFlow, for any policy, any requests and any number of   *)
(* flows and clients.                                                      *)
EXTENDS HttpFlow, WellFoundedInduction, SequenceTheorems, TLAPS

-----------------------------------------------------------------------------
(* The helpers on lists of addresses.                                      *)

LEMMA FirstInRange ==
  ASSUME NEW ips \in Seq(Ips), NEW S, \E ip \in S : ip \in Range(ips)
  PROVE  FirstIn(ips, S) \in S /\ FirstIn(ips, S) \in Range(ips)
<1> DEFINE hits == {i \in DOMAIN ips : ips[i] \in S}
<1>1. hits # {} /\ hits \subseteq Nat
  BY DEF Range
<1>2. \E i \in hits : \A j \in hits : <<j, i>> \notin OpToRel(<, Nat)
  BY <1>1, NatLessThanWellFounded, WFMin
<1>3. \E i \in hits : \A j \in hits : i <= j
  <2>1. ASSUME NEW i \in Nat, NEW j \in Nat, ~(i <= j)
        PROVE  <<j, i>> \in OpToRel(<, Nat)
    <3>1. j < i
      BY <2>1
    <3> QED
      BY <3>1 DEF OpToRel
  <2> QED
    BY <1>1, <1>2, <2>1
<1>4. (CHOOSE i \in hits : \A j \in hits : i <= j) \in hits
  BY <1>3
<1> QED
  BY <1>4 DEF FirstIn, Range

LEMMA PinnedType ==
  ASSUME NEW ips \in Seq(Ips)
  PROVE  /\ Pinned(ips) \in Ips \cup {NoIp}
         /\ Pinned(ips) # NoIp => Pinned(ips) \in Range(ips)
<1>1. CASE ips = <<>>
  BY <1>1 DEF Pinned
<1>2. CASE ips # <<>> /\ Range(ips) \subseteq V6
  BY <1>2 DEF Pinned, Range
<1>3. CASE ips # <<>> /\ ~(Range(ips) \subseteq V6)
  <2>1. \E ip \in Ips \ V6 : ip \in Range(ips)
    BY <1>3 DEF Range
  <2> QED
    BY <1>3, <2>1, FirstInRange DEF Pinned
<1> QED
  BY <1>1, <1>2, <1>3

(* A guarded entry's record is a record, and one that allows an address    *)
(* allows it for this entry.                                               *)
LEMMA GuardedRecord ==
  ASSUME NEW ips \in Seq(Ips), NEW e
  PROVE  /\ Guarded(e, ips) \in Records
         /\ Guarded(e, ips).status = "allowed" =>
              /\ Guarded(e, ips).ip = Pinned(ips)
              /\ Pinned(ips) # NoIp => ~InternalIpViolation(Policy, e, Pinned(ips))
<1>1. Refusal(mode) \in {"would_block", "blocked"}
  BY DEF Refusal
<1>2. CASE Refused(e, ips) # {}
  <2>1. \E ip \in Refused(e, ips) : ip \in Range(ips)
    BY <1>2 DEF Refused
  <2>2. FirstIn(ips, Refused(e, ips)) \in Range(ips)
    BY <2>1, FirstInRange
  <2>3. FirstIn(ips, Refused(e, ips)) \in Ips
    BY <2>2 DEF Range
  <2> QED
    BY <1>1, <1>2, <2>3 DEF Guarded, Records, Statuses
<1>3. CASE Refused(e, ips) = {}
  <2>1. Guarded(e, ips) = [status |-> "allowed", ip |-> Pinned(ips)]
    BY <1>3 DEF Guarded
  <2>2. Pinned(ips) # NoIp => GuardInternalIp(e, Pinned(ips)) = "allowed"
    BY <1>3, PinnedType DEF Refused
  <2>3. Pinned(ips) # NoIp => ~InternalIpViolation(Policy, e, Pinned(ips))
    BY <1>1, <2>2 DEF GuardInternalIp
  <2> QED
    BY <2>1, <2>3, PinnedType DEF Records, Statuses
<1> QED
  BY <1>2, <1>3

LEMMA VerdictType ==
  ASSUME NEW r \in Requests, NEW e
  PROVE  Verdict(r, e) \in Statuses
<1>1. Refusal(mode) \in {"would_block", "blocked"}
  BY DEF Refusal
<1>2. Evaluate(Policy, mode, e) \in Statuses
  BY <1>1 DEF Evaluate, Statuses
<1>3. GuardInternalIp(e, r.ip) \in Statuses
  BY <1>1 DEF GuardInternalIp, Statuses
<1> QED
  BY <1>1, <1>2, <1>3 DEF Verdict, Statuses

LEMMA ArrivingEntryType ==
  ASSUME NEW f \in Flows, NEW r \in Requests, Arrives(f, r)
  PROVE  \E e \in Entries : entry' = [entry EXCEPT ![f] = e]
<1>1. PICK known \in Known[r.host] :
        entry' = [entry EXCEPT ![f] = EntryOf(r, EntryHost(r, known))]
  BY DEF Arrives
<1>2. known \in Names
  BY <1>1, AddressesAssumption, RequestsAssumption
<1>3. EntryHost(r, known) \in Names
  BY <1>2, RequestsAssumption DEF EntryHost
<1>4. EntryOf(r, EntryHost(r, known)) \in Entries
  BY <1>3, RequestsAssumption DEF EntryOf, Entries, Ports
<1> QED
  BY <1>1, <1>4

-----------------------------------------------------------------------------
(* Type correctness.                                                       *)

LEMMA InitType == Init => TypeOK
<1> SUFFICES ASSUME Init PROVE TypeOK
  OBVIOUS
<1>1. req \in [Flows -> Requests]
  BY RequestsAssumption DEF Init
<1>2. entry \in [Flows -> Entries]
  <2>1. \A f \in Flows : EntryOf(req[f], req[f].host) \in Entries
    BY <1>1, RequestsAssumption DEF EntryOf, Entries, Ports
  <2> QED
    BY <2>1 DEF Init
<1> QED
  BY <1>1, <1>2 DEF Init, TypeOK, Phases

LEMMA NextType == TypeOK /\ [Next]_vars => TypeOK'
<1> SUFFICES ASSUME TypeOK, [Next]_vars PROVE TypeOK'
  OBVIOUS
<1> USE DEF TypeOK
<1>1. ASSUME NEW f \in Flows, NEW r \in Requests, Arrives(f, r)
      PROVE  /\ req' \in [Flows -> Requests]
             /\ entry' \in [Flows -> Entries]
             /\ <<ClientOf[f], r.host, r.port>> \in Keys
  <2>1. PICK e \in Entries : entry' = [entry EXCEPT ![f] = e]
    BY <1>1, ArrivingEntryType
  <2>2. req' = [req EXCEPT ![f] = r]
    BY <1>1 DEF Arrives
  <2> QED
    BY <2>1, <2>2, FlowsAssumption, RequestsAssumption DEF Keys, Ports
<1>2. ASSUME NEW f \in Flows PROVE Key(f) \in Keys
  BY FlowsAssumption, RequestsAssumption DEF Key, Keys, Ports
<1>3. ASSUME NEW f \in Flows, NEW rec \in Records, WriteLog(f, rec)
      PROVE  verdict' \in [Flows -> Seq(Records)]
  <2>1. Append(verdict[f], rec) \in Seq(Records)
    OBVIOUS
  <2> QED
    BY <1>3, <2>1 DEF WriteLog
<1>4. ASSUME NEW f \in Flows, FlushAwaiting(f)
      PROVE  awaiting' \in [Keys -> Seq(Flows)] /\ verdict' \in [Flows -> Seq(Records)]
  <2>1. CASE NoneWaits(f) /\ UNCHANGED <<awaiting, verdict>>
    BY <2>1
  <2>2. CASE ~(NoneWaits(f) /\ UNCHANGED <<awaiting, verdict>>)
    <3>0. PICK k \in Keys : \E i \in DOMAIN awaiting[k] :
            /\ awaiting' = [awaiting EXCEPT ![k] = RemoveAt(awaiting[k], i)]
            /\ LogDeferred(f)
      BY <1>4, <2>2 DEF FlushAwaiting
    <3>1. PICK i \in DOMAIN awaiting[k] :
            /\ awaiting' = [awaiting EXCEPT ![k] = RemoveAt(awaiting[k], i)]
            /\ LogDeferred(f)
      BY <3>0
    <3>2. RemoveAt(awaiting[k], i) \in Seq(Flows)
      BY DEF RemoveAt
    <3>3. [status |-> "allowed", ip |-> NoIp] \in Records
      BY DEF Records, Statuses
    <3> QED
      BY <1>3, <3>1, <3>2, <3>3 DEF LogDeferred
  <2> QED
    BY <2>1, <2>2
<1>5. ASSUME NEW f \in Flows, NEW r \in Requests, RequestRefused(f, r)
      PROVE  TypeOK'
  <2>1. [status |-> "blocked", ip |-> r.ip] \in Records
    BY RequestsAssumption DEF Records, Statuses
  <2> QED
    BY <1>1, <1>3, <1>5, <2>1 DEF RequestRefused, Goto, Phases
<1>6. ASSUME NEW f \in Flows, NEW r \in Requests, RequestDeferred(f, r)
      PROVE  TypeOK'
  BY <1>1, <1>6 DEF RequestDeferred, Goto, Phases
<1>7. ASSUME NEW f \in Flows, NEW r \in Requests, RequestPassed(f, r)
      PROVE  TypeOK'
  <2>1. [status |-> Verdict(r, entry'[f]), ip |-> r.ip] \in Records
    BY VerdictType, RequestsAssumption DEF Records
  <2> QED
    BY <1>1, <1>3, <1>7, <2>1, RequestsAssumption DEF RequestPassed, Goto, Phases
<1>8. ASSUME NEW f \in Flows, Reuse(f) PROVE TypeOK'
  <2>1. PICK c \in Suitable(f) : upstream' = [upstream EXCEPT ![f] = c.ip]
    BY <1>8 DEF Reuse
  <2>2. c \in [host : Names, port : Ports, ip : Ips]
    BY <2>1, FlowsAssumption DEF Suitable
  <2>3. upstream' \in [Flows -> Ips \cup {NoIp}]
    BY <2>1, <2>2
  <2> QED
    BY <1>8, <2>3 DEF Reuse, Goto, Phases
<1>9. ASSUME NEW f \in Flows, ServerConnect(f) PROVE TypeOK'
  <2>1. /\ Head(awaiting[Key(f)]) \in Flows
        /\ Tail(awaiting[Key(f)]) \in Seq(Flows)
    BY <1>2, <1>9 DEF ServerConnect
  <2> QED
    BY <1>2, <1>9, <2>1 DEF ServerConnect, Goto, Phases
<1>10. ASSUME NEW f \in Flows, ServerConnectIdle(f) PROVE TypeOK'
  BY <1>10 DEF ServerConnectIdle, Goto, Phases
<1>11. ASSUME NEW f \in Flows, NEW ips \in Answers[req[f].host], Resolved(f, ips)
       PROVE  TypeOK'
  <2>1. ips \in Seq(Ips)
    BY AddressesAssumption, RequestsAssumption
  <2>2. Guarded(entry[held[f]], ips) \in Records /\ Pinned(ips) \in Ips \cup {NoIp}
    BY <2>1, GuardedRecord, PinnedType
  <2>3. verdict' \in [Flows -> Seq(Records)]
    <3>1. CASE held[f] \in Flows
      BY <1>3, <1>11, <2>2, <3>1 DEF Resolved
    <3>2. CASE held[f] \notin Flows
      BY <1>11, <3>2 DEF Resolved, WriteLog
    <3> QED
      BY <3>1, <3>2
  <2> QED
    BY <1>11, <2>2, <2>3 DEF Resolved, Goto, Phases
<1>12. ASSUME NEW f \in Flows, NEW ip \in Ips, Dial(f, ip) PROVE TypeOK'
  <2>1. [host |-> IF pin[f] = NoIp THEN req[f].host ELSE ip,
         port |-> req[f].port, ip |-> ip] \in [host : Names, port : Ports, ip : Ips]
    BY AddressesAssumption, RequestsAssumption DEF Ports
  <2> QED
    BY <1>12, <2>1, FlowsAssumption DEF Dial, Goto, Phases
<1>13. ASSUME NEW f \in Flows, UpstreamFails(f) PROVE TypeOK'
  BY <1>13, FlowsAssumption DEF UpstreamFails, Goto, Phases
<1>14. ASSUME NEW f \in Flows, NEW bytes \in {0, 1}, Response(f, bytes) PROVE TypeOK'
  BY <1>4, <1>14 DEF Response, Goto, Phases
<1>15. ASSUME NEW f \in Flows, ErrorHook(f) PROVE TypeOK'
  BY <1>4, <1>15 DEF ErrorHook, Goto, Phases
<1>16. ASSUME NEW c \in Clients, ClientLeaves(c) PROVE TypeOK'
  BY <1>16 DEF ClientLeaves, Phases
<1>17. CASE UNCHANGED vars
  BY <1>17 DEF vars
<1> QED
  BY <1>5, <1>6, <1>7, <1>8, <1>9, <1>10, <1>11, <1>12, <1>13, <1>14, <1>15,
     <1>16, <1>17 DEF Next, Proxy

(* Every variable keeps its type.                                          *)
THEOREM TypeCorrect == Spec => []TypeOK
<1> QED
  BY InitType, NextType, PTL DEF Spec

-----------------------------------------------------------------------------
(* One verdict per request.  The invariant says where an unlogged entry    *)
(* can be: waiting under the key of its own live request, alone, or held   *)
(* by the server_connect of its own flow.  That a server_connect takes the *)
(* entry of its own flow follows from OneLive.                             *)

OneLive ==
  \A f, g \in Flows : Live(f) /\ Live(g) /\ ClientOf[f] = ClientOf[g] => f = g

WaitsAlone ==
  \A k \in Keys : awaiting[k] # <<>> =>
    \E f \in Flows :
      /\ awaiting[k] = <<f>> /\ Key(f) = k
      /\ phase[f] \in {"routing", "sent", "failed"}
      /\ verdict[f] = <<>>

HeldByItself ==
  \A f \in Flows : phase[f] = "resolving" => held[f] = f /\ verdict[f] = <<>>

LoggedOnce ==
  \A f \in Flows :
    /\ Len(verdict[f]) <= 1
    /\ phase[f] = "idle" => verdict[f] = <<>>

OnceInv == TypeOK /\ OneLive /\ WaitsAlone /\ HeldByItself /\ LoggedOnce

LEMMA InitOnce == Init => OnceInv
<1> SUFFICES ASSUME Init PROVE OnceInv
  OBVIOUS
<1> QED
  BY InitType DEF Init, OnceInv, OneLive, WaitsAlone, HeldByItself, LoggedOnce, Live

(* Writing a first verdict record keeps the count.                         *)
LEMMA FirstRecord ==
  ASSUME TypeOK, LoggedOnce, NEW f \in Flows, verdict[f] = <<>>, NEW rec,
         WriteLog(f, rec), phase'[f] # "idle",
         \A g \in Flows : phase'[g] = "idle" => phase[g] = "idle"
  PROVE  LoggedOnce'
<1>1. Len(Append(verdict[f], rec)) <= 1
  OBVIOUS
<1>2. \A g \in Flows :
        verdict'[g] = IF g = f THEN Append(verdict[f], rec) ELSE verdict[g]
  BY DEF WriteLog, TypeOK
<1>3. ASSUME NEW g \in Flows
      PROVE  Len(verdict'[g]) <= 1 /\ (phase'[g] = "idle" => verdict'[g] = <<>>)
  <2>1. CASE g = f
    <3>1. verdict'[g] = Append(verdict[f], rec)
      BY <1>2, <2>1
    <3> QED
      BY <1>1, <2>1, <3>1, Zenon
  <2>2. CASE g # f
    BY <1>2, <2>2 DEF LoggedOnce
  <2> QED
    BY <2>1, <2>2
<1> QED
  BY <1>3 DEF LoggedOnce

(* What the flush of the response and error hooks does: the flow's entry,  *)
(* if it waits, is the only one under its key.                             *)
LEMMA FlushEffect ==
  ASSUME OnceInv, NEW f \in Flows, FlushAwaiting(f),
         phase' = [phase EXCEPT ![f] = "done"], UNCHANGED req
  PROVE  WaitsAlone' /\ LoggedOnce'
<1> USE DEF OnceInv
<1>1. CASE NoneWaits(f) /\ UNCHANGED <<awaiting, verdict>>
  <2>1. LoggedOnce'
    BY <1>1 DEF LoggedOnce, TypeOK
  <2>2. ASSUME NEW k \in Keys, NEW g \in Flows, awaiting[k] = <<g>> PROVE g # f
    BY <1>1, <2>2 DEF NoneWaits, Range
  <2>3. WaitsAlone'
    BY <1>1, <2>2 DEF WaitsAlone, TypeOK, Key
  <2> QED
    BY <2>1, <2>3
<1>2. CASE ~(NoneWaits(f) /\ UNCHANGED <<awaiting, verdict>>)
  <2>1. PICK k \in Keys : \E i \in DOMAIN awaiting[k] :
          /\ awaiting[k][i] = f
          /\ awaiting' = [awaiting EXCEPT ![k] = RemoveAt(awaiting[k], i)]
          /\ LogDeferred(f)
    BY <1>2 DEF FlushAwaiting
  <2>2. PICK i \in DOMAIN awaiting[k] :
          /\ awaiting[k][i] = f
          /\ awaiting' = [awaiting EXCEPT ![k] = RemoveAt(awaiting[k], i)]
          /\ LogDeferred(f)
    BY <2>1
  <2>3. awaiting[k] = <<f>> /\ i = 1 /\ verdict[f] = <<>> /\ Key(f) = k
    BY <2>2 DEF WaitsAlone
  <2>4. RemoveAt(<<f>>, 1) = <<>>
    BY DEF RemoveAt
  <2>5. LoggedOnce'
    BY <2>2, <2>3, FirstRecord DEF LogDeferred, TypeOK
  <2>6. awaiting' = [awaiting EXCEPT ![k] = <<>>]
    BY <2>2, <2>3, <2>4
  <2>7. \A g \in Flows : g # f => verdict'[g] = verdict[g] /\ phase'[g] = phase[g]
    BY <2>2 DEF LogDeferred, WriteLog, TypeOK
  <2>8. ASSUME NEW l \in Keys, awaiting'[l] # <<>>
        PROVE  \E g \in Flows :
                 /\ awaiting'[l] = <<g>> /\ Key(g)' = l
                 /\ phase'[g] \in {"routing", "sent", "failed"}
                 /\ verdict'[g] = <<>>
    <3>1. l # k /\ awaiting'[l] = awaiting[l]
      BY <2>6, <2>8 DEF TypeOK
    <3>2. PICK g \in Flows :
            /\ awaiting[l] = <<g>> /\ Key(g) = l
            /\ phase[g] \in {"routing", "sent", "failed"}
            /\ verdict[g] = <<>>
      BY <2>8, <3>1 DEF WaitsAlone
    <3>3. g # f
      BY <2>3, <3>1, <3>2
    <3> QED
      BY <2>7, <3>1, <3>2, <3>3 DEF Key
  <2> QED
    BY <2>5, <2>8 DEF WaitsAlone
<1> QED
  BY <1>1, <1>2

(* What the request hook needs to know of its client: no other request is  *)
(* live there, so nothing waits under it.                                  *)
LEMMA ArrivalFindsNothing ==
  ASSUME OnceInv, NEW f \in Flows, NEW r \in Requests, Arrives(f, r),
         phase' = [phase EXCEPT ![f] = "done"] \/ phase'[f] # "idle",
         \A g \in Flows : g # f => phase'[g] = phase[g]
  PROVE  /\ OneLive'
         /\ \A k \in Keys : k[1] = ClientOf[f] => awaiting[k] = <<>>
         /\ \A k \in Keys, g \in Flows : awaiting[k] = <<g>> => g # f
<1>1. \A g \in Flows : ClientOf[g] = ClientOf[f] => ~Live(g)
  BY DEF Arrives
<1>2. OneLive'
  BY <1>1 DEF OnceInv, OneLive, Live
<1>3. ASSUME NEW k \in Keys, awaiting[k] # <<>>, k[1] = ClientOf[f] PROVE FALSE
  <2>1. PICK g \in Flows : Key(g) = k /\ phase[g] \in {"routing", "sent", "failed"}
    BY <1>3 DEF OnceInv, WaitsAlone
  <2>2. ClientOf[g] = ClientOf[f] /\ Live(g)
    BY <1>3, <2>1 DEF Key, Live
  <2> QED
    BY <1>1, <2>2
<1>4. ASSUME NEW k \in Keys, NEW g \in Flows, awaiting[k] = <<g>> PROVE g # f
  BY <1>4 DEF OnceInv, WaitsAlone, Arrives
<1> QED
  BY <1>2, <1>3, <1>4

(* A waiting entry is untouched by a step that leaves it, its flow's       *)
(* request, place and records alone.                                       *)
LEMMA WaitsFrame ==
  ASSUME OnceInv,
         \A k \in Keys : awaiting'[k] \in {<<>>, awaiting[k]},
         \A k \in Keys, g \in Flows : awaiting'[k] = <<g>> =>
           /\ req'[g] = req[g] /\ verdict'[g] = verdict[g]
           /\ phase[g] \in {"routing", "sent", "failed"}
                => phase'[g] \in {"routing", "sent", "failed"}
  PROVE  WaitsAlone'
<1> SUFFICES ASSUME NEW k \in Keys, awaiting'[k] # <<>>
             PROVE  \E g \in Flows :
                      /\ awaiting'[k] = <<g>> /\ Key(g)' = k
                      /\ phase'[g] \in {"routing", "sent", "failed"}
                      /\ verdict'[g] = <<>>
  BY DEF WaitsAlone
<1>1. PICK g \in Flows :
        /\ awaiting[k] = <<g>> /\ Key(g) = k
        /\ phase[g] \in {"routing", "sent", "failed"}
        /\ verdict[g] = <<>>
  BY DEF OnceInv, WaitsAlone
<1> QED
  BY <1>1 DEF Key

LEMMA RequestStepOnce ==
  ASSUME OnceInv, TypeOK', NEW f \in Flows, NEW r \in Requests,
         \/ RequestRefused(f, r)
         \/ RequestDeferred(f, r)
         \/ RequestPassed(f, r)
  PROVE  OnceInv'
<1> USE DEF OnceInv
<1>1. /\ Arrives(f, r)
      /\ \E p \in {"refused", "routing", "sent"} : Goto(f, p)
      /\ held' = held
  BY DEF RequestRefused, RequestDeferred, RequestPassed
<1>2. /\ phase[f] = "idle" /\ verdict[f] = <<>>
      /\ phase'[f] \in {"refused", "routing", "sent"}
      /\ \A g \in Flows : g # f => phase'[g] = phase[g] /\ req'[g] = req[g]
  BY <1>1 DEF Arrives, Goto, TypeOK, LoggedOnce
<1>3. /\ OneLive'
      /\ \A k \in Keys : k[1] = ClientOf[f] => awaiting[k] = <<>>
      /\ \A k \in Keys, g \in Flows : awaiting[k] = <<g>> => g # f
  BY <1>1, <1>2, ArrivalFindsNothing
<1>4. \A g \in Flows : g # f => verdict'[g] = verdict[g]
  BY DEF RequestRefused, RequestDeferred, RequestPassed, WriteLog, TypeOK
<1>5. HeldByItself'
  BY <1>1, <1>2, <1>4 DEF HeldByItself
<1>6. CASE \E rec \in Records : WriteLog(f, rec) /\ awaiting' = awaiting
  <2>1. LoggedOnce'
    BY <1>2, <1>6, FirstRecord
  <2>2. WaitsAlone'
    BY <1>2, <1>3, <1>4, <1>6, WaitsFrame
  <2> QED
    BY <1>3, <1>5, <2>1, <2>2
<1>7. CASE RequestDeferred(f, r)
  <2> DEFINE key == <<ClientOf[f], r.host, r.port>>
  <2>1. key \in Keys /\ key[1] = ClientOf[f]
    BY FlowsAssumption, RequestsAssumption DEF Keys, Ports
  <2>2. awaiting' = [awaiting EXCEPT ![key] = <<f>>]
    <3>1. awaiting[key] = <<>>
      BY <1>3, <2>1
    <3>2. Append(<<>>, f) = <<f>>
      OBVIOUS
    <3> QED
      BY <1>7, <3>1, <3>2 DEF RequestDeferred
  <2>3. req'[f] = r /\ phase'[f] = "routing" /\ verdict' = verdict
    BY <1>7 DEF RequestDeferred, Arrives, Goto, TypeOK
  <2>4. LoggedOnce'
    BY <1>2, <2>3 DEF LoggedOnce
  <2>5. ASSUME NEW k \in Keys, awaiting'[k] # <<>>
        PROVE  \E g \in Flows :
                 /\ awaiting'[k] = <<g>> /\ Key(g)' = k
                 /\ phase'[g] \in {"routing", "sent", "failed"}
                 /\ verdict'[g] = <<>>
    <3>1. CASE k = key
      BY <1>2, <2>2, <2>3, <3>1 DEF Key, TypeOK
    <3>2. CASE k # key
      <4>1. awaiting'[k] = awaiting[k]
        BY <2>2, <3>2 DEF TypeOK
      <4>2. PICK g \in Flows :
              /\ awaiting[k] = <<g>> /\ Key(g) = k
              /\ phase[g] \in {"routing", "sent", "failed"}
              /\ verdict[g] = <<>>
        BY <2>5, <4>1 DEF WaitsAlone
      <4>3. g # f
        BY <1>3, <4>2
      <4> QED
        BY <1>2, <2>3, <4>1, <4>2, <4>3 DEF Key
    <3> QED
      BY <3>1, <3>2
  <2> QED
    BY <1>3, <1>5, <2>4, <2>5 DEF WaitsAlone
<1>8. RequestRefused(f, r) => \E rec \in Records : WriteLog(f, rec) /\ awaiting' = awaiting
  BY RequestsAssumption DEF RequestRefused, Records, Statuses
<1>9. RequestPassed(f, r) => \E rec \in Records : WriteLog(f, rec) /\ awaiting' = awaiting
  BY RequestsAssumption, VerdictType DEF RequestPassed, Records
<1> QED
  BY <1>6, <1>7, <1>8, <1>9

LEMMA ProxyStepOnce ==
  ASSUME OnceInv, TypeOK', NEW f \in Flows, Proxy(f)
  PROVE  OnceInv'
<1> USE DEF OnceInv
<1>1. /\ req' = req /\ phase[f] \notin {"idle", "done"}
      /\ \E p \in Phases \ {"idle"} : Goto(f, p)
  BY DEF Proxy, Reuse, ServerConnect, ServerConnectIdle, Resolved, Dial,
         UpstreamFails, Response, ErrorHook, Phases
<1>2. /\ Live(f) /\ phase'[f] # "idle"
      /\ \A g \in Flows : g # f => phase'[g] = phase[g]
  BY <1>1 DEF Live, Goto, TypeOK, Phases
<1>3. OneLive'
  BY <1>2 DEF OneLive, Live
<1>4. ASSUME NEW k \in Keys, NEW g \in Flows, awaiting[k] = <<g>>, g # f
      PROVE  phase'[g] = phase[g]
  BY <1>2, <1>4
<1>5. ASSUME Reuse(f) \/ ServerConnectIdle(f) \/ UpstreamFails(f)
               \/ \E ip \in Ips : Dial(f, ip)
      PROVE  OnceInv'
  <2>1. verdict' = verdict /\ held' = held /\ awaiting' = awaiting
    BY <1>5 DEF Reuse, ServerConnectIdle, UpstreamFails, Dial
  <2>2. phase'[f] # "resolving"
    BY <1>5 DEF Reuse, ServerConnectIdle, UpstreamFails, Dial, Goto, TypeOK
  <2>3. LoggedOnce' /\ HeldByItself'
    BY <1>2, <2>1, <2>2 DEF LoggedOnce, HeldByItself
  <2>4. ASSUME NEW k \in Keys, awaiting[k] = <<f>>
        PROVE  phase'[f] \in {"routing", "sent", "failed"}
    <3>1. phase[f] \in {"routing", "sent", "failed"} /\ Key(f) = k
      BY <2>4 DEF WaitsAlone
    <3>2. ~ServerConnectIdle(f)
      <4>1. awaiting[Key(f)] # <<>>
        BY <2>4, <3>1
      <4> HIDE DEF OnceInv
      <4> QED
        BY <4>1 DEF ServerConnectIdle
    <3> QED
      BY <1>5, <3>1, <3>2 DEF Reuse, UpstreamFails, Dial, Goto, TypeOK
  <2>5. WaitsAlone'
    BY <1>1, <1>4, <2>1, <2>4, WaitsFrame
  <2> QED
    BY <1>3, <2>3, <2>5
<1>6. ASSUME ServerConnect(f) PROVE OnceInv'
  <2>1. PICK g \in Flows :
          /\ awaiting[Key(f)] = <<g>> /\ Key(g) = Key(f)
          /\ phase[g] \in {"routing", "sent", "failed"}
          /\ verdict[g] = <<>>
    <3>1. Key(f) \in Keys
      BY FlowsAssumption, RequestsAssumption DEF Key, Keys, Ports, TypeOK
    <3> QED
      BY <1>6, <3>1 DEF ServerConnect, WaitsAlone
  <2>2. g = f
    BY <1>2, <2>1 DEF OneLive, Live, Key
  <2>3. Head(<<f>>) = f /\ Tail(<<f>>) = <<>>
    OBVIOUS
  <2>4. /\ held' = [held EXCEPT ![f] = f]
        /\ awaiting' = [awaiting EXCEPT ![Key(f)] = <<>>]
        /\ verdict' = verdict /\ verdict[f] = <<>> /\ phase[f] = "routing"
        /\ phase' = [phase EXCEPT ![f] = "resolving"]
    BY <1>6, <2>1, <2>2, <2>3 DEF ServerConnect, Goto
  <2>5. LoggedOnce' /\ HeldByItself'
    BY <2>4 DEF LoggedOnce, HeldByItself, TypeOK
  <2>6. \A k \in Keys : awaiting'[k] \in {<<>>, awaiting[k]}
    BY <2>4 DEF TypeOK
  <2>7. ASSUME NEW k \in Keys, awaiting'[k] = <<f>> PROVE FALSE
    <3>1. k # Key(f) /\ awaiting[k] = <<f>>
      BY <2>4, <2>7 DEF TypeOK
    <3>0. awaiting[k] # <<>>
      BY <3>1
    <3>2. PICK h \in Flows : awaiting[k] = <<h>> /\ Key(h) = k
      BY <3>0 DEF WaitsAlone
    <3>3. h = f
      BY <3>1, <3>2
    <3> QED
      BY <3>1, <3>2, <3>3
  <2>8. WaitsAlone'
    <3>1. \A k \in Keys, h \in Flows : awaiting'[k] = <<h>> =>
            /\ h # f /\ req'[h] = req[h] /\ verdict'[h] = verdict[h]
            /\ phase'[h] = phase[h]
      BY <1>1, <1>2, <2>4, <2>7
    <3> QED
      BY <2>6, <3>1, WaitsFrame
  <2> QED
    BY <1>3, <2>5, <2>8
<1>7. ASSUME NEW ips \in Answers[req[f].host], Resolved(f, ips) PROVE OnceInv'
  <2>1. held[f] = f /\ verdict[f] = <<>> /\ phase[f] = "resolving"
    BY <1>7 DEF Resolved, HeldByItself
  <2>2. /\ WriteLog(f, Guarded(entry[f], ips)) /\ awaiting' = awaiting
        /\ held' = [held EXCEPT ![f] = NoFlow]
        /\ phase'[f] \in {"failed", "dialing"}
    BY <1>7, <2>1 DEF Resolved, Goto, TypeOK
  <2>3. LoggedOnce'
    BY <1>2, <2>1, <2>2, FirstRecord
  <2>4. \A g \in Flows : g # f => verdict'[g] = verdict[g] /\ held'[g] = held[g]
    BY <2>2 DEF WriteLog, TypeOK
  <2>5. HeldByItself'
    BY <1>2, <2>2, <2>4 DEF HeldByItself
  <2>6. ASSUME NEW k \in Keys, NEW g \in Flows, awaiting[k] = <<g>> PROVE g # f
    <3>0. awaiting[k] # <<>>
      BY <2>6
    <3>1. PICK h \in Flows :
            awaiting[k] = <<h>> /\ phase[h] \in {"routing", "sent", "failed"}
      BY <3>0 DEF WaitsAlone
    <3>2. h = g
      BY <2>6, <3>1
    <3> QED
      BY <2>1, <3>1, <3>2
  <2>7. WaitsAlone'
    BY <1>1, <1>4, <2>2, <2>4, <2>6, WaitsFrame
  <2> QED
    BY <1>3, <2>3, <2>5, <2>7
<1>8. ASSUME ErrorHook(f) \/ \E bytes \in {0, 1} : Response(f, bytes) PROVE OnceInv'
  <2>1. /\ FlushAwaiting(f) /\ phase' = [phase EXCEPT ![f] = "done"]
        /\ held' = held /\ phase[f] # "resolving"
    BY <1>8 DEF ErrorHook, Response, Goto
  <2>2. WaitsAlone' /\ LoggedOnce'
    BY <1>1, <2>1, FlushEffect
  <2>3. \A g \in Flows : g # f => verdict'[g] = verdict[g]
    BY <2>1 DEF FlushAwaiting, LogDeferred, WriteLog, TypeOK
  <2>4. HeldByItself'
    BY <2>1, <2>3 DEF HeldByItself, TypeOK
  <2> QED
    BY <1>3, <2>2, <2>4
<1> QED
  BY <1>5, <1>6, <1>7, <1>8 DEF Proxy

LEMMA LeaveStepOnce ==
  ASSUME OnceInv, TypeOK', NEW c \in Clients, ClientLeaves(c)
  PROVE  OnceInv'
<1> USE DEF OnceInv
<1>1. /\ req' = req /\ verdict' = verdict /\ awaiting' = awaiting
      /\ \A f \in Flows :
           \/ phase'[f] = "failed" /\ Live(f) /\ ClientOf[f] = c
           \/ phase'[f] = phase[f] /\ (Live(f) => ClientOf[f] # c)
      /\ \A f \in Flows : ClientOf[f] # c => held'[f] = held[f]
  BY DEF ClientLeaves
<1>2. OneLive'
  BY <1>1 DEF OneLive, Live
<1>3. WaitsAlone'
  BY <1>1, WaitsFrame
<1>4. HeldByItself'
  BY <1>1 DEF HeldByItself, Live
<1>5. LoggedOnce'
  BY <1>1 DEF LoggedOnce, Live
<1> QED
  BY <1>2, <1>3, <1>4, <1>5

LEMMA NextOnce == OnceInv /\ [Next]_vars => OnceInv'
<1> SUFFICES ASSUME OnceInv, [Next]_vars PROVE OnceInv'
  OBVIOUS
<1>1. TypeOK'
  BY NextType DEF OnceInv
<1>2. CASE UNCHANGED vars
  BY <1>1, <1>2
     DEF vars, OnceInv, OneLive, Live, WaitsAlone, Key, HeldByItself, LoggedOnce
<1> QED
  BY <1>1, <1>2, RequestStepOnce, ProxyStepOnce, LeaveStepOnce DEF Next

LEMMA OnceInvariant == Spec => []OnceInv
<1> QED
  BY InitOnce, NextOnce, PTL DEF Spec

(* However the request hook, server_connect and the two flushing hooks     *)
(* interleave, none of them writes a second verdict for a request.         *)
THEOREM OneVerdict == Spec => []VerdictAtMostOnce
<1>1. OnceInv => VerdictAtMostOnce
  BY DEF OnceInv, LoggedOnce, VerdictAtMostOnce
<1> QED
  BY <1>1, OnceInvariant, PTL

(* Nothing is left in _awaiting_upstream by a request that is over, and no *)
(* two requests ever wait under one key.                                   *)
THEOREM WaitingEntriesLive == Spec => []WaitingIsLive
<1>1. OnceInv => WaitingIsLive
  BY DEF OnceInv, WaitsAlone, WaitingIsLive, Live
<1> QED
  BY <1>1, OnceInvariant, PTL

-----------------------------------------------------------------------------
(* The log is about what happened.  A record that allows an address was    *)
(* checked for this entry; until the request is sent, that address is the  *)
(* one pinned.                                                             *)

Clears(f) == verdict[f] # <<>> /\ Head(verdict[f]).status = "allowed"
                               /\ Head(verdict[f]).ip # NoIp

CleanAddress(f) ==
  /\ phase[f] \in {"idle", "routing", "resolving", "dialing"} => upstream[f] = NoIp
  /\ Clears(f) =>
       /\ ~InternalIpViolation(Policy, entry[f], Head(verdict[f]).ip)
       /\ phase[f] # "routing"
       /\ phase[f] = "dialing" => pin[f] = Head(verdict[f]).ip
       /\ upstream[f] \in {NoIp, Head(verdict[f]).ip}

AddressInv == OnceInv /\ \A f \in Flows : CleanAddress(f)

LEMMA AllowedVerdictIsClean ==
  ASSUME NEW r, NEW e, Verdict(r, e) = "allowed", r.ip # NoIp
  PROVE  ~InternalIpViolation(Policy, e, r.ip)
<1>1. Refusal(mode) # "allowed"
  BY DEF Refusal
<1>2. GuardInternalIp(e, r.ip) = "allowed"
  BY <1>1 DEF Verdict
<1> QED
  BY <1>1, <1>2 DEF GuardInternalIp

(* A flow is cleared by its first record alone.                            *)
LEMMA FirstRecordClears ==
  ASSUME TypeOK, NEW f \in Flows, verdict[f] = <<>>, NEW rec, WriteLog(f, rec)
  PROVE  Clears(f)' => /\ Head(verdict[f])' = rec
                       /\ rec.status = "allowed" /\ rec.ip # NoIp
<1>1. verdict'[f] = Append(verdict[f], rec)
  BY DEF WriteLog, TypeOK
<1>2. Head(Append(verdict[f], rec)) = rec
  OBVIOUS
<1> QED
  BY <1>1, <1>2 DEF Clears

LEMMA AddressFrame ==
  ASSUME NEW f \in Flows, CleanAddress(f),
         phase'[f] \in {phase[f], "failed", "done"}, upstream'[f] = upstream[f],
         verdict'[f] = verdict[f], entry'[f] = entry[f], pin'[f] = pin[f]
  PROVE  CleanAddress(f)'
<1>1. InternalIpViolation(Policy, entry[f], Head(verdict[f]).ip)'
        = InternalIpViolation(Policy, entry[f], Head(verdict[f]).ip)
  BY DEF InternalIpViolation, Matches, MatchesExceptMethod, MethodMatches,
         DnsAllowsInternalIp, DomainMatches, PortMatches, PathMatches
<1> QED
  BY <1>1 DEF CleanAddress, Clears

(* Two clean ways to log a first record.                                   *)
LEMMA UnclearedRecord ==
  ASSUME TypeOK, NEW f \in Flows, verdict[f] = <<>>, NEW rec, WriteLog(f, rec),
         rec.status # "allowed" \/ rec.ip = NoIp,
         phase'[f] \in {"idle", "routing", "resolving", "dialing"}
           => upstream'[f] = NoIp
  PROVE  CleanAddress(f)'
BY FirstRecordClears DEF CleanAddress

LEMMA ClearedRecord ==
  ASSUME TypeOK, NEW f \in Flows, verdict[f] = <<>>, NEW rec, WriteLog(f, rec),
         ~InternalIpViolation(Policy, entry'[f], rec.ip),
         phase'[f] # "routing",
         phase'[f] \in {"idle", "resolving", "dialing"} => upstream'[f] = NoIp,
         phase'[f] = "dialing" => pin'[f] = rec.ip,
         upstream'[f] \in {NoIp, rec.ip}
  PROVE  CleanAddress(f)'
<1>1. Clears(f)' => Head(verdict[f])' = rec
  BY FirstRecordClears
<1>2. Clears(f)' => ~InternalIpViolation(Policy, entry[f], Head(verdict[f]).ip)'
  BY <1>1 DEF InternalIpViolation, Matches, MatchesExceptMethod, MethodMatches,
         DnsAllowsInternalIp, DomainMatches, PortMatches, PathMatches
<1> QED
  BY <1>1, <1>2 DEF CleanAddress

LEMMA RequestStepAddress ==
  ASSUME AddressInv, OnceInv', NEW f \in Flows, NEW r \in Requests,
         \/ RequestRefused(f, r)
         \/ RequestDeferred(f, r)
         \/ RequestPassed(f, r)
  PROVE  CleanAddress(f)'
<1> USE DEF AddressInv, OnceInv
<1>1. /\ phase[f] = "idle" /\ verdict[f] = <<>> /\ upstream[f] = NoIp
  BY DEF RequestRefused, RequestDeferred, RequestPassed, Arrives, TypeOK,
         LoggedOnce, CleanAddress
<1>2. CASE RequestRefused(f, r)
  <2>1. phase'[f] = "refused" /\ WriteLog(f, [status |-> "blocked", ip |-> r.ip])
    BY <1>2 DEF RequestRefused, Goto, TypeOK
  <2> QED
    BY <1>1, <2>1, UnclearedRecord
<1>3. CASE RequestDeferred(f, r)
  <2>1. verdict'[f] = <<>> /\ upstream'[f] = NoIp
    BY <1>1, <1>3 DEF RequestDeferred
  <2> QED
    BY <2>1 DEF CleanAddress, Clears
<1>4. CASE RequestPassed(f, r)
  <2>1. /\ WriteLog(f, [status |-> Verdict(r, entry'[f]), ip |-> r.ip])
        /\ phase'[f] = IF r.ip = NoIp THEN "routing" ELSE "sent"
        /\ upstream'[f] = r.ip
    BY <1>4 DEF RequestPassed, Goto, TypeOK
  <2>2. CASE Verdict(r, entry'[f]) # "allowed" \/ r.ip = NoIp
    BY <1>1, <2>1, <2>2, UnclearedRecord
  <2>3. CASE Verdict(r, entry'[f]) = "allowed" /\ r.ip # NoIp
    <3>1. ~InternalIpViolation(Policy, entry'[f], r.ip)
      BY <2>3, AllowedVerdictIsClean
    <3> QED
      BY <1>1, <2>1, <2>3, <3>1, ClearedRecord
  <2> QED
    BY <2>2, <2>3
<1> QED
  BY <1>2, <1>3, <1>4

LEMMA ProxyStepAddress ==
  ASSUME AddressInv, NEW f \in Flows, Proxy(f)
  PROVE  CleanAddress(f)'
<1> USE DEF AddressInv, OnceInv
<1>1. entry' = entry
  BY DEF Proxy, Reuse, ServerConnect, ServerConnectIdle, Resolved, Dial,
         UpstreamFails, Response, ErrorHook
<1>2. CASE Reuse(f)
  <2>1. verdict' = verdict /\ phase[f] = "routing" /\ phase'[f] = "sent"
    BY <1>2 DEF Reuse, Goto, TypeOK
  <2> QED
    BY <2>1 DEF CleanAddress, Clears
<1>3. CASE ServerConnect(f) \/ ServerConnectIdle(f)
  <2>1. /\ verdict' = verdict /\ upstream' = upstream /\ phase[f] = "routing"
        /\ phase'[f] \in {"resolving", "dialing"}
    BY <1>3 DEF ServerConnect, ServerConnectIdle, Goto, TypeOK
  <2> QED
    BY <2>1 DEF CleanAddress, Clears
<1>4. ASSUME NEW ips \in Answers[req[f].host], Resolved(f, ips) PROVE CleanAddress(f)'
  <2> DEFINE rec == Guarded(entry[f], ips)
  <2>1. ips \in Seq(Ips)
    BY AddressesAssumption, RequestsAssumption DEF TypeOK
  <2>2. held[f] = f /\ verdict[f] = <<>> /\ upstream[f] = NoIp
    BY <1>4 DEF Resolved, HeldByItself, CleanAddress
  <2>3. /\ WriteLog(f, rec) /\ pin'[f] = Pinned(ips) /\ upstream' = upstream
        /\ phase'[f] \in {"failed", "dialing"}
    BY <1>4, <2>2 DEF Resolved, Goto, TypeOK
  <2>4. CASE rec.status # "allowed" \/ rec.ip = NoIp
    <3> HIDE DEF rec
    <3> QED
      BY <2>2, <2>3, <2>4, UnclearedRecord
  <2>5. CASE rec.status = "allowed" /\ rec.ip # NoIp
    <3>1. rec.ip = Pinned(ips) /\ ~InternalIpViolation(Policy, entry[f], rec.ip)
      BY <2>1, <2>5, GuardedRecord
    <3> HIDE DEF rec
    <3> QED
      BY <1>1, <2>2, <2>3, <2>5, <3>1, ClearedRecord
  <2> QED
    BY <2>4, <2>5
<1>5. ASSUME NEW ip \in Ips, Dial(f, ip) PROVE CleanAddress(f)'
  <2>1. /\ verdict' = verdict /\ phase[f] = "dialing" /\ phase'[f] = "sent"
        /\ upstream'[f] = ip /\ (pin[f] # NoIp => ip = pin[f])
    BY <1>5 DEF Dial, Goto, TypeOK
  <2>2. InternalIpViolation(Policy, entry[f], Head(verdict[f]).ip)'
          = InternalIpViolation(Policy, entry[f], Head(verdict[f]).ip)
    BY <1>1, <2>1
       DEF InternalIpViolation, Matches, MatchesExceptMethod, MethodMatches,
           DnsAllowsInternalIp, DomainMatches, PortMatches, PathMatches
  <2> QED
    BY <2>1, <2>2 DEF CleanAddress, Clears
<1>6. CASE UpstreamFails(f)
  <2>1. /\ verdict' = verdict /\ upstream' = upstream /\ pin' = pin
        /\ phase'[f] = "failed"
    BY <1>6 DEF UpstreamFails, Goto, TypeOK
  <2> QED
    BY <1>1, <2>1, AddressFrame
<1>7. CASE ErrorHook(f) \/ \E bytes \in {0, 1} : Response(f, bytes)
  <2>1. /\ FlushAwaiting(f) /\ upstream' = upstream /\ pin' = pin
        /\ phase'[f] = "done"
    BY <1>7 DEF ErrorHook, Response, Goto, TypeOK
  <2>2. CASE verdict' = verdict
    BY <1>1, <2>1, <2>2, AddressFrame
  <2>3. CASE verdict' # verdict
    <3>1. /\ WriteLog(f, [status |-> "allowed", ip |-> NoIp])
          /\ \E k \in Keys : \E i \in DOMAIN awaiting[k] : awaiting[k][i] = f
      BY <2>1, <2>3 DEF FlushAwaiting, LogDeferred
    <3>2. verdict[f] = <<>>
      BY <3>1 DEF WaitsAlone
    <3> QED
      BY <2>1, <3>1, <3>2, UnclearedRecord
  <2> QED
    BY <2>2, <2>3
<1> QED
  BY <1>2, <1>3, <1>4, <1>5, <1>6, <1>7 DEF Proxy

LEMMA NextAddress == AddressInv /\ [Next]_vars => AddressInv'
<1> SUFFICES ASSUME AddressInv, [Next]_vars PROVE AddressInv'
  OBVIOUS
<1>1. OnceInv'
  BY NextOnce DEF AddressInv
<1>2. ASSUME NEW f \in Flows PROVE CleanAddress(f)'
  <2>1. CleanAddress(f) /\ TypeOK
    BY DEF AddressInv, OnceInv
  <2>2. ASSUME NEW g \in Flows, NEW r \in Requests,
               \/ RequestRefused(g, r)
               \/ RequestDeferred(g, r)
               \/ RequestPassed(g, r)
        PROVE  CleanAddress(f)'
    <3>1. CASE f = g
      BY <1>1, <2>2, <3>1, RequestStepAddress
    <3>2. CASE f # g
      <4>1. /\ phase'[f] = phase[f] /\ upstream'[f] = upstream[f]
            /\ verdict'[f] = verdict[f] /\ entry'[f] = entry[f] /\ pin'[f] = pin[f]
        BY <2>1, <2>2, <3>2
           DEF RequestRefused, RequestDeferred, RequestPassed, Arrives, Goto,
               WriteLog, TypeOK
      <4> QED
        BY <2>1, <4>1, AddressFrame
    <3> QED
      BY <3>1, <3>2
  <2>3. ASSUME NEW g \in Flows, Proxy(g) PROVE CleanAddress(f)'
    <3>1. CASE f = g
      BY <2>3, <3>1, ProxyStepAddress
    <3>2. CASE f # g
      <4>1. phase[g] = "resolving" => held[g] = g
        BY DEF AddressInv, OnceInv, HeldByItself
      <4>2. /\ phase'[f] = phase[f] /\ upstream'[f] = upstream[f]
            /\ verdict'[f] = verdict[f] /\ entry'[f] = entry[f] /\ pin'[f] = pin[f]
        BY <2>1, <2>3, <3>2, <4>1
           DEF Proxy, Reuse, ServerConnect, ServerConnectIdle, Resolved, Dial,
               UpstreamFails, Response, ErrorHook, FlushAwaiting, LogDeferred,
               Goto, WriteLog, TypeOK
      <4> QED
        BY <2>1, <4>2, AddressFrame
    <3> QED
      BY <3>1, <3>2
  <2>4. ASSUME NEW c \in Clients, ClientLeaves(c) PROVE CleanAddress(f)'
    <3>1. /\ phase'[f] \in {phase[f], "failed"} /\ upstream'[f] = upstream[f]
          /\ verdict'[f] = verdict[f] /\ entry'[f] = entry[f] /\ pin'[f] = pin[f]
      BY <2>4 DEF ClientLeaves
    <3> QED
      BY <2>1, <3>1, AddressFrame
  <2>5. CASE UNCHANGED vars
    <3>1. /\ phase' = phase /\ upstream' = upstream /\ verdict' = verdict
          /\ entry' = entry /\ pin' = pin
      BY <2>5 DEF vars
    <3> QED
      BY <2>1, <3>1, AddressFrame
  <2> QED
    BY <2>2, <2>3, <2>4, <2>5 DEF Next
<1> QED
  BY <1>1, <1>2 DEF AddressInv

LEMMA InitAddress == Init => AddressInv
<1> SUFFICES ASSUME Init PROVE AddressInv
  OBVIOUS
<1>1. \A f \in Flows : CleanAddress(f)
  BY DEF Init, CleanAddress, Clears
<1> QED
  BY <1>1, InitOnce DEF AddressInv

(* A record that allows an address is about the address the request went   *)
(* to, and that address is one the entry may reach.                        *)
THEOREM LogIsHonest == Spec => []LoggedAddressIsReached
<1>1. AddressInv => LoggedAddressIsReached
  BY DEF AddressInv, CleanAddress, Clears, LoggedAddressIsReached, Sent, Logged
<1> QED
  BY <1>1, InitAddress, NextAddress, PTL DEF Spec

-----------------------------------------------------------------------------
(* What a verdict means, whichever checks it went through.                 *)

Permitted(r, e) ==
  /\ Allows(Policy, e)
  /\ r.authority # NoName => Allows(Policy, [e EXCEPT !.host = r.authority])
  /\ ~(r.protocol = "https" /\ r.badCert)
  /\ r.secret /\ ExfilMode = "block" => AllowsRequestBody(Policy, e)

(* Only enforce mode blocks, and only monitor mode would have.             *)
LEMMA VerdictOfMode ==
  ASSUME NEW r, NEW e
  PROVE  Verdict(r, e) \in
           {"allowed", IF mode = "monitor" THEN "would_block" ELSE "blocked"}
BY DEF Verdict, Evaluate, GuardInternalIp, Refusal, CertRejected, CarriesSecret

(* In enforce mode a request that is not blocked passed every check.       *)
LEMMA PassedIsPermitted ==
  ASSUME mode = "enforce", NEW r, NEW e \in Entries, Verdict(r, e) # "blocked"
  PROVE  Permitted(r, e)
<1> DEFINE guarded == IF Evaluate(Policy, mode, e) = "allowed"
                      THEN GuardInternalIp(e, r.ip) ELSE Evaluate(Policy, mode, e)
           fronted == IF guarded = "allowed" /\ Fronted(r, e)
                      THEN Refusal(mode) ELSE guarded
<1>1. /\ Verdict(r, e) = IF CertRejected(r, fronted) \/ CarriesSecret(r, e, fronted)
                         THEN "blocked" ELSE fronted
      /\ Refusal(mode) = "blocked"
  BY DEF Verdict, Refusal
<1>2. guarded \in {"allowed", "blocked"}
  BY <1>1 DEF Evaluate, GuardInternalIp
<1>3. /\ fronted = "allowed" /\ ~CertRejected(r, fronted)
      /\ ~CarriesSecret(r, e, fronted)
  BY <1>1, <1>2
<1>4. guarded = "allowed" /\ ~Fronted(r, e)
  BY <1>1, <1>3
<1>5. Allows(Policy, e)
  BY <1>1, <1>4 DEF Evaluate
<1>6. r.authority # NoName => Allows(Policy, [e EXCEPT !.host = r.authority])
  <2>1. CASE r.authority = e.host
    <3>1. [e EXCEPT !.host = e.host] = e
      BY DEF Entries
    <3> QED
      BY <1>5, <2>1, <3>1
  <2>2. CASE r.authority # e.host
    BY <1>4, <2>2 DEF Fronted
  <2> QED
    BY <2>1, <2>2
<1>7. ~(r.protocol = "https" /\ r.badCert)
  BY <1>3 DEF CertRejected
<1>8. r.secret /\ ExfilMode = "block" => AllowsRequestBody(Policy, e)
  BY <1>3 DEF CarriesSecret
<1> QED
  BY <1>5, <1>6, <1>7, <1>8 DEF Permitted

LEMMA GuardedOfMode ==
  ASSUME NEW ips, NEW e
  PROVE  Guarded(e, ips).status \in
           {"allowed", IF mode = "monitor" THEN "would_block" ELSE "blocked"}
BY DEF Guarded, Refusal

-----------------------------------------------------------------------------
(* A request that left, or may still leave, is not logged as blocked, and  *)
(* in enforce mode it is permitted.                                        *)

GoesOut(f) == phase[f] \in {"routing", "resolving", "dialing"} \/ Sent(f)

LeavesPermitted(f) ==
  GoesOut(f) =>
    /\ Logged(f) => Head(verdict[f]).status # "blocked"
    /\ mode = "enforce" => Permitted(req[f], entry[f])

PermitInv == AddressInv /\ \A f \in Flows : LeavesPermitted(f)

LEMMA InitPermit == Init => PermitInv
<1> SUFFICES ASSUME Init PROVE PermitInv
  OBVIOUS
<1>1. \A f \in Flows : LeavesPermitted(f)
  BY DEF Init, LeavesPermitted, GoesOut, Sent
<1> QED
  BY <1>1, InitAddress DEF PermitInv

LEMMA PermittedFrame ==
  ASSUME NEW f \in Flows, req'[f] = req[f], entry'[f] = entry[f],
         Permitted(req[f], entry[f])
  PROVE  Permitted(req[f], entry[f])'
BY DEF Permitted, Allows, AllowsDns, AllowsRequestBody, Matches,
       MatchesExceptMethod, MethodMatches, DomainMatches, PortMatches, PathMatches

(* A step that does not let the flow out, and logs no block for it.        *)
LEMMA PermitFrame ==
  ASSUME NEW f \in Flows, LeavesPermitted(f), mode' = mode,
         req'[f] = req[f], entry'[f] = entry[f], GoesOut(f)' => GoesOut(f),
         \/ verdict'[f] = verdict[f]
         \/ Logged(f)' /\ Head(verdict[f])'.status # "blocked"
         \/ ~GoesOut(f)'
  PROVE  LeavesPermitted(f)'
BY PermittedFrame DEF LeavesPermitted, Logged

LEMMA RequestStepPermit ==
  ASSUME PermitInv, NEW f \in Flows, NEW r \in Requests,
         \/ RequestRefused(f, r)
         \/ RequestDeferred(f, r)
         \/ RequestPassed(f, r)
  PROVE  LeavesPermitted(f)'
<1> USE DEF PermitInv, AddressInv, OnceInv
<1>1. verdict[f] = <<>> /\ upstream[f] = NoIp /\ mode' = mode /\ req'[f] = r
  BY DEF RequestRefused, RequestDeferred, RequestPassed, Arrives, TypeOK,
         LoggedOnce, CleanAddress
<1>2. entry'[f] \in Entries
  BY ArrivingEntryType DEF RequestRefused, RequestDeferred, RequestPassed, TypeOK
<1>3. CASE RequestRefused(f, r)
  BY <1>1, <1>3 DEF RequestRefused, Goto, TypeOK, LeavesPermitted, GoesOut, Sent
<1>4. CASE RequestDeferred(f, r) \/ RequestPassed(f, r)
  <2>1. Verdict(r, entry'[f]) # "blocked"
    BY <1>4 DEF RequestDeferred, RequestPassed, Defers
  <2>2. mode = "enforce" => Permitted(r, entry'[f])
    BY <1>2, <2>1, PassedIsPermitted
  <2>3. mode' = "enforce" => Permitted(req[f], entry[f])'
    BY <1>1, <2>2
       DEF Permitted, Allows, AllowsDns, AllowsRequestBody, Matches,
           MatchesExceptMethod, MethodMatches, DomainMatches, PortMatches,
           PathMatches
  <2>4. Logged(f)' => Head(verdict[f])'.status # "blocked"
    <3>1. CASE RequestDeferred(f, r)
      BY <1>1, <3>1 DEF RequestDeferred, Logged
    <3>2. CASE RequestPassed(f, r)
      <4>1. verdict'[f] = Append(verdict[f], [status |-> Verdict(r, entry'[f]), ip |-> r.ip])
        BY <3>2 DEF RequestPassed, WriteLog, TypeOK
      <4>2. \A rec : Head(Append(<<>>, rec)) = rec
        OBVIOUS
      <4>3. Head(verdict[f])' = [status |-> Verdict(r, entry'[f]), ip |-> r.ip]
        BY <1>1, <4>1, <4>2, Zenon
      <4> QED
        BY <2>1, <4>3
    <3> QED
      BY <1>4, <3>1, <3>2
  <2> QED
    BY <2>3, <2>4 DEF LeavesPermitted
<1> QED
  BY <1>3, <1>4

LEMMA ProxyStepPermit ==
  ASSUME PermitInv, NEW f \in Flows, Proxy(f)
  PROVE  LeavesPermitted(f)'
<1> USE DEF PermitInv, AddressInv, OnceInv
<1>1. mode' = mode /\ entry' = entry /\ req' = req
  BY DEF Proxy, Reuse, ServerConnect, ServerConnectIdle, Resolved, Dial,
         UpstreamFails, Response, ErrorHook
<1>2. CASE \/ Reuse(f) \/ ServerConnect(f) \/ ServerConnectIdle(f)
           \/ \E ip \in Ips : Dial(f, ip)
  <2>1. GoesOut(f) /\ verdict' = verdict
    BY <1>2 DEF Reuse, ServerConnect, ServerConnectIdle, Dial, GoesOut
  <2> QED
    BY <1>1, <2>1, PermitFrame
<1>3. ASSUME NEW ips \in Answers[req[f].host], Resolved(f, ips)
      PROVE  LeavesPermitted(f)'
  <2>1. /\ held[f] = f /\ verdict[f] = <<>> /\ upstream[f] = NoIp
        /\ phase[f] = "resolving"
    BY <1>3 DEF Resolved, HeldByItself, CleanAddress
  <2> DEFINE rec == Guarded(entry[f], ips)
  <2>2. /\ verdict'[f] = Append(verdict[f], rec) /\ upstream' = upstream
        /\ phase'[f] = IF rec.status = "blocked" THEN "failed" ELSE "dialing"
    BY <1>3, <2>1 DEF Resolved, Goto, WriteLog, TypeOK
  <2> HIDE DEF rec
  <2>3. \A x : Head(Append(<<>>, x)) = x
    OBVIOUS
  <2>4. Head(verdict[f])' = rec
    BY <2>1, <2>2, <2>3, Zenon
  <2>5. CASE rec.status = "blocked"
    BY <2>1, <2>2, <2>5 DEF LeavesPermitted, GoesOut, Sent
  <2>6. CASE rec.status # "blocked"
    <3>1. GoesOut(f) /\ Logged(f)'
      BY <2>1, <2>2 DEF GoesOut, Logged
    <3> QED
      BY <1>1, <2>4, <2>6, <3>1, PermitFrame
  <2> QED
    BY <2>5, <2>6
<1>4. CASE UpstreamFails(f)
  <2>1. verdict' = verdict /\ (GoesOut(f)' => GoesOut(f))
    BY <1>4 DEF UpstreamFails, Goto, TypeOK, GoesOut, Sent
  <2> QED
    BY <1>1, <2>1, PermitFrame
<1>5. CASE ErrorHook(f) \/ \E bytes \in {0, 1} : Response(f, bytes)
  <2>1. FlushAwaiting(f) /\ (GoesOut(f)' => GoesOut(f))
    BY <1>5 DEF ErrorHook, Response, Goto, TypeOK, GoesOut, Sent
  <2>2. CASE verdict' = verdict
    BY <1>1, <2>1, <2>2, PermitFrame
  <2>3. CASE verdict' # verdict
    <3>1. /\ verdict'[f] = Append(verdict[f], [status |-> "allowed", ip |-> NoIp])
          /\ \E k \in Keys : \E i \in DOMAIN awaiting[k] : awaiting[k][i] = f
      BY <2>1, <2>3 DEF FlushAwaiting, LogDeferred, WriteLog, TypeOK
    <3>2. verdict[f] = <<>>
      BY <3>1 DEF WaitsAlone
    <3>3. \A x : Head(Append(<<>>, x)) = x /\ Append(<<>>, x) # <<>>
      OBVIOUS
    <3>4. Logged(f)' /\ Head(verdict[f])' = [status |-> "allowed", ip |-> NoIp]
      BY <3>1, <3>2, <3>3, Zenon DEF Logged
    <3> QED
      BY <1>1, <2>1, <3>4, PermitFrame
  <2> QED
    BY <2>2, <2>3
<1> QED
  BY <1>2, <1>3, <1>4, <1>5 DEF Proxy

LEMMA NextPermit == PermitInv /\ [Next]_vars => PermitInv'
<1> SUFFICES ASSUME PermitInv, [Next]_vars PROVE PermitInv'
  OBVIOUS
<1>1. AddressInv'
  BY NextAddress DEF PermitInv
<1>2. ASSUME NEW f \in Flows PROVE LeavesPermitted(f)'
  <2> USE DEF PermitInv, AddressInv, OnceInv
  <2>1. ASSUME NEW g \in Flows, NEW r \in Requests,
               \/ RequestRefused(g, r)
               \/ RequestDeferred(g, r)
               \/ RequestPassed(g, r)
        PROVE  LeavesPermitted(f)'
    <3>1. CASE f = g
      BY <2>1, <3>1, RequestStepPermit
    <3>2. CASE f # g
      <4>1. /\ mode' = mode /\ req'[f] = req[f] /\ entry'[f] = entry[f]
            /\ verdict'[f] = verdict[f] /\ (GoesOut(f)' => GoesOut(f))
        BY <2>1, <3>2
           DEF RequestRefused, RequestDeferred, RequestPassed, Arrives, Goto,
               WriteLog, TypeOK, GoesOut, Sent
      <4> QED
        BY <4>1, PermitFrame
    <3> QED
      BY <3>1, <3>2
  <2>2. ASSUME NEW g \in Flows, Proxy(g) PROVE LeavesPermitted(f)'
    <3>1. CASE f = g
      BY <2>2, <3>1, ProxyStepPermit
    <3>2. CASE f # g
      <4>1. phase[g] = "resolving" => held[g] = g
        BY DEF HeldByItself
      <4>2. /\ mode' = mode /\ req'[f] = req[f] /\ entry'[f] = entry[f]
            /\ verdict'[f] = verdict[f] /\ (GoesOut(f)' => GoesOut(f))
        BY <2>2, <3>2, <4>1
           DEF Proxy, Reuse, ServerConnect, ServerConnectIdle, Resolved, Dial,
               UpstreamFails, Response, ErrorHook, FlushAwaiting, LogDeferred,
               Goto, WriteLog, TypeOK, GoesOut, Sent
      <4> QED
        BY <4>2, PermitFrame
    <3> QED
      BY <3>1, <3>2
  <2>3. ASSUME NEW c \in Clients, ClientLeaves(c) PROVE LeavesPermitted(f)'
    <3>1. /\ mode' = mode /\ req' = req /\ entry' = entry /\ verdict' = verdict
          /\ (GoesOut(f)' => GoesOut(f))
      BY <2>3 DEF ClientLeaves, GoesOut, Sent
    <3> QED
      BY <3>1, PermitFrame
  <2>4. CASE UNCHANGED vars
    <3>1. /\ mode' = mode /\ req' = req /\ entry' = entry /\ verdict' = verdict
          /\ (GoesOut(f)' => GoesOut(f))
      BY <2>4 DEF vars, GoesOut, Sent
    <3> QED
      BY <3>1, PermitFrame
  <2> QED
    BY <2>1, <2>2, <2>3, <2>4 DEF Next
<1> QED
  BY <1>1, <1>2 DEF PermitInv

LEMMA PermitInvariant == Spec => []PermitInv
<1> QED
  BY InitPermit, NextPermit, PTL DEF Spec

(* In enforce mode no request leaves the runner but one whose host and     *)
(* Host header are allowed, whose certificate was not rejected and whose   *)
(* secret, if it carries one, a rule exempts, on whichever way it left: at *)
(* once, over a connection that was open, or after server_connect.         *)
THEOREM EnforcedTrafficPermitted == Spec => []SentIsPermitted
<1>1. PermitInv => SentIsPermitted
  BY DEF PermitInv, LeavesPermitted, GoesOut, Permitted, SentIsPermitted
<1> QED
  BY <1>1, PermitInvariant, PTL

-----------------------------------------------------------------------------
(* The refinement.  The record Firewall has of a request is its last       *)
(* verdict record, and the wire is upstream.                               *)

RecordOf == [f \in Flows |-> IF Logged(f) THEN verdict[f][Len(verdict[f])]
                             ELSE Promise!Unjudged]

(* A first verdict record is what Firewall sees written.                   *)
LEMMA RecordWritten ==
  ASSUME TypeOK, NEW f \in Flows, verdict[f] = <<>>, NEW rec \in Records,
         WriteLog(f, rec)
  PROVE  RecordOf[f] = Promise!Unjudged /\ RecordOf' = [RecordOf EXCEPT ![f] = rec]
<1>1. /\ verdict'[f] = Append(verdict[f], rec)
      /\ \A g \in Flows : g # f => verdict'[g] = verdict[g]
  BY DEF WriteLog, TypeOK
<1>2. Append(<<>>, rec) # <<>> /\ Append(<<>>, rec)[Len(Append(<<>>, rec))] = rec
  OBVIOUS
<1>3. Logged(f)' /\ verdict'[f][Len(verdict'[f])] = rec
  BY <1>1, <1>2, Zenon DEF Logged
<1>4. \A g \in Flows : RecordOf'[g] = IF g = f THEN rec ELSE RecordOf[g]
  BY <1>1, <1>3 DEF RecordOf, Logged, Promise!Unjudged
<1> QED
  BY <1>4 DEF RecordOf, Logged

LEMMA RecordKept ==
  ASSUME verdict' = verdict
  PROVE  RecordOf' = RecordOf
BY DEF RecordOf, Logged, Promise!Unjudged

LEMMA LastOfOne ==
  ASSUME NEW S, NEW s \in Seq(S), s # <<>>, Len(s) <= 1
  PROVE  s[Len(s)] = Head(s)
<1>0. Len(s) \in Nat \ {0}
  BY EmptySeq, Zenon
<1>1. Len(s) = 1
  BY <1>0
<1> QED
  BY <1>1

(* What the record of a request that may still leave says.                 *)
LEMMA RecordLeads ==
  ASSUME PermitInv, NEW f \in Flows, phase[f] \in {"routing", "dialing"}, NEW ip,
         phase[f] = "dialing" /\ pin[f] # NoIp => ip = pin[f]
  PROVE  /\ upstream[f] = NoIp
         /\ RecordOf[f].status # "blocked" /\ Promise!Leads(RecordOf[f], ip)
<1> USE DEF PermitInv, AddressInv, OnceInv
<1>1. upstream[f] = NoIp
  BY DEF CleanAddress
<1>2. CASE verdict[f] = <<>>
  BY <1>1, <1>2 DEF RecordOf, Logged, Promise!Unjudged, Promise!Leads
<1>3. CASE verdict[f] # <<>>
  <2>1. RecordOf[f] = Head(verdict[f])
    <3>1. verdict[f] \in Seq(Records) /\ Len(verdict[f]) <= 1
      BY DEF TypeOK, LoggedOnce
    <3>2. verdict[f][Len(verdict[f])] = Head(verdict[f])
      BY <1>3, <3>1, LastOfOne
    <3> QED
      BY <1>3, <3>2 DEF RecordOf, Logged
  <2>2. Head(verdict[f]).status # "blocked"
    BY <1>3 DEF LeavesPermitted, GoesOut, Logged
  <2>3. Head(verdict[f]).status = "allowed" => Head(verdict[f]).ip \in {NoIp, ip}
    BY <1>3 DEF CleanAddress, Clears, TypeOK
  <2> QED
    BY <1>1, <2>1, <2>2, <2>3 DEF Promise!Leads
<1> QED
  BY <1>2, <1>3

LEMMA PromiseInit == Init => Promise!Init
BY DEF Init, Logged, Promise!Init, Promise!Unjudged, Modes

LEMMA RecordIsPromise == RecordOf = [f \in Flows |->
   IF Logged(f) THEN verdict[f][Len(verdict[f])] ELSE [status |-> "none", ip |-> NoIp]]
BY DEF RecordOf, Promise!Unjudged

LEMMA RequestStepPromise ==
  ASSUME PermitInv, NEW f \in Flows, NEW r \in Requests,
         \/ RequestRefused(f, r)
         \/ RequestDeferred(f, r)
         \/ RequestPassed(f, r)
  PROVE  Promise!Next \/ UNCHANGED <<mode, RecordOf, upstream>>
<1> USE DEF PermitInv, AddressInv, OnceInv
<1>1. verdict[f] = <<>> /\ upstream[f] = NoIp
  BY DEF RequestRefused, RequestDeferred, RequestPassed, Arrives,
         LoggedOnce, CleanAddress
<1>2. ASSUME NEW s \in {"allowed", IF mode = "monitor" THEN "would_block" ELSE "blocked"}
      PROVE  /\ [status |-> s, ip |-> r.ip] \in Records
             /\ [status |-> s, ip |-> r.ip] \in Promise!Records
  BY RequestsAssumption DEF Records, Statuses, Promise!Records, Promise!Verdicts,
       TypeOK, Modes
<1>3. CASE RequestRefused(f, r)
  <2> DEFINE rec == [status |-> "blocked", ip |-> r.ip]
  <2>1. WriteLog(f, rec) /\ UNCHANGED <<mode, upstream>>
    BY <1>3 DEF RequestRefused
  <2>2. rec \in Records /\ rec \in Promise!Records
    <3>1. Verdict(r, entry'[f]) = "blocked"
      BY <1>3 DEF RequestRefused
    <3> QED
      BY <1>2, <3>1, VerdictOfMode
  <2> HIDE DEF rec
  <2>3. Promise!Judge(f, rec)
    BY <1>1, <2>1, <2>2, RecordWritten DEF Promise!Judge, RecordOf, Promise!Unjudged
  <2> QED
    BY <2>2, <2>3 DEF Promise!Next
<1>4. CASE RequestDeferred(f, r)
  BY <1>4, RecordKept DEF RequestDeferred
<1>5. CASE RequestPassed(f, r)
  <2>0. PICK rec : rec = [status |-> Verdict(r, entry'[f]), ip |-> r.ip]
    OBVIOUS
  <2>1. /\ WriteLog(f, rec) /\ mode' = mode
        /\ upstream' = [upstream EXCEPT ![f] = rec.ip] /\ rec.status # "blocked"
    BY <1>5, <2>0 DEF RequestPassed
  <2>2. rec \in Records /\ rec \in Promise!Records
    BY <1>2, <2>0, VerdictOfMode
  <2>3. CASE rec.ip = NoIp
    <3>1. upstream' = upstream
      BY <1>1, <2>1, <2>3 DEF TypeOK
    <3>2. Promise!Judge(f, rec)
      BY <1>1, <2>1, <2>2, <3>1, RecordWritten
         DEF Promise!Judge, RecordOf, Promise!Unjudged
    <3> QED
      BY <2>2, <3>2 DEF Promise!Next
  <2>4. CASE rec.ip # NoIp
    <3>1. Promise!Pass(f, rec)
      BY <1>1, <2>1, <2>2, <2>4, RecordWritten
         DEF Promise!Pass, RecordOf, Promise!Unjudged
    <3> QED
      BY <2>2, <3>1 DEF Promise!Next
  <2> QED
    BY <2>3, <2>4
<1> QED
  BY <1>3, <1>4, <1>5

LEMMA ProxyStepPromise ==
  ASSUME PermitInv, NEW f \in Flows, Proxy(f)
  PROVE  Promise!Next \/ UNCHANGED <<mode, RecordOf, upstream>>
<1> USE DEF PermitInv, AddressInv, OnceInv
<1>1. ASSUME NEW ip \in Ips, phase[f] \in {"routing", "dialing"},
             phase[f] = "dialing" /\ pin[f] # NoIp => ip = pin[f],
             upstream' = [upstream EXCEPT ![f] = ip], UNCHANGED <<mode, verdict>>
      PROVE  Promise!Next
  <2>1. Promise!Send(f, ip)
    BY <1>1, RecordLeads, RecordKept DEF Promise!Send, RecordOf, Promise!Unjudged
  <2> QED
    BY <2>1 DEF Promise!Next
<1>2. CASE Reuse(f)
  <2>1. PICK c \in Suitable(f) : upstream' = [upstream EXCEPT ![f] = c.ip]
    BY <1>2 DEF Reuse
  <2>2. c \in [host : Names, port : Ports, ip : Ips]
    BY <2>1, FlowsAssumption DEF Suitable, TypeOK
  <2>3. c.ip \in Ips
    BY <2>2
  <2> QED
    BY <1>1, <1>2, <2>1, <2>3 DEF Reuse
<1>3. ASSUME NEW ip \in Ips, Dial(f, ip) PROVE Promise!Next
  BY <1>1, <1>3 DEF Dial
<1>4. CASE ServerConnect(f) \/ ServerConnectIdle(f) \/ UpstreamFails(f)
  BY <1>4, RecordKept DEF ServerConnect, ServerConnectIdle, UpstreamFails
<1>5. ASSUME NEW ips \in Answers[req[f].host], Resolved(f, ips) PROVE Promise!Next
  <2>1. /\ held[f] = f /\ verdict[f] = <<>> /\ upstream[f] = NoIp
    BY <1>5 DEF Resolved, HeldByItself, CleanAddress
  <2>0. PICK rec : rec = Guarded(entry[f], ips)
    OBVIOUS
  <2>2. WriteLog(f, rec) /\ UNCHANGED <<mode, upstream>>
    BY <1>5, <2>0, <2>1 DEF Resolved
  <2>3. rec \in Records /\ rec \in Promise!Records
    <3>1. ips \in Seq(Ips)
      BY AddressesAssumption, RequestsAssumption DEF TypeOK
    <3>2. rec \in Records
      BY <2>0, <3>1, GuardedRecord
    <3>3. rec.status \in {"allowed", IF mode = "monitor" THEN "would_block" ELSE "blocked"}
      BY <2>0, GuardedOfMode
    <3> QED
      BY <3>2, <3>3 DEF Records, Promise!Records, Promise!Verdicts, TypeOK, Modes
  <2>4. Promise!Judge(f, rec)
    BY <2>1, <2>2, <2>3, RecordWritten DEF Promise!Judge, RecordOf, Promise!Unjudged
  <2> QED
    BY <2>3, <2>4 DEF Promise!Next
<1>6. CASE ErrorHook(f) \/ \E bytes \in {0, 1} : Response(f, bytes)
  <2>1. FlushAwaiting(f) /\ UNCHANGED <<mode, upstream>>
    BY <1>6 DEF ErrorHook, Response
  <2>2. CASE verdict' = verdict
    BY <2>1, <2>2, RecordKept
  <2>3. CASE verdict' # verdict
    <3> DEFINE rec == [status |-> "allowed", ip |-> NoIp]
    <3>1. /\ WriteLog(f, rec)
          /\ \E k \in Keys : \E i \in DOMAIN awaiting[k] : awaiting[k][i] = f
      BY <2>1, <2>3 DEF FlushAwaiting, LogDeferred
    <3>2. verdict[f] = <<>>
      BY <3>1 DEF WaitsAlone
    <3>3. rec \in Records /\ rec \in Promise!Records
      BY DEF Records, Statuses, Promise!Records, Promise!Verdicts
    <3>4. RecordOf[f] = Promise!Unjudged /\ RecordOf' = [RecordOf EXCEPT ![f] = rec]
      BY <3>1, <3>2, <3>3, RecordWritten
    <3>5. Promise!Judge(f, rec) \/ Promise!Note(f)
      BY <2>1, <3>4 DEF Promise!Judge, Promise!Note, RecordOf, Promise!Unjudged
    <3> HIDE DEF rec
    <3> QED
      BY <3>3, <3>5 DEF Promise!Next
  <2> QED
    BY <2>2, <2>3
<1> QED
  BY <1>2, <1>3, <1>4, <1>5, <1>6 DEF Proxy

LEMMA PromiseStep ==
  PermitInv /\ [Next]_vars => [Promise!Next]_<<mode, RecordOf, upstream>>
<1> SUFFICES ASSUME PermitInv, [Next]_vars
             PROVE  Promise!Next \/ UNCHANGED <<mode, RecordOf, upstream>>
  OBVIOUS
<1>1. ASSUME NEW c \in Clients, ClientLeaves(c)
      PROVE  UNCHANGED <<mode, RecordOf, upstream>>
  BY <1>1, RecordKept DEF ClientLeaves
<1>2. CASE UNCHANGED vars
  BY <1>2, RecordKept DEF vars
<1> QED
  BY <1>1, <1>2, RequestStepPromise, ProxyStepPromise DEF Next

(* However the hooks interleave, what they do to the log and to the wire   *)
(* is what Firewall promises.                                              *)
THEOREM FirewallImplemented == Spec => ImplementsFirewall
<1>1. PermitInv /\ [Next]_vars => [Promise!Next]_<<mode, RecordOf, upstream>>
  BY PromiseStep
<1> QED
  BY <1>1, PromiseInit, PermitInvariant, RecordIsPromise, PTL
     DEF Spec, ImplementsFirewall, Promise!Spec, RecordOf, Promise!Unjudged
=============================================================================
