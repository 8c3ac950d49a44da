--------------------------- MODULE TcpFlow_proofs ---------------------------
(* Proofs about TcpFlow, for any policy, any connections and any names the *)
(* resolver may learn.                                                     *)
EXTENDS TcpFlow, TLAPS

-----------------------------------------------------------------------------
(* Type correctness.                                                       *)

LEMMA StatusType ==
  ASSUME NEW c
  PROVE  Status(c) \in {"allowed", Refusal(Mode)}
BY DEF Status, Evaluate

LEMMA RecordedType ==
  ASSUME NEW c
  PROVE  Recorded(c) \in {"allowed", "passthrough", "would_block", "blocked"}
BY StatusType DEF Recorded, Refusal

LEMMA InitType == Init => TypeOK
<1> SUFFICES ASSUME Init PROVE TypeOK
  OBVIOUS
<1>1. conn \in [Conns -> Connections]
  BY ConnectionsAssumption DEF Init
<1> QED
  BY <1>1 DEF Init, TypeOK

LEMMA NextType == TypeOK /\ [Next]_vars => TypeOK'
<1> SUFFICES ASSUME TypeOK, [Next]_vars PROVE TypeOK'
  OBVIOUS
<1> USE DEF TypeOK
<1>1. ASSUME NEW ip \in Ips, NEW name \in Names, Learns(ip, name) PROVE TypeOK'
  BY <1>1 DEF Learns
<1>2. ASSUME NEW c \in Conns, NEW k \in Connections, NextLayer(c, k) PROVE TypeOK'
  <2>1. Binding(k) \in Names \cup {NoName}
    BY ConnectionsAssumption DEF Binding
  <2> QED
    BY <1>2, <2>1 DEF NextLayer
<1>3. ASSUME NEW c \in Conns, TcpStart(c) PROVE TypeOK'
  BY <1>3 DEF TcpStart
<1>4. ASSUME NEW c \in Conns, TcpMessage(c) PROVE TypeOK'
  BY <1>4, RecordedType DEF TcpMessage
<1>5. ASSUME NEW c \in Conns, TcpEnd(c) PROVE TypeOK'
  BY <1>5 DEF TcpEnd
<1>6. CASE UNCHANGED vars
  BY <1>6 DEF vars
<1> QED
  BY <1>1, <1>2, <1>3, <1>4, <1>5, <1>6 DEF Next

(* Every variable keeps its type.                                          *)
THEOREM TypeCorrect == Spec => []TypeOK
<1> QED
  BY InitType, NextType, PTL DEF Spec

-----------------------------------------------------------------------------
(* What was true of a connection when next_layer bound it stays true: a    *)
(* name is never taken from an address again.  The latest name of an       *)
(* address may change, so that needs every latest name among its names.    *)

LatestIsNamed == \A ip \in Ips : latest[ip] # NoName => latest[ip] \in names[ip]

(* A connection that is bound to its destination under a name a rule       *)
(* passes through.                                                         *)
Passable(k) ==
  HasPassthroughRule(Policy, HttpsEntry(k, k.sni)) /\ BoundTo(k)

(* What makes the verdict of a message that is relayed under this name.    *)
Relayable(k, name) ==
  LET e == HttpsEntry(k, name)
  IN  Allows(Policy, e) /\ ~InternalIpViolation(Policy, e, k.ip)

BoundInv(c) ==
  /\ passthrough[c] # NoName =>
       passthrough[c] = conn[c].sni /\ Passable(conn[c])
  /\ \A i \in DOMAIN log[c] : log[c][i] = "passthrough" =>
       Passable(conn[c]) /\ Relayable(conn[c], conn[c].sni)

(* All messages of a relayed connection are judged alike, and none of any  *)
(* other is recorded as relayed.                                           *)
SteadyInv(c) ==
  /\ phase[c] = "new" => passthrough[c] = NoName
  /\ phase[c] \in {"new", "starting", "intercepted"} => log[c] = <<>>
  /\ phase[c] = "open" =>
       \A i \in DOMAIN log[c] :
         log[c][i] = "passthrough"
           <=> passthrough[c] # NoName /\ Relayable(conn[c], passthrough[c])
  /\ \A i, j \in DOMAIN log[c] :
       log[c][i] = "passthrough" => log[c][j] = "passthrough"

RelayInv ==
  TypeOK /\ LatestIsNamed /\ \A c \in Conns : BoundInv(c) /\ SteadyInv(c)

LEMMA InitRelay == Init => RelayInv
<1> SUFFICES ASSUME Init PROVE RelayInv
  OBVIOUS
<1>1. ASSUME NEW c \in Conns
      PROVE  log[c] = <<>> /\ passthrough[c] = NoName /\ phase[c] = "new"
  BY DEF Init
<1>2. \A c \in Conns : BoundInv(c) /\ SteadyInv(c)
  BY <1>1 DEF BoundInv, SteadyInv
<1>3. LatestIsNamed
  BY DEF Init, LatestIsNamed
<1> QED
  BY <1>2, <1>3, InitType DEF RelayInv

LEMMA RecordedPassthrough ==
  ASSUME NEW c
  PROVE  Recorded(c) = "passthrough"
           <=> passthrough[c] # NoName /\ Relayable(conn[c], passthrough[c])
<1>1. Refusal(Mode) \in {"would_block", "blocked"}
  BY DEF Refusal
<1> QED
  BY <1>1 DEF Recorded, Status, Evaluate, TcpEntry, Relayable

(* What a policy says of a connection does not depend on the state ...     *)
LEMMA RelayableFrame ==
  ASSUME NEW c, conn'[c] = conn[c]
  PROVE  /\ Relayable(conn[c], conn[c].sni)' = Relayable(conn[c], conn[c].sni)
         /\ passthrough'[c] = passthrough[c] =>
              Relayable(conn[c], passthrough[c])' = Relayable(conn[c], passthrough[c])
BY DEF Relayable, HttpsEntry, Allows, AllowsDns, InternalIpViolation,
       DnsAllowsInternalIp, Matches, MatchesExceptMethod, MethodMatches,
       DomainMatches, PortMatches, PathMatches

(* ... and a destination that is bound stays bound while names only grow.  *)
LEMMA PassableFrame ==
  ASSUME NEW c, conn'[c] = conn[c], Passable(conn[c]),
         \A ip \in Ips : DnsNames(ip) \subseteq DnsNames(ip)'
  PROVE  Passable(conn[c])'
<1>1. BoundTo(conn[c])'
  BY DEF Passable, BoundTo
<1>2. HasPassthroughRule(Policy, HttpsEntry(conn[c], conn[c].sni))'
  BY DEF Passable, HasPassthroughRule, HttpsEntry, Matches, MatchesExceptMethod,
         MethodMatches, DomainMatches, PortMatches, PathMatches
<1> QED
  BY <1>1, <1>2 DEF Passable

(* A step that leaves the connection and its records alone.                *)
LEMMA RelayFrame ==
  ASSUME NEW c \in Conns, BoundInv(c), SteadyInv(c),
         conn'[c] = conn[c], log'[c] = log[c],
         passthrough'[c] \in {passthrough[c], NoName},
         passthrough'[c] = passthrough[c] \/ phase'[c] = "ended",
         phase'[c] \in {phase[c], "open", "ended"},
         phase'[c] = "open" => phase[c] \in {"starting", "open"},
         \A ip \in Ips : DnsNames(ip) \subseteq DnsNames(ip)'
  PROVE  BoundInv(c)' /\ SteadyInv(c)'
<1>1. BoundInv(c)'
  BY PassableFrame, RelayableFrame DEF BoundInv
<1>2. SteadyInv(c)'
  BY RelayableFrame DEF SteadyInv
<1> QED
  BY <1>1, <1>2

LEMMA MessageStep ==
  ASSUME RelayInv, NEW c \in Conns, TcpMessage(c)
  PROVE  BoundInv(c)' /\ SteadyInv(c)'
<1> USE DEF RelayInv
<1>1. /\ conn' = conn /\ passthrough' = passthrough /\ phase' = phase
      /\ names' = names /\ latest' = latest /\ phase[c] = "open"
      /\ log'[c] = Append(log[c], Recorded(c))
  BY DEF TcpMessage, TypeOK
<1>2. log[c] \in Seq({"allowed", "passthrough", "would_block", "blocked"})
  BY DEF TypeOK
<1>3. ASSUME NEW i \in DOMAIN log'[c]
      PROVE  log'[c][i] = "passthrough"
               <=> passthrough[c] # NoName /\ Relayable(conn[c], passthrough[c])
  <2>1. CASE i \in DOMAIN log[c]
    <3>1. log'[c][i] = log[c][i]
      BY <1>1, <1>2, <2>1, RecordedType
    <3> QED
      BY <1>1, <2>1, <3>1 DEF SteadyInv
  <2>2. CASE i \notin DOMAIN log[c]
    <3>1. log'[c][i] = Recorded(c)
      BY <1>1, <1>2, <1>3, <2>2, RecordedType
    <3> QED
      BY <3>1, RecordedPassthrough
  <2> QED
    BY <2>1, <2>2
<1>4. SteadyInv(c)'
  <2>1. \A i \in DOMAIN log'[c] :
          log'[c][i] = "passthrough"
            <=> passthrough'[c] # NoName /\ Relayable(conn[c], passthrough[c])'
    BY <1>1, <1>3, RelayableFrame
  <2> QED
    BY <1>1, <2>1 DEF SteadyInv
<1>5. BoundInv(c)'
  <2>1. \A ip \in Ips : DnsNames(ip)' = DnsNames(ip)
    BY <1>1 DEF DnsNames
  <2>2. passthrough[c] # NoName => Passable(conn[c])'
    BY <1>1, <2>1, PassableFrame DEF BoundInv
  <2>3. \A i \in DOMAIN log'[c] : log'[c][i] = "passthrough" =>
          Passable(conn[c])' /\ Relayable(conn[c], conn[c].sni)'
    BY <1>1, <1>3, <2>2, RelayableFrame DEF BoundInv
  <2> QED
    BY <1>1, <2>2, <2>3 DEF BoundInv
<1> QED
  BY <1>4, <1>5

LEMMA NextLayerStep ==
  ASSUME RelayInv, NEW c \in Conns, NEW k \in Connections, NextLayer(c, k)
  PROVE  BoundInv(c)' /\ SteadyInv(c)'
<1> USE DEF RelayInv
<1>1. /\ log[c] = <<>> /\ log'[c] = <<>> /\ conn'[c] = k
      /\ names' = names /\ latest' = latest
      /\ phase'[c] \in {"starting", "intercepted"}
  BY DEF NextLayer, SteadyInv, TypeOK
<1>2. CASE HasPassthrough /\ PassthroughSni(k)
  <2>1. passthrough'[c] = k.sni /\ Passable(k)
    BY <1>2 DEF NextLayer, TypeOK, Binding, PassthroughSni, Passable
  <2>2. Passable(conn[c])'
    BY <1>1, <2>1
       DEF Passable, BoundTo, DnsNames, HasPassthroughRule, HttpsEntry, Matches,
           MatchesExceptMethod, MethodMatches, DomainMatches, PortMatches, PathMatches
  <2> QED
    BY <1>1, <2>1, <2>2 DEF BoundInv, SteadyInv
<1>3. CASE ~(HasPassthrough /\ PassthroughSni(k))
  <2>1. passthrough'[c] = NoName
    BY <1>3 DEF NextLayer, SteadyInv
  <2> QED
    BY <1>1, <2>1 DEF BoundInv, SteadyInv
<1> QED
  BY <1>2, <1>3

LEMMA NextRelay == RelayInv /\ [Next]_vars => RelayInv'
<1> SUFFICES ASSUME RelayInv, [Next]_vars PROVE RelayInv'
  OBVIOUS
<1> USE DEF RelayInv
<1>1. TypeOK'
  BY NextType
<1>2. LatestIsNamed' /\ \A ip \in Ips : DnsNames(ip) \subseteq DnsNames(ip)'
  <2>1. ASSUME NEW ip \in Ips, NEW name \in Names, Learns(ip, name)
        PROVE  LatestIsNamed' /\ \A a \in Ips : DnsNames(a) \subseteq DnsNames(a)'
    <3>1. \A a \in Ips : /\ latest'[a] = IF a = ip THEN name ELSE latest[a]
                        /\ names'[a] = IF a = ip THEN names[a] \cup {name} ELSE names[a]
      BY <2>1 DEF Learns, TypeOK
    <3> QED
      BY <3>1 DEF LatestIsNamed, DnsNames
  <2>2. CASE UNCHANGED <<latest, names>>
    BY <2>2 DEF LatestIsNamed, DnsNames
  <2> QED
    BY <2>1, <2>2 DEF Next, NextLayer, TcpStart, TcpMessage, TcpEnd, vars
<1>3. ASSUME NEW c \in Conns PROVE BoundInv(c)' /\ SteadyInv(c)'
  <2>1. ASSUME NEW ip \in Ips, NEW name \in Names, Learns(ip, name)
        PROVE  BoundInv(c)' /\ SteadyInv(c)'
    BY <1>2, <2>1, RelayFrame DEF Learns
  <2>2. ASSUME NEW d \in Conns,
               \/ \E k \in Connections : NextLayer(d, k)
               \/ TcpStart(d) \/ TcpMessage(d) \/ TcpEnd(d)
        PROVE  BoundInv(c)' /\ SteadyInv(c)'
    <3>1. CASE d # c
      <4>1. /\ conn'[c] = conn[c] /\ log'[c] = log[c] /\ phase'[c] = phase[c]
            /\ passthrough'[c] = passthrough[c]
        BY <2>2, <3>1 DEF NextLayer, TcpStart, TcpMessage, TcpEnd, TypeOK
      <4> QED
        BY <1>2, <4>1, RelayFrame
    <3>2. CASE d = c /\ (TcpStart(c) \/ TcpEnd(c))
      BY <1>2, <3>2, RelayFrame DEF TcpStart, TcpEnd, TypeOK
    <3> QED
      BY <2>2, <3>1, <3>2, NextLayerStep, MessageStep
  <2>3. CASE UNCHANGED vars
    BY <1>2, <2>3, RelayFrame DEF vars
  <2> QED
    BY <2>1, <2>2, <2>3 DEF Next
<1> QED
  BY <1>1, <1>2, <1>3

LEMMA RelayInvariant == Spec => []RelayInv
<1> QED
  BY InitRelay, NextRelay, PTL DEF Spec

(* Bytes pass undecrypted only under a name a rule passes through, to an   *)
(* address the job's DNS has for that name, whatever the DNS map learned   *)
(* since next_layer looked.                                                *)
THEOREM RelayedBound == Spec => []PassthroughIsBound
<1>1. RelayInv => PassthroughIsBound
  BY DEF RelayInv, BoundInv, Passable, BoundTo, Relayable, PassthroughIsBound
<1> QED
  BY <1>1, RelayInvariant, PTL

(* A connection that is relayed undecrypted is never judged otherwise,     *)
(* although each of its messages is judged anew.                           *)
THEOREM RelayedSteadily == Spec => []PassthroughVerdictIsStable
<1>1. RelayInv => PassthroughVerdictIsStable
  BY DEF RelayInv, SteadyInv, PassthroughVerdictIsStable, Range
<1> QED
  BY <1>1, RelayInvariant, PTL
=============================================================================
