------------------------------ MODULE TcpFlow ------------------------------
(***************************************************************************)
(* Connections the addon does not decrypt (proxy/addon.py): next_layer     *)
(* relays a ClientHello whose name a "tls: passthrough" rule matches and   *)
(* the job's DNS resolved to this address, and the tcp hooks judge every   *)
(* message of such a connection, or of one that is no TLS at all, anew.    *)
(* The names of an address come from the DNS map, which may change while a *)
(* connection is open.  mitmproxy is external: it connects before          *)
(* next_layer, relays what tcp_message leaves in the message, and its TCP  *)
(* layer does not act on flow.kill().                                      *)
(***************************************************************************)
EXTENDS PolicyEngine, SequencesExt

CONSTANTS Conns,         \* connection ids
          Connections,   \* what may come: [tls, sni, addr, ip, port] records
          Names, Ips,    \* an addr is a name or an address, an ip an address
          Resolved,      \* the <<ip, name>> pairs the resolver may learn
          Policy, Mode, NoName,
          MaxMessages    \* bound: the messages of one connection

ASSUME ConnectionsAssumption ==
  /\ Connections # {}
  /\ Connections \subseteq [tls : BOOLEAN, sni : Names \cup {NoName},
                            addr : Names \cup Ips, ip : Ips, port : Nat]
  /\ NoName \notin Names \cup Ips
  /\ Resolved \subseteq Ips \X Names
  /\ Mode \in {"monitor", "enforce"}

VARIABLES
  latest,       \* the DNS map: the latest name of each address
  names,        \* its .names file: all of them
  phase, conn,  \* of each connection
  passthrough,  \* _passthrough
  refused,      \* tcp_start tried to kill the flow
  log,          \* its records
  relayed       \* how many messages went on with their bytes

vars == <<latest, names, phase, conn, passthrough, refused, log, relayed>>

Init ==
  /\ latest      = [ip \in Ips |-> NoName]
  /\ names       = [ip \in Ips |-> {}]
  /\ phase       = [c \in Conns |-> "new"]
  /\ conn        = [c \in Conns |-> CHOOSE k \in Connections : TRUE]
  /\ passthrough = [c \in Conns |-> NoName]
  /\ refused     = [c \in Conns |-> FALSE]
  /\ log         = [c \in Conns |-> <<>>]
  /\ relayed     = [c \in Conns |-> 0]

(* The resolver learned a name, and the addon reads the file.              *)
Learns(ip, name) ==
  /\ <<ip, name>> \in Resolved
  /\ latest' = [latest EXCEPT ![ip] = name]
  /\ names'  = [names EXCEPT ![ip] = @ \cup {name}]
  /\ UNCHANGED <<phase, conn, passthrough, refused, log, relayed>>

-----------------------------------------------------------------------------
HasPassthrough == \E rule \in RulesOf(Policy) : rule.tls = "passthrough"

HttpsEntry(k, name) ==
  [protocol |-> "https", host |-> name, port |-> k.port, path |-> "", method |-> ""]

DnsNames(ip) == names[ip] \cup ({latest[ip]} \ {NoName})

(* Mutant: the SNI need not be a name of the destination.                  *)
AnyDestination(k) == TRUE

BoundTo(k) == IF k.addr \in Ips THEN k.sni \in DnsNames(k.addr) ELSE k.addr = k.sni

PassthroughSni(k) ==
  /\ k.tls /\ k.sni # NoName
  /\ HasPassthroughRule(Policy, HttpsEntry(k, k.sni))
  /\ BoundTo(k)

(* Mutant: the destination is kept in place of the name.                   *)
DestinationBound(k) == k.addr

Binding(k) == k.sni

(* A new connection: relayed under its SNI, left to interception, or, when *)
(* it is no TLS, raw TCP.                                                  *)
NextLayer(c, k) ==
  /\ phase[c] = "new"
  /\ conn' = [conn EXCEPT ![c] = k]
  /\ IF HasPassthrough /\ PassthroughSni(k)
     THEN /\ passthrough' = [passthrough EXCEPT ![c] = Binding(k)]
          /\ phase' = [phase EXCEPT ![c] = "starting"]
     ELSE /\ phase' = [phase EXCEPT ![c] = IF k.tls THEN "intercepted" ELSE "starting"]
          /\ UNCHANGED passthrough
  /\ UNCHANGED <<latest, names, refused, log, relayed>>

HostNow(addr) ==
  IF addr \in Ips /\ latest[addr] # NoName THEN latest[addr] ELSE addr

TcpNow(k) == [HttpsEntry(k, HostNow(k.addr)) EXCEPT !.protocol = "tcp"]

(* Mutant: a relayed connection is judged by the DNS map, too.             *)
EntryByMap(c) ==
  IF passthrough[c] # NoName THEN HttpsEntry(conn[c], HostNow(conn[c].addr))
  ELSE TcpNow(conn[c])

TcpEntry(c) ==
  IF passthrough[c] # NoName THEN HttpsEntry(conn[c], passthrough[c])
  ELSE TcpNow(conn[c])

Status(c) ==
  LET evaluated == Evaluate(Policy, Mode, TcpEntry(c))
  IN  IF evaluated = "allowed" /\ InternalIpViolation(Policy, TcpEntry(c), conn[c].ip)
      THEN Refusal(Mode) ELSE evaluated

TcpStart(c) ==
  /\ phase[c] = "starting"
  /\ refused' = [refused EXCEPT ![c] = Mode = "enforce" /\ Status(c) = "blocked"]
  /\ phase' = [phase EXCEPT ![c] = "open"]
  /\ UNCHANGED <<latest, names, conn, passthrough, log, relayed>>

Recorded(c) ==
  IF Status(c) = "allowed" /\ passthrough[c] # NoName THEN "passthrough" ELSE Status(c)

TcpMessage(c) ==
  /\ phase[c] = "open" /\ Len(log[c]) < MaxMessages
  /\ log' = [log EXCEPT ![c] = Append(@, Recorded(c))]
  /\ relayed' = [relayed EXCEPT ![c] = IF Status(c) = "blocked" THEN @ ELSE @ + 1]
  /\ UNCHANGED <<latest, names, phase, conn, passthrough, refused>>

TcpEnd(c) ==
  /\ phase[c] = "open"
  /\ passthrough' = [passthrough EXCEPT ![c] = NoName]
  /\ phase' = [phase EXCEPT ![c] = "ended"]
  /\ UNCHANGED <<latest, names, conn, refused, log, relayed>>

Next ==
  \/ \E ip \in Ips, name \in Names : Learns(ip, name)
  \/ \E c \in Conns :
       \/ \E k \in Connections : NextLayer(c, k)
       \/ TcpStart(c) \/ TcpMessage(c) \/ TcpEnd(c)

Spec == Init /\ [][Next]_vars

-----------------------------------------------------------------------------
TypeOK ==
  /\ latest      \in [Ips -> Names \cup {NoName}]
  /\ names       \in [Ips -> SUBSET Names]
  /\ phase       \in [Conns -> {"new", "starting", "intercepted", "open", "ended"}]
  /\ conn        \in [Conns -> Connections]
  /\ passthrough \in [Conns -> Names \cup {NoName}]
  /\ refused     \in [Conns -> BOOLEAN]
  /\ log         \in [Conns -> Seq({"allowed", "passthrough", "would_block", "blocked"})]
  /\ relayed     \in [Conns -> Nat]

(* Bytes pass undecrypted only under a name a rule passes through, to an   *)
(* address the job's DNS has for that name, and in enforce mode only to a  *)
(* public one or one that rule set exempts: a name of the policy is no     *)
(* ticket to another destination.                                          *)
PassthroughIsBound ==
  \A c \in Conns : \A i \in DOMAIN log[c] :
    log[c][i] = "passthrough" =>
      LET k == conn[c]
      IN  /\ k.addr \in Ips => k.sni \in DnsNames(k.addr)
          /\ k.addr \notin Ips => k.addr = k.sni
          /\ HasPassthroughRule(Policy, HttpsEntry(k, k.sni))
          /\ ~InternalIpViolation(Policy, HttpsEntry(k, k.sni), k.ip)

(* A connection that is relayed undecrypted gets one verdict for its life: *)
(* a change of the DNS map cannot turn it.                                 *)
PassthroughVerdictIsStable ==
  \A c \in Conns : "passthrough" \in Range(log[c]) =>
    Range(log[c]) = {"passthrough"}

(* A flow tcp_start refused relays nothing (its docstring: "Kill a raw TCP *)
(* flow the policy does not allow, before any byte is relayed").           *)
RefusedRelaysNothing == \A c \in Conns : refused[c] => relayed[c] = 0
=============================================================================
