------------------------------ MODULE HttpFlow ------------------------------
(***************************************************************************)
(* HTTP and HTTPS requests through the addon (proxy/addon.py): the request *)
(* hook takes a verdict, a plain-HTTP request of a regular proxy waits in  *)
(* _awaiting_upstream for server_connect to resolve its name, check every  *)
(* address and pin one, and the response and error hooks flush what is     *)
(* still waiting.  What mitmproxy does between the hooks is external:      *)
(*   - one client connection carries one request at a time;                *)
(*   - an upstream connection of the same client is reused when its        *)
(*     address is the one asked for, and then server_connect is not run;   *)
(*   - a dial goes to server.address, by mitmproxy's own lookup when that  *)
(*     is still a name;                                                    *)
(*   - when the client leaves, its coroutines are cancelled where they     *)
(*     await, and the error hook runs for its request.                     *)
(*                                                                         *)
(* A request carries the address mitmproxy is already connected to (HTTPS, *)
(* and everything in transparent mode) or NoIp.  Addresses are also names: *)
(* the host of a request may be a literal.                                 *)
(***************************************************************************)
EXTENDS PolicyEngine, SequencesExt

CONSTANTS Clients, Flows,
          ClientOf,     \* [Flows -> Clients]
          Requests,     \* the requests a job may make
          Names, Ips,   \* host names, literals included, and addresses
          V6,           \* the addresses written with a colon
          Known,        \* [Names -> SUBSET Names]: what the DNS map may answer
          Answers,      \* [Names -> sets of address lists]: lookups that may return
          Policy,       \* the loaded rules
          ExfilMode,    \* "off", "alert" or "block"
          NoIp, NoName, NoFlow

Modes    == {"monitor", "enforce"}
Statuses == {"allowed", "would_block", "blocked"}
Phases   == {"idle", "refused", "routing", "resolving", "dialing", "sent",
             "failed", "done"}
Ports    == {r.port : r \in Requests}
Keys     == Clients \X Names \X Ports
Entries  == [protocol : HttpProtocols, host : Names, port : Ports,
             path : {r.path : r \in Requests}, method : {r.method : r \in Requests}]
Records  == [status : Statuses, ip : Ips \cup {NoIp}]

ASSUME FlowsAssumption ==
  /\ ClientOf \in [Flows -> Clients]
  /\ NoFlow \notin Flows
ASSUME AddressesAssumption ==
  /\ Ips \subseteq Names
  /\ NoIp \notin Ips
  /\ Known \in [Names -> SUBSET Names]
  /\ Answers \in [Names -> SUBSET Seq(Ips)]
ASSUME RequestsAssumption ==
  /\ Requests # {}
  /\ \A r \in Requests :
       /\ r.protocol \in HttpProtocols
       /\ r.host \in Names
       /\ r.sni \in Names \cup {NoName}
       /\ r.ip \in Ips \cup {NoIp}

VARIABLES
  mode,       \* the mode the addon runs in
  phase,      \* where mitmproxy is with each flow
  req,        \* the request of each flow, once made
  entry,      \* its ConnectionEntry
  verdict,    \* the verdict records the log holds for each flow
  data,       \* how many "data" records it holds
  awaiting,   \* _awaiting_upstream
  held,       \* the flow whose entry a server_connect took, while it resolves
  pin,        \* the address server.address was rewritten to, if any
  upstream,   \* the address the request was sent to
  pool,       \* the open upstream connections of each client
  closed      \* the clients that left

vars == <<mode, phase, req, entry, verdict, data, awaiting, held, pin, upstream,
          pool, closed>>

-----------------------------------------------------------------------------
(* The verdict of the request hook.                                        *)

(* An address is replaced by the SNI, else by the name the DNS map has.    *)
EntryHost(r, known) ==
  IF r.host \notin Ips THEN r.host
  ELSE IF r.protocol = "https" /\ r.sni # NoName THEN r.sni ELSE known

EntryOf(r, host) ==
  [protocol |-> r.protocol, host |-> host, port |-> r.port, path |-> r.path,
   method |-> r.method]

(* Mutant: the Host header is not compared.                                *)
FrontingUnchecked(r, e) == FALSE

Fronted(r, e) ==
  /\ r.authority \notin {NoName, e.host}
  /\ ~Allows(Policy, [e EXCEPT !.host = r.authority])

(* Mutant: an internal destination is blocked in monitor mode too.         *)
AlwaysBlocked(e, ip) ==
  IF ip # NoIp /\ InternalIpViolation(Policy, e, ip) THEN "blocked" ELSE "allowed"

(* Mutant: the reason comes back in the place of the status.               *)
ReasonReturned(e, ip) ==
  IF ip # NoIp /\ InternalIpViolation(Policy, e, ip) THEN "internal_ip" ELSE "allowed"

GuardInternalIp(e, ip) ==
  IF ip # NoIp /\ InternalIpViolation(Policy, e, ip)
  THEN Refusal(mode) ELSE "allowed"

(* The checks that can still turn a verdict into a block, in enforce mode. *)
CertRejected(r, status) ==
  status = "allowed" /\ mode = "enforce" /\ r.protocol = "https" /\ r.badCert

CarriesSecret(r, e, status) ==
  /\ status # "blocked" /\ mode = "enforce" /\ ExfilMode = "block"
  /\ r.secret /\ ~AllowsRequestBody(Policy, e)

Verdict(r, e) ==
  LET evaluated == Evaluate(Policy, mode, e)
      guarded   == IF evaluated = "allowed" THEN GuardInternalIp(e, r.ip)
                                            ELSE evaluated
      fronted   == IF guarded = "allowed" /\ Fronted(r, e)
                   THEN Refusal(mode) ELSE guarded
  IN  IF CertRejected(r, fronted) \/ CarriesSecret(r, e, fronted)
      THEN "blocked" ELSE fronted

Defers(r, e) ==
  /\ Verdict(r, e) = "allowed"
  /\ r.ip = NoIp /\ r.protocol = "http"
  /\ GuardsInternalIps(Policy)

-----------------------------------------------------------------------------
Key(f)        == <<ClientOf[f], req[f].host, req[f].port>>
Live(f)       == phase[f] \notin {"idle", "done"}
WriteLog(f, rec) == verdict' = [verdict EXCEPT ![f] = Append(@, rec)]
Goto(f, p)    == phase' = [phase EXCEPT ![f] = p]

Init ==
  /\ mode     \in Modes
  /\ phase    = [f \in Flows |-> "idle"]
  /\ req      = [f \in Flows |-> CHOOSE r \in Requests : TRUE]
  /\ entry    = [f \in Flows |-> EntryOf(req[f], req[f].host)]
  /\ verdict  = [f \in Flows |-> <<>>]
  /\ data     = [f \in Flows |-> 0]
  /\ awaiting = [k \in Keys |-> <<>>]
  /\ held     = [f \in Flows |-> NoFlow]
  /\ pin      = [f \in Flows |-> NoIp]
  /\ upstream = [f \in Flows |-> NoIp]
  /\ pool     = [c \in Clients |-> {}]
  /\ closed   = {}

(* The request hook, in its three outcomes: a 403, a deferred entry, a     *)
(* verdict logged at once.                                                 *)
Arrives(f, r) ==
  /\ phase[f] = "idle" /\ ClientOf[f] \notin closed
  /\ \A g \in Flows : ClientOf[g] = ClientOf[f] => ~Live(g)
  /\ req' = [req EXCEPT ![f] = r]
  /\ \E known \in Known[r.host] :
       entry' = [entry EXCEPT ![f] = EntryOf(r, EntryHost(r, known))]

RequestRefused(f, r) ==
  /\ Arrives(f, r)
  /\ Verdict(r, entry'[f]) = "blocked"
  /\ WriteLog(f, [status |-> "blocked", ip |-> r.ip])
  /\ Goto(f, "refused")
  /\ UNCHANGED <<mode, data, awaiting, held, pin, upstream, pool, closed>>

RequestDeferred(f, r) ==
  /\ Arrives(f, r)
  /\ Defers(r, entry'[f])
  /\ awaiting' = [awaiting EXCEPT ![<<ClientOf[f], r.host, r.port>>] = Append(@, f)]
  /\ Goto(f, "routing")
  /\ UNCHANGED <<mode, verdict, data, held, pin, upstream, pool, closed>>

RequestPassed(f, r) ==
  /\ Arrives(f, r)
  /\ Verdict(r, entry'[f]) # "blocked" /\ ~Defers(r, entry'[f])
  /\ WriteLog(f, [status |-> Verdict(r, entry'[f]), ip |-> r.ip])
  /\ Goto(f, IF r.ip = NoIp THEN "routing" ELSE "sent")
  /\ upstream' = [upstream EXCEPT ![f] = r.ip]
  /\ UNCHANGED <<mode, data, awaiting, held, pin, pool, closed>>

-----------------------------------------------------------------------------
(* Between the hooks: an upstream connection.                              *)

Suitable(f) ==
  {c \in pool[ClientOf[f]] : c.host = req[f].host /\ c.port = req[f].port}

Reuse(f) ==
  /\ phase[f] = "routing"
  /\ \E c \in Suitable(f) : upstream' = [upstream EXCEPT ![f] = c.ip]
  /\ Goto(f, "sent")
  /\ UNCHANGED <<mode, req, entry, verdict, data, awaiting, held, pin, pool, closed>>

(* Mutant: the entry is left waiting until its addresses are resolved.     *)
EntryLeftWaiting(f) ==
  /\ phase[f] = "routing" /\ Suitable(f) = {} /\ awaiting[Key(f)] # <<>>
  /\ held' = [held EXCEPT ![f] = Head(awaiting[Key(f)])]
  /\ Goto(f, "resolving")
  /\ UNCHANGED <<mode, req, entry, verdict, data, awaiting, pin, upstream, pool, closed>>

(* server_connect up to its await: the first entry that waits for this     *)
(* address is taken.                                                       *)
ServerConnect(f) ==
  /\ phase[f] = "routing" /\ Suitable(f) = {} /\ awaiting[Key(f)] # <<>>
  /\ held' = [held EXCEPT ![f] = Head(awaiting[Key(f)])]
  /\ awaiting' = [awaiting EXCEPT ![Key(f)] = Tail(@)]
  /\ Goto(f, "resolving")
  /\ UNCHANGED <<mode, req, entry, verdict, data, pin, upstream, pool, closed>>

(* server_connect with nothing deferred for this address.                  *)
ServerConnectIdle(f) ==
  /\ phase[f] = "routing" /\ Suitable(f) = {} /\ awaiting[Key(f)] = <<>>
  /\ Goto(f, "dialing")
  /\ UNCHANGED <<mode, req, entry, verdict, data, awaiting, held, pin, upstream,
                 pool, closed>>

FirstIn(ips, S) ==
  LET hits == {i \in DOMAIN ips : ips[i] \in S}
  IN  ips[CHOOSE i \in hits : \A j \in hits : i <= j]

Refused(e, ips) == {ip \in Range(ips) : GuardInternalIp(e, ip) # "allowed"}

(* The address to dial: the first IPv4 one, else the first.                *)
Pinned(ips) ==
  IF ips = <<>> THEN NoIp
  ELSE IF Range(ips) \subseteq V6 THEN Head(ips) ELSE FirstIn(ips, Ips \ V6)

(* The record of a guarded entry: the first refused address decides.       *)
Guarded(e, ips) ==
  IF Refused(e, ips) # {}
  THEN [status |-> Refusal(mode), ip |-> FirstIn(ips, Refused(e, ips))]
  ELSE [status |-> "allowed", ip |-> Pinned(ips)]

(* Mutant: the checked address is not pinned.                              *)
ResolvedUnpinned(f, ips) ==
  /\ phase[f] = "resolving"
  /\ WriteLog(held[f], Guarded(entry[held[f]], ips))
  /\ held' = [held EXCEPT ![f] = NoFlow]
  /\ Goto(f, IF Guarded(entry[held[f]], ips).status = "blocked"
             THEN "failed" ELSE "dialing")
  /\ UNCHANGED <<mode, req, entry, data, awaiting, pin, upstream, pool, closed>>

(* server_connect after its await.                                         *)
Resolved(f, ips) ==
  /\ phase[f] = "resolving"
  /\ WriteLog(held[f], Guarded(entry[held[f]], ips))
  /\ held' = [held EXCEPT ![f] = NoFlow]
  /\ pin'  = [pin EXCEPT ![f] = Pinned(ips)]
  /\ Goto(f, IF Guarded(entry[held[f]], ips).status = "blocked"
             THEN "failed" ELSE "dialing")
  /\ UNCHANGED <<mode, req, entry, data, awaiting, upstream, pool, closed>>

(* The dial: the pinned address, or whatever a lookup of mitmproxy finds.  *)
Dial(f, ip) ==
  /\ phase[f] = "dialing"
  /\ IF pin[f] # NoIp THEN ip = pin[f]
     ELSE \E ips \in Answers[req[f].host] : ip \in Range(ips)
  /\ upstream' = [upstream EXCEPT ![f] = ip]
  /\ pool' = [pool EXCEPT ![ClientOf[f]] =
       @ \cup {[host |-> IF pin[f] = NoIp THEN req[f].host ELSE ip,
                port |-> req[f].port, ip |-> ip]}]
  /\ Goto(f, "sent")
  /\ UNCHANGED <<mode, req, entry, verdict, data, awaiting, held, pin, closed>>

(* The upstream cannot be reached, or breaks off.                          *)
UpstreamFails(f) ==
  /\ phase[f] \in {"dialing", "sent"}
  /\ Goto(f, "failed")
  /\ pool' = [pool EXCEPT ![ClientOf[f]] = {c \in @ : c.ip # upstream[f]}]
  /\ UNCHANGED <<mode, req, entry, verdict, data, awaiting, held, pin, upstream, closed>>

(* The client leaves; a server_connect that awaits is cancelled there.     *)
ClientLeaves(c) ==
  /\ c \notin closed
  /\ closed' = closed \cup {c}
  /\ pool' = [pool EXCEPT ![c] = {}]
  /\ phase' = [f \in Flows |-> IF ClientOf[f] = c /\ Live(f) THEN "failed"
                                                            ELSE phase[f]]
  /\ held' = [f \in Flows |-> IF ClientOf[f] = c THEN NoFlow ELSE held[f]]
  /\ UNCHANGED <<mode, req, entry, verdict, data, awaiting, pin, upstream>>

-----------------------------------------------------------------------------
(* _flush_awaiting: an entry still deferred is logged as it stands.        *)
NoneWaits(f)   == \A k \in Keys : f \notin Range(awaiting[k])
LogDeferred(f) == WriteLog(f, [status |-> "allowed", ip |-> NoIp])

(* Mutants: nothing is flushed; what is flushed is left in place.          *)
NotFlushed(f) == UNCHANGED <<awaiting, verdict>>
FlushedInPlace(f) ==
  /\ UNCHANGED awaiting
  /\ IF NoneWaits(f) THEN UNCHANGED verdict ELSE LogDeferred(f)

FlushAwaiting(f) ==
  \/ NoneWaits(f) /\ UNCHANGED <<awaiting, verdict>>
  \/ \E k \in Keys : \E i \in DOMAIN awaiting[k] :
       /\ awaiting[k][i] = f
       /\ awaiting' = [awaiting EXCEPT ![k] = RemoveAt(@, i)]
       /\ LogDeferred(f)

(* The response hook; a 403 passes through it as well.                     *)
Response(f, bytes) ==
  /\ phase[f] \in {"refused", "sent"}
  /\ phase[f] = "refused" => bytes > 0
  /\ FlushAwaiting(f)
  /\ data' = [data EXCEPT ![f] = @ + IF bytes > 0 THEN 1 ELSE 0]
  /\ Goto(f, "done")
  /\ UNCHANGED <<mode, req, entry, held, pin, upstream, pool, closed>>

(* The error hook.                                                         *)
ErrorHook(f) ==
  /\ phase[f] = "failed"
  /\ FlushAwaiting(f)
  /\ Goto(f, "done")
  /\ UNCHANGED <<mode, req, entry, data, held, pin, upstream, pool, closed>>

Proxy(f) ==
  \/ Reuse(f) \/ ServerConnect(f) \/ ServerConnectIdle(f)
  \/ \E ips \in Answers[req[f].host] : Resolved(f, ips)
  \/ \E ip \in Ips : Dial(f, ip)
  \/ UpstreamFails(f)
  \/ \E bytes \in {0, 1} : Response(f, bytes)
  \/ ErrorHook(f)

Next ==
  \/ \E f \in Flows, r \in Requests :
       RequestRefused(f, r) \/ RequestDeferred(f, r) \/ RequestPassed(f, r)
  \/ \E f \in Flows : Proxy(f)
  \/ \E c \in Clients : ClientLeaves(c)

(* mitmproxy keeps running the hooks of a flow; no job has to make one, or *)
(* leave.                                                                  *)
Fairness == \A f \in Flows : WF_vars(Proxy(f))

Spec == Init /\ [][Next]_vars /\ Fairness

-----------------------------------------------------------------------------
TypeOK ==
  /\ mode     \in Modes
  /\ phase    \in [Flows -> Phases]
  /\ req      \in [Flows -> Requests]
  /\ entry    \in [Flows -> Entries]
  /\ verdict  \in [Flows -> Seq(Records)]
  /\ data     \in [Flows -> Nat]
  /\ awaiting \in [Keys -> Seq(Flows)]
  /\ held     \in [Flows -> Flows \cup {NoFlow}]
  /\ pin      \in [Flows -> Ips \cup {NoIp}]
  /\ upstream \in [Flows -> Ips \cup {NoIp}]
  /\ pool     \in [Clients -> SUBSET [host : Names, port : Ports, ip : Ips]]
  /\ closed   \subseteq Clients

Sent(f)   == upstream[f] # NoIp
Logged(f) == verdict[f] # <<>>

(* However the hooks interleave, a request gets at most one verdict record *)
(* (the request hook, server_connect and the two flushing hooks can each   *)
(* write it).                                                              *)
VerdictAtMostOnce == \A f \in Flows : Len(verdict[f]) <= 1

(* An entry waits only while its request does: never twice, never after    *)
(* the request is over, and only under its own client and address, so no   *)
(* later server_connect can take the entry of another request.             *)
WaitingIsLive ==
  \A k \in Keys : awaiting[k] # <<>> =>
    \E f \in Flows : awaiting[k] = <<f>> /\ Live(f) /\ Key(f) = k

(* In enforce mode a request that left the runner was permitted: its host  *)
(* and its Host header are allowed, its certificate was not rejected and   *)
(* no secret it carries lacks an exemption.                                *)
SentIsPermitted ==
  mode = "enforce" => \A f \in Flows : Sent(f) =>
    /\ Allows(Policy, entry[f])
    /\ req[f].authority # NoName
         => Allows(Policy, [entry[f] EXCEPT !.host = req[f].authority])
    /\ ~(req[f].protocol = "https" /\ req[f].badCert)
    /\ req[f].secret /\ ExfilMode = "block" => AllowsRequestBody(Policy, entry[f])

(* The log is about what happened: an allowed record that names an address *)
(* means the request went nowhere else, and that the address is public or  *)
(* exempt by a rule of this very request.                                  *)
LoggedAddressIsReached ==
  \A f \in Flows : Sent(f) /\ Logged(f) =>
    LET rec == Head(verdict[f])
    IN  rec.status = "allowed" /\ rec.ip # NoIp =>
          /\ upstream[f] = rec.ip
          /\ ~InternalIpViolation(Policy, entry[f], rec.ip)

(* What the hooks do to the log and the wire is what Firewall promises:    *)
(* however they interleave, a verdict is written once and before a refused *)
(* request could be sent, monitor mode refuses nothing, and the address of *)
(* an allowed record is where the request goes.                            *)
Promise == INSTANCE Firewall WITH
  record <- [f \in Flows |-> IF Logged(f) THEN verdict[f][Len(verdict[f])]
                             ELSE [status |-> "none", ip |-> NoIp]],
  wire   <- upstream
ImplementsFirewall == Promise!Spec

(* Every request the job makes is logged with its verdict in the end,      *)
(* unless its client left.                                                 *)
RequestIsLogged ==
  \A f \in Flows : Live(f) ~> (Logged(f) \/ ClientOf[f] \in closed)
=============================================================================
