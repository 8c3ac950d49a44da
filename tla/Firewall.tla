------------------------------ MODULE Firewall ------------------------------
(***************************************************************************)
(* What the HTTP side of the firewall promises, without saying how: the    *)
(* log holds at most one verdict for a request, which is never taken back; *)
(* in monitor mode it is never a refusal; a request refused in enforce     *)
(* mode stays on the runner; and a request allowed to an address goes      *)
(* there, if it goes anywhere.  HttpFlow implements it.                    *)
(***************************************************************************)
CONSTANTS Flows,   \* the requests
          Ips,     \* the addresses
          NoIp     \* no address

VARIABLES
  mode,     \* the mode of the firewall
  record,   \* the verdict of each request, as the log has it
  wire      \* the address each request was sent to

Unjudged == [status |-> "none", ip |-> NoIp]

Verdicts == {"allowed", IF mode = "enforce" THEN "blocked" ELSE "would_block"}
Records  == [status : Verdicts, ip : Ips \cup {NoIp}]

(* Where a request with this record may go.                                *)
Leads(rec, ip) == rec.status = "allowed" => rec.ip \in {NoIp, ip}

Init ==
  /\ mode   \in {"monitor", "enforce"}
  /\ record = [f \in Flows |-> Unjudged]
  /\ wire   = [f \in Flows |-> NoIp]

(* A verdict before anything is sent.                                      *)
Judge(f, rec) ==
  /\ record[f] = Unjudged /\ wire[f] = NoIp
  /\ record' = [record EXCEPT ![f] = rec]
  /\ UNCHANGED <<mode, wire>>

(* A request is sent, before or after its verdict ...                      *)
Send(f, ip) ==
  /\ wire[f] = NoIp
  /\ record[f].status # "blocked" /\ Leads(record[f], ip)
  /\ wire' = [wire EXCEPT ![f] = ip]
  /\ UNCHANGED <<mode, record>>

(* ... or together with it, on a connection that is already open.          *)
Pass(f, rec) ==
  /\ record[f] = Unjudged /\ wire[f] = NoIp
  /\ rec.status # "blocked" /\ rec.ip # NoIp
  /\ record' = [record EXCEPT ![f] = rec]
  /\ wire'   = [wire EXCEPT ![f] = rec.ip]
  /\ UNCHANGED mode

(* A request that was sent unjudged can only be logged as allowed, and     *)
(* without an address.                                                     *)
Note(f) ==
  /\ record[f] = Unjudged /\ wire[f] # NoIp
  /\ record' = [record EXCEPT ![f] = [status |-> "allowed", ip |-> NoIp]]
  /\ UNCHANGED <<mode, wire>>

Next ==
  \E f \in Flows :
    \/ \E rec \in Records : Judge(f, rec) \/ Pass(f, rec)
    \/ \E ip \in Ips : Send(f, ip)
    \/ Note(f)

Spec == Init /\ [][Next]_<<mode, record, wire>>
=============================================================================
