------------------------------ MODULE MCDenial ------------------------------
(* Denial over two hosts, two ports and the paths that matter to it: none, *)
(* the root, two plain ones, two that normalise to the same, one with a    *)
(* glob character, one the normaliser refuses; with and without query.     *)
EXTENDS Denial

Bases    == {"", "/", "/p", "/q", "/q/../p", "/g*", "/%2e"}
MCPaths  == [base : Bases, query : {"", "k=v", "<redacted>"}]
MCNormalised ==
  [x \in MCPaths |->
     CASE x.base = "/%2e"    -> [base |-> "none", query |-> ""]
       [] x.base = "/q/../p" -> [x EXCEPT !.base = "/p"]
       [] OTHER              -> x]
MCNoPath == [base |-> "none", query |-> ""]

Hosts    == {"a.x", "*.x"}
MCCovers ==
  [p \in Hosts \cup Bases |->
     CASE p = "*.x" -> Hosts
       [] p = "/g*" -> {x \in MCPaths : x.base = "/g*"}
       [] p \in Bases -> {[base |-> p, query |-> ""]}
       [] OTHER     -> {p}]
MCLiterals   == [p \in DOMAIN MCCovers |-> {}]
MCUnprefixed == [h \in Hosts |-> h]
MCGlobFree   == {"a.x"} \cup (Bases \ {"/g*"})
MCRequests   ==
  [protocol : {"http", "https"}, host : Hosts, port : {80, 443},
   path : [base : Bases, query : {"", "k=v"}], method : {"GET"}]
=============================================================================
