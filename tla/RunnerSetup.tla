---------------------------- MODULE RunnerSetup ----------------------------
(***************************************************************************)
(* A job on a native runner: native-proxy/setup.sh takes the network over  *)
(* command by command and rolls back when one fails, the job's own steps   *)
(* run with sudo, and native-proxy/teardown.sh, which always runs, checks  *)
(* that the boundary survived and gives the network back.  teardown knows  *)
(* what setup did from the NFW_ variables alone, which setup writes last;  *)
(* without them it has its defaults, and removes nothing.                  *)
(*                                                                         *)
(* A firewall rule is a name.  The external commands (iptables, systemctl, *)
(* the servers, the canary) may fail wherever the scripts look; deleting a *)
(* rule that is there does not.                                            *)
(***************************************************************************)
EXTENDS Naturals, Sequences, SequencesExt

CONSTANT Configs \* the inputs and runners: [intercept, enforce, dns, ip6, resolved]

ConfigSpace == [intercept : {"transparent", "regular", "none"},
                enforce : BOOLEAN, dns : BOOLEAN,
                ip6 : BOOLEAN, \* the runner has ip6tables
                resolved : {"active", "inactive", "absent"}]

ASSUME ConfigsAssumption == Configs \subseteq ConfigSpace

VARIABLES
  cfg,
  stage,       \* what the scripts do next
  todo,        \* the rules setup has still to add
  flags,       \* the _INSTALLED variables that are true
  rules,       \* the rules in the kernel
  resolved,    \* systemd-resolved
  stopped,     \* RESOLVED_STOPPED
  resolvConf,  \* "original", or "ours": nameserver 127.0.0.53
  proxyUp, dnsUp,
  exported,    \* the NFW_ variables were written
  installed,   \* the rules there were when the job began
  boundary     \* BOUNDARY_INTACT

vars == <<cfg, stage, todo, flags, rules, resolved, stopped, resolvConf, proxyUp,
          dnsUp, exported, installed, boundary>>
network == <<rules, resolved, resolvConf, proxyUp, dnsUp>>
script  == <<todo, flags, stopped>>
verdict == <<exported, installed, boundary>>

-----------------------------------------------------------------------------
(* Section 7 of setup.sh, a list of additions: flags are those that become *)
(* true when the addition succeeds, needs those it is made under.          *)
When(condition, commands) == IF condition THEN commands ELSE <<>>
MustMark(rule, fl) == [rule |-> rule, fatal |-> TRUE, flags |-> fl, needs |-> {}]
Must(rule)         == MustMark(rule, {})
MustIf(rule, need) == [rule |-> rule, fatal |-> TRUE, flags |-> {}, needs |-> {need}]
Try(rule, fl)      == [rule |-> rule, fatal |-> FALSE, flags |-> fl, needs |-> {}]

Transparent(c) ==
  <<Must("nat443"), Must("nat80"), MustMark("log", {"v4"})>>
  \o When(c.enforce, <<Must("quic"), Must("dotTcp"), Must("dotUdp")>>)
  \o When(c.enforce /\ c.dns, <<Must("dnsUdp"), Must("dnsTcp")>>)
  \o <<Try("forward", {"forward"})>>
  \o When(c.ip6, <<Try("log6", {"v6"})>>)
  \o When(c.ip6 /\ c.enforce, <<MustIf("webTcp6", "v6"), MustIf("webUdp6", "v6")>>)

NoIntercept(c) ==
  <<Try("log", {"v4", "log4"})>>
  \o When(c.ip6, <<Try("log6", {"v6"})>>)
  \o When(c.enforce /\ c.dns,
          <<Must("dnsUdp"), Must("dnsTcp"), Must("dotTcpRoot"),
            MustMark("dotUdpRoot", {"v4"}),
            MustIf("dnsUdp6", "v6"), MustIf("dnsTcp6", "v6")>>)

(* Mutant: a reject that cannot be added is passed over.                   *)
AdditionsTolerant(c) ==
  LET list == CASE c.intercept = "transparent" -> Transparent(c)
                [] c.intercept = "none"        -> NoIntercept(c)
                [] OTHER                       -> <<>>
  IN  [i \in DOMAIN list |->
         IF list[i].needs # {} THEN [list[i] EXCEPT !.fatal = FALSE] ELSE list[i]]

Additions(c) ==
  CASE c.intercept = "transparent" -> Transparent(c)
    [] c.intercept = "none"        -> NoIntercept(c)
    [] OTHER                       -> <<>>

V4Rules == {"nat443", "nat80", "log", "quic", "dotTcp", "dotUdp", "dnsUdp", "dnsTcp",
            "dotTcpRoot", "dotUdpRoot"}
V6Rules == {"log6", "webTcp6", "webUdp6", "dnsUdp6", "dnsTcp6"}
Rules   == V4Rules \cup V6Rules \cup {"forward"}

-----------------------------------------------------------------------------
Init ==
  /\ cfg \in Configs
  /\ stage = "start"
  /\ todo = Additions(cfg)
  /\ flags = {} /\ rules = {} /\ installed = {}
  /\ resolved = cfg.resolved
  /\ stopped = FALSE /\ exported = FALSE
  /\ resolvConf = "original"
  /\ proxyUp = FALSE /\ dnsUp = FALSE
  /\ boundary = "unchecked"

WasActive == resolved = "active"

(* A command of setup failed, and the EXIT trap takes over.                *)
Fails ==
  \/ stage \in {"start", "serve", "ready"}
  \/ stage = "stop" /\ WasActive
  \/ stage = "canary" /\ cfg.intercept # "none"
  \/ stage = "rules" /\ todo # <<>> /\ Head(todo).fatal
       /\ Head(todo).needs \subseteq flags

SetupFails ==
  /\ Fails
  /\ stage' = "rollback"
  /\ UNCHANGED <<cfg, network, script, verdict>>

StartProxy ==
  /\ stage = "start"
  /\ stage' = "rules"
  /\ proxyUp' = (cfg.intercept # "none")
  /\ UNCHANGED <<cfg, rules, resolved, resolvConf, dnsUp, script, verdict>>

AddMarking(marks) ==
  /\ stage = "rules" /\ todo # <<>> /\ Head(todo).needs \subseteq flags
  /\ rules' = rules \cup {Head(todo).rule}
  /\ flags' = flags \cup marks
  /\ todo' = Tail(todo)
  /\ UNCHANGED <<cfg, stage, resolved, stopped, resolvConf, proxyUp, dnsUp, verdict>>

(* Mutant: a variable named after the rule is set, which nobody reads.     *)
AddMarksRule == AddMarking({Head(todo).rule})

AddRule == AddMarking(Head(todo).flags)

(* A rule setup can do without, or one under a flag that is not set.       *)
SkipRule ==
  /\ stage = "rules" /\ todo # <<>>
  /\ ~Head(todo).fatal \/ ~(Head(todo).needs \subseteq flags)
  /\ todo' = Tail(todo)
  /\ UNCHANGED <<cfg, stage, flags, network, stopped, verdict>>

RulesDone ==
  /\ stage = "rules" /\ todo = <<>>
  /\ stage' = IF cfg.dns THEN "stop" ELSE "canary"
  /\ UNCHANGED <<cfg, network, script, verdict>>

(* systemd-resolved makes room for dns_server.py; a runner without one     *)
(* leaves RESOLVED_STOPPED unset.                                          *)
StopMarking(mark) ==
  /\ stage = "stop"
  /\ resolved' = IF WasActive THEN "stopped" ELSE resolved
  /\ stopped' = mark
  /\ stage' = "serve"
  /\ UNCHANGED <<cfg, rules, resolvConf, proxyUp, dnsUp, todo, flags, verdict>>

(* Mutant: RESOLVED_STOPPED is not set.                                    *)
StopUnmarked == StopMarking(FALSE)

StopResolved == StopMarking(WasActive)

ServeDns ==
  /\ stage = "serve"
  /\ resolvConf' = "ours"
  /\ dnsUp' \in BOOLEAN
  /\ stage' = "ready"
  /\ UNCHANGED <<cfg, rules, resolved, proxyUp, script, verdict>>

DnsReady ==
  /\ stage = "ready" /\ dnsUp
  /\ stage' = "canary"
  /\ UNCHANGED <<cfg, network, script, verdict>>

(* The canary passed or was not asked for: the NFW_ variables are written. *)
Export ==
  /\ stage = "canary"
  /\ exported' = TRUE
  /\ installed' = rules
  /\ stage' = "job"
  /\ UNCHANGED <<cfg, network, script, boundary>>

(* rollback_on_failure.                                                    *)
RolledBack == (IF "v4" \in flags THEN V4Rules ELSE {})
              \cup (IF "forward" \in flags THEN {"forward"} ELSE {})
              \cup (IF "v6" \in flags THEN V6Rules ELSE {})

Rollback ==
  /\ stage = "rollback"
  /\ rules' = rules \ RolledBack
  /\ proxyUp' = FALSE /\ dnsUp' = FALSE
  /\ resolved'   = IF stopped THEN "active" ELSE resolved
  /\ resolvConf' = IF stopped THEN "original" ELSE resolvConf
  /\ stage' = "check"
  /\ UNCHANGED <<cfg, script, verdict>>

-----------------------------------------------------------------------------
(* The job: a step may delete a rule or end a server, and the servers may  *)
(* die by themselves.                                                      *)
Tamper ==
  /\ stage = "job"
  /\ \/ \E rule \in rules : rules' = rules \ {rule} /\ UNCHANGED <<proxyUp, dnsUp>>
     \/ proxyUp /\ proxyUp' = FALSE /\ UNCHANGED <<rules, dnsUp>>
     \/ dnsUp /\ dnsUp' = FALSE /\ UNCHANGED <<rules, proxyUp>>
  /\ UNCHANGED <<cfg, stage, resolved, resolvConf, script, verdict>>

JobEnds ==
  /\ stage = "job"
  /\ stage' = "check"
  /\ UNCHANGED <<cfg, network, script, verdict>>

(* Section 0.1 of teardown.sh, under the variables it was given.           *)
TransparentSeen == exported /\ cfg.intercept = "transparent"
LoggingSeen     == exported /\ "v4" \in flags

CheckedTransparent ==
  {"nat443", "nat80", "log"}
  \cup (IF cfg.enforce THEN {"quic", "dotTcp", "dotUdp"} ELSE {})
  \cup (IF cfg.enforce /\ cfg.dns THEN {"dnsUdp", "dnsTcp"} ELSE {})
  \cup (IF "forward" \in flags THEN {"forward"} ELSE {})
  \cup (IF "v6" \in flags THEN {"log6"} ELSE {})
  \cup (IF "v6" \in flags /\ cfg.enforce THEN {"webTcp6", "webUdp6"} ELSE {})

(* Mutant: the log rule is expected whether or not it went in.             *)
CheckedLogAlways ==
  {"log"}
  \cup (IF "v6" \in flags THEN {"log6"} ELSE {})
  \cup (IF cfg.enforce /\ cfg.dns
        THEN {"dnsUdp", "dnsTcp", "dotTcpRoot", "dotUdpRoot"} ELSE {})
  \cup (IF cfg.enforce /\ cfg.dns /\ "v6" \in flags
        THEN {"dnsUdp6", "dnsTcp6"} ELSE {})

CheckedNoIntercept ==
  (IF "log4" \in flags THEN {"log"} ELSE {})
  \cup (IF "v6" \in flags THEN {"log6"} ELSE {})
  \cup (IF cfg.enforce /\ cfg.dns
        THEN {"dnsUdp", "dnsTcp", "dotTcpRoot", "dotUdpRoot"} ELSE {})
  \cup (IF cfg.enforce /\ cfg.dns /\ "v6" \in flags
        THEN {"dnsUdp6", "dnsTcp6"} ELSE {})

CheckBoundary ==
  /\ stage = "check"
  /\ boundary' =
       CASE TransparentSeen ->
              IF CheckedTransparent \subseteq rules /\ proxyUp /\ (cfg.dns => dnsUp)
              THEN "intact" ELSE "broken"
         [] ~TransparentSeen /\ cfg.intercept = "none" /\ LoggingSeen ->
              IF CheckedNoIntercept \subseteq rules /\ (cfg.dns => dnsUp)
              THEN "intact" ELSE "broken"
         [] OTHER -> boundary
  /\ stage' = "stopProxy"
  /\ UNCHANGED <<cfg, network, script, exported, installed>>

StopProxy ==
  /\ stage = "stopProxy"
  /\ proxyUp' = (proxyUp /\ ~exported)
  /\ stage' = "delete"
  /\ UNCHANGED <<cfg, rules, resolved, resolvConf, dnsUp, script, verdict>>

(* Section 1.5.  Mutant: the rejects of enforce mode are not deleted.      *)
DeletedLogsOnly ==
  IF TransparentSeen \/ LoggingSeen
  THEN {"nat443", "nat80", "log", "forward", "log6"} ELSE {}

Deleted ==
  IF TransparentSeen
  THEN {"nat443", "nat80", "log", "quic", "dotTcp", "dotUdp", "dnsUdp", "dnsTcp"}
       \cup (IF "forward" \in flags THEN {"forward"} ELSE {})
       \cup (IF "v6" \in flags /\ cfg.ip6 THEN {"log6", "webTcp6", "webUdp6"} ELSE {})
  ELSE IF LoggingSeen
  THEN {"log", "dnsUdp", "dnsTcp", "dotTcpRoot", "dotUdpRoot"}
       \cup (IF cfg.ip6 THEN {"log6", "dnsUdp6", "dnsTcp6"} ELSE {})
  ELSE {}

DeleteRules ==
  /\ stage = "delete"
  /\ rules' = rules \ Deleted
  /\ stage' = "restore"
  /\ UNCHANGED <<cfg, resolved, resolvConf, proxyUp, dnsUp, script, verdict>>

(* Section 2: the resolver.                                                *)
RestoreDns ==
  /\ stage = "restore"
  /\ IF exported /\ cfg.dns
     THEN /\ dnsUp' = FALSE
          /\ resolved' = IF resolved = "absent" THEN "absent" ELSE "active"
     ELSE UNCHANGED <<dnsUp, resolved>>
  /\ stage' = "over"
  /\ UNCHANGED <<cfg, rules, resolvConf, proxyUp, script, verdict>>

Next ==
  \/ SetupFails \/ StartProxy \/ AddRule \/ SkipRule \/ RulesDone
  \/ StopResolved \/ ServeDns \/ DnsReady \/ Export \/ Rollback
  \/ Tamper \/ JobEnds
  \/ CheckBoundary \/ StopProxy \/ DeleteRules \/ RestoreDns

Spec == Init /\ [][Next]_vars /\ WF_vars(Next)

-----------------------------------------------------------------------------
Stages == {"start", "rules", "stop", "serve", "ready", "canary", "rollback", "job",
           "check", "stopProxy", "delete", "restore", "over"}

TypeOK ==
  /\ cfg        \in Configs
  /\ stage      \in Stages
  /\ \A i \in DOMAIN todo : todo[i].rule \in Rules
  /\ flags      \subseteq {"v4", "log4", "forward", "v6"}
  /\ rules      \subseteq Rules
  /\ resolved   \in {"active", "inactive", "absent", "stopped"}
  /\ resolvConf \in {"original", "ours"}
  /\ boundary   \in {"unchecked", "intact", "broken"}
  /\ installed  \subseteq Rules
  /\ stopped \in BOOLEAN /\ proxyUp \in BOOLEAN /\ dnsUp \in BOOLEAN
  /\ exported \in BOOLEAN

(* The boundary verdict is exact: intact means every rule the job began    *)
(* with is still there and the servers run, broken that one is gone, in    *)
(* every mode, with or without the rules setup could do without.           *)
AllUp == /\ rules = installed
         /\ cfg.intercept = "transparent" => proxyUp
         /\ cfg.dns => dnsUp
BoundaryIsExact ==
  stage = "stopProxy" => /\ boundary = "intact" => AllUp
                         /\ boundary = "broken" => ~AllUp

(* An enforcing job never begins with a hole setup knows how to close: in  *)
(* each mode the rejects are in, for IPv6 as well when it logs IPv6, and   *)
(* the job resolves its names at dns_server.py.                            *)
EnforcedFromTheStart ==
  (stage = "job" /\ cfg.enforce) =>
    /\ cfg.intercept = "transparent" =>
         /\ {"nat443", "nat80", "quic", "dotTcp", "dotUdp"} \subseteq installed
         /\ "log6" \in installed => {"webTcp6", "webUdp6"} \subseteq installed
    /\ cfg.dns /\ cfg.intercept # "regular" => {"dnsUdp", "dnsTcp"} \subseteq installed
    /\ cfg.dns /\ cfg.intercept = "none" =>
         /\ {"dotTcpRoot", "dotUdpRoot"} \subseteq installed
         /\ "log6" \in installed => {"dnsUdp6", "dnsTcp6"} \subseteq installed
    /\ cfg.dns => resolvConf = "ours" /\ resolved # "active"

(* Once a job that began is over, none of the rules it ran under is left,  *)
(* whatever its steps did, as long as setup knew of an IPv4 rule.          *)
TeardownLeavesNoRule ==
  (stage = "over" /\ exported /\ "v4" \in flags) => rules = {}

(* A runner whose systemd-resolved was active has it back in the end,      *)
(* wherever setup failed.                                                  *)
ResolvedComesBack ==
  (stage = "over" /\ cfg.resolved = "active") => resolved = "active"

(* A failed setup leaves no rule (setup.sh: "Any non-zero exit rolls back  *)
(* the network changes made so far").                                      *)
RollbackLeavesNoRule == (stage = "over" /\ ~exported) => rules = {}
=============================================================================
