# A TLA+ model of PipeWarden

PipeWarden is an egress firewall for CI jobs.  On a native runner `setup.sh`
starts a mitmproxy with an addon, a DNS server and, on request, an attribution
helper, redirects the job's traffic into them with iptables, and `teardown.sh`
gives the network back and reports.  The addon and the DNS server judge every
connection by an allowlist, in *monitor* mode (log only) or *enforce* mode.
The action's `post.js` then fails the job, or does not.  This directory models
the parts that carry that promise, checks them with TLC and proves with TLAPS,
for every value of the constants, each safety property the runs check.

## Inventory

| Part | State it keeps | Operations | Hard behaviour | What makes it correct |
|---|---|---|---|---|
| Policy engine (`policy/matcher.py`) | none: a list of rules | `evaluate`, `method_miss`, `allows_request_body`, `passthrough_rule`, `internal_ip_violation` | overlapping rules, five verdict functions that must agree | any-match: order never matters, rules only widen, DNS never undercuts a connection |
| Addon, HTTP (`proxy/addon.py`) | `_awaiting_upstream`, the flow's entry, the log | hooks `request`, `server_connect`, `response`, `error` | a coroutine that awaits a lookup, cancellation, reused upstream connections, three places that log | one verdict per request, nothing refused is sent, the logged address is the reached one |
| Addon, TCP and passthrough | `_passthrough`, the DNS map it cached | `next_layer`, `tcp_start`, `tcp_message`, `tcp_end` | a DNS map that changes under an open connection, a kill mitmproxy ignores | undecrypted bytes are bound to the name they were let through for |
| Denial bodies | none | `_denial`, `_suggested_rule` | the log's redacted path against the matcher's normalised one | the pasted rule admits the refused request and nothing else |
| DNS server (`proxy/dns_server.py`) | `ip_to_domain`, `ip_names`, `_map_dirty`, two files | `handle_query` on a pool of 32 threads, `_map_flusher` | threads without a lock, eviction, lost wake-ups, swallowed exceptions | nothing refused is learned, every query is logged, the files catch up, the maps are bounded |
| Setup and teardown (`native-proxy/*.sh`) | firewall rules, resolver, `_INSTALLED` flags, `NFW_` variables | the takeover, `rollback_on_failure`, the boundary check, the restoration | any command may fail, job steps have sudo, teardown sees only exported variables | what setup adds is checked and removed, enforcement is complete when the job starts |
| Attribution (`policy/attribution.py`, `scripts/attribution_helper.py`) | audit claim, kernel rule, event ring, port cache | `AuditListener.start/stop/run`, `query` | late acknowledgements, reused ports | rule and claim are given back; a record names the process that connected |
| Fail-fast watcher (`scripts/fail_fast_watcher.py`) | file position | `watch`, `first_blocked` | half-written lines, lines that are no records | a blocked connection cancels the run |
| Action wrapper (`native-proxy/action/src`) | `enforceViolation`, `NFW_` variables, `/tmp/report` | `main.js`, `post.js`, `decide.js`, the verdict of `teardown.sh` | errors between teardown and exit, leftovers of an earlier job, a log the job can write | a violation fails the job, nothing else does, and both verdicts agree |
| Boundary check (`scripts/policy_boundary.py`) | none: two lists of rules | `glob_subsumes`, `dimension_gaps`, `check_rule` | eight fields to compare, globs compared by their text, a rule covered domain by domain | what passes allows no more than the organisation does |
| Parser, scanner, reports, container mode | — | | mostly pure functions | see *What is not modelled* |

The parts interact through files and hooks: the DNS server writes
`dns_ip_map.json` (and `.names`), the addon reads it when its mtime moved; both
append to `connections.jsonl`, which the watcher tails and teardown reports on;
setup hands its state to teardown in `GITHUB_ENV`; mitmproxy calls the addon's
hooks and, between them, dials, reuses or drops connections on its own.

`PROJECT.json` lists every hazard found at its line, with the properties that
would catch it.

## Modules

| Module | Models | State and actions in the code |
|---|---|---|
| `PolicyEngine` | the verdicts | operators named after the methods; a rule is a record of sets; globs, literals, path normalisation and internal addresses are the constants `Covers`, `Literals`, `Normalised`, `Internal` |
| `Globs` | globs as tokens | `GlobSubsumes` is `glob_subsumes` and `GlobMatches` is fnmatch, which it is measured by; both are the same backtracking (`Walk`, a recursive function), over the tokens of the other pattern or over the characters of a subject |
| `PolicyBoundary` | the boundary check | one operator per field of `dimension_gaps`; `CheckRule` covers each domain by one rule of the boundary |
| `PolicyReview` | policies and boundaries of any rules, grown rule by rule | `rules` and `boundary` are the parsed files; the rules of a file share the version |
| `Denial` | suggestion, paste, retry | `rules` is the policy file, its rules with their names; `Loads` is the parser's check of the names, `Effective` what the engine works with; `PasteSuggestion` is a 403 with a snippet followed by the author's commit, `Rename` the author mending a file that does not load |
| `HttpFlow` | the HTTP hooks | `awaiting` is `_awaiting_upstream`, `held` the entry a `server_connect` holds across its await; `RequestRefused/Deferred/Passed` are the outcomes of `request`, `ServerConnect` and `Resolved` the two halves of `server_connect`, `Response` and `ErrorHook` the flushing hooks |
| `Firewall` | what the HTTP side promises: one verdict per request, taken before a refused one could be sent | `HttpFlow` implements it: `record` is the last verdict record of a flow, `wire` the address it was sent to |
| `TcpFlow` | passthrough and raw TCP | `passthrough` is `_passthrough`; `latest` and `names` are the two DNS files as read |
| `DnsServer` | resolver, flusher, reader | a phase per query; `_remember_ip` is cut where CPython may switch threads (after a call, at the end of a loop body) |
| `AuditListener` | the audit tier of the helper | `pc` is the main thread; a request of `start` or `stop` is one action, whose outcome says whether it took effect and was answered; `claimed`, `prior`, `kept` are `claimed`, `prior_enabled`, `rule` of the class |
| `RunnerSetup` | `setup.sh`, the job, `teardown.sh` | a stage per section; section 7 is a list of additions, each fatal or tolerated, under flags, setting flags |
| `RunVerdict` | `main.js`, the log of a job and its watcher, the verdict of `teardown.sh`, `post.js`, `decide.js` | `pc` is the next section of the three scripts; `log` is `connections.jsonl` by lines, `writing` a record that is half written, `seen` the watcher's file position; `Scribble` and `Tamper` are what the job does to the log, `tampered` that it edited it; `broken` are the commands that fail in this run; `report`, `health` are the files of `/tmp/report`, `violation` is `enforceViolation` |

`PolicyReview`, `Denial`, `HttpFlow`, `TcpFlow`, `DnsServer`, `AuditListener`,
`RunnerSetup` and `RunVerdict` each have a module `..._proofs` with the theorems
about them.

In `HttpFlow` and `DnsServer` the mode is a variable that `Init` chooses and no
step changes, so one run covers every mode.  `PolicyEngine` is extended by `Denial`, `HttpFlow`, `DnsServer`,
`TcpFlow` and, through `PolicyBoundary`, by `PolicyReview`, so each verdict is
taken by the same operators.  `RunVerdict` takes from the others what it needs as an outcome:
a connection is a record of the log, the boundary check of `RunnerSetup` is
intact, broken or not made.
The `MC*` modules give the constants their values; each `.cfg` is one question.

### External behaviour

mitmproxy is external and modelled from how the addon uses it: one request at a
time on a client connection; an upstream connection of the same client is reused
when its address is the one asked for, and then `server_connect` is not called;
a dial goes to `server.address`, by mitmproxy's own lookup when that is a name;
coroutines of a client that disconnects are cancelled where they await, and the
`error` hook runs; the TCP layer ignores `flow.kill()`.  In `RunnerSetup` an
external command may fail wherever the script looks, and deleting a rule that is
present succeeds.  In `AuditListener` the kernel refuses a claim or takes it,
keeps the pid of a dead owner, and acknowledges a request before it replies, as
the docstring of `_status` has it; the answer of a request may be lost.  In
`RunVerdict` the cache and artifact services answer in the end, with a result or
an error; the job, whose group may write the log, may
add a line of any kind the readers tell apart (no JSON, JSON but no record, and
either of an unparsable line and a record with bytes that are not UTF-8), and may
replace the log by any other, which stands for truncating, editing and forging; it
does so between two records, with whole lines; a reader may see, and a signal may
leave, half of an append.

## Runs

| Run | Asks | Bound, and why it is enough |
|---|---|---|
| `policy` | order-independence, widening, DNS against connections, the method explanation, the boundary check | policies of at most 2 of 48 rules that overlap pairwise, and 1 rule beside boundaries of at most 2 of 10: every verdict quantifies over single rules and every rule is checked by itself, while two rules are what may cover two domains of one; the proofs have no bound |
| `denial` | does the paste admit what was refused, and only that | 2 pastes, so that two may have one name, and a rename; paths: none, root, two plain, two with one meaning, a glob, an unmatchable one, with and without query |
| `http` | the HTTP hooks in both modes, and that they implement `Firewall` | 2 flows of one client, which are the ones that share a waiting list and an upstream pool; 11 requests, one per branch of `request`; lookups that give nothing, public, internal, mixed and IPv6 answers |
| `dns` | learning, logging, publishing, in all three modes | 3 queries on 2 threads (two names that may share an address, and an AAAA that may come malformed, empty or as a probe), map below its cap |
| `dns_cap` | the bound, and the types where handlers may die | 3 queries on 2 threads at a cap of 1: the shortest race for the oldest entry, and a third query for what it leaves |
| `runner` | boundary, enforcement, restoration | all 72 configurations, any failing command, any sequence of tampering steps; rules are finite, so nothing is bounded |
| `runner_rollback` | does a failed setup leave no rule | the same |
| `tcp`, `tcp_refused` | passthrough and raw TCP in enforce mode | 2 connections of 7 kinds, 2 messages each (`MaxMessages`), a DNS map that may learn 4 pairs: the second message is the one judged by another map |
| `audit` | the life of the helper's audit tier | one helper, one other consumer that may start and stop at any time; every request may fail, lose its answer, or both, so the waits add up to at most eight seconds: more than the 5 of setup and the 3 of teardown |
| `verdict` | what fails the job, whose report is shipped, what the watcher sees | 6 workflows (`MCInputs`): each mode and spelling of `fail-on-block` (one capital spelling stands for all), a watcher, the canary off, on warn and skipped without interception, and no upload; logs up to 2 lines while the job runs (`MaxLines`), so that a torn line can be followed, and an odd or undecodable line precede a refusal; any log of that length when the job edits it; at most one of 13 kinds of commands broken (`MaxFaults`), which is enough to separate them, and a fresh runner or one with an earlier job's log and report |
| `verdict_garbled` | does an unreadable line fail the job | the same, with no command broken |

The runs with `"expect": "violation"` state what a comment, a document or a test
of the repository says, and TLC shows a behaviour of the code against it; each
is a finding with the quoted line in `PROJECT.json`:

* `runner_rollback`: setup's rollback misses the first redirects when a later
  one fails;
* `tcp_refused`: a TCP flow refused at `tcp_start` relays later messages if the
  DNS map changes;
* `verdict_garbled`: a line that cannot be parsed is dropped from the log when
  attribution events are merged, before the lines that cannot be parsed are
  counted, and the enforcing job passes.

### Further gaps the models show

These follow from the same actions; the properties that hold are stated so that
they exclude them, and each belongs to a hazard in `PROJECT.json`.

* The rule a 403 suggests for a request with a query does not admit it: the
  suggested path is the redacted one without its query, the matched path carries
  the marker `?<redacted>` (`proxy/addon.py:1371`), although the README speaks of
  "a ready-to-paste rule for exactly this host, port, protocol and path".
  `PastedRuleAdmitsPlain` asks for requests without a query.
* Every rule suggested for a host is named `allow <host>` (`proxy/addon.py:1365`),
  and a file with one name twice does not load (`policy/parser.py:208`): pasting a
  second suggestion for a host takes the first one away as well, until the author
  renames one.  `PastedRuleAdmitsPlain` asks for a file that loads.  Pasted into
  one of two files that are merged, the suggestion replaces the other file's rule
  of that name (`scripts/resolve_policy.py:104`); the merge is not modelled.
* Two handlers that evict at once may raise, and then the query of the one that
  did is neither logged nor answered (`proxy/dns_server.py:88`).  `QueryIsLogged`
  is checked with a map below its cap.
* An append to `GITHUB_OUTPUT` that fails in `post.js` skips `enforceViolation`
  (`native-proxy/action/src/post.js:84`): a refusal does not fail the job.  A
  health check that failed loses a broken boundary (`post.js:67`), and so does one
  that met a record with a byte that is not UTF-8, which the report takes for an
  ordinary one (`native-proxy/teardown.sh:439`, `scripts/generate_report.py:80`).
  A rewrite of
  the log that fails half way leaves a shorter log to be judged
  (`native-proxy/teardown.sh:370`).  `ViolationFailsJob` names these commands and
  that record.
* A job can erase its own refusals from the log, or forge one, since its group may
  write the file: `ViolationFailsJob` asks for a log the job did not edit where it
  speaks of refusals, and `OnlyViolationsFail` leaves out edited logs.
* A command that ends teardown before `/tmp/report` is cleared leaves the report
  of an earlier job to be judged and uploaded (`native-proxy/teardown.sh:384`);
  where no canary was recorded, or none was sent because `tls-intercept` is false
  (`native-proxy/setup.sh:802`), the log of an earlier job counts as well
  (`native-proxy/setup.sh:861`).  `OnlyViolationsFail` and `ShipsOwnReport` leave
  these out.
* `fail-on-block: False`, in any spelling with a capital, is an opt-out for
  `decide.js` and none for `teardown.sh` (`native-proxy/teardown.sh:661`).
  `EntryPointsAgree` leaves these spellings out, and a broken boundary that an
  undecodable record kept from `decide.js`.
  An empty `mode` is monitor for `main.js:67`, enforce for `setup.sh:14`: the two
  entry points differ by it, though each is consistent.
* A refusal whose line the watcher read when half of it was written, or that came
  in one poll after a line that is JSON but no record, cancels nothing
  (`scripts/fail_fast_watcher.py:64`).  A line that is not UTF-8 stops the watcher
  for good: `readlines` raises before the position moves, at each poll again.  So
  may a truncated log, which leaves the position behind its end.  `FailFastSees`
  leaves these out.
* The `status` output of `teardown.sh` does not know of an unreadable log
  (`native-proxy/teardown.sh:586`); under the single-step action `post.js` appends
  the right one after it.

* A lookup of the addon that gives nothing (`proxy/addon.py:766`), or an
  upstream connection that is reused, leaves a plain-HTTP request without its
  internal-address check, although `server_connect`'s docstring says that
  "mitmproxy then connects without a second lookup".
  `LoggedAddressIsReached` speaks of records that name an address only.
* `ip_names` can outgrow the cap, when a name is written between the eviction of
  its address and that of its list, and can lose a name, when two threads learn
  two names of one address (`proxy/dns_server.py:85-90`).  `MapIsBounded` speaks
  of `ip_to_domain` only.
* A request whose client leaves while `server_connect` waits for its lookup is
  never logged (`proxy/addon.py:755`), although the `error` hook is there to
  "Log a deferred request that failed before any upstream connect".
  `RequestIsLogged` leaves out clients that left.
* An audit rule, or a claim, that the kernel took but whose answer was lost is
  forgotten before `stop` could give it back
  (`scripts/attribution_helper.py:472`), although the README says that the
  helper "deletes its audit rule on the way out, on both the success and failure
  paths".  `StoppedIsClean` asks for every answer of `start`.
* A consumer of audit records that starts between the helper's look at the
  owner and its claim loses its delivery (`scripts/attribution_helper.py:445`).
  `ConsumerKeepsDelivery` speaks of consumers that were there at the look.
* Where systemd-resolved was not active, a rollback after `resolv.conf` was
  rewritten leaves it pointing at a killed server (`native-proxy/setup.sh:154`),
  and teardown never puts it back (`native-proxy/teardown.sh:239`).
  `ResolvedComesBack` speaks of runners whose systemd-resolved was active, and
  takes it that `systemctl start` succeeds: the scripts tolerate its failure
  (`native-proxy/teardown.sh:229`, `native-proxy/setup.sh:158`), which would leave
  it stopped.
* Without interception, an IPv6 log rule whose IPv4 twin failed survives
  teardown (`native-proxy/teardown.sh:199`).  `TeardownLeavesNoRule` asks for an
  IPv4 rule setup knew of.
* Enforce mode starts without IPv6 rejects when the IPv6 log rule fails
  (`native-proxy/setup.sh:677`).  `EnforcedFromTheStart` asks for them only where
  that rule went in.

Deadlock checking is off in every run because every modelled part may come to
rest: requests and queries are finite, and a torn-down runner is over.

### Fairness

`HttpFlow`: weak fairness on each flow's proxy steps, since mitmproxy's event
loop runs the hooks of a flow it accepted; making a request and leaving are the
job's choice and not fair.  `DnsServer`: weak fairness on each handler and on
the flusher, which are threads in endless loops over calls with timeouts; no
fairness on clients or on the addon's reads.  `RunnerSetup`: weak fairness on
the next step of the scripts, which only the safety of their end states rests
on.  `AuditListener`: weak fairness on
the helper's next step, for each of its waits ends by itself; none on signals or
the other consumer.  `RunVerdict`: weak fairness on the next step of the scripts,
on the end of an append, and on the watcher's poll, a loop over a two-second
sleep; none on connections or on the end of the job.  `TcpFlow` claims no
liveness, `Firewall` none either: `ImplementsFirewall` is about safety, and
`RequestIsLogged` says what must happen in the end.

## Proofs

TLAPS proves every safety property of the passing runs, for all values of the
constants.  Each theorem `Spec => []P` goes through an inductive invariant that
was model-checked, on the run of its component, before it was proved; each proof
that a step keeps it has one step per action.  What the invariants add to the
properties is where the argument lies.

**`HttpFlow_proofs`**, for every set of clients, flows, names, lookups and every
policy, in either mode (under `FlowsAssumption`, `AddressesAssumption`,
`RequestsAssumption`):

* `TypeCorrect`, `OneVerdict` (`VerdictAtMostOnce`), `WaitingEntriesLive`
  (`WaitingIsLive`).  A hook may log a flow only because nothing else can, which
  no count of records says.  `OnceInv` adds where an entry is: a flow that is
  unlogged is idle, waits once under its own key, or is held by the
  `server_connect` of its client; a logged flow is nowhere; and of the flows of a
  client at most one is live, so the entry a `server_connect` takes is its own.
* `LogIsHonest` (`LoggedAddressIsReached`), through `AddressInv`: a record with
  an address is preceded by the pin to it, a dial of a pinned flow reaches the
  pin, and the pin passed the guard with the entry of that flow.
* `EnforcedTrafficPermitted` (`SentIsPermitted`), through `PermitInv`: a flow
  that waits or was let through passed every check of `request`, so whichever
  hook lets it leave may; `PassedIsPermitted` is the same about the verdict.
* `FirewallImplemented` (`ImplementsFirewall`): each action is a step of
  `Firewall` or leaves its variables alone.  `OnceInv` gives that the record
  which is written is the first, `AddressInv` that it leads to where the flow goes.

**`PolicyReview_proofs`**, for any rules, policies of any length, globs, literals
and connections:

* `SubsumesIsSound`: where `glob_subsumes` says yes, the candidate accepts
  nothing the boundary does not, for any two patterns and any subject.
  `WalkUnfolds` says that a walk is decided at each place by the places after it;
  then the accepting walk of the candidate over the subject and that of the
  boundary over the candidate compose, by induction on what is left of the three.
* `BoundaryRespected` (`BoundaryIsRespected`).  The argument is `CheckIsSound`,
  about any two lists of rules: a name or a connection that a rule of the policy
  matches lies under one of its domains, that domain is covered by a rule of the
  boundary with no gaps, and such a rule matches the same (`CoveredConnection`),
  with settings at least as broad, and exempts the same internal addresses
  (`CoveredExemption`).  `CoversAssumption` says that `Covers` holds what fnmatch
  accepts.
* `OrderIrrelevant`, `AddingOnlyWidens`, `DnsCovers`, `MethodExplains`: every
  verdict reads the rules as a set (`VerdictsOfSet`) and grows with it
  (`MoreRules`).  `RulesAssumption` says that the methods of rules are methods a
  request may have.

**`Denial_proofs`**, for any requests: `SuggestionAdmits`
(`PastedRuleAdmitsPlain`) and `SuggestionsExact` (`PastesAreExact`).  `PasteInv`:
the rules of the file are, up to their names, the suggestions that were pasted;
a rename changes no verdict.  `RequestsAssumption`
says what fnmatch and the normaliser do to the texts involved: a text without
glob characters matches itself only, and a normal form keeps the query.

**`TcpFlow_proofs`**: `TypeCorrect`, `RelayedBound` (`PassthroughIsBound`),
`RelayedSteadily` (`PassthroughVerdictIsStable`), for any connections, names and
addresses.  `RelayInv` adds that the latest name of an address is among its names
and that no name is taken from one again: what was true when `next_layer` bound
the connection stays true, however the map changes.

**`DnsServer_proofs`**, for any queries, answers, policy, and any caps and number
of threads above 0 (`ShapeAssumption`, `NameOfAssumption`, `ResponsesAssumption`
type the inputs): `TypeCorrect`, `RefusedNotLearned` (`RefusedIsNeverLearned`),
`MapBounded` (`MapIsBounded`), `SettledOnDisk` (`SettledMapIsOnDisk`),
`CachedCurrent` (`CachedMapIsCurrent`).

* `WorkInv` and `QueueInv`: a handler at an address has one, and a query is
  handled once.  `JudgedInv`: what a handler carries through its switch points
  was judged, and so are the entries of the map, the file and the cache.
* `CapInv`: a map above its cap has a handler that will evict and cannot die of
  it.  One that is overtaken may; that is the case the bound hangs on, and a
  test hardly meets.
* `DiskInv`: the flusher clears the event before its snapshot, so what it wrote
  is current unless the event is set.  A handler that raises while it evicts has
  changed the map and does not set the event: its change is on disk only after
  the next address is learned, and `Settled` leaves such handlers out.
* `CacheInv`: the addon dates a read no later than the file it read.
* `EntriesOnce`: an address is once in the map and a name once in a list,
  whatever two threads do, so that removing the entry of a key (`Without`,
  `Other`) removes one place.

**`RunnerSetup_proofs`**, for any set of configurations: `TypeCorrect`,
`BoundaryExact` (`BoundaryIsExact`), `EnforcedAtStart` (`EnforcedFromTheStart`),
`NoRuleLeft` (`TeardownLeavesNoRule`), `ResolverRestored` (`ResolvedComesBack`).
The three lists of rules, of setup, of the check and of the removal, are
compared through `RulesOf`, `FlagsOf` and `NeedsOf`: what each configuration adds,
which flags it sets and needs.  `TodoInv` says that a rule that needs a flag comes
after all that set it; `RulesInv` that the flags explain the rules that are in,
and that nothing fatal is missing; `ResolverInv` who may have stopped the resolver.

**`AuditListener_proofs`**: `TypeCorrect`, `StoppedClean` (`StoppedIsClean`),
`ForcedHarmless` (`ForcedIsHarmless`), and `ConsumerKept`
(`ConsumerKeepsDelivery`, about steps).  `HeldInv` is what the helper holds at
each request, `SwitchInv` that it remembers the switch it found, `ClockInv` that
the waits of `stop` before the last request fit into teardown's patience,
`ConsumerInv` where a consumer that is alive keeps the helper out.

**`RunVerdict_proofs`**, for any inputs and bounds: `TypeCorrect`, `ViolationFails`
(`ViolationFailsJob`), `ViolationsOnly` (`OnlyViolationsFail`), `VerdictsAgree`
(`EntryPointsAgree`), `OwnReportShipped` (`ShipsOwnReport`).  `WriteInv` ties a
half-written record to the last line, `RefusalInv` a refusal to its line while the
job leaves the log as it is,
`ExportInv` teardown's variables to the inputs, `ReportInv` the report to the log
as it stands, `HealthInv` the health file to the check where no line ended it, `OriginInv` the
report to its run, `DecideInv` and `TeardownInv` the two verdicts to the same
counts.  `ParsedKeeps` says what the rewriting of the log drops, by induction on
its lines.

Induction is cited as a fact about sets (`Upward`: a set that has 0, and with each
number its successor, has all of them), which the provers need no schema for.

Only model-checked: liveness (`RequestIsLogged`, `QueryIsLogged`,
`LearnedIsPublished`, `ExitsOnSigterm`, `FailFastSees`), which is out of TLAPS's
reach here; and the three properties that the code violates.

## What is not modelled

* The text of rules, paths, datagrams and kernel log lines: parsing
  (`policy/parser.py`, `log_parser.py`, `parse_dns_*`) is an outcome.
* The choice and the merge of policy files (`resolve_policy.py`), and in the
  boundary check the case of letters, the spelling of bracket classes and the
  ranges behind `allowed_ips`, which are sets of addresses.
* The scanner (`policy/exfil.py`) and the certificate check: a request either
  carries a secret or not, its certificate is rejected or not.
* Reports, SARIF, comments and one-shot scripts: sequential formatting of a
  finished log, but for the counts the verdict is taken from.
* `src/demo-nodejs`: a sample job, no part of the firewall.
* `proxy` and `job` modes of the container image, the records and lookups of the
  attribution helper: planned below.
* A proxy that outlives its SIGTERM and writes after teardown stopped waiting for
  it (`native-proxy/teardown.sh:166`).
* The proxy dying in the middle of setup, and a disk that fails under the DNS
  map.

## Plan

Done, in this order: `PolicyEngine`, `Denial`, `HttpFlow` with its proofs,
`DnsServer`, `RunnerSetup`, `TcpFlow`, `AuditListener`, `RunVerdict`, and
`Firewall` with the refinement of it by `HttpFlow`, `PolicyBoundary` and
`PolicyReview`; then the proofs of each.  Next:

1. Proofs: the suitability of an upstream connection that is reused; what
   `ip_names` may lose, stated and proved.
2. `Egress`: `DnsServer` composed with `TcpFlow` through the map files.
3. `Attribution`: the port cache against port reuse.
4. Pure algorithms against reference definitions: path normalisation, the merge
   of `resolve_policy.py`, the overlapping windows of the scanner.
5. `Container`: `entrypoint.sh`.
