----------------------------- MODULE RunVerdict -----------------------------
(***************************************************************************)
(* How a job under the single-step action ends: main.js runs setup.sh and  *)
(* leaves its state in GITHUB_ENV; the job runs while the proxy and the    *)
(* DNS server write connections.jsonl, which the fail-fast watcher tails;  *)
(* post.js runs teardown.sh, reads the report it leaves and decides by     *)
(* decide.js whether the job fails.  The firewall itself is in RunnerSetup *)
(* and HttpFlow: here a connection is a record of the log.                 *)
(*                                                                         *)
(* A record is written in two halves, and its writer may be killed between *)
(* them: the torn line stays, and the next writer continues it.  The log   *)
(* is writable by the job, which may add lines to it or edit it.  In every *)
(* run a few commands are broken: they fail when they are run.             *)
(***************************************************************************)
EXTENDS Naturals, FiniteSets, Sequences, Functions

CONSTANTS
  Inputs,     \* the inputs of the action a workflow may give
  MaxLines,   \* bound on the lines of the log
  MaxFaults   \* bound on the broken commands of a run

Modes     == {"monitor", "enforce"}
Writers   == {"proxy", "dns"}
Verdicts  == {"blocked", "passed"}
Lines     == Verdicts \cup {"half", "torn", "garbage", "odd", "noise", "latin"}
Unparsable == {"half", "torn", "garbage", "noise"}
Malformed  == Unparsable \cup {"odd"}   \* "odd" is JSON, but not a record

(* Lines with bytes that are not UTF-8, which a reader that does not       *)
(* replace them raises on: "noise" is no JSON, "latin" a record.           *)
Undecodable == {"noise", "latin"}

(* What the job can write.                                                 *)
JobLines == {"garbage", "odd", "noise", "latin"}
Edits    == UNION {[1..n -> Verdicts \cup JobLines] : n \in 0..MaxLines}

(* "CAPITAL" is any spelling of false but the lower-case one.              *)
FailOns  == {"", "true", "false", "CAPITAL"}
Commands  == {"cache", "setup", "export", "settings", "cancel", "rewrite",
              "clear", "report", "health", "summary", "outputs", "cleanup",
              "upload"}

ASSUME InputsAssumption ==
  Inputs \subseteq [mode : STRING, failOn : FailOns, failFast : BOOLEAN,
                    canary : {"true", "warn", "false"}, intercept : BOOLEAN,
                    cache : BOOLEAN, upload : BOOLEAN]
ASSUME BoundsAssumption == MaxLines \in Nat \ {0} /\ MaxFaults \in Nat

VARIABLES
  inputs, broken,   \* the inputs of this run, and its broken commands
  pc,               \* what the scripts do next
  mainExit,         \* process.exitCode of main.js
  log,              \* connections.jsonl, by lines
  writers, writing, \* who may write it, and the record that is half written
  refused,          \* a refused connection got a line of its own
  tampered,         \* the job edited the log
  watcher, seen,    \* the watcher and the lines it has read
  missed,           \* ... one of them a refusal when half of it was written
  cancelled,        \* the run was cancelled
  exported,         \* the verdict's part of the NFW_ variables, "" when unset
  mayUpload, saveKey,        \* the state main.js appended itself
  report, health, origin,    \* /tmp/report, and whose it is
  boundary, reportOk,        \* BOUNDARY_INTACT and REPORT_OK
  garbled,          \* a line was unparsable when the writers were gone
  teardownExit,     \* the exit code of teardown.sh
  status,           \* the last status appended to GITHUB_OUTPUT
  violation,        \* enforceViolation
  saved, uploaded,  \* the cache was saved; whose report was uploaded
  exit              \* the exit code of post.js

given    == <<inputs, broken>>
logging  == <<log, writers, writing, refused, tampered>>
failFast == <<watcher, seen, missed, cancelled>>
env      == <<exported, mayUpload, saveKey>>
dir      == <<report, health, origin>>
teardown == <<boundary, reportOk, garbled, teardownExit>>
post     == <<status, violation, saved, uploaded, exit>>
vars     == <<given, pc, mainExit, logging, failFast, env, dir, teardown, post>>

Absent == [kind |-> "absent", blocked |-> 0, malformed |-> 0]
Torn   == [kind |-> "torn", blocked |-> 0, malformed |-> 0]
Whole(b, m) == [kind |-> "whole", blocked |-> b, malformed |-> m]
Exported(mode, failOn, on) == [mode |-> mode, failOn |-> failOn, watcher |-> on]
Unset  == Exported("", "", FALSE)

(* A fresh runner, or one where an earlier job left its log and report.    *)
Init ==
  /\ inputs \in Inputs
  /\ broken \in {b \in SUBSET Commands : Cardinality(b) <= MaxFaults}
  /\ pc = "restore" /\ mainExit = 0
  /\ \/ log = <<>> /\ report = Absent /\ health = "absent" /\ origin = "own"
     \/ /\ log = <<"blocked">> /\ report = Whole(1, 0) /\ health = "true"
        /\ origin = "stale"
  /\ writers = {} /\ writing = <<>> /\ refused = FALSE /\ tampered = FALSE
  /\ watcher = "off" /\ seen = 0 /\ missed = FALSE /\ cancelled = FALSE
  /\ exported = Unset /\ mayUpload = TRUE /\ saveKey = FALSE
  /\ boundary = "unchecked" /\ reportOk = TRUE /\ garbled = FALSE
  /\ teardownExit = 0
  /\ status = "none" /\ violation = FALSE
  /\ saved = FALSE /\ uploaded = "nothing" /\ exit = 0

-----------------------------------------------------------------------------
(* main.js and what of setup.sh the verdict depends on.                    *)

(* INPUT_MODE, with the default main.js gives an empty one.                *)
Mode == IF inputs.mode = "" THEN "monitor" ELSE inputs.mode

(* Only a miss leaves a key: not a hit, a disabled or unavailable cache,   *)
(* or an error.                                                            *)
RestorePipCache ==
  /\ pc = "restore" /\ pc' = "setup"
  /\ \E miss \in BOOLEAN :
       saveKey' = (inputs.cache /\ miss /\ "cache" \notin broken)
  /\ UNCHANGED <<given, mainExit, logging, failFast, exported, mayUpload, dir,
                 teardown, post>>

(* Without tls-intercept there is no proxy whose log a canary could show.  *)
Canary == IF inputs.intercept THEN inputs.canary ELSE "false"

(* A bad input, a failing command, or a canary nobody recorded.            *)
SetupFails ==
  /\ pc = "setup" /\ pc' = "settings"
  /\ Mode \notin Modes \/ "setup" \in broken \/ Canary = "true"
  /\ mainExit' = 1
  /\ UNCHANGED <<given, logging, failFast, env, dir, teardown, post>>

(* A canary that was recorded ends with an empty log.                      *)
CanaryLogs ==
  CASE Canary = "true"  -> {<<>>}
    [] Canary = "warn"  -> {<<>>, log}
    [] Canary = "false" -> {log}

SetupPasses ==
  /\ pc = "setup" /\ pc' = "watcher"
  /\ Mode \in Modes /\ "setup" \notin broken
  /\ log' \in CanaryLogs
  /\ writers' = IF inputs.intercept THEN Writers ELSE {"dns"}
  /\ UNCHANGED <<given, mainExit, writing, refused, tampered, failFast, env,
                 dir, teardown, post>>

(* Mutant: the watcher starts where the log ends, as tail -f does.         *)
StartAtEnd ==
  /\ pc = "watcher" /\ pc' = "export"
  /\ watcher' = IF inputs.failFast /\ Mode = "enforce" THEN "on" ELSE "off"
  /\ seen' = Len(log)
  /\ UNCHANGED <<given, mainExit, logging, missed, cancelled, env, dir, teardown,
                 post>>

StartWatcher ==
  /\ pc = "watcher" /\ pc' = "export"
  /\ watcher' = IF inputs.failFast /\ Mode = "enforce" THEN "on" ELSE "off"
  /\ seen' = 0
  /\ UNCHANGED <<given, mainExit, logging, missed, cancelled, env, dir, teardown,
                 post>>

Export ==
  /\ pc = "export" /\ pc' = "settings"
  /\ "export" \notin broken
  /\ exported' = Exported(Mode, inputs.failOn, watcher = "on")
  /\ UNCHANGED <<given, mainExit, logging, failFast, mayUpload, saveKey, dir,
                 teardown, post>>

(* An append to GITHUB_ENV fails: what is before it stays exported, and the *)
(* rollback kills the writers.                                             *)
ExportFails ==
  /\ pc = "export" /\ pc' = "settings"
  /\ "export" \in broken
  /\ exported' \in {Unset, Exported(Mode, "", FALSE),
                    Exported(Mode, inputs.failOn, FALSE),
                    Exported(Mode, inputs.failOn, watcher = "on")}
  /\ mainExit' = 1
  /\ writers' = {} /\ writing' = <<>>
  /\ log' = IF writing = <<>> THEN log ELSE [log EXCEPT ![Len(log)] = "torn"]
  /\ UNCHANGED <<given, refused, tampered, failFast, mayUpload, saveKey, dir,
                 teardown, post>>

(* The artifact settings are kept whatever setup did; unset, they allow    *)
(* the upload.                                                             *)
PersistSettings ==
  /\ pc = "settings"
  /\ mayUpload' = (inputs.upload \/ "settings" \in broken)
  /\ pc' = IF mainExit = 0 THEN "job" ELSE "check"
  /\ UNCHANGED <<given, mainExit, logging, failFast, exported, saveKey, dir,
                 teardown, post>>

-----------------------------------------------------------------------------
(* The log and its watcher.                                                *)

EndsTorn == log # <<>> /\ log[Len(log)] = "torn"
Ended(line) == [log EXCEPT ![Len(log)] = line]

(* _write_log and log_dns_query: one append, which a reader may see and a  *)
(* signal may end half way.                                                *)
BeginRecord(w, kind) ==
  /\ w \in writers /\ writing = <<>>
  /\ writing' = <<w, kind>>
  /\ IF EndsTorn THEN UNCHANGED log
     ELSE Len(log) < MaxLines /\ log' = Append(log, "half")
  /\ UNCHANGED <<given, pc, mainExit, writers, refused, tampered, failFast, env,
                 dir, teardown, post>>

FinishRecord ==
  /\ writing # <<>>
  /\ log' = Ended(IF EndsTorn THEN "garbage" ELSE writing[2])
  /\ refused' = (refused \/ (writing[2] = "blocked" /\ ~EndsTorn))
  /\ writing' = <<>>
  /\ UNCHANGED <<given, pc, mainExit, writers, tampered, failFast, env, dir,
                 teardown, post>>

(* A line of the job's own, which is no record or passes for an innocent   *)
(* one.                                                                    *)
Scribble(line) ==
  /\ pc = "job" /\ writing = <<>> /\ Len(log) < MaxLines
  /\ log' = Append(log, line)
  /\ UNCHANGED <<given, pc, mainExit, writers, writing, refused, tampered,
                 failFast, env, dir, teardown, post>>

(* The job truncates the log, edits it or forges records: then the byte    *)
(* the watcher has read up to is before any line, or past the end.         *)
Tamper ==
  /\ pc = "job" /\ writing = <<>>
  /\ log' \in Edits /\ tampered' = TRUE
  /\ seen' \in IF watcher = "on" THEN 0..MaxLines ELSE {seen}
  /\ UNCHANGED <<given, pc, mainExit, writers, writing, refused, watcher, missed,
                 cancelled, env, dir, teardown, post>>

Unread == (seen + 1)..Len(log)

(* What readlines gives: a half written line is read as well, and its other *)
(* half, read alone, is no record.  An odd line ends the round.            *)
ReadBlocked ==
  \E i \in Unread :
    log[i] = "blocked" /\ \A j \in Unread : j <= i => log[j] # "odd"

(* readlines raises on what it cannot decode before the position moves: it *)
(* is tried again at every poll, and nothing behind it is ever read.       *)
Watch ==
  /\ watcher = "on" /\ Unread # {}
  /\ \A i \in Unread : log[i] \notin Undecodable
  /\ seen' = Len(log)
  /\ missed' = (missed \/ (log[Len(log)] = "half" /\ writing[2] = "blocked"))
  /\ watcher' = IF ReadBlocked THEN "done" ELSE "on"
  /\ cancelled' = (ReadBlocked /\ "cancel" \notin broken)
  /\ UNCHANGED <<given, pc, mainExit, logging, env, dir, teardown, post>>

(* The steps of the job are over, or were cancelled: post-if is always().  *)
JobEnds ==
  /\ pc = "job" /\ pc' = "check"
  /\ UNCHANGED <<given, mainExit, logging, failFast, env, dir, teardown, post>>

-----------------------------------------------------------------------------
(* teardown.sh, under set -e, from the boundary to its exit code.          *)

EnvMode == IF exported.mode = "" THEN "monitor" ELSE exported.mode

(* What the rules and processes say is RunnerSetup's; without the exports  *)
(* of setup nothing is checked.                                            *)
CheckBoundary ==
  /\ pc = "check" /\ pc' = "stopWatcher"
  /\ boundary' \in IF mainExit = 0 THEN {"unchecked", "true", "false"}
                                   ELSE {"unchecked"}
  /\ UNCHANGED <<given, mainExit, logging, failFast, env, dir, reportOk,
                 garbled, teardownExit, post>>

StopWatcher ==
  /\ pc = "stopWatcher" /\ pc' = "stopProxy"
  /\ watcher' = IF exported.watcher /\ watcher = "on" THEN "killed" ELSE watcher
  /\ UNCHANGED <<given, mainExit, logging, seen, missed, cancelled, env, dir,
                 teardown, post>>

(* The end of a writer, which tears the record it is writing.              *)
Stop(w) ==
  LET mid == writing # <<>> /\ writing[1] = w
  IN  /\ writers' = writers \ {w}
      /\ writing' = IF mid THEN <<>> ELSE writing
      /\ log'     = IF mid THEN Ended("torn") ELSE log
      /\ UNCHANGED <<refused, tampered>>

StopProxy ==
  /\ pc = "stopProxy" /\ pc' = "stopDns"
  /\ Stop("proxy")
  /\ UNCHANGED <<given, mainExit, failFast, env, dir, teardown, post>>

StopDns ==
  /\ pc = "stopDns" /\ pc' = "merge"
  /\ Stop("dns")
  /\ garbled' = \E i \in DOMAIN log' : log'[i] \in Unparsable
  /\ UNCHANGED <<given, mainExit, failFast, env, dir, boundary, reportOk,
                 teardownExit, post>>

(* The log is read up to a line json refuses; an odd line, or one that     *)
(* cannot be decoded, before it ends the merge with a warning.  So does    *)
(* one behind it that was read with it: the merge may always be missing.   *)
Mergeable ==
  \A i \in DOMAIN log : log[i] \in Undecodable \cup {"odd"} =>
    \E j \in 1..(i - 1) : log[j] \in Unparsable

(* The rows conntrack alone saw; none is a refusal.  The first of them     *)
(* continues a torn line.                                                  *)
MergeConntrack ==
  /\ pc = "merge" /\ pc' = "attribute"
  /\ \/ UNCHANGED log
     \/ /\ mainExit = 0 /\ Mergeable
        /\ log' = IF EndsTorn THEN Ended("garbage") ELSE Append(log, "passed")
  /\ UNCHANGED <<given, mainExit, writers, writing, refused, tampered, failFast,
                 env, dir, teardown, post>>

(* The log, read past the lines json refuses and written back once an      *)
(* event was attached to a row; an odd line, or one that cannot be         *)
(* decoded, ends it with a warning.                                        *)
Parsed ==
  LET kept[n \in 0..Len(log)] ==
        IF n = 0 THEN <<>>
        ELSE IF log[n] \in Unparsable THEN kept[n - 1]
        ELSE Append(kept[n - 1], log[n])
  IN  kept[Len(log)]

AttachEvents ==
  /\ pc = "attribute" /\ pc' = "clear"
  /\ \/ UNCHANGED log
     \/ /\ Range(log) \cap Verdicts # {}
        /\ Range(log) \cap (Undecodable \cup {"odd"}) = {}
        /\ \/ "rewrite" \notin broken /\ log' = Parsed
           \/ /\ "rewrite" \in broken
              /\ \E n \in 0..(Len(Parsed) - 1) : log' = SubSeq(Parsed, 1, n)
  /\ UNCHANGED <<given, mainExit, writers, writing, refused, tampered, failFast,
                 env, dir, teardown, post>>

Abort == teardownExit' = 1 /\ pc' = "decide"

(* Mutant: the directory is made, not emptied.                             *)
KeepReports ==
  /\ pc = "clear"
  /\ IF "clear" \in broken THEN Abort /\ UNCHANGED dir
     ELSE pc' = "report" /\ UNCHANGED <<dir, teardownExit>>
  /\ UNCHANGED <<given, mainExit, logging, failFast, env, boundary, reportOk,
                 garbled, post>>

(* "clear" is any command up to here that may end teardown.                *)
ClearReports ==
  /\ pc = "clear"
  /\ IF "clear" \in broken THEN Abort /\ UNCHANGED dir
     ELSE /\ pc' = "report" /\ UNCHANGED teardownExit
          /\ report' = Absent /\ health' = "absent" /\ origin' = "own"
  /\ UNCHANGED <<given, mainExit, logging, failFast, env, boundary, reportOk,
                 garbled, post>>

CountOf(kinds) == Cardinality({i \in DOMAIN log : log[i] \in kinds})

(* read_jsonl_counted, which replaces what it cannot decode, and           *)
(* build_report.                                                           *)
ReportOf == Whole(CountOf({"blocked"}), CountOf(Malformed))

(* A generator that fails may leave no report.json, a part of it, or all   *)
(* of it and not the files after it.                                       *)
GenerateReport ==
  /\ pc = "report" /\ pc' = "health"
  /\ reportOk' = ("report" \notin broken)
  /\ IF "report" \in broken THEN report' \in {report, Torn, ReportOf}
     ELSE report' = ReportOf
  /\ UNCHANGED <<given, mainExit, logging, failFast, env, health, origin,
                 boundary, garbled, teardownExit, post>>

(* The health check reads the log too; an odd line, or one that cannot be  *)
(* decoded, ends it.                                                       *)
CheckHealth ==
  /\ pc = "health" /\ pc' = "summary"
  /\ health' = IF \/ "health" \in broken
                  \/ Range(log) \cap (Undecodable \cup {"odd"}) # {}
               THEN health ELSE boundary
  /\ UNCHANGED <<given, mainExit, logging, failFast, env, report, origin,
                 teardown, post>>

WriteSummary ==
  /\ pc = "summary"
  /\ IF "summary" \in broken THEN Abort
     ELSE pc' = "outputs" /\ UNCHANGED teardownExit
  /\ UNCHANGED <<given, mainExit, logging, failFast, env, dir, boundary,
                 reportOk, garbled, post>>

(* count_blocked.py raises on half a report.                               *)
SetOutputs ==
  /\ pc = "outputs"
  /\ IF report.kind = "torn" \/ "outputs" \in broken
     THEN Abort /\ UNCHANGED <<reportOk, status>>
     ELSE /\ pc' = "exit" /\ UNCHANGED teardownExit
          /\ reportOk' = (reportOk /\ report.kind # "absent")
          /\ status' = IF EnvMode = "enforce" /\
                          (report.blocked > 0 \/ boundary = "false")
                       THEN "fail" ELSE "pass"
  /\ UNCHANGED <<given, mainExit, logging, failFast, env, dir, boundary,
                 garbled, violation, saved, uploaded, exit>>

(* Mutant: a log that could not be read is no reason to fail.              *)
BlockedOrBroken == boundary = "false" \/ report.blocked > 0

TeardownFinds ==
  \/ boundary = "false"
  \/ ~reportOk \/ report.malformed > 0
  \/ report.blocked > 0

TeardownExits ==
  /\ pc = "exit" /\ pc' = "decide"
  /\ teardownExit' =
       IF \/ EnvMode = "enforce" /\ TeardownFinds /\ exported.failOn # "false"
          \/ "cleanup" \in broken
       THEN 1 ELSE 0
  /\ UNCHANGED <<given, mainExit, logging, failFast, env, dir, boundary,
                 reportOk, garbled, post>>

-----------------------------------------------------------------------------
(* post.js and decide.js.                                                  *)

(* Mutant: a report is enough, whatever it could not read.                 *)
NoReport == report.kind # "whole"

Unverified == report.kind # "whole" \/ report.malformed > 0

BoundaryBroken == health = "false"

Failing == EnvMode = "enforce" /\
           (report.blocked > 0 \/ Unverified \/ BoundaryBroken)

(* decideEnforceExit lower-cases fail-on-block.                            *)
OptsOut == exported.failOn \in {"false", "CAPITAL"}

(* Mutant: the verdict is stored as it is printed.                         *)
DecideAsStatus ==
  /\ pc = "decide" /\ pc' = "save"
  /\ IF "outputs" \in broken THEN UNCHANGED <<status, violation>>
     ELSE /\ status' = IF Failing /\ ~OptsOut THEN "error" ELSE "pass"
          /\ violation' = (Failing /\ ~OptsOut)
  /\ UNCHANGED <<given, mainExit, logging, failFast, env, dir, teardown, saved,
                 uploaded, exit>>

(* The outputs are appended first: an exception there skips the rest.      *)
Decide ==
  /\ pc = "decide" /\ pc' = "save"
  /\ IF "outputs" \in broken THEN UNCHANGED <<status, violation>>
     ELSE /\ status' = IF Failing THEN "fail" ELSE "pass"
          /\ violation' = (Failing /\ ~OptsOut)
  /\ UNCHANGED <<given, mainExit, logging, failFast, env, dir, teardown, saved,
                 uploaded, exit>>

SavePipCache ==
  /\ pc = "save" /\ pc' = "upload"
  /\ \E kept \in BOOLEAN : saved' = (kept /\ saveKey /\ "cache" \notin broken)
  /\ UNCHANGED <<given, mainExit, logging, failFast, env, dir, teardown, status,
                 violation, uploaded, exit>>

UploadReport ==
  /\ pc = "upload" /\ pc' = "end"
  /\ uploaded' = IF /\ mayUpload /\ "upload" \notin broken
                    /\ report.kind # "absent" \/ health # "absent"
                 THEN origin ELSE "nothing"
  /\ UNCHANGED <<given, mainExit, logging, failFast, env, dir, teardown, status,
                 violation, saved, exit>>

(* Mutant: a failed teardown fails the job.                                *)
ExitWithTeardown ==
  /\ pc = "end" /\ pc' = "over"
  /\ exit' = IF violation \/ teardownExit # 0 THEN 1 ELSE 0
  /\ UNCHANGED <<given, mainExit, logging, failFast, env, dir, teardown, status,
                 violation, saved, uploaded>>

Exit ==
  /\ pc = "end" /\ pc' = "over"
  /\ exit' = IF violation THEN 1 ELSE 0
  /\ UNCHANGED <<given, mainExit, logging, failFast, env, dir, teardown, status,
                 violation, saved, uploaded>>

-----------------------------------------------------------------------------
Main == RestorePipCache \/ SetupFails \/ SetupPasses \/ StartWatcher \/ Export
        \/ ExportFails \/ PersistSettings
Teardown == CheckBoundary \/ StopWatcher \/ StopProxy \/ StopDns
            \/ MergeConntrack \/ AttachEvents \/ ClearReports \/ GenerateReport
            \/ CheckHealth \/ WriteSummary \/ SetOutputs \/ TeardownExits
Post == Decide \/ SavePipCache \/ UploadReport \/ Exit

Next ==
  \/ Main \/ JobEnds \/ Teardown \/ Post
  \/ \E w \in Writers, kind \in Verdicts : BeginRecord(w, kind)
  \/ FinishRecord
  \/ \E line \in JobLines : Scribble(line)
  \/ Tamper
  \/ Watch

(* A script runs on, a write ends and the watcher polls; nobody has to     *)
(* connect anywhere, and no job has to end.                                *)
Fairness ==
  /\ WF_vars(Main \/ Teardown \/ Post)
  /\ WF_vars(FinishRecord)
  /\ WF_vars(Watch)

Spec == Init /\ [][Next]_vars /\ Fairness

-----------------------------------------------------------------------------
TypeOK ==
  /\ inputs \in Inputs /\ broken \subseteq Commands
  /\ pc \in {"restore", "setup", "watcher", "export", "settings", "job", "check",
             "stopWatcher", "stopProxy", "stopDns", "merge", "attribute",
             "clear", "report", "health", "summary", "outputs", "exit",
             "decide", "save", "upload", "end", "over"}
  /\ log \in Seq(Lines)
  /\ writers \subseteq Writers
  /\ writing \in {<<>>} \cup (Writers \X Verdicts)
  /\ watcher \in {"off", "on", "done", "killed"} /\ seen \in Nat
  /\ exported \in [mode : {""} \cup Modes, failOn : {"", inputs.failOn},
                    watcher : BOOLEAN]
  /\ report \in [kind : {"absent", "torn", "whole"}, blocked : Nat,
                 malformed : Nat]
  /\ health \in {"absent", "unchecked", "true", "false"}
  /\ boundary \in {"unchecked", "true", "false"}
  /\ origin \in {"own", "stale"} /\ uploaded \in {"own", "stale", "nothing"}
  /\ status \in {"none", "pass", "fail"}
  /\ {mainExit, teardownExit, exit} \subseteq {0, 1}
  /\ refused \in BOOLEAN /\ tampered \in BOOLEAN
  /\ missed \in BOOLEAN /\ cancelled \in BOOLEAN
  /\ mayUpload \in BOOLEAN /\ saveKey \in BOOLEAN
  /\ reportOk \in BOOLEAN /\ garbled \in BOOLEAN
  /\ violation \in BOOLEAN /\ saved \in BOOLEAN

Over == pc = "over"
Spared(commands) == broken \cap commands = {}
Enforced == mainExit = 0 /\ Mode = "enforce"
            /\ inputs.failOn \notin {"false", "CAPITAL"}

(* In an enforcing job a refused connection with a line of its own, a line *)
(* that is no record and a broken boundary each fail the job, whoever was  *)
(* killed in the middle of a record and whichever later command failed -   *)
(* but for the commands named here, after which the code does lose the     *)
(* verdict.  The job may add any line: only a record that cannot be        *)
(* decoded hides a broken boundary, which the health check then never      *)
(* writes down.  A job that edits the log can erase its own refusals, but  *)
(* not the boundary.                                                       *)
ViolationFailsJob ==
  Over /\ Enforced /\ Spared({"clear", "outputs"}) =>
    /\ refused /\ ~tampered /\ Spared({"rewrite"}) => exit = 1
    /\ boundary = "false" /\ "latin" \notin Range(log) /\ Spared({"health"})
         => exit = 1
    /\ Range(log) \cap Malformed # {} => exit = 1

(* post.js: "The ONLY thing that fails the job here is an enforce-mode     *)
(* policy violation": no failing cache, upload, teardown or setup, and,    *)
(* where a canary has emptied the log, no earlier job.  Where none was     *)
(* sent - and none is without tls-intercept - a refusal of an earlier job  *)
(* does, and so does one the job forged.                                   *)
OnlyViolationsFail ==
  Over /\ exit = 1 =>
    /\ EnvMode = "enforce" /\ ~OptsOut
    /\ \/ refused \/ Range(log) \cap Malformed # {} \/ boundary = "false"
       \/ Canary # "true" \/ tampered
       \/ ~Spared({"report", "clear"})

(* The two-step action takes its verdict from teardown.sh, the single-step *)
(* one from decide.js: when no command between them failed they agree, for *)
(* the spellings of fail-on-block that both know, unless a record that     *)
(* cannot be decoded kept the broken boundary from decide.js.              *)
EntryPointsAgree ==
  Over /\ inputs.failOn # "CAPITAL"
       /\ (boundary = "false" => "latin" \notin Range(log))
       /\ Spared({"clear", "report", "health", "summary", "outputs", "cleanup"})
    => teardownExit = exit

(* What is uploaded is this run's report, not one an earlier job left, and *)
(* nothing when the workflow said so and was heard.                        *)
ShipsOwnReport ==
  /\ uploaded = "stale" => "clear" \in broken
  /\ uploaded # "nothing" => inputs.upload \/ "settings" \in broken

(* Once a connection was refused and recorded, the watcher comes to ask    *)
(* for the cancellation or is killed, unless it read that record when half *)
(* of it was written, the job edited the log, a line that is JSON but no   *)
(* record cost it a round, or one that cannot be decoded all rounds.       *)
FailFastSees ==
  (watcher = "on" /\ refused) ~>
    \/ watcher # "on"
    \/ missed \/ tampered
    \/ Range(log) \cap (Undecodable \cup {"odd"}) # {}

(* teardown.sh: "A verdict computed from a missing or partly unreadable    *)
(* log is not a pass."                                                     *)
GarbledFailsJob == Over /\ Enforced /\ garbled => exit = 1
=============================================================================
