------------------------- MODULE RunVerdict_proofs -------------------------
(* Proofs about RunVerdict, for any inputs, length of the log and number  *)
(* of broken commands: what the job's log, the report on it and the two   *)
(* verdicts have to do with one another.                                  *)
EXTENDS RunVerdict, WellFoundedInduction, FiniteSetTheorems, SequenceTheorems, TLAPS

-----------------------------------------------------------------------------
(* What the proofs strengthen the properties with.                         *)

Reported == {"health", "summary", "outputs", "exit"}
Posted   == {"save", "upload", "end", "over"}
Tornly   == {"half", "torn"}

(* A record that is being written has the last line of the log, which is   *)
(* no record yet; nobody writes before setup and after the writers ended.  *)
WriteInv ==
  /\ writing # <<>> => /\ writing[1] \in writers
                       /\ log # <<>> /\ log[Len(log)] \in Tornly
  /\ pc \in {"restore", "setup"} => writers = {} /\ ~refused
  /\ pc = "stopDns" => writers \subseteq {"dns"}
  /\ pc \in {"merge", "attribute", "clear", "report", "decide"} \cup Reported \cup Posted
       => writers = {}

(* While the job leaves the log as it is, a refusal that has a line keeps  *)
(* it, and a line that is one is of this job where the canary emptied it.  *)
RefusalInv ==
  /\ refused /\ ~tampered /\ Spared({"rewrite"}) => "blocked" \in Range(log)
  /\ "blocked" \in Range(log) /\ Canary = "true" /\ ~refused /\ ~tampered =>
       exported.mode = "" /\ pc \notin {"watcher", "export"}

(* teardown.sh and post.js know the inputs setup.sh knew.                  *)
ExportInv ==
  /\ pc \in {"restore", "setup", "watcher", "export"} => exported = Unset /\ mainExit = 0
  /\ pc \in {"watcher", "export"} => Mode \in Modes
  /\ exported.failOn \in {"", inputs.failOn}
  /\ mainExit = 0 /\ exported # Unset =>
       exported.mode = Mode /\ exported.failOn = inputs.failOn
  /\ mainExit = 0 /\ pc \notin {"restore", "setup", "watcher", "export"} =>
       exported # Unset

(* The report counts the log as it stands, or was not finished.            *)
ReportInv ==
  /\ pc \in {"report"} \cup Reported => "clear" \notin broken
  /\ pc = "report" => report = Absent
  /\ "clear" \notin broken /\ pc \in {"decide"} \cup Reported \cup Posted =>
       report \in {Absent, Torn, ReportOf}
  /\ Spared({"clear", "report"}) /\ pc \in {"decide"} \cup Reported \cup Posted =>
       report = ReportOf

(* The health check repeats what the boundary check found, unless a line   *)
(* ended it.                                                               *)
Sound == Range(log) \cap (Undecodable \cup {"odd"}) = {}

HealthInv ==
  /\ pc \in {"report", "health"} => health = "absent"
  /\ "clear" \notin broken /\ pc \in {"summary", "outputs", "exit", "decide"} \cup Posted =>
       /\ health \in {"absent", boundary}
       /\ "health" \notin broken /\ Sound => health = boundary

(* Whose report it is, and whether it may be shipped.                      *)
OriginInv ==
  /\ "clear" \notin broken /\ pc \in {"report", "decide"} \cup Reported \cup Posted =>
       origin = "own"
  /\ pc \notin {"restore", "setup", "watcher", "export", "settings"} =>
       (mayUpload <=> inputs.upload \/ "settings" \in broken)
  /\ pc \notin {"end", "over"} => uploaded = "nothing"
  /\ ShipsOwnReport

(* The two verdicts: decide.js's stands from its step on, that of          *)
(* teardown.sh when no command ended it before.                            *)
DecideInv ==
  /\ pc \notin Posted => ~violation
  /\ pc \in Posted => (violation <=> Failing /\ ~OptsOut /\ "outputs" \notin broken)
  /\ exit = IF Over /\ violation THEN 1 ELSE 0
TeardownInv ==
  Spared({"clear", "report", "summary", "outputs", "cleanup"}) =>
    /\ pc \notin {"decide"} \cup Posted => reportOk
    /\ pc \in {"decide"} \cup Posted =>
         teardownExit = IF /\ EnvMode = "enforce" /\ exported.failOn # "false"
                           /\ \/ boundary = "false"
                              \/ report.blocked > 0 \/ report.malformed > 0
                        THEN 1 ELSE 0

-----------------------------------------------------------------------------
(* Natural numbers, and the log without the lines json refuses.            *)

(* Induction, as a fact about a set: the smallest number outside has a     *)
(* predecessor inside.                                                     *)
LEMMA Upward ==
  ASSUME NEW S, 0 \in S, \A n \in Nat : n \in S => n + 1 \in S
  PROVE  Nat \subseteq S
<1> DEFINE T == Nat \ S
           R == OpToRel(<, Nat)
<1> SUFFICES ASSUME T # {} PROVE FALSE
  OBVIOUS
<1>1. IsWellFoundedOn(R, Nat)
  BY NatLessThanWellFounded
<1>2. T \subseteq Nat
  OBVIOUS
<1>3. \A a, b \in Nat : a < b => <<a, b>> \in R
  BY DEF OpToRel
<1> HIDE DEF T, R
<1>4. PICK x \in T : \A y \in T : ~ (<<y, x>> \in R)
  BY <1>1, <1>2, WFMin
<1> USE DEF T
<1>5. x # 0 /\ x \in Nat
  OBVIOUS
<1>6. x - 1 \in Nat /\ (x - 1) + 1 = x
  BY <1>5
<1>7. x - 1 \in T /\ x - 1 < x
  BY <1>5, <1>6
<1> QED
  BY <1>3, <1>4, <1>5, <1>7

(* Parsed keeps the lines that json takes, and nothing else.               *)
LEMMA ParsedKeeps ==
  ASSUME log \in Seq(Lines)
  PROVE  /\ Parsed \in Seq(Lines)
         /\ Range(Parsed) = Range(log) \ Unparsable
<1> DEFINE step(f, n) == IF n = 0 THEN <<>>
                         ELSE IF log[n] \in Unparsable THEN f[n - 1]
                         ELSE Append(f[n - 1], log[n])
           Defined == {m \in Nat : \E g : g = [n \in 0..m |-> step(g, n)]}
           kept == CHOOSE g : g = [n \in 0..Len(log) |-> step(g, n)]
<1>1. Len(log) \in Nat /\ DOMAIN log = 1..Len(log) /\ \A i \in 1..Len(log) : log[i] \in Lines
  BY LenProperties, ElementOfSeq
<1>2. Parsed = kept[Len(log)]
  BY Zenon DEF Parsed
<1>3. Len(log) \in Defined
  <2>1. 0 \in Defined
    <3> DEFINE g == [n \in 0..0 |-> <<>>]
    <3>1. g = [n \in 0..0 |-> step(g, n)]
      OBVIOUS
    <3> QED
      BY <3>1
  <2>2. ASSUME NEW m \in Nat, m \in Defined PROVE m + 1 \in Defined
    <3>1. PICK g : g = [n \in 0..m |-> step(g, n)]
      BY <2>2
    <3> DEFINE h == [n \in 0..(m + 1) |-> IF n <= m THEN g[n] ELSE step(g, m + 1)]
    <3>2. ASSUME NEW n \in 0..(m + 1) PROVE h[n] = step(h, n)
      <4>1. CASE n = 0
        BY <3>1, <4>1
      <4>2. CASE n # 0
        <5>1. n - 1 \in 0..m /\ h[n - 1] = g[n - 1]
          BY <4>2
        <5>2. h[n] = step(g, n)
          <6>1. CASE n <= m
            <7>1. n \in 0..m /\ h[n] = g[n]
              BY <6>1
            <7>2. g[n] = step(g, n)
              BY <3>1, <7>1
            <7> QED
              BY <7>1, <7>2
          <6>2. CASE n = m + 1
            <7>1. ~ (n <= m) /\ h[n] = step(g, m + 1)
              BY <6>2
            <7> QED
              BY <6>2, <7>1
          <6> QED
            BY <6>1, <6>2
        <5> QED
          BY <4>2, <5>1, <5>2
      <4> QED
        BY <4>1, <4>2
    <3>3. h = [n \in 0..(m + 1) |-> step(h, n)]
      BY <3>2
    <3> HIDE DEF h
    <3>4. \E g1 : g1 = [n \in 0..(m + 1) |-> step(g1, n)]
      BY <3>3, Zenon
    <3>5. m + 1 \in Nat
      OBVIOUS
    <3> QED
      BY <3>4, <3>5, Zenon
  <2> HIDE DEF Defined
  <2> QED
    BY <1>1, <2>1, <2>2, Upward
<1>4. kept = [n \in 0..Len(log) |-> step(kept, n)]
  BY <1>3, Zenon
<1> HIDE DEF kept
<1>5. ASSUME NEW n \in 0..Len(log) PROVE kept[n] = step(kept, n)
  BY <1>4
<1> DEFINE Good(s, n) == /\ s \in Seq(Lines)
                         /\ Range(s) = {log[i] : i \in 1..n} \ Unparsable
           Upto == {n \in Nat : n <= Len(log) => Good(kept[n], n)}
<1>6. 0 \in Upto
  <2>1. kept[0] = <<>>
    BY <1>1, <1>5
  <2>2. <<>> \in Seq(Lines) /\ Range(<<>>) = {}
    BY DEF Range
  <2>3. {log[i] : i \in 1..0} = {}
    OBVIOUS
  <2> QED
    BY <2>1, <2>2, <2>3
<1>7. ASSUME NEW n \in Nat, n \in Upto PROVE n + 1 \in Upto
  <2> SUFFICES ASSUME n + 1 <= Len(log) PROVE Good(kept[n + 1], n + 1)
    OBVIOUS
  <2>1. n \in 0..Len(log) /\ n + 1 \in 1..Len(log) /\ (n + 1) - 1 = n /\ n + 1 # 0
    BY <1>1
  <2>2. Good(kept[n], n)
    BY <1>7, <2>1
  <2>3. kept[n + 1] = IF log[n + 1] \in Unparsable THEN kept[n]
                      ELSE Append(kept[n], log[n + 1])
    BY <1>5, <2>1
  <2>4. {log[i] : i \in 1..(n + 1)} = {log[i] : i \in 1..n} \cup {log[n + 1]}
    <3>1. 1..(n + 1) = 1..n \cup {n + 1}
      OBVIOUS
    <3> QED
      BY <3>1
  <2>5. CASE log[n + 1] \in Unparsable
    BY <2>2, <2>3, <2>4, <2>5
  <2>6. CASE log[n + 1] \notin Unparsable
    <3> DEFINE s == kept[n]
               a == Append(s, log[n + 1])
    <3>1. log[n + 1] \in Lines
      BY <1>1, <2>1
    <3>2. a \in Seq(Lines) /\ Range(a) = Range(s) \cup {log[n + 1]}
      <4> HIDE DEF s
      <4>1. s \in Seq(Lines)
        BY <2>2 DEF s
      <4> QED
        BY <4>1, <3>1, AppendProperties, LenProperties DEF Range
    <3> QED
      BY <2>2, <2>3, <2>4, <2>6, <3>2
  <2> QED
    BY <2>5, <2>6
<1> HIDE DEF Upto
<1>8. Len(log) \in Upto
  BY <1>1, <1>6, <1>7, Upward
<1>9. Good(kept[Len(log)], Len(log))
  BY <1>1, <1>8 DEF Upto
<1>10. Range(log) = {log[i] : i \in 1..Len(log)}
  BY <1>1 DEF Range
<1> QED
  BY <1>2, <1>9, <1>10

(* The counts of a report say which kinds of lines the log has.            *)
LEMMA CountFacts ==
  ASSUME log \in Seq(Lines), NEW kinds
  PROVE  /\ CountOf(kinds) \in Nat
         /\ CountOf(kinds) > 0 <=> Range(log) \cap kinds # {}
<1> DEFINE places == {i \in DOMAIN log : log[i] \in kinds}
<1>1. DOMAIN log = 1..Len(log) /\ Len(log) \in Nat
  BY LenProperties
<1>2. IsFiniteSet(1..Len(log)) /\ places \subseteq 1..Len(log)
  BY <1>1, FS_Interval
<1>3. IsFiniteSet(places)
  BY <1>2, FS_Subset
<1>4. Cardinality(places) \in Nat /\ (Cardinality(places) = 0 <=> places = {})
  BY <1>3, FS_CardinalityType, FS_EmptySet
<1>5. Range(log) \cap kinds # {} <=> places # {}
  BY DEF Range
<1> QED
  BY <1>4, <1>5 DEF CountOf

-----------------------------------------------------------------------------
(* Types, by the parts of the state.                                       *)
ScriptType ==
  /\ inputs \in Inputs /\ broken \subseteq Commands
  /\ pc \in {"restore", "setup", "watcher", "export", "settings", "job", "check",
             "stopWatcher", "stopProxy", "stopDns", "merge", "attribute",
             "clear", "report", "health", "summary", "outputs", "exit",
             "decide", "save", "upload", "end", "over"}
  /\ mainExit \in {0, 1}
LogType ==
  /\ log \in Seq(Lines)
  /\ writers \subseteq Writers
  /\ writing \in {<<>>} \cup (Writers \X Verdicts)
  /\ refused \in BOOLEAN /\ tampered \in BOOLEAN
WatchType ==
  /\ watcher \in {"off", "on", "done", "killed"} /\ seen \in Nat
  /\ missed \in BOOLEAN /\ cancelled \in BOOLEAN
EnvType ==
  /\ exported \in [mode : {""} \cup Modes, failOn : {"", inputs.failOn}, watcher : BOOLEAN]
  /\ mayUpload \in BOOLEAN /\ saveKey \in BOOLEAN
DirType ==
  /\ report \in [kind : {"absent", "torn", "whole"}, blocked : Nat, malformed : Nat]
  /\ health \in {"absent", "unchecked", "true", "false"}
  /\ origin \in {"own", "stale"}
TeardownType ==
  /\ boundary \in {"unchecked", "true", "false"}
  /\ reportOk \in BOOLEAN /\ garbled \in BOOLEAN
  /\ teardownExit \in {0, 1}
PostType ==
  /\ status \in {"none", "pass", "fail"} /\ violation \in BOOLEAN
  /\ saved \in BOOLEAN /\ uploaded \in {"own", "stale", "nothing"}
  /\ exit \in {0, 1}

LEMMA TypeParts ==
  TypeOK <=> /\ ScriptType /\ LogType /\ WatchType /\ EnvType
             /\ DirType /\ TeardownType /\ PostType
BY DEF TypeOK, ScriptType, LogType, WatchType, EnvType, DirType, TeardownType,
   PostType

LEMMA InputTyped ==
  ASSUME ScriptType
  PROVE  /\ inputs.mode \in STRING /\ inputs.failOn \in FailOns
         /\ Canary \in {"true", "warn", "false"}
         /\ inputs.upload \in BOOLEAN /\ inputs.failFast \in BOOLEAN
<1>1. inputs \in [mode : STRING, failOn : FailOns, failFast : BOOLEAN,
                  canary : {"true", "warn", "false"}, intercept : BOOLEAN,
                  cache : BOOLEAN, upload : BOOLEAN]
  BY InputsAssumption DEF ScriptType
<1> QED
  BY <1>1 DEF Canary

(* The last line is replaced, the others stay.                             *)
LEMMA EndedFacts ==
  ASSUME log \in Seq(Lines), NEW line \in Lines
  PROVE  /\ Ended(line) \in Seq(Lines)
         /\ Len(Ended(line)) = Len(log)
         /\ log # <<>> => Ended(line)[Len(log)] = line
         /\ \A x \in Range(Ended(line)) : x \in Range(log) \/ x = line
         /\ \A x \in Range(log) : x \in Range(Ended(line)) \/ x = log[Len(log)]
<1> DEFINE e == Ended(line)
<1>1. Len(log) \in Nat /\ DOMAIN log = 1..Len(log) /\ \A i \in 1..Len(log) : log[i] \in Lines
  BY LenProperties, ElementOfSeq
<1>2. e \in [1..Len(log) -> Lines] /\ DOMAIN e = 1..Len(log)
      /\ \A i \in 1..Len(log) : e[i] = IF i = Len(log) THEN line ELSE log[i]
  BY <1>1 DEF Ended
<1> HIDE DEF e
<1>3. e \in Seq(Lines) /\ Len(e) = Len(log)
  <2>1. e \in Seq(Lines)
    BY <1>1, <1>2, SeqDef
  <2>2. Len(e) \in Nat /\ DOMAIN e = 1..Len(e)
    BY <2>1, LenProperties
  <2>3. 1..Len(e) = 1..Len(log)
    BY <1>2, <2>2
  <2>4. Len(e) = Len(log)
    <3> HIDE DEF e
    <3> DEFINE k == Len(e)  m == Len(log)
    <3>1. k \in Nat /\ m \in Nat /\ 1..k = 1..m
      BY <1>1, <2>2, <2>3
    <3> HIDE DEF k, m
    <3>2. k \in 1..k \/ k = 0
      BY <3>1
    <3>3. m \in 1..m \/ m = 0
      BY <3>1
    <3>4. k = m
      BY <3>1, <3>2, <3>3
    <3> QED
      BY <3>4 DEF k, m
  <2> QED
    BY <2>1, <2>4
<1>4. log # <<>> => Len(log) \in 1..Len(log)
  BY <1>1, EmptySeq
<1>5. \A x \in Range(e) : x \in Range(log) \/ x = line
  BY <1>1, <1>2 DEF Range
<1>6. \A x \in Range(log) : x \in Range(e) \/ x = log[Len(log)]
  BY <1>1, <1>2 DEF Range
<1> QED
  BY <1>2, <1>3, <1>4, <1>5, <1>6 DEF e

LEMMA AppendedFacts ==
  ASSUME log \in Seq(Lines), NEW line \in Lines
  PROVE  /\ Append(log, line) \in Seq(Lines)
         /\ Append(log, line) # <<>>
         /\ Append(log, line)[Len(Append(log, line))] = line
         /\ Range(Append(log, line)) = Range(log) \cup {line}
<1>1. /\ Append(log, line) \in Seq(Lines) /\ Len(Append(log, line)) = Len(log) + 1
      /\ \A i \in 1..Len(log) : Append(log, line)[i] = log[i]
      /\ Append(log, line)[Len(log) + 1] = line
  BY AppendProperties
<1>2. Len(log) \in Nat /\ DOMAIN log = 1..Len(log)
  BY LenProperties
<1>3. DOMAIN Append(log, line) = 1..(Len(log) + 1)
  BY <1>1, LenProperties
<1>4. 1..(Len(log) + 1) = 1..Len(log) \cup {Len(log) + 1}
  BY <1>2
<1>5. Append(log, line) # <<>>
  BY <1>1, <1>2, EmptySeq
<1> HIDE <1>4
<1>6. Range(Append(log, line)) = Range(log) \cup {line}
  BY <1>1, <1>2, <1>3, <1>4 DEF Range
<1> QED
  BY <1>1, <1>5, <1>6

(* Whatever the job writes is a log.                                       *)
LEMMA EditsFacts ==
  ASSUME NEW edit \in Edits
  PROVE  edit \in Seq(Lines)
<1>1. PICK n \in 0..MaxLines : edit \in [1..n -> Verdicts \cup JobLines]
  BY DEF Edits
<1>2. n \in Nat
  BY <1>1, BoundsAssumption
<1>3. Verdicts \cup JobLines \subseteq Lines
  BY DEF JobLines, Lines
<1>4. edit \in [1..n -> Lines]
  BY <1>1, <1>3
<1> QED
  BY <1>2, <1>4, SeqDef

(* One lemma per part: what a step keeps of it.                            *)
LEMMA NextScript ==
  TypeOK /\ [Next]_vars => ScriptType'
<1> SUFFICES ASSUME TypeOK, [Next]_vars
             PROVE  ScriptType'
  OBVIOUS
<1>t. ScriptType
  BY TypeParts
<1>1. CASE RestorePipCache
  BY <1>1, <1>t DEF RestorePipCache, given, logging, failFast, dir, teardown, post,
     ScriptType
<1>2. CASE SetupFails
  BY <1>2, <1>t DEF SetupFails, given, logging, failFast, env, dir, teardown, post,
     ScriptType
<1>3. CASE SetupPasses
  BY <1>3, <1>t DEF SetupPasses, given, failFast, env, dir, teardown, post, ScriptType
<1>4. CASE StartWatcher
  BY <1>4, <1>t DEF StartWatcher, given, logging, failFast, env, dir, teardown, post,
     ScriptType
<1>5. CASE Export
  BY <1>5, <1>t DEF Export, given, logging, failFast, dir, teardown, post, ScriptType
<1>6. CASE ExportFails
  BY <1>6, <1>t DEF ExportFails, given, failFast, dir, teardown, post, ScriptType
<1>7. CASE PersistSettings
  BY <1>7, <1>t DEF PersistSettings, given, logging, failFast, dir, teardown, post,
     ScriptType
<1>8. CASE JobEnds
  BY <1>8, <1>t DEF JobEnds, given, logging, failFast, env, dir, teardown, post,
     ScriptType
<1>9. CASE CheckBoundary
  BY <1>9, <1>t DEF CheckBoundary, given, logging, failFast, env, dir, post,
     ScriptType
<1>10. CASE StopWatcher
  BY <1>10, <1>t DEF StopWatcher, given, logging, env, dir, teardown, post, ScriptType
<1>11. CASE StopProxy
  BY <1>11, <1>t DEF StopProxy, Stop, given, failFast, env, dir, teardown, post,
     ScriptType
<1>12. CASE StopDns
  BY <1>12, <1>t DEF StopDns, Stop, given, failFast, env, dir, post, ScriptType
<1>13. CASE MergeConntrack
  BY <1>13, <1>t DEF MergeConntrack, given, failFast, env, dir, teardown, post,
     ScriptType
<1>14. CASE AttachEvents
  BY <1>14, <1>t DEF AttachEvents, given, failFast, env, dir, teardown, post,
     ScriptType
<1>15. CASE ClearReports
  BY <1>15, <1>t DEF ClearReports, Abort, given, logging, failFast, env, dir, post,
     ScriptType
<1>16. CASE GenerateReport
  BY <1>16, <1>t DEF GenerateReport, given, logging, failFast, env, post, ScriptType
<1>17. CASE CheckHealth
  BY <1>17, <1>t DEF CheckHealth, given, logging, failFast, env, teardown, post,
     ScriptType
<1>18. CASE WriteSummary
  BY <1>18, <1>t DEF WriteSummary, Abort, given, logging, failFast, env, dir, post,
     ScriptType
<1>19. CASE SetOutputs
  BY <1>19, <1>t DEF SetOutputs, Abort, given, logging, failFast, env, dir, ScriptType
<1>20. CASE TeardownExits
  BY <1>20, <1>t DEF TeardownExits, given, logging, failFast, env, dir, post,
     ScriptType
<1>21. CASE Decide
  BY <1>21, <1>t DEF Decide, given, logging, failFast, env, dir, teardown, ScriptType
<1>22. CASE SavePipCache
  BY <1>22, <1>t DEF SavePipCache, given, logging, failFast, env, dir, teardown,
     ScriptType
<1>23. CASE UploadReport
  BY <1>23, <1>t DEF UploadReport, given, logging, failFast, env, dir, teardown,
     ScriptType
<1>24. CASE Exit
  BY <1>24, <1>t DEF Exit, given, logging, failFast, env, dir, teardown, ScriptType
<1>25. ASSUME NEW w \in Writers, NEW kind \in Verdicts, BeginRecord(w, kind)
       PROVE  ScriptType'
  BY <1>25, <1>t DEF BeginRecord, given, failFast, env, dir, teardown, post,
     ScriptType
<1>26. CASE FinishRecord
  BY <1>26, <1>t DEF FinishRecord, given, failFast, env, dir, teardown, post,
     ScriptType
<1>27. ASSUME NEW line \in JobLines, Scribble(line) PROVE ScriptType'
  BY <1>27, <1>t DEF Scribble, given, failFast, env, dir, teardown, post, ScriptType
<1>28. CASE Tamper
  BY <1>28, <1>t DEF Tamper, given, env, dir, teardown, post, ScriptType
<1>29. CASE Watch
  BY <1>29, <1>t DEF Watch, given, logging, env, dir, teardown, post, ScriptType
<1>30. CASE UNCHANGED vars
  BY <1>30, <1>t DEF vars, given, logging, failFast, env, dir, teardown, post,
     ScriptType
<1> QED
  BY <1>1, <1>2, <1>3, <1>4, <1>5, <1>6, <1>7, <1>8, <1>9, <1>10, <1>11, <1>12,
     <1>13, <1>14, <1>15, <1>16, <1>17, <1>18, <1>19, <1>20, <1>21, <1>22, <1>23,
     <1>24, <1>25, <1>26, <1>27, <1>28, <1>29, <1>30 DEF Next, Main, Teardown, Post

LEMMA NextLog ==
  TypeOK /\ [Next]_vars => LogType'
<1> SUFFICES ASSUME TypeOK, [Next]_vars
             PROVE  LogType'
  OBVIOUS
<1>t. LogType
  BY TypeParts
<1>l. /\ {"torn", "half", "garbage", "passed"} \subseteq Lines
      /\ Verdicts \subseteq Lines /\ JobLines \subseteq Lines
  BY DEF Lines, Verdicts, JobLines
<1>c. Canary \in {"true", "warn", "false"}
  BY TypeParts, InputTyped
<1>1. CASE RestorePipCache
  BY <1>1, <1>t DEF RestorePipCache, given, logging, failFast, dir, teardown, post,
     LogType
<1>2. CASE SetupFails
  BY <1>2, <1>t DEF SetupFails, given, logging, failFast, env, dir, teardown, post,
     LogType
<1>3. CASE SetupPasses
  <2>1. log' \in {<<>>, log}
    BY <1>3, <1>c DEF SetupPasses, CanaryLogs
  <2>2. log' \in Seq(Lines)
    BY <1>t, <2>1, EmptySeq DEF LogType
  <2>3. writers' \subseteq Writers
    BY <1>3 DEF SetupPasses, Writers
  <2> QED
    BY <1>3, <1>t, <2>2, <2>3 DEF SetupPasses, given, failFast, env, dir, teardown,
       post, LogType
<1>4. CASE StartWatcher
  BY <1>4, <1>t DEF StartWatcher, given, logging, failFast, env, dir, teardown, post,
     LogType
<1>5. CASE Export
  BY <1>5, <1>t DEF Export, given, logging, failFast, dir, teardown, post, LogType
<1>6. CASE ExportFails
  <2>1. log' = log \/ log' = Ended("torn")
    BY <1>6 DEF ExportFails, Ended
  <2>2. log' \in Seq(Lines)
    BY <1>l, <1>t, <2>1, EndedFacts DEF LogType
  <2> QED
    BY <1>6, <1>t, <2>2 DEF ExportFails, given, failFast, dir, teardown, post, LogType
<1>7. CASE PersistSettings
  BY <1>7, <1>t DEF PersistSettings, given, logging, failFast, dir, teardown, post,
     LogType
<1>8. CASE JobEnds
  BY <1>8, <1>t DEF JobEnds, given, logging, failFast, env, dir, teardown, post,
     LogType
<1>9. CASE CheckBoundary
  BY <1>9, <1>t DEF CheckBoundary, given, logging, failFast, env, dir, post, LogType
<1>10. CASE StopWatcher
  BY <1>10, <1>t DEF StopWatcher, given, logging, env, dir, teardown, post, LogType
<1>11. CASE StopProxy
  <2>1. log' = log \/ log' = Ended("torn")
    BY <1>11 DEF StopProxy, Stop
  <2>2. log' \in Seq(Lines)
    BY <1>l, <1>t, <2>1, EndedFacts DEF LogType
  <2> QED
    BY <1>11, <1>t, <2>2 DEF StopProxy, Stop, given, failFast, env, dir, teardown,
       post, LogType
<1>12. CASE StopDns
  <2>1. log' = log \/ log' = Ended("torn")
    BY <1>12 DEF StopDns, Stop
  <2>2. log' \in Seq(Lines)
    BY <1>l, <1>t, <2>1, EndedFacts DEF LogType
  <2> QED
    BY <1>12, <1>t, <2>2 DEF StopDns, Stop, given, failFast, env, dir, post, LogType
<1>13. CASE MergeConntrack
  <2>1. log' = log \/ log' = Ended("garbage") \/ log' = Append(log, "passed")
    BY <1>13 DEF MergeConntrack
  <2>2. log' \in Seq(Lines)
    BY <1>l, <1>t, <2>1, EndedFacts, AppendedFacts DEF LogType
  <2> QED
    BY <1>13, <1>t, <2>2 DEF MergeConntrack, given, failFast, env, dir, teardown,
       post, LogType
<1>14. CASE AttachEvents
  <2>1. Parsed \in Seq(Lines)
    BY <1>t, ParsedKeeps DEF LogType
  <2>2. CASE UNCHANGED log
    BY <1>14, <1>t, <2>2 DEF AttachEvents, given, failFast, env, dir, teardown, post,
       LogType
  <2>3. CASE log' = Parsed
    BY <1>14, <1>t, <2>1, <2>3 DEF AttachEvents, given, failFast, env, dir, teardown,
       post, LogType
  <2>4. ASSUME NEW n \in 0..(Len(Parsed) - 1), log' = SubSeq(Parsed, 1, n)
        PROVE  LogType'
    <3>1. n \in Nat /\ Len(Parsed) \in Nat
      BY <2>1, LenProperties
    <3>2. \A i \in 1..n : Parsed[i] \in Lines
      BY <2>1, <3>1, ElementOfSeq
    <3>3. SubSeq(Parsed, 1, n) \in Seq(Lines)
      BY <3>1, <3>2, SubSeqProperties
    <3> QED
      BY <1>14, <1>t, <2>4, <3>3 DEF AttachEvents, given, failFast, env, dir,
         teardown, post, LogType
  <2> QED
    BY <1>14, <2>2, <2>3, <2>4 DEF AttachEvents
<1>15. CASE ClearReports
  BY <1>15, <1>t DEF ClearReports, Abort, given, logging, failFast, env, dir, post,
     LogType
<1>16. CASE GenerateReport
  BY <1>16, <1>t DEF GenerateReport, given, logging, failFast, env, post, LogType
<1>17. CASE CheckHealth
  BY <1>17, <1>t DEF CheckHealth, given, logging, failFast, env, teardown, post,
     LogType
<1>18. CASE WriteSummary
  BY <1>18, <1>t DEF WriteSummary, Abort, given, logging, failFast, env, dir, post,
     LogType
<1>19. CASE SetOutputs
  BY <1>19, <1>t DEF SetOutputs, Abort, given, logging, failFast, env, dir, LogType
<1>20. CASE TeardownExits
  BY <1>20, <1>t DEF TeardownExits, given, logging, failFast, env, dir, post, LogType
<1>21. CASE Decide
  BY <1>21, <1>t DEF Decide, given, logging, failFast, env, dir, teardown, LogType
<1>22. CASE SavePipCache
  BY <1>22, <1>t DEF SavePipCache, given, logging, failFast, env, dir, teardown,
     LogType
<1>23. CASE UploadReport
  BY <1>23, <1>t DEF UploadReport, given, logging, failFast, env, dir, teardown,
     LogType
<1>24. CASE Exit
  BY <1>24, <1>t DEF Exit, given, logging, failFast, env, dir, teardown, LogType
<1>25. ASSUME NEW w \in Writers, NEW kind \in Verdicts, BeginRecord(w, kind)
       PROVE  LogType'
  <2>1. log' = log \/ log' = Append(log, "half")
    BY <1>25 DEF BeginRecord
  <2>2. log' \in Seq(Lines)
    BY <1>l, <1>t, <2>1, AppendedFacts DEF LogType
  <2> QED
    BY <1>25, <1>t, <2>2 DEF BeginRecord, given, failFast, env, dir, teardown, post,
       LogType
<1>26. CASE FinishRecord
  <2>1. writing[2] \in Verdicts
    BY <1>26, <1>t DEF FinishRecord, LogType
  <2>2. log' = Ended("garbage") \/ log' = Ended(writing[2])
    BY <1>26 DEF FinishRecord
  <2>3. log' \in Seq(Lines)
    BY <1>l, <1>t, <2>1, <2>2, EndedFacts DEF LogType
  <2>4. refused' \in BOOLEAN
    BY <1>26, Zenon DEF FinishRecord
  <2> QED
    BY <1>26, <1>t, <2>3, <2>4 DEF FinishRecord, given, failFast, env, dir, teardown,
       post, LogType
<1>27. ASSUME NEW line \in JobLines, Scribble(line) PROVE LogType'
  <2>2. log' \in Seq(Lines)
    BY <1>27, <1>l, <1>t, AppendedFacts DEF LogType, Scribble
  <2> QED
    BY <1>27, <1>t, <2>2 DEF Scribble, given, failFast, env, dir, teardown, post,
       LogType
<1>28. CASE Tamper
  <2>1. log' \in Seq(Lines)
    BY <1>28, EditsFacts DEF Tamper
  <2>2. tampered' \in BOOLEAN
    BY <1>28, Zenon DEF Tamper
  <2> QED
    BY <1>28, <1>t, <2>1, <2>2 DEF Tamper, given, env, dir, teardown, post,
       LogType
<1>29. CASE Watch
  BY <1>29, <1>t DEF Watch, given, logging, env, dir, teardown, post, LogType
<1>30. CASE UNCHANGED vars
  BY <1>30, <1>t DEF vars, given, logging, failFast, env, dir, teardown, post, LogType
<1> QED
  BY <1>1, <1>2, <1>3, <1>4, <1>5, <1>6, <1>7, <1>8, <1>9, <1>10, <1>11, <1>12,
     <1>13, <1>14, <1>15, <1>16, <1>17, <1>18, <1>19, <1>20, <1>21, <1>22, <1>23,
     <1>24, <1>25, <1>26, <1>27, <1>28, <1>29, <1>30 DEF Next, Main, Teardown, Post

LEMMA NextWatch ==
  TypeOK /\ [Next]_vars => WatchType'
<1> SUFFICES ASSUME TypeOK, [Next]_vars
             PROVE  WatchType'
  OBVIOUS
<1>t. WatchType
  BY TypeParts
<1>l. LogType
  BY TypeParts
<1>1. CASE RestorePipCache
  BY <1>1, <1>t DEF RestorePipCache, given, logging, failFast, dir, teardown, post,
     WatchType
<1>2. CASE SetupFails
  BY <1>2, <1>t DEF SetupFails, given, logging, failFast, env, dir, teardown, post,
     WatchType
<1>3. CASE SetupPasses
  BY <1>3, <1>t DEF SetupPasses, given, failFast, env, dir, teardown, post, WatchType
<1>4. CASE StartWatcher
  BY <1>4, <1>t DEF StartWatcher, given, logging, failFast, env, dir, teardown, post,
     WatchType
<1>5. CASE Export
  BY <1>5, <1>t DEF Export, given, logging, failFast, dir, teardown, post, WatchType
<1>6. CASE ExportFails
  BY <1>6, <1>t DEF ExportFails, given, failFast, dir, teardown, post, WatchType
<1>7. CASE PersistSettings
  BY <1>7, <1>t DEF PersistSettings, given, logging, failFast, dir, teardown, post,
     WatchType
<1>8. CASE JobEnds
  BY <1>8, <1>t DEF JobEnds, given, logging, failFast, env, dir, teardown, post,
     WatchType
<1>9. CASE CheckBoundary
  BY <1>9, <1>t DEF CheckBoundary, given, logging, failFast, env, dir, post, WatchType
<1>10. CASE StopWatcher
  BY <1>10, <1>t DEF StopWatcher, given, logging, env, dir, teardown, post, WatchType
<1>11. CASE StopProxy
  BY <1>11, <1>t DEF StopProxy, Stop, given, failFast, env, dir, teardown, post,
     WatchType
<1>12. CASE StopDns
  BY <1>12, <1>t DEF StopDns, Stop, given, failFast, env, dir, post, WatchType
<1>13. CASE MergeConntrack
  BY <1>13, <1>t DEF MergeConntrack, given, failFast, env, dir, teardown, post,
     WatchType
<1>14. CASE AttachEvents
  BY <1>14, <1>t DEF AttachEvents, given, failFast, env, dir, teardown, post,
     WatchType
<1>15. CASE ClearReports
  BY <1>15, <1>t DEF ClearReports, Abort, given, logging, failFast, env, dir, post,
     WatchType
<1>16. CASE GenerateReport
  BY <1>16, <1>t DEF GenerateReport, given, logging, failFast, env, post, WatchType
<1>17. CASE CheckHealth
  BY <1>17, <1>t DEF CheckHealth, given, logging, failFast, env, teardown, post,
     WatchType
<1>18. CASE WriteSummary
  BY <1>18, <1>t DEF WriteSummary, Abort, given, logging, failFast, env, dir, post,
     WatchType
<1>19. CASE SetOutputs
  BY <1>19, <1>t DEF SetOutputs, Abort, given, logging, failFast, env, dir, WatchType
<1>20. CASE TeardownExits
  BY <1>20, <1>t DEF TeardownExits, given, logging, failFast, env, dir, post,
     WatchType
<1>21. CASE Decide
  BY <1>21, <1>t DEF Decide, given, logging, failFast, env, dir, teardown, WatchType
<1>22. CASE SavePipCache
  BY <1>22, <1>t DEF SavePipCache, given, logging, failFast, env, dir, teardown,
     WatchType
<1>23. CASE UploadReport
  BY <1>23, <1>t DEF UploadReport, given, logging, failFast, env, dir, teardown,
     WatchType
<1>24. CASE Exit
  BY <1>24, <1>t DEF Exit, given, logging, failFast, env, dir, teardown, WatchType
<1>25. ASSUME NEW w \in Writers, NEW kind \in Verdicts, BeginRecord(w, kind)
       PROVE  WatchType'
  BY <1>25, <1>t DEF BeginRecord, given, failFast, env, dir, teardown, post, WatchType
<1>26. CASE FinishRecord
  BY <1>26, <1>t DEF FinishRecord, given, failFast, env, dir, teardown, post,
     WatchType
<1>27. ASSUME NEW line \in JobLines, Scribble(line) PROVE WatchType'
  BY <1>27, <1>t DEF Scribble, given, failFast, env, dir, teardown, post, WatchType
<1>28. CASE Tamper
  <2>1. seen' \in 0..MaxLines \/ seen' = seen
    BY <1>28 DEF Tamper
  <2>2. seen' \in Nat
    BY <1>t, <2>1, BoundsAssumption DEF WatchType
  <2> QED
    BY <1>28, <1>t, <2>2 DEF Tamper, given, env, dir, teardown, post, WatchType
<1>29. CASE Watch
  <2>1. missed' \in BOOLEAN /\ cancelled' \in BOOLEAN
    BY <1>29, Zenon DEF Watch
  <2>2. seen' \in Nat
    BY <1>29, <1>l, LenProperties DEF Watch, LogType
  <2> QED
    BY <1>29, <1>t, <2>1, <2>2 DEF Watch, given, logging, env, dir, teardown, post,
       WatchType
<1>30. CASE UNCHANGED vars
  BY <1>30, <1>t DEF vars, given, logging, failFast, env, dir, teardown, post,
     WatchType
<1> QED
  BY <1>1, <1>2, <1>3, <1>4, <1>5, <1>6, <1>7, <1>8, <1>9, <1>10, <1>11, <1>12,
     <1>13, <1>14, <1>15, <1>16, <1>17, <1>18, <1>19, <1>20, <1>21, <1>22, <1>23,
     <1>24, <1>25, <1>26, <1>27, <1>28, <1>29, <1>30 DEF Next, Main, Teardown, Post

LEMMA NextEnv ==
  TypeOK /\ ExportInv /\ [Next]_vars => EnvType'
<1> SUFFICES ASSUME TypeOK, ExportInv, [Next]_vars
             PROVE  EnvType'
  OBVIOUS
<1>t. EnvType
  BY TypeParts
<1>e. pc = "export" => Mode \in Modes
  BY DEF ExportInv
<1>1. CASE RestorePipCache
  <2>1. saveKey' \in BOOLEAN
    BY <1>1, Zenon DEF RestorePipCache
  <2> QED
    BY <1>1, <1>t, <2>1 DEF RestorePipCache, given, logging, failFast, dir, teardown,
       post, EnvType
<1>2. CASE SetupFails
  BY <1>2, <1>t DEF SetupFails, given, logging, failFast, env, dir, teardown, post,
     EnvType
<1>3. CASE SetupPasses
  BY <1>3, <1>t DEF SetupPasses, given, failFast, env, dir, teardown, post, EnvType
<1>4. CASE StartWatcher
  BY <1>4, <1>t DEF StartWatcher, given, logging, failFast, env, dir, teardown, post,
     EnvType
<1>5. CASE Export
  <2>1. (watcher = "on") \in BOOLEAN
    BY Zenon
  <2>2. exported' \in [mode : {""} \cup Modes, failOn : {"", inputs.failOn}, watcher : BOOLEAN]
    BY <1>5, <1>e, <2>1 DEF Export, ExportInv, Exported
  <2> QED
    BY <1>5, <1>t, <2>2 DEF Export, given, logging, failFast, dir, teardown, post,
       EnvType
<1>6. CASE ExportFails
  <2>a. \A m \in {""} \cup Modes, f \in {"", inputs.failOn}, on \in BOOLEAN :
          Exported(m, f, on) \in [mode : {""} \cup Modes, failOn : {"", inputs.failOn},
                                    watcher : BOOLEAN]
    BY DEF Exported
  <2>b. Mode \in Modes
    BY <1>6, <1>e DEF ExportFails
  <2>c. \E m \in {"", Mode}, f \in {"", inputs.failOn}, on \in BOOLEAN :
          exported' = Exported(m, f, on)
    <3>1. exported' \in {Exported("", "", FALSE), Exported(Mode, "", FALSE),
                        Exported(Mode, inputs.failOn, FALSE),
                        Exported(Mode, inputs.failOn, watcher = "on")}
      BY <1>6 DEF ExportFails, Unset
    <3>2. (watcher = "on") \in BOOLEAN /\ FALSE \in BOOLEAN
      BY Zenon
    <3> QED
      BY <3>1, <3>2, Zenon
  <2>1. exported' \in [mode : {""} \cup Modes, failOn : {"", inputs.failOn}, watcher : BOOLEAN]
    <3>1. {"", Mode} \subseteq {""} \cup Modes
      BY <2>b
    <3>2. \E m \in {""} \cup Modes, f \in {"", inputs.failOn}, on \in BOOLEAN :
            exported' = Exported(m, f, on)
      BY <2>c, <3>1, Zenon
    <3> QED
      BY <2>a, <3>2, Zenon
  <2> QED
    BY <1>6, <1>t, <2>1 DEF ExportFails, given, failFast, dir, teardown, post, EnvType
<1>7. CASE PersistSettings
  <2>1. mayUpload' \in BOOLEAN
    BY <1>7, Zenon DEF PersistSettings
  <2> QED
    BY <1>7, <1>t, <2>1 DEF PersistSettings, given, logging, failFast, dir, teardown,
       post, EnvType
<1>8. CASE JobEnds
  BY <1>8, <1>t DEF JobEnds, given, logging, failFast, env, dir, teardown, post,
     EnvType
<1>9. CASE CheckBoundary
  BY <1>9, <1>t DEF CheckBoundary, given, logging, failFast, env, dir, post, EnvType
<1>10. CASE StopWatcher
  BY <1>10, <1>t DEF StopWatcher, given, logging, env, dir, teardown, post, EnvType
<1>11. CASE StopProxy
  BY <1>11, <1>t DEF StopProxy, Stop, given, failFast, env, dir, teardown, post,
     EnvType
<1>12. CASE StopDns
  BY <1>12, <1>t DEF StopDns, Stop, given, failFast, env, dir, post, EnvType
<1>13. CASE MergeConntrack
  BY <1>13, <1>t DEF MergeConntrack, given, failFast, env, dir, teardown, post,
     EnvType
<1>14. CASE AttachEvents
  BY <1>14, <1>t DEF AttachEvents, given, failFast, env, dir, teardown, post, EnvType
<1>15. CASE ClearReports
  BY <1>15, <1>t DEF ClearReports, Abort, given, logging, failFast, env, dir, post,
     EnvType
<1>16. CASE GenerateReport
  BY <1>16, <1>t DEF GenerateReport, given, logging, failFast, env, post, EnvType
<1>17. CASE CheckHealth
  BY <1>17, <1>t DEF CheckHealth, given, logging, failFast, env, teardown, post,
     EnvType
<1>18. CASE WriteSummary
  BY <1>18, <1>t DEF WriteSummary, Abort, given, logging, failFast, env, dir, post,
     EnvType
<1>19. CASE SetOutputs
  BY <1>19, <1>t DEF SetOutputs, Abort, given, logging, failFast, env, dir, EnvType
<1>20. CASE TeardownExits
  BY <1>20, <1>t DEF TeardownExits, given, logging, failFast, env, dir, post, EnvType
<1>21. CASE Decide
  BY <1>21, <1>t DEF Decide, given, logging, failFast, env, dir, teardown, EnvType
<1>22. CASE SavePipCache
  BY <1>22, <1>t DEF SavePipCache, given, logging, failFast, env, dir, teardown,
     EnvType
<1>23. CASE UploadReport
  BY <1>23, <1>t DEF UploadReport, given, logging, failFast, env, dir, teardown,
     EnvType
<1>24. CASE Exit
  BY <1>24, <1>t DEF Exit, given, logging, failFast, env, dir, teardown, EnvType
<1>25. ASSUME NEW w \in Writers, NEW kind \in Verdicts, BeginRecord(w, kind)
       PROVE  EnvType'
  BY <1>25, <1>t DEF BeginRecord, given, failFast, env, dir, teardown, post, EnvType
<1>26. CASE FinishRecord
  BY <1>26, <1>t DEF FinishRecord, given, failFast, env, dir, teardown, post, EnvType
<1>27. ASSUME NEW line \in JobLines, Scribble(line) PROVE EnvType'
  BY <1>27, <1>t DEF Scribble, given, failFast, env, dir, teardown, post, EnvType
<1>28. CASE Tamper
  BY <1>28, <1>t DEF Tamper, given, env, dir, teardown, post, EnvType
<1>29. CASE Watch
  BY <1>29, <1>t DEF Watch, given, logging, env, dir, teardown, post, EnvType
<1>30. CASE UNCHANGED vars
  BY <1>30, <1>t DEF vars, given, logging, failFast, env, dir, teardown, post, EnvType
<1> QED
  BY <1>1, <1>2, <1>3, <1>4, <1>5, <1>6, <1>7, <1>8, <1>9, <1>10, <1>11, <1>12,
     <1>13, <1>14, <1>15, <1>16, <1>17, <1>18, <1>19, <1>20, <1>21, <1>22, <1>23,
     <1>24, <1>25, <1>26, <1>27, <1>28, <1>29, <1>30 DEF Next, Main, Teardown, Post

LEMMA NextDir ==
  TypeOK /\ [Next]_vars => DirType'
<1> SUFFICES ASSUME TypeOK, [Next]_vars
             PROVE  DirType'
  OBVIOUS
<1>t. DirType
  BY TypeParts
<1>b. TeardownType
  BY TypeParts
<1>l. LogType
  BY TypeParts
<1>1. CASE RestorePipCache
  BY <1>1, <1>t DEF RestorePipCache, given, logging, failFast, dir, teardown, post,
     DirType
<1>2. CASE SetupFails
  BY <1>2, <1>t DEF SetupFails, given, logging, failFast, env, dir, teardown, post,
     DirType
<1>3. CASE SetupPasses
  BY <1>3, <1>t DEF SetupPasses, given, failFast, env, dir, teardown, post, DirType
<1>4. CASE StartWatcher
  BY <1>4, <1>t DEF StartWatcher, given, logging, failFast, env, dir, teardown, post,
     DirType
<1>5. CASE Export
  BY <1>5, <1>t DEF Export, given, logging, failFast, dir, teardown, post, DirType
<1>6. CASE ExportFails
  BY <1>6, <1>t DEF ExportFails, given, failFast, dir, teardown, post, DirType
<1>7. CASE PersistSettings
  BY <1>7, <1>t DEF PersistSettings, given, logging, failFast, dir, teardown, post,
     DirType
<1>8. CASE JobEnds
  BY <1>8, <1>t DEF JobEnds, given, logging, failFast, env, dir, teardown, post,
     DirType
<1>9. CASE CheckBoundary
  BY <1>9, <1>t DEF CheckBoundary, given, logging, failFast, env, dir, post, DirType
<1>10. CASE StopWatcher
  BY <1>10, <1>t DEF StopWatcher, given, logging, env, dir, teardown, post, DirType
<1>11. CASE StopProxy
  BY <1>11, <1>t DEF StopProxy, Stop, given, failFast, env, dir, teardown, post,
     DirType
<1>12. CASE StopDns
  BY <1>12, <1>t DEF StopDns, Stop, given, failFast, env, dir, post, DirType
<1>13. CASE MergeConntrack
  BY <1>13, <1>t DEF MergeConntrack, given, failFast, env, dir, teardown, post,
     DirType
<1>14. CASE AttachEvents
  BY <1>14, <1>t DEF AttachEvents, given, failFast, env, dir, teardown, post, DirType
<1>15. CASE ClearReports
  BY <1>15, <1>t DEF ClearReports, Abort, given, logging, failFast, env, dir, post,
     DirType, Absent
<1>16. CASE GenerateReport
  <2>1. CountOf({"blocked"}) \in Nat /\ CountOf(Malformed) \in Nat
    BY <1>l, CountFacts DEF LogType
  <2>2. ReportOf \in [kind : {"absent", "torn", "whole"}, blocked : Nat, malformed : Nat]
    BY <2>1 DEF ReportOf, Whole
  <2>3. report' \in {report, Torn, ReportOf}
    BY <1>16 DEF GenerateReport
  <2> HIDE DEF ReportOf
  <2>4. report' \in [kind : {"absent", "torn", "whole"}, blocked : Nat, malformed : Nat]
    BY <1>t, <2>2, <2>3 DEF DirType, Torn
  <2> QED
    BY <1>16, <1>t, <2>4 DEF GenerateReport, given, logging, failFast, env, post,
       DirType
<1>17. CASE CheckHealth
  <2>1. health' \in {health, boundary}
    BY <1>17 DEF CheckHealth
  <2> QED
    BY <1>17, <1>t, <1>b, <2>1 DEF CheckHealth, given, logging, failFast, env,
       teardown, post, DirType, TeardownType
<1>18. CASE WriteSummary
  BY <1>18, <1>t DEF WriteSummary, Abort, given, logging, failFast, env, dir, post,
     DirType
<1>19. CASE SetOutputs
  BY <1>19, <1>t DEF SetOutputs, Abort, given, logging, failFast, env, dir, DirType
<1>20. CASE TeardownExits
  BY <1>20, <1>t DEF TeardownExits, given, logging, failFast, env, dir, post, DirType
<1>21. CASE Decide
  BY <1>21, <1>t DEF Decide, given, logging, failFast, env, dir, teardown, DirType
<1>22. CASE SavePipCache
  BY <1>22, <1>t DEF SavePipCache, given, logging, failFast, env, dir, teardown,
     DirType
<1>23. CASE UploadReport
  BY <1>23, <1>t DEF UploadReport, given, logging, failFast, env, dir, teardown,
     DirType
<1>24. CASE Exit
  BY <1>24, <1>t DEF Exit, given, logging, failFast, env, dir, teardown, DirType
<1>25. ASSUME NEW w \in Writers, NEW kind \in Verdicts, BeginRecord(w, kind)
       PROVE  DirType'
  BY <1>25, <1>t DEF BeginRecord, given, failFast, env, dir, teardown, post, DirType
<1>26. CASE FinishRecord
  BY <1>26, <1>t DEF FinishRecord, given, failFast, env, dir, teardown, post, DirType
<1>27. ASSUME NEW line \in JobLines, Scribble(line) PROVE DirType'
  BY <1>27, <1>t DEF Scribble, given, failFast, env, dir, teardown, post, DirType
<1>28. CASE Tamper
  BY <1>28, <1>t DEF Tamper, given, env, dir, teardown, post, DirType
<1>29. CASE Watch
  BY <1>29, <1>t DEF Watch, given, logging, env, dir, teardown, post, DirType
<1>30. CASE UNCHANGED vars
  BY <1>30, <1>t DEF vars, given, logging, failFast, env, dir, teardown, post, DirType
<1> QED
  BY <1>1, <1>2, <1>3, <1>4, <1>5, <1>6, <1>7, <1>8, <1>9, <1>10, <1>11, <1>12,
     <1>13, <1>14, <1>15, <1>16, <1>17, <1>18, <1>19, <1>20, <1>21, <1>22, <1>23,
     <1>24, <1>25, <1>26, <1>27, <1>28, <1>29, <1>30 DEF Next, Main, Teardown, Post

LEMMA NextTeardown ==
  TypeOK /\ [Next]_vars => TeardownType'
<1> SUFFICES ASSUME TypeOK, [Next]_vars
             PROVE  TeardownType'
  OBVIOUS
<1>t. TeardownType
  BY TypeParts
<1>1. CASE RestorePipCache
  BY <1>1, <1>t DEF RestorePipCache, given, logging, failFast, dir, teardown, post,
     TeardownType
<1>2. CASE SetupFails
  BY <1>2, <1>t DEF SetupFails, given, logging, failFast, env, dir, teardown, post,
     TeardownType
<1>3. CASE SetupPasses
  BY <1>3, <1>t DEF SetupPasses, given, failFast, env, dir, teardown, post,
     TeardownType
<1>4. CASE StartWatcher
  BY <1>4, <1>t DEF StartWatcher, given, logging, failFast, env, dir, teardown, post,
     TeardownType
<1>5. CASE Export
  BY <1>5, <1>t DEF Export, given, logging, failFast, dir, teardown, post,
     TeardownType
<1>6. CASE ExportFails
  BY <1>6, <1>t DEF ExportFails, given, failFast, dir, teardown, post, TeardownType
<1>7. CASE PersistSettings
  BY <1>7, <1>t DEF PersistSettings, given, logging, failFast, dir, teardown, post,
     TeardownType
<1>8. CASE JobEnds
  BY <1>8, <1>t DEF JobEnds, given, logging, failFast, env, dir, teardown, post,
     TeardownType
<1>9. CASE CheckBoundary
  BY <1>9, <1>t DEF CheckBoundary, given, logging, failFast, env, dir, post,
     TeardownType
<1>10. CASE StopWatcher
  BY <1>10, <1>t DEF StopWatcher, given, logging, env, dir, teardown, post,
     TeardownType
<1>11. CASE StopProxy
  BY <1>11, <1>t DEF StopProxy, Stop, given, failFast, env, dir, teardown, post,
     TeardownType
<1>12. CASE StopDns
  <2>1. garbled' \in BOOLEAN
    BY <1>12, Zenon DEF StopDns
  <2> QED
    BY <1>12, <1>t, <2>1 DEF StopDns, Stop, given, failFast, env, dir, post,
       TeardownType
<1>13. CASE MergeConntrack
  BY <1>13, <1>t DEF MergeConntrack, given, failFast, env, dir, teardown, post,
     TeardownType
<1>14. CASE AttachEvents
  BY <1>14, <1>t DEF AttachEvents, given, failFast, env, dir, teardown, post,
     TeardownType
<1>15. CASE ClearReports
  BY <1>15, <1>t DEF ClearReports, Abort, given, logging, failFast, env, dir, post,
     TeardownType
<1>16. CASE GenerateReport
  <2>1. reportOk' \in BOOLEAN
    BY <1>16, Zenon DEF GenerateReport
  <2> QED
    BY <1>16, <1>t, <2>1 DEF GenerateReport, given, logging, failFast, env, post,
       TeardownType
<1>17. CASE CheckHealth
  BY <1>17, <1>t DEF CheckHealth, given, logging, failFast, env, teardown, post,
     TeardownType
<1>18. CASE WriteSummary
  BY <1>18, <1>t DEF WriteSummary, Abort, given, logging, failFast, env, dir, post,
     TeardownType
<1>19. CASE SetOutputs
  <2>1. reportOk' \in BOOLEAN
    <3>1. reportOk' = reportOk \/ reportOk' = (reportOk /\ report.kind # "absent")
      BY <1>19 DEF SetOutputs
    <3> QED
      BY <1>t, <3>1, Zenon DEF TeardownType
  <2> QED
    BY <1>19, <1>t, <2>1 DEF SetOutputs, Abort, given, logging, failFast, env, dir,
       TeardownType
<1>20. CASE TeardownExits
  BY <1>20, <1>t DEF TeardownExits, given, logging, failFast, env, dir, post,
     TeardownType
<1>21. CASE Decide
  BY <1>21, <1>t DEF Decide, given, logging, failFast, env, dir, teardown,
     TeardownType
<1>22. CASE SavePipCache
  BY <1>22, <1>t DEF SavePipCache, given, logging, failFast, env, dir, teardown,
     TeardownType
<1>23. CASE UploadReport
  BY <1>23, <1>t DEF UploadReport, given, logging, failFast, env, dir, teardown,
     TeardownType
<1>24. CASE Exit
  BY <1>24, <1>t DEF Exit, given, logging, failFast, env, dir, teardown, TeardownType
<1>25. ASSUME NEW w \in Writers, NEW kind \in Verdicts, BeginRecord(w, kind)
       PROVE  TeardownType'
  BY <1>25, <1>t DEF BeginRecord, given, failFast, env, dir, teardown, post,
     TeardownType
<1>26. CASE FinishRecord
  BY <1>26, <1>t DEF FinishRecord, given, failFast, env, dir, teardown, post,
     TeardownType
<1>27. ASSUME NEW line \in JobLines, Scribble(line) PROVE TeardownType'
  BY <1>27, <1>t DEF Scribble, given, failFast, env, dir, teardown, post, TeardownType
<1>28. CASE Tamper
  BY <1>28, <1>t DEF Tamper, given, env, dir, teardown, post, TeardownType
<1>29. CASE Watch
  BY <1>29, <1>t DEF Watch, given, logging, env, dir, teardown, post, TeardownType
<1>30. CASE UNCHANGED vars
  BY <1>30, <1>t DEF vars, given, logging, failFast, env, dir, teardown, post,
     TeardownType
<1> QED
  BY <1>1, <1>2, <1>3, <1>4, <1>5, <1>6, <1>7, <1>8, <1>9, <1>10, <1>11, <1>12,
     <1>13, <1>14, <1>15, <1>16, <1>17, <1>18, <1>19, <1>20, <1>21, <1>22, <1>23,
     <1>24, <1>25, <1>26, <1>27, <1>28, <1>29, <1>30 DEF Next, Main, Teardown, Post

LEMMA NextPost ==
  TypeOK /\ [Next]_vars => PostType'
<1> SUFFICES ASSUME TypeOK, [Next]_vars
             PROVE  PostType'
  OBVIOUS
<1>t. PostType
  BY TypeParts
<1>o. origin \in {"own", "stale"}
  BY TypeParts DEF DirType
<1>1. CASE RestorePipCache
  BY <1>1, <1>t DEF RestorePipCache, given, logging, failFast, dir, teardown, post,
     PostType
<1>2. CASE SetupFails
  BY <1>2, <1>t DEF SetupFails, given, logging, failFast, env, dir, teardown, post,
     PostType
<1>3. CASE SetupPasses
  BY <1>3, <1>t DEF SetupPasses, given, failFast, env, dir, teardown, post, PostType
<1>4. CASE StartWatcher
  BY <1>4, <1>t DEF StartWatcher, given, logging, failFast, env, dir, teardown, post,
     PostType
<1>5. CASE Export
  BY <1>5, <1>t DEF Export, given, logging, failFast, dir, teardown, post, PostType
<1>6. CASE ExportFails
  BY <1>6, <1>t DEF ExportFails, given, failFast, dir, teardown, post, PostType
<1>7. CASE PersistSettings
  BY <1>7, <1>t DEF PersistSettings, given, logging, failFast, dir, teardown, post,
     PostType
<1>8. CASE JobEnds
  BY <1>8, <1>t DEF JobEnds, given, logging, failFast, env, dir, teardown, post,
     PostType
<1>9. CASE CheckBoundary
  BY <1>9, <1>t DEF CheckBoundary, given, logging, failFast, env, dir, post, PostType
<1>10. CASE StopWatcher
  BY <1>10, <1>t DEF StopWatcher, given, logging, env, dir, teardown, post, PostType
<1>11. CASE StopProxy
  BY <1>11, <1>t DEF StopProxy, Stop, given, failFast, env, dir, teardown, post,
     PostType
<1>12. CASE StopDns
  BY <1>12, <1>t DEF StopDns, Stop, given, failFast, env, dir, post, PostType
<1>13. CASE MergeConntrack
  BY <1>13, <1>t DEF MergeConntrack, given, failFast, env, dir, teardown, post,
     PostType
<1>14. CASE AttachEvents
  BY <1>14, <1>t DEF AttachEvents, given, failFast, env, dir, teardown, post, PostType
<1>15. CASE ClearReports
  BY <1>15, <1>t DEF ClearReports, Abort, given, logging, failFast, env, dir, post,
     PostType
<1>16. CASE GenerateReport
  BY <1>16, <1>t DEF GenerateReport, given, logging, failFast, env, post, PostType
<1>17. CASE CheckHealth
  BY <1>17, <1>t DEF CheckHealth, given, logging, failFast, env, teardown, post,
     PostType
<1>18. CASE WriteSummary
  BY <1>18, <1>t DEF WriteSummary, Abort, given, logging, failFast, env, dir, post,
     PostType
<1>19. CASE SetOutputs
  BY <1>19, <1>t DEF SetOutputs, Abort, given, logging, failFast, env, dir, PostType
<1>20. CASE TeardownExits
  BY <1>20, <1>t DEF TeardownExits, given, logging, failFast, env, dir, post, PostType
<1>21. CASE Decide
  <2>1. violation' \in BOOLEAN
    <3>1. violation' = violation \/ violation' = (Failing /\ ~OptsOut)
      BY <1>21 DEF Decide
    <3> QED
      BY <1>t, <3>1, Zenon DEF PostType
  <2> QED
    BY <1>21, <1>t, <2>1 DEF Decide, given, logging, failFast, env, dir, teardown,
       PostType
<1>22. CASE SavePipCache
  <2>1. saved' \in BOOLEAN
    BY <1>22, Zenon DEF SavePipCache
  <2> QED
    BY <1>22, <1>t, <2>1 DEF SavePipCache, given, logging, failFast, env, dir,
       teardown, PostType
<1>23. CASE UploadReport
  <2>1. uploaded' \in {origin, "nothing"}
    BY <1>23 DEF UploadReport
  <2> QED
    BY <1>23, <1>t, <1>o, <2>1 DEF UploadReport, given, logging, failFast, env, dir,
       teardown, PostType
<1>24. CASE Exit
  BY <1>24, <1>t DEF Exit, given, logging, failFast, env, dir, teardown, PostType
<1>25. ASSUME NEW w \in Writers, NEW kind \in Verdicts, BeginRecord(w, kind)
       PROVE  PostType'
  BY <1>25, <1>t DEF BeginRecord, given, failFast, env, dir, teardown, post, PostType
<1>26. CASE FinishRecord
  BY <1>26, <1>t DEF FinishRecord, given, failFast, env, dir, teardown, post, PostType
<1>27. ASSUME NEW line \in JobLines, Scribble(line) PROVE PostType'
  BY <1>27, <1>t DEF Scribble, given, failFast, env, dir, teardown, post, PostType
<1>28. CASE Tamper
  BY <1>28, <1>t DEF Tamper, given, env, dir, teardown, post, PostType
<1>29. CASE Watch
  BY <1>29, <1>t DEF Watch, given, logging, env, dir, teardown, post, PostType
<1>30. CASE UNCHANGED vars
  BY <1>30, <1>t DEF vars, given, logging, failFast, env, dir, teardown, post,
     PostType
<1> QED
  BY <1>1, <1>2, <1>3, <1>4, <1>5, <1>6, <1>7, <1>8, <1>9, <1>10, <1>11, <1>12,
     <1>13, <1>14, <1>15, <1>16, <1>17, <1>18, <1>19, <1>20, <1>21, <1>22, <1>23,
     <1>24, <1>25, <1>26, <1>27, <1>28, <1>29, <1>30 DEF Next, Main, Teardown, Post

LEMMA NextType ==
  TypeOK /\ ExportInv /\ [Next]_vars => TypeOK'
<1> SUFFICES ASSUME TypeOK, ExportInv, [Next]_vars PROVE TypeOK'
  OBVIOUS
<1>1. /\ ScriptType' /\ LogType' /\ WatchType' /\ EnvType'
      /\ DirType' /\ TeardownType' /\ PostType'
  BY NextScript, NextLog, NextWatch, NextEnv, NextDir, NextTeardown, NextPost
<1> QED
  BY <1>1 DEF TypeOK, ScriptType, LogType, WatchType, EnvType, DirType, TeardownType,
     PostType

-----------------------------------------------------------------------------
(* One lemma per group of invariants.                                      *)

LEMMA NextWrite ==
  TypeOK /\ WriteInv /\ [Next]_vars => WriteInv'
<1> SUFFICES ASSUME TypeOK, WriteInv, [Next]_vars
             PROVE  WriteInv'
  OBVIOUS
<1>t. LogType
  BY TypeParts
<1>w. /\ writing # <<>> => /\ writing[1] \in writers
                            /\ log # <<>> /\ log[Len(log)] \in Tornly
      /\ pc \in {"restore", "setup"} => writers = {} /\ ~refused
      /\ pc = "stopDns" => writers \subseteq {"dns"}
      /\ pc \in {"merge", "attribute", "clear", "report", "decide"} \cup Reported \cup Posted
           => writers = {}
  BY DEF WriteInv
<1>1. CASE RestorePipCache
  BY <1>1, <1>t, <1>w DEF RestorePipCache, given, logging, failFast, dir, teardown,
     post, LogType, WriteInv, Posted, Reported
<1>2. CASE SetupFails
  BY <1>2, <1>t, <1>w DEF SetupFails, given, logging, failFast, env, dir, teardown,
     post, LogType, WriteInv, Posted, Reported
<1>3. CASE SetupPasses
  <2>1. writing' = <<>> /\ ~refused'
    BY <1>3, <1>w DEF SetupPasses, given, failFast, env, dir, teardown, post
  <2> QED
    BY <1>3, <1>w, <2>1 DEF SetupPasses, given, failFast, env, dir, teardown, post,
       WriteInv, Posted, Reported
<1>4. CASE StartWatcher
  BY <1>4, <1>t, <1>w DEF StartWatcher, given, logging, failFast, env, dir, teardown,
     post, LogType, WriteInv, Posted, Reported
<1>5. CASE Export
  BY <1>5, <1>t, <1>w DEF Export, given, logging, failFast, dir, teardown, post,
     LogType, WriteInv, Posted, Reported
<1>6. CASE ExportFails
  BY <1>6, <1>t, <1>w DEF ExportFails, given, failFast, dir, teardown, post, LogType,
     WriteInv, Posted, Reported
<1>7. CASE PersistSettings
  BY <1>7, <1>t, <1>w DEF PersistSettings, given, logging, failFast, dir, teardown,
     post, LogType, WriteInv, Posted, Reported
<1>8. CASE JobEnds
  BY <1>8, <1>t, <1>w DEF JobEnds, given, logging, failFast, env, dir, teardown,
     post, LogType, WriteInv, Posted, Reported
<1>9. CASE CheckBoundary
  BY <1>9, <1>t, <1>w DEF CheckBoundary, given, logging, failFast, env, dir, post,
     LogType, WriteInv, Posted, Reported
<1>10. CASE StopWatcher
  BY <1>10, <1>t, <1>w DEF StopWatcher, given, logging, env, dir, teardown, post,
     LogType, WriteInv, Posted, Reported
<1>11. CASE StopProxy
  <2>1. writers' = writers \ {"proxy"}
    BY <1>11 DEF StopProxy, Stop
  <2>2. writing' = <<>> \/ (writing' = writing /\ log' = log
                            /\ (writing # <<>> => writing[1] # "proxy"))
    BY <1>11 DEF StopProxy, Stop
  <2>3. writing' # <<>> => writing'[1] \in writers'
    BY <1>w, <2>1, <2>2
  <2>4. writing' # <<>> => log' # <<>> /\ log'[Len(log')] \in Tornly
    BY <1>w, <2>2
  <2>5. pc' = "stopDns" /\ refused' = refused
    BY <1>11 DEF StopProxy, Stop
  <2>6. pc' = "stopDns" => writers' \subseteq {"dns"}
    BY <1>t, <2>1, <2>5 DEF LogType, Writers
  <2>7. pc' = "merge" => writers' = {}
    BY <1>11, <1>w, <2>1, <2>5 DEF StopProxy
  <2> QED
    BY <2>3, <2>4, <2>5, <2>6, <2>7 DEF WriteInv, Posted, Reported
<1>12. CASE StopDns
  <2>1. writers' = writers \ {"dns"}
    BY <1>12 DEF StopDns, Stop
  <2>2. writing' = <<>> \/ (writing' = writing /\ log' = log
                            /\ (writing # <<>> => writing[1] # "dns"))
    BY <1>12 DEF StopDns, Stop
  <2>3. writing' # <<>> => writing'[1] \in writers'
    BY <1>w, <2>1, <2>2
  <2>4. writing' # <<>> => log' # <<>> /\ log'[Len(log')] \in Tornly
    BY <1>w, <2>2
  <2>5. pc' = "merge" /\ refused' = refused
    BY <1>12 DEF StopDns, Stop
  <2>6. pc' = "stopDns" => writers' \subseteq {"dns"}
    BY <1>t, <2>1, <2>5 DEF LogType, Writers
  <2>7. pc' = "merge" => writers' = {}
    BY <1>12, <1>w, <2>1, <2>5 DEF StopDns
  <2> QED
    BY <2>3, <2>4, <2>5, <2>6, <2>7 DEF WriteInv, Posted, Reported
<1>13. CASE MergeConntrack
  BY <1>13, <1>t, <1>w DEF MergeConntrack, given, failFast, env, dir, teardown, post,
     LogType, WriteInv, Posted, Reported
<1>14. CASE AttachEvents
  BY <1>14, <1>t, <1>w DEF AttachEvents, given, failFast, env, dir, teardown, post,
     LogType, WriteInv, Posted, Reported
<1>15. CASE ClearReports
  BY <1>15, <1>t, <1>w DEF ClearReports, Abort, given, logging, failFast, env, dir,
     post, LogType, WriteInv, Posted, Reported
<1>16. CASE GenerateReport
  BY <1>16, <1>t, <1>w DEF GenerateReport, given, logging, failFast, env, post,
     LogType, WriteInv, Posted, Reported
<1>17. CASE CheckHealth
  BY <1>17, <1>t, <1>w DEF CheckHealth, given, logging, failFast, env, teardown,
     post, LogType, WriteInv, Posted, Reported
<1>18. CASE WriteSummary
  BY <1>18, <1>t, <1>w DEF WriteSummary, Abort, given, logging, failFast, env, dir,
     post, LogType, WriteInv, Posted, Reported
<1>19. CASE SetOutputs
  BY <1>19, <1>t, <1>w DEF SetOutputs, Abort, given, logging, failFast, env, dir,
     LogType, WriteInv, Posted, Reported
<1>20. CASE TeardownExits
  BY <1>20, <1>t, <1>w DEF TeardownExits, given, logging, failFast, env, dir, post,
     LogType, WriteInv, Posted, Reported
<1>21. CASE Decide
  BY <1>21, <1>t, <1>w DEF Decide, given, logging, failFast, env, dir, teardown,
     LogType, WriteInv, Posted, Reported
<1>22. CASE SavePipCache
  BY <1>22, <1>t, <1>w DEF SavePipCache, given, logging, failFast, env, dir,
     teardown, LogType, WriteInv, Posted, Reported
<1>23. CASE UploadReport
  BY <1>23, <1>t, <1>w DEF UploadReport, given, logging, failFast, env, dir,
     teardown, LogType, WriteInv, Posted, Reported
<1>24. CASE Exit
  BY <1>24, <1>t, <1>w DEF Exit, given, logging, failFast, env, dir, teardown,
     LogType, WriteInv, Posted, Reported
<1>25. ASSUME NEW w \in Writers, NEW kind \in Verdicts, BeginRecord(w, kind)
       PROVE  WriteInv'
  <2>1. log' # <<>> /\ log'[Len(log')] \in Tornly
    <3>1. "half" \in Lines
      BY DEF Lines
    <3>2. CASE EndsTorn
      BY <1>25, <3>2 DEF BeginRecord, EndsTorn, Tornly
    <3>3. CASE ~EndsTorn
      BY <1>25, <1>t, <3>1, <3>3, AppendedFacts DEF BeginRecord, LogType, Tornly
    <3> QED
      BY <3>2, <3>3
  <2> QED
    BY <1>25, <1>w, <2>1 DEF BeginRecord, given, failFast, env, dir, teardown, post,
       WriteInv, Posted, Reported
<1>26. CASE FinishRecord
  BY <1>26, <1>t, <1>w DEF FinishRecord, given, failFast, env, dir, teardown, post,
     LogType, WriteInv, Posted, Reported
<1>27. ASSUME NEW line \in JobLines, Scribble(line) PROVE WriteInv'
  BY <1>27, <1>t, <1>w DEF Scribble, given, failFast, env, dir, teardown, post,
     LogType, WriteInv, Posted, Reported
<1>28. CASE Tamper
  BY <1>28, <1>t, <1>w DEF Tamper, given, env, dir, teardown, post,
     LogType, WriteInv, Posted, Reported
<1>29. CASE Watch
  BY <1>29, <1>t, <1>w DEF Watch, given, logging, env, dir, teardown, post, LogType,
     WriteInv, Posted, Reported
<1>30. CASE UNCHANGED vars
  BY <1>30, <1>t, <1>w DEF vars, given, logging, failFast, env, dir, teardown, post,
     LogType, WriteInv, Posted, Reported
<1> QED
  BY <1>1, <1>2, <1>3, <1>4, <1>5, <1>6, <1>7, <1>8, <1>9, <1>10, <1>11, <1>12,
     <1>13, <1>14, <1>15, <1>16, <1>17, <1>18, <1>19, <1>20, <1>21, <1>22, <1>23,
     <1>24, <1>25, <1>26, <1>27, <1>28, <1>29, <1>30 DEF Next, Main, Teardown, Post

LEMMA NextExport ==
  ExportInv /\ [Next]_vars => ExportInv'
<1> SUFFICES ASSUME ExportInv, [Next]_vars
             PROVE  ExportInv'
  OBVIOUS
<1>1. CASE RestorePipCache
  BY <1>1 DEF RestorePipCache, given, logging, failFast, dir, teardown, post,
     ExportInv, Mode, Modes
<1>2. CASE SetupFails
  <2>1. /\ pc' = "settings" /\ mainExit' = 1
        /\ exported' = exported /\ inputs' = inputs
    BY <1>2 DEF SetupFails, given, logging, failFast, env, dir, teardown, post
  <2>3. (pc \in {"restore", "setup", "watcher", "export"} =>
           exported = Unset /\ mainExit = 0)'
    BY <2>1
  <2>4. (pc \in {"watcher", "export"} => Mode \in Modes)'
    BY <2>1
  <2>5. (exported.failOn \in {"", inputs.failOn})'
    BY <2>1 DEF ExportInv
  <2>6. (mainExit = 0 /\ exported # Unset =>
           exported.mode = Mode /\ exported.failOn = inputs.failOn)'
    BY <2>1
  <2>7. (mainExit = 0 /\ pc \notin {"restore", "setup", "watcher", "export"} =>
           exported # Unset)'
    BY <2>1
  <2> QED
    BY <2>3, <2>4, <2>5, <2>6, <2>7 DEF ExportInv
<1>3. CASE SetupPasses
  BY <1>3 DEF SetupPasses, given, failFast, env, dir, teardown, post, ExportInv,
     Mode, Modes
<1>4. CASE StartWatcher
  BY <1>4 DEF StartWatcher, given, logging, failFast, env, dir, teardown, post,
     ExportInv, Mode, Modes
<1>5. CASE Export
  BY <1>5 DEF Export, given, logging, failFast, dir, teardown, post, ExportInv, Mode,
     Modes, Exported, Unset
<1>6. CASE ExportFails
  <2>1. pc' = "settings" /\ mainExit' = 1 /\ inputs' = inputs
    BY <1>6 DEF ExportFails, given, failFast, dir, teardown, post
  <2>2. exported'.failOn \in {"", inputs.failOn}
    <3>1. PICK m \in {"", Mode}, f \in {"", inputs.failOn}, on \in BOOLEAN :
            exported' = Exported(m, f, on)
      <4>1. exported' \in {Exported("", "", FALSE), Exported(Mode, "", FALSE),
                          Exported(Mode, inputs.failOn, FALSE),
                          Exported(Mode, inputs.failOn, watcher = "on")}
        BY <1>6 DEF ExportFails, Unset
      <4>2. (watcher = "on") \in BOOLEAN /\ FALSE \in BOOLEAN
        BY Zenon
      <4> QED
        BY <4>1, <4>2, Zenon
    <3>2. exported'.failOn = f
      BY <3>1 DEF Exported
    <3> QED
      BY <3>2
  <2>3. (pc \in {"restore", "setup", "watcher", "export"} =>
           exported = Unset /\ mainExit = 0)'
    BY <2>1
  <2>4. (pc \in {"watcher", "export"} => Mode \in Modes)'
    BY <2>1
  <2>5. (exported.failOn \in {"", inputs.failOn})'
    BY <2>1, <2>2
  <2>6. (mainExit = 0 /\ exported # Unset =>
           exported.mode = Mode /\ exported.failOn = inputs.failOn)'
    BY <2>1
  <2>7. (mainExit = 0 /\ pc \notin {"restore", "setup", "watcher", "export"} =>
           exported # Unset)'
    BY <2>1
  <2> QED
    BY <2>3, <2>4, <2>5, <2>6, <2>7 DEF ExportInv
<1>7. CASE PersistSettings
  BY <1>7 DEF PersistSettings, given, logging, failFast, dir, teardown, post,
     ExportInv, Mode, Modes
<1>8. CASE JobEnds
  BY <1>8 DEF JobEnds, given, logging, failFast, env, dir, teardown, post, ExportInv,
     Mode, Modes
<1>9. CASE CheckBoundary
  BY <1>9 DEF CheckBoundary, given, logging, failFast, env, dir, post, ExportInv,
     Mode, Modes
<1>10. CASE StopWatcher
  BY <1>10 DEF StopWatcher, given, logging, env, dir, teardown, post, ExportInv,
     Mode, Modes
<1>11. CASE StopProxy
  BY <1>11 DEF StopProxy, Stop, given, failFast, env, dir, teardown, post, ExportInv,
     Mode, Modes
<1>12. CASE StopDns
  BY <1>12 DEF StopDns, Stop, given, failFast, env, dir, post, ExportInv, Mode, Modes
<1>13. CASE MergeConntrack
  BY <1>13 DEF MergeConntrack, given, failFast, env, dir, teardown, post, ExportInv,
     Mode, Modes
<1>14. CASE AttachEvents
  BY <1>14 DEF AttachEvents, given, failFast, env, dir, teardown, post, ExportInv,
     Mode, Modes
<1>15. CASE ClearReports
  BY <1>15 DEF ClearReports, Abort, given, logging, failFast, env, dir, post,
     ExportInv, Mode, Modes
<1>16. CASE GenerateReport
  BY <1>16 DEF GenerateReport, given, logging, failFast, env, post, ExportInv, Mode,
     Modes
<1>17. CASE CheckHealth
  BY <1>17 DEF CheckHealth, given, logging, failFast, env, teardown, post, ExportInv,
     Mode, Modes
<1>18. CASE WriteSummary
  BY <1>18 DEF WriteSummary, Abort, given, logging, failFast, env, dir, post,
     ExportInv, Mode, Modes
<1>19. CASE SetOutputs
  BY <1>19 DEF SetOutputs, Abort, given, logging, failFast, env, dir, ExportInv,
     Mode, Modes
<1>20. CASE TeardownExits
  BY <1>20 DEF TeardownExits, given, logging, failFast, env, dir, post, ExportInv,
     Mode, Modes
<1>21. CASE Decide
  BY <1>21 DEF Decide, given, logging, failFast, env, dir, teardown, ExportInv, Mode,
     Modes
<1>22. CASE SavePipCache
  BY <1>22 DEF SavePipCache, given, logging, failFast, env, dir, teardown, ExportInv,
     Mode, Modes
<1>23. CASE UploadReport
  BY <1>23 DEF UploadReport, given, logging, failFast, env, dir, teardown, ExportInv,
     Mode, Modes
<1>24. CASE Exit
  BY <1>24 DEF Exit, given, logging, failFast, env, dir, teardown, ExportInv, Mode,
     Modes
<1>25. ASSUME NEW w \in Writers, NEW kind \in Verdicts, BeginRecord(w, kind)
       PROVE  ExportInv'
  BY <1>25 DEF BeginRecord, given, failFast, env, dir, teardown, post, ExportInv,
     Mode, Modes
<1>26. CASE FinishRecord
  BY <1>26 DEF FinishRecord, given, failFast, env, dir, teardown, post, ExportInv,
     Mode, Modes
<1>27. ASSUME NEW line \in JobLines, Scribble(line) PROVE ExportInv'
  BY <1>27 DEF Scribble, given, failFast, env, dir, teardown, post, ExportInv, Mode,
     Modes
<1>28. CASE Tamper
  BY <1>28 DEF Tamper, given, env, dir, teardown, post, ExportInv, Mode,
     Modes
<1>29. CASE Watch
  BY <1>29 DEF Watch, given, logging, env, dir, teardown, post, ExportInv, Mode, Modes
<1>30. CASE UNCHANGED vars
  BY <1>30 DEF vars, given, logging, failFast, env, dir, teardown, post, ExportInv,
     Mode, Modes
<1> QED
  BY <1>1, <1>2, <1>3, <1>4, <1>5, <1>6, <1>7, <1>8, <1>9, <1>10, <1>11, <1>12,
     <1>13, <1>14, <1>15, <1>16, <1>17, <1>18, <1>19, <1>20, <1>21, <1>22, <1>23,
     <1>24, <1>25, <1>26, <1>27, <1>28, <1>29, <1>30 DEF Next, Main, Teardown, Post

LEMMA GivenStays ==
  [Next]_vars => inputs' = inputs /\ broken' = broken
<1> SUFFICES ASSUME [Next]_vars PROVE inputs' = inputs /\ broken' = broken
  OBVIOUS
<1>1. CASE RestorePipCache
  BY <1>1 DEF RestorePipCache, given, logging, failFast, dir, teardown, post
<1>2. CASE SetupFails
  BY <1>2 DEF SetupFails, given, logging, failFast, env, dir, teardown, post
<1>3. CASE SetupPasses
  BY <1>3 DEF SetupPasses, given, failFast, env, dir, teardown, post
<1>4. CASE StartWatcher
  BY <1>4 DEF StartWatcher, given, logging, failFast, env, dir, teardown, post
<1>5. CASE Export
  BY <1>5 DEF Export, given, logging, failFast, dir, teardown, post
<1>6. CASE ExportFails
  BY <1>6 DEF ExportFails, given, failFast, dir, teardown, post
<1>7. CASE PersistSettings
  BY <1>7 DEF PersistSettings, given, logging, failFast, dir, teardown, post
<1>8. CASE JobEnds
  BY <1>8 DEF JobEnds, given, logging, failFast, env, dir, teardown, post
<1>9. CASE CheckBoundary
  BY <1>9 DEF CheckBoundary, given, logging, failFast, env, dir, post
<1>10. CASE StopWatcher
  BY <1>10 DEF StopWatcher, given, logging, env, dir, teardown, post
<1>11. CASE StopProxy
  BY <1>11 DEF StopProxy, Stop, given, failFast, env, dir, teardown, post
<1>12. CASE StopDns
  BY <1>12 DEF StopDns, Stop, given, failFast, env, dir, post
<1>13. CASE MergeConntrack
  BY <1>13 DEF MergeConntrack, given, failFast, env, dir, teardown, post
<1>14. CASE AttachEvents
  BY <1>14 DEF AttachEvents, given, failFast, env, dir, teardown, post
<1>15. CASE ClearReports
  BY <1>15 DEF ClearReports, Abort, given, logging, failFast, env, dir, post
<1>16. CASE GenerateReport
  BY <1>16 DEF GenerateReport, given, logging, failFast, env, post
<1>17. CASE CheckHealth
  BY <1>17 DEF CheckHealth, given, logging, failFast, env, teardown, post
<1>18. CASE WriteSummary
  BY <1>18 DEF WriteSummary, Abort, given, logging, failFast, env, dir, post
<1>19. CASE SetOutputs
  BY <1>19 DEF SetOutputs, Abort, given, logging, failFast, env, dir
<1>20. CASE TeardownExits
  BY <1>20 DEF TeardownExits, given, logging, failFast, env, dir, post
<1>21. CASE Decide
  BY <1>21 DEF Decide, given, logging, failFast, env, dir, teardown
<1>22. CASE SavePipCache
  BY <1>22 DEF SavePipCache, given, logging, failFast, env, dir, teardown
<1>23. CASE UploadReport
  BY <1>23 DEF UploadReport, given, logging, failFast, env, dir, teardown
<1>24. CASE Exit
  BY <1>24 DEF Exit, given, logging, failFast, env, dir, teardown
<1>25. ASSUME NEW w \in Writers, NEW kind \in Verdicts, BeginRecord(w, kind)
       PROVE  inputs' = inputs /\ broken' = broken
  BY <1>25 DEF BeginRecord, given, failFast, env, dir, teardown, post
<1>26. CASE FinishRecord
  BY <1>26 DEF FinishRecord, given, failFast, env, dir, teardown, post
<1>27. ASSUME NEW line \in JobLines, Scribble(line) PROVE inputs' = inputs /\ broken' = broken
  BY <1>27 DEF Scribble, given, failFast, env, dir, teardown, post
<1>28. CASE Tamper
  BY <1>28 DEF Tamper, given, env, dir, teardown, post
<1>29. CASE Watch
  BY <1>29 DEF Watch, given, logging, env, dir, teardown, post
<1>30. CASE UNCHANGED vars
  BY <1>30 DEF vars, given, logging, failFast, env, dir, teardown, post
<1> QED
  BY <1>1, <1>2, <1>3, <1>4, <1>5, <1>6, <1>7, <1>8, <1>9, <1>10, <1>11, <1>12,
     <1>13, <1>14, <1>15, <1>16, <1>17, <1>18, <1>19, <1>20, <1>21, <1>22, <1>23,
     <1>24, <1>25, <1>26, <1>27, <1>28, <1>29, <1>30 DEF Next, Main, Teardown, Post

LEMMA RangeFrame ==
  /\ Range(log)' = Range(log')
  /\ log' = log => Range(log)' = Range(log)
BY DEF Range

LEMMA PrefixRange ==
  ASSUME NEW S, NEW s \in Seq(S), NEW n \in 0..(Len(s) - 1)
  PROVE  \A x \in Range(SubSeq(s, 1, n)) : x \in Range(s)
<1> DEFINE r == SubSeq(s, 1, n)
<1>1. Len(s) \in Nat /\ DOMAIN s = 1..Len(s) /\ \A i \in 1..Len(s) : s[i] \in S
  BY LenProperties, ElementOfSeq
<1>2. n \in Nat /\ 1 \in Int /\ n \in Int /\ \A i \in 1..n : s[i] \in S
  BY <1>1
<1>3. /\ r \in Seq(S) /\ Len(r) = IF 1 <= n THEN n - 1 + 1 ELSE 0
      /\ \A i \in 1..(n - 1 + 1) : r[i] = s[1 + i - 1]
  BY <1>2, SubSeqProperties
<1> HIDE DEF r
<1>4. Len(r) = n /\ DOMAIN r = 1..n
  BY <1>2, <1>3, LenProperties
<1>5. ASSUME NEW i \in 1..n PROVE i \in 1..Len(s) /\ r[i] = s[i]
  BY <1>1, <1>2, <1>3
<1> QED
  BY <1>1, <1>4, <1>5 DEF Range, r

LEMMA NextRefusal ==
  TypeOK /\ WriteInv /\ RefusalInv /\ [Next]_vars => RefusalInv'
<1> SUFFICES ASSUME TypeOK, WriteInv, RefusalInv, [Next]_vars
             PROVE  RefusalInv'
  OBVIOUS
<1>y. LogType
  BY TypeParts
<1>t. log \in Seq(Lines)
  BY <1>y DEF LogType
<1>w. /\ writing # <<>> => log # <<>> /\ log[Len(log)] \in Tornly
      /\ pc \in {"restore", "setup"} => ~refused
  BY DEF WriteInv
<1>g. broken' = broken /\ Canary' = Canary
  BY GivenStays DEF Canary
<1>a. /\ refused /\ ~tampered /\ "rewrite" \notin broken => "blocked" \in Range(log)
      /\ "blocked" \in Range(log) /\ Canary = "true" /\ ~refused /\ ~tampered =>
           exported.mode = "" /\ pc \notin {"watcher", "export"}
  BY DEF RefusalInv, Spared
<1> DEFINE Goal ==
               /\ refused' /\ ~tampered' /\ "rewrite" \notin broken =>
                    "blocked" \in Range(log')
               /\ "blocked" \in Range(log') /\ Canary = "true" /\ ~refused' /\ ~tampered' =>
                    exported'.mode = "" /\ pc' \notin {"watcher", "export"}
<1> SUFFICES Goal
  BY <1>g, RangeFrame DEF RefusalInv, Spared
<1>1. CASE RestorePipCache
  BY <1>1, <1>a DEF RestorePipCache, given, logging, failFast, dir, teardown, post
<1>2. CASE SetupFails
  BY <1>2, <1>a DEF SetupFails, given, logging, failFast, env, dir, teardown, post
<1>3. CASE SetupPasses
  <2>1. ~refused'
    BY <1>3, <1>w DEF SetupPasses
  <2>2. Canary = "true" => log' = <<>>
    BY <1>3 DEF SetupPasses, CanaryLogs
  <2>3. Range(<<>>) = {}
    BY DEF Range
  <2> QED
    BY <2>1, <2>2, <2>3
<1>4. CASE StartWatcher
  BY <1>4, <1>a DEF StartWatcher, given, logging, failFast, env, dir, teardown, post
<1>5. CASE Export
  BY <1>5, <1>a DEF Export, given, logging, failFast, dir, teardown, post
<1>6. CASE ExportFails
  <2>1. refused' = refused /\ tampered' = tampered
    BY <1>6 DEF ExportFails, given, failFast, dir, teardown, post
  <2>2. "blocked" \in Range(log') <=> "blocked" \in Range(log)
    <3>1. "torn" \in Lines
      BY DEF Lines
    <3>2. CASE log' = log
      BY <3>2
    <3>3. CASE writing # <<>> /\ log' = Ended("torn")
      BY <1>t, <1>w, <3>1, <3>3, EndedFacts DEF Tornly
    <3> QED
      BY <1>6, <3>2, <3>3 DEF ExportFails, Ended
  <2>3. pc = "export" /\ pc' = "settings"
    BY <1>6 DEF ExportFails
  <2> QED
    BY <1>a, <2>1, <2>2, <2>3
<1>7. CASE PersistSettings
  BY <1>7, <1>a DEF PersistSettings, given, logging, failFast, dir, teardown, post
<1>8. CASE JobEnds
  BY <1>8, <1>a DEF JobEnds, given, logging, failFast, env, dir, teardown, post
<1>9. CASE CheckBoundary
  BY <1>9, <1>a DEF CheckBoundary, given, logging, failFast, env, dir, post
<1>10. CASE StopWatcher
  BY <1>10, <1>a DEF StopWatcher, given, logging, env, dir, teardown, post
<1>11. CASE StopProxy
  <2>1. refused' = refused /\ tampered' = tampered
    BY <1>11 DEF StopProxy, Stop, given, failFast, env, dir, teardown, post
  <2>2. "blocked" \in Range(log') <=> "blocked" \in Range(log)
    <3>1. "torn" \in Lines
      BY DEF Lines
    <3>2. CASE log' = log
      BY <3>2
    <3>3. CASE writing # <<>> /\ log' = Ended("torn")
      BY <1>t, <1>w, <3>1, <3>3, EndedFacts DEF Tornly
    <3> QED
      BY <1>11, <3>2, <3>3 DEF StopProxy, Ended, Stop
  <2>3. pc' \notin {"watcher", "export"} /\ exported' = exported
    BY <1>11 DEF StopProxy, env
  <2> QED
    BY <1>a, <2>1, <2>2, <2>3
<1>12. CASE StopDns
  <2>1. refused' = refused /\ tampered' = tampered
    BY <1>12 DEF StopDns, Stop, given, failFast, env, dir, post
  <2>2. "blocked" \in Range(log') <=> "blocked" \in Range(log)
    <3>1. "torn" \in Lines
      BY DEF Lines
    <3>2. CASE log' = log
      BY <3>2
    <3>3. CASE writing # <<>> /\ log' = Ended("torn")
      BY <1>t, <1>w, <3>1, <3>3, EndedFacts DEF Tornly
    <3> QED
      BY <1>12, <3>2, <3>3 DEF StopDns, Ended, Stop
  <2>3. pc' \notin {"watcher", "export"} /\ exported' = exported
    BY <1>12 DEF StopDns, env
  <2> QED
    BY <1>a, <2>1, <2>2, <2>3
<1>13. CASE MergeConntrack
  <2>1. refused' = refused /\ tampered' = tampered
    BY <1>13 DEF MergeConntrack, given, failFast, env, dir, teardown, post
  <2>2. "blocked" \in Range(log') <=> "blocked" \in Range(log)
    <3>1. "garbage" \in Lines /\ "passed" \in Lines
      BY DEF Lines, Verdicts
    <3>2. CASE log' = log
      BY <3>2
    <3>3. CASE EndsTorn /\ log' = Ended("garbage")
      BY <1>t, <3>1, <3>3, EndedFacts DEF EndsTorn
    <3>4. CASE log' = Append(log, "passed")
      BY <1>t, <3>1, <3>4, AppendedFacts
    <3> QED
      BY <1>13, <3>2, <3>3, <3>4 DEF MergeConntrack
  <2>3. pc' \notin {"watcher", "export"} /\ exported' = exported
    BY <1>13 DEF MergeConntrack, env
  <2> QED
    BY <1>a, <2>1, <2>2, <2>3
<1>14. CASE AttachEvents
  <2>1. refused' = refused /\ tampered' = tampered
        /\ exported' = exported /\ pc' = "clear"
    BY <1>14 DEF AttachEvents, given, failFast, env, dir, teardown, post
  <2>2. CASE log' = log
    BY <1>a, <2>1, <2>2
  <2>3. Parsed \in Seq(Lines) /\ Range(Parsed) = Range(log) \ Unparsable
    BY <1>t, ParsedKeeps
  <2>4. "blocked" \notin Unparsable
    BY DEF Unparsable
  <2>5. CASE log' = Parsed
    <3>1. "blocked" \in Range(log') <=> "blocked" \in Range(log)
      BY <2>3, <2>4, <2>5
    <3> QED
      BY <1>a, <2>1, <3>1
  <2>6. CASE "rewrite" \in broken /\ \E n \in 0..(Len(Parsed) - 1) : log' = SubSeq(Parsed, 1, n)
    <3>1. PICK n \in 0..(Len(Parsed) - 1) : log' = SubSeq(Parsed, 1, n)
      BY <2>6
    <3>2. "blocked" \in Range(log') => "blocked" \in Range(log)
      BY <2>3, <3>1, PrefixRange
    <3> QED
      BY <1>a, <2>1, <2>6, <3>2
  <2> QED
    BY <1>14, <2>2, <2>5, <2>6 DEF AttachEvents
<1>15. CASE ClearReports
  BY <1>15, <1>a DEF ClearReports, Abort, given, logging, failFast, env, dir, post
<1>16. CASE GenerateReport
  BY <1>16, <1>a DEF GenerateReport, given, logging, failFast, env, post
<1>17. CASE CheckHealth
  BY <1>17, <1>a DEF CheckHealth, given, logging, failFast, env, teardown, post
<1>18. CASE WriteSummary
  BY <1>18, <1>a DEF WriteSummary, Abort, given, logging, failFast, env, dir, post
<1>19. CASE SetOutputs
  BY <1>19, <1>a DEF SetOutputs, Abort, given, logging, failFast, env, dir
<1>20. CASE TeardownExits
  BY <1>20, <1>a DEF TeardownExits, given, logging, failFast, env, dir, post
<1>21. CASE Decide
  BY <1>21, <1>a DEF Decide, given, logging, failFast, env, dir, teardown
<1>22. CASE SavePipCache
  BY <1>22, <1>a DEF SavePipCache, given, logging, failFast, env, dir, teardown
<1>23. CASE UploadReport
  BY <1>23, <1>a DEF UploadReport, given, logging, failFast, env, dir, teardown
<1>24. CASE Exit
  BY <1>24, <1>a DEF Exit, given, logging, failFast, env, dir, teardown
<1>25. ASSUME NEW w \in Writers, NEW kind \in Verdicts, BeginRecord(w, kind)
       PROVE  Goal
  <2>1. refused' = refused /\ tampered' = tampered
    BY <1>25 DEF BeginRecord, given, failFast, env, dir, teardown, post
  <2>2. "blocked" \in Range(log') <=> "blocked" \in Range(log)
    <3>1. "half" \in Lines
      BY DEF Lines
    <3>2. log' = log \/ log' = Append(log, "half")
      BY <1>25 DEF BeginRecord
    <3> QED
      BY <1>t, <3>1, <3>2, AppendedFacts
  <2>3. exported' = exported /\ pc' = pc
    BY <1>25 DEF BeginRecord, env
  <2> QED
    BY <1>a, <2>1, <2>2, <2>3
<1>26. CASE FinishRecord
  <2>1. exported' = exported /\ pc' = pc /\ tampered' = tampered
    BY <1>26 DEF FinishRecord, env
  <2>2. "garbage" \in Lines /\ writing # <<>> /\ writing[2] \in Verdicts
        /\ Verdicts \subseteq Lines
    BY <1>26, <1>y DEF FinishRecord, LogType, Lines, Verdicts
  <2>3. CASE EndsTorn
    <3>1. log' = Ended("garbage") /\ (refused' <=> refused)
      BY <1>26, <2>3 DEF FinishRecord
    <3>2. "blocked" \in Range(log') <=> "blocked" \in Range(log)
      BY <1>t, <2>2, <2>3, <3>1, EndedFacts DEF EndsTorn
    <3> QED
      BY <1>a, <2>1, <3>1, <3>2
  <2>4. CASE ~EndsTorn
    <3>1. log' = Ended(writing[2]) /\ (refused' <=> refused \/ writing[2] = "blocked")
      BY <1>26, <2>4 DEF FinishRecord
    <3>2. log # <<>> /\ log[Len(log)] # "blocked"
      BY <1>w, <2>2 DEF Tornly
    <3>3. Ended(writing[2]) \in Seq(Lines) /\ Len(Ended(writing[2])) = Len(log)
          /\ Ended(writing[2])[Len(log)] = writing[2]
      BY <1>t, <2>2, <3>2, EndedFacts
    <3>4. writing[2] \in Range(log')
      <4>1. Len(log) \in 1..Len(log) /\ DOMAIN log' = 1..Len(log)
        BY <1>t, <3>1, <3>2, <3>3, LenProperties, EmptySeq
      <4> QED
        BY <3>1, <3>3, <4>1 DEF Range
    <3>5. "blocked" \in Range(log) => "blocked" \in Range(log')
      BY <1>t, <2>2, <3>1, <3>2, EndedFacts
    <3>6. "blocked" \in Range(log') => "blocked" \in Range(log) \/ writing[2] = "blocked"
      BY <1>t, <2>2, <3>1, EndedFacts
    <3> QED
      BY <1>a, <2>1, <3>1, <3>4, <3>5, <3>6
  <2> QED
    BY <2>3, <2>4
<1>27. ASSUME NEW line \in JobLines, Scribble(line) PROVE Goal
  <2>1. refused' = refused /\ tampered' = tampered
    BY <1>27 DEF Scribble, given, failFast, env, dir, teardown, post
  <2>2. "blocked" \in Range(log') <=> "blocked" \in Range(log)
    <3>1. JobLines \subseteq Lines
      BY DEF JobLines, Lines
    <3>2. log' = Append(log, line) /\ line # "blocked"
      BY <1>27 DEF Scribble, JobLines
    <3> QED
      BY <1>t, <3>1, <3>2, AppendedFacts
  <2>3. exported' = exported /\ pc' = pc
    BY <1>27 DEF Scribble, env
  <2> QED
    BY <1>a, <2>1, <2>2, <2>3
<1>28. CASE Tamper
  BY <1>28 DEF Tamper
<1>29. CASE Watch
  BY <1>29, <1>a DEF Watch, given, logging, env, dir, teardown, post
<1>30. CASE UNCHANGED vars
  BY <1>30, <1>a DEF vars, given, logging, failFast, env, dir, teardown, post
<1> QED
  BY <1>1, <1>2, <1>3, <1>4, <1>5, <1>6, <1>7, <1>8, <1>9, <1>10, <1>11, <1>12,
     <1>13, <1>14, <1>15, <1>16, <1>17, <1>18, <1>19, <1>20, <1>21, <1>22, <1>23,
     <1>24, <1>25, <1>26, <1>27, <1>28, <1>29, <1>30 DEF Next, Main, Teardown, Post

(* Once the writers are gone and the events are attached nobody touches the *)
(* log, and what the report counts stays.                                   *)
Settled == {"report", "decide"} \cup Reported \cup Posted

LEMMA LogSettled ==
  ASSUME TypeOK, WriteInv, [Next]_vars
  PROVE  pc \in Settled => log' = log /\ pc' \in Settled
<1>w. /\ writing # <<>> => writing[1] \in writers
      /\ pc \in Settled => writers = {}
  BY DEF WriteInv, Settled
<1>1. CASE RestorePipCache
  BY <1>1, <1>w DEF RestorePipCache, given, logging, failFast, dir, teardown, post,
     Settled, Reported, Posted
<1>2. CASE SetupFails
  BY <1>2, <1>w DEF SetupFails, given, logging, failFast, env, dir, teardown, post,
     Settled, Reported, Posted
<1>3. CASE SetupPasses
  BY <1>3, <1>w DEF SetupPasses, given, failFast, env, dir, teardown, post, Settled,
     Reported, Posted
<1>4. CASE StartWatcher
  BY <1>4, <1>w DEF StartWatcher, given, logging, failFast, env, dir, teardown, post,
     Settled, Reported, Posted
<1>5. CASE Export
  BY <1>5, <1>w DEF Export, given, logging, failFast, dir, teardown, post, Settled,
     Reported, Posted
<1>6. CASE ExportFails
  BY <1>6, <1>w DEF ExportFails, given, failFast, dir, teardown, post, Settled,
     Reported, Posted
<1>7. CASE PersistSettings
  BY <1>7, <1>w DEF PersistSettings, given, logging, failFast, dir, teardown, post,
     Settled, Reported, Posted
<1>8. CASE JobEnds
  BY <1>8, <1>w DEF JobEnds, given, logging, failFast, env, dir, teardown, post,
     Settled, Reported, Posted
<1>9. CASE CheckBoundary
  BY <1>9, <1>w DEF CheckBoundary, given, logging, failFast, env, dir, post, Settled,
     Reported, Posted
<1>10. CASE StopWatcher
  BY <1>10, <1>w DEF StopWatcher, given, logging, env, dir, teardown, post, Settled,
     Reported, Posted
<1>11. CASE StopProxy
  BY <1>11, <1>w DEF StopProxy, Stop, given, failFast, env, dir, teardown, post,
     Settled, Reported, Posted
<1>12. CASE StopDns
  BY <1>12, <1>w DEF StopDns, Stop, given, failFast, env, dir, post, Settled,
     Reported, Posted
<1>13. CASE MergeConntrack
  BY <1>13, <1>w DEF MergeConntrack, given, failFast, env, dir, teardown, post,
     Settled, Reported, Posted
<1>14. CASE AttachEvents
  BY <1>14, <1>w DEF AttachEvents, given, failFast, env, dir, teardown, post,
     Settled, Reported, Posted
<1>15. CASE ClearReports
  BY <1>15, <1>w DEF ClearReports, Abort, given, logging, failFast, env, dir, post,
     Settled, Reported, Posted
<1>16. CASE GenerateReport
  BY <1>16, <1>w DEF GenerateReport, given, logging, failFast, env, post, Settled,
     Reported, Posted
<1>17. CASE CheckHealth
  BY <1>17, <1>w DEF CheckHealth, given, logging, failFast, env, teardown, post,
     Settled, Reported, Posted
<1>18. CASE WriteSummary
  BY <1>18, <1>w DEF WriteSummary, Abort, given, logging, failFast, env, dir, post,
     Settled, Reported, Posted
<1>19. CASE SetOutputs
  BY <1>19, <1>w DEF SetOutputs, Abort, given, logging, failFast, env, dir, Settled,
     Reported, Posted
<1>20. CASE TeardownExits
  BY <1>20, <1>w DEF TeardownExits, given, logging, failFast, env, dir, post,
     Settled, Reported, Posted
<1>21. CASE Decide
  BY <1>21, <1>w DEF Decide, given, logging, failFast, env, dir, teardown, Settled,
     Reported, Posted
<1>22. CASE SavePipCache
  BY <1>22, <1>w DEF SavePipCache, given, logging, failFast, env, dir, teardown,
     Settled, Reported, Posted
<1>23. CASE UploadReport
  BY <1>23, <1>w DEF UploadReport, given, logging, failFast, env, dir, teardown,
     Settled, Reported, Posted
<1>24. CASE Exit
  BY <1>24, <1>w DEF Exit, given, logging, failFast, env, dir, teardown, Settled,
     Reported, Posted
<1>25. ASSUME NEW w \in Writers, NEW kind \in Verdicts, BeginRecord(w, kind)
       PROVE  pc \in Settled => log' = log /\ pc' \in Settled
  BY <1>25, <1>w DEF BeginRecord, given, failFast, env, dir, teardown, post, Settled,
     Reported, Posted
<1>26. CASE FinishRecord
  BY <1>26, <1>w DEF FinishRecord, given, failFast, env, dir, teardown, post,
     Settled, Reported, Posted
<1>27. ASSUME NEW line \in JobLines, Scribble(line) PROVE pc \in Settled => log' = log /\ pc' \in Settled
  BY <1>27, <1>w DEF Scribble, given, failFast, env, dir, teardown, post, Settled,
     Reported, Posted
<1>28. CASE Tamper
  BY <1>28, <1>w DEF Tamper, given, env, dir, teardown, post, Settled,
     Reported, Posted
<1>29. CASE Watch
  BY <1>29, <1>w DEF Watch, given, logging, env, dir, teardown, post, Settled,
     Reported, Posted
<1>30. CASE UNCHANGED vars
  BY <1>30, <1>w DEF vars, given, logging, failFast, env, dir, teardown, post,
     Settled, Reported, Posted
<1> QED
  BY <1>1, <1>2, <1>3, <1>4, <1>5, <1>6, <1>7, <1>8, <1>9, <1>10, <1>11, <1>12,
     <1>13, <1>14, <1>15, <1>16, <1>17, <1>18, <1>19, <1>20, <1>21, <1>22, <1>23,
     <1>24, <1>25, <1>26, <1>27, <1>28, <1>29, <1>30 DEF Next, Main, Teardown, Post

LEMMA CountsFrame ==
  log' = log => ReportOf' = ReportOf
BY DEF ReportOf, Whole, CountOf

LEMMA NextReport ==
  TypeOK /\ WriteInv /\ ReportInv /\ [Next]_vars => ReportInv'
<1> SUFFICES ASSUME TypeOK, WriteInv, ReportInv, [Next]_vars
             PROVE  ReportInv'
  OBVIOUS
<1>g. inputs' = inputs /\ broken' = broken
  BY GivenStays
<1>l. pc \in Settled => log' = log /\ ReportOf' = ReportOf
  BY LogSettled, CountsFrame
<1>a. /\ pc \in {"report"} \cup Reported => "clear" \notin broken
      /\ pc = "report" => report = Absent
      /\ "clear" \notin broken /\ pc \in {"decide"} \cup Reported \cup Posted =>
           report \in {Absent, Torn, ReportOf}
      /\ "clear" \notin broken /\ "report" \notin broken
            /\ pc \in {"decide"} \cup Reported \cup Posted => report = ReportOf
  BY DEF ReportInv, Spared
<1> HIDE DEF ReportOf
<1> DEFINE Goal ==
      /\ pc' \in {"report"} \cup Reported => "clear" \notin broken
      /\ pc' = "report" => report' = Absent
      /\ "clear" \notin broken /\ pc' \in {"decide"} \cup Reported \cup Posted =>
           report' \in {Absent, Torn, ReportOf'}
      /\ "clear" \notin broken /\ "report" \notin broken
            /\ pc' \in {"decide"} \cup Reported \cup Posted => report' = ReportOf'
<1> SUFFICES Goal
  BY <1>g DEF ReportInv, Spared, Absent, Torn
<1>1. CASE RestorePipCache
  BY <1>1, <1>a, <1>l DEF RestorePipCache, given, logging, failFast, dir, teardown,
     post, Reported, Posted, Settled
<1>2. CASE SetupFails
  BY <1>2, <1>a, <1>l DEF SetupFails, given, logging, failFast, env, dir, teardown,
     post, Reported, Posted, Settled
<1>3. CASE SetupPasses
  BY <1>3, <1>a, <1>l DEF SetupPasses, given, failFast, env, dir, teardown, post,
     Reported, Posted, Settled
<1>4. CASE StartWatcher
  BY <1>4, <1>a, <1>l DEF StartWatcher, given, logging, failFast, env, dir, teardown,
     post, Reported, Posted, Settled
<1>5. CASE Export
  BY <1>5, <1>a, <1>l DEF Export, given, logging, failFast, dir, teardown, post,
     Reported, Posted, Settled
<1>6. CASE ExportFails
  BY <1>6, <1>a, <1>l DEF ExportFails, given, failFast, dir, teardown, post,
     Reported, Posted, Settled
<1>7. CASE PersistSettings
  BY <1>7, <1>a, <1>l DEF PersistSettings, given, logging, failFast, dir, teardown,
     post, Reported, Posted, Settled
<1>8. CASE JobEnds
  BY <1>8, <1>a, <1>l DEF JobEnds, given, logging, failFast, env, dir, teardown,
     post, Reported, Posted, Settled
<1>9. CASE CheckBoundary
  BY <1>9, <1>a, <1>l DEF CheckBoundary, given, logging, failFast, env, dir, post,
     Reported, Posted, Settled
<1>10. CASE StopWatcher
  BY <1>10, <1>a, <1>l DEF StopWatcher, given, logging, env, dir, teardown, post,
     Reported, Posted, Settled
<1>11. CASE StopProxy
  BY <1>11, <1>a, <1>l DEF StopProxy, Stop, given, failFast, env, dir, teardown,
     post, Reported, Posted, Settled
<1>12. CASE StopDns
  BY <1>12, <1>a, <1>l DEF StopDns, Stop, given, failFast, env, dir, post, Reported,
     Posted, Settled
<1>13. CASE MergeConntrack
  BY <1>13, <1>a, <1>l DEF MergeConntrack, given, failFast, env, dir, teardown, post,
     Reported, Posted, Settled
<1>14. CASE AttachEvents
  BY <1>14, <1>a, <1>l DEF AttachEvents, given, failFast, env, dir, teardown, post,
     Reported, Posted, Settled
<1>15. CASE ClearReports
  BY <1>15, <1>a, <1>l DEF ClearReports, Abort, given, logging, failFast, env, dir,
     post, Reported, Posted, Settled
<1>16. CASE GenerateReport
  BY <1>16, <1>a, <1>l DEF GenerateReport, given, logging, failFast, env, post,
     Reported, Posted, Settled
<1>17. CASE CheckHealth
  BY <1>17, <1>a, <1>l DEF CheckHealth, given, logging, failFast, env, teardown,
     post, Reported, Posted, Settled
<1>18. CASE WriteSummary
  BY <1>18, <1>a, <1>l DEF WriteSummary, Abort, given, logging, failFast, env, dir,
     post, Reported, Posted, Settled
<1>19. CASE SetOutputs
  BY <1>19, <1>a, <1>l DEF SetOutputs, Abort, given, logging, failFast, env, dir,
     Reported, Posted, Settled
<1>20. CASE TeardownExits
  BY <1>20, <1>a, <1>l DEF TeardownExits, given, logging, failFast, env, dir, post,
     Reported, Posted, Settled
<1>21. CASE Decide
  BY <1>21, <1>a, <1>l DEF Decide, given, logging, failFast, env, dir, teardown,
     Reported, Posted, Settled
<1>22. CASE SavePipCache
  BY <1>22, <1>a, <1>l DEF SavePipCache, given, logging, failFast, env, dir,
     teardown, Reported, Posted, Settled
<1>23. CASE UploadReport
  BY <1>23, <1>a, <1>l DEF UploadReport, given, logging, failFast, env, dir,
     teardown, Reported, Posted, Settled
<1>24. CASE Exit
  BY <1>24, <1>a, <1>l DEF Exit, given, logging, failFast, env, dir, teardown,
     Reported, Posted, Settled
<1>25. ASSUME NEW w \in Writers, NEW kind \in Verdicts, BeginRecord(w, kind)
       PROVE  Goal
  BY <1>25, <1>a, <1>l DEF BeginRecord, given, failFast, env, dir, teardown, post,
     Reported, Posted, Settled
<1>26. CASE FinishRecord
  BY <1>26, <1>a, <1>l DEF FinishRecord, given, failFast, env, dir, teardown, post,
     Reported, Posted, Settled
<1>27. ASSUME NEW line \in JobLines, Scribble(line) PROVE Goal
  BY <1>27, <1>a, <1>l DEF Scribble, given, failFast, env, dir, teardown, post,
     Reported, Posted, Settled
<1>28. CASE Tamper
  BY <1>28, <1>a, <1>l DEF Tamper, given, env, dir, teardown, post,
     Reported, Posted, Settled
<1>29. CASE Watch
  BY <1>29, <1>a, <1>l DEF Watch, given, logging, env, dir, teardown, post, Reported,
     Posted, Settled
<1>30. CASE UNCHANGED vars
  BY <1>30, <1>a, <1>l DEF vars, given, logging, failFast, env, dir, teardown, post,
     Reported, Posted, Settled
<1> QED
  BY <1>1, <1>2, <1>3, <1>4, <1>5, <1>6, <1>7, <1>8, <1>9, <1>10, <1>11, <1>12,
     <1>13, <1>14, <1>15, <1>16, <1>17, <1>18, <1>19, <1>20, <1>21, <1>22, <1>23,
     <1>24, <1>25, <1>26, <1>27, <1>28, <1>29, <1>30 DEF Next, Main, Teardown, Post

LEMMA NextHealth ==
  TypeOK /\ WriteInv /\ HealthInv /\ [Next]_vars => HealthInv'
<1> SUFFICES ASSUME TypeOK, WriteInv, HealthInv, [Next]_vars
             PROVE  HealthInv'
  OBVIOUS
<1>g. inputs' = inputs /\ broken' = broken
  BY GivenStays
<1>l. pc \in Settled => log' = log /\ ReportOf' = ReportOf
  BY LogSettled, CountsFrame
<1>o. log' = log => Sound' = Sound
  BY DEF Sound, Range
<1>a. /\ pc \in {"report", "health"} => health = "absent"
      /\ "clear" \notin broken /\ pc \in {"summary", "outputs", "exit", "decide"} \cup Posted =>
           /\ health \in {"absent", boundary}
           /\ "health" \notin broken /\ Sound => health = boundary
  BY DEF HealthInv
<1> DEFINE Goal ==
      /\ pc' \in {"report", "health"} => health' = "absent"
      /\ "clear" \notin broken /\ pc' \in {"summary", "outputs", "exit", "decide"} \cup Posted =>
           /\ health' \in {"absent", boundary'}
           /\ "health" \notin broken /\ Sound' => health' = boundary'
<1> SUFFICES Goal
  BY <1>g DEF HealthInv
<1>r. Sound' = Sound \/ pc \notin Settled
  BY <1>l, <1>o
<1>1. CASE RestorePipCache
  BY <1>1, <1>a, <1>r DEF RestorePipCache, given, logging, failFast, dir, teardown,
     post, Reported, Posted, Settled
<1>2. CASE SetupFails
  BY <1>2, <1>a, <1>r DEF SetupFails, given, logging, failFast, env, dir, teardown,
     post, Reported, Posted, Settled
<1>3. CASE SetupPasses
  BY <1>3, <1>a, <1>r DEF SetupPasses, given, failFast, env, dir, teardown, post,
     Reported, Posted, Settled
<1>4. CASE StartWatcher
  BY <1>4, <1>a, <1>r DEF StartWatcher, given, logging, failFast, env, dir, teardown,
     post, Reported, Posted, Settled
<1>5. CASE Export
  BY <1>5, <1>a, <1>r DEF Export, given, logging, failFast, dir, teardown, post,
     Reported, Posted, Settled
<1>6. CASE ExportFails
  BY <1>6, <1>a, <1>r DEF ExportFails, given, failFast, dir, teardown, post,
     Reported, Posted, Settled
<1>7. CASE PersistSettings
  BY <1>7, <1>a, <1>r DEF PersistSettings, given, logging, failFast, dir, teardown,
     post, Reported, Posted, Settled
<1>8. CASE JobEnds
  BY <1>8, <1>a, <1>r DEF JobEnds, given, logging, failFast, env, dir, teardown,
     post, Reported, Posted, Settled
<1>9. CASE CheckBoundary
  BY <1>9, <1>a, <1>r DEF CheckBoundary, given, logging, failFast, env, dir, post,
     Reported, Posted, Settled
<1>10. CASE StopWatcher
  BY <1>10, <1>a, <1>r DEF StopWatcher, given, logging, env, dir, teardown, post,
     Reported, Posted, Settled
<1>11. CASE StopProxy
  BY <1>11, <1>a, <1>r DEF StopProxy, Stop, given, failFast, env, dir, teardown,
     post, Reported, Posted, Settled
<1>12. CASE StopDns
  BY <1>12, <1>a, <1>r DEF StopDns, Stop, given, failFast, env, dir, post, Reported,
     Posted, Settled
<1>13. CASE MergeConntrack
  BY <1>13, <1>a, <1>r DEF MergeConntrack, given, failFast, env, dir, teardown, post,
     Reported, Posted, Settled
<1>14. CASE AttachEvents
  BY <1>14, <1>a, <1>r DEF AttachEvents, given, failFast, env, dir, teardown, post,
     Reported, Posted, Settled
<1>15. CASE ClearReports
  BY <1>15, <1>a, <1>r DEF ClearReports, Abort, given, logging, failFast, env, dir,
     post, Reported, Posted, Settled
<1>16. CASE GenerateReport
  BY <1>16, <1>a, <1>r DEF GenerateReport, given, logging, failFast, env, post,
     Reported, Posted, Settled
<1>17. CASE CheckHealth
  <2>1. Sound => Range(log) \cap (Undecodable \cup {"odd"}) = {}
    BY DEF Sound
  <2> QED
    BY <1>17, <1>a, <1>r, <2>1 DEF CheckHealth, given, logging, failFast, env,
       teardown, post, Reported, Posted, Settled
<1>18. CASE WriteSummary
  BY <1>18, <1>a, <1>r DEF WriteSummary, Abort, given, logging, failFast, env, dir,
     post, Reported, Posted, Settled
<1>19. CASE SetOutputs
  BY <1>19, <1>a, <1>r DEF SetOutputs, Abort, given, logging, failFast, env, dir,
     Reported, Posted, Settled
<1>20. CASE TeardownExits
  BY <1>20, <1>a, <1>r DEF TeardownExits, given, logging, failFast, env, dir, post,
     Reported, Posted, Settled
<1>21. CASE Decide
  BY <1>21, <1>a, <1>r DEF Decide, given, logging, failFast, env, dir, teardown,
     Reported, Posted, Settled
<1>22. CASE SavePipCache
  BY <1>22, <1>a, <1>r DEF SavePipCache, given, logging, failFast, env, dir,
     teardown, Reported, Posted, Settled
<1>23. CASE UploadReport
  BY <1>23, <1>a, <1>r DEF UploadReport, given, logging, failFast, env, dir,
     teardown, Reported, Posted, Settled
<1>24. CASE Exit
  BY <1>24, <1>a, <1>r DEF Exit, given, logging, failFast, env, dir, teardown,
     Reported, Posted, Settled
<1>25. ASSUME NEW w \in Writers, NEW kind \in Verdicts, BeginRecord(w, kind)
       PROVE  Goal
  BY <1>25, <1>a, <1>r DEF BeginRecord, given, failFast, env, dir, teardown, post,
     Reported, Posted, Settled
<1>26. CASE FinishRecord
  BY <1>26, <1>a, <1>r DEF FinishRecord, given, failFast, env, dir, teardown, post,
     Reported, Posted, Settled
<1>27. ASSUME NEW line \in JobLines, Scribble(line) PROVE Goal
  BY <1>27, <1>a, <1>r DEF Scribble, given, failFast, env, dir, teardown, post,
     Reported, Posted, Settled
<1>28. CASE Tamper
  BY <1>28, <1>a, <1>r DEF Tamper, given, env, dir, teardown, post,
     Reported, Posted, Settled
<1>29. CASE Watch
  BY <1>29, <1>a, <1>r DEF Watch, given, logging, env, dir, teardown, post, Reported,
     Posted, Settled
<1>30. CASE UNCHANGED vars
  BY <1>30, <1>a, <1>r DEF vars, given, logging, failFast, env, dir, teardown, post,
     Reported, Posted, Settled
<1> QED
  BY <1>1, <1>2, <1>3, <1>4, <1>5, <1>6, <1>7, <1>8, <1>9, <1>10, <1>11, <1>12,
     <1>13, <1>14, <1>15, <1>16, <1>17, <1>18, <1>19, <1>20, <1>21, <1>22, <1>23,
     <1>24, <1>25, <1>26, <1>27, <1>28, <1>29, <1>30 DEF Next, Main, Teardown, Post

LEMMA NextOrigin ==
  TypeOK /\ OriginInv /\ [Next]_vars => OriginInv'
<1> SUFFICES ASSUME TypeOK, OriginInv, [Next]_vars
             PROVE  OriginInv'
  OBVIOUS
<1>g. inputs' = inputs /\ broken' = broken
  BY GivenStays
<1>a. /\ "clear" \notin broken /\ pc \in {"report", "decide"} \cup Reported \cup Posted =>
           origin = "own"
      /\ pc \notin {"restore", "setup", "watcher", "export", "settings"} =>
           (mayUpload <=> inputs.upload \/ "settings" \in broken)
      /\ pc \notin {"end", "over"} => uploaded = "nothing"
      /\ uploaded = "stale" => "clear" \in broken
      /\ uploaded # "nothing" => inputs.upload \/ "settings" \in broken
  BY DEF OriginInv, ShipsOwnReport
<1> DEFINE Goal ==
      /\ "clear" \notin broken /\ pc' \in {"report", "decide"} \cup Reported \cup Posted =>
           origin' = "own"
      /\ pc' \notin {"restore", "setup", "watcher", "export", "settings"} =>
           (mayUpload' <=> inputs.upload \/ "settings" \in broken)
      /\ pc' \notin {"end", "over"} => uploaded' = "nothing"
      /\ uploaded' = "stale" => "clear" \in broken
      /\ uploaded' # "nothing" => inputs.upload \/ "settings" \in broken
<1> SUFFICES Goal
  BY <1>g DEF OriginInv, ShipsOwnReport
<1>1. CASE RestorePipCache
  BY <1>1, <1>a DEF RestorePipCache, given, logging, failFast, dir, teardown, post,
     Reported, Posted
<1>2. CASE SetupFails
  BY <1>2, <1>a DEF SetupFails, given, logging, failFast, env, dir, teardown, post,
     Reported, Posted
<1>3. CASE SetupPasses
  BY <1>3, <1>a DEF SetupPasses, given, failFast, env, dir, teardown, post, Reported,
     Posted
<1>4. CASE StartWatcher
  BY <1>4, <1>a DEF StartWatcher, given, logging, failFast, env, dir, teardown, post,
     Reported, Posted
<1>5. CASE Export
  BY <1>5, <1>a DEF Export, given, logging, failFast, dir, teardown, post, Reported,
     Posted
<1>6. CASE ExportFails
  BY <1>6, <1>a DEF ExportFails, given, failFast, dir, teardown, post, Reported,
     Posted
<1>7. CASE PersistSettings
  BY <1>7, <1>a DEF PersistSettings, given, logging, failFast, dir, teardown, post,
     Reported, Posted
<1>8. CASE JobEnds
  BY <1>8, <1>a DEF JobEnds, given, logging, failFast, env, dir, teardown, post,
     Reported, Posted
<1>9. CASE CheckBoundary
  BY <1>9, <1>a DEF CheckBoundary, given, logging, failFast, env, dir, post,
     Reported, Posted
<1>10. CASE StopWatcher
  BY <1>10, <1>a DEF StopWatcher, given, logging, env, dir, teardown, post, Reported,
     Posted
<1>11. CASE StopProxy
  BY <1>11, <1>a DEF StopProxy, Stop, given, failFast, env, dir, teardown, post,
     Reported, Posted
<1>12. CASE StopDns
  BY <1>12, <1>a DEF StopDns, Stop, given, failFast, env, dir, post, Reported, Posted
<1>13. CASE MergeConntrack
  BY <1>13, <1>a DEF MergeConntrack, given, failFast, env, dir, teardown, post,
     Reported, Posted
<1>14. CASE AttachEvents
  BY <1>14, <1>a DEF AttachEvents, given, failFast, env, dir, teardown, post,
     Reported, Posted
<1>15. CASE ClearReports
  BY <1>15, <1>a DEF ClearReports, Abort, given, logging, failFast, env, dir, post,
     Reported, Posted
<1>16. CASE GenerateReport
  BY <1>16, <1>a DEF GenerateReport, given, logging, failFast, env, post, Reported,
     Posted
<1>17. CASE CheckHealth
  BY <1>17, <1>a DEF CheckHealth, given, logging, failFast, env, teardown, post,
     Reported, Posted
<1>18. CASE WriteSummary
  BY <1>18, <1>a DEF WriteSummary, Abort, given, logging, failFast, env, dir, post,
     Reported, Posted
<1>19. CASE SetOutputs
  BY <1>19, <1>a DEF SetOutputs, Abort, given, logging, failFast, env, dir, Reported,
     Posted
<1>20. CASE TeardownExits
  BY <1>20, <1>a DEF TeardownExits, given, logging, failFast, env, dir, post,
     Reported, Posted
<1>21. CASE Decide
  BY <1>21, <1>a DEF Decide, given, logging, failFast, env, dir, teardown, Reported,
     Posted
<1>22. CASE SavePipCache
  BY <1>22, <1>a DEF SavePipCache, given, logging, failFast, env, dir, teardown,
     Reported, Posted
<1>23. CASE UploadReport
  BY <1>23, <1>a DEF UploadReport, given, logging, failFast, env, dir, teardown,
     Reported, Posted
<1>24. CASE Exit
  BY <1>24, <1>a DEF Exit, given, logging, failFast, env, dir, teardown, Reported,
     Posted
<1>25. ASSUME NEW w \in Writers, NEW kind \in Verdicts, BeginRecord(w, kind)
       PROVE  Goal
  BY <1>25, <1>a DEF BeginRecord, given, failFast, env, dir, teardown, post,
     Reported, Posted
<1>26. CASE FinishRecord
  BY <1>26, <1>a DEF FinishRecord, given, failFast, env, dir, teardown, post,
     Reported, Posted
<1>27. ASSUME NEW line \in JobLines, Scribble(line) PROVE Goal
  BY <1>27, <1>a DEF Scribble, given, failFast, env, dir, teardown, post, Reported,
     Posted
<1>28. CASE Tamper
  BY <1>28, <1>a DEF Tamper, given, env, dir, teardown, post, Reported,
     Posted
<1>29. CASE Watch
  BY <1>29, <1>a DEF Watch, given, logging, env, dir, teardown, post, Reported, Posted
<1>30. CASE UNCHANGED vars
  BY <1>30, <1>a DEF vars, given, logging, failFast, env, dir, teardown, post,
     Reported, Posted
<1> QED
  BY <1>1, <1>2, <1>3, <1>4, <1>5, <1>6, <1>7, <1>8, <1>9, <1>10, <1>11, <1>12,
     <1>13, <1>14, <1>15, <1>16, <1>17, <1>18, <1>19, <1>20, <1>21, <1>22, <1>23,
     <1>24, <1>25, <1>26, <1>27, <1>28, <1>29, <1>30 DEF Next, Main, Teardown, Post

LEMMA NextDecide ==
  TypeOK /\ DecideInv /\ [Next]_vars => DecideInv'
<1> SUFFICES ASSUME TypeOK, DecideInv, [Next]_vars
             PROVE  DecideInv'
  OBVIOUS
<1>g. inputs' = inputs /\ broken' = broken
  BY GivenStays
<1>a. /\ pc \notin Posted => ~violation
      /\ pc \in Posted => (violation <=> Failing /\ ~OptsOut /\ "outputs" \notin broken)
      /\ exit = IF pc = "over" /\ violation THEN 1 ELSE 0
  BY DEF DecideInv, Over
<1>f. exported' = exported /\ report' = report /\ health' = health =>
        (Failing' <=> Failing) /\ (OptsOut' <=> OptsOut)
  BY DEF Failing, OptsOut, EnvMode, Unverified, BoundaryBroken
<1> DEFINE Goal ==
      /\ pc' \notin Posted => ~violation'
      /\ pc' \in Posted => (violation' <=> Failing' /\ ~OptsOut' /\ "outputs" \notin broken)
      /\ exit' = IF pc' = "over" /\ violation' THEN 1 ELSE 0
<1> SUFFICES Goal
  BY <1>g DEF DecideInv, Over
<1> HIDE DEF Failing, OptsOut
<1>1. CASE RestorePipCache
  BY <1>1, <1>a, <1>f DEF RestorePipCache, given, logging, failFast, dir, teardown,
     post, Posted
<1>2. CASE SetupFails
  BY <1>2, <1>a, <1>f DEF SetupFails, given, logging, failFast, env, dir, teardown,
     post, Posted
<1>3. CASE SetupPasses
  BY <1>3, <1>a, <1>f DEF SetupPasses, given, failFast, env, dir, teardown, post,
     Posted
<1>4. CASE StartWatcher
  BY <1>4, <1>a, <1>f DEF StartWatcher, given, logging, failFast, env, dir, teardown,
     post, Posted
<1>5. CASE Export
  BY <1>5, <1>a, <1>f DEF Export, given, logging, failFast, dir, teardown, post,
     Posted
<1>6. CASE ExportFails
  BY <1>6, <1>a, <1>f DEF ExportFails, given, failFast, dir, teardown, post, Posted
<1>7. CASE PersistSettings
  BY <1>7, <1>a, <1>f DEF PersistSettings, given, logging, failFast, dir, teardown,
     post, Posted
<1>8. CASE JobEnds
  BY <1>8, <1>a, <1>f DEF JobEnds, given, logging, failFast, env, dir, teardown,
     post, Posted
<1>9. CASE CheckBoundary
  BY <1>9, <1>a, <1>f DEF CheckBoundary, given, logging, failFast, env, dir, post,
     Posted
<1>10. CASE StopWatcher
  BY <1>10, <1>a, <1>f DEF StopWatcher, given, logging, env, dir, teardown, post,
     Posted
<1>11. CASE StopProxy
  BY <1>11, <1>a, <1>f DEF StopProxy, Stop, given, failFast, env, dir, teardown,
     post, Posted
<1>12. CASE StopDns
  BY <1>12, <1>a, <1>f DEF StopDns, Stop, given, failFast, env, dir, post, Posted
<1>13. CASE MergeConntrack
  BY <1>13, <1>a, <1>f DEF MergeConntrack, given, failFast, env, dir, teardown, post,
     Posted
<1>14. CASE AttachEvents
  BY <1>14, <1>a, <1>f DEF AttachEvents, given, failFast, env, dir, teardown, post,
     Posted
<1>15. CASE ClearReports
  BY <1>15, <1>a, <1>f DEF ClearReports, Abort, given, logging, failFast, env, dir,
     post, Posted
<1>16. CASE GenerateReport
  BY <1>16, <1>a, <1>f DEF GenerateReport, given, logging, failFast, env, post, Posted
<1>17. CASE CheckHealth
  BY <1>17, <1>a, <1>f DEF CheckHealth, given, logging, failFast, env, teardown,
     post, Posted
<1>18. CASE WriteSummary
  BY <1>18, <1>a, <1>f DEF WriteSummary, Abort, given, logging, failFast, env, dir,
     post, Posted
<1>19. CASE SetOutputs
  BY <1>19, <1>a, <1>f DEF SetOutputs, Abort, given, logging, failFast, env, dir,
     Posted
<1>20. CASE TeardownExits
  BY <1>20, <1>a, <1>f DEF TeardownExits, given, logging, failFast, env, dir, post,
     Posted
<1>21. CASE Decide
  BY <1>21, <1>a, <1>f DEF Decide, given, logging, failFast, env, dir, teardown,
     Posted
<1>22. CASE SavePipCache
  BY <1>22, <1>a, <1>f DEF SavePipCache, given, logging, failFast, env, dir,
     teardown, Posted
<1>23. CASE UploadReport
  BY <1>23, <1>a, <1>f DEF UploadReport, given, logging, failFast, env, dir,
     teardown, Posted
<1>24. CASE Exit
  BY <1>24, <1>a, <1>f DEF Exit, given, logging, failFast, env, dir, teardown, Posted
<1>25. ASSUME NEW w \in Writers, NEW kind \in Verdicts, BeginRecord(w, kind)
       PROVE  Goal
  BY <1>25, <1>a, <1>f DEF BeginRecord, given, failFast, env, dir, teardown, post,
     Posted
<1>26. CASE FinishRecord
  BY <1>26, <1>a, <1>f DEF FinishRecord, given, failFast, env, dir, teardown, post,
     Posted
<1>27. ASSUME NEW line \in JobLines, Scribble(line) PROVE Goal
  BY <1>27, <1>a, <1>f DEF Scribble, given, failFast, env, dir, teardown, post, Posted
<1>28. CASE Tamper
  BY <1>28, <1>a, <1>f DEF Tamper, given, env, dir, teardown, post, Posted
<1>29. CASE Watch
  BY <1>29, <1>a, <1>f DEF Watch, given, logging, env, dir, teardown, post, Posted
<1>30. CASE UNCHANGED vars
  BY <1>30, <1>a, <1>f DEF vars, given, logging, failFast, env, dir, teardown, post,
     Posted
<1> QED
  BY <1>1, <1>2, <1>3, <1>4, <1>5, <1>6, <1>7, <1>8, <1>9, <1>10, <1>11, <1>12,
     <1>13, <1>14, <1>15, <1>16, <1>17, <1>18, <1>19, <1>20, <1>21, <1>22, <1>23,
     <1>24, <1>25, <1>26, <1>27, <1>28, <1>29, <1>30 DEF Next, Main, Teardown, Post

LEMMA NextTeardownExit ==
  TypeOK /\ ReportInv /\ TeardownInv /\ [Next]_vars => TeardownInv'
<1> SUFFICES ASSUME TypeOK, ReportInv, TeardownInv, [Next]_vars
             PROVE  TeardownInv'
  OBVIOUS
<1>g. inputs' = inputs /\ broken' = broken
  BY GivenStays
<1>x. Spared({"clear", "report", "summary", "outputs", "cleanup"}) <=>
        /\ "clear" \notin broken /\ "report" \notin broken /\ "summary" \notin broken
        /\ "outputs" \notin broken /\ "cleanup" \notin broken
  BY DEF Spared
<1>s. SUFFICES ASSUME "clear" \notin broken, "report" \notin broken, "summary" \notin broken,
                      "outputs" \notin broken, "cleanup" \notin broken
               PROVE  TeardownInv'
  BY <1>g DEF TeardownInv, Spared
<1> DEFINE Found == /\ EnvMode = "enforce" /\ exported.failOn # "false"
                    /\ \/ boundary = "false"
                       \/ report.blocked > 0 \/ report.malformed > 0
<1>a. /\ pc \notin {"decide"} \cup Posted => reportOk
      /\ pc \in {"decide"} \cup Posted => teardownExit = IF Found THEN 1 ELSE 0
  BY <1>s, <1>x DEF TeardownInv
<1>f. exported' = exported /\ report' = report /\ boundary' = boundary =>
        (Found' <=> Found)
  BY DEF EnvMode
<1>k. pc \in Reported => report.kind = "whole"
  BY <1>s DEF ReportInv, Spared, ReportOf, Whole
<1>h. pc = "exit" => (EnvMode = "enforce" /\ TeardownFinds /\ exported.failOn # "false"
                        <=> Found)
  BY <1>a DEF TeardownFinds, Posted
<1> DEFINE Goal ==
      /\ pc' \notin {"decide"} \cup Posted => reportOk'
      /\ pc' \in {"decide"} \cup Posted => teardownExit' = IF Found' THEN 1 ELSE 0
<1> SUFFICES Goal
  BY DEF TeardownInv
<1> HIDE DEF Found
<1>1. CASE RestorePipCache
  BY <1>1, <1>a, <1>f, <1>s, <1>k, <1>h DEF RestorePipCache, given, logging,
     failFast, dir, teardown, post, Posted, Reported
<1>2. CASE SetupFails
  BY <1>2, <1>a, <1>f, <1>s, <1>k, <1>h DEF SetupFails, given, logging, failFast,
     env, dir, teardown, post, Posted, Reported
<1>3. CASE SetupPasses
  BY <1>3, <1>a, <1>f, <1>s, <1>k, <1>h DEF SetupPasses, given, failFast, env, dir,
     teardown, post, Posted, Reported
<1>4. CASE StartWatcher
  BY <1>4, <1>a, <1>f, <1>s, <1>k, <1>h DEF StartWatcher, given, logging, failFast,
     env, dir, teardown, post, Posted, Reported
<1>5. CASE Export
  BY <1>5, <1>a, <1>f, <1>s, <1>k, <1>h DEF Export, given, logging, failFast, dir,
     teardown, post, Posted, Reported
<1>6. CASE ExportFails
  BY <1>6, <1>a, <1>f, <1>s, <1>k, <1>h DEF ExportFails, given, failFast, dir,
     teardown, post, Posted, Reported
<1>7. CASE PersistSettings
  BY <1>7, <1>a, <1>f, <1>s, <1>k, <1>h DEF PersistSettings, given, logging,
     failFast, dir, teardown, post, Posted, Reported
<1>8. CASE JobEnds
  BY <1>8, <1>a, <1>f, <1>s, <1>k, <1>h DEF JobEnds, given, logging, failFast, env,
     dir, teardown, post, Posted, Reported
<1>9. CASE CheckBoundary
  BY <1>9, <1>a, <1>f, <1>s, <1>k, <1>h DEF CheckBoundary, given, logging, failFast,
     env, dir, post, Posted, Reported
<1>10. CASE StopWatcher
  BY <1>10, <1>a, <1>f, <1>s, <1>k, <1>h DEF StopWatcher, given, logging, env, dir,
     teardown, post, Posted, Reported
<1>11. CASE StopProxy
  BY <1>11, <1>a, <1>f, <1>s, <1>k, <1>h DEF StopProxy, Stop, given, failFast, env,
     dir, teardown, post, Posted, Reported
<1>12. CASE StopDns
  BY <1>12, <1>a, <1>f, <1>s, <1>k, <1>h DEF StopDns, Stop, given, failFast, env,
     dir, post, Posted, Reported
<1>13. CASE MergeConntrack
  BY <1>13, <1>a, <1>f, <1>s, <1>k, <1>h DEF MergeConntrack, given, failFast, env,
     dir, teardown, post, Posted, Reported
<1>14. CASE AttachEvents
  BY <1>14, <1>a, <1>f, <1>s, <1>k, <1>h DEF AttachEvents, given, failFast, env, dir,
     teardown, post, Posted, Reported
<1>15. CASE ClearReports
  BY <1>15, <1>a, <1>f, <1>s, <1>k, <1>h DEF ClearReports, Abort, given, logging,
     failFast, env, dir, post, Posted, Reported
<1>16. CASE GenerateReport
  BY <1>16, <1>a, <1>f, <1>s, <1>k, <1>h DEF GenerateReport, given, logging,
     failFast, env, post, Posted, Reported
<1>17. CASE CheckHealth
  BY <1>17, <1>a, <1>f, <1>s, <1>k, <1>h DEF CheckHealth, given, logging, failFast,
     env, teardown, post, Posted, Reported
<1>18. CASE WriteSummary
  BY <1>18, <1>a, <1>f, <1>s, <1>k, <1>h DEF WriteSummary, Abort, given, logging,
     failFast, env, dir, post, Posted, Reported
<1>19. CASE SetOutputs
  BY <1>19, <1>a, <1>f, <1>s, <1>k, <1>h DEF SetOutputs, Abort, given, logging,
     failFast, env, dir, Posted, Reported
<1>20. CASE TeardownExits
  BY <1>20, <1>a, <1>f, <1>s, <1>k, <1>h DEF TeardownExits, given, logging, failFast,
     env, dir, post, Posted, Reported
<1>21. CASE Decide
  BY <1>21, <1>a, <1>f, <1>s, <1>k, <1>h DEF Decide, given, logging, failFast, env,
     dir, teardown, Posted, Reported
<1>22. CASE SavePipCache
  BY <1>22, <1>a, <1>f, <1>s, <1>k, <1>h DEF SavePipCache, given, logging, failFast,
     env, dir, teardown, Posted, Reported
<1>23. CASE UploadReport
  BY <1>23, <1>a, <1>f, <1>s, <1>k, <1>h DEF UploadReport, given, logging, failFast,
     env, dir, teardown, Posted, Reported
<1>24. CASE Exit
  BY <1>24, <1>a, <1>f, <1>s, <1>k, <1>h DEF Exit, given, logging, failFast, env,
     dir, teardown, Posted, Reported
<1>25. ASSUME NEW w \in Writers, NEW kind \in Verdicts, BeginRecord(w, kind)
       PROVE  Goal
  BY <1>25, <1>a, <1>f, <1>s, <1>k, <1>h DEF BeginRecord, given, failFast, env, dir,
     teardown, post, Posted, Reported
<1>26. CASE FinishRecord
  BY <1>26, <1>a, <1>f, <1>s, <1>k, <1>h DEF FinishRecord, given, failFast, env, dir,
     teardown, post, Posted, Reported
<1>27. ASSUME NEW line \in JobLines, Scribble(line) PROVE Goal
  BY <1>27, <1>a, <1>f, <1>s, <1>k, <1>h DEF Scribble, given, failFast, env, dir,
     teardown, post, Posted, Reported
<1>28. CASE Tamper
  BY <1>28, <1>a, <1>f, <1>s, <1>k, <1>h DEF Tamper, given, env, dir,
     teardown, post, Posted, Reported
<1>29. CASE Watch
  BY <1>29, <1>a, <1>f, <1>s, <1>k, <1>h DEF Watch, given, logging, env, dir,
     teardown, post, Posted, Reported
<1>30. CASE UNCHANGED vars
  BY <1>30, <1>a, <1>f, <1>s, <1>k, <1>h DEF vars, given, logging, failFast, env,
     dir, teardown, post, Posted, Reported
<1> QED
  BY <1>1, <1>2, <1>3, <1>4, <1>5, <1>6, <1>7, <1>8, <1>9, <1>10, <1>11, <1>12,
     <1>13, <1>14, <1>15, <1>16, <1>17, <1>18, <1>19, <1>20, <1>21, <1>22, <1>23,
     <1>24, <1>25, <1>26, <1>27, <1>28, <1>29, <1>30 DEF Next, Main, Teardown, Post

-----------------------------------------------------------------------------
VerdictInv == /\ TypeOK /\ WriteInv /\ RefusalInv /\ ExportInv /\ ReportInv
              /\ HealthInv /\ OriginInv /\ DecideInv /\ TeardownInv

LEMMA VerdictInvariant == Spec => []VerdictInv
<1>1. Init => VerdictInv
  <2> SUFFICES ASSUME Init PROVE VerdictInv
    OBVIOUS
  <2>1. ScriptType
    BY DEF Init, ScriptType
  <2>2. LogType
    <3>1. <<"blocked">> \in Seq(Lines) /\ <<>> \in Seq(Lines)
      BY EmptySeq DEF Lines, Verdicts
    <3>2. refused \in BOOLEAN /\ tampered \in BOOLEAN
      BY Zenon DEF Init
    <3> QED
      BY <3>1, <3>2 DEF Init, LogType
  <2>3. WatchType
    <3>1. missed \in BOOLEAN /\ cancelled \in BOOLEAN
      BY Zenon DEF Init
    <3> QED
      BY <3>1 DEF Init, WatchType
  <2>4. EnvType
    <3>1. mayUpload \in BOOLEAN /\ saveKey \in BOOLEAN /\ FALSE \in BOOLEAN
      BY Zenon DEF Init
    <3>2. exported \in [mode : {""} \cup Modes, failOn : {"", inputs.failOn}, watcher : BOOLEAN]
      BY <3>1 DEF Init, Unset, Exported
    <3> QED
      BY <3>1, <3>2 DEF EnvType
  <2>5. DirType
    BY DEF Init, DirType, Absent, Whole
  <2>6. TeardownType
    <3>1. reportOk \in BOOLEAN /\ garbled \in BOOLEAN
      BY Zenon DEF Init
    <3> QED
      BY <3>1 DEF Init, TeardownType
  <2>7. PostType
    <3>1. violation \in BOOLEAN /\ saved \in BOOLEAN
      BY Zenon DEF Init
    <3> QED
      BY <3>1 DEF Init, PostType
  <2>8. TypeOK
    BY <2>1, <2>2, <2>3, <2>4, <2>5, <2>6, <2>7, TypeParts
  <2>9. WriteInv /\ ReportInv /\ HealthInv /\ OriginInv /\ TeardownInv
    BY DEF Init, WriteInv, ReportInv, HealthInv, OriginInv, TeardownInv,
       ShipsOwnReport,
       Reported, Posted
  <2>10. ExportInv
    BY DEF Init, ExportInv, Unset, Exported
  <2>11. RefusalInv
    BY DEF Init, RefusalInv, Unset, Exported
  <2>12. DecideInv
    BY DEF Init, DecideInv, Posted, Over
  <2> QED
    BY <2>8, <2>9, <2>10, <2>11, <2>12 DEF VerdictInv
<1>2. VerdictInv /\ [Next]_vars => VerdictInv'
  <2> SUFFICES ASSUME VerdictInv, [Next]_vars PROVE VerdictInv'
    OBVIOUS
  <2> USE DEF VerdictInv
  <2>1. TypeOK' /\ WriteInv' /\ RefusalInv' /\ ExportInv'
    BY NextType, NextWrite, NextRefusal, NextExport
  <2>2. ReportInv' /\ HealthInv' /\ OriginInv' /\ DecideInv' /\ TeardownInv'
    BY NextReport, NextHealth, NextOrigin, NextDecide, NextTeardownExit
  <2> QED
    BY <2>1, <2>2
<1> QED
  BY <1>1, <1>2, PTL DEF Spec

(* The scripts, the log, the watcher and the report stay well typed.       *)
THEOREM TypeCorrect == Spec => []TypeOK
<1>1. VerdictInv => TypeOK
  BY DEF VerdictInv
<1> QED
  BY <1>1, VerdictInvariant, PTL

(* What the report says of the log, and the health check of the boundary,  *)
(* where teardown.sh came to clear the directory.                          *)
LEMMA Judged ==
  ASSUME VerdictInv, Over, "clear" \notin broken
  PROVE  /\ log \in Seq(Lines)
         /\ report \in {Absent, Torn, ReportOf}
         /\ "report" \notin broken => report = ReportOf
         /\ report = ReportOf =>
              /\ report.kind = "whole"
              /\ report.blocked > 0 <=> "blocked" \in Range(log)
              /\ report.malformed > 0 <=> Range(log) \cap Malformed # {}
         /\ health \in {"absent", boundary}
         /\ "health" \notin broken /\ "latin" \notin Range(log) /\ Range(log) \cap Malformed = {}
              => health = boundary
<1>1. log \in Seq(Lines)
  BY TypeParts DEF VerdictInv, LogType
<1>2. /\ report \in {Absent, Torn, ReportOf}
      /\ "report" \notin broken => report = ReportOf
  BY DEF VerdictInv, ReportInv, Over, Posted, Spared
<1>3. /\ ReportOf.kind = "whole"
      /\ ReportOf.blocked = CountOf({"blocked"})
      /\ ReportOf.malformed = CountOf(Malformed)
  BY DEF ReportOf, Whole
<1>4. /\ CountOf({"blocked"}) > 0 <=> Range(log) \cap {"blocked"} # {}
      /\ CountOf(Malformed) > 0 <=> Range(log) \cap Malformed # {}
  BY <1>1, CountFacts
<1>5. /\ health \in {"absent", boundary}
      /\ "health" \notin broken /\ Sound => health = boundary
  BY DEF VerdictInv, HealthInv, Over, Posted
<1>6. "latin" \notin Range(log) /\ Range(log) \cap Malformed = {} => Sound
  BY DEF Sound, Malformed, Unparsable, Undecodable
<1> HIDE DEF ReportOf, Malformed
<1> QED
  BY <1>1, <1>2, <1>3, <1>4, <1>5, <1>6

(* In an enforcing job each of these fails the job: a refusal the log has, *)
(* where the job did not edit it; a broken boundary, where no record is    *)
(* undecodable; and a line that is no record.                              *)
THEOREM ViolationFails == Spec => []ViolationFailsJob
<1>1. VerdictInv => ViolationFailsJob
  <2> SUFFICES ASSUME VerdictInv, Over, Enforced, Spared({"clear", "outputs"}),
                      \/ refused /\ ~tampered /\ Spared({"rewrite"})
                      \/ boundary = "false" /\ "latin" \notin Range(log) /\ Spared({"health"})
                      \/ Range(log) \cap Malformed # {}
               PROVE  exit = 1
    BY DEF ViolationFailsJob
  <2>1. "clear" \notin broken /\ "outputs" \notin broken
    BY DEF Spared
  <2>2. EnvMode = "enforce" /\ ~OptsOut
    <3>1. exported.mode = "enforce" /\ exported.failOn = inputs.failOn
      BY DEF VerdictInv, ExportInv, Enforced, Over
    <3> QED
      BY <3>1 DEF EnvMode, OptsOut, Enforced
  <2>3. \/ "blocked" \in Range(log) \/ Range(log) \cap Malformed # {}
        \/ boundary = "false" /\ "latin" \notin Range(log) /\ "health" \notin broken
    BY DEF VerdictInv, RefusalInv, Spared
  <2>4. report.blocked > 0 \/ Unverified \/ BoundaryBroken
    <3>1. CASE report \in {Absent, Torn}
      BY <3>1 DEF Absent, Torn, Unverified
    <3>2. CASE report = ReportOf
      <4> HIDE DEF ReportOf
      <4>1. \/ report.blocked > 0 \/ report.malformed > 0
            \/ boundary = "false" /\ health = boundary
        BY <2>1, <2>3, <3>2, Judged
      <4> QED
        BY <4>1 DEF Unverified, BoundaryBroken
    <3> QED
      BY <2>1, <3>1, <3>2, Judged
  <2>5. violation
    BY <2>1, <2>2, <2>4 DEF VerdictInv, DecideInv, Over, Posted, Failing
  <2> QED
    BY <2>5 DEF VerdictInv, DecideInv
<1> QED
  BY <1>1, VerdictInvariant, PTL

(* Nothing else fails it, but what was in a log no canary emptied, what a  *)
(* job wrote there itself, and a report nobody could make.                 *)
THEOREM ViolationsOnly == Spec => []OnlyViolationsFail
<1>1. VerdictInv => OnlyViolationsFail
  <2> SUFFICES ASSUME VerdictInv, Over, exit = 1
               PROVE  /\ EnvMode = "enforce" /\ ~OptsOut
                      /\ \/ refused \/ Range(log) \cap Malformed # {}
                         \/ boundary = "false" \/ Canary # "true" \/ tampered
                         \/ ~Spared({"report", "clear"})
    BY DEF OnlyViolationsFail
  <2>1. Failing /\ ~OptsOut
    BY DEF VerdictInv, DecideInv, Over, Posted
  <2>2. EnvMode = "enforce" /\ (report.blocked > 0 \/ Unverified \/ BoundaryBroken)
    BY <2>1 DEF Failing
  <2>3. ASSUME Spared({"report", "clear"}), ~refused, Canary = "true", ~tampered,
               Range(log) \cap Malformed = {}
        PROVE  boundary = "false"
    <3>1. "clear" \notin broken /\ "report" \notin broken
      BY <2>3 DEF Spared
    <3>2. "blocked" \notin Range(log)
      <4>1. exported.mode # ""
        BY <2>2 DEF EnvMode
      <4> QED
        BY <2>3, <4>1 DEF VerdictInv, RefusalInv
    <3>3. report = ReportOf
      BY <3>1, Judged
    <3>4. report.kind = "whole" /\ ~(report.blocked > 0) /\ ~(report.malformed > 0)
      BY <2>3, <3>1, <3>2, <3>3, Judged
    <3>5. health = "false" /\ health \in {"absent", boundary}
      BY <2>2, <3>1, <3>4, Judged DEF Unverified, BoundaryBroken
    <3> QED
      BY <3>5
  <2> QED
    BY <2>1, <2>2, <2>3
<1> QED
  BY <1>1, VerdictInvariant, PTL

(* teardown.sh and decide.js come to the same verdict, for the spellings   *)
(* both know, unless an undecodable record hid a broken boundary.          *)
THEOREM VerdictsAgree == Spec => []EntryPointsAgree
<1>1. VerdictInv => EntryPointsAgree
  <2> SUFFICES ASSUME VerdictInv, Over, inputs.failOn # "CAPITAL",
                      boundary = "false" => "latin" \notin Range(log),
                      Spared({"clear", "report", "health", "summary", "outputs",
                      "cleanup"})
               PROVE  teardownExit = exit
    BY DEF EntryPointsAgree
  <2>1. /\ "clear" \notin broken /\ "report" \notin broken /\ "health" \notin broken
        /\ "summary" \notin broken /\ "outputs" \notin broken /\ "cleanup" \notin broken
    BY DEF Spared
  <2>2. OptsOut <=> exported.failOn = "false"
    <3>1. exported.failOn \in {"", inputs.failOn}
      BY DEF VerdictInv, ExportInv
    <3> QED
      BY <3>1 DEF OptsOut
  <2>3. report = ReportOf
    BY <2>1, Judged
  <2>4. /\ report.kind = "whole"
        /\ report.malformed > 0 <=> Range(log) \cap Malformed # {}
        /\ health \in {"absent", boundary}
        /\ "latin" \notin Range(log) /\ Range(log) \cap Malformed = {} => health = boundary
    BY <2>1, <2>3, Judged
  <2>5. Failing <=> /\ EnvMode = "enforce"
                    /\ \/ boundary = "false"
                       \/ report.blocked > 0 \/ report.malformed > 0
    BY <2>4 DEF Failing, Unverified, BoundaryBroken
  <2>6. violation <=> Failing /\ exported.failOn # "false"
    BY <2>1, <2>2 DEF VerdictInv, DecideInv, Over, Posted
  <2>7. exit = IF violation THEN 1 ELSE 0
    BY DEF VerdictInv, DecideInv
  <2>8. teardownExit = IF /\ EnvMode = "enforce" /\ exported.failOn # "false"
                          /\ \/ boundary = "false"
                             \/ report.blocked > 0 \/ report.malformed > 0
                       THEN 1 ELSE 0
    <3>1. Spared({"clear", "report", "summary", "outputs", "cleanup"})
      BY DEF Spared
    <3> QED
      BY <3>1 DEF VerdictInv, TeardownInv, Over, Posted
  <2> QED
    BY <2>5, <2>6, <2>7, <2>8
<1> QED
  BY <1>1, VerdictInvariant, PTL

(* The report that is uploaded is this run's, and the workflow's wish is   *)
(* respected.                                                              *)
THEOREM OwnReportShipped == Spec => []ShipsOwnReport
<1>1. VerdictInv => ShipsOwnReport
  BY DEF VerdictInv, OriginInv
<1> QED
  BY <1>1, VerdictInvariant, PTL
=============================================================================
