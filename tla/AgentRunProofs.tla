-------------------------- MODULE AgentRunProofs --------------------------
(***************************************************************************)
(* For every number of steps and every identity: what an agent run may do, *)
(* and what its log says of it, wherever it fails or is cut off.           *)
(***************************************************************************)
EXTENDS EvalDataset, FiniteSetTheorems, TLAPS

Early == {"start", "safety", "review", "refuse", "memory", "clarify"}
Deciding == {"save", "route", "skip"}
Loop == {"plan", "fallback", "act", "execute", "observe", "exhausted"}
Closing == {"respond", "complete", "snapshot"}

Idle == memories = {} /\ saved = {} /\ effects = {} /\ late = {} /\ trace = <<>>

\* What the gates have decided, at each point of the run.
GateInv ==
  /\ pc \in Early \ {"memory", "clarify"} => memory = "unchecked"
  /\ pc \in {"start", "safety"} => safety = "unchecked"
  /\ pc \in {"review", "refuse"} => safety \in {"review", "refuse"}
  /\ pc = "memory" => safety = "allow" /\ memory = "unchecked"
  /\ pc = "clarify" => memory = "clarify"
  /\ pc \in Deciding \cup Loop => safety = "allow" /\ memory \in {"skip", "save"}
  /\ pc = "save" => memory = "save"
  /\ (safety # "allow" \/ memory \in {"unchecked", "clarify"}) => Idle

\* Where the loop is.
LoopInv ==
  /\ pc \in Early \cup Deciding => step = 0 /\ trace = <<>>
  /\ pc \in Early \cup Deciding \cup Loop =>
       \/ status = "running"
       \/ pc = "fallback" /\ tool[step] = "none" /\ status = "completed"
  /\ pc = "fallback" /\ tool[step] = "none" => status = "completed"
  /\ pc \in {"plan", "exhausted", "observe"} => Len(trace) = step
  /\ pc = "plan" => step < MaxSteps
  /\ pc = "exhausted" => step = MaxSteps
  /\ pc \in {"fallback", "act", "execute", "observe"} => step \in Steps
  /\ pc \in {"fallback", "act", "execute"} => Len(trace) = step - 1
  /\ pc \in Loop => \A n \in 1..Len(trace) : tool[n] # "none"
  /\ pc \in {"act", "execute", "observe"} => tool[step] # "none"
  /\ \A n \in Steps : n > step => tool[n] = "none"
  /\ IncompleteIsExhausted

\* The event file: what its warnings do not cover is there, and only an event
\* that has one can be lost to what is appended to it.
FileTypeOK ==
  /\ held \subseteq DOMAIN log
  /\ tail \in {"clean", "noeol", "partial"}
  /\ warned \subseteq DOMAIN log

FileInv ==
  /\ \A i \in DOMAIN log : InFile(i)
  /\ tail # "clean" => Len(log) \in warned
  /\ tail = "noeol" => \A i \in held : (\A j \in held : j <= i) => i \in warned

\* What the log accounts for, in the file or not.
ToolsInLog ==
  /\ \A n \in Steps : (n \in effects \cup late \/ n <= Len(trace)) => InLog("tool_started", n)
  /\ \A n \in 1..Len(trace) :
       (n < Len(trace) \/ status \in {"completed", "incomplete"}) => InLog("tool_observation", n)

LogInv ==
  /\ ToolsInLog
  /\ pc = "execute" => InLog("tool_started", step)
  /\ pc \in Loop \ {"observe"} => \A n \in 1..Len(trace) : InLog("tool_observation", n)

\* The log and the result agree unless something has failed.
VerdictIsLast ==
  pc = "returned" =>
    IF status = "failed"
      THEN Last(log).type = "run_failed"
      ELSE Last(log).type = "run_completed" /\ events = log

VerdictInv ==
  /\ pc \in Doing \ {"failing", "fail_snapshot"} => events = log
  /\ pc \in {"complete", "snapshot", "respond"} => status \notin {"running", "failed"}
  /\ pc = "snapshot" => log # <<>> /\ Last(log).type = "run_completed"
  /\ pc = "fail_snapshot" =>
       status = "failed" /\ log # <<>> /\ Last(log).type = "run_failed"
  /\ VerdictIsLast

\* Where memories come from.
MemoriesInLog ==
  /\ saved \subseteq memories
  /\ InLog("memory_saved", 0) => <<identity, 0>> \in memories
  /\ \A m \in memories :
       IF m[2] = 0 THEN memory = "save"
       ELSE tool[m[2]] = "memory.add" /\ InLog("tool_started", m[2])

MemoryInv ==
  /\ MemoriesInLog
  /\ \A n \in late : tool[n] # "none" /\ InLog("tool_started", n)

Inv ==
  /\ TypeOK
  /\ FileInv
  /\ GateInv
  /\ LoopInv
  /\ LogInv
  /\ VerdictInv
  /\ MemoryInv
---------------------------------------------------------------------------
\* Appending to a log keeps what it holds.
LEMMA AppendKeeps ==
  ASSUME NEW S, NEW s \in Seq(S), NEW e \in S
  PROVE  /\ Append(s, e) \in Seq(S)
         /\ Append(s, e) # <<>>
         /\ Last(Append(s, e)) = e
         /\ Contains(Append(s, e), e)
         /\ \A x : Contains(Append(s, e), x) <=> Contains(s, x) \/ x = e
  <1>1. /\ Append(s, e) \in Seq(S)
        /\ Len(Append(s, e)) = Len(s) + 1
        /\ Append(s, e)[Len(s) + 1] = e
        /\ \A i \in 1..Len(s) : Append(s, e)[i] = s[i]
        /\ Len(s) \in Nat
    OBVIOUS
  <1>2. QED
    BY <1>1 DEF Last, Contains

\* Both ways a record_event may go.
LEMMA RecordOutcome ==
  ASSUME log \in Seq(Events), events \in Seq(Events),
         NEW type \in EventTypes, NEW n \in 0..MaxSteps, NEW next,
         Record(type, n, next)
  PROVE  /\ log' \in Seq(Events)
         /\ events' \in Seq(Events)
         /\ \A x : Contains(log, x) => Contains(log', x)
         /\ \/ /\ pc' = next
               /\ log' = Append(log, Event(type, n)) /\ events' = Append(events, Event(type, n))
               /\ log' # <<>> /\ Last(log').type = type
               /\ Contains(log', Event(type, n))
            \/ pc' = Raised
  <1>1. Event(type, n) \in Events /\ Event(type, n).type = type
    BY DEF Event, Events
  <1>2. CASE /\ log' = Append(log, Event(type, n))
             /\ events' = Append(events, Event(type, n))
             /\ pc' = next
    BY <1>1, <1>2, AppendKeeps
  <1>3. CASE log' = log /\ events' = events /\ pc' = Raised
    BY <1>3
  <1>4. CASE log' = Append(log, Event(type, n)) /\ events' = events /\ pc' = Raised
    BY <1>1, <1>4, AppendKeeps
  <1>5. QED
    BY <1>2, <1>3, <1>4 DEF Record, recordVars

\* A run starts in the invariant.
LEMMA InitInv == Init => Inv
  <1> SUFFICES ASSUME Init PROVE Inv
    OBVIOUS
  <1> USE AgentAssumption DEF Init, Early, Deciding, Loop, Doing, Over
  <1>1. TypeOK
    <2>1. tool \in [Steps -> Tools \cup {"none"}]
      OBVIOUS
    <2>2. trace \in Seq(BOOLEAN) /\ Len(trace) = 0 /\ events \in Seq(Events) /\ log \in Seq(Events)
      OBVIOUS
    <2>3. step \in 0..MaxSteps /\ Len(trace) <= MaxSteps
      BY <2>2
    <2>4. /\ saved \subseteq Memories /\ memories \subseteq Memories
          /\ effects \subseteq Steps /\ late \subseteq Steps
      OBVIOUS
    <2>5. held = {} /\ warned = {} /\ tail = "clean"
      OBVIOUS
    <2>6. QED
      BY <2>1, <2>2, <2>3, <2>4, <2>5 DEF TypeOK, Statuses
  <1>2. GateInv /\ LoopInv
    BY DEF GateInv, LoopInv, Idle, IncompleteIsExhausted, Steps
  <1>3. \A type, n : ~InLog(type, n)
    BY DEF InLog, Contains
  <1>4. LogInv /\ VerdictInv /\ MemoryInv
    BY <1>3 DEF LogInv, VerdictInv, MemoryInv, ToolsInLog, VerdictIsLast, MemoriesInLog
  <1>5. FileInv
    BY DEF FileInv
  <1>6. QED
    BY <1>1, <1>2, <1>4, <1>5 DEF Inv

\* An exception ends in the failure report or leaves run_typed.
LEMMA RaisedType == Raised \in {"failing", "escaped"}
  BY DEF Raised

\* A step records an event of the run, or leaves the log and the file alone.
LEMMA Records ==
  ASSUME Inv, [Next]_vars
  PROVE  \/ \E type \in EventTypes, n \in 0..MaxSteps :
              (type = "memory_saved" => SaveMemory) /\ \E next : Record(type, n, next)
         \/ UNCHANGED recordVars
  <1> USE AgentAssumption DEF EventTypes
  <1>1. step \in 0..MaxSteps /\ 0 \in 0..MaxSteps
    BY DEF Inv, TypeOK
  <1>2. ASSUME Start \/ CheckSafety \/ QueueReview \/ Refuse
        PROVE  \E type \in EventTypes, n \in 0..MaxSteps :
                 type # "memory_saved" /\ \E next : Record(type, n, next)
    <2>1. CASE Start
      BY <1>1, <2>1 DEF Start
    <2>2. CASE CheckSafety
      BY <1>1, <2>2 DEF CheckSafety
    <2>3. CASE QueueReview
      BY <1>1, <2>3 DEF QueueReview
    <2>4. CASE Refuse
      BY <1>1, <2>4 DEF Refuse
    <2>5. QED
      BY <1>2, <2>1, <2>2, <2>3, <2>4
  <1>3. ASSUME EvaluateMemory \/ Clarify \/ SkipPlanner \/ Fallback
        PROVE  \E type \in EventTypes, n \in 0..MaxSteps :
                 type # "memory_saved" /\ \E next : Record(type, n, next)
    <2>1. CASE EvaluateMemory
      BY <1>1, <2>1 DEF EvaluateMemory
    <2>2. CASE Clarify
      BY <1>1, <2>2 DEF Clarify
    <2>3. CASE SkipPlanner
      BY <1>1, <2>3 DEF SkipPlanner
    <2>4. CASE Fallback
      BY <1>1, <2>4 DEF Fallback
    <2>5. QED
      BY <1>3, <2>1, <2>2, <2>3, <2>4
  <1>4. ASSUME StartTool \/ Observe \/ Respond \/ Complete \/ Fail
        PROVE  \E type \in EventTypes, n \in 0..MaxSteps :
                 type # "memory_saved" /\ \E next : Record(type, n, next)
    <2>1. CASE StartTool
      BY <1>1, <2>1 DEF StartTool
    <2>2. CASE Observe
      BY <1>1, <2>2 DEF Observe
    <2>3. CASE Respond
      BY <1>1, <2>3 DEF Respond
    <2>4. CASE Complete
      BY <1>1, <2>4 DEF Complete
    <2>5. CASE Fail
      BY <1>1, <2>5 DEF Fail
    <2>6. QED
      BY <1>4, <2>1, <2>2, <2>3, <2>4, <2>5
  <1>5. ASSUME Plan
        PROVE  \E type \in EventTypes, n \in 0..MaxSteps :
                 type # "memory_saved" /\ \E next : Record(type, n, next)
    <2>1. step + 1 \in 0..MaxSteps
      BY <1>1, <1>5 DEF Plan, Inv, LoopInv
    <2>2. QED
      BY <1>5, <2>1 DEF Plan
  <1>6. ASSUME SaveMemory
        PROVE  Record("memory_saved", 0, "route")
    BY <1>6 DEF SaveMemory
  <1>7. SaveRaises \/ Route \/ Execute \/ LateEffect \/ Exhausted \/ Return \/ DependencyRaises
        \/ Crash \/ UNCHANGED vars => UNCHANGED recordVars
    BY DEF SaveRaises, Route, Execute, LateEffect, Exhausted, Return, DependencyRaises, Crash, vars
  <1>8. QED
    BY <1>1, <1>2, <1>3, <1>4, <1>5, <1>6, <1>7 DEF Next, RunStep

\* The file, whatever becomes of the write of an event.
LEMMA FileStep == Inv /\ [Next]_vars => FileTypeOK' /\ FileInv'
  <1> SUFFICES ASSUME Inv, [Next]_vars PROVE FileTypeOK' /\ FileInv'
    OBVIOUS
  <1> USE DEF FileTypeOK, FileInv, InFile
  <1>1. /\ log \in Seq(Events) /\ Len(log) \in Nat /\ DOMAIN log = 1..Len(log)
        /\ FileTypeOK /\ FileInv
    BY DEF Inv, TypeOK
  <1>2. ASSUME NEW type \in EventTypes, NEW n \in 0..MaxSteps, log' = Append(log, Event(type, n)),
               Written
        PROVE  FileTypeOK' /\ FileInv'
    <2> DEFINE i == Len(log) + 1
    <2>1. Len(log') = i /\ DOMAIN log' = 1..i /\ 1..i = 1..Len(log) \cup {i}
      <3>1. Event(type, n) \in Events
        BY DEF Event, Events
      <3>2. QED
        BY <1>1, <1>2, <3>1
    <2>2. /\ Unglued \subseteq held
          /\ \A j \in held \ Unglued : j \in warned
      BY <1>1 DEF Unglued
    <2>3. /\ WithLine \subseteq held \cup {i}
          /\ \A j \in held \ WithLine : j \in warned
          /\ tail = "clean" => WithLine = held \cup {i}
          /\ tail # "clean" => WithLine = Unglued
      BY <1>1, <2>2 DEF WithLine
    <2>4. /\ held' \in {held, Unglued, WithLine}
          /\ warned' \in {warned, warned \cup {i}}
          /\ tail' \in {"clean", "noeol", "partial", tail}
          /\ warned' = warned => held' = WithLine /\ tail' = "clean"
          /\ tail' = "noeol" => \/ held' = held /\ tail = "noeol"
                                \/ held' = held \cup {i} /\ warned' = warned \cup {i}
      <3>1. i \notin warned /\ tail \in {"clean", "noeol", "partial"}
        BY <1>1
      <3>2. CASE held' = WithLine /\ tail' = "clean" /\ warned' = warned
        BY <3>1, <3>2
      <3>3. CASE warned' = warned \cup {i} /\ UNCHANGED <<held, tail>>
        BY <3>1, <3>3
      <3>4. CASE warned' = warned \cup {i} /\ held' = Unglued /\ tail' = "partial"
        BY <3>1, <3>4
      <3>5. CASE /\ warned' = warned \cup {i} /\ held' = WithLine
                 /\ tail' \in {"clean", IF tail = "clean" THEN "noeol" ELSE "partial"}
        BY <2>3, <3>1, <3>5
      <3>6. QED
        BY <1>2, <3>2, <3>3, <3>4, <3>5 DEF Written
    <2>5. FileTypeOK'
      BY <1>1, <2>1, <2>2, <2>3, <2>4
    <2>6. \A j \in DOMAIN log' : InFile(j)'
      <3>1. ASSUME NEW j \in 1..Len(log)
            PROVE  j \in held' \/ {j - 1, j} \cap warned' # {}
        <4>1. j \in held \/ {j - 1, j} \cap warned # {}
          BY <1>1
        <4>2. CASE j \in held
          BY <2>2, <2>3, <2>4, <4>2
        <4>3. CASE {j - 1, j} \cap warned # {}
          BY <2>4, <4>3
        <4>4. QED
          BY <4>1, <4>2, <4>3
      <3>2. i \in held' \/ {i - 1, i} \cap warned' # {}
        <4>1. CASE warned' = warned
          <5>1. tail = "clean" => i \in held'
            BY <2>3, <2>4, <4>1
          <5>2. tail # "clean" => i - 1 \in warned'
            BY <1>1, <4>1
          <5>3. QED
            BY <5>1, <5>2
        <4>2. CASE warned' = warned \cup {i}
          BY <4>2
        <4>3. QED
          BY <2>4, <4>1, <4>2
      <3>3. QED
        BY <2>1, <3>1, <3>2
    <2>7. tail' # "clean" => Len(log') \in warned'
      BY <2>1, <2>4
    <2>8. ASSUME tail' = "noeol", NEW j \in held', \A k \in held' : k <= j
          PROVE  j \in warned'
      <3>1. CASE held' = held /\ tail = "noeol"
        BY <1>1, <2>4, <2>8, <3>1
      <3>2. CASE held' = held \cup {i} /\ warned' = warned \cup {i}
        <4>1. i <= j /\ (j \in held => j <= Len(log))
          BY <1>1, <2>8, <3>2
        <4>2. j \notin held
          BY <1>1, <4>1
        <4>3. QED
          BY <2>8, <3>2, <4>2
      <3>3. QED
        BY <2>4, <2>8, <3>1, <3>2
    <2>9. QED
      BY <2>5, <2>6, <2>7, <2>8
  <1>3. ASSUME UNCHANGED recordVars PROVE FileTypeOK' /\ FileInv'
    BY <1>1, <1>3 DEF recordVars, fileVars
  <1>4. QED
    BY <1>2, <1>3, Records DEF Record

\* Typing, action by action; what is recorded is an event of the run.
LEMMA TypeStep == Inv /\ [Next]_vars => TypeOK'
  <1> SUFFICES ASSUME Inv, [Next]_vars PROVE TypeOK'
    OBVIOUS
  <1>f. FileTypeOK'
    BY FileStep
  <1> USE <1>f, AgentAssumption, RaisedType
      DEF FileTypeOK, Inv, TypeOK, Doing, Over, Statuses, stateVars, recordVars, fileVars, worldVars, Steps
  <1>0. ASSUME NEW type \in EventTypes, NEW n \in 0..MaxSteps, NEW next \in Doing \cup Over,
               Record(type, n, next)
        PROVE  log' \in Seq(Events) /\ events' \in Seq(Events) /\ pc' \in Doing \cup Over
    BY <1>0, RecordOutcome
  <1>1. ASSUME identity' = identity,
               Start \/ Fallback \/ StartTool \/ Observe \/ Respond \/ Complete
        PROVE  TypeOK'
    <2>1. log' \in Seq(Events) /\ events' \in Seq(Events) /\ pc' \in Doing \cup Over
      <3>1. CASE Start
        BY <1>0, <3>1 DEF Start, EventTypes
      <3>2. CASE Fallback
        BY <1>0, <3>2 DEF Fallback, AfterPlan, EventTypes
      <3>3. CASE StartTool \/ Observe
        BY <1>0, <3>3 DEF StartTool, Observe, EventTypes
      <3>4. CASE Respond \/ Complete
        BY <1>0, <3>4 DEF Respond, Complete, EventTypes
      <3>5. QED
        BY <1>1, <3>1, <3>2, <3>3, <3>4
    <2>2. UNCHANGED <<stateVars, worldVars>>
      BY <1>1 DEF Start, Fallback, StartTool, Observe, Respond, Complete
    <2>3. QED
      BY <1>1, <2>1, <2>2
  <1>2. ASSUME identity' = identity, Refuse \/ Clarify \/ SkipPlanner \/ Fail PROVE TypeOK'
    <2>1. log' \in Seq(Events) /\ events' \in Seq(Events) /\ pc' \in Doing \cup Over
      <3>1. CASE Refuse \/ Clarify
        BY <1>0, <3>1 DEF Refuse, Clarify, EventTypes
      <3>2. CASE SkipPlanner \/ Fail
        BY <1>0, <3>2 DEF SkipPlanner, Fail, EventTypes
      <3>3. QED
        BY <1>2, <3>1, <3>2
    <2>2. status' \in Statuses /\ UNCHANGED <<safety, memory, step, tool, trace, saved, worldVars>>
      BY <1>2 DEF Refuse, Clarify, SkipPlanner, Fail
    <2>3. QED
      BY <1>2, <2>1, <2>2
  <1>3. ASSUME identity' = identity, CheckSafety PROVE TypeOK'
    BY <1>0, <1>3 DEF CheckSafety, AfterSafety, EventTypes
  <1>4. ASSUME identity' = identity, QueueReview PROVE TypeOK'
    BY <1>0, <1>4 DEF QueueReview, EventTypes
  <1>5. ASSUME identity' = identity, EvaluateMemory PROVE TypeOK'
    BY <1>0, <1>5 DEF EvaluateMemory, AfterMemory, EventTypes
  <1>6. ASSUME identity' = identity, SaveMemory PROVE TypeOK'
    BY <1>0, <1>6 DEF SaveMemory, EventTypes, Memories
  <1>7. ASSUME identity' = identity, SaveRaises PROVE TypeOK'
    BY <1>7 DEF SaveRaises, Memories
  <1>8. ASSUME identity' = identity, Route PROVE TypeOK'
    BY <1>8 DEF Route
  <1>9. ASSUME identity' = identity, Plan PROVE TypeOK'
    <2>1. step + 1 \in 1..MaxSteps /\ step' = step + 1
      BY <1>9 DEF Plan, LoopInv
    <2>2. PICK t \in Tools \cup {"none"} :
            /\ tool' = [tool EXCEPT ![step'] = t]
            /\ status' = IF t = "none" THEN "completed" ELSE status
            /\ \E next \in {"fallback", AfterPlan(t)} : Record("planner_action", step', next)
      BY <1>9 DEF Plan
    <2>3. tool' \in [Steps -> Tools \cup {"none"}] /\ status' \in Statuses
      BY <2>1, <2>2
    <2>4. log' \in Seq(Events) /\ events' \in Seq(Events) /\ pc' \in Doing \cup Over
      BY <1>0, <2>1, <2>2 DEF EventTypes, AfterPlan
    <2>5. QED
      BY <1>9, <2>1, <2>3, <2>4 DEF Plan
  <1>10. ASSUME identity' = identity, Execute PROVE TypeOK'
    <2>1. PICK ok \in BOOLEAN : trace' = Append(trace, ok)
      BY <1>10 DEF Execute
    <2>2. trace' \in Seq(BOOLEAN) /\ Len(trace') <= MaxSteps /\ step \in Steps
      BY <1>10, <2>1 DEF Execute, LoopInv
    <2>3. memories' \subseteq Memories /\ effects' \subseteq Steps /\ late' \subseteq Steps
      <3>1. CASE Land(step) /\ late' = late
        BY <2>2, <3>1 DEF Land, Memories
      <3>2. CASE UNCHANGED <<effects, memories>> /\ late' \in {late, late \cup {step}}
        BY <2>2, <3>2
      <3>3. QED
        BY <1>10, <3>1, <3>2 DEF Execute
    <2>4. saved' \subseteq Memories
      BY <1>10, <2>3 DEF Execute
    <2>5. QED
      BY <1>10, <2>2, <2>3, <2>4 DEF Execute
  <1>11. ASSUME identity' = identity, LateEffect PROVE TypeOK'
    BY <1>11 DEF LateEffect, Land, Memories
  <1>12. ASSUME identity' = identity, Exhausted \/ Return \/ Crash PROVE TypeOK'
    BY <1>12 DEF Exhausted, Return, Crash
  <1>13. ASSUME identity' = identity, DependencyRaises PROVE TypeOK'
    BY <1>13 DEF DependencyRaises, LoopInv
  <1>14. CASE UNCHANGED vars
    BY <1>14 DEF vars
  <1>15. QED
    BY <1>1, <1>2, <1>3, <1>4, <1>5, <1>6, <1>7, <1>8, <1>9, <1>10, <1>11, <1>12, <1>13,
       <1>14 DEF Next, RunStep
---------------------------------------------------------------------------
\* Where a step that records an event may leave the run.
LEMMA RecordGoes ==
  ASSUME NEW type, NEW n, NEW next, Record(type, n, next)
  PROVE  pc' \in {next, Raised}
  BY DEF Record

\* The gates: nothing acts before both have let the run through.
LEMMA GateStep == Inv /\ [Next]_vars => GateInv'
  <1> SUFFICES ASSUME Inv, [Next]_vars PROVE GateInv'
    OBVIOUS
  <1> USE RaisedType, RecordGoes DEF Inv, GateInv, Early, Deciding, Loop, stateVars, recordVars, fileVars, worldVars
  <1>1. ASSUME Start \/ Refuse \/ Clarify PROVE GateInv'
    BY <1>1 DEF Start, Refuse, Clarify, Idle
  <1>2. ASSUME CheckSafety PROVE GateInv'
    <2>1. PICK action \in {"allow", "refuse", "review"} :
            safety' = action /\ Record("safety_decision", 0, AfterSafety[action])
      BY <1>2 DEF CheckSafety
    <2>2. pc' \in {AfterSafety[action], "failing", "escaped"}
      BY <2>1
    <2>3. QED
      BY <1>2, <2>1, <2>2 DEF CheckSafety, AfterSafety, Idle
  <1>3. ASSUME QueueReview PROVE GateInv'
    BY <1>3 DEF QueueReview, Idle
  <1>4. ASSUME EvaluateMemory PROVE GateInv'
    <2>1. PICK decision \in {"skip", "save", "clarify"} :
            memory' = decision /\ Record("memory_decision", 0, AfterMemory[decision])
      BY <1>4 DEF EvaluateMemory
    <2>2. pc' \in {AfterMemory[decision], "failing", "escaped"}
      BY <2>1
    <2>3. QED
      BY <1>4, <2>1, <2>2 DEF EvaluateMemory, AfterMemory, Idle
  <1>5. ASSUME SaveMemory \/ SaveRaises PROVE GateInv'
    BY <1>5 DEF SaveMemory, SaveRaises
  <1>6. ASSUME Route \/ SkipPlanner PROVE GateInv'
    BY <1>6 DEF Route, SkipPlanner
  <1>7. ASSUME Plan \/ Fallback PROVE GateInv'
    BY <1>7 DEF Plan, Fallback, AfterPlan
  <1>8. ASSUME StartTool \/ Observe PROVE GateInv'
    BY <1>8 DEF StartTool, Observe
  <1>9. ASSUME Execute \/ Exhausted PROVE GateInv'
    BY <1>9 DEF Execute, Exhausted
  <1>10. ASSUME Respond \/ Complete \/ Fail PROVE GateInv'
    BY <1>10 DEF Respond, Complete, Fail, Idle
  <1>11. ASSUME Return \/ DependencyRaises \/ Crash PROVE GateInv'
    BY <1>11 DEF Return, DependencyRaises, Crash, Idle
  <1>12. ASSUME LateEffect PROVE GateInv'
    <2>1. ~Idle
      BY <1>12 DEF LateEffect, Idle
    <2>2. QED
      BY <1>12, <2>1 DEF LateEffect
  <1>13. CASE UNCHANGED vars
    BY <1>13 DEF vars, Idle
  <1>14. QED
    BY <1>1, <1>2, <1>3, <1>4, <1>5, <1>6, <1>7, <1>8, <1>9, <1>10, <1>11, <1>12, <1>13
    DEF Next, RunStep

\* The loop: one observation per step, each of a tool.
LEMMA LoopStep == Inv /\ [Next]_vars => LoopInv'
  <1> SUFFICES ASSUME Inv, [Next]_vars PROVE LoopInv'
    OBVIOUS
  <1> USE AgentAssumption, RaisedType, RecordGoes
      DEF Inv, LoopInv, IncompleteIsExhausted, Early, Deciding, Loop, stateVars, recordVars, fileVars, worldVars, Steps
  <1>0. /\ step \in 0..MaxSteps /\ step \in Int /\ MaxSteps \in Nat
        /\ trace \in Seq(BOOLEAN) /\ Len(trace) \in Nat
        /\ tool \in [Steps -> Tools \cup {"none"}]
    BY DEF TypeOK
  <1>1. ASSUME Start \/ QueueReview PROVE LoopInv'
    BY <1>1 DEF Start, QueueReview
  <1>2. ASSUME CheckSafety PROVE LoopInv'
    BY <1>2 DEF CheckSafety, AfterSafety
  <1>3. ASSUME Refuse \/ Clarify \/ SkipPlanner PROVE LoopInv'
    BY <1>3 DEF Refuse, Clarify, SkipPlanner
  <1>4. ASSUME EvaluateMemory PROVE LoopInv'
    BY <1>4 DEF EvaluateMemory, AfterMemory
  <1>5. ASSUME SaveMemory \/ SaveRaises PROVE LoopInv'
    BY <1>5 DEF SaveMemory, SaveRaises
  <1>6. ASSUME Route PROVE LoopInv'
    BY <1>0, <1>6 DEF Route
  <1>7. ASSUME Plan PROVE LoopInv'
    <2>1. PICK t \in Tools \cup {"none"} :
            /\ tool' = [tool EXCEPT ![step'] = t]
            /\ status' = IF t = "none" THEN "completed" ELSE status
            /\ \E next \in {"fallback", AfterPlan(t)} : Record("planner_action", step', next)
      BY <1>7 DEF Plan
    <2>2. /\ step' = step + 1 /\ step' \in Steps /\ Len(trace) = step' - 1
          /\ trace' = trace /\ status = "running"
      BY <1>0, <1>7 DEF Plan
    <2>3. tool'[step'] = t /\ \A n \in 1..Len(trace) : tool'[n] # "none"
      BY <1>0, <1>7, <2>1, <2>2 DEF Plan
    <2>4. pc' \in {"fallback", AfterPlan(t), "failing", "escaped"}
      BY <2>1
    <2>5. \A n \in Steps : n > step' => tool'[n] = "none"
      BY <1>0, <2>1, <2>2
    <2>6. QED
      BY <2>1, <2>2, <2>3, <2>4, <2>5 DEF AfterPlan
  <1>8. ASSUME Fallback PROVE LoopInv'
    <2>1. pc' \in {AfterPlan(tool[step]), "failing", "escaped"}
      BY <1>8 DEF Fallback
    <2>2. QED
      BY <1>0, <1>8, <2>1 DEF Fallback, AfterPlan
  <1>9. ASSUME StartTool PROVE LoopInv'
    BY <1>0, <1>9 DEF StartTool
  <1>10. ASSUME Execute PROVE LoopInv'
    <2>1. PICK ok \in BOOLEAN : trace' = Append(trace, ok)
      BY <1>10 DEF Execute
    <2>2. Len(trace') = step /\ 1..Len(trace') = 1..Len(trace) \cup {step}
      BY <1>0, <1>10, <2>1 DEF Execute
    <2>3. QED
      BY <1>0, <1>10, <2>2 DEF Execute
  <1>11. ASSUME Observe PROVE LoopInv'
    BY <1>0, <1>11 DEF Observe
  <1>12. ASSUME LateEffect PROVE LoopInv'
    BY <1>12 DEF LateEffect
  <1>13. ASSUME Exhausted PROVE LoopInv'
    BY <1>0, <1>13 DEF Exhausted
  <1>14. ASSUME Respond \/ Complete \/ Fail PROVE LoopInv'
    BY <1>14 DEF Respond, Complete, Fail
  <1>15. ASSUME Return \/ DependencyRaises \/ Crash PROVE LoopInv'
    BY <1>15 DEF Return, DependencyRaises, Crash
  <1>16. CASE UNCHANGED vars
    BY <1>16 DEF vars
  <1>17. QED
    BY <1>1, <1>2, <1>3, <1>4, <1>5, <1>6, <1>7, <1>8, <1>9, <1>10, <1>11, <1>12, <1>13, <1>14,
       <1>15, <1>16 DEF Next, RunStep

\* A step adds to the log at most the event it records.
LEMMA LogGrows ==
  Inv /\ [Next]_vars =>
    /\ \A x : Contains(log, x) => Contains(log', x)
    /\ InLog("memory_saved", 0)' => InLog("memory_saved", 0) \/ SaveMemory
  <1> SUFFICES ASSUME Inv, [Next]_vars
               PROVE  /\ \A x : Contains(log, x) => Contains(log', x)
                      /\ Contains(log', Event("memory_saved", 0)) =>
                           Contains(log, Event("memory_saved", 0)) \/ SaveMemory
    BY DEF InLog
  <1>0. log \in Seq(Events)
    BY DEF Inv, TypeOK
  <1>1. ASSUME NEW type \in EventTypes, NEW n \in 0..MaxSteps, NEW next, Record(type, n, next)
        PROVE  /\ \A x : Contains(log, x) => Contains(log', x)
               /\ type # "memory_saved" /\ Contains(log', Event("memory_saved", 0)) =>
                    Contains(log, Event("memory_saved", 0))
    <2>1. Event(type, n) \in Events
      BY DEF Event, Events
    <2>2. log' \in {log, Append(log, Event(type, n))}
      BY <1>1 DEF Record, recordVars
    <2>3. type # "memory_saved" => Event(type, n) # Event("memory_saved", 0)
      BY DEF Event
    <2>4. CASE log' = log
      BY <2>4
    <2>5. CASE log' = Append(log, Event(type, n))
      BY <1>0, <2>1, <2>3, <2>5, AppendKeeps
    <2>6. QED
      BY <2>2, <2>4, <2>5
  <1>2. CASE UNCHANGED recordVars
    BY <1>2 DEF recordVars
  <1>3. QED
    BY <1>1, <1>2, Records

\* A step that is logged as started, and a step that is observed, stay so.
LEMMA LogStep == Inv /\ [Next]_vars => LogInv'
  <1> SUFFICES ASSUME Inv, [Next]_vars PROVE LogInv'
    OBVIOUS
  <1> USE AgentAssumption, RaisedType, RecordGoes
      DEF Inv, LogInv, ToolsInLog, Loop, stateVars, recordVars, fileVars, worldVars, Steps, InLog
  <1>0. /\ step \in 0..MaxSteps /\ MaxSteps \in Nat
        /\ trace \in Seq(BOOLEAN) /\ Len(trace) \in Nat /\ Len(trace) <= MaxSteps
        /\ log \in Seq(Events) /\ events \in Seq(Events)
    BY DEF TypeOK
  <1>1. \A x : Contains(log, x) => Contains(log', x)
    BY LogGrows
  <1>2. ASSUME UNCHANGED <<trace, effects, late>>, status' \in {status, "running", "refused",
                                                    "clarification", "failed"},
               pc' \notin {"execute"} \cup (Loop \ {"observe"})
        PROVE  LogInv'
    BY <1>1, <1>2
  <1>3. ASSUME Start \/ QueueReview \/ Refuse \/ Clarify \/ SaveMemory \/ SaveRaises
        PROVE  LogInv'
    BY <1>2, <1>3 DEF Start, QueueReview, Refuse, Clarify, SaveMemory, SaveRaises
  <1>4. ASSUME CheckSafety \/ EvaluateMemory PROVE LogInv'
    BY <1>2, <1>4 DEF CheckSafety, EvaluateMemory, AfterSafety, AfterMemory
  <1>5. ASSUME Route \/ SkipPlanner PROVE LogInv'
    <2>1. trace = <<>> /\ Len(trace) = 0
      BY <1>5 DEF Route, SkipPlanner, LoopInv, Deciding
    <2>2. UNCHANGED <<trace, effects, late>> /\ pc' # "execute"
      BY <1>5 DEF Route, SkipPlanner
    <2>3. QED
      BY <1>1, <2>1, <2>2
  <1>6. ASSUME Plan \/ Fallback PROVE LogInv'
    <2>1. /\ UNCHANGED <<trace, effects, late>> /\ pc' # "execute"
          /\ \A n \in 1..Len(trace) : Contains(log, Event("tool_observation", n))
      BY <1>6 DEF Plan, Fallback, AfterPlan
    <2>2. QED
      BY <1>1, <2>1
  <1>7. ASSUME StartTool PROVE LogInv'
    <2>1. /\ UNCHANGED <<step, trace, effects, late, status>>
          /\ \A n \in 1..Len(trace) : Contains(log, Event("tool_observation", n))
          /\ Record("tool_started", step, "execute")
      BY <1>7 DEF StartTool
    <2>2. pc' = "execute" => Contains(log', Event("tool_started", step))
      BY <1>0, <2>1, RecordOutcome DEF EventTypes
    <2>3. QED
      BY <1>1, <2>1, <2>2
  <1>8. ASSUME Execute PROVE LogInv'
    <2>1. PICK ok \in BOOLEAN : trace' = Append(trace, ok)
      BY <1>8 DEF Execute
    <2>2. /\ Len(trace') = step /\ Len(trace) = step - 1 /\ step \in Steps
          /\ status' = "running" /\ pc' = "observe" /\ log' = log
      BY <1>0, <1>8, <2>1 DEF Execute, LoopInv
    <2>3. effects' \cup late' \subseteq effects \cup late \cup {step}
      <3>1. CASE Land(step) /\ late' = late
        BY <3>1 DEF Land
      <3>2. CASE UNCHANGED <<effects, memories>> /\ late' \in {late, late \cup {step}}
        BY <3>2
      <3>3. QED
        BY <1>8, <3>1, <3>2 DEF Execute
    <2>4. \A n \in 1..Len(trace) : Contains(log, Event("tool_observation", n))
      BY <1>8 DEF Execute
    <2>5. Contains(log, Event("tool_started", step))
      BY <1>8 DEF Execute
    <2>6. QED
      BY <1>0, <2>2, <2>3, <2>4, <2>5
  <1>9. ASSUME Observe PROVE LogInv'
    <2>1. /\ UNCHANGED <<step, trace, effects, late, status>> /\ Len(trace) = step
          /\ status = "running" /\ pc' # "execute"
          /\ Record("tool_observation", step, IF step < MaxSteps THEN "plan" ELSE "exhausted")
      BY <1>0, <1>9 DEF Observe, LoopInv
    <2>2. pc' \in {"plan", "exhausted"} => Contains(log', Event("tool_observation", step))
      BY <1>0, <2>1, RecordOutcome DEF EventTypes
    <2>3. pc' \in {"plan", "exhausted", "failing", "escaped"}
      BY <2>1
    <2>4. QED
      BY <1>0, <1>1, <2>1, <2>2, <2>3
  <1>10. ASSUME LateEffect PROVE LogInv'
    BY <1>10 DEF LateEffect, Land
  <1>11. ASSUME Exhausted PROVE LogInv'
    BY <1>11 DEF Exhausted
  <1>12. ASSUME Respond \/ Complete \/ Fail PROVE LogInv'
    BY <1>2, <1>12 DEF Respond, Complete, Fail
  <1>13. ASSUME Return \/ DependencyRaises PROVE LogInv'
    BY <1>2, <1>13 DEF Return, DependencyRaises
  <1>14. ASSUME Crash PROVE LogInv'
    BY <1>14 DEF Crash
  <1>15. CASE UNCHANGED vars
    BY <1>15 DEF vars
  <1>16. QED
    BY <1>3, <1>4, <1>5, <1>6, <1>7, <1>8, <1>9, <1>10, <1>11, <1>12, <1>13, <1>14, <1>15
    DEF Next, RunStep

\* The verdict: the log and the result part only when recording fails.
LEMMA VerdictStep == Inv /\ [Next]_vars => VerdictInv'
  <1> SUFFICES ASSUME Inv, [Next]_vars PROVE VerdictInv'
    OBVIOUS
  <1> USE RaisedType DEF Inv, VerdictInv, VerdictIsLast, Doing, stateVars, recordVars, fileVars, worldVars
  <1>0. step \in 0..MaxSteps /\ log \in Seq(Events) /\ events \in Seq(Events) /\ 0 \in 0..MaxSteps
    BY AgentAssumption DEF TypeOK
  <1>1. ASSUME NEW type \in EventTypes, NEW n \in 0..MaxSteps, NEW next, Record(type, n, next),
               pc \in Doing \ {"failing", "fail_snapshot"}
        PROVE  \/ pc' = next /\ events' = log' /\ log' # <<>> /\ Last(log').type = type
               \/ pc' = Raised
    <2>1. events = log
      BY <1>1
    <2>2. \/ /\ pc' = next /\ log' # <<>> /\ Last(log').type = type
             /\ log' = Append(log, Event(type, n)) /\ events' = Append(events, Event(type, n))
          \/ pc' = Raised
      BY <1>0, <1>1, RecordOutcome
    <2>3. QED
      BY <2>1, <2>2
  <1>2. ASSUME pc \in Doing \ {"failing", "fail_snapshot"}, events' = log',
               pc' \in Doing \ {"complete", "snapshot", "respond", "failing", "fail_snapshot"}
        PROVE  VerdictInv'
    BY <1>2
  <1>3. ASSUME pc' \in {"failing", "escaped", "crashed"} PROVE VerdictInv'
    BY <1>3
  <1>4. ASSUME Start \/ QueueReview PROVE VerdictInv'
    <2>1. (pc' \in {"safety", "refuse"} /\ events' = log') \/ pc' = Raised
      BY <1>0, <1>1, <1>4 DEF Start, QueueReview, EventTypes
    <2>2. QED
      BY <1>2, <1>3, <1>4, <2>1 DEF Start, QueueReview
  <1>5. ASSUME CheckSafety PROVE VerdictInv'
    <2>1. (pc' \in {"memory", "refuse", "review"} /\ events' = log') \/ pc' = Raised
      BY <1>0, <1>1, <1>5 DEF CheckSafety, AfterSafety, EventTypes
    <2>2. QED
      BY <1>2, <1>3, <1>5, <2>1 DEF CheckSafety
  <1>6. ASSUME EvaluateMemory PROVE VerdictInv'
    <2>1. (pc' \in {"route", "save", "clarify"} /\ events' = log') \/ pc' = Raised
      BY <1>0, <1>1, <1>6 DEF EvaluateMemory, AfterMemory, EventTypes
    <2>2. QED
      BY <1>2, <1>3, <1>6, <2>1 DEF EvaluateMemory
  <1>7. ASSUME Refuse \/ Clarify \/ SkipPlanner PROVE VerdictInv'
    <2>1. /\ (pc' \in {"complete", "respond"} /\ events' = log') \/ pc' = Raised
          /\ status' \in {"refused", "clarification", "completed"}
      <3>1. CASE Refuse
        BY <1>0, <1>1, <3>1 DEF Refuse, EventTypes
      <3>2. CASE Clarify
        BY <1>0, <1>1, <3>2 DEF Clarify, EventTypes
      <3>3. CASE SkipPlanner
        BY <1>0, <1>1, <3>3 DEF SkipPlanner, EventTypes
      <3>4. QED
        BY <1>7, <3>1, <3>2, <3>3
    <2>2. QED
      BY <1>3, <2>1
  <1>8. ASSUME SaveMemory PROVE VerdictInv'
    <2>1. (pc' = "route" /\ events' = log') \/ pc' = Raised
      BY <1>0, <1>1, <1>8 DEF SaveMemory, EventTypes
    <2>2. QED
      BY <1>2, <1>3, <1>8, <2>1 DEF SaveMemory
  <1>9. ASSUME Plan PROVE VerdictInv'
    <2>1. PICK t \in Tools \cup {"none"} :
            /\ status' = IF t = "none" THEN "completed" ELSE status
            /\ \E next \in {"fallback", AfterPlan(t)} : Record("planner_action", step', next)
      BY <1>9 DEF Plan
    <2>2. step' \in 0..MaxSteps
      BY <1>9, AgentAssumption DEF Plan, LoopInv, TypeOK
    <2>3. (pc' \in {"fallback", AfterPlan(t)} /\ events' = log') \/ pc' = Raised
      BY <1>1, <1>9, <2>1, <2>2 DEF Plan, EventTypes
    <2>4. QED
      BY <1>2, <1>3, <1>9, <2>1, <2>3 DEF Plan, AfterPlan
  <1>10. ASSUME Fallback PROVE VerdictInv'
    <2>1. (pc' = AfterPlan(tool[step]) /\ events' = log') \/ pc' = Raised
      BY <1>0, <1>1, <1>10 DEF Fallback, EventTypes
    <2>2. tool[step] = "none" => status' = "completed"
      BY <1>10 DEF Fallback, LoopInv
    <2>3. QED
      BY <1>2, <1>3, <1>10, <2>1, <2>2 DEF Fallback, AfterPlan
  <1>11. ASSUME StartTool \/ Observe PROVE VerdictInv'
    <2>1. (pc' \in {"execute", "plan", "exhausted"} /\ events' = log') \/ pc' = Raised
      BY <1>0, <1>1, <1>11 DEF StartTool, Observe, EventTypes
    <2>2. QED
      BY <1>2, <1>3, <1>11, <2>1 DEF StartTool, Observe
  <1>12. ASSUME Route \/ Execute PROVE VerdictInv'
    BY <1>2, <1>12 DEF Route, Execute
  <1>13. ASSUME Exhausted PROVE VerdictInv'
    BY <1>13 DEF Exhausted
  <1>14. ASSUME Respond \/ Complete PROVE VerdictInv'
    <2>1. \/ Respond /\ pc' = "complete" /\ events' = log'
          \/ /\ Complete /\ pc' = "snapshot" /\ events' = log'
             /\ log' # <<>> /\ Last(log').type = "run_completed"
          \/ pc' = Raised
      BY <1>0, <1>1, <1>14 DEF Respond, Complete, EventTypes
    <2>2. status' = status /\ status \notin {"running", "failed"}
      BY <1>14 DEF Respond, Complete
    <2>3. QED
      BY <1>3, <2>1, <2>2
  <1>15. ASSUME Fail PROVE VerdictInv'
    <2>1. \/ pc' = "fail_snapshot" /\ log' # <<>> /\ Last(log').type = "run_failed"
          \/ pc' = Raised
      BY <1>0, <1>15, RecordOutcome DEF Fail, EventTypes, Event
    <2>2. QED
      BY <1>3, <1>15, <2>1 DEF Fail
  <1>16. ASSUME Return PROVE VerdictInv'
    BY <1>16 DEF Return
  <1>17. ASSUME SaveRaises \/ DependencyRaises \/ Crash PROVE VerdictInv'
    BY <1>3, <1>17 DEF SaveRaises, DependencyRaises, Crash
  <1>18. ASSUME LateEffect \/ UNCHANGED vars PROVE VerdictInv'
    BY <1>18 DEF LateEffect, vars
  <1>19. QED
    BY <1>4, <1>5, <1>6, <1>7, <1>8, <1>9, <1>10, <1>11, <1>12, <1>13, <1>14, <1>15, <1>16,
       <1>17, <1>18 DEF Next, RunStep

\* The store: what is in it was asked for, what is announced is in it.
LEMMA MemoryStep == Inv /\ [Next]_vars => MemoryInv'
  <1> SUFFICES ASSUME Inv, [Next]_vars PROVE MemoryInv'
    OBVIOUS
  <1> USE AgentAssumption DEF Inv, MemoryInv, MemoriesInLog, stateVars, recordVars, fileVars, worldVars, InLog
  <1>0. /\ step \in 0..MaxSteps /\ MaxSteps \in Nat /\ tool \in [Steps -> Tools \cup {"none"}]
        /\ memories \subseteq Namespaces \X (0..MaxSteps) /\ late \subseteq Steps
        /\ effects \subseteq Steps
    BY DEF TypeOK, Memories
  <1>1. \A x : Contains(log, x) => Contains(log', x)
    BY LogGrows
  <1>2. ~SaveMemory /\ Contains(log', Event("memory_saved", 0)) =>
          Contains(log, Event("memory_saved", 0))
    BY LogGrows
  <1>3. identity' = identity
    BY DEF Next, vars
  <1>4. ASSUME ~SaveMemory, UNCHANGED <<memory, tool, saved, memories>>, late' \subseteq late
        PROVE  MemoryInv'
    BY <1>1, <1>2, <1>3, <1>4
  <1>5. ASSUME ~SaveMemory, Start \/ CheckSafety \/ QueueReview \/ Refuse \/ Clarify
        PROVE  MemoryInv'
    BY <1>4, <1>5 DEF Start, CheckSafety, QueueReview, Refuse, Clarify
  <1>6. ASSUME ~SaveMemory, Route \/ SkipPlanner \/ Fallback \/ StartTool \/ Observe \/ Exhausted
        PROVE  MemoryInv'
    BY <1>4, <1>6 DEF Route, SkipPlanner, Fallback, StartTool, Observe, Exhausted
  <1>7. ASSUME ~SaveMemory, Respond \/ Complete \/ Fail \/ Return \/ DependencyRaises \/ Crash
        PROVE  MemoryInv'
    BY <1>4, <1>7 DEF Respond, Complete, Fail, Return, DependencyRaises, Crash
  <1>8. ASSUME ~SaveMemory, EvaluateMemory PROVE MemoryInv'
    <2>1. /\ memories = {} /\ saved = {} /\ late = {}
          /\ UNCHANGED <<memories, saved, late, tool>>
      BY <1>8 DEF EvaluateMemory, GateInv, Idle
    <2>2. QED
      BY <1>2, <1>3, <1>8, <2>1
  <1>9. ASSUME SaveMemory \/ SaveRaises PROVE MemoryInv'
    <2>1. /\ memories' = memories \cup {<<identity, 0>>}
          /\ saved' \subseteq saved \cup {<<identity, 0>>}
          /\ SaveRaises => saved' = saved
          /\ UNCHANGED <<memory, tool, late>>
      BY <1>9 DEF SaveMemory, SaveRaises
    <2>2. memory = "save"
      BY <1>9 DEF SaveMemory, SaveRaises, GateInv
    <2>3. QED
      BY <1>1, <1>3, <2>1, <2>2
  <1>10. ASSUME ~SaveMemory, Plan PROVE MemoryInv'
    <2>1. \A n \in Steps : tool[n] # "none" => tool'[n] = tool[n]
      <3>1. PICK t \in Tools \cup {"none"} : tool' = [tool EXCEPT ![step + 1] = t]
        BY <1>10 DEF Plan
      <3>2. step + 1 \in Steps /\ tool[step + 1] = "none"
        BY <1>0, <1>10 DEF Plan, LoopInv, Steps
      <3>3. QED
        BY <1>0, <3>1, <3>2
    <2>2. UNCHANGED <<memory, saved, memories, late>>
      BY <1>10 DEF Plan
    <2>3. \A m \in memories : m[2] # 0 => m[2] \in Steps
      BY <1>0 DEF Steps
    <2>4. QED
      BY <1>0, <1>1, <1>2, <1>3, <1>10, <2>1, <2>2, <2>3
  <1>11. ASSUME ~SaveMemory, NEW n \in Steps, Land(n), late' \subseteq late,
                Contains(log, Event("tool_started", n)), UNCHANGED <<memory, tool>>,
                saved' \subseteq memories'
         PROVE  MemoryInv'
    <2>1. n # 0
      BY <1>0 DEF Steps
    <2>2. /\ memories \subseteq memories'
          /\ \A m \in memories' : m \in memories \/ (m[2] = n /\ tool[n] = "memory.add")
      <3>1. CASE tool[n] = "memory.add"
        <4>1. memories' = memories \cup {<<Default, n>>}
          BY <1>11, <3>1 DEF Land
        <4>2. <<Default, n>>[2] = n
          OBVIOUS
        <4>3. QED
          <5> SUFFICES ASSUME NEW m \in memories'
                       PROVE  m \in memories \/ m[2] = n
            BY <3>1, <4>1
          <5>1. m \in memories \/ m = <<Default, n>>
            BY <4>1
          <5>2. QED
            BY <4>2, <5>1, Zenon
      <3>2. CASE tool[n] # "memory.add"
        BY <1>11, <3>2 DEF Land
      <3>3. QED
        BY <3>1, <3>2
    <2>3. QED
      BY <1>1, <1>2, <1>3, <1>11, <2>1, <2>2
  <1>12. ASSUME ~SaveMemory, Execute PROVE MemoryInv'
    <2>1. step \in Steps /\ tool[step] # "none" /\ Contains(log, Event("tool_started", step))
      BY <1>0, <1>12 DEF Execute, LoopInv, LogInv
    <2>2. UNCHANGED <<memory, tool, log>> /\ saved' \subseteq saved \cup memories'
      BY <1>12 DEF Execute
    <2>3. CASE Land(step) /\ late' = late
      <3>1. memories \subseteq memories'
        BY <2>3 DEF Land
      <3>2. QED
        BY <1>11, <1>12, <2>1, <2>2, <2>3, <3>1
    <2>4. CASE memories' = memories /\ late' \in {late, late \cup {step}}
      BY <1>1, <1>2, <1>3, <1>12, <2>1, <2>2, <2>4
    <2>5. QED
      BY <1>12, <2>3, <2>4 DEF Execute
  <1>13. ASSUME ~SaveMemory, LateEffect PROVE MemoryInv'
    <2>1. PICK n \in late : Land(n) /\ late' = late \ {n}
      BY <1>13 DEF LateEffect
    <2>2. UNCHANGED <<memory, tool, saved>> /\ memories \subseteq memories'
      BY <1>13, <2>1 DEF LateEffect, Land
    <2>3. QED
      BY <1>0, <1>11, <1>13, <2>1, <2>2
  <1>14. CASE ~SaveMemory /\ UNCHANGED vars
    BY <1>4, <1>14 DEF vars
  <1>15. QED
    BY <1>5, <1>6, <1>7, <1>8, <1>9, <1>10, <1>12, <1>13, <1>14 DEF Next, RunStep
---------------------------------------------------------------------------
(* What the eval tools read in the log                                       *)

\* The log has an event of the type.
Told(type) == Of(log, type) # {}

\* A run that has its answer, or has returned it.
Ended == pc \in {"complete", "snapshot"} \/ (pc = "returned" /\ status # "failed")

\* What the log holds and lacks, for all that a replay or a draft asks of it.
TellInv ==
  /\ pc \in (Doing \ {"start"}) \cup {"returned"} => Told("run_started")
  /\ Told("safety_refusal") => safety \in {"refuse", "review"}
  /\ Ended /\ safety \in {"refuse", "review"} => Told("safety_refusal")
  /\ pc \in {"clarify", "respond"} => safety = "allow"
  /\ pc = "respond" => status \in {"completed", "incomplete"}
  /\ Told("response_decision") =>
       /\ pc \notin Early \cup Deciding \cup Loop
       /\ status \in {"completed", "incomplete", "failed"}
  /\ Told("run_failed") => status = "failed" /\ pc \in Over \cup {"fail_snapshot"}
  /\ \A i \in Of(log, "tool_observation") : log[i].step \in DOMAIN trace
  /\ Ended => status \notin {"running", "failed"}
  /\ status \in {"refused", "clarification"} => trace = <<>>
  /\ pc = "returned" => log # <<>>

\* The log starts empty.
LEMMA InitTell == Init => TellInv
  <1> SUFFICES ASSUME Init PROVE TellInv
    OBVIOUS
  <1>1. \A type : Of(log, type) = {}
    BY DEF Init, Of
  <1>2. QED
    BY <1>1 DEF Init, TellInv, Told, Ended

\* A record_event adds its own event, or none.
LEMMA RecordTells ==
  ASSUME log \in Seq(Events), NEW type \in EventTypes, NEW n \in 0..MaxSteps, NEW next,
         Record(type, n, next)
  PROVE  /\ pc' \in {next, Raised}
         /\ pc' # Raised => Told(type)'
         /\ \A t : Told(t) => Told(t)'
         /\ \A t : t # type /\ Told(t)' => Told(t)
         /\ \A i \in Of(log', "tool_observation") :
              \/ i \in Of(log, "tool_observation") /\ log'[i].step = log[i].step
              \/ type = "tool_observation" /\ log'[i].step = n
  <1>1. /\ Event(type, n) \in Events
        /\ Event(type, n).type = type
        /\ Event(type, n).step = n
    BY DEF Event, Events
  <1>2. CASE log' = log /\ pc' = Raised
    BY <1>2 DEF Told
  <1>3. ASSUME log' = Append(log, Event(type, n))
        PROVE  /\ Told(type)'
               /\ \A t : Told(t) => Told(t)'
               /\ \A t : t # type /\ Told(t)' => Told(t)
               /\ \A i \in Of(log', "tool_observation") :
                    \/ i \in Of(log, "tool_observation") /\ log'[i].step = log[i].step
                    \/ type = "tool_observation" /\ log'[i].step = n
    <2>1. /\ DOMAIN log = 1..Len(log) /\ Len(log) \in Nat
          /\ DOMAIN log' = 1..(Len(log) + 1)
          /\ \A i \in 1..Len(log) : log'[i] = log[i]
          /\ log'[Len(log) + 1] = Event(type, n)
      BY <1>1, <1>3
    <2>2. Told(type)'
      BY <1>1, <2>1 DEF Told, Of
    <2>3. \A t, i : i \in Of(log, t) => i \in Of(log', t)
      BY <2>1 DEF Of
    <2>4. ASSUME NEW t, NEW i \in Of(log', t)
          PROVE  \/ i \in Of(log, t) /\ log'[i] = log[i]
                 \/ t = type /\ log'[i].step = n
      <3>1. CASE i \in 1..Len(log)
        BY <2>1, <2>4, <3>1 DEF Of
      <3>2. CASE i = Len(log) + 1
        BY <1>1, <2>1, <2>4, <3>2 DEF Of
      <3>3. QED
        BY <2>1, <2>4, <3>1, <3>2 DEF Of
    <2>5. QED
      BY <2>2, <2>3, <2>4 DEF Told
  <1>4. QED
    BY <1>2, <1>3 DEF Record, recordVars

\* What the log tells, action by action.
LEMMA TellStep == Inv /\ TellInv /\ [Next]_vars => TellInv'
  <1> SUFFICES ASSUME Inv, TellInv, [Next]_vars PROVE TellInv'
    OBVIOUS
  <1> USE RaisedType DEF Inv, Ended, Doing, Over, Early, Deciding, Loop, stateVars, recordVars, fileVars, worldVars
  <1>0. /\ step \in 0..MaxSteps /\ 0 \in 0..MaxSteps
        /\ log \in Seq(Events) /\ trace \in Seq(BOOLEAN)
    BY AgentAssumption DEF TypeOK
  \* A record that is not of a type the invariant asks for, or fails.
  <1>1. ASSUME NEW type \in EventTypes, NEW n \in 0..MaxSteps, NEW next, Record(type, n, next),
               UNCHANGED trace
        PROVE  /\ pc' \in {next, Raised}
               /\ pc' # Raised => Told(type)'
               /\ \A t : Told(t) => Told(t)'
               /\ \A t : t # type /\ Told(t)' => Told(t)
               /\ type # "tool_observation" =>
                    \A i \in Of(log', "tool_observation") : log'[i].step \in DOMAIN trace'
    BY <1>0, <1>1, RecordTells DEF TellInv
  <1>2. ASSUME UNCHANGED log
        PROVE  /\ \A t : Told(t)' <=> Told(t)
               /\ UNCHANGED trace =>
                    \A i \in Of(log', "tool_observation") : log'[i].step \in DOMAIN trace'
    BY <1>2 DEF Told, TellInv
  <1>3. ASSUME UNCHANGED <<log, safety, status, trace>>, pc' \in {"escaped", "crashed"}
        PROVE  TellInv'
    BY <1>2, <1>3 DEF TellInv
  <1>4. ASSUME Start PROVE TellInv'
    <2>1. Record("run_started", 0, "safety") /\ UNCHANGED <<safety, status, trace>> /\ pc = "start"
      BY <1>4 DEF Start
    <2>2. pc' \in {"safety", "escaped"}
      BY <1>0, <1>1, <2>1 DEF EventTypes, Raised, Unguarded
    <2>3. QED
      BY <1>0, <1>1, <2>1, <2>2 DEF EventTypes, TellInv, Raised, Unguarded
  <1>5. ASSUME CheckSafety PROVE TellInv'
    <2>1. PICK action \in {"allow", "refuse", "review"} :
            safety' = action /\ Record("safety_decision", 0, AfterSafety[action])
      BY <1>5 DEF CheckSafety
    <2>2. /\ UNCHANGED <<status, trace>> /\ pc = "safety" /\ safety = "unchecked"
          /\ AfterSafety[action] \in {"memory", "refuse", "review"}
      BY <1>5, <2>1 DEF CheckSafety, AfterSafety, GateInv
    <2>3. QED
      BY <1>0, <1>1, <2>1, <2>2 DEF EventTypes, TellInv
  <1>6. ASSUME NEW type \in EventTypes \ {"tool_observation", "response_decision",
                                          "safety_refusal", "run_failed"},
               NEW n \in 0..MaxSteps, NEW next \in Early \cup Deciding \cup Loop,
               Record(type, n, next), UNCHANGED <<safety, status, trace>>,
               pc \in (Early \cup Deciding \cup Loop) \ {"start"},
               next = "clarify" => safety = "allow"
        PROVE  TellInv'
    BY <1>0, <1>1, <1>6 DEF TellInv
  <1>7. CASE QueueReview \/ EvaluateMemory \/ SaveMemory \/ StartTool
    <2>1. CASE QueueReview
      BY <1>0, <1>6, <2>1 DEF QueueReview, EventTypes
    <2>2. CASE EvaluateMemory
      BY <1>0, <1>6, <2>2 DEF EvaluateMemory, AfterMemory, EventTypes, GateInv
    <2>3. CASE SaveMemory
      BY <1>0, <1>6, <2>3 DEF SaveMemory, EventTypes
    <2>4. CASE StartTool
      BY <1>0, <1>6, <2>4 DEF StartTool, EventTypes
    <2>5. QED
      BY <1>7, <2>1, <2>2, <2>3, <2>4
  <1>8. ASSUME Refuse PROVE TellInv'
    <2>1. /\ Record("safety_refusal", 0, "complete") /\ status' = "refused"
          /\ UNCHANGED <<safety, trace>> /\ pc = "refuse"
          /\ safety \in {"refuse", "review"} /\ trace = <<>>
      BY <1>8 DEF Refuse, GateInv, Idle
    <2>2. QED
      BY <1>0, <1>1, <2>1 DEF EventTypes, TellInv
  <1>9. ASSUME Clarify PROVE TellInv'
    <2>1. /\ Record("memory_clarification", 0, "complete") /\ status' = "clarification"
          /\ UNCHANGED <<safety, trace>> /\ pc = "clarify" /\ trace = <<>>
          /\ safety = "allow"
      BY <1>9 DEF Clarify, LoopInv, TellInv
    <2>2. QED
      BY <1>0, <1>1, <2>1 DEF EventTypes, TellInv
  <1>10. ASSUME SkipPlanner PROVE TellInv'
    <2>1. /\ Record("planner_skipped", 0, "respond") /\ status' = "completed"
          /\ UNCHANGED <<safety, trace>> /\ pc = "skip" /\ safety = "allow"
      BY <1>10 DEF SkipPlanner, GateInv
    <2>2. QED
      BY <1>0, <1>1, <2>1 DEF EventTypes, TellInv
  <1>11. ASSUME Plan PROVE TellInv'
    <2>1. PICK t \in Tools \cup {"none"} :
            /\ status' = IF t = "none" THEN "completed" ELSE status
            /\ \E next \in {"fallback", AfterPlan(t)} : Record("planner_action", step', next)
      BY <1>11 DEF Plan
    <2>2. /\ step' \in 0..MaxSteps /\ UNCHANGED <<safety, trace>> /\ pc = "plan"
          /\ safety = "allow" /\ status = "running"
      BY <1>11, AgentAssumption DEF Plan, LoopInv, TypeOK, GateInv
    <2>3. PICK next \in {"fallback", "act", "respond"} :
            /\ Record("planner_action", step', next)
            /\ next = "respond" => t = "none"
      BY <2>1 DEF AfterPlan
    <2>4. QED
      BY <1>1, <2>1, <2>2, <2>3 DEF EventTypes, TellInv
  <1>12. ASSUME Fallback PROVE TellInv'
    <2>1. PICK next \in {"act", "respond"} :
            /\ Record("planner_fallback", step, next)
            /\ next = "respond" => tool[step] = "none"
      BY <1>12 DEF Fallback, AfterPlan
    <2>2. /\ UNCHANGED <<safety, status, trace>> /\ pc = "fallback" /\ safety = "allow"
          /\ tool[step] = "none" => status = "completed"
      BY <1>12 DEF Fallback, GateInv, LoopInv
    <2>3. QED
      BY <1>0, <1>1, <2>1, <2>2 DEF EventTypes, TellInv
  <1>13. ASSUME Execute PROVE TellInv'
    <2>1. /\ pc = "execute" /\ pc' = "observe" /\ UNCHANGED <<log, safety, status>>
          /\ status = "running"
      BY <1>13 DEF Execute, LoopInv
    <2>2. DOMAIN trace \subseteq DOMAIN trace'
      BY <1>0, <1>13 DEF Execute
    <2>3. \A i \in Of(log', "tool_observation") : log'[i].step \in DOMAIN trace'
      BY <2>1, <2>2 DEF TellInv
    <2>4. QED
      BY <1>2, <2>1, <2>3 DEF TellInv
  <1>14. ASSUME Observe PROVE TellInv'
    <2>1. PICK next \in {"plan", "exhausted"} : Record("tool_observation", step, next)
      BY <1>14 DEF Observe
    <2>2. /\ UNCHANGED <<safety, status, trace>> /\ pc = "observe" /\ step \in DOMAIN trace
      BY <1>0, <1>14 DEF Observe, LoopInv, Steps
    <2>3. \A i \in Of(log', "tool_observation") : log'[i].step \in DOMAIN trace'
      BY <1>0, <2>1, <2>2, RecordTells DEF EventTypes, TellInv
    <2>4. QED
      BY <1>0, <1>1, <2>1, <2>2, <2>3 DEF EventTypes, TellInv
  <1>15. ASSUME Route PROVE TellInv'
    <2>1. /\ pc = "route" /\ pc' \in {"skip", "exhausted", "plan"}
          /\ UNCHANGED <<log, safety, status, trace>>
      BY <1>15 DEF Route
    <2>2. QED
      BY <1>2, <2>1 DEF TellInv
  <1>16. ASSUME Exhausted PROVE TellInv'
    <2>1. /\ pc = "exhausted" /\ pc' = "respond" /\ status' = "incomplete"
          /\ safety = "allow" /\ UNCHANGED <<log, safety, trace>>
      BY <1>16 DEF Exhausted, GateInv
    <2>2. QED
      BY <1>2, <2>1 DEF TellInv
  <1>17. ASSUME Respond PROVE TellInv'
    <2>1. /\ pc = "respond" /\ UNCHANGED <<safety, status, trace>>
          /\ Record("response_decision", step, "complete")
      BY <1>17 DEF Respond
    <2>2. QED
      BY <1>0, <1>1, <2>1 DEF EventTypes, TellInv
  <1>18. ASSUME Complete PROVE TellInv'
    <2>1. /\ pc = "complete" /\ UNCHANGED <<safety, status, trace>>
          /\ Record("run_completed", step, "snapshot")
      BY <1>18 DEF Complete
    <2>2. QED
      BY <1>0, <1>1, <2>1 DEF EventTypes, TellInv
  <1>19. ASSUME Fail PROVE TellInv'
    <2>1. /\ pc = "failing" /\ UNCHANGED <<safety, trace>> /\ status' = "failed"
          /\ Record("run_failed", step, "fail_snapshot")
      BY <1>19 DEF Fail
    <2>2. QED
      BY <1>0, <1>1, <2>1 DEF EventTypes, TellInv, Raised, Unguarded
  <1>20. ASSUME Return PROVE TellInv'
    <2>1. /\ pc \in {"snapshot", "fail_snapshot"} /\ pc' = "returned"
          /\ UNCHANGED <<log, safety, status, trace>>
          /\ log # <<>> /\ (pc = "fail_snapshot" => status = "failed")
      BY <1>20 DEF Return, VerdictInv
    <2>2. QED
      BY <1>2, <2>1 DEF TellInv
  <1>21. ASSUME SaveRaises \/ DependencyRaises \/ Crash PROVE TellInv'
    <2>1. /\ pc \in Doing /\ (pc' = "failing" => pc \notin {"start", "fail_snapshot"})
          /\ pc' \in {"failing", "escaped", "crashed"}
          /\ UNCHANGED <<log, safety, status, trace>>
      BY <1>21 DEF SaveRaises, DependencyRaises, Crash, Raised, Unguarded
    <2>2. QED
      BY <1>2, <2>1 DEF TellInv
  <1>22. ASSUME LateEffect \/ UNCHANGED vars PROVE TellInv'
    <2>1. UNCHANGED <<log, pc, safety, status, trace>>
      BY <1>22 DEF LateEffect, vars
    <2>2. QED
      BY <1>2, <2>1 DEF TellInv
  <1>23. QED
    BY <1>4, <1>5, <1>7, <1>8, <1>9, <1>10, <1>11, <1>12, <1>13, <1>14, <1>15, <1>16, <1>17,
       <1>18, <1>19, <1>20, <1>21, <1>22 DEF Next, RunStep

\* A set of positions has a last one.
LEMMA Greatest ==
  ASSUME NEW n \in Nat, NEW S \in SUBSET (1..n), S # {}
  PROVE  \E i \in S : \A j \in S : j <= i
  <1> DEFINE gaps == {n - i : i \in S}
  <1>1. gaps \in SUBSET Nat /\ gaps # {}
    <2>1. \A i \in S : i \in Int /\ n - i \in Nat
      OBVIOUS
    <2>2. QED
      BY <2>1
  <1>2. PICK g \in gaps : \A h \in gaps : ~(<<h, g>> \in OpToRel(<, Nat))
    BY <1>1, NatLessThanWellFounded, WFMin, Zenon
  <1>3. \A h \in gaps : ~(h < g)
    BY <1>1, <1>2, Zenon DEF OpToRel
  <1>4. PICK i \in S : g = n - i
    OBVIOUS
  <1>5. ASSUME NEW j \in S PROVE j <= i
    <2>1. n - j \in gaps
      OBVIOUS
    <2>2. QED
      BY <1>3, <1>4, <2>1
  <1>6. QED
    BY <1>5

\* The eval tools read the verdict from the last of the events of its types.
LEMMA VerdictRead ==
  ASSUME NEW evts, evts \in Seq(Events), evts # <<>>,
         Last(evts).type \in {"run_completed", "run_failed"}, NEW said
  PROVE  StatusOf(evts, said) = IF Last(evts).type = "run_failed" THEN "failed" ELSE said
  <1> DEFINE verdicts == Of(evts, "run_completed") \cup Of(evts, "run_failed")
             last == CHOOSE i \in verdicts : \A j \in verdicts : j <= i
  <1>1. /\ DOMAIN evts = 1..Len(evts) /\ Len(evts) \in Nat /\ Len(evts) # 0
        /\ Last(evts) = evts[Len(evts)]
    BY DEF Last
  <1>2. Len(evts) \in verdicts /\ \A j \in verdicts : j <= Len(evts)
    BY <1>1 DEF Of
  <1>3. \A i \in verdicts : i \in Int
    BY <1>1 DEF Of
  <1>4. last = Len(evts)
    <2>1. last \in verdicts /\ \A j \in verdicts : j <= last
      BY <1>2
    <2>2. QED
      BY <1>2, <1>3, <2>1
  <1>5. QED
    BY <1>1, <1>2, <1>4 DEF StatusOf

\* Every step of the trace has its observation in the log.
LEMMA ObservationsTold ==
  ASSUME Inv, TellInv, pc = "returned", status # "failed"
  PROVE  /\ \A n \in DOMAIN trace : \E i \in Of(log, "tool_observation") : log[i].step = n
         /\ Of(log, "tool_observation") = {} => trace = <<>>
  <1>1. /\ log \in Seq(Events) /\ trace \in Seq(BOOLEAN) /\ Len(trace) \in Nat
        /\ DOMAIN trace = 1..Len(trace)
        /\ status \in Statuses \ {"running", "failed"}
    BY DEF Inv, TypeOK, TellInv, Ended
  <1>2. ASSUME NEW n \in DOMAIN trace
        PROVE  \E i \in Of(log, "tool_observation") : log[i].step = n
    <2>1. status \in {"completed", "incomplete"}
      BY <1>1, <1>2 DEF TellInv, Statuses
    <2>2. Contains(log, Event("tool_observation", n))
      BY <1>1, <1>2, <2>1 DEF Inv, LogInv, ToolsInLog, InLog
    <2>3. PICK i \in 1..Len(log) : log[i] = Event("tool_observation", n)
      BY <2>2 DEF Contains
    <2>4. i \in Of(log, "tool_observation") /\ log[i].step = n
      BY <1>1, <2>3 DEF Of, Event
    <2>5. QED
      BY <2>4
  <1>3. Of(log, "tool_observation") = {} => trace = <<>>
    <2>1. SUFFICES ASSUME Of(log, "tool_observation") = {} PROVE trace = <<>>
      OBVIOUS
    <2>2. ~(1 \in DOMAIN trace)
      BY <1>2, <2>1
    <2>3. Len(trace) = 0
      BY <1>1, <2>2
    <2>4. QED
      BY <1>1, <2>3
  <1>4. QED
    BY <1>2, <1>3

\* What a case asks of the events of its own run is there, when the run's
\* events are the log's.
LEMMA DraftPasses ==
  ASSUME Inv, TellInv, pc = "returned", status # "failed"
  PROVE  \E draft \in Drafts(log, status, FALSE) : Failures(draft, Result) = {}
  <1>0. /\ log \in Seq(Events) /\ events = log /\ log # <<>>
        /\ Last(log).type = "run_completed"
        /\ trace \in Seq(BOOLEAN) /\ Len(trace) \in Nat
        /\ DOMAIN trace = 1..Len(trace)
        /\ status \in Statuses \ {"running", "failed"}
    BY DEF Inv, TypeOK, VerdictInv, VerdictIsLast, TellInv, Ended
  <1>1. StatusOf(log, status) = status /\ status # Unset
    BY <1>0, VerdictRead, DatasetAssumption
  <1> DEFINE item == [status |-> StatusOf(log, status),
                      tools |-> ToolsOf(log),
                      texts |-> TextsOf(log, status),
                      saves |-> Cardinality(Of(log, "memory_saved")),
                      refusal |-> Of(log, "safety_refusal") # {},
                      toolFailures |-> BadTools(log),
                      tiers |-> TiersOf(log),
                      counts |-> EventCounts(log)]
             draft == EvalCase(item)
  <1>2. draft \in Drafts(log, status, FALSE)
    <2>1. Of(log, "run_started") # {}
      BY DEF TellInv, Told
    <2>2. QED
      BY <1>0, <1>1, <2>1 DEF Drafts
  <1>3. /\ draft.status = status
        /\ draft.tools = ToolsOf(log)
        /\ draft.texts = TextsOf(log, status)
        /\ draft.saves = Cardinality(Of(log, "memory_saved"))
        /\ draft.refusal = (Of(log, "safety_refusal") # {})
        /\ draft.toolFailures = BadTools(log)
        /\ draft.tiers = TiersOf(log)
        /\ draft.counts = EventCounts(log)
        /\ draft.memory = {}
    BY <1>1 DEF EvalCase, Given
  <1> HIDE DEF draft, item
  <1>4. /\ Result.status = status
        /\ Result.tools = [n \in DOMAIN trace |-> tool[n]]
        /\ Result.says = {"answer"}
        /\ Result.refused = (safety \in {"refuse", "review"})
        /\ Result.tiers = IF status \in {"completed", "incomplete"} THEN <<"decided">>
                                                                    ELSE <<"stopped">>
        /\ Result.counts = EventCounts(log)
        /\ Result.badTools = BadTools(log)
        /\ Result.remembers = {}
    BY <1>0 DEF Result
  <1>5. "tools" \notin Failures(draft, Result)
    <2>1. Range(draft.tools) \subseteq Range(Result.tools)
      BY <1>3, <1>4 DEF Range, ToolsOf, TellInv
    <2>2. ASSUME draft.tools = <<>> PROVE Result.tools = <<>>
      <3>1. Of(log, "tool_observation") = {}
        BY <1>3, <2>2 DEF ToolsOf
      <3>2. trace = <<>>
        BY <1>0, <3>1, ObservationsTold
      <3>3. QED
        BY <1>4, <3>2
    <2>3. QED
      BY <2>1, <2>2 DEF Failures
  <1>6. "answer" \notin Failures(draft, Result)
    BY <1>0, <1>1, <1>3, <1>4 DEF Failures, TextsOf, Range
  <1>7. "saves" \notin Failures(draft, Result)
    <2>1. Count(Result, "memory_saved") = Cardinality(Of(log, "memory_saved"))
      <3>1. CASE Of(log, "memory_saved") = {}
        BY <1>4, <3>1, FS_EmptySet DEF Count, EventCounts, Of
      <3>2. CASE Of(log, "memory_saved") # {}
        BY <1>4, <3>2 DEF Count, EventCounts, Of
      <3>3. QED
        BY <3>1, <3>2
    <2>2. QED
      BY <1>3, <2>1 DEF Failures
  <1>8. "refusal" \notin Failures(draft, Result)
    <2>1. Of(log, "safety_refusal") # {} <=> safety \in {"refuse", "review"}
      BY DEF TellInv, Told, Ended
    <2>2. (Of(log, "safety_refusal") # {}) = (safety \in {"refuse", "review"})
      BY <2>1
    <2>3. draft.refusal = Result.refused
      BY <1>3, <1>4, <2>2
    <2>4. QED
      BY <2>3 DEF Failures
  <1>9. "tiers" \notin Failures(draft, Result)
    BY <1>0, <1>3, <1>4 DEF Failures, TiersOf, Range, TellInv, Told
  <1>10. Failures(draft, Result) \cap {"status", "toolFailures", "memory"} = {}
    BY <1>3, <1>4 DEF Failures
  <1>11. "counts" \notin Failures(draft, Result)
    BY <1>3, <1>4 DEF Failures, Count
  <1>12. Failures(draft, Result) = {}
    BY <1>5, <1>6, <1>7, <1>8, <1>9, <1>10, <1>11 DEF Failures
  <1>13. QED
    BY <1>2, <1>12

\* A replay has the tool calls of the trace.
LEMMA ReplayTells ==
  ASSUME Inv, TellInv, pc = "returned", status # "failed"
  PROVE  Replay(log, status).calls = {<<n, tool[n], trace[n]>> : n \in DOMAIN trace}
  <1>1. /\ \A i \in Of(log, "tool_observation") : log[i].step \in DOMAIN trace
        /\ \A n \in DOMAIN trace : \E i \in Of(log, "tool_observation") : log[i].step = n
    BY ObservationsTold DEF TellInv
  <1>2. QED
    BY <1>1 DEF Replay
---------------------------------------------------------------------------
\* The inductive invariant of a run: what its gates decided, where its loop is,
\* and what its log and its memories account for.
THEOREM Invariance == Spec => []Inv
  <1>1. Inv /\ [Next]_vars => Inv'
    BY TypeStep, FileStep, GateStep, LoopStep, LogStep, VerdictStep, MemoryStep DEF Inv
  <1>2. QED
    BY InitInv, <1>1, PTL DEF Spec

\* Every variable of a run keeps its type, however many steps it may take.
THEOREM Types == Spec => []TypeOK
  BY Invariance, PTL DEF Inv

\* A run that safety or the memory policy stops saves nothing and runs no tool,
\* whatever fails on the way.
THEOREM Gates == Spec => []StoppedRunsActOnNothing
  <1>1. Inv => StoppedRunsActOnNothing
    BY DEF Inv, GateInv, StoppedRunsActOnNothing, Idle
  <1>2. QED
    BY Invariance, <1>1, PTL

\* What is in the log is in the file, or a warning says that it may not be.
LEMMA FileHolds ==
  ASSUME Inv, NEW type, NEW n, InLog(type, n)
  PROVE  Logged(type, n)
  BY DEF Inv, TypeOK, FileInv, InLog, Logged, Contains

\* No tool acts before the log says it started, and the run goes on only once
\* the log says what it returned; the file says both, unless a warning tells.
THEOREM Accounting == Spec => []ToolsAreLogged
  <1>1. Inv => ToolsAreLogged
    BY FileHolds DEF Inv, LogInv, ToolsInLog, ToolsAreLogged
  <1>2. QED
    BY Invariance, <1>1, PTL

\* A result that comes back is the one the log ends with, and the file too but
\* for what has a warning.
THEOREM Verdicts == Spec => []VerdictIsLogged
  <1>1. Inv => VerdictIsLogged
    BY DEF Inv, VerdictInv, VerdictIsLast, FileInv, VerdictIsLogged
  <1>2. QED
    BY Invariance, <1>1, PTL

\* What a run says it saved is in the store, and what is there was asked for, by
\* a tool the file has, unless a warning tells.
THEOREM Provenance == Spec => []SavedMemoriesExist
  <1>1. Inv => SavedMemoriesExist
    BY FileHolds DEF Inv, MemoryInv, MemoriesInLog, SavedMemoriesExist
  <1>2. QED
    BY Invariance, <1>1, PTL

\* An incomplete run used all its steps.
THEOREM Exhaustion == Spec => []IncompleteIsExhausted
  BY Invariance, PTL DEF Inv, LoopInv

\* What the log of a run holds for the eval tools holds in every behaviour.
THEOREM TellInvariance == Spec => []TellInv
  BY InitTell, TellStep, Invariance, PTL DEF Spec

\* The log itself, which the file is when nothing has a warning, tells the run.
LEMMA LogTells ==
  ASSUME Inv, TellInv, pc = "returned"
  PROVE  Tells(log)
  <1>1. log \in Seq(Events) /\ log # <<>> /\ Unset \notin Statuses /\ status \in Statuses
    BY DatasetAssumption DEF Inv, TypeOK, TellInv
  <1>2. CASE status = "failed"
    <2>1. ASSUME NEW said \in Statuses PROVE StatusOf(log, said) = "failed"
      BY <1>1, <1>2, VerdictRead DEF Inv, VerdictInv, VerdictIsLast
    <2>2. "failed" # Unset
      BY <1>1, <1>2
    <2>3. QED
      BY <1>2, <2>1, <2>2 DEF Replay, Drafts, Tells
  <1>3. CASE status # "failed"
    <2>1. StatusOf(log, status) = status
      BY <1>1, <1>3, VerdictRead DEF Inv, VerdictInv, VerdictIsLast
    <2>2. Replay(log, status).status = status
      BY <1>1, <2>1 DEF Replay
    <2>3. QED
      BY <1>3, <2>2, ReplayTells, DraftPasses DEF Tells, Calls
  <1>4. QED
    BY <1>2, <1>3

\* A file that lacks events has no verdict of a run that did not fail other than
\* run_completed.
LEMMA FileStatus ==
  ASSUME Inv, TellInv, pc = "returned", status # "failed"
  PROVE  StatusOf(File, status) \in {status, Unset}
  <1> DEFINE verdicts == Of(File, "run_completed") \cup Of(File, "run_failed")
             last == CHOOSE i \in verdicts : \A j \in verdicts : j <= i
  <1>1. held \subseteq 1..Len(log) /\ Len(log) \in Nat /\ DOMAIN log = 1..Len(log)
    BY DEF Inv, TypeOK
  <1>2. \A i \in held : log[i].type # "run_failed"
    BY <1>1 DEF TellInv, Told, Of
  <1>3. Of(File, "run_failed") = {}
    BY <1>2 DEF Of, File
  <1>4. CASE verdicts = {}
    BY <1>4 DEF StatusOf
  <1>5. CASE verdicts # {}
    <2>1. verdicts \in SUBSET (1..Len(log)) /\ verdicts # {}
      BY <1>1, <1>5 DEF Of, File
    <2>2. \E i \in verdicts : \A j \in verdicts : j <= i
      <3> HIDE DEF verdicts
      <3> QED BY <1>1, <2>1, Greatest
    <2>3. last \in verdicts
      BY <2>2
    <2>4. File[last].type # "run_failed"
      BY <1>3, <2>3 DEF Of
    <2>5. QED
      BY <1>5, <2>4 DEF StatusOf
  <1>6. QED
    BY <1>4, <1>5

\* The file tells the run as its caller was told it, when nothing has a warning;
\* otherwise it tells of nothing that was not.
THEOREM Telling == Spec => []LogTellsTheRun
  <1>1. ASSUME Inv, TellInv, pc = "returned"
        PROVE  /\ warned = {} => Tells(File)
               /\ \A said \in Statuses : Replay(File, said).calls \subseteq Calls
               /\ status # "failed" => Replay(File, status).status \in {status, "unknown"}
    <2>1. log \in Seq(Events) /\ held \subseteq DOMAIN log /\ status \in Statuses
      BY <1>1 DEF Inv, TypeOK
    <2>2. ASSUME warned = {} PROVE Tells(File)
      <3>1. held = DOMAIN log
        BY <1>1, <2>1, <2>2 DEF Inv, FileInv, InFile
      <3>2. File = log
        BY <2>1, <3>1 DEF File
      <3>3. QED
        BY <1>1, <3>2, LogTells
    <2>3. ASSUME NEW said \in Statuses PROVE Replay(File, said).calls \subseteq Calls
      <3>1. \A i \in Of(File, "tool_observation") :
              i \in Of(log, "tool_observation") /\ File[i] = log[i]
        BY <2>1 DEF Of, File
      <3>2. \A i \in Of(log, "tool_observation") : log[i].step \in DOMAIN trace
        BY <1>1 DEF TellInv
      <3>3. QED
        BY <3>1, <3>2 DEF Replay, Calls
    <2>4. ASSUME status # "failed" PROVE Replay(File, status).status \in {status, "unknown"}
      BY <1>1, <2>4, FileStatus DEF Replay
    <2>5. QED
      BY <2>2, <2>3, <2>4
  <1>2. Inv /\ TellInv => LogTellsTheRun
    BY <1>1 DEF LogTellsTheRun
  <1>3. QED
    BY <1>2, Invariance, TellInvariance, PTL
===========================================================================
