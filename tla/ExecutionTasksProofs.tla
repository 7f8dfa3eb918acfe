------------------------ MODULE ExecutionTasksProofs ------------------------
(***************************************************************************)
(* Proofs about ExecutionTasks, for any tasks, spaces and limits and any   *)
(* number of faults: every task the worker is handed is reported after a   *)
(* bounded number of provider calls; an open circuit leases nothing; and a *)
(* task is given up only for a reason of its own, or with the batch in     *)
(* which another task's profile did not resolve.                           *)
(***************************************************************************)
EXTENDS ExecutionTasks, FiniteSetTheorems, TLAPS

\* Where the tasks of a poll are in each phase of _process_tasks.
Phases ==
    /\ pc \in {"idle", "space"} => raw = <<>> /\ batch = <<>> /\ left = <<>>
    /\ pc = "convert" => raw # <<>>
    /\ pc = "run" => raw = <<>> /\ batch # <<>>
    /\ pc \in {"deliver", "rerun"} => raw = <<>> /\ batch = <<>> /\ left # <<>>
    /\ pc = "fail" => raw # <<>> \/ left # <<>>
    /\ raw # <<>> => left = <<>>
    /\ pc = "fail" /\ raw = <<>> => batch = <<>>

\* A task is in one place, once.
Apart ==
    /\ IsInjective(raw) /\ IsInjective(batch) /\ IsInjective(left)
    /\ Range(raw) \cap Range(batch) = {}
    /\ Range(batch) \cap Range(left) = {}

\* What is owed is still in the worker's hands.
Owing ==
    /\ pc # "idle" => escaped = "no"
    /\ escaped = "no" => owed \subseteq Range(raw) \cup Range(batch) \cup Range(left)

\* The stages the task at the head of left goes through.
Stages ==
    /\ stage # "first" => left # <<>> /\ pc \in {"deliver", "rerun", "fail"}
    /\ pc = "deliver" => stage \in {"first", "again", "final"}
    /\ pc = "rerun" => stage \in {"first", "rejected"} /\ Head(left) \in Structured
    /\ stage = "rejected" => pc = "rerun"
    /\ stage = "raised" => pc = "fail"

\* Executions so far of the task at the head of left.
AtMost == CASE stage = "first" -> 1 [] stage \in {"again", "rejected"} -> 2 [] OTHER -> 3

Runs ==
    /\ \A t \in Range(raw) \cup Range(batch) : runs[t] = 0
    /\ left # <<>> => /\ runs[Head(left)] <= AtMost
                      /\ \A t \in Range(Tail(left)) : runs[t] <= 1
    /\ BoundedRuns

\* The circuit is closed while spaces are polled.
Closed == pc = "space" => circuit = "closed"

TasksInv == TypeOK /\ Phases /\ Apart /\ Owing /\ Stages /\ Runs /\ Closed

\* The tasks that failed for a reason of their own or for their batch's.
Culprits == blamed \cup dragged

\* The result of a task is its own failure only where the task is a culprit.
Judged ==
    stage # "raised" =>
        \A t \in Range(left) : result[t] \in Results /\ (Own(result[t]) => t \in Culprits)

\* The tasks of a batch in which a profile does not resolve are all culprits.
Raised == stage = "raised" => Range(left) \subseteq Culprits

\* What _fail_task reports as final is a culprit's failure, or is reported on a
\* lease that has ended.
Cause == pc = "fail" /\ why = "permanent" => Current \in Culprits \/ ~Live(Current)

\* A task reported as failed for good is given up.
Final == \A t \in Tasks : verdict[t] = "permanent" => core[t] = "failed" /\ t \in Culprits

FinalInv == Judged /\ Raised /\ Cause /\ Final

-----------------------------------------------------------------------------
(* Sequences                                                                *)

LEMMA EmptySequence == Range(<<>>) = {} /\ IsInjective(<<>>)
BY DEF Range, IsInjective

LEMMA RangeIn ==
    ASSUME NEW S, NEW s \in Seq(S)
    PROVE  Range(s) \subseteq S
BY DEF Range

LEMMA HeadAndTail ==
    ASSUME NEW S, NEW s \in Seq(S), s # <<>>
    PROVE  /\ Head(s) \in S /\ Tail(s) \in Seq(S)
           /\ Head(s) \in Range(s)
           /\ Range(s) = {Head(s)} \cup Range(Tail(s))
           /\ IsInjective(s) => IsInjective(Tail(s)) /\ Head(s) \notin Range(Tail(s))
<1>1. /\ Head(s) = s[1] /\ Head(s) \in S /\ Tail(s) \in Seq(S) /\ Len(s) \in Nat \ {0}
      /\ DOMAIN s = 1..Len(s) /\ DOMAIN Tail(s) = 1..Len(s) - 1
      /\ \A i \in 1..Len(s) - 1 : Tail(s)[i] = s[i + 1]
  OBVIOUS
<1>2. \A x : x \in Range(s) <=> x = Head(s) \/ x \in Range(Tail(s))
  <2>1. ASSUME NEW x, x \in Range(s) PROVE x = Head(s) \/ x \in Range(Tail(s))
    <3>1. PICK i \in 1..Len(s) : x = s[i]
      BY <1>1, <2>1 DEF Range
    <3>2. CASE i = 1
      BY <1>1, <3>1, <3>2
    <3>3. CASE i # 1
      <4>1. i - 1 \in 1..Len(s) - 1 /\ Tail(s)[i - 1] = x
        BY <1>1, <3>1, <3>3
      <4> QED BY <1>1, <4>1 DEF Range
    <3> QED BY <3>2, <3>3
  <2>2. ASSUME NEW x, x = Head(s) \/ x \in Range(Tail(s)) PROVE x \in Range(s)
    BY <1>1, <2>2 DEF Range
  <2> QED BY <2>1, <2>2
<1>3. Range(s) = {Head(s)} \cup Range(Tail(s))
  BY <1>2
<1>4. ASSUME IsInjective(s) PROVE IsInjective(Tail(s)) /\ Head(s) \notin Range(Tail(s))
  BY <1>1, <1>4 DEF IsInjective, Range
<1> QED BY <1>1, <1>3, <1>4

LEMMA Appended ==
    ASSUME NEW S, NEW s \in Seq(S), NEW x \in S
    PROVE  /\ Append(s, x) \in Seq(S) /\ Append(s, x) # <<>>
           /\ Range(Append(s, x)) = Range(s) \cup {x}
           /\ IsInjective(s) /\ x \notin Range(s) => IsInjective(Append(s, x))
           /\ s # <<>> => /\ Head(Append(s, x)) = Head(s)
                          /\ Range(Tail(Append(s, x))) = Range(Tail(s)) \cup {x}
           /\ s = <<>> => Head(Append(s, x)) = x /\ Range(Tail(Append(s, x))) = {}
<1>1. /\ Append(s, x) \in Seq(S) /\ Len(s) \in Nat
      /\ DOMAIN s = 1..Len(s) /\ DOMAIN Append(s, x) = 1..Len(s) + 1
      /\ Append(s, x)[Len(s) + 1] = x
      /\ \A i \in 1..Len(s) : Append(s, x)[i] = s[i]
  OBVIOUS
<1>2. \A y : y \in Range(Append(s, x)) <=> y \in Range(s) \/ y = x
  <2>1. ASSUME NEW y, y \in Range(Append(s, x)) PROVE y \in Range(s) \/ y = x
    BY <1>1, <2>1 DEF Range
  <2>2. ASSUME NEW y \in Range(s) PROVE y \in Range(Append(s, x))
    <3>1. PICK i \in 1..Len(s) : y = s[i]
      BY <1>1 DEF Range
    <3>2. i \in DOMAIN Append(s, x) /\ Append(s, x)[i] = y
      BY <1>1, <3>1
    <3> QED BY <3>2 DEF Range
  <2>3. x \in Range(Append(s, x))
    BY <1>1 DEF Range
  <2> QED BY <2>1, <2>2, <2>3
<1>3. Append(s, x) # <<>>
  BY <1>1
<1>4. ASSUME IsInjective(s), x \notin Range(s) PROVE IsInjective(Append(s, x))
  BY <1>1, <1>4 DEF IsInjective, Range
<1>5. ASSUME s # <<>>
      PROVE  /\ Head(Append(s, x)) = Head(s)
             /\ Range(Tail(Append(s, x))) = Range(Tail(s)) \cup {x}
  <2>1. Head(Append(s, x)) = Head(s) /\ Tail(Append(s, x)) = Append(Tail(s), x)
    BY <1>5
  <2>2. Tail(s) \in Seq(S) /\ Len(Tail(s)) \in Nat /\ DOMAIN Tail(s) = 1..Len(Tail(s))
        /\ DOMAIN Append(Tail(s), x) = 1..Len(Tail(s)) + 1
        /\ Append(Tail(s), x)[Len(Tail(s)) + 1] = x
        /\ \A i \in 1..Len(Tail(s)) : Append(Tail(s), x)[i] = Tail(s)[i]
    BY <1>5
  <2>3. \A y : y \in Range(Append(Tail(s), x)) <=> y \in Range(Tail(s)) \/ y = x
    <3>1. ASSUME NEW y, y \in Range(Append(Tail(s), x)) PROVE y \in Range(Tail(s)) \/ y = x
      BY <2>2, <3>1 DEF Range
    <3>2. ASSUME NEW y \in Range(Tail(s)) PROVE y \in Range(Append(Tail(s), x))
      <4>1. PICK i \in 1..Len(Tail(s)) : y = Tail(s)[i]
        BY <2>2 DEF Range
      <4>2. i \in DOMAIN Append(Tail(s), x) /\ Append(Tail(s), x)[i] = y
        BY <2>2, <4>1
      <4> QED BY <4>2 DEF Range
    <3>3. x \in Range(Append(Tail(s), x))
      BY <2>2 DEF Range
    <3> QED BY <3>1, <3>2, <3>3
  <2> QED BY <2>1, <2>3
<1>6. ASSUME s = <<>> PROVE Head(Append(s, x)) = x /\ Range(Tail(Append(s, x))) = {}
  <2>1. Head(Append(s, x)) = x /\ Tail(Append(s, x)) = <<>>
    BY <1>6
  <2> QED BY <2>1, EmptySequence
<1> QED BY <1>1, <1>2, <1>3, <1>4, <1>5, <1>6

\* The list of the tasks of a poll holds each of them once.
LEMMA Listed ==
    ASSUME NEW S, NEW B \in SUBSET S, IsFiniteSet(B)
    PROVE  /\ SetToSeq(B) \in Seq(S)
           /\ IsInjective(SetToSeq(B)) /\ Range(SetToSeq(B)) = B
           /\ B # {} => SetToSeq(B) # <<>>
<1> DEFINE n == Cardinality(B)
<1>1. n \in Nat /\ ExistsBijection(1..n, B)
  BY FS_CardinalityType
<1>2. PICK b \in [1..n -> B] : IsInjective(b)
  BY <1>1 DEF ExistsBijection, Bijection, Injection
<1>3. SetToSeq(B) \in [1..n -> B] /\ IsInjective(SetToSeq(B))
  BY <1>2 DEF SetToSeq
<1> DEFINE q == SetToSeq(B)
<1> HIDE DEF q
<1>4. q \in [1..n -> B] /\ IsInjective(q) /\ DOMAIN q = 1..n
  BY <1>3 DEF q
<1>5. q \in Seq(S)
  BY <1>1, <1>4
<1>6. Range(q) \subseteq B
  BY <1>4 DEF Range
<1>7. q \in Bijection(1..n, Range(q))
  BY <1>4 DEF Bijection, Injection, Surjection, Range
<1>8. Cardinality(Range(q)) = n
  BY <1>1, <1>7, FS_CountingElements DEF ExistsBijection
<1>9. Range(q) = B
  BY <1>6, <1>8, FS_Subset
<1>10. B # {} => q # <<>>
  BY <1>9, EmptySequence
<1> QED BY <1>4, <1>5, <1>9, <1>10 DEF q

-----------------------------------------------------------------------------
(* The steps of TasksInv: Core, the loop and the polls                      *)

LEMMA StutterStep ==
    ASSUME TasksInv, UNCHANGED vars
    PROVE  TasksInv'
<1> USE TasksAssumption DEF TasksInv, vars, coreVars, work, history, blame
<1>1. TypeOK'
  BY DEF TypeOK
<1>2. Phases'
  BY DEF TypeOK, Phases
<1>3. Apart'
  BY DEF Apart, Phases, TypeOK
<1>4. Owing'
  BY DEF Owing, Phases, TypeOK
<1>5. Stages'
  BY DEF TypeOK, Phases, Stages
<1>6. Runs'
  BY DEF TypeOK, Phases, Stages, Runs, AtMost, BoundedRuns
<1>7. Closed'
  BY DEF Closed, TypeOK
<1> QED
  BY <1>1, <1>2, <1>3, <1>4, <1>5, <1>6, <1>7

LEMMA ExhaustStep ==
    ASSUME TasksInv, NEW t \in Tasks, Exhaust(t)
    PROVE  TasksInv'
<1> USE TasksAssumption DEF TasksInv, Exhaust, vars, coreVars, work, history, blame
<1>1. TypeOK'
  BY DEF TypeOK
<1>2. Phases'
  BY DEF TypeOK, Phases
<1>3. Apart'
  BY DEF Apart, Phases, TypeOK
<1>4. Owing'
  BY DEF Owing, Phases, TypeOK
<1>5. Stages'
  BY DEF TypeOK, Phases, Stages
<1>6. Runs'
  BY DEF TypeOK, Phases, Stages, Runs, AtMost, BoundedRuns
<1>7. Closed'
  BY DEF Closed, TypeOK
<1> QED
  BY <1>1, <1>2, <1>3, <1>4, <1>5, <1>6, <1>7

LEMMA TickStep ==
    ASSUME TasksInv, Tick
    PROVE  TasksInv'
<1> USE TasksAssumption DEF TasksInv, Tick, Live, vars, coreVars, work, history, blame
<1>1. TypeOK'
  <2>1. /\ core' \in [Tasks -> {"queued", "leased", "done", "failed"}]
        /\ lease' \in [Tasks -> 0..Lease] /\ tries' \in [Tasks -> 0..MaxTries]
    BY DEF TypeOK
  <2>2. \A s \in {raw', batch', left'} : s \in Seq(Tasks)
    BY DEF TypeOK
  <2>3. result' \in [Tasks -> Results \cup {"none"}]
    BY DEF TypeOK
  <2>4. /\ pc' \in {"idle", "space", "convert", "run", "deliver", "rerun", "fail"}
        /\ stage' \in {"first", "again", "rejected", "final", "raised"}
        /\ why' \in {"retryable", "permanent"} /\ spent' \in 0..ExecTime
        /\ circuit' \in {"closed", "open"} /\ escaped' \in {"yes", "no"}
        /\ faults' \in 0..MaxFaults
    BY DEF TypeOK
  <2>5. /\ owed' \in SUBSET Tasks /\ blamed' \in SUBSET Tasks
        /\ dragged' \in SUBSET Tasks
    BY DEF TypeOK
  <2>6. runs' \in [Tasks -> Nat]
    BY DEF TypeOK
  <2>7. verdict' \in [Tasks -> {"none", "retryable", "permanent"}]
    BY DEF TypeOK
  <2> QED BY <2>1, <2>2, <2>3, <2>4, <2>5, <2>6, <2>7 DEF TypeOK
<1>2. Phases'
  BY DEF TypeOK, Phases
<1>3. Apart'
  BY DEF Apart, Phases, TypeOK
<1>4. Owing'
  BY DEF Owing, Phases, TypeOK
<1>5. Stages'
  BY DEF TypeOK, Phases, Stages
<1>6. Runs'
  BY DEF TypeOK, Phases, Stages, Runs, AtMost, BoundedRuns
<1>7. Closed'
  BY DEF Closed, TypeOK
<1> QED
  BY <1>1, <1>2, <1>3, <1>4, <1>5, <1>6, <1>7

LEMMA IterateStep ==
    ASSUME TasksInv, Iterate
    PROVE  TasksInv'
<1> USE TasksAssumption DEF TasksInv, Iterate, vars, coreVars, work, history, blame
<1>1. TypeOK'
  BY DEF TypeOK
<1>2. Phases'
  BY DEF TypeOK, Phases
<1>3. Apart'
  BY DEF Apart, Phases, TypeOK
<1>4. Owing'
  BY EmptySequence DEF Owing, Phases, TypeOK
<1>5. Stages'
  BY DEF TypeOK, Phases, Stages
<1>6. Runs'
  BY DEF TypeOK, Phases, Stages, Runs, AtMost, BoundedRuns
<1>7. Closed'
  BY DEF Closed, TypeOK
<1> QED
  BY <1>1, <1>2, <1>3, <1>4, <1>5, <1>6, <1>7

LEMMA PollTasksStep ==
    ASSUME TasksInv, PollTasks
    PROVE  TasksInv'
<1>0. PICK B \in Handed(Head(todo)) :
        /\ Polled(B)
        /\ IF B = {} \/ B \cap Poison # {}
           THEN Proceed /\ UNCHANGED <<raw, owed>>
           ELSE pc' = "convert" /\ raw' = SetToSeq(B) /\ owed' = B /\ UNCHANGED todo
  BY DEF PollTasks
<1>a. B \in SUBSET Tasks /\ IsFiniteSet(B) /\ (\A t \in B : tries[t] < MaxTries)
  BY <1>0 DEF Handed, Claimable
<1>b. /\ SetToSeq(B) \in Seq(Tasks)
      /\ IsInjective(SetToSeq(B)) /\ Range(SetToSeq(B)) = B
      /\ B # {} => SetToSeq(B) # <<>>
  BY <1>a, Listed
<1>c. /\ pc = "space" /\ raw = <<>> /\ batch = <<>> /\ left = <<>> /\ stage = "first"
      /\ UNCHANGED <<batch, left, result, stage, why, spent, escaped, faults, circuit>>
  BY DEF PollTasks, TasksInv, Phases, Stages, TypeOK
<1>d. \/ pc' \in {"space", "idle"} /\ raw' = <<>> /\ owed' = owed
      \/ pc' = "convert" /\ raw' = SetToSeq(B) /\ owed' = B /\ B # {}
  BY <1>0, <1>c DEF Proceed
<1>e. /\ runs' = [t \in Tasks |-> IF t \in B THEN 0 ELSE runs[t]]
      /\ blamed' = blamed \ B /\ dragged' = dragged \ B
      /\ verdict' = [t \in Tasks |-> IF t \in B THEN "none" ELSE verdict[t]]
      /\ LeaseAll(B)
  BY <1>0 DEF Polled
<1>f. pc' = "space" => circuit = "closed"
  BY <1>0, <1>c DEF Proceed
<1>g. \A t \in Tasks : runs'[t] = IF t \in B THEN 0 ELSE runs[t]
  BY <1>e
<1>h. BoundedRuns'
  BY <1>g DEF TasksInv, Runs, BoundedRuns
<1> USE TasksAssumption DEF TasksInv, vars, coreVars, work, history, blame
<1>1. TypeOK'
  <2>1. /\ core' \in [Tasks -> {"queued", "leased", "done", "failed"}]
        /\ lease' \in [Tasks -> 0..Lease] /\ tries' \in [Tasks -> 0..MaxTries]
    BY <1>a, <1>b, <1>c, <1>d, <1>e, EmptySequence DEF TypeOK, LeaseAll
  <2>2. \A s \in {raw', batch', left'} : s \in Seq(Tasks)
    BY <1>a, <1>b, <1>c, <1>d, <1>e, EmptySequence DEF TypeOK, LeaseAll
  <2>3. result' \in [Tasks -> Results \cup {"none"}]
    BY <1>a, <1>b, <1>c, <1>d, <1>e, EmptySequence DEF TypeOK, LeaseAll
  <2>4. /\ pc' \in {"idle", "space", "convert", "run", "deliver", "rerun", "fail"}
        /\ stage' \in {"first", "again", "rejected", "final", "raised"}
        /\ why' \in {"retryable", "permanent"} /\ spent' \in 0..ExecTime
        /\ circuit' \in {"closed", "open"} /\ escaped' \in {"yes", "no"}
        /\ faults' \in 0..MaxFaults
    BY <1>a, <1>b, <1>c, <1>d, <1>e, EmptySequence DEF TypeOK, LeaseAll
  <2>5. /\ owed' \in SUBSET Tasks /\ blamed' \in SUBSET Tasks
        /\ dragged' \in SUBSET Tasks
    BY <1>a, <1>b, <1>c, <1>d, <1>e, EmptySequence DEF TypeOK, LeaseAll
  <2>6. runs' \in [Tasks -> Nat]
    BY <1>a, <1>b, <1>c, <1>d, <1>e, EmptySequence DEF TypeOK, LeaseAll
  <2>7. verdict' \in [Tasks -> {"none", "retryable", "permanent"}]
    BY <1>a, <1>b, <1>c, <1>d, <1>e, EmptySequence DEF TypeOK, LeaseAll
  <2> QED BY <2>1, <2>2, <2>3, <2>4, <2>5, <2>6, <2>7 DEF TypeOK
<1>2. Phases'
  BY <1>a, <1>b, <1>c, <1>d, <1>e, EmptySequence DEF TypeOK, Phases
<1>3. Apart'
  BY <1>a, <1>b, <1>c, <1>d, <1>e, EmptySequence DEF Apart, Phases, TypeOK
<1>4. Owing'
  BY <1>a, <1>b, <1>c, <1>d, <1>e, EmptySequence DEF Owing, Phases, TypeOK
<1>5. Stages'
  BY <1>a, <1>b, <1>c, <1>d, <1>e, EmptySequence DEF TypeOK, Phases, Stages
<1>6. Runs'
  <2>1. left' = <<>> /\ Range(batch') = {} /\ Range(raw') \subseteq B
    BY <1>b, <1>c, <1>d, EmptySequence
  <2> QED BY <1>a, <1>g, <1>h, <2>1 DEF Runs
<1>7. Closed'
  BY <1>a, <1>b, <1>c, <1>d, <1>e, EmptySequence, <1>f DEF Closed, TypeOK
<1> QED
  BY <1>1, <1>2, <1>3, <1>4, <1>5, <1>6, <1>7

LEMMA PollLostStep ==
    ASSUME TasksInv, PollLost
    PROVE  TasksInv'
<1>0. PICK B \in Handed(Head(todo)) : Polled(B)
  BY DEF PollLost
<1>a. B \in SUBSET Tasks /\ (\A t \in B : tries[t] < MaxTries)
  BY <1>0 DEF Handed, Claimable
<1>c. /\ pc = "space" /\ raw = <<>> /\ batch = <<>> /\ left = <<>> /\ stage = "first"
      /\ UNCHANGED <<raw, batch, left, result, stage, why, spent, owed, escaped, circuit>>
      /\ faults' \in 0..MaxFaults
  BY TasksAssumption DEF PollLost, Fault, TasksInv, Phases, Stages, TypeOK
<1>d. pc' \in {"space", "idle"} /\ (pc' = "space" => circuit = "closed")
  BY DEF PollLost, Proceed
<1>e. /\ runs' = [t \in Tasks |-> IF t \in B THEN 0 ELSE runs[t]]
      /\ blamed' = blamed \ B /\ dragged' = dragged \ B
      /\ verdict' = [t \in Tasks |-> IF t \in B THEN "none" ELSE verdict[t]]
      /\ LeaseAll(B)
  BY <1>0 DEF Polled
<1> USE TasksAssumption DEF TasksInv, vars, coreVars, work, history, blame
<1>1. TypeOK'
  BY <1>a, <1>c, <1>d, <1>e, EmptySequence DEF TypeOK, LeaseAll
<1>2. Phases'
  BY <1>a, <1>c, <1>d, <1>e, EmptySequence DEF TypeOK, Phases
<1>3. Apart'
  BY <1>a, <1>c, <1>d, <1>e, EmptySequence DEF Apart, Phases, TypeOK
<1>4. Owing'
  BY <1>a, <1>c, <1>d, <1>e, EmptySequence DEF Owing, Phases, TypeOK
<1>5. Stages'
  BY <1>a, <1>c, <1>d, <1>e, EmptySequence DEF TypeOK, Phases, Stages
<1>6. Runs'
  BY <1>a, <1>c, <1>d, <1>e, EmptySequence DEF TypeOK, Phases, Stages, Runs, AtMost,
                                               BoundedRuns
<1>7. Closed'
  BY <1>a, <1>c, <1>d, <1>e, EmptySequence DEF Closed, TypeOK
<1> QED
  BY <1>1, <1>2, <1>3, <1>4, <1>5, <1>6, <1>7

LEMMA PollFailsStep ==
    ASSUME TasksInv, PollFails
    PROVE  TasksInv'
<1> USE TasksAssumption DEF TasksInv, PollFails, Fault, Proceed, vars, coreVars,
                            work, history, blame
<1>1. TypeOK'
  BY DEF TypeOK
<1>2. Phases'
  BY DEF TypeOK, Phases
<1>3. Apart'
  BY DEF Apart, Phases, TypeOK
<1>4. Owing'
  BY EmptySequence DEF Owing, Phases, TypeOK
<1>5. Stages'
  BY DEF TypeOK, Phases, Stages
<1>6. Runs'
  BY DEF TypeOK, Phases, Stages, Runs, AtMost, BoundedRuns
<1>7. Closed'
  BY DEF Closed, TypeOK
<1> QED
  BY <1>1, <1>2, <1>3, <1>4, <1>5, <1>6, <1>7

LEMMA KillStep ==
    ASSUME TasksInv, Kill
    PROVE  TasksInv'
<1> USE TasksAssumption DEF TasksInv, Kill, Fault, vars, coreVars, work, history, blame
<1>1. TypeOK'
  BY DEF TypeOK
<1>2. Phases'
  BY DEF TypeOK, Phases
<1>3. Apart'
  BY EmptySequence DEF Apart, Phases, TypeOK
<1>4. Owing'
  BY EmptySequence DEF Owing, Phases, TypeOK
<1>5. Stages'
  BY DEF TypeOK, Phases, Stages
<1>6. Runs'
  BY EmptySequence DEF TypeOK, Phases, Stages, Runs, AtMost, BoundedRuns
<1>7. Closed'
  BY DEF Closed, TypeOK
<1> QED
  BY <1>1, <1>2, <1>3, <1>4, <1>5, <1>6, <1>7

-----------------------------------------------------------------------------
(* The steps of TasksInv: conversion and execution                          *)

LEMMA ConvertStep ==
    ASSUME TasksInv, Convert
    PROVE  TasksInv'
<1>0. /\ Head(raw) \in Tasks /\ Tail(raw) \in Seq(Tasks)
      /\ Head(raw) \in Range(raw) /\ Range(raw) = {Head(raw)} \cup Range(Tail(raw))
      /\ IsInjective(raw) => IsInjective(Tail(raw)) /\ Head(raw) \notin Range(Tail(raw))
  <2>1. raw \in Seq(Tasks) /\ raw # <<>>
    BY DEF TasksInv, TypeOK, Phases, Convert
  <2> QED BY <2>1, HeadAndTail
<1>a. /\ Append(batch, Head(raw)) \in Seq(Tasks) /\ Append(batch, Head(raw)) # <<>>
      /\ Range(Append(batch, Head(raw))) = Range(batch) \cup {Head(raw)}
      /\ IsInjective(batch) /\ Head(raw) \notin Range(batch)
            => IsInjective(Append(batch, Head(raw)))
  <2>1. batch \in Seq(Tasks)
    BY DEF TasksInv, TypeOK
  <2> QED BY <1>0, <2>1, Appended
<1> USE TasksAssumption DEF TasksInv, Convert, vars, coreVars, work, history, blame
<1>1. TypeOK'
  BY <1>0, <1>a, EmptySequence DEF TypeOK
<1>2. Phases'
  BY <1>0, <1>a, EmptySequence DEF TypeOK, Phases
<1>3. Apart'
  <2>1. raw' = Tail(raw) /\ batch' = Append(batch, Head(raw)) /\ left' = <<>>
    BY DEF Phases
  <2>2. Head(raw) \notin Range(batch)
    BY <1>0 DEF Apart
  <2>3. IsInjective(raw') /\ IsInjective(batch') /\ IsInjective(left')
    BY <1>0, <1>a, <2>1, <2>2, EmptySequence DEF Apart
  <2>4. Range(raw') \cap Range(batch') = {}
    BY <1>0, <1>a, <2>1 DEF Apart
  <2>5. Range(batch') \cap Range(left') = {}
    BY <2>1, EmptySequence
  <2> QED BY <2>3, <2>4, <2>5 DEF Apart
<1>4. Owing'
  BY <1>0, <1>a, EmptySequence DEF Owing, Phases, TypeOK
<1>5. Stages'
  BY <1>0, <1>a, EmptySequence DEF TypeOK, Phases, Stages
<1>6. Runs'
  BY <1>0, <1>a, EmptySequence DEF TypeOK, Phases, Stages, Runs, AtMost, BoundedRuns
<1>7. Closed'
  BY <1>0, <1>a, EmptySequence DEF Closed, TypeOK
<1> QED
  BY <1>1, <1>2, <1>3, <1>4, <1>5, <1>6, <1>7

LEMMA ConvertFailsStep ==
    ASSUME TasksInv, ConvertFails
    PROVE  TasksInv'
<1>0. /\ Head(raw) \in Tasks /\ Tail(raw) \in Seq(Tasks)
      /\ Head(raw) \in Range(raw) /\ Range(raw) = {Head(raw)} \cup Range(Tail(raw))
      /\ IsInjective(raw) => IsInjective(Tail(raw)) /\ Head(raw) \notin Range(Tail(raw))
  <2>1. raw \in Seq(Tasks) /\ raw # <<>>
    BY DEF TasksInv, TypeOK, Phases, ConvertFails
  <2> QED BY <2>1, HeadAndTail
<1> USE TasksAssumption DEF TasksInv, ConvertFails, Raise, vars, coreVars, work, history, blame
<1>1. TypeOK'
  BY <1>0 DEF TypeOK
<1>2. Phases'
  BY <1>0 DEF TypeOK, Phases
<1>3. Apart'
  BY <1>0 DEF Apart, Phases, TypeOK
<1>4. Owing'
  BY <1>0 DEF Owing, Phases, TypeOK
<1>5. Stages'
  BY <1>0 DEF TypeOK, Phases, Stages
<1>6. Runs'
  BY <1>0 DEF TypeOK, Phases, Stages, Runs, AtMost, BoundedRuns
<1>7. Closed'
  BY <1>0 DEF Closed, TypeOK
<1> QED
  BY <1>1, <1>2, <1>3, <1>4, <1>5, <1>6, <1>7

LEMMA ExecuteOneStep ==
    ASSUME TasksInv, ExecuteOne
    PROVE  TasksInv'
<1>0. /\ Head(batch) \in Tasks /\ Tail(batch) \in Seq(Tasks)
      /\ Head(batch) \in Range(batch) /\ Range(batch) = {Head(batch)} \cup Range(Tail(batch))
      /\ IsInjective(batch) => IsInjective(Tail(batch)) /\ Head(batch) \notin Range(Tail(batch))
  <2>1. batch \in Seq(Tasks) /\ batch # <<>>
    BY DEF TasksInv, TypeOK, Phases, ExecuteOne
  <2> QED BY <2>1, HeadAndTail
<1>a. /\ Append(left, Head(batch)) \in Seq(Tasks) /\ Append(left, Head(batch)) # <<>>
      /\ Range(Append(left, Head(batch))) = Range(left) \cup {Head(batch)}
      /\ IsInjective(left) /\ Head(batch) \notin Range(left)
            => IsInjective(Append(left, Head(batch)))
      /\ left # <<>> => /\ Head(Append(left, Head(batch))) = Head(left)
                       /\ Range(Tail(Append(left, Head(batch)))) = Range(Tail(left)) \cup {Head(batch)}
      /\ left = <<>> => /\ Head(Append(left, Head(batch))) = Head(batch)
                       /\ Range(Tail(Append(left, Head(batch)))) = {}
  <2>1. left \in Seq(Tasks)
    BY DEF TasksInv, TypeOK
  <2> QED BY <1>0, <2>1, Appended
<1>b. PICK r \in Results :
        /\ result' = [result EXCEPT ![Head(batch)] = r]
        /\ blamed' = IF Own(r) THEN blamed \cup {Head(batch)} ELSE blamed
        /\ Ran({Head(batch)})
        /\ left' = Append(left, Head(batch))
  BY DEF ExecuteOne
<1>c. /\ pc = "run" /\ batch # <<>> /\ raw = <<>> /\ stage = "first"
      /\ batch' = Tail(batch) /\ stage' = "first"
      /\ pc' = IF Tail(batch) = <<>> THEN "deliver" ELSE "run"
      /\ UNCHANGED <<coreVars, todo, raw, why, circuit, owed, escaped, dragged, verdict,
                     faults>>
  BY DEF ExecuteOne, TasksInv, Phases, Stages, TypeOK
<1>d. /\ runs' = [t \in Tasks |-> IF t = Head(batch) THEN runs[t] + 1 ELSE runs[t]]
      /\ spent' = 0
  BY <1>b DEF Ran
<1> USE TasksAssumption DEF TasksInv, vars, coreVars, work, history, blame
<1>1. TypeOK'
  <2>1. /\ core' \in [Tasks -> {"queued", "leased", "done", "failed"}]
        /\ lease' \in [Tasks -> 0..Lease] /\ tries' \in [Tasks -> 0..MaxTries]
    BY <1>0, <1>a, <1>b, <1>c, <1>d, EmptySequence DEF TypeOK
  <2>2. \A s \in {raw', batch', left'} : s \in Seq(Tasks)
    BY <1>0, <1>a, <1>b, <1>c, <1>d, EmptySequence DEF TypeOK
  <2>3. result' \in [Tasks -> Results \cup {"none"}]
    BY <1>0, <1>a, <1>b, <1>c, <1>d, EmptySequence DEF TypeOK
  <2>4. /\ pc' \in {"idle", "space", "convert", "run", "deliver", "rerun", "fail"}
        /\ stage' \in {"first", "again", "rejected", "final", "raised"}
        /\ why' \in {"retryable", "permanent"} /\ spent' \in 0..ExecTime
        /\ circuit' \in {"closed", "open"} /\ escaped' \in {"yes", "no"}
        /\ faults' \in 0..MaxFaults
    BY <1>0, <1>a, <1>b, <1>c, <1>d, EmptySequence DEF TypeOK
  <2>5. /\ owed' \in SUBSET Tasks /\ blamed' \in SUBSET Tasks
        /\ dragged' \in SUBSET Tasks
    BY <1>0, <1>a, <1>b, <1>c, <1>d, EmptySequence DEF TypeOK
  <2>6. runs' \in [Tasks -> Nat]
    BY <1>d DEF TypeOK
  <2>7. verdict' \in [Tasks -> {"none", "retryable", "permanent"}]
    BY <1>0, <1>a, <1>b, <1>c, <1>d, EmptySequence DEF TypeOK
  <2> QED BY <2>1, <2>2, <2>3, <2>4, <2>5, <2>6, <2>7 DEF TypeOK
<1>2. Phases'
  BY <1>0, <1>a, <1>b, <1>c, <1>d, EmptySequence DEF TypeOK, Phases
<1>3. Apart'
  <2>1. raw' = <<>> /\ batch' = Tail(batch) /\ left' = Append(left, Head(batch))
    BY <1>b, <1>c
  <2>2. Head(batch) \notin Range(left)
    BY <1>0 DEF Apart
  <2>3. IsInjective(raw') /\ IsInjective(batch') /\ IsInjective(left')
    BY <1>0, <1>a, <2>1, <2>2, EmptySequence DEF Apart
  <2>4. Range(batch') \cap Range(left') = {}
    BY <1>0, <1>a, <2>1 DEF Apart
  <2>5. Range(raw') \cap Range(batch') = {}
    BY <2>1, EmptySequence
  <2> QED BY <2>3, <2>4, <2>5 DEF Apart
<1>4. Owing'
  BY <1>0, <1>a, <1>b, <1>c, <1>d, EmptySequence DEF Owing, Phases, TypeOK
<1>5. Stages'
  BY <1>0, <1>a, <1>b, <1>c, <1>d, EmptySequence DEF TypeOK, Phases, Stages
<1>6. Runs'
  <2>1. runs[Head(batch)] = 0 /\ (\A t \in Range(Tail(batch)) : runs[t] = 0)
    BY <1>0 DEF Runs
  <2>2. Range(raw') = {} /\ Range(batch') = Range(Tail(batch))
    BY <1>c, EmptySequence
  <2>3. \A t \in Range(raw') \cup Range(batch') : runs'[t] = 0
    <3>1. Range(Tail(batch)) \subseteq Tasks /\ Head(batch) \notin Range(Tail(batch))
      BY <1>0, RangeIn DEF Apart
    <3> QED BY <1>d, <2>1, <2>2, <3>1
  <2>4. runs'[Head(left')] <= 1 /\ (\A t \in Range(Tail(left')) : runs'[t] <= 1)
    <3>1. runs'[Head(batch)] = 1
      BY <1>0, <1>d, <2>1
    <3>2. CASE left = <<>>
      BY <1>a, <1>b, <3>1, <3>2
    <3>3. CASE left # <<>>
      <4>1. /\ Head(left) \in Range(left) /\ Range(Tail(left)) \subseteq Range(left)
            /\ Range(left) \subseteq Tasks
        BY <3>3, HeadAndTail, RangeIn DEF TypeOK
      <4>2. Head(batch) \notin Range(left)
        BY <1>0 DEF Apart
      <4>3. runs[Head(left)] <= 1 /\ (\A t \in Range(Tail(left)) : runs[t] <= 1)
        BY <1>c, <3>3 DEF Runs, AtMost
      <4> QED BY <1>a, <1>b, <1>d, <3>1, <3>3, <4>1, <4>2, <4>3
    <3> QED BY <3>2, <3>3
  <2>5. BoundedRuns'
    <3>1. \A t \in Tasks : runs[t] <= IF t \in Structured THEN 3 ELSE 1
      BY DEF Runs, BoundedRuns
    <3>2. \A t \in Tasks : runs'[t] = IF t = Head(batch) THEN 1 ELSE runs[t]
      BY <1>0, <1>d, <2>1
    <3> QED BY <3>1, <3>2 DEF BoundedRuns
  <2>6. AtMost' = 1
    BY <1>c DEF AtMost
  <2> QED BY <2>3, <2>4, <2>5, <2>6 DEF Runs
<1>7. Closed'
  BY <1>0, <1>a, <1>b, <1>c, <1>d, EmptySequence DEF Closed, TypeOK
<1> QED
  BY <1>1, <1>2, <1>3, <1>4, <1>5, <1>6, <1>7

LEMMA ExecuteBatchStep ==
    ASSUME TasksInv, ExecuteBatch
    PROVE  TasksInv'
<1>0. /\ Head(batch) \in Tasks /\ Tail(batch) \in Seq(Tasks)
      /\ Head(batch) \in Range(batch) /\ Range(batch) = {Head(batch)} \cup Range(Tail(batch))
      /\ IsInjective(batch) => IsInjective(Tail(batch)) /\ Head(batch) \notin Range(Tail(batch))
  <2>1. batch \in Seq(Tasks) /\ batch # <<>>
    BY DEF TasksInv, TypeOK, Phases, ExecuteBatch
  <2> QED BY <2>1, HeadAndTail
<1>b. PICK r \in Results \ {"shape"}, bad \in SUBSET Range(batch) :
        /\ result' = [t \in Tasks |-> IF t \in bad THEN "permanent"
                                      ELSE IF t \in Range(batch) THEN r ELSE result[t]]
        /\ blamed' = IF Own(r) THEN blamed \cup Range(batch) ELSE blamed \cup bad
        /\ Ran(Range(batch))
  BY DEF ExecuteBatch
<1>c. /\ pc = "run" /\ batch # <<>> /\ raw = <<>> /\ stage = "first"
      /\ left' = batch /\ batch' = <<>> /\ pc' = "deliver" /\ stage' = "first"
      /\ UNCHANGED <<coreVars, todo, raw, why, circuit, owed, escaped, dragged, verdict,
                     faults>>
  BY DEF ExecuteBatch, TasksInv, Phases, Stages, TypeOK
<1>d. /\ runs' = [t \in Tasks |-> IF t \in Range(batch) THEN runs[t] + 1 ELSE runs[t]]
      /\ spent' = 0
  BY <1>b DEF Ran
<1>e. left = <<>>
  BY DEF ExecuteBatch
<1>g. (\A t \in Range(batch) : runs[t] = 0) /\ BoundedRuns
  BY DEF TasksInv, Runs
<1>f. Range(batch) \subseteq Tasks
  BY RangeIn DEF TasksInv, TypeOK
<1> USE TasksAssumption DEF TasksInv, vars, coreVars, work, history, blame
<1>1. TypeOK'
  <2>1. /\ core' \in [Tasks -> {"queued", "leased", "done", "failed"}]
        /\ lease' \in [Tasks -> 0..Lease] /\ tries' \in [Tasks -> 0..MaxTries]
    BY <1>0, <1>b, <1>c, <1>d, <1>e, <1>f, EmptySequence DEF TypeOK, Results
  <2>2. \A s \in {raw', batch', left'} : s \in Seq(Tasks)
    BY <1>0, <1>b, <1>c, <1>d, <1>e, <1>f, EmptySequence DEF TypeOK, Results
  <2>3. result' \in [Tasks -> Results \cup {"none"}]
    BY <1>0, <1>b, <1>c, <1>d, <1>e, <1>f, EmptySequence DEF TypeOK, Results
  <2>4. /\ pc' \in {"idle", "space", "convert", "run", "deliver", "rerun", "fail"}
        /\ stage' \in {"first", "again", "rejected", "final", "raised"}
        /\ why' \in {"retryable", "permanent"} /\ spent' \in 0..ExecTime
        /\ circuit' \in {"closed", "open"} /\ escaped' \in {"yes", "no"}
        /\ faults' \in 0..MaxFaults
    BY <1>0, <1>b, <1>c, <1>d, <1>e, <1>f, EmptySequence DEF TypeOK, Results
  <2>5. /\ owed' \in SUBSET Tasks /\ blamed' \in SUBSET Tasks
        /\ dragged' \in SUBSET Tasks
    BY <1>0, <1>b, <1>c, <1>d, <1>e, <1>f, EmptySequence DEF TypeOK, Results
  <2>6. runs' \in [Tasks -> Nat]
    BY <1>d DEF TypeOK, Results
  <2>7. verdict' \in [Tasks -> {"none", "retryable", "permanent"}]
    BY <1>0, <1>b, <1>c, <1>d, <1>e, <1>f, EmptySequence DEF TypeOK, Results
  <2> QED BY <2>1, <2>2, <2>3, <2>4, <2>5, <2>6, <2>7 DEF TypeOK
<1>2. Phases'
  BY <1>0, <1>b, <1>c, <1>d, <1>e, <1>f, EmptySequence DEF TypeOK, Phases
<1>3. Apart'
  BY <1>0, <1>b, <1>c, <1>d, <1>e, <1>f, EmptySequence DEF Apart, Phases, TypeOK
<1>4. Owing'
  BY <1>0, <1>b, <1>c, <1>d, <1>e, <1>f, EmptySequence DEF Owing, Phases, TypeOK
<1>5. Stages'
  BY <1>0, <1>b, <1>c, <1>d, <1>e, <1>f, EmptySequence DEF TypeOK, Phases, Stages
<1>6. Runs'
  <2>1. \A t \in Tasks : runs'[t] = IF t \in Range(batch) THEN 1 ELSE runs[t]
    BY <1>d, <1>f, <1>g
  <2>2. BoundedRuns'
    BY <1>g, <2>1 DEF BoundedRuns
  <2>3. AtMost' = 1 /\ Range(raw') \cup Range(batch') = {} /\ left' = batch
    BY <1>c, EmptySequence DEF AtMost
  <2>4. runs'[Head(left')] <= 1 /\ (\A t \in Range(Tail(left')) : runs'[t] <= 1)
    BY <1>0, <1>f, <2>1, <2>3
  <2> QED BY <2>2, <2>3, <2>4 DEF Runs
<1>7. Closed'
  BY <1>0, <1>b, <1>c, <1>d, <1>e, <1>f, EmptySequence DEF Closed, TypeOK
<1> QED
  BY <1>1, <1>2, <1>3, <1>4, <1>5, <1>6, <1>7

LEMMA ResolveFailsStep ==
    ASSUME TasksInv, NEW n \in 1..Len(batch), ResolveFails(n)
    PROVE  TasksInv'
<1>0. /\ Head(batch) \in Tasks /\ Tail(batch) \in Seq(Tasks)
      /\ Head(batch) \in Range(batch) /\ Range(batch) = {Head(batch)} \cup Range(Tail(batch))
      /\ IsInjective(batch) => IsInjective(Tail(batch)) /\ Head(batch) \notin Range(Tail(batch))
  <2>1. batch \in Seq(Tasks) /\ batch # <<>>
    BY DEF TasksInv, TypeOK, Phases, ResolveFails
  <2> QED BY <2>1, HeadAndTail
<1>b. Range(batch) \subseteq Tasks
  BY RangeIn DEF TasksInv, TypeOK
<1>c. /\ pc = "run" /\ batch # <<>> /\ raw = <<>> /\ stage = "first"
      /\ left' = batch /\ batch' = <<>>
      /\ blamed' = blamed \cup {batch[n]}
      /\ dragged' = dragged \cup (Range(batch) \ {batch[n]})
      /\ UNCHANGED <<coreVars, todo, raw, spent, circuit, owed, escaped, runs, verdict, faults>>
  BY DEF ResolveFails, TasksInv, Phases, Stages, TypeOK
<1>d. \/ /\ result' = [t \in Tasks |-> IF t \in Range(batch) THEN "permanent" ELSE result[t]]
         /\ pc' = "deliver" /\ stage' = "first" /\ UNCHANGED why
      \/ /\ pc' = "fail" /\ why' = "permanent" /\ stage' = "raised" /\ UNCHANGED result
  BY DEF ResolveFails, Raise
<1>e. left = <<>>
  BY DEF ResolveFails
<1> USE TasksAssumption DEF TasksInv, vars, coreVars, work, history, blame
<1>1. TypeOK'
  <2>1. /\ core' \in [Tasks -> {"queued", "leased", "done", "failed"}]
        /\ lease' \in [Tasks -> 0..Lease] /\ tries' \in [Tasks -> 0..MaxTries]
    BY <1>0, <1>b, <1>c, <1>d, <1>e, EmptySequence DEF TypeOK, Results
  <2>2. \A s \in {raw', batch', left'} : s \in Seq(Tasks)
    BY <1>0, <1>b, <1>c, <1>d, <1>e, EmptySequence DEF TypeOK, Results
  <2>3. result' \in [Tasks -> Results \cup {"none"}]
    BY <1>0, <1>b, <1>c, <1>d, <1>e, EmptySequence DEF TypeOK, Results
  <2>4. /\ pc' \in {"idle", "space", "convert", "run", "deliver", "rerun", "fail"}
        /\ stage' \in {"first", "again", "rejected", "final", "raised"}
        /\ why' \in {"retryable", "permanent"} /\ spent' \in 0..ExecTime
        /\ circuit' \in {"closed", "open"} /\ escaped' \in {"yes", "no"}
        /\ faults' \in 0..MaxFaults
    BY <1>0, <1>b, <1>c, <1>d, <1>e, EmptySequence DEF TypeOK, Results
  <2>5. /\ owed' \in SUBSET Tasks /\ blamed' \in SUBSET Tasks
        /\ dragged' \in SUBSET Tasks
    <3>1. batch[n] \in Tasks
      BY DEF TypeOK
    <3> QED BY <1>b, <1>c, <3>1 DEF TypeOK
  <2>6. runs' \in [Tasks -> Nat]
    BY <1>0, <1>b, <1>c, <1>d, <1>e, EmptySequence DEF TypeOK, Results
  <2>7. verdict' \in [Tasks -> {"none", "retryable", "permanent"}]
    BY <1>0, <1>b, <1>c, <1>d, <1>e, EmptySequence DEF TypeOK, Results
  <2> QED BY <2>1, <2>2, <2>3, <2>4, <2>5, <2>6, <2>7 DEF TypeOK
<1>2. Phases'
  BY <1>0, <1>b, <1>c, <1>d, <1>e, EmptySequence DEF TypeOK, Phases
<1>3. Apart'
  BY <1>0, <1>b, <1>c, <1>d, <1>e, EmptySequence DEF Apart, Phases, TypeOK
<1>4. Owing'
  BY <1>0, <1>b, <1>c, <1>d, <1>e, EmptySequence DEF Owing, Phases, TypeOK
<1>5. Stages'
  BY <1>0, <1>b, <1>c, <1>d, <1>e, EmptySequence DEF TypeOK, Phases, Stages
<1>6. Runs'
  <2>1. \A t \in Range(batch) : runs'[t] = 0
    BY <1>c DEF Runs
  <2>2. BoundedRuns'
    BY <1>c DEF Runs, BoundedRuns
  <2>3. AtMost' >= 1 /\ AtMost' \in Nat /\ Range(raw') \cup Range(batch') = {} /\ left' = batch
    BY <1>c, <1>d, EmptySequence DEF AtMost
  <2>4. runs'[Head(left')] = 0 /\ (\A t \in Range(Tail(left')) : runs'[t] = 0)
    BY <1>0, <2>1, <2>3
  <2> QED BY <2>2, <2>3, <2>4 DEF Runs
<1>7. Closed'
  BY <1>0, <1>b, <1>c, <1>d, <1>e, EmptySequence DEF Closed, TypeOK
<1> QED
  BY <1>1, <1>2, <1>3, <1>4, <1>5, <1>6, <1>7

-----------------------------------------------------------------------------
(* The steps of TasksInv: delivery                                          *)

LEMMA ReshapeStep ==
    ASSUME TasksInv, Reshape
    PROVE  TasksInv'
<1> USE TasksAssumption DEF TasksInv, Reshape, vars, coreVars, work, history, blame
<1>1. TypeOK'
  BY DEF TypeOK
<1>2. Phases'
  BY DEF TypeOK, Phases
<1>3. Apart'
  BY DEF Apart, Phases, TypeOK
<1>4. Owing'
  BY DEF Owing, Phases, TypeOK
<1>5. Stages'
  BY DEF TypeOK, Phases, Stages
<1>6. Runs'
  BY DEF TypeOK, Phases, Stages, Runs, AtMost, BoundedRuns
<1>7. Closed'
  BY DEF Closed, TypeOK
<1> QED
  BY <1>1, <1>2, <1>3, <1>4, <1>5, <1>6, <1>7

LEMMA RerunStep ==
    ASSUME TasksInv, Rerun
    PROVE  TasksInv'
<1>0. /\ Head(left) \in Tasks /\ Tail(left) \in Seq(Tasks)
      /\ Head(left) \in Range(left) /\ Range(left) = {Head(left)} \cup Range(Tail(left))
      /\ IsInjective(left) => IsInjective(Tail(left)) /\ Head(left) \notin Range(Tail(left))
  <2>1. left \in Seq(Tasks) /\ left # <<>>
    BY DEF TasksInv, TypeOK, Phases, Rerun
  <2> QED BY <2>1, HeadAndTail
<1>b. PICK r \in Results :
        /\ result' = [result EXCEPT ![Head(left)] = r]
        /\ blamed' = IF Own(r) THEN blamed \cup {Head(left)} ELSE blamed
        /\ Ran({Head(left)})
        /\ stage' = IF stage = "first" /\ r # "completed" THEN "again" ELSE "final"
  BY DEF Rerun
<1>c. /\ pc = "rerun" /\ pc' = "deliver" /\ left # <<>>
      /\ stage \in {"first", "rejected"} /\ Head(left) \in Structured
      /\ UNCHANGED <<coreVars, todo, raw, batch, left, why, circuit, owed, escaped, dragged, verdict,
                     faults>>
  BY DEF Rerun, TasksInv, Phases, Stages
<1>d. /\ runs' = [t \in Tasks |-> IF t = Head(left) THEN runs[t] + 1 ELSE runs[t]]
      /\ spent' = 0
  BY <1>b DEF Ran
<1> USE TasksAssumption DEF TasksInv, vars, coreVars, work, history, blame
<1>1. TypeOK'
  <2>1. /\ core' \in [Tasks -> {"queued", "leased", "done", "failed"}]
        /\ lease' \in [Tasks -> 0..Lease] /\ tries' \in [Tasks -> 0..MaxTries]
    BY <1>0, <1>b, <1>c, <1>d DEF TypeOK
  <2>2. \A s \in {raw', batch', left'} : s \in Seq(Tasks)
    BY <1>0, <1>b, <1>c, <1>d DEF TypeOK
  <2>3. result' \in [Tasks -> Results \cup {"none"}]
    BY <1>0, <1>b, <1>c, <1>d DEF TypeOK
  <2>4. /\ pc' \in {"idle", "space", "convert", "run", "deliver", "rerun", "fail"}
        /\ stage' \in {"first", "again", "rejected", "final", "raised"}
        /\ why' \in {"retryable", "permanent"} /\ spent' \in 0..ExecTime
        /\ circuit' \in {"closed", "open"} /\ escaped' \in {"yes", "no"}
        /\ faults' \in 0..MaxFaults
    BY <1>0, <1>b, <1>c, <1>d DEF TypeOK
  <2>5. /\ owed' \in SUBSET Tasks /\ blamed' \in SUBSET Tasks
        /\ dragged' \in SUBSET Tasks
    BY <1>0, <1>b, <1>c, <1>d DEF TypeOK
  <2>6. runs' \in [Tasks -> Nat]
    BY <1>d DEF TypeOK
  <2>7. verdict' \in [Tasks -> {"none", "retryable", "permanent"}]
    BY <1>0, <1>b, <1>c, <1>d DEF TypeOK
  <2> QED BY <2>1, <2>2, <2>3, <2>4, <2>5, <2>6, <2>7 DEF TypeOK
<1>2. Phases'
  BY <1>0, <1>b, <1>c, <1>d DEF TypeOK, Phases
<1>3. Apart'
  BY <1>0, <1>b, <1>c, <1>d DEF Apart, Phases, TypeOK
<1>4. Owing'
  BY <1>0, <1>b, <1>c, <1>d DEF Owing, Phases, TypeOK
<1>5. Stages'
  BY <1>0, <1>b, <1>c, <1>d DEF TypeOK, Phases, Stages
<1>6. Runs'
  <2>1. raw = <<>> /\ batch = <<>>
    BY <1>c DEF Phases
  <2>2. Range(raw') \cup Range(batch') = {}
    BY <1>c, <2>1, EmptySequence
  <2>3. runs \in [Tasks -> Nat] /\ Range(Tail(left)) \subseteq Tasks
    BY <1>0, RangeIn DEF TypeOK
  <2>4. runs'[Head(left)] = runs[Head(left)] + 1
    BY <1>0, <1>d
  <2>5. runs[Head(left)] <= AtMost /\ (\A t \in Range(Tail(left)) : runs[t] <= 1)
    BY <1>c DEF Runs
  <2>6. AtMost = (IF stage = "first" THEN 1 ELSE 2) /\ AtMost' = IF stage' = "again" THEN 2 ELSE 3
    BY <1>b, <1>c DEF AtMost
  <2>7. runs'[Head(left)] <= AtMost' /\ runs'[Head(left)] <= 3
    BY <1>0, <1>b, <1>c, <2>3, <2>4, <2>5, <2>6
  <2>8. Head(left) \notin Range(Tail(left))
    BY <1>0 DEF Apart
  <2>9. \A t \in Range(Tail(left)) : runs'[t] <= 1
    BY <1>d, <2>3, <2>5, <2>8
  <2>10. BoundedRuns'
    BY <1>0, <1>c, <1>d, <2>7 DEF Runs, BoundedRuns
  <2> QED BY <1>c, <2>2, <2>7, <2>9, <2>10 DEF Runs
<1>7. Closed'
  BY <1>0, <1>b, <1>c, <1>d DEF Closed, TypeOK
<1> QED
  BY <1>1, <1>2, <1>3, <1>4, <1>5, <1>6, <1>7

\* The worker goes on with the next task.
LEMMA ReportedStep ==
    ASSUME TasksInv, pc \in {"deliver", "fail"}, Reported,
           UNCHANGED <<batch, escaped, runs>>, circuit' \in {"closed", "open"}
    PROVE  /\ pc' \in {"idle", "space", "convert", "run", "deliver", "rerun", "fail"}
           /\ raw' \in Seq(Tasks) /\ batch' \in Seq(Tasks) /\ left' \in Seq(Tasks)
           /\ stage' \in {"first", "again", "rejected", "final", "raised"}
           /\ owed' \in SUBSET Tasks /\ result' \in [Tasks -> Results \cup {"none"}]
           /\ Phases' /\ Apart' /\ Owing' /\ Stages' /\ Runs' /\ Closed'
<1> USE DEF TasksInv
<1>1. CASE raw # <<>>
  <2> USE <1>1 DEF Reported, Current, Proceed
  <2>0. /\ Head(raw) \in Tasks /\ Tail(raw) \in Seq(Tasks)
        /\ Head(raw) \in Range(raw) /\ Range(raw) = {Head(raw)} \cup Range(Tail(raw))
        /\ IsInjective(raw) => IsInjective(Tail(raw)) /\ Head(raw) \notin Range(Tail(raw))
    BY HeadAndTail DEF TypeOK
  <2>1. /\ pc' \in {"idle", "space", "convert", "run", "deliver", "rerun", "fail"}
        /\ raw' \in Seq(Tasks) /\ batch' \in Seq(Tasks) /\ left' \in Seq(Tasks)
        /\ stage' \in {"first", "again", "rejected", "final", "raised"}
        /\ owed' \in SUBSET Tasks /\ result' \in [Tasks -> Results \cup {"none"}]
    BY <2>0, EmptySequence DEF TypeOK, Phases
  <2>2. Phases'
    BY <2>0, EmptySequence DEF TypeOK, Phases
  <2>3. Apart'
    BY <2>0, EmptySequence DEF Apart, Phases, TypeOK
  <2>4. Owing'
    BY <2>0, EmptySequence DEF Owing, Phases, TypeOK
  <2>5. Stages'
    BY <2>0, EmptySequence DEF Stages, Phases, TypeOK
  <2>6. Runs'
    BY <2>0, EmptySequence DEF Runs, AtMost, BoundedRuns, Phases, Stages, TypeOK
  <2>7. Closed'
    BY <2>0, EmptySequence DEF Closed, TypeOK
  <2> QED BY <2>1, <2>2, <2>3, <2>4, <2>5, <2>6, <2>7
<1>2. CASE raw = <<>>
  <2> USE <1>2 DEF Reported, Current, Proceed
  <2>0. /\ left # <<>> /\ Head(left) \in Tasks /\ Tail(left) \in Seq(Tasks)
        /\ Head(left) \in Range(left) /\ Range(left) = {Head(left)} \cup Range(Tail(left))
        /\ IsInjective(left) => IsInjective(Tail(left)) /\ Head(left) \notin Range(Tail(left))
    BY HeadAndTail DEF TypeOK, Phases
  <2>a. Tail(left) # <<>> => /\ Head(Tail(left)) \in Range(Tail(left))
                             /\ Range(Tail(Tail(left))) \subseteq Range(Tail(left))
    BY <2>0, HeadAndTail
  <2>1. /\ pc' \in {"idle", "space", "convert", "run", "deliver", "rerun", "fail"}
        /\ raw' \in Seq(Tasks) /\ batch' \in Seq(Tasks) /\ left' \in Seq(Tasks)
        /\ stage' \in {"first", "again", "rejected", "final", "raised"}
        /\ owed' \in SUBSET Tasks /\ result' \in [Tasks -> Results \cup {"none"}]
    BY <2>0, EmptySequence, <2>a DEF TypeOK, Phases
  <2>2. Phases'
    BY <2>0, EmptySequence, <2>a DEF TypeOK, Phases
  <2>3. Apart'
    BY <2>0, EmptySequence, <2>a DEF Apart, Phases, TypeOK
  <2>4. Owing'
    BY <2>0, EmptySequence, <2>a DEF Owing, Phases, TypeOK
  <2>5. Stages'
    BY <2>0, EmptySequence, <2>a DEF Stages, Phases, TypeOK
  <2>6. Runs'
    <3>1. raw' = <<>> /\ batch' = <<>> /\ left' = Tail(left) /\ runs' = runs
      BY DEF Phases
    <3>2. Range(raw') \cup Range(batch') = {}
      BY <3>1, EmptySequence
    <3>3. AtMost' \in {1, 3}
      BY DEF AtMost
    <3>4. \A t \in Range(Tail(left)) : runs[t] <= 1
      BY <2>0 DEF Runs
    <3>5. Range(Tail(left)) \subseteq Tasks /\ runs \in [Tasks -> Nat]
      BY <2>0, RangeIn DEF TypeOK
    <3>6. BoundedRuns'
      BY <3>1 DEF Runs, BoundedRuns
    <3>7. Tail(left) # <<>> => /\ runs[Head(Tail(left))] <= AtMost'
                               /\ \A t \in Range(Tail(Tail(left))) : runs[t] <= 1
      BY <2>a, <3>3, <3>4, <3>5
    <3> QED BY <3>1, <3>2, <3>6, <3>7 DEF Runs
  <2>7. Closed'
    BY <2>0, EmptySequence, <2>a DEF Closed, TypeOK
  <2> QED BY <2>1, <2>2, <2>3, <2>4, <2>5, <2>6, <2>7
<1> QED BY <1>1, <1>2

LEMMA DeliverStep ==
    ASSUME TasksInv, Deliver
    PROVE  TasksInv'
<1>1. /\ pc \in {"deliver", "fail"} /\ Reported /\ UNCHANGED <<batch, escaped, runs>>
      /\ circuit' \in {"closed", "open"}
  BY DEF Deliver, Deliverable, CoreActs, CoreSubmit, CoreFail, Circuit, TasksInv, TypeOK
<1>2. /\ pc' \in {"idle", "space", "convert", "run", "deliver", "rerun", "fail"}
      /\ raw' \in Seq(Tasks) /\ batch' \in Seq(Tasks) /\ left' \in Seq(Tasks)
      /\ stage' \in {"first", "again", "rejected", "final", "raised"}
      /\ owed' \in SUBSET Tasks /\ result' \in [Tasks -> Results \cup {"none"}]
      /\ Phases' /\ Apart' /\ Owing' /\ Stages' /\ Runs' /\ Closed'
  BY <1>1, ReportedStep
<1>3. Current \in Tasks
  BY <1>1, HeadAndTail DEF TasksInv, TypeOK, Phases, Current
<1>4. TypeOK'
  BY <1>1, <1>2, <1>3, TasksAssumption DEF Deliver, Deliverable, CoreActs,
                                           CoreSubmit, CoreFail, Circuit, TasksInv,
                                           TypeOK, Phases, Current, blame
<1> QED BY <1>2, <1>4 DEF TasksInv

LEMMA FailTaskStep ==
    ASSUME TasksInv, FailTask
    PROVE  TasksInv'
<1>1. /\ pc \in {"deliver", "fail"} /\ Reported /\ UNCHANGED <<batch, escaped, runs>>
      /\ circuit' \in {"closed", "open"}
  BY DEF FailTask, CoreFail, TasksInv, TypeOK
<1>2. /\ pc' \in {"idle", "space", "convert", "run", "deliver", "rerun", "fail"}
      /\ raw' \in Seq(Tasks) /\ batch' \in Seq(Tasks) /\ left' \in Seq(Tasks)
      /\ stage' \in {"first", "again", "rejected", "final", "raised"}
      /\ owed' \in SUBSET Tasks /\ result' \in [Tasks -> Results \cup {"none"}]
      /\ Phases' /\ Apart' /\ Owing' /\ Stages' /\ Runs' /\ Closed'
  BY <1>1, ReportedStep
<1>3. Current \in Tasks
  BY <1>1, HeadAndTail DEF TasksInv, TypeOK, Phases, Current
<1>4. TypeOK'
  BY <1>1, <1>2, <1>3, TasksAssumption DEF FailTask, CoreFail, TasksInv, TypeOK,
                                           Phases, Current, blame
<1> QED BY <1>2, <1>4 DEF TasksInv

LEMMA DeliverUncertainStep ==
    ASSUME TasksInv, DeliverUncertain
    PROVE  TasksInv'
<1>0. /\ Head(left) \in Tasks /\ Tail(left) \in Seq(Tasks)
      /\ Head(left) \in Range(left) /\ Range(left) = {Head(left)} \cup Range(Tail(left))
      /\ IsInjective(left) => IsInjective(Tail(left)) /\ Head(left) \notin Range(Tail(left))
  <2>1. left \in Seq(Tasks) /\ left # <<>>
    BY DEF TasksInv, TypeOK, Phases, DeliverUncertain, Deliverable
  <2> QED BY <2>1, HeadAndTail
<1>a. /\ pc' = "fail" /\ why' = "retryable" /\ UNCHANGED <<stage, spent, escaped>>
      /\ circuit' \in {"closed", "open"}
      /\ faults < MaxFaults /\ faults' = faults + 1
  BY DEF DeliverUncertain, Raise, Circuit, Fault, TasksInv, TypeOK
<1>b. faults' \in 0..MaxFaults
  BY <1>a, TasksAssumption DEF TasksInv, TypeOK
<1> USE TasksAssumption DEF TasksInv, DeliverUncertain, Deliverable, Raise, Fault,
                            Live, CoreActs, CoreSubmit, CoreFail, Circuit, vars,
                            coreVars, work, history, blame
<1>1. TypeOK'
  <2>1. /\ core' \in [Tasks -> {"queued", "leased", "done", "failed"}]
        /\ lease' \in [Tasks -> 0..Lease] /\ tries' \in [Tasks -> 0..MaxTries]
    BY <1>0 DEF TypeOK
  <2>2. \A s \in {raw', batch', left'} : s \in Seq(Tasks)
    BY <1>0 DEF TypeOK
  <2>3. result' \in [Tasks -> Results \cup {"none"}]
    BY <1>0 DEF TypeOK
  <2>4. /\ pc' \in {"idle", "space", "convert", "run", "deliver", "rerun", "fail"}
        /\ stage' \in {"first", "again", "rejected", "final", "raised"}
        /\ why' \in {"retryable", "permanent"} /\ spent' \in 0..ExecTime
        /\ circuit' \in {"closed", "open"} /\ escaped' \in {"yes", "no"}
        /\ faults' \in 0..MaxFaults
    BY <1>a, <1>b DEF TypeOK
  <2>5. /\ owed' \in SUBSET Tasks /\ blamed' \in SUBSET Tasks
        /\ dragged' \in SUBSET Tasks
    BY <1>0 DEF TypeOK
  <2>6. runs' \in [Tasks -> Nat]
    BY <1>0 DEF TypeOK
  <2>7. verdict' \in [Tasks -> {"none", "retryable", "permanent"}]
    BY <1>0 DEF TypeOK
  <2> QED BY <2>1, <2>2, <2>3, <2>4, <2>5, <2>6, <2>7 DEF TypeOK
<1>2. Phases'
  BY <1>0 DEF TypeOK, Phases
<1>3. Apart'
  BY <1>0 DEF Apart, Phases, TypeOK
<1>4. Owing'
  BY <1>0 DEF Owing, Phases, TypeOK
<1>5. Stages'
  BY <1>0 DEF TypeOK, Phases, Stages
<1>6. Runs'
  BY <1>0 DEF TypeOK, Phases, Stages, Runs, AtMost, BoundedRuns
<1>7. Closed'
  BY <1>0 DEF Closed, TypeOK
<1> QED
  BY <1>1, <1>2, <1>3, <1>4, <1>5, <1>6, <1>7

LEMMA DeliverRejectedStep ==
    ASSUME TasksInv, DeliverRejected
    PROVE  TasksInv'
<1>0. /\ Head(left) \in Tasks /\ Tail(left) \in Seq(Tasks)
      /\ Head(left) \in Range(left) /\ Range(left) = {Head(left)} \cup Range(Tail(left))
      /\ IsInjective(left) => IsInjective(Tail(left)) /\ Head(left) \notin Range(Tail(left))
  <2>1. left \in Seq(Tasks) /\ left # <<>>
    BY DEF TasksInv, TypeOK, Phases, DeliverRejected, Deliverable
  <2> QED BY <2>1, HeadAndTail
<1>a. /\ pc' \in {"rerun", "fail"} /\ why' \in {why, "permanent"} /\ UNCHANGED <<spent, escaped>>
      /\ \/ stage' = stage
         \/ stage \in {"first", "again"} /\ stage' = "rejected"
      /\ circuit' \in {"closed", "open"}
      /\ faults' = faults \/ (faults < MaxFaults /\ faults' = faults + 1)
  BY DEF DeliverRejected, Raise, Circuit, Fault, TasksInv, TypeOK
<1>b. faults' \in 0..MaxFaults
  BY <1>a, TasksAssumption DEF TasksInv, TypeOK
<1>c. UNCHANGED <<runs, raw, batch, left>>
  BY DEF DeliverRejected
<1> USE TasksAssumption DEF TasksInv, DeliverRejected, Deliverable, Raise, Fault,
                            Circuit, vars, coreVars, work, history, blame
<1>1. TypeOK'
  <2>1. /\ core' \in [Tasks -> {"queued", "leased", "done", "failed"}]
        /\ lease' \in [Tasks -> 0..Lease] /\ tries' \in [Tasks -> 0..MaxTries]
    BY <1>0 DEF TypeOK
  <2>2. \A s \in {raw', batch', left'} : s \in Seq(Tasks)
    BY <1>0 DEF TypeOK
  <2>3. result' \in [Tasks -> Results \cup {"none"}]
    BY <1>0 DEF TypeOK
  <2>4. /\ pc' \in {"idle", "space", "convert", "run", "deliver", "rerun", "fail"}
        /\ stage' \in {"first", "again", "rejected", "final", "raised"}
        /\ why' \in {"retryable", "permanent"} /\ spent' \in 0..ExecTime
        /\ circuit' \in {"closed", "open"} /\ escaped' \in {"yes", "no"}
        /\ faults' \in 0..MaxFaults
    BY <1>a, <1>b DEF TypeOK
  <2>5. /\ owed' \in SUBSET Tasks /\ blamed' \in SUBSET Tasks
        /\ dragged' \in SUBSET Tasks
    BY <1>0 DEF TypeOK
  <2>6. runs' \in [Tasks -> Nat]
    BY <1>0 DEF TypeOK
  <2>7. verdict' \in [Tasks -> {"none", "retryable", "permanent"}]
    BY <1>0 DEF TypeOK
  <2> QED BY <2>1, <2>2, <2>3, <2>4, <2>5, <2>6, <2>7 DEF TypeOK
<1>2. Phases'
  BY <1>0 DEF TypeOK, Phases
<1>3. Apart'
  BY <1>0 DEF Apart, Phases, TypeOK
<1>4. Owing'
  BY <1>0 DEF Owing, Phases, TypeOK
<1>5. Stages'
  BY <1>0 DEF TypeOK, Phases, Stages
<1>6. Runs'
  <2>1. AtMost \in Nat /\ AtMost' \in Nat /\ AtMost <= AtMost'
    BY <1>a DEF AtMost
  <2>2. runs \in [Tasks -> Nat] /\ (left # <<>> => Head(left) \in Tasks)
    BY <1>0 DEF TypeOK
  <2>3. left # <<>> => runs[Head(left)] <= AtMost'
    BY <2>1, <2>2 DEF Runs
  <2>4. BoundedRuns'
    BY <1>c DEF Runs, BoundedRuns
  <2> QED BY <1>c, <2>3, <2>4 DEF Runs
<1>7. Closed'
  BY <1>0 DEF Closed, TypeOK
<1> QED
  BY <1>1, <1>2, <1>3, <1>4, <1>5, <1>6, <1>7

LEMMA FailTaskRaisesStep ==
    ASSUME TasksInv, FailTaskRaises
    PROVE  TasksInv'
<1>0. Current \in Tasks
  BY HeadAndTail DEF TasksInv, TypeOK, Phases, FailTaskRaises, Current
<1>a. /\ raw' = <<>> /\ batch' = <<>> /\ left' = <<>> /\ <<>> \in Seq(Tasks)
      /\ pc' = "idle" /\ stage' = "first" /\ escaped' = "yes"
      /\ UNCHANGED <<why, spent, circuit, owed, runs, blame>>
      /\ result' = [t \in Tasks |-> "none"]
      /\ faults' = faults \/ (faults < MaxFaults /\ faults' = faults + 1)
  BY DEF FailTaskRaises, Fault
<1>b. faults' \in 0..MaxFaults
  BY <1>a, TasksAssumption DEF TasksInv, TypeOK
<1>c. \A s \in {raw', batch', left'} : s \in Seq(Tasks)
  BY <1>a
<1> USE TasksAssumption DEF TasksInv, FailTaskRaises, Current, CoreFail, Fault,
                            vars, coreVars, work, history, blame
<1>1. TypeOK'
  <2>1. /\ core' \in [Tasks -> {"queued", "leased", "done", "failed"}]
        /\ lease' \in [Tasks -> 0..Lease] /\ tries' \in [Tasks -> 0..MaxTries]
    BY <1>0, <1>a, <1>b DEF TypeOK
  <2>2. \A s \in {raw', batch', left'} : s \in Seq(Tasks)
    BY <1>c DEF TypeOK
  <2>3. result' \in [Tasks -> Results \cup {"none"}]
    BY <1>0, <1>a, <1>b DEF TypeOK
  <2>4. /\ pc' \in {"idle", "space", "convert", "run", "deliver", "rerun", "fail"}
        /\ stage' \in {"first", "again", "rejected", "final", "raised"}
        /\ why' \in {"retryable", "permanent"} /\ spent' \in 0..ExecTime
        /\ circuit' \in {"closed", "open"} /\ escaped' \in {"yes", "no"}
        /\ faults' \in 0..MaxFaults
    BY <1>0, <1>a, <1>b DEF TypeOK
  <2>5. /\ owed' \in SUBSET Tasks /\ blamed' \in SUBSET Tasks
        /\ dragged' \in SUBSET Tasks
    BY <1>0, <1>a, <1>b DEF TypeOK
  <2>6. runs' \in [Tasks -> Nat]
    BY <1>0, <1>a, <1>b DEF TypeOK
  <2>7. verdict' \in [Tasks -> {"none", "retryable", "permanent"}]
    BY <1>0, <1>a, <1>b DEF TypeOK
  <2> QED BY <2>1, <2>2, <2>3, <2>4, <2>5, <2>6, <2>7 DEF TypeOK
<1>2. Phases'
  BY <1>0, EmptySequence DEF TypeOK, Phases
<1>3. Apart'
  BY <1>0, EmptySequence DEF Apart, Phases, TypeOK
<1>4. Owing'
  BY <1>0, EmptySequence DEF Owing, Phases, TypeOK
<1>5. Stages'
  BY <1>0, EmptySequence DEF TypeOK, Phases, Stages
<1>6. Runs'
  BY <1>0, EmptySequence DEF TypeOK, Phases, Stages, Runs, AtMost, BoundedRuns
<1>7. Closed'
  BY <1>0, EmptySequence DEF Closed, TypeOK
<1> QED
  BY <1>1, <1>2, <1>3, <1>4, <1>5, <1>6, <1>7

-----------------------------------------------------------------------------
(* What the worker owes for the tasks it was handed                         *)

LEMMA TasksInit == Init => TasksInv
<1> SUFFICES ASSUME Init PROVE TasksInv
  OBVIOUS
<1> USE TasksAssumption DEF Init
<1>1. TypeOK
  BY DEF TypeOK
<1>2. Phases /\ Stages /\ Closed
  BY DEF Phases, Stages, Closed
<1>3. Apart /\ Owing
  BY EmptySequence DEF Apart, Owing
<1>4. Runs
  BY EmptySequence DEF Runs, BoundedRuns
<1> QED BY <1>1, <1>2, <1>3, <1>4 DEF TasksInv

LEMMA TasksStep == TasksInv /\ [Next]_vars => TasksInv'
<1> SUFFICES ASSUME TasksInv, [Next]_vars PROVE TasksInv'
  OBVIOUS
<1>1. CASE UNCHANGED vars
  BY <1>1, StutterStep
<1>2. CASE Iterate \/ PollTasks \/ PollLost \/ PollFails
  BY <1>2, IterateStep, PollTasksStep, PollLostStep, PollFailsStep
<1>3. CASE Convert \/ ConvertFails \/ ExecuteOne \/ ExecuteBatch
  BY <1>3, ConvertStep, ConvertFailsStep, ExecuteOneStep, ExecuteBatchStep
<1>4. CASE \E n \in 1..Len(batch) : ResolveFails(n)
  BY <1>4, ResolveFailsStep
<1>5. CASE Reshape \/ Rerun \/ Deliver \/ DeliverUncertain \/ DeliverRejected
  BY <1>5, ReshapeStep, RerunStep, DeliverStep, DeliverUncertainStep, DeliverRejectedStep
<1>6. CASE FailTask \/ FailTaskRaises
  BY <1>6, FailTaskStep, FailTaskRaisesStep
<1>7. CASE Tick \/ Kill \/ \E t \in Tasks : Exhaust(t)
  BY <1>7, TickStep, KillStep, ExhaustStep
<1> QED BY <1>1, <1>2, <1>3, <1>4, <1>5, <1>6, <1>7 DEF Next, WorkerStep

LEMMA TasksInvariant == Spec => []TasksInv
BY TasksInit, TasksStep, PTL DEF Spec

\* For any tasks, spaces, limits and faults: an iteration that ends has
\* reported every task it was handed, unless the report of a failure failed
\* itself, and a lease never costs more than three generations of a
\* structured task or one embedding call (_process_tasks and
\* _deliver_result_with_structured_retry).
THEOREM TasksAreAccounted == Spec => []TasksAccounted
<1>1. TasksInv => TasksAccounted
  <2> SUFFICES ASSUME TasksInv PROVE TasksAccounted
    OBVIOUS
  <2>1. EveryTaskReported
    BY EmptySequence DEF TasksInv, TypeOK, Phases, Owing, EveryTaskReported
  <2> QED BY <2>1 DEF TasksInv, Runs, TasksAccounted
<1> QED BY <1>1, TasksInvariant, PTL

\* An open circuit stays in force in the middle of an iteration: no step of
\* this process leases a task while it is open (process_once looks at the
\* circuit before each space).
THEOREM OpenCircuitLeasesNothing == Spec => CircuitPausesPolling
<1>1. TasksInv /\ [Next]_vars => [circuit = "open" /\ circuit' = "open" => tries' = tries]_vars
  <2> SUFFICES ASSUME TasksInv, [Next]_vars, circuit = "open" PROVE tries' = tries
    OBVIOUS
  <2>1. pc # "space"
    BY DEF TasksInv, Closed
  <2>2. ~PollTasks /\ ~PollLost
    BY <2>1 DEF PollTasks, PollLost
  <2> QED
    BY <2>2 DEF Next, WorkerStep, vars, coreVars, Exhaust, Tick, Iterate, PollFails,
                Convert,
      ConvertFails, ExecuteOne, ExecuteBatch, ResolveFails, Reshape, Rerun, Deliver, CoreActs,
      CoreSubmit, CoreFail, DeliverUncertain, DeliverRejected, FailTask, FailTaskRaises, Kill
<1> QED BY <1>1, TasksInvariant, PTL DEF Spec, CircuitPausesPolling

-----------------------------------------------------------------------------
(* Only a task's own failures are final                                     *)

LEMMA FinalStutter ==
    ASSUME TasksInv, FinalInv, UNCHANGED vars
    PROVE  FinalInv'
<1> USE DEF TasksInv, FinalInv, Culprits, vars, coreVars, work, history, blame
<1>1. Judged'
  BY DEF Judged, Stages, TypeOK
<1>2. Raised'
  BY DEF Raised, Stages, Phases, TypeOK
<1>3. Cause'
  BY DEF Cause, Current, Live, TypeOK, Phases, Raised
<1>4. Final'
  BY DEF Final, TypeOK
<1> QED
  BY <1>1, <1>2, <1>3, <1>4

LEMMA FinalExhaust ==
    ASSUME TasksInv, FinalInv, NEW t \in Tasks, Exhaust(t)
    PROVE  FinalInv'
<1> USE DEF TasksInv, FinalInv, Culprits, Exhaust, vars, coreVars, work, history, blame
<1>1. Judged'
  BY DEF Judged, Stages, TypeOK
<1>2. Raised'
  BY DEF Raised, Stages, Phases, TypeOK
<1>3. Cause'
  <2>1. Current' = Current /\ pc' = pc /\ why' = why /\ Culprits' = Culprits
    BY DEF Current
  <2>2. pc = "fail" => Current \in Tasks
    BY HeadAndTail DEF TypeOK, Phases, Current
  <2>3. \A u \in Tasks : Live(u)' => Live(u)
    BY DEF Live, TypeOK
  <2> QED BY <2>1, <2>2, <2>3 DEF Cause
<1>4. Final'
  BY DEF Final, TypeOK
<1> QED
  BY <1>1, <1>2, <1>3, <1>4

LEMMA FinalTick ==
    ASSUME TasksInv, FinalInv, Tick
    PROVE  FinalInv'
<1> USE DEF TasksInv, FinalInv, Culprits, Tick, vars, coreVars, work, history, blame
<1>1. Judged'
  BY DEF Judged, Stages, TypeOK
<1>2. Raised'
  BY DEF Raised, Stages, Phases, TypeOK
<1>3. Cause'
  BY DEF Cause, Current, Live, TypeOK, Phases, Raised
<1>4. Final'
  BY DEF Final, TypeOK
<1> QED
  BY <1>1, <1>2, <1>3, <1>4

LEMMA FinalIterate ==
    ASSUME TasksInv, FinalInv, Iterate
    PROVE  FinalInv'
<1> USE DEF TasksInv, FinalInv, Culprits, Iterate, vars, coreVars, work, history, blame
<1>1. Judged'
  BY DEF Judged, Stages, TypeOK
<1>2. Raised'
  BY DEF Raised, Stages, Phases, TypeOK
<1>3. Cause'
  BY DEF Cause, Current, Live, TypeOK, Phases, Raised
<1>4. Final'
  BY DEF Final, TypeOK
<1> QED
  BY <1>1, <1>2, <1>3, <1>4

LEMMA FinalPoll ==
    ASSUME TasksInv, FinalInv, NEW B \in Handed(Head(todo)), Polled(B), pc = "space", pc' # "fail", UNCHANGED <<left, stage, result>>
    PROVE  FinalInv'
<1>0. B \subseteq Tasks /\ left = <<>> /\ stage = "first"
  BY DEF Handed, TasksInv, TypeOK, Phases, Stages
<1> USE DEF TasksInv, FinalInv, Culprits, vars, coreVars, work, history, blame
<1>1. Judged'
  BY <1>0, EmptySequence DEF Judged, Stages, TypeOK
<1>2. Raised'
  BY <1>0, EmptySequence DEF Raised, Stages, Phases, TypeOK
<1>3. Cause'
  BY <1>0, EmptySequence DEF Cause, Current, Live, TypeOK, Phases, Raised
<1>4. Final'
  BY <1>0, EmptySequence DEF Final, TypeOK, Polled, LeaseAll, Handed, Claimable
<1> QED
  BY <1>1, <1>2, <1>3, <1>4

LEMMA FinalPollFails ==
    ASSUME TasksInv, FinalInv, PollFails
    PROVE  FinalInv'
<1> USE DEF TasksInv, FinalInv, Culprits, PollFails, Proceed, vars, coreVars, work, history, blame
<1>1. Judged'
  BY DEF Judged, Stages, TypeOK
<1>2. Raised'
  BY DEF Raised, Stages, Phases, TypeOK
<1>3. Cause'
  BY DEF Cause, Current, Live, TypeOK, Phases, Raised
<1>4. Final'
  BY DEF Final, TypeOK
<1> QED
  BY <1>1, <1>2, <1>3, <1>4

LEMMA FinalKill ==
    ASSUME TasksInv, FinalInv, Kill
    PROVE  FinalInv'
<1> USE DEF TasksInv, FinalInv, Culprits, Kill, vars, coreVars, work, history, blame
<1>1. Judged'
  BY EmptySequence DEF Judged, Stages, TypeOK
<1>2. Raised'
  BY EmptySequence DEF Raised, Stages, Phases, TypeOK
<1>3. Cause'
  BY EmptySequence DEF Cause, Current, Live, TypeOK, Phases, Raised
<1>4. Final'
  BY EmptySequence DEF Final, TypeOK
<1> QED
  BY <1>1, <1>2, <1>3, <1>4

LEMMA FinalConvert ==
    ASSUME TasksInv, FinalInv, Convert
    PROVE  FinalInv'
<1> USE DEF TasksInv, FinalInv, Culprits, Convert, vars, coreVars, work, history, blame
<1>1. Judged'
  BY DEF Judged, Stages, TypeOK
<1>2. Raised'
  BY DEF Raised, Stages, Phases, TypeOK
<1>3. Cause'
  BY DEF Cause, Current, Live, TypeOK, Phases, Raised
<1>4. Final'
  BY DEF Final, TypeOK
<1> QED
  BY <1>1, <1>2, <1>3, <1>4

LEMMA FinalConvertFails ==
    ASSUME TasksInv, FinalInv, ConvertFails
    PROVE  FinalInv'
<1> USE DEF TasksInv, FinalInv, Culprits, ConvertFails, Raise, vars, coreVars, work, history, blame
<1>1. Judged'
  BY EmptySequence DEF Judged, Stages, TypeOK
<1>2. Raised'
  BY EmptySequence DEF Raised, Stages, Phases, TypeOK
<1>3. Cause'
  BY EmptySequence DEF Cause, Current, Live, TypeOK, Phases, Raised
<1>4. Final'
  BY EmptySequence DEF Final, TypeOK
<1> QED
  BY <1>1, <1>2, <1>3, <1>4

LEMMA FinalExecuteOne ==
    ASSUME TasksInv, FinalInv, ExecuteOne
    PROVE  FinalInv'
<1>0. /\ Head(batch) \in Tasks /\ Tail(batch) \in Seq(Tasks)
      /\ Head(batch) \in Range(batch) /\ Range(batch) = {Head(batch)} \cup Range(Tail(batch))
      /\ IsInjective(batch) => IsInjective(Tail(batch)) /\ Head(batch) \notin Range(Tail(batch))
  <2>1. batch \in Seq(Tasks) /\ batch # <<>>
    BY DEF TasksInv, TypeOK, Phases, ExecuteOne
  <2> QED BY <2>1, HeadAndTail
<1>a. /\ Append(left, Head(batch)) \in Seq(Tasks) /\ Append(left, Head(batch)) # <<>>
      /\ Range(Append(left, Head(batch))) = Range(left) \cup {Head(batch)}
      /\ IsInjective(left) /\ Head(batch) \notin Range(left)
            => IsInjective(Append(left, Head(batch)))
      /\ left # <<>> => /\ Head(Append(left, Head(batch))) = Head(left)
                       /\ Range(Tail(Append(left, Head(batch)))) = Range(Tail(left)) \cup {Head(batch)}
      /\ left = <<>> => /\ Head(Append(left, Head(batch))) = Head(batch)
                       /\ Range(Tail(Append(left, Head(batch)))) = {}
  <2>1. left \in Seq(Tasks)
    BY DEF TasksInv, TypeOK
  <2> QED BY <1>0, <2>1, Appended
<1>b. PICK r \in Results :
        /\ result' = [result EXCEPT ![Head(batch)] = r]
        /\ blamed' = IF Own(r) THEN blamed \cup {Head(batch)} ELSE blamed
        /\ Ran({Head(batch)})
        /\ left' = Append(left, Head(batch))
  BY DEF ExecuteOne
<1>c. /\ pc = "run" /\ stage = "first" /\ stage' = "first" /\ pc' # "fail"
      /\ UNCHANGED <<coreVars, dragged, verdict>>
  BY DEF ExecuteOne, TasksInv, Stages, TypeOK
<1>d. Range(left) \subseteq Tasks /\ Head(batch) \notin Range(left)
  BY <1>0, RangeIn DEF TasksInv, TypeOK, Apart
<1> USE DEF TasksInv, FinalInv, Culprits, vars, coreVars, work, history, blame
<1>1. Judged'
  <2>1. result'[Head(batch)] = r /\ (Own(r) => Head(batch) \in Culprits')
    BY <1>0, <1>b DEF TypeOK
  <2>2. ASSUME NEW t \in Range(left)
        PROVE  result'[t] \in Results /\ (Own(result'[t]) => t \in Culprits')
    <3>1. result[t] \in Results /\ (Own(result[t]) => t \in Culprits)
      BY <1>c DEF Judged
    <3>2. result'[t] = result[t] /\ Culprits \subseteq Culprits'
      BY <1>b, <1>c, <1>d DEF TypeOK
    <3> QED BY <3>1, <3>2
  <2>3. Range(left') = Range(left) \cup {Head(batch)}
    BY <1>a, <1>b
  <2> QED BY <1>b, <2>1, <2>2, <2>3 DEF Judged
<1>2. Raised'
  BY <1>0, <1>a, <1>b, <1>c, <1>d DEF Raised, Stages, Phases, TypeOK
<1>3. Cause'
  BY <1>0, <1>a, <1>b, <1>c, <1>d DEF Cause, Current, Live, TypeOK, Phases, Raised
<1>4. Final'
  BY <1>0, <1>a, <1>b, <1>c, <1>d DEF Final, TypeOK
<1> QED
  BY <1>1, <1>2, <1>3, <1>4

LEMMA FinalExecuteBatch ==
    ASSUME TasksInv, FinalInv, ExecuteBatch
    PROVE  FinalInv'
<1>b. PICK r \in Results \ {"shape"}, bad \in SUBSET Range(batch) :
        /\ Ended(r) /\ (bad # {} => r = "completed")
        /\ result' = [t \in Tasks |-> IF t \in bad THEN "permanent"
                                      ELSE IF t \in Range(batch) THEN r ELSE result[t]]
        /\ blamed' = IF Own(r) THEN blamed \cup Range(batch) ELSE blamed \cup bad
  BY DEF ExecuteBatch
<1>c. /\ left' = batch /\ pc' = "deliver" /\ stage' = "first"
      /\ UNCHANGED <<coreVars, dragged, verdict>>
  BY DEF ExecuteBatch
<1>d. Range(batch) \subseteq Tasks
  BY RangeIn DEF TasksInv, TypeOK
<1> USE DEF TasksInv, FinalInv, Culprits, vars, coreVars, work, history, blame
<1>1. Judged'
  BY <1>b, <1>c, <1>d DEF Judged, Stages, TypeOK, Own, Results
<1>2. Raised'
  BY <1>b, <1>c, <1>d DEF Raised, Stages, Phases, TypeOK
<1>3. Cause'
  BY <1>b, <1>c, <1>d DEF Cause, Current, Live, TypeOK, Phases, Raised
<1>4. Final'
  BY <1>b, <1>c, <1>d DEF Final, TypeOK
<1> QED
  BY <1>1, <1>2, <1>3, <1>4

LEMMA FinalResolveFails ==
    ASSUME TasksInv, FinalInv, NEW n \in 1..Len(batch), ResolveFails(n)
    PROVE  FinalInv'
<1>0. /\ left' = batch /\ raw' = <<>> /\ batch # <<>> /\ UNCHANGED <<coreVars, verdict>>
      /\ blamed' = blamed \cup {batch[n]}
      /\ dragged' = dragged \cup (Range(batch) \ {batch[n]})
  BY DEF ResolveFails, TasksInv, Phases
<1>c. blamed' \cup dragged' = blamed \cup dragged \cup Range(batch)
  <2>1. n \in DOMAIN batch
    BY DEF TasksInv, TypeOK
  <2>2. batch[n] \in Range(batch)
    BY <2>1 DEF Range
  <2> QED BY <1>0, <2>2
<1>a. \/ /\ result' = [t \in Tasks |-> IF t \in Range(batch) THEN "permanent" ELSE result[t]]
         /\ pc' = "deliver" /\ stage' = "first"
      \/ pc' = "fail" /\ stage' = "raised"
  BY DEF ResolveFails, Raise
<1>b. Range(batch) \subseteq Tasks /\ Head(batch) \in Range(batch)
  BY <1>0, RangeIn, HeadAndTail DEF TasksInv, TypeOK
<1> USE DEF TasksInv, FinalInv, Culprits, vars, coreVars, work, history, blame
<1>1. Judged'
  BY <1>0, <1>a, <1>b, <1>c DEF Judged, Stages, TypeOK, Own, Results
<1>2. Raised'
  BY <1>0, <1>a, <1>b, <1>c DEF Raised, Stages, Phases, TypeOK
<1>3. Cause'
  BY <1>0, <1>a, <1>b, <1>c DEF Cause, Current, Live, TypeOK, Phases, Raised
<1>4. Final'
  BY <1>0, <1>a, <1>b, <1>c DEF Final, TypeOK
<1> QED
  BY <1>1, <1>2, <1>3, <1>4

LEMMA FinalReshape ==
    ASSUME TasksInv, FinalInv, Reshape
    PROVE  FinalInv'
<1> USE DEF TasksInv, FinalInv, Culprits, Reshape, vars, coreVars, work, history, blame
<1>1. Judged'
  BY DEF Judged, Stages, TypeOK
<1>2. Raised'
  BY DEF Raised, Stages, Phases, TypeOK
<1>3. Cause'
  BY DEF Cause, Current, Live, TypeOK, Phases, Raised
<1>4. Final'
  BY DEF Final, TypeOK
<1> QED
  BY <1>1, <1>2, <1>3, <1>4

LEMMA FinalRerun ==
    ASSUME TasksInv, FinalInv, Rerun
    PROVE  FinalInv'
<1>0. /\ Head(left) \in Tasks /\ Tail(left) \in Seq(Tasks)
      /\ Head(left) \in Range(left) /\ Range(left) = {Head(left)} \cup Range(Tail(left))
      /\ IsInjective(left) => IsInjective(Tail(left)) /\ Head(left) \notin Range(Tail(left))
  <2>1. left \in Seq(Tasks) /\ left # <<>>
    BY DEF TasksInv, TypeOK, Phases, Rerun
  <2> QED BY <2>1, HeadAndTail
<1>b. PICK r \in Results :
        /\ result' = [result EXCEPT ![Head(left)] = r]
        /\ blamed' = IF Own(r) THEN blamed \cup {Head(left)} ELSE blamed
        /\ stage' = IF stage = "first" /\ r # "completed" THEN "again" ELSE "final"
  BY DEF Rerun
<1>c. /\ pc = "rerun" /\ pc' = "deliver" /\ stage # "raised"
      /\ UNCHANGED <<coreVars, left, dragged, verdict>>
  BY DEF Rerun, TasksInv, Stages
<1>d. Range(left) \subseteq Tasks
  BY RangeIn DEF TasksInv, TypeOK
<1> USE DEF TasksInv, FinalInv, Culprits, vars, coreVars, work, history, blame
<1>1. Judged'
  BY <1>0, <1>b, <1>c, <1>d DEF Judged, Stages, TypeOK
<1>2. Raised'
  BY <1>0, <1>b, <1>c, <1>d DEF Raised, Stages, Phases, TypeOK
<1>3. Cause'
  BY <1>0, <1>b, <1>c, <1>d DEF Cause, Current, Live, TypeOK, Phases, Raised
<1>4. Final'
  BY <1>0, <1>b, <1>c, <1>d DEF Final, TypeOK
<1> QED
  BY <1>1, <1>2, <1>3, <1>4

\* The worker goes on with the next task.
LEMMA FinalReported ==
    ASSUME TasksInv, FinalInv, pc \in {"deliver", "fail"}, Reported,
           UNCHANGED <<why, blame>>
    PROVE  Judged' /\ Raised' /\ Cause'
<1>1. CASE raw # <<>>
  <2>1. left' = <<>> /\ stage' = "first" /\ pc' # "fail"
    BY <1>1 DEF Reported, Proceed, TasksInv, Phases, Stages, TypeOK
  <2> QED BY <2>1, EmptySequence DEF Judged, Raised, Cause
<1>2. CASE raw = <<>>
  <2>0. /\ left \in Seq(Tasks) /\ left # <<>> /\ left' = Tail(left) /\ raw' = <<>>
        /\ stage' = IF stage = "raised" /\ Tail(left) # <<>> THEN "raised" ELSE "first"
        /\ pc' = "fail" => stage = "raised" /\ Tail(left) # <<>>
    BY <1>2 DEF Reported, Proceed, TasksInv, Phases, Stages, TypeOK
  <2>1. Tail(left) \in Seq(Tasks) /\ Range(Tail(left)) \subseteq Range(left)
    BY <2>0, HeadAndTail
  <2>2. Tail(left) # <<>> => Head(Tail(left)) \in Range(Tail(left))
    BY <2>1, HeadAndTail
  <2>3. stage' # "raised" /\ stage = "raised" => Range(left') = {}
    BY <2>0, EmptySequence
  <2>a. \A t \in Range(left') : result'[t] = result[t]
    <3>1. Head(left) \notin Range(Tail(left)) /\ Range(Tail(left)) \subseteq Tasks
      BY <2>0, <2>1, HeadAndTail, RangeIn DEF TasksInv, Apart
    <3>2. result' = [result EXCEPT ![Head(left)] = "none"] /\ result \in [Tasks -> Results \cup {"none"}]
      BY <1>2 DEF Reported, Current, TasksInv, TypeOK
    <3> QED BY <2>0, <3>1, <3>2
  <2>b. Culprits' = Culprits
    BY DEF Culprits, blame
  <2>4. Judged'
    BY <2>0, <2>1, <2>3, <2>a, <2>b DEF FinalInv, Judged
  <2>5. Raised'
    BY <2>0, <2>1, <2>b DEF FinalInv, Raised
  <2>6. Cause'
    BY <2>0, <2>1, <2>2, <2>b DEF FinalInv, Raised, Cause, Current
  <2> QED BY <2>4, <2>5, <2>6
<1> QED BY <1>1, <1>2

\* Core acts on a report: what it gives up is to blame.
LEMMA FinalActs ==
    ASSUME TasksInv, FinalInv, left # <<>>, stage # "raised", Live(Head(left)),
           CoreActs(Head(left)), UNCHANGED blame
    PROVE  Final'
<1> DEFINE t == Head(left)
<1>1. t \in Tasks /\ t \in Range(left) /\ core[t] = "leased"
  BY HeadAndTail DEF TasksInv, TypeOK, Live
<1>2. result[t] \in Results /\ (Own(result[t]) => t \in Culprits)
  BY <1>1 DEF FinalInv, Judged
<1> USE DEF FinalInv, Final, Culprits, blame
<1>3. CASE result[t] = "completed"
  BY <1>1, <1>3 DEF CoreActs, CoreSubmit, TasksInv, TypeOK
<1>4. CASE result[t] # "completed" /\ ~Retryable(result[t])
  <2>1. t \in Culprits
    BY <1>2, <1>4 DEF Own, Retryable, Results
  <2> QED BY <1>1, <1>4, <2>1 DEF CoreActs, CoreFail, TasksInv, TypeOK
<1>5. CASE result[t] # "completed" /\ Retryable(result[t])
  BY <1>1, <1>5 DEF CoreActs, CoreFail, TasksInv, TypeOK
<1> QED BY <1>3, <1>4, <1>5

LEMMA FinalDeliver ==
    ASSUME TasksInv, FinalInv, Deliver
    PROVE  FinalInv'
<1>1. /\ pc = "deliver" /\ left # <<>> /\ stage # "raised" /\ Live(Head(left))
      /\ CoreActs(Head(left)) /\ Reported /\ UNCHANGED <<why, blame>>
  BY DEF Deliver, Deliverable, TasksInv, Phases, Stages
<1> QED BY <1>1, FinalReported, FinalActs DEF FinalInv

LEMMA FinalDeliverUncertain ==
    ASSUME TasksInv, FinalInv, DeliverUncertain
    PROVE  FinalInv'
<1>0. /\ pc = "deliver" /\ left # <<>> /\ stage # "raised" /\ pc' = "fail" /\ why' = "retryable"
      /\ UNCHANGED <<left, stage, result, blame>>
      /\ UNCHANGED <<coreVars, verdict>> \/ (Live(Head(left)) /\ CoreActs(Head(left)))
  BY DEF DeliverUncertain, Deliverable, Raise, TasksInv, Phases, Stages
<1> USE DEF TasksInv, FinalInv, Culprits, vars, coreVars, work, history, blame
<1>1. Judged'
  BY <1>0 DEF Judged, Stages, TypeOK
<1>2. Raised'
  BY <1>0 DEF Raised, Stages, Phases, TypeOK
<1>3. Cause'
  BY <1>0 DEF Cause, Current, Live, TypeOK, Phases, Raised
<1>4. Final'
  <2>1. CASE UNCHANGED <<coreVars, verdict>>
    BY <1>0, <2>1 DEF Final
  <2>2. CASE Live(Head(left)) /\ CoreActs(Head(left))
    BY <1>0, <2>2, FinalActs
  <2> QED BY <1>0, <2>1, <2>2
<1> QED
  BY <1>1, <1>2, <1>3, <1>4

LEMMA FinalDeliverRejected ==
    ASSUME TasksInv, FinalInv, DeliverRejected
    PROVE  FinalInv'
<1>0. /\ pc = "deliver" /\ raw = <<>> /\ stage # "raised"
      /\ UNCHANGED <<raw, left, result, coreVars, verdict>>
      /\ stage' # "raised" /\ pc' \in {"rerun", "fail"}
      /\ dragged' = dragged
      /\ \/ ~Live(Head(left)) /\ blamed' = blamed
         \/ blamed' = blamed \cup {Head(left)}
  BY DEF DeliverRejected, Rejection, Deliverable, Raise, TasksInv, Phases, Stages
<1> USE DEF TasksInv, FinalInv, Culprits, vars, coreVars, work, history, blame
<1>1. Judged'
  BY <1>0 DEF Judged, Stages, TypeOK
<1>2. Raised'
  BY <1>0 DEF Raised, Stages, Phases, TypeOK
<1>3. Cause'
  BY <1>0 DEF Cause, Current, Live, TypeOK, Phases, Raised
<1>4. Final'
  BY <1>0 DEF Final, TypeOK
<1> QED
  BY <1>1, <1>2, <1>3, <1>4

\* _fail_task reports the cause.
LEMMA FinalFails ==
    ASSUME TasksInv, FinalInv, pc = "fail", Live(Current), CoreFail(Current, why), UNCHANGED blame
    PROVE  Final'
<1>1. Current \in Tasks
  BY HeadAndTail DEF TasksInv, TypeOK, Phases, Current
<1>2. why = "permanent" => Current \in Culprits
  BY DEF FinalInv, Cause
<1> QED
  BY <1>1, <1>2 DEF FinalInv, Final, Culprits, blame, CoreFail, TasksInv, TypeOK

LEMMA FinalFailTask ==
    ASSUME TasksInv, FinalInv, FailTask
    PROVE  FinalInv'
<1>1. /\ pc = "fail" /\ Live(Current) /\ CoreFail(Current, why) /\ Reported
      /\ UNCHANGED <<why, blame>>
  BY DEF FailTask
<1> QED BY <1>1, FinalReported, FinalFails DEF FinalInv

LEMMA FinalFailTaskRaises ==
    ASSUME TasksInv, FinalInv, FailTaskRaises
    PROVE  FinalInv'
<1>0. /\ pc = "fail" /\ pc' = "idle" /\ left' = <<>> /\ stage' = "first" /\ UNCHANGED blame
      /\ UNCHANGED <<coreVars, verdict>> \/ (Live(Current) /\ CoreFail(Current, why))
  BY DEF FailTaskRaises
<1> USE DEF TasksInv, FinalInv, Culprits, vars, coreVars, work, history, blame
<1>1. Judged'
  BY <1>0, EmptySequence DEF Judged, Stages, TypeOK
<1>2. Raised'
  BY <1>0, EmptySequence DEF Raised, Stages, Phases, TypeOK
<1>3. Cause'
  BY <1>0, EmptySequence DEF Cause, Current, Live, TypeOK, Phases, Raised
<1>4. Final'
  <2>1. CASE UNCHANGED <<coreVars, verdict>>
    BY <1>0, <2>1 DEF Final
  <2>2. CASE Live(Current) /\ CoreFail(Current, why)
    BY <1>0, <2>2, FinalFails
  <2> QED BY <1>0, <2>1, <2>2
<1> QED
  BY <1>1, <1>2, <1>3, <1>4

LEMMA FinalStep ==
    ASSUME TasksInv, FinalInv, [Next]_vars
    PROVE  FinalInv'
<1>1. CASE UNCHANGED vars
  BY <1>1, FinalStutter
<1>2. CASE PollTasks
  BY <1>2, FinalPoll DEF PollTasks, Proceed
<1>3. CASE PollLost
  BY <1>3, FinalPoll DEF PollLost, Proceed
<1>4. CASE Iterate \/ PollFails \/ Convert \/ ConvertFails \/ ExecuteOne \/ ExecuteBatch
  BY <1>4, FinalIterate, FinalPollFails, FinalConvert, FinalConvertFails, FinalExecuteOne,
     FinalExecuteBatch
<1>5. CASE \E n \in 1..Len(batch) : ResolveFails(n)
  BY <1>5, FinalResolveFails
<1>6. CASE Reshape \/ Rerun \/ Deliver \/ DeliverUncertain \/ DeliverRejected
  BY <1>6, FinalReshape, FinalRerun, FinalDeliver, FinalDeliverUncertain, FinalDeliverRejected
<1>7. CASE FailTask \/ FailTaskRaises
  BY <1>7, FinalFailTask, FinalFailTaskRaises
<1>8. CASE Tick \/ Kill \/ \E t \in Tasks : Exhaust(t)
  BY <1>8, FinalTick, FinalKill, FinalExhaust
<1> QED BY <1>1, <1>2, <1>3, <1>4, <1>5, <1>6, <1>7, <1>8 DEF Next, WorkerStep

\* Core is told to give a task up only for that task's own failure, or because
\* the profile of another task of its batch of embeddings did not resolve
\* (_execute_embed_texts_batch): a lost call, a refused report, a timeout or an
\* expired lease is never reported as final on a live lease, and neither is any
\* other failure of another task (_process_tasks, _fail_task,
\* execution_result_is_retryable).
THEOREM FinalFailuresAreOwn == Spec => []OnlyOwnFailuresAreFinal
<1>1. Init => FinalInv
  BY EmptySequence DEF Init, FinalInv, Judged, Raised, Cause, Final
<1>2. TasksInv /\ FinalInv /\ [Next]_vars => FinalInv'
  BY FinalStep
<1>3. FinalInv => OnlyOwnFailuresAreFinal
  BY DEF FinalInv, Final, Culprits, OnlyOwnFailuresAreFinal
<1> QED BY <1>1, <1>2, <1>3, TasksInvariant, PTL DEF Spec

=============================================================================
