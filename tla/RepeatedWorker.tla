--------------------------- MODULE RepeatedWorker ---------------------------
(***************************************************************************)
(* The one-CPU benchmark (bench/one_cpu/run_repeated_worker.py): one       *)
(* diarizer works through every input several times while the harness      *)
(* looks at the control group, at memory and at counters before and after  *)
(* each call, and passes only if none of its gates was exceeded.  What a   *)
(* process holds is a number of pages, a time a number of ticks.           *)
(***************************************************************************)
EXTENDS Integers, SequencesExt

CONSTANTS
    Plans,         \* what the harness may be asked for
    MemoryCap, GrowthLimit, WarmPercent,   \* pages, pages, percent
    Ticks,         \* that a call takes
    ThrottleLimit, \* of them, at most
    MaxTroubles    \* bound: changes by the environment

ASSUME PlanAssumption ==
    /\ {MemoryCap, GrowthLimit, WarmPercent, ThrottleLimit, MaxTroubles} \subseteq Nat
    /\ Ticks \in Nat \ {0}
    /\ Plans \subseteq [inputs : Nat, repetitions : Int, minutes : Nat, minimum : Nat,
                       mode : {"local_proxy", "target"}, version : {"any", "v1", "v2"}]

VARIABLES
    plan,      \* arguments: [inputs, repetitions, minutes, minimum, mode, version]
    point,     \* where the harness is, or how it ended
    machine,   \* what the host is like
    started,   \* the processes at construction: baseline_resources, fallback_seen
    before,    \* cpu_before, cpuacct_before, pre
    runs,      \* the records so far
    expected,  \* digests by input
    warm,      \* warm_baseline_resources
    troubles   \* changes so far

workerVars == << plan, point, machine, started, before, runs, expected, warm, troubles >>

\* None: a file that could not be read, or a counter that went back.
Unread == -1
Highest(values) == Max(values \cup {Unread})

-----------------------------------------------------------------------------
(* The host.  A worker has a helper; a third process is somebody else's.   *)

Processes == {"worker", "helper", "other"}

\* What is read, and the part of it that may be unreadable.
Sources == {"own", "tree", "shared", "group", "peak"}
Counters == {"usage", "throttled", "io"}

\* selected: the worker and whoever descends from it, which is who is in every set that
\* holds the worker and the children of all it holds.
Families(processes) ==
    {f \in SUBSET Processes : "worker" \in f /\ \A p \in Processes : processes[p].parent \in f => p \in f}
Descendants(processes) == {p \in Processes : \A f \in Families(processes) : p \in f}

PagesOf(m, who) ==
    LET Pages(p) == IF p \in who THEN m.processes[p].pages ELSE 0
    IN  Pages("worker") + Pages("helper") + Pages("other")
TreeOf(m) == PagesOf(m, Descendants(m.processes))

\* _resource_snapshot: VmRSS of the process, RSS and PSS of its descendants, current and
\* peak memory of the control group, which holds cached pages as well.
Snapshot(m) ==
    LET tree == TreeOf(m)
    IN  [s \in Sources |->
           IF s \notin m.readable THEN Unread
           ELSE CASE s = "own" -> m.processes["worker"].pages
                  [] s \in {"tree", "shared"} -> tree
                  [] s = "group" -> tree + m.cache
                  [] s = "peak" -> m.peak]

\* read_cpu_snapshot with the counters that are read at the same place.
CpuSnapshot(m) ==
    [version |-> m.version, quota |-> m.quota,
     counter |-> [c \in Counters |-> IF c \in m.readable THEN m.counter[c] ELSE Unread]]

\* _counter_delta, _nonnegative_delta
Delta(from, to) == IF from = Unread \/ to = Unread \/ to < from THEN Unread ELSE to - from

Largest(snapshot) == Highest({snapshot[s] : s \in Sources})
Resident(snapshot) == Highest({snapshot[s] : s \in Sources \ {"peak"}})

\* With nothing for what was not readable before.
Growth_Unread(base, now) ==
    Highest({Max({0, now[s] - base[s]}) : s \in {x \in {"own", "tree", "shared"} : now[x] # Unread}})

\* _memory_growth_bytes: over what was readable both times.
Growth(base, now) ==
    Highest({Max({0, now[s] - base[s]}) :
               s \in {x \in {"own", "tree", "shared"} : base[x] # Unread /\ now[x] # Unread}})

-----------------------------------------------------------------------------
(* The harness *)

\* A control group as asked for, before and after every call.
QuotaRight(snapshot) ==
    /\ plan.version \in {"any", snapshot.version}
    /\ snapshot.quota = "one"

Invalid(p) ==
    \/ p.inputs = 0 \/ p.repetitions <= 0 \/ p.minutes = 0
    \/ p.mode = "target" /\ p.minimum < 60

\* target asks for version 1 of control groups unless told otherwise
Asked(p) == [p EXCEPT !.version = IF p.mode = "target" /\ @ = "any" THEN "v1" ELSE @]

Start ==
    /\ point = "called"
    /\ plan' = Asked(plan)
    /\ IF Invalid(plan)
         THEN point' = "invalid" /\ UNCHANGED started
         ELSE IF plan.inputs * plan.minutes * plan.repetitions < plan.minimum
         THEN point' = "short" /\ UNCHANGED started
         ELSE /\ started' = [memory |-> Snapshot(machine), fallback |-> machine.acts = "fallback", machine |-> machine]
              /\ point' = IF Largest(Snapshot(machine)) > MemoryCap THEN "large" ELSE "before"
    /\ UNCHANGED << machine, before, runs, expected, warm, troubles >>

Input == 1 + (Len(runs) % plan.inputs)

LookBefore ==
    /\ point = "before"
    /\ IF QuotaRight(CpuSnapshot(machine))
         THEN point' = "processing" /\ before' = CpuSnapshot(machine)
         ELSE point' = "quota" /\ UNCHANGED before
    /\ UNCHANGED << plan, machine, started, runs, expected, warm, troubles >>

\* diarizer.process: work is counted; it may fail, or say or take something else.
Process ==
    /\ point = "processing"
    /\ machine' = [machine EXCEPT !.counter["usage"] = @ + 1, !.counter["io"] = @ + 1]
    /\ point' = IF machine.acts = "raises" THEN "raised" ELSE "after"
    /\ UNCHANGED << plan, started, before, runs, expected, warm, troubles >>

Record ==
    LET after == CpuSnapshot(machine)
        elapsed == IF machine.acts = "slow" THEN 2 * Ticks ELSE Ticks
    IN  [input |-> Input, digest |-> IF machine.acts = "drifts" THEN 2 ELSE 1,
         fallback |-> started.fallback \/ machine.acts = "fallback",
         elapsed |-> elapsed, memory |-> Snapshot(machine),
         delta |-> [c \in Counters |-> Delta(before.counter[c], after.counter[c])],
         growth |-> Growth(started.memory, Snapshot(machine)),
         before |-> before, after |-> after, machine |-> machine]

\* The warm-growth gate, against the first call's memory; the largest source counts.
WarmedTooMuch(r) ==
    /\ warm # << >>
    /\ Resident(warm[1]) > 0 /\ Resident(r.memory) # Unread
    /\ 100 * (Resident(r.memory) - Resident(warm[1])) > WarmPercent * Resident(warm[1])

\* Each call against the one before it.
WarmBase_Latest(r) == << r.memory >>

\* What the first call left, for all later ones.
WarmBase(r) == IF warm = << >> THEN << r.memory >> ELSE warm

\* The digest that later calls on an input must have.
Expect(r) == IF expected[r.input] = Unread THEN [expected EXCEPT ![r.input] = r.digest] ELSE expected

\* In the order of the code: what may refuse a call, and when it does.
Reasons == << "quota", "fallback", "drift", "slow", "throttled", "large", "grown", "warm" >>
Refuses(reason, r) ==
    \/ reason = "quota" /\ ~QuotaRight(r.after)
    \/ reason = "fallback" /\ r.fallback
    \/ reason = "drift" /\ expected[r.input] \notin {Unread, r.digest}
    \/ reason = "slow" /\ r.elapsed > Ticks
    \/ reason = "throttled" /\ r.delta["throttled"] > ThrottleLimit
    \/ reason = "large" /\ Largest(r.memory) > MemoryCap
    \/ reason = "grown" /\ r.growth > GrowthLimit
    \/ reason = "warm" /\ WarmedTooMuch(r)

\* The first three refuse before a record is made.
LookAfter ==
    /\ point = "after"
    /\ \E r \in {Record} :
         LET refusals == {k \in DOMAIN Reasons : Refuses(Reasons[k], r)}
             refused == refusals # {}
         IN  /\ point' = IF refused THEN Reasons[Min(refusals)]
                         ELSE IF Len(runs) + 1 = plan.inputs * plan.repetitions THEN "report" ELSE "before"
             /\ runs' = IF refused /\ Min(refusals) <= 3 THEN runs
                        ELSE Append(runs, r)
             /\ expected' = IF refused THEN expected ELSE Expect(r)
             /\ warm' = IF refused THEN warm ELSE WarmBase(r)
    /\ UNCHANGED << plan, machine, started, before, troubles >>

\* Evidence that a target must have measured in every call.
Measured(r) == r.delta["usage"] # Unread /\ r.memory["tree"] # Unread /\ r.memory["shared"] # Unread
               /\ r.delta["io"] # Unread

Report ==
    /\ point = "report"
    /\ point' = IF plan.mode = "target" /\ \E k \in DOMAIN runs : ~Measured(runs[k]) THEN "missing" ELSE "passed"
    /\ UNCHANGED << plan, machine, started, before, runs, expected, warm, troubles >>

-----------------------------------------------------------------------------
(* The host between two steps *)

Grow(p) == [machine EXCEPT !.processes[p].pages = @ + 1,
                           !.peak = IF p = "other" THEN @ ELSE @ + 1]
Hidden == {"tree", "group", "usage", "throttled"}

Change ==
    {Grow(p) : p \in Processes}
      \cup {[machine EXCEPT !.cache = @ + 2, !.peak = @ + 2]}
      \cup {[machine EXCEPT !.readable = IF s \in @ THEN @ \ {s} ELSE @ \cup {s}] : s \in Hidden}
      \cup {[machine EXCEPT !.quota = IF @ = "one" THEN "half" ELSE "one"],
            [machine EXCEPT !.version = IF @ = "v1" THEN "v2" ELSE "v1"],
            [machine EXCEPT !.counter["throttled"] = @ + 1 + ThrottleLimit],
            [machine EXCEPT !.counter = [c \in Counters |-> 0]]}
      \cup {[machine EXCEPT !.acts = how] :
               how \in {"well", "drifts", "fallback", "slow", "raises"} \ {machine.acts}}

Trouble ==
    /\ point \in {"called", "before", "processing"} /\ troubles < MaxTroubles
    /\ machine' \in Change
    /\ troubles' = troubles + 1
    /\ UNCHANGED << plan, point, started, before, runs, expected, warm >>

\* A host as asked for.
Fresh(p) ==
         [processes |-> [who \in Processes |->
             [parent |-> IF who = "helper" THEN "worker" ELSE "init",
              pages |-> CASE who = "worker" -> 4 [] who = "helper" -> 2 [] who = "other" -> 1]],
          cache |-> 0, peak |-> 6, readable |-> Sources \cup Counters, quota |-> "one",
          version |-> IF p.version = "v2" THEN "v2" ELSE "v1",
          counter |-> [c \in Counters |-> 1], acts |-> "well"]

WorkerInit ==
    /\ plan \in Plans /\ point = "called" /\ machine = Fresh(plan) /\ troubles = 0
    /\ started = [memory |-> Snapshot(machine), fallback |-> FALSE, machine |-> machine]
    /\ before = CpuSnapshot(machine) /\ runs = << >> /\ warm = << >>
    /\ expected = [i \in 1..plan.inputs |-> Unread]

WorkerStep == Start \/ LookBefore \/ Process \/ LookAfter \/ Report
WorkerNext == WorkerStep \/ Trouble

WorkerSpec == WorkerInit /\ [][WorkerNext]_workerVars

-----------------------------------------------------------------------------
(* Properties *)

\* A PASS: every input was taken as often as asked, with one timeline however often; no
\* call ran outside the control group that was asked for, and none of the memory that
\* could be measured grew beyond its limits at any time, however slowly.
PassIsWarranted ==
    point = "passed" =>
      /\ \A i \in 1..plan.inputs :
           /\ Cardinality({k \in DOMAIN runs : runs[k].input = i}) = plan.repetitions
           /\ Cardinality({runs[k].digest : k \in {x \in DOMAIN runs : runs[x].input = i}}) = 1
      /\ \A k \in DOMAIN runs : LET r == runs[k] IN
           /\ QuotaRight(r.before) /\ QuotaRight(r.after) /\ r.machine.acts \in {"well", "drifts"}
           /\ "tree" \in r.machine.readable => TreeOf(r.machine) <= MemoryCap
           /\ "tree" \in r.machine.readable \cap started.machine.readable =>
                TreeOf(r.machine) <= TreeOf(started.machine) + GrowthLimit
           /\ r.machine.readable = runs[1].machine.readable /\ r.machine.cache = runs[1].machine.cache
                /\ "tree" \in r.machine.readable /\ r.machine.cache = 0 =>
                100 * TreeOf(r.machine) <= (100 + WarmPercent) * TreeOf(runs[1].machine)
           /\ plan.mode = "target" => r.delta["usage"] >= 0 /\ r.delta["io"] >= 0
      /\ plan.mode = "target" => plan.inputs * plan.minutes * plan.repetitions >= 60

\* What grows beside the worker, or is only read at one of two times, refuses nothing.
WorkerRefusedForCause ==
    /\ troubles = 0 => point \notin {"quota", "fallback", "drift", "slow", "throttled", "large",
                                     "grown", "warm", "missing", "raised"}
    /\ point = "grown" => TreeOf(machine) > TreeOf(started.machine) + GrowthLimit
    /\ point = "large" => machine.peak > MemoryCap
    /\ point = "warm" =>
         LET now == Last(runs).machine  first == runs[1].machine
         IN  100 * (TreeOf(now) + now.cache) > (100 + WarmPercent) * TreeOf(first)
    /\ point = "quota" => ~QuotaRight(CpuSnapshot(machine))
    /\ point = "missing" => \E k \in DOMAIN runs : plan.mode = "target" /\ ~Measured(runs[k])
=============================================================================
