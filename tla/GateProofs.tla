------------------------------ MODULE GateProofs ------------------------------
(***************************************************************************)
(* What passes a gate.  The benchmark of the worker for any plan, any      *)
(* limits and any number of changes to the host; the authority of a        *)
(* calibration for any document, any verifier and any runtime; a release   *)
(* for any catalogue and any files; and the rank test that turns blocks of *)
(* speech away, for any number of them.                                    *)
(***************************************************************************)
EXTENDS RepeatedWorker, FiniteSetTheorems, SequenceTheorems, WellFoundedInduction, TLAPS

-----------------------------------------------------------------------------
(* The host and the records of a benchmark *)

Acts == {"well", "drifts", "fallback", "slow", "raises"}
Machines ==
    [processes : [Processes -> [parent : {"init", "worker"}, pages : Nat]], cache : Nat, peak : Nat,
     readable : SUBSET (Sources \cup Counters), quota : {"one", "half"}, version : {"v1", "v2"},
     counter : [Counters -> Nat], acts : Acts]

\* The worker is there, has one helper, and the peak is that of what the two hold and of
\* what is cached; these sources can always be read.
HostOK(m) ==
    /\ m \in Machines
    /\ \A p \in Processes : m.processes[p].parent = IF p = "helper" THEN "worker" ELSE "init"
    /\ m.processes["worker"].pages > 0
    /\ m.processes["worker"].pages + m.processes["helper"].pages + m.cache <= m.peak
    /\ {"own", "shared", "peak", "io"} \subseteq m.readable

\* None of the two has given pages back.
NotLess(base, now) ==
    \A p \in {"worker", "helper"} : base.processes[p].pages <= now.processes[p].pages

Groups ==
    [version : {"v1", "v2"}, quota : {"one", "half"}, counter : [Counters -> Nat \cup {Unread}]]
AskedFor(p, snapshot) == p.version \in {"any", snapshot.version} /\ snapshot.quota = "one"

Records ==
    [input : Nat, digest : {1, 2}, fallback : BOOLEAN, elapsed : Nat, memory : [Sources -> Int],
     delta : [Counters -> Nat \cup {Unread}], growth : Int, before : Groups, after : Groups,
     machine : Machines]

\* A record that nothing was refused for.
Good(r, p, base) ==
    /\ HostOK(r.machine) /\ r.memory = Snapshot(r.machine)
    /\ AskedFor(p, r.before) /\ AskedFor(p, r.after) /\ r.machine.acts \in {"well", "drifts"}
    /\ r.machine.peak <= MemoryCap
    /\ TreeOf(r.machine) <= TreeOf(base) + GrowthLimit
NotWarm(r, base) ==
    100 * Resident(r.memory) <= (100 + WarmPercent) * Resident(base.memory)

\* What is held of the calls that were made.
RunsOK(p, base, rs, exp, w) ==
    /\ rs \in Seq(Records) /\ exp \in [1..p.inputs -> {Unread, 1, 2}]
    /\ w = IF rs = << >> THEN << >> ELSE << rs[1].memory >>
    /\ \A k \in 1..Len(rs) :
         /\ Good(rs[k], p, base) /\ NotWarm(rs[k], rs[1])
         /\ rs[k].input = 1 + ((k - 1) % p.inputs) /\ exp[rs[k].input] = rs[k].digest

-----------------------------------------------------------------------------
(* The inductive invariant *)

PlanSet ==
    [inputs : Nat, repetitions : Int, minutes : Nat, minimum : Nat,
     mode : {"local_proxy", "target"}, version : {"any", "v1", "v2"}]
Calls(p) == p.inputs * p.repetitions
Planned(p) ==
    /\ p.inputs \in Nat \ {0} /\ p.repetitions \in Nat \ {0} /\ Calls(p) \in Nat \ {0}
    /\ p.mode = "target" => p.inputs * p.minutes * p.repetitions >= 60

Calling == {"before", "processing", "after"}
Working == Calling \cup {"report", "passed"}
Ends == {"invalid", "short", "raised", "missing"}
          \cup {"quota", "fallback", "drift", "slow", "throttled", "large", "grown", "warm"}

WorkerTypes ==
    /\ plan \in PlanSet /\ point \in {"called"} \cup Working \cup Ends
    /\ HostOK(machine) /\ HostOK(started.machine) /\ NotLess(started.machine, machine)
    /\ started.memory = Snapshot(started.machine) /\ started.fallback \in BOOLEAN
    /\ before \in Groups /\ troubles \in Nat

Progress ==
    /\ point = "called" => runs = << >> /\ warm = << >> /\ expected = [i \in 1..plan.inputs |-> Unread]
    /\ point \in Working => Planned(plan) /\ RunsOK(plan, started.machine, runs, expected, warm)
    /\ point \in Calling => Len(runs) < Calls(plan)
    /\ point \in {"report", "passed"} => Len(runs) = Calls(plan)
    /\ point \in {"processing", "after"} => AskedFor(plan, before)
    /\ point = "after" => machine.acts # "raises"
    /\ point = "passed" /\ plan.mode = "target" => \A k \in 1..Len(runs) : Measured(runs[k])

WorkerInv == WorkerTypes /\ Progress

\* A host that nothing has happened to.
Calm(p, m) ==
    /\ m.acts = "well" /\ m.quota = "one" /\ m.version = (IF p.version = "v2" THEN "v2" ELSE "v1")
    /\ m.processes["worker"].pages = 4 /\ m.processes["helper"].pages = 2
    /\ m.cache = 0 /\ m.peak = 6 /\ m.readable = Sources \cup Counters /\ m.counter["throttled"] = 1

\* Left alone the host is as it was, and counts the calls.
Quiet ==
    troubles = 0 =>
      /\ Calm(plan, machine) /\ Calm(plan, started.machine) /\ ~started.fallback
      /\ point \in {"processing", "after"} =>
           /\ before.counter["throttled"] = 1
           /\ \A c \in {"usage", "io"} :
                /\ before.counter[c] \in Nat /\ machine.counter[c] >= before.counter[c]
      /\ point \in {"called"} \cup Working =>
           /\ \A k \in 1..Len(runs) : Calm(plan, runs[k].machine) /\ Measured(runs[k])
           /\ \A i \in 1..plan.inputs : expected[i] \in {Unread, 1}
      /\ point \notin (Ends \ {"invalid", "short"})

\* What refused a call is true of the host, on which nothing happens any more.
Caused ==
    /\ point = "grown" => TreeOf(machine) > TreeOf(started.machine) + GrowthLimit
    /\ point = "large" => machine.peak > MemoryCap
    /\ point = "warm" =>
         LET now == Last(runs).machine  first == runs[1].machine
         IN  100 * (TreeOf(now) + now.cache) > (100 + WarmPercent) * TreeOf(first)
    /\ point = "quota" => ~AskedFor(plan, CpuSnapshot(machine))
    /\ point = "missing" => \E k \in DOMAIN runs : plan.mode = "target" /\ ~Measured(runs[k])

-----------------------------------------------------------------------------
(* What is read of a host *)

LEMMA WorkerParameters ==
    /\ MemoryCap \in Nat /\ GrowthLimit \in Nat /\ WarmPercent \in Nat /\ ThrottleLimit \in Nat
    /\ MaxTroubles \in Nat /\ Ticks \in Nat \ {0} /\ Plans \subseteq PlanSet
  BY PlanAssumption DEF PlanSet

\* What nothing is above is the highest.
LEMMA HighestIs ==
    ASSUME NEW values, values \subseteq Int, NEW top \in values \cup {Unread},
           \A v \in values \cup {Unread} : v <= top
    PROVE  Highest(values) = top
  <1> DEFINE all == values \cup {Unread}
  <1>1. all \subseteq Int /\ top \in all /\ \A v \in all : v <= top
    BY DEF Unread
  <1> HIDE DEF all
  <1>2. \E x \in all : \A y \in all : x >= y
    BY <1>1
  <1>3. Max(all) \in all /\ \A y \in all : Max(all) >= y
    BY <1>2 DEF Max
  <1>4. Max(all) <= top /\ Max(all) >= top /\ Max(all) \in Int /\ top \in Int
    BY <1>1, <1>3
  <1>5. Max(all) = top
    BY <1>4
  <1> QED
    BY <1>5 DEF Highest, all

LEMMA AtLeastNothing ==
    ASSUME NEW a \in Int
    PROVE  Max({0, a}) \in Nat /\ Max({0, a}) = IF a >= 0 THEN a ELSE 0
  <1>1. \E x \in {0, a} : \A y \in {0, a} : x >= y
    <2>1. CASE a >= 0
      BY <2>1
    <2>2. CASE ~(a >= 0)
      BY <2>2
    <2> QED
      BY <2>1, <2>2
  <1>2. Max({0, a}) \in {0, a} /\ \A y \in {0, a} : Max({0, a}) >= y
    BY <1>1 DEF Max
  <1> QED
    BY <1>2

LEMMA HostFields ==
    ASSUME NEW m, HostOK(m)
    PROVE  /\ m \in Machines
           /\ m.processes \in [Processes -> [parent : {"init", "worker"}, pages : Nat]]
           /\ m.cache \in Nat /\ m.peak \in Nat /\ m.readable \subseteq (Sources \cup Counters)
           /\ m.quota \in {"one", "half"} /\ m.version \in {"v1", "v2"}
           /\ m.counter \in [Counters -> Nat] /\ m.acts \in Acts
           /\ m.processes["worker"].pages \in Nat /\ m.processes["helper"].pages \in Nat
           /\ m.processes["other"].pages \in Nat
  BY DEF HostOK, Machines, Processes

\* The worker descends from itself and so does its helper, and nobody else.
LEMMA FamilyIs ==
    ASSUME NEW m, HostOK(m)
    PROVE  Descendants(m.processes) = {"worker", "helper"}
  <1>1. /\ m.processes["helper"].parent = "worker" /\ m.processes["worker"].parent = "init"
        /\ m.processes["other"].parent = "init"
    BY DEF HostOK, Processes
  <1>2. {"worker", "helper"} \in Families(m.processes)
    BY <1>1 DEF Families, Processes
  <1>3. \A f \in Families(m.processes) : "worker" \in f /\ "helper" \in f
    BY <1>1 DEF Families, Processes
  <1> QED
    BY <1>2, <1>3 DEF Descendants, Processes

LEMMA TreeIs ==
    ASSUME NEW m, HostOK(m)
    PROVE  /\ TreeOf(m) = m.processes["worker"].pages + m.processes["helper"].pages
           /\ TreeOf(m) \in Nat \ {0} /\ TreeOf(m) + m.cache <= m.peak
           /\ m.processes["worker"].pages <= TreeOf(m)
  <1>1. TreeOf(m) = m.processes["worker"].pages + m.processes["helper"].pages + 0
    BY FamilyIs DEF TreeOf, PagesOf
  <1> QED
    BY <1>1, HostFields DEF HostOK

LEMMA SnapshotIs ==
    ASSUME NEW m, HostOK(m)
    PROVE  /\ Snapshot(m) \in [Sources -> Int]
           /\ Snapshot(m)["own"] = m.processes["worker"].pages /\ Snapshot(m)["shared"] = TreeOf(m)
           /\ Snapshot(m)["peak"] = m.peak
           /\ Snapshot(m)["tree"] = (IF "tree" \in m.readable THEN TreeOf(m) ELSE Unread)
           /\ Snapshot(m)["group"] = (IF "group" \in m.readable THEN TreeOf(m) + m.cache ELSE Unread)
  <1>1. {"own", "shared", "peak"} \subseteq m.readable
    BY DEF HostOK
  <1>2. /\ Snapshot(m)["own"] = m.processes["worker"].pages /\ Snapshot(m)["shared"] = TreeOf(m)
        /\ Snapshot(m)["peak"] = m.peak
        /\ Snapshot(m)["tree"] = (IF "tree" \in m.readable THEN TreeOf(m) ELSE Unread)
        /\ Snapshot(m)["group"] = (IF "group" \in m.readable THEN TreeOf(m) + m.cache ELSE Unread)
    BY <1>1 DEF Snapshot, Sources
  <1>3. \A s \in Sources : Snapshot(m)[s] \in Int
    BY <1>2, TreeIs, HostFields DEF Sources, Unread
  <1>4. Snapshot(m) \in [Sources -> Int]
    BY <1>3 DEF Snapshot
  <1> QED
    BY <1>2, <1>4

\* The peak is above everything, and memory that is resident is that of the two processes,
\* with what is cached where the control group can be read.
LEMMA LargestIs ==
    ASSUME NEW m, HostOK(m)
    PROVE  Largest(Snapshot(m)) = m.peak /\ m.peak \in Nat
  <1> DEFINE values == {Snapshot(m)[s] : s \in Sources}
  <1>1. \A s \in Sources : Snapshot(m)[s] \in Int /\ Snapshot(m)[s] <= m.peak
    BY SnapshotIs, TreeIs, HostFields DEF Sources, Unread
  <1>2. m.peak \in values /\ m.peak \in Nat
    BY SnapshotIs, HostFields DEF Sources
  <1>3. values \subseteq Int /\ \A v \in values \cup {Unread} : v <= m.peak
    BY <1>1, <1>2 DEF Unread
  <1>4. Highest(values) = m.peak
    <2> HIDE DEF values
    <2> QED
      BY <1>2, <1>3, HighestIs
  <1> QED
    BY <1>2, <1>4 DEF Largest

LEMMA ResidentIs ==
    ASSUME NEW m, HostOK(m)
    PROVE  /\ Resident(Snapshot(m)) = IF "group" \in m.readable THEN TreeOf(m) + m.cache ELSE TreeOf(m)
           /\ Resident(Snapshot(m)) \in Nat \ {0}
           /\ TreeOf(m) <= Resident(Snapshot(m)) /\ Resident(Snapshot(m)) <= TreeOf(m) + m.cache
  <1> DEFINE top == IF "group" \in m.readable THEN TreeOf(m) + m.cache ELSE TreeOf(m)
             values == {Snapshot(m)[s] : s \in Sources \ {"peak"}}
  <1>1. top \in Nat \ {0} /\ TreeOf(m) <= top /\ top <= TreeOf(m) + m.cache
    BY TreeIs, HostFields
  <1>2. \A s \in Sources \ {"peak"} : Snapshot(m)[s] \in Int /\ Snapshot(m)[s] <= top
    BY SnapshotIs, TreeIs, HostFields DEF Sources, Unread
  <1>3. top \in values
    <2>1. CASE "group" \in m.readable
      BY <2>1, SnapshotIs DEF Sources
    <2>2. CASE "group" \notin m.readable
      BY <2>2, SnapshotIs DEF Sources
    <2> QED
      BY <2>1, <2>2
  <1>4. values \subseteq Int
    BY <1>2
  <1>5. \A v \in values \cup {Unread} : v <= top
    BY <1>1, <1>2 DEF Unread
  <1>6. Highest(values) = top
    <2> HIDE DEF values, top
    <2> QED
      BY <1>3, <1>4, <1>5, HighestIs
  <1> QED
    BY <1>1, <1>6 DEF Resident

\* Growth of the worker is part of that of the two.
LEMMA GrowthIs ==
    ASSUME NEW b, HostOK(b), NEW m, HostOK(m), NotLess(b, m)
    PROVE  /\ Growth(Snapshot(b), Snapshot(m)) = TreeOf(m) - TreeOf(b)
           /\ TreeOf(b) <= TreeOf(m)
  <1> DEFINE base == Snapshot(b)
             now == Snapshot(m)
             both == {x \in {"own", "tree", "shared"} : base[x] # Unread /\ now[x] # Unread}
             rise(s) == Max({0, now[s] - base[s]})
             values == {rise(s) : s \in both}
             top == TreeOf(m) - TreeOf(b)
  <1>1. /\ b.processes["worker"].pages <= m.processes["worker"].pages
        /\ b.processes["helper"].pages <= m.processes["helper"].pages
    BY DEF NotLess
  <1>2. top \in Nat /\ m.processes["worker"].pages - b.processes["worker"].pages <= top
    BY <1>1, TreeIs, HostFields
  <1>3. \A s \in both : now[s] - base[s] \in Int /\ now[s] - base[s] <= top
    BY <1>2, SnapshotIs, TreeIs, HostFields DEF Unread
  <1>4. "shared" \in both /\ now["shared"] - base["shared"] = top
    BY SnapshotIs, TreeIs DEF Unread
  <1>5. \A s \in both : rise(s) \in Nat /\ rise(s) <= top
    <2> HIDE DEF both, now, base, top
    <2> TAKE s \in both
    <2>1. now[s] - base[s] \in Int /\ now[s] - base[s] <= top /\ top \in Nat
      BY <1>2, <1>3
    <2> QED
      BY <2>1, AtLeastNothing
  <1>6. rise("shared") = top
    BY <1>2, <1>4, AtLeastNothing
  <1>7. top \in values \cup {Unread} /\ values \subseteq Int /\ \A v \in values \cup {Unread} : v <= top
    <2> HIDE DEF both, top, rise
    <2> QED
      BY <1>2, <1>4, <1>5, <1>6 DEF Unread
  <1>8. Highest(values) = top
    <2> HIDE DEF values, top
    <2> QED
      BY <1>7, HighestIs
  <1>9. TreeOf(b) <= TreeOf(m)
    BY <1>2, TreeIs
  <1> QED
    BY <1>8, <1>9 DEF Growth

-----------------------------------------------------------------------------
(* Inputs in turn *)

LEMMA Divided ==
    ASSUME NEW n \in Nat \ {0}, NEW a \in Nat
    PROVE  a \div n \in Nat /\ a % n \in 0..(n - 1) /\ a = n * (a \div n) + (a % n)
  OBVIOUS

LEMMA NoMultiple ==
    ASSUME NEW n \in Nat \ {0}, NEW d \in Int, n * d < n, -n < n * d
    PROVE  d = 0
  <1>1. CASE d >= 1
    <2>1. PICK e \in Nat : d = e + 1
      BY <1>1
    <2>2. n * e \in Nat /\ n * (e + 1) = n * e + n
      OBVIOUS
    <2> QED
      BY <2>1, <2>2
  <1>2. CASE d <= -1
    <2>1. PICK e \in Nat : d = -e - 1
      <3>1. -d - 1 \in Nat /\ d = -(-d - 1) - 1
        BY <1>2
      <3> QED
        BY <3>1
    <2>2. n * e \in Nat /\ n * (-e - 1) = -(n * e) - n
      OBVIOUS
    <2> QED
      BY <2>1, <2>2
  <1> QED
    BY <1>1, <1>2

LEMMA Remainder ==
    ASSUME NEW n \in Nat \ {0}, NEW q \in Nat, NEW r \in 0..(n - 1)
    PROVE  n * q + r \in Nat /\ (n * q + r) \div n = q /\ (n * q + r) % n = r
  <1> DEFINE a == n * q + r
             p == a \div n
             s == a % n
  <1>1. n * q \in Nat /\ a \in Nat
    OBVIOUS
  <1>2. p \in Nat /\ s \in 0..(n - 1) /\ a = n * p + s
    <2> HIDE DEF a
    <2> QED
      BY <1>1, Divided
  <1>3. n * p \in Nat /\ n * q \in Nat /\ n * q + r = n * p + s
    <2> HIDE DEF p, s
    <2> QED
      BY <1>2
  <1>4. n * (p - q) = n * p - n * q
    <2> HIDE DEF p, s
    <2> QED
      BY <1>2
  <1>5. n * p - n * q < n /\ -n < n * p - n * q
    <2> HIDE DEF p, s, a
    <2> QED
      BY <1>2, <1>3
  <1>6. p - q = 0
    <2> HIDE DEF p, s, a
    <2> QED
      BY <1>2, <1>4, <1>5, NoMultiple
  <1>7. p = q /\ s = r
    <2> HIDE DEF p, s, a
    <2>1. p = q
      BY <1>2, <1>6
    <2> QED
      BY <1>2, <1>3, <2>1
  <1> QED
    BY <1>1, <1>7

\* Over whole rounds every input has its turn as often as there are rounds.
LEMMA Turns ==
    ASSUME NEW n \in Nat \ {0}, NEW rounds \in Nat \ {0}, NEW i \in 1..n
    PROVE  /\ IsFiniteSet({k \in 1..(n * rounds) : 1 + ((k - 1) % n) = i})
           /\ Cardinality({k \in 1..(n * rounds) : 1 + ((k - 1) % n) = i}) = rounds
           /\ i \in 1..(n * rounds) /\ 1 + ((i - 1) % n) = i
  <1> DEFINE T == {k \in 1..(n * rounds) : 1 + ((k - 1) % n) = i}
             f == [j \in 1..rounds |-> n * (j - 1) + (i - 1) + 1]
  <1>1. \A j \in 1..rounds :
          /\ f[j] \in 1..(n * rounds) /\ (f[j] - 1) % n = i - 1 /\ (f[j] - 1) \div n = j - 1
    <2> TAKE j \in 1..rounds
    <2>1. j - 1 \in Nat /\ i - 1 \in 0..(n - 1)
      OBVIOUS
    <2>2. /\ n * (j - 1) + (i - 1) \in Nat /\ (n * (j - 1) + (i - 1)) \div n = j - 1
          /\ (n * (j - 1) + (i - 1)) % n = i - 1
      BY <2>1, Remainder
    <2>3. n * (j - 1) + (i - 1) + 1 <= n * rounds
      <3>1. PICK d \in Nat : rounds = (j - 1) + 1 + d
        <4>1. rounds - j \in Nat /\ rounds = (j - 1) + 1 + (rounds - j)
          OBVIOUS
        <4> QED
          BY <4>1
      <3>2. n * ((j - 1) + 1 + d) = n * (j - 1) + n + n * d /\ n * d \in Nat /\ n * (j - 1) \in Nat
        BY <2>1
      <3>3. n * rounds = n * (j - 1) + n + n * d
        BY <3>1, <3>2
      <3> QED
        BY <3>2, <3>3
    <2>4. n * rounds \in Nat /\ n * (j - 1) \in Nat
      BY <2>1
    <2>5. (n * (j - 1) + (i - 1) + 1) - 1 = n * (j - 1) + (i - 1)
      BY <2>4
    <2> QED
      BY <2>2, <2>3, <2>4, <2>5
  <1>2. \A k \in T : \E j \in 1..rounds : f[j] = k
    <2> TAKE k \in T
    <2>1. k - 1 \in Nat /\ k <= n * rounds /\ (k - 1) % n = i - 1
      OBVIOUS
    <2>2. /\ (k - 1) \div n \in Nat /\ k - 1 = n * ((k - 1) \div n) + (i - 1)
      BY <2>1, Divided
    <2>3. PICK q \in Nat : q = (k - 1) \div n /\ k - 1 = n * q + (i - 1)
      BY <2>2
    <2>4. q + 1 <= rounds
      <3> SUFFICES ASSUME q >= rounds
                   PROVE  FALSE
        OBVIOUS
      <3>1. PICK d \in Nat : q = rounds + d
        BY <2>3
      <3>2. n * (rounds + d) = n * rounds + n * d /\ n * d \in Nat /\ n * rounds \in Nat
        OBVIOUS
      <3>3. n * q = n * rounds + n * d
        BY <3>1, <3>2
      <3> QED
        BY <2>1, <2>3, <3>2, <3>3
    <2>5. q + 1 \in 1..rounds /\ (q + 1) - 1 = q
      BY <2>4
    <2>6. f[q + 1] = n * q + (i - 1) + 1
      BY <2>5
    <2>7. n * q \in Nat /\ k \in Int
      OBVIOUS
    <2>8. f[q + 1] = k
      <3> HIDE DEF f, T
      <3> QED
        BY <2>3, <2>6, <2>7
    <2> HIDE DEF f, T
    <2> QED
      BY <2>5, <2>8
  <1>3. f \in [1..rounds -> T]
    BY <1>1
  <1>4. \A a, b \in 1..rounds : f[a] = f[b] => a = b
    <2> TAKE a, b \in 1..rounds
    <2>1. (f[a] - 1) \div n = a - 1 /\ (f[b] - 1) \div n = b - 1
      BY <1>1
    <2> HIDE DEF f
    <2> QED
      BY <2>1
  <1>5. f \in Bijection(1..rounds, T)
    <2> HIDE DEF f, T
    <2> QED
      BY <1>2, <1>3, <1>4 DEF Bijection, Injection, Surjection, IsInjective
  <1>6. Cardinality(T) = rounds /\ IsFiniteSet(T)
    <2> HIDE DEF f, T
    <2>1. ExistsBijection(1..rounds, T)
      BY <1>5 DEF ExistsBijection
    <2>2. IsFiniteSet(1..rounds)
      BY FS_Interval
    <2> QED
      BY <2>1, <2>2, FS_Bijection, FS_CountingElements
  <1>7. i \in 1..(n * rounds) /\ 1 + ((i - 1) % n) = i
    <2>1. f[1] = n * 0 + (i - 1) + 1 /\ n * 0 = 0
      OBVIOUS
    <2>2. f[1] = i
      BY <2>1
    <2>3. 1 \in 1..rounds
      OBVIOUS
    <2>4. i \in 1..(n * rounds) /\ (i - 1) % n = i - 1
      <3> HIDE DEF f
      <3> QED
        BY <1>1, <2>2, <2>3
    <2> QED
      BY <2>4
  <1> QED
    BY <1>6, <1>7

-----------------------------------------------------------------------------
(* What happens to a host *)

LEMMA PeakToo ==
    ASSUME NEW m \in Machines, NEW peak \in Nat,
           NEW them \in [Processes -> [parent : {"init", "worker"}, pages : Nat]], NEW cache \in Nat
    PROVE  /\ [m EXCEPT !.processes = them, !.peak = peak]
                = [[m EXCEPT !.processes = them] EXCEPT !.peak = peak]
           /\ [[m EXCEPT !.processes = them] EXCEPT !.peak = peak] \in Machines
           /\ [m EXCEPT !.cache = cache, !.peak = peak] = [[m EXCEPT !.cache = cache] EXCEPT !.peak = peak]
           /\ [[m EXCEPT !.cache = cache] EXCEPT !.peak = peak] \in Machines
  <1>1. [m EXCEPT !.processes = them] \in Machines /\ [m EXCEPT !.cache = cache] \in Machines
    BY DEF Machines
  <1>2. \A n \in Machines : [n EXCEPT !.peak = peak] \in Machines
    BY DEF Machines
  <1> QED
    BY <1>1, <1>2

LEMMA GrowOK ==
    ASSUME HostOK(machine), NEW p \in Processes
    PROVE  HostOK(Grow(p)) /\ NotLess(machine, Grow(p))
  <1> DEFINE m == Grow(p)
  <1>1. machine.processes[p] \in [parent : {"init", "worker"}, pages : Nat]
    BY HostFields
  <1> DEFINE more == [machine.processes[p] EXCEPT !.pages = @ + 1]
             peak == IF p = "other" THEN machine.peak ELSE machine.peak + 1
  <1>2. /\ more \in [parent : {"init", "worker"}, pages : Nat]
        /\ more.parent = machine.processes[p].parent /\ more.pages = machine.processes[p].pages + 1
    BY <1>1
  <1>3. m = [machine EXCEPT !.processes = [@ EXCEPT ![p] = more], !.peak = peak]
    BY DEF Grow
  <1>4. peak \in Nat
    BY HostFields
  <1> HIDE DEF m, more
  <1>5. [machine.processes EXCEPT ![p] = more] \in [Processes -> [parent : {"init", "worker"}, pages : Nat]]
    BY <1>2, HostFields
  <1> DEFINE them == [machine.processes EXCEPT ![p] = more]
  <1>6. m \in Machines /\ m.peak = peak /\ m.cache = machine.cache /\ m.readable = machine.readable
        /\ m.processes = them
    <2>1. m = [machine EXCEPT !.processes = them, !.peak = peak]
      BY <1>3
    <2> HIDE DEF them, peak
    <2>2. m = [[machine EXCEPT !.processes = them] EXCEPT !.peak = peak] /\ m \in Machines
      BY <2>1, <1>4, <1>5, PeakToo, HostFields DEF them
    <2> QED
      BY <2>2, HostFields DEF Machines
  <1>7. \A q \in Processes : m.processes[q] = IF q = p THEN more ELSE machine.processes[q]
    BY <1>6, HostFields
  <1>8. \A q \in Processes : m.processes[q].parent = machine.processes[q].parent
    BY <1>2, <1>7
  <1>9. /\ m.processes["worker"].pages = machine.processes["worker"].pages + (IF p = "worker" THEN 1 ELSE 0)
        /\ m.processes["helper"].pages = machine.processes["helper"].pages + (IF p = "helper" THEN 1 ELSE 0)
    BY <1>2, <1>7, HostFields DEF Processes
  <1>10. NotLess(machine, m)
    BY <1>9, HostFields DEF NotLess
  <1>11. m.processes["worker"].pages + m.processes["helper"].pages + m.cache <= m.peak
    BY <1>6, <1>9, HostFields DEF HostOK, Processes
  <1> QED
    BY <1>6, <1>8, <1>9, <1>10, <1>11, HostFields DEF HostOK, m

\* A host of which everything but what the two processes hold may have changed.
LEMMA OthersChange ==
    ASSUME NEW b, HostOK(b), NEW m \in Machines, m.processes = b.processes,
           b.processes["worker"].pages + b.processes["helper"].pages + m.cache <= m.peak,
           {"own", "shared", "peak", "io"} \subseteq m.readable
    PROVE  HostOK(m) /\ NotLess(b, m)
  BY HostFields DEF HostOK, NotLess

LEMMA ChangeOK ==
    ASSUME HostOK(machine), NEW m \in Change
    PROVE  HostOK(m) /\ NotLess(machine, m)
  <1>1. machine \in Machines /\ {"own", "shared", "peak", "io"} \subseteq machine.readable
        /\ machine.processes["worker"].pages + machine.processes["helper"].pages + machine.cache <= machine.peak
    BY DEF HostOK
  <1>2. CASE \E p \in Processes : m = Grow(p)
    BY <1>2, GrowOK
  <1>3. CASE m = [machine EXCEPT !.cache = @ + 2, !.peak = @ + 2]
    <2> DEFINE cache == machine.cache + 2
               peak == machine.peak + 2
    <2>2. cache \in Nat /\ peak \in Nat /\ machine.processes \in [Processes -> [parent : {"init", "worker"}, pages : Nat]]
      BY HostFields
    <2>3. m = [machine EXCEPT !.cache = cache, !.peak = peak]
      BY <1>3
    <2>4. m = [[machine EXCEPT !.cache = cache] EXCEPT !.peak = peak] /\ m \in Machines
      <3> HIDE DEF cache, peak
      <3> QED
        BY <1>1, <2>2, <2>3, PeakToo
    <2>5. m.processes = machine.processes /\ m.readable = machine.readable /\ m.cache = cache /\ m.peak = peak
      <3> HIDE DEF cache, peak
      <3> QED
        BY <1>1, <2>4 DEF Machines
    <2>1. m \in Machines /\ m.processes = machine.processes /\ m.readable = machine.readable
          /\ m.cache = machine.cache + 2 /\ m.peak = machine.peak + 2
      BY <2>4, <2>5
    <2> QED
      BY <1>1, <2>1, OthersChange, HostFields
  <1>4. CASE \E s \in Hidden : m = [machine EXCEPT !.readable = IF s \in @ THEN @ \ {s} ELSE @ \cup {s}]
    <2>1. PICK s \in Hidden : m = [machine EXCEPT !.readable = IF s \in @ THEN @ \ {s} ELSE @ \cup {s}]
      BY <1>4
    <2>2. s \in Sources \cup Counters /\ s \notin {"own", "shared", "peak", "io"}
      BY DEF Hidden, Sources, Counters
    <2> DEFINE seen == IF s \in machine.readable THEN machine.readable \ {s} ELSE machine.readable \cup {s}
    <2>3. seen \subseteq (Sources \cup Counters) /\ {"own", "shared", "peak", "io"} \subseteq seen
      BY <1>1, <2>2, HostFields
    <2>4. m = [machine EXCEPT !.readable = seen]
      BY <2>1
    <2> HIDE DEF seen
    <2>5. m \in Machines /\ m.processes = machine.processes /\ m.readable = seen
          /\ m.cache = machine.cache /\ m.peak = machine.peak
      BY <1>1, <2>3, <2>4 DEF Machines
    <2> QED
      BY <1>1, <2>3, <2>5, OthersChange
  <1>5. ASSUME m = [machine EXCEPT !.quota = IF @ = "one" THEN "half" ELSE "one"]
               \/ m = [machine EXCEPT !.version = IF @ = "v1" THEN "v2" ELSE "v1"]
        PROVE  HostOK(m) /\ NotLess(machine, m)
    <2>1. m \in Machines /\ m.processes = machine.processes /\ m.readable = machine.readable
          /\ m.cache = machine.cache /\ m.peak = machine.peak
      BY <1>1, <1>5 DEF Machines
    <2> QED
      BY <1>1, <2>1, OthersChange
  <1>6. ASSUME m = [machine EXCEPT !.counter["throttled"] = @ + 1 + ThrottleLimit]
               \/ m = [machine EXCEPT !.counter = [c \in Counters |-> 0]]
        PROVE  HostOK(m) /\ NotLess(machine, m)
    <2>1. [machine.counter EXCEPT !["throttled"] = @ + 1 + ThrottleLimit] \in [Counters -> Nat]
      BY HostFields, WorkerParameters DEF Counters
    <2>2. [c \in Counters |-> 0] \in [Counters -> Nat]
      OBVIOUS
    <2>3. PICK new \in [Counters -> Nat] : m = [machine EXCEPT !.counter = new]
      <3>1. CASE m = [machine EXCEPT !.counter["throttled"] = @ + 1 + ThrottleLimit]
        <4>1. m = [machine EXCEPT !.counter = [machine.counter EXCEPT !["throttled"] = @ + 1 + ThrottleLimit]]
          BY <3>1
        <4> QED
          BY <4>1, <2>1
      <3>2. CASE m = [machine EXCEPT !.counter = [c \in Counters |-> 0]]
        BY <3>2, <2>2
      <3> QED
        BY <1>6, <3>1, <3>2
    <2>4. m \in Machines /\ m.processes = machine.processes /\ m.readable = machine.readable
          /\ m.cache = machine.cache /\ m.peak = machine.peak
      BY <1>1, <2>3 DEF Machines
    <2> QED
      BY <1>1, <2>4, OthersChange
  <1>7. CASE \E how \in Acts : m = [machine EXCEPT !.acts = how]
    <2>1. m \in Machines /\ m.processes = machine.processes /\ m.readable = machine.readable
          /\ m.cache = machine.cache /\ m.peak = machine.peak
      BY <1>1, <1>7 DEF Machines
    <2> QED
      BY <1>1, <2>1, OthersChange
  <1> QED
    BY <1>2, <1>3, <1>4, <1>5, <1>6, <1>7 DEF Change, Acts

LEMMA NotLessOn ==
    ASSUME NEW a, HostOK(a), NEW b, HostOK(b), NEW c, HostOK(c), NotLess(a, b), NotLess(b, c)
    PROVE  NotLess(a, c)
  BY HostFields DEF NotLess

LEMMA FreshOK ==
    ASSUME NEW p
    PROVE  HostOK(Fresh(p)) /\ NotLess(Fresh(p), Fresh(p)) /\ Calm(p, Fresh(p))
  <1> DEFINE m == Fresh(p)
             them == m.processes
  <1>1. them = [who \in Processes |->
             [parent |-> IF who = "helper" THEN "worker" ELSE "init",
              pages |-> CASE who = "worker" -> 4 [] who = "helper" -> 2 [] who = "other" -> 1]]
    BY DEF Fresh
  <1>2. /\ \A q \in Processes : them[q] \in [parent : {"init", "worker"}, pages : Nat]
        /\ \A q \in Processes : them[q].parent = IF q = "helper" THEN "worker" ELSE "init"
        /\ them["worker"].pages = 4 /\ them["helper"].pages = 2
    BY <1>1 DEF Processes
  <1>3. them \in [Processes -> [parent : {"init", "worker"}, pages : Nat]]
    BY <1>1, <1>2
  <1>4. m = [processes |-> them, cache |-> 0, peak |-> 6, readable |-> Sources \cup Counters,
             quota |-> "one", version |-> IF p.version = "v2" THEN "v2" ELSE "v1",
             counter |-> [c \in Counters |-> 1], acts |-> "well"]
    BY DEF Fresh
  <1> HIDE DEF m, them
  <1>5. [c \in Counters |-> 1] \in [Counters -> Nat] /\ [c \in Counters |-> 1]["throttled"] = 1
    BY DEF Counters
  <1>6. m \in Machines
    BY <1>3, <1>4, <1>5 DEF Machines, Acts
  <1>7. /\ m.processes = them /\ m.cache = 0 /\ m.peak = 6 /\ m.readable = Sources \cup Counters
        /\ m.quota = "one" /\ m.version = (IF p.version = "v2" THEN "v2" ELSE "v1")
        /\ m.counter = [c \in Counters |-> 1] /\ m.acts = "well"
    BY <1>4
  <1>8. HostOK(m)
    BY <1>2, <1>6, <1>7 DEF HostOK, Sources, Counters
  <1>9. NotLess(m, m)
    BY <1>2, <1>7 DEF NotLess
  <1>10. Calm(p, m)
    BY <1>2, <1>5, <1>7 DEF Calm
  <1> QED
    BY <1>8, <1>9, <1>10 DEF m

LEMMA GroupOf ==
    ASSUME NEW m, HostOK(m)
    PROVE  /\ CpuSnapshot(m) \in Groups
           /\ \A c \in Counters : CpuSnapshot(m).counter[c] = IF c \in m.readable THEN m.counter[c] ELSE Unread
           /\ CpuSnapshot(m).version = m.version /\ CpuSnapshot(m).quota = m.quota
  <1> DEFINE counts == [c \in Counters |-> IF c \in m.readable THEN m.counter[c] ELSE Unread]
  <1>1. counts \in [Counters -> Nat \cup {Unread}]
    BY HostFields
  <1>2. CpuSnapshot(m) = [version |-> m.version, quota |-> m.quota, counter |-> counts]
    BY DEF CpuSnapshot
  <1>3. \A c \in Counters : counts[c] = IF c \in m.readable THEN m.counter[c] ELSE Unread
    OBVIOUS
  <1> HIDE DEF counts
  <1> QED
    BY <1>1, <1>2, <1>3, HostFields DEF Groups

LEMMA DeltaOK ==
    ASSUME NEW from \in Nat \cup {Unread}, NEW to \in Nat \cup {Unread}
    PROVE  Delta(from, to) \in Nat \cup {Unread}
  BY DEF Delta, Unread

-----------------------------------------------------------------------------
(* One call *)

LEMMA LeastNumber ==
    ASSUME NEW T, T \subseteq Nat, T # {}
    PROVE  Min(T) \in T /\ \A m \in T : Min(T) <= m
  <1> DEFINE R == {ss \in Nat \X Nat : ss[1] < ss[2]}
  <1>1. IsWellFoundedOn(R, Nat)
    BY NatLessThanWellFounded DEF OpToRel
  <1>2. PICK n \in T : \A m \in T : << m, n >> \notin R
    <2> HIDE DEF R
    <2> QED
      BY <1>1, WFMin
  <1>3. ASSUME NEW m \in T
        PROVE  n <= m
    <2>1. << m, n >> \in Nat \X Nat
      OBVIOUS
    <2>2. ~(m < n)
      BY <2>1, <1>2
    <2> QED
      BY <2>2
  <1> QED
    BY <1>3 DEF Min

LEMMA ReasonsAre ==
    /\ DOMAIN Reasons = 1..8
    /\ Reasons[1] = "quota" /\ Reasons[2] = "fallback" /\ Reasons[3] = "drift" /\ Reasons[4] = "slow"
    /\ Reasons[5] = "throttled" /\ Reasons[6] = "large" /\ Reasons[7] = "grown" /\ Reasons[8] = "warm"
    /\ \A k \in DOMAIN Reasons : Reasons[k] \in Ends \ {"invalid", "short", "raised", "missing"}
  <1>1. /\ DOMAIN Reasons = 1..8
        /\ Reasons[1] = "quota" /\ Reasons[2] = "fallback" /\ Reasons[3] = "drift" /\ Reasons[4] = "slow"
        /\ Reasons[5] = "throttled" /\ Reasons[6] = "large" /\ Reasons[7] = "grown" /\ Reasons[8] = "warm"
    BY DEF Reasons
  <1>2. \A k \in 1..8 : k \in {1, 2, 3, 4, 5, 6, 7, 8}
    OBVIOUS
  <1>3. \A k \in 1..8 : Reasons[k] \in Ends \ {"invalid", "short", "raised", "missing"}
    BY <1>1, <1>2 DEF Ends
  <1> QED
    BY <1>1, <1>3

\* What a percentage of more than it was comes to, and what less than that comes to.
LEMMA Percentage ==
    ASSUME NEW a \in Nat, NEW b \in Nat
    PROVE  /\ ~(100 * (a - b) > WarmPercent * b) <=> 100 * a <= (100 + WarmPercent) * b
           /\ 100 * b <= (100 + WarmPercent) * b
           /\ \A c \in Nat : c <= b => (100 + WarmPercent) * c <= (100 + WarmPercent) * b
  <1>1. WarmPercent * b \in Nat /\ (100 + WarmPercent) * b = 100 * b + WarmPercent * b
    BY WorkerParameters
  <1>2. ASSUME NEW c \in Nat, c <= b
        PROVE  (100 + WarmPercent) * c <= (100 + WarmPercent) * b
    <2>1. PICK d \in Nat : b = c + d
      <3>1. b - c \in Nat /\ b = c + (b - c)
        BY <1>2
      <3> QED
        BY <3>1
    <2> DEFINE share == 100 + WarmPercent
    <2>2. share \in Nat
      BY WorkerParameters
    <2> HIDE DEF share
    <2>3. share * c \in Nat /\ share * d \in Nat /\ share * (c + d) = share * c + share * d
      BY <2>2
    <2>4. share * c <= share * b
      BY <2>1, <2>3
    <2> QED
      BY <2>4 DEF share
  <1> QED
    BY <1>1, <1>2

LEMMA RecordIs ==
    ASSUME WorkerInv, point = "after"
    PROVE  /\ Record \in Records /\ Record.machine = machine /\ Record.memory = Snapshot(machine)
           /\ Record.before = before /\ Record.after = CpuSnapshot(machine)
           /\ Record.growth = TreeOf(machine) - TreeOf(started.machine)
           /\ Record.input = 1 + (Len(runs) % plan.inputs) /\ Record.input \in 1..plan.inputs
           /\ Record.digest = IF machine.acts = "drifts" THEN 2 ELSE 1
           /\ Record.fallback <=> (started.fallback \/ machine.acts = "fallback")
           /\ Record.elapsed = IF machine.acts = "slow" THEN 2 * Ticks ELSE Ticks
           /\ \A c \in Counters : Record.delta[c] = Delta(before.counter[c], CpuSnapshot(machine).counter[c])
  <1> DEFINE elapsed == IF machine.acts = "slow" THEN 2 * Ticks ELSE Ticks
             digest == IF machine.acts = "drifts" THEN 2 ELSE 1
             delta == [c \in Counters |-> Delta(before.counter[c], CpuSnapshot(machine).counter[c])]
             fallback == started.fallback \/ machine.acts = "fallback"
             growth == Growth(started.memory, Snapshot(machine))
  <1>1. Record = [input |-> Input, digest |-> digest, fallback |-> fallback, elapsed |-> elapsed,
                  memory |-> Snapshot(machine), delta |-> delta, growth |-> growth,
                  before |-> before, after |-> CpuSnapshot(machine), machine |-> machine]
    BY DEF Record
  <1>2. HostOK(machine) /\ HostOK(started.machine) /\ NotLess(started.machine, machine)
        /\ started.memory = Snapshot(started.machine) /\ before \in Groups
    BY DEF WorkerInv, WorkerTypes
  <1>3. plan.inputs \in Nat \ {0} /\ runs \in Seq(Records)
    BY DEF WorkerInv, Progress, Working, Calling, Planned, RunsOK
  <1>4. Input = 1 + (Len(runs) % plan.inputs) /\ Input \in 1..plan.inputs
    <2>1. Len(runs) \in Nat
      BY <1>3
    <2>2. Len(runs) % plan.inputs \in 0..(plan.inputs - 1)
      BY <1>3, <2>1, Divided
    <2> QED
      BY <1>3, <2>2 DEF Input
  <1>5. growth = TreeOf(machine) - TreeOf(started.machine) /\ growth \in Int
    BY <1>2, GrowthIs, TreeIs
  <1>6. elapsed \in Nat /\ digest \in {1, 2} /\ fallback \in BOOLEAN
    BY WorkerParameters
  <1>7. CpuSnapshot(machine) \in Groups
    BY <1>2, GroupOf
  <1>8. delta \in [Counters -> Nat \cup {Unread}]
    <2>1. ASSUME NEW c \in Counters
          PROVE  delta[c] \in Nat \cup {Unread}
      <3>1. before.counter[c] \in Nat \cup {Unread} /\ CpuSnapshot(machine).counter[c] \in Nat \cup {Unread}
        BY <1>2, <1>7 DEF Groups
      <3> QED
        BY <3>1, DeltaOK
    <2> QED
      BY <2>1
  <1>9. \A c \in Counters : delta[c] = Delta(before.counter[c], CpuSnapshot(machine).counter[c])
    OBVIOUS
  <1>10. Snapshot(machine) \in [Sources -> Int] /\ machine \in Machines
    BY <1>2, SnapshotIs, HostFields
  <1> HIDE DEF elapsed, digest, delta, fallback, growth
  <1>11. /\ Record.input = Input /\ Record.digest = digest /\ Record.elapsed = elapsed
         /\ Record.memory = Snapshot(machine) /\ Record.delta = delta /\ Record.growth = growth
         /\ Record.before = before /\ Record.after = CpuSnapshot(machine) /\ Record.machine = machine
    BY <1>1
  <1>12. Record.fallback = fallback
    BY <1>1
  <1>13. Record \in Records
    <2>1. Input \in Nat
      BY <1>3, <1>4
    <2> QED
      BY <1>1, <1>2, <1>5, <1>6, <1>7, <1>8, <1>10, <2>1 DEF Records
  <1>14. Record.fallback <=> (started.fallback \/ machine.acts = "fallback")
    BY <1>12 DEF fallback
  <1>15. /\ digest = (IF machine.acts = "drifts" THEN 2 ELSE 1)
         /\ elapsed = (IF machine.acts = "slow" THEN 2 * Ticks ELSE Ticks)
    BY DEF digest, elapsed
  <1> QED
    BY <1>4, <1>5, <1>9, <1>11, <1>13, <1>14, <1>15

\* A call that nothing refuses.
LEMMA NothingRefused ==
    ASSUME WorkerInv, point = "after", \A k \in DOMAIN Reasons : ~Refuses(Reasons[k], Record)
    PROVE  /\ Good(Record, plan, started.machine) /\ ~WarmedTooMuch(Record)
           /\ expected[Record.input] \in {Unread, Record.digest}
  <1>1. HostOK(machine) /\ HostOK(started.machine) /\ machine.acts # "raises"
        /\ AskedFor(plan, before)
    BY DEF WorkerInv, WorkerTypes, Progress
  <1>2. /\ ~Refuses("quota", Record) /\ ~Refuses("fallback", Record) /\ ~Refuses("drift", Record)
        /\ ~Refuses("slow", Record) /\ ~Refuses("large", Record) /\ ~Refuses("grown", Record)
        /\ ~Refuses("warm", Record)
    BY ReasonsAre
  <1>3. /\ QuotaRight(Record.after) /\ ~Record.fallback
        /\ expected[Record.input] \in {Unread, Record.digest} /\ ~(Record.elapsed > Ticks)
        /\ ~(Largest(Record.memory) > MemoryCap) /\ ~(Record.growth > GrowthLimit)
        /\ ~WarmedTooMuch(Record)
    BY <1>2 DEF Refuses
  <1>4. AskedFor(plan, Record.after) /\ AskedFor(plan, Record.before)
    BY <1>1, <1>3, RecordIs DEF QuotaRight, AskedFor
  <1>5. machine.acts # "fallback"
    BY <1>3, RecordIs
  <1>6. machine.acts # "slow"
    BY <1>3, RecordIs, WorkerParameters
  <1>7. machine.acts \in {"well", "drifts"}
    BY <1>1, <1>5, <1>6, HostFields DEF Acts
  <1>8. machine.peak <= MemoryCap
    BY <1>1, <1>3, RecordIs, LargestIs, WorkerParameters
  <1>9. TreeOf(machine) <= TreeOf(started.machine) + GrowthLimit
    BY <1>1, <1>3, RecordIs, TreeIs, WorkerParameters
  <1> QED
    BY <1>1, <1>3, <1>4, <1>7, <1>8, <1>9, RecordIs DEF Good

LEMMA NotWarmer ==
    ASSUME WorkerInv, point = "after", ~WarmedTooMuch(Record), runs # << >>
    PROVE  NotWarm(Record, runs[1])
  <1>1. runs \in Seq(Records) /\ warm = << runs[1].memory >> /\ Len(runs) \in Nat \ {0}
    BY EmptySeq, LenProperties DEF WorkerInv, Progress, Working, Calling, RunsOK
  <1>2. HostOK(runs[1].machine) /\ runs[1].memory = Snapshot(runs[1].machine)
    BY <1>1 DEF WorkerInv, Progress, Working, Calling, RunsOK, Good
  <1> DEFINE now == Resident(Record.memory)
             base == Resident(runs[1].memory)
  <1>3. base \in Nat \ {0} /\ now \in Nat \ {0}
    BY <1>2, RecordIs, ResidentIs DEF WorkerInv, WorkerTypes
  <1>4. warm # << >> /\ warm[1] = runs[1].memory
    BY <1>1
  <1>5. ~(100 * (now - base) > WarmPercent * base)
    <2>1. base > 0 /\ now # Unread
      BY <1>3 DEF Unread
    <2> HIDE DEF now, base
    <2> QED
      BY <1>4, <2>1 DEF WarmedTooMuch, now, base
  <1>6. 100 * now <= (100 + WarmPercent) * base
    <2> HIDE DEF now, base
    <2> QED
      BY <1>3, <1>5, Percentage
  <1> QED
    BY <1>6 DEF NotWarm

LEMMA RunsGrow ==
    ASSUME WorkerInv, point = "after", Good(Record, plan, started.machine), ~WarmedTooMuch(Record),
           expected[Record.input] \in {Unread, Record.digest}
    PROVE  /\ RunsOK(plan, started.machine, Append(runs, Record), Expect(Record), WarmBase(Record))
           /\ Len(Append(runs, Record)) = Len(runs) + 1
  <1> DEFINE r == Record
             L == Len(runs)
             rs == Append(runs, r)
             exp == Expect(r)
             w == WarmBase(r)
  <1>1. /\ runs \in Seq(Records) /\ expected \in [1..plan.inputs -> {Unread, 1, 2}]
        /\ warm = IF runs = << >> THEN << >> ELSE << runs[1].memory >>
        /\ \A k \in 1..L :
             /\ Good(runs[k], plan, started.machine) /\ NotWarm(runs[k], runs[1])
             /\ runs[k].input = 1 + ((k - 1) % plan.inputs) /\ expected[runs[k].input] = runs[k].digest
    BY DEF WorkerInv, Progress, Working, Calling, RunsOK
  <1>2. /\ r \in Records /\ r.input \in 1..plan.inputs /\ r.input = 1 + (L % plan.inputs)
        /\ r.digest \in {1, 2}
    BY RecordIs DEF Records
  <1>3. L \in Nat /\ plan.inputs \in Nat \ {0}
    BY <1>1, LenProperties DEF WorkerInv, Progress, Working, Calling, Planned
  <1> HIDE DEF r, L
  <1>4. /\ rs \in Seq(Records) /\ Len(rs) = L + 1 /\ rs[L + 1] = r
        /\ \A k \in 1..L : rs[k] = runs[k]
    BY <1>1, <1>2, AppendProperties DEF L
  <1>5. /\ exp \in [1..plan.inputs -> {Unread, 1, 2}] /\ exp[r.input] = r.digest
        /\ \A k \in 1..L : exp[runs[k].input] = runs[k].digest
    <2>1. CASE expected[r.input] = Unread
      <3>1. exp = [expected EXCEPT ![r.input] = r.digest]
        BY <2>1 DEF Expect
      <3>2. exp \in [1..plan.inputs -> {Unread, 1, 2}] /\ exp[r.input] = r.digest
        BY <1>1, <1>2, <3>1
      <3>3. ASSUME NEW k \in 1..L
            PROVE  exp[runs[k].input] = runs[k].digest
        <4>1. expected[runs[k].input] = runs[k].digest /\ runs[k] \in Records
          BY <1>1, <1>3, ElementOfSeq DEF L
        <4>2. runs[k].digest # Unread /\ runs[k].input # r.input
          BY <2>1, <4>1 DEF Records, Unread
        <4>3. runs[k].input \in 1..plan.inputs
          <5>1. k - 1 \in Nat /\ runs[k].input = 1 + ((k - 1) % plan.inputs)
            BY <1>1, <1>3
          <5>2. (k - 1) % plan.inputs \in 0..(plan.inputs - 1)
            BY <1>3, <5>1, Divided
          <5> QED
            BY <1>3, <5>1, <5>2
        <4> QED
          BY <1>1, <3>1, <4>1, <4>2, <4>3
      <3> QED
        BY <3>2, <3>3
    <2>2. CASE expected[r.input] = r.digest
      <3>1. r.digest # Unread
        BY <1>2 DEF Unread
      <3>2. exp = expected
        BY <2>2, <3>1 DEF Expect
      <3> QED
        BY <1>1, <2>2, <3>2
    <2> QED
      BY <2>1, <2>2 DEF r
  <1>6. rs # << >> /\ w = << rs[1].memory >>
    <2>1. CASE runs = << >>
      <3>1. L = 0 /\ rs[1] = r
        BY <2>1, <1>3, <1>4 DEF L
      <3> QED
        BY <1>1, <1>4, <2>1, <3>1 DEF WarmBase
    <2>2. CASE runs # << >>
      <3>1. 1 \in 1..L
        BY <1>1, <1>3, <2>2, EmptySeq DEF L
      <3>2. rs[1] = runs[1]
        BY <1>4, <3>1
      <3>3. warm = << runs[1].memory >> /\ warm # << >>
        BY <1>1, <2>2
      <3>4. w = warm
        BY <3>3 DEF WarmBase
      <3> HIDE DEF rs, w
      <3>5. rs # << >>
        BY <1>3, <1>4, EmptySeq
      <3> QED
        BY <3>2, <3>3, <3>4, <3>5
    <2> QED
      BY <2>1, <2>2
  <1>7. \A k \in 1..(L + 1) : NotWarm(rs[k], rs[1])
    <2>1. CASE runs = << >>
      <3>1. L = 0 /\ rs[1] = r
        BY <2>1, <1>3, <1>4 DEF L
      <3>2. NotWarm(r, r)
        <4>1. Resident(r.memory) \in Nat \ {0}
          BY RecordIs, ResidentIs DEF WorkerInv, WorkerTypes, r
        <4> QED
          BY <4>1, Percentage DEF NotWarm
      <3> QED
        BY <3>1, <3>2
    <2>2. CASE runs # << >>
      <3>1. 1 \in 1..L
        BY <1>1, <1>3, <2>2, EmptySeq DEF L
      <3>2. rs[1] = runs[1]
        BY <1>4, <3>1
      <3>3. NotWarm(r, runs[1])
        BY <2>2, NotWarmer DEF r
      <3>4. \A k \in 1..(L + 1) : k \in 1..L \/ k = L + 1
        BY <1>3
      <3> HIDE DEF rs
      <3> QED
        BY <1>1, <1>4, <3>2, <3>3, <3>4
    <2> QED
      BY <2>1, <2>2
  <1>8. ASSUME NEW k \in 1..(L + 1)
        PROVE  /\ Good(rs[k], plan, started.machine) /\ rs[k].input = 1 + ((k - 1) % plan.inputs)
               /\ exp[rs[k].input] = rs[k].digest
    <2> HIDE DEF rs, exp
    <2>1. CASE k \in 1..L
      BY <1>1, <1>4, <1>5, <2>1
    <2>2. CASE k = L + 1
      <3>1. k - 1 = L /\ rs[k] = r
        BY <1>3, <1>4, <2>2
      <3> QED
        BY <1>2, <1>5, <3>1 DEF r
    <2> QED
      BY <1>3, <2>1, <2>2
  <1>9. RunsOK(plan, started.machine, rs, exp, w)
    <2> HIDE DEF rs, exp, w
    <2> QED
      BY <1>4, <1>5, <1>6, <1>7, <1>8 DEF RunsOK
  <1> QED
    BY <1>4, <1>9 DEF r, L

-----------------------------------------------------------------------------
(* The steps *)

LEMMA StartOK ==
    ASSUME WorkerInv, Start
    PROVE  WorkerInv'
  <1>1. /\ point = "called" /\ plan \in PlanSet /\ HostOK(machine) /\ HostOK(started.machine)
        /\ NotLess(started.machine, machine) /\ started.memory = Snapshot(started.machine)
        /\ started.fallback \in BOOLEAN /\ before \in Groups /\ troubles \in Nat
        /\ runs = << >> /\ warm = << >> /\ expected = [i \in 1..plan.inputs |-> Unread]
    BY DEF WorkerInv, WorkerTypes, Progress, Start
  <1>2. UNCHANGED << machine, before, runs, expected, warm, troubles >> /\ plan' = Asked(plan)
    BY DEF Start
  <1>3. /\ plan' \in PlanSet /\ plan'.inputs = plan.inputs /\ plan'.repetitions = plan.repetitions
        /\ plan'.minutes = plan.minutes /\ plan'.mode = plan.mode /\ plan'.minimum = plan.minimum
    BY <1>1, <1>2 DEF PlanSet, Asked
  <1>4. CASE point' \in {"invalid", "short"} /\ UNCHANGED started
    <2>1. WorkerTypes'
      BY <1>1, <1>2, <1>3, <1>4 DEF WorkerTypes, Ends
    <2>2. Progress'
      BY <1>4 DEF Progress, Working, Calling
    <2> QED
      BY <2>1, <2>2 DEF WorkerInv
  <1>5. CASE /\ ~Invalid(plan) /\ ~(plan.inputs * plan.minutes * plan.repetitions < plan.minimum)
             /\ started' = [memory |-> Snapshot(machine), fallback |-> machine.acts = "fallback", machine |-> machine]
             /\ point' \in {"large", "before"}
    <2>1. NotLess(machine, machine)
      BY <1>1, HostFields DEF NotLess
    <2>2. started'.machine = machine /\ started'.memory = Snapshot(machine)
      BY <1>5
    <2>3. started'.fallback \in BOOLEAN
      BY <1>5
    <2>4. HostOK(started.machine)' /\ NotLess(started.machine, machine)' /\ (started.memory = Snapshot(started.machine))'
      BY <1>1, <1>2, <2>1, <2>2
    <2>5. WorkerTypes'
      BY <1>1, <1>2, <1>3, <1>5, <2>3, <2>4 DEF WorkerTypes, Ends, Working, Calling
    <2>6. plan.inputs \in Nat \ {0} /\ plan.repetitions \in Nat \ {0} /\ plan.minutes \in Nat /\ plan.minimum \in Nat
      BY <1>1, <1>5 DEF Invalid, PlanSet
    <2>7. Calls(plan) \in Nat \ {0}
      <3>1. PICK n \in Nat : plan.inputs = n + 1
        BY <2>6
      <3>2. (n + 1) * plan.repetitions = n * plan.repetitions + plan.repetitions /\ n * plan.repetitions \in Nat
        BY <2>6
      <3> QED
        BY <2>6, <3>1, <3>2 DEF Calls
    <2>8. plan.mode = "target" => plan.inputs * plan.minutes * plan.repetitions >= 60
      <3> DEFINE minutes == plan.inputs * plan.minutes * plan.repetitions
      <3>1. minutes \in Nat
        BY <2>6
      <3>2. ~(minutes < plan.minimum) /\ (plan.mode = "target" => ~(plan.minimum < 60))
        BY <1>5 DEF Invalid
      <3> HIDE DEF minutes
      <3>3. plan.mode = "target" => minutes >= 60
        BY <2>6, <3>1, <3>2
      <3> QED
        BY <3>3 DEF minutes
    <2>9. Planned(plan') /\ Calls(plan') = Calls(plan)
      BY <1>3, <2>6, <2>7, <2>8 DEF Planned, Calls
    <2>10. RunsOK(plan', started'.machine, << >>, expected, << >>)
      <3>1. expected \in [1..plan'.inputs -> {Unread, 1, 2}]
        BY <1>1, <1>3
      <3>2. << >> \in Seq(Records) /\ Len(<< >>) = 0
        OBVIOUS
      <3> QED
        BY <3>1, <3>2 DEF RunsOK
    <2>11. RunsOK(plan, started.machine, runs, expected, warm)'
      BY <1>1, <1>2, <2>10
    <2>12. Len(runs') = 0
      BY <1>1, <1>2
    <2>13. Progress'
      BY <1>5, <2>7, <2>9, <2>11, <2>12 DEF Progress, Working, Calling
    <2> QED
      BY <2>5, <2>13 DEF WorkerInv
  <1>6. CASE Invalid(plan)
    BY <1>4, <1>6 DEF Start
  <1>7. CASE ~Invalid(plan) /\ plan.inputs * plan.minutes * plan.repetitions < plan.minimum
    BY <1>4, <1>7 DEF Start
  <1>8. CASE ~Invalid(plan) /\ ~(plan.inputs * plan.minutes * plan.repetitions < plan.minimum)
    BY <1>5, <1>8 DEF Start
  <1> QED
    BY <1>6, <1>7, <1>8

LEMMA LookBeforeOK ==
    ASSUME WorkerInv, LookBefore
    PROVE  WorkerInv'
  <1>1. /\ point = "before" /\ UNCHANGED << plan, machine, started, runs, expected, warm, troubles >>
        /\ \/ QuotaRight(CpuSnapshot(machine)) /\ point' = "processing" /\ before' = CpuSnapshot(machine)
           \/ point' = "quota" /\ before' = before
    BY DEF LookBefore
  <1>2. WorkerTypes'
    BY <1>1, GroupOf DEF WorkerInv, WorkerTypes, Working, Calling, Ends
  <1>3. Progress'
    BY <1>1 DEF WorkerInv, Progress, Working, Calling, QuotaRight, AskedFor
  <1> QED
    BY <1>2, <1>3 DEF WorkerInv

LEMMA ProcessOK ==
    ASSUME WorkerInv, Process
    PROVE  WorkerInv'
  <1>1. /\ point = "processing" /\ UNCHANGED << plan, started, before, runs, expected, warm, troubles >>
        /\ machine' = [machine EXCEPT !.counter["usage"] = @ + 1, !.counter["io"] = @ + 1]
        /\ point' = IF machine.acts = "raises" THEN "raised" ELSE "after"
    BY DEF Process
  <1> DEFINE once == [machine.counter EXCEPT !["usage"] = machine.counter["usage"] + 1]
             twice == [once EXCEPT !["io"] = machine.counter["io"] + 1]
  <1>2. HostOK(machine) /\ HostOK(started.machine) /\ NotLess(started.machine, machine)
    BY DEF WorkerInv, WorkerTypes
  <1>3. once \in [Counters -> Nat] /\ twice \in [Counters -> Nat]
    BY <1>2, HostFields DEF Counters
  <1>4. machine' = [machine EXCEPT !.counter = twice]
    BY <1>1, <1>2, HostFields DEF Machines, Counters
  <1> HIDE DEF once, twice
  <1>5. machine' \in Machines /\ machine'.processes = machine.processes /\ machine'.readable = machine.readable
        /\ machine'.cache = machine.cache /\ machine'.peak = machine.peak /\ machine'.acts = machine.acts
    BY <1>2, <1>3, <1>4, HostFields, SMTT(20) DEF Machines
  <1>6. HostOK(machine') /\ NotLess(machine, machine')
    BY <1>2, <1>5, OthersChange DEF HostOK
  <1>7. NotLess(started.machine, machine')
    BY <1>2, <1>6, NotLessOn
  <1>8. WorkerTypes'
    BY <1>1, <1>6, <1>7 DEF WorkerInv, WorkerTypes, Working, Calling, Ends
  <1>9. Progress'
    BY <1>1, <1>5 DEF WorkerInv, Progress, Working, Calling
  <1> QED
    BY <1>8, <1>9 DEF WorkerInv

\* What a look at a call comes to: a reason, or one more record.
LEMMA LooksAfter ==
    ASSUME WorkerInv, LookAfter
    PROVE  \/ \E k \in DOMAIN Reasons :
                /\ Refuses(Reasons[k], Record) /\ point' = Reasons[k]
                /\ runs' = (IF k <= 3 THEN runs ELSE Append(runs, Record))
                /\ UNCHANGED << expected, warm >>
           \/ /\ \A k \in DOMAIN Reasons : ~Refuses(Reasons[k], Record)
              /\ point' = (IF Len(runs) + 1 = Calls(plan) THEN "report" ELSE "before")
              /\ runs' = Append(runs, Record) /\ expected' = Expect(Record) /\ warm' = WarmBase(Record)
  <1> DEFINE refusals == {k \in DOMAIN Reasons : Refuses(Reasons[k], Record)}
  <1>1. CASE refusals = {}
    BY <1>1 DEF LookAfter, Calls
  <1>2. CASE refusals # {}
    <2>1. refusals \subseteq Nat
      BY ReasonsAre
    <2>2. Min(refusals) \in refusals
      BY <1>2, <2>1, LeastNumber
    <2>3. /\ point' = Reasons[Min(refusals)] /\ UNCHANGED << expected, warm >>
          /\ runs' = IF Min(refusals) <= 3 THEN runs ELSE Append(runs, Record)
      BY <1>2 DEF LookAfter
    <2> QED
      BY <2>2, <2>3
  <1> QED
    BY <1>1, <1>2

LEMMA LookAfterOK ==
    ASSUME WorkerInv, LookAfter
    PROVE  WorkerInv'
  <1>1. point = "after" /\ UNCHANGED << plan, machine, started, before, troubles >>
    BY DEF LookAfter
  <1>2. ASSUME point' \in {"report", "before"} \cup Ends
        PROVE  WorkerTypes'
    BY <1>1, <1>2 DEF WorkerInv, WorkerTypes, Working, Calling
  <1>3. CASE \E k \in DOMAIN Reasons : point' = Reasons[k]
    <2>1. point' \in Ends
      BY <1>3, ReasonsAre
    <2>2. Progress'
      BY <2>1 DEF Progress, Working, Calling, Ends
    <2> QED
      BY <1>2, <2>1, <2>2 DEF WorkerInv
  <1>4. CASE /\ \A k \in DOMAIN Reasons : ~Refuses(Reasons[k], Record)
             /\ point' = (IF Len(runs) + 1 = Calls(plan) THEN "report" ELSE "before")
             /\ runs' = Append(runs, Record) /\ expected' = Expect(Record) /\ warm' = WarmBase(Record)
    <2>1. /\ RunsOK(plan, started.machine, runs', expected', warm')
          /\ Len(runs') = Len(runs) + 1
      BY <1>1, <1>4, NothingRefused, RunsGrow
    <2>2. RunsOK(plan, started.machine, runs, expected, warm)'
      BY <1>1, <2>1
    <2>3. Planned(plan)' /\ Calls(plan') = Calls(plan) /\ Calls(plan) \in Nat
      BY <1>1 DEF WorkerInv, Progress, Working, Calling, Planned
    <2>4. Len(runs) \in Nat /\ Len(runs) < Calls(plan)
      BY <1>1, LenProperties DEF WorkerInv, Progress, Working, Calling, RunsOK
    <2>5. point' = "report" => Len(runs') = Calls(plan')
      BY <1>4, <2>1, <2>3, <2>4
    <2>6. point' # "report" => point' = "before" /\ Len(runs') < Calls(plan')
      BY <1>4, <2>1, <2>3, <2>4
    <2>7. Progress'
      BY <2>2, <2>3, <2>5, <2>6 DEF Progress, Working, Calling
    <2>8. WorkerTypes'
      BY <1>2, <1>4
    <2> QED
      BY <2>7, <2>8 DEF WorkerInv
  <1> QED
    BY <1>3, <1>4, LooksAfter

LEMMA ReportOK ==
    ASSUME WorkerInv, Report
    PROVE  WorkerInv'
  <1>1. /\ point = "report" /\ UNCHANGED << plan, machine, started, before, runs, expected, warm, troubles >>
        /\ point' = IF plan.mode = "target" /\ \E k \in DOMAIN runs : ~Measured(runs[k]) THEN "missing" ELSE "passed"
    BY DEF Report
  <1>2. WorkerTypes'
    BY <1>1 DEF WorkerInv, WorkerTypes, Working, Ends
  <1>3. /\ RunsOK(plan, started.machine, runs, expected, warm) /\ Planned(plan) /\ Len(runs) = Calls(plan)
        /\ DOMAIN runs = 1..Len(runs)
    BY <1>1, LenProperties DEF WorkerInv, Progress, Working, RunsOK
  <1>4. /\ RunsOK(plan, started.machine, runs, expected, warm)' /\ Planned(plan)'
        /\ Len(runs') = Calls(plan')
    BY <1>1, <1>3
  <1>5. point' = "passed" /\ plan'.mode = "target" => \A k \in 1..Len(runs') : Measured(runs'[k])
    BY <1>1, <1>3 DEF Measured
  <1>6. Progress'
    BY <1>1, <1>4, <1>5 DEF Progress, Working, Calling
  <1> QED
    BY <1>2, <1>6 DEF WorkerInv

LEMMA TroubleOK ==
    ASSUME WorkerInv, Trouble
    PROVE  WorkerInv'
  <1>1. /\ point \in {"called", "before", "processing"} /\ machine' \in Change /\ troubles' = troubles + 1
        /\ UNCHANGED << plan, point, started, before, runs, expected, warm >>
    BY DEF Trouble
  <1>2. HostOK(machine) /\ HostOK(started.machine) /\ NotLess(started.machine, machine)
    BY DEF WorkerInv, WorkerTypes
  <1>3. HostOK(machine') /\ NotLess(machine, machine')
    BY <1>1, <1>2, ChangeOK
  <1>4. NotLess(started.machine, machine')
    BY <1>2, <1>3, NotLessOn
  <1>5. WorkerTypes'
    BY <1>1, <1>3, <1>4 DEF WorkerInv, WorkerTypes
  <1>6. Progress'
    BY <1>1 DEF WorkerInv, Progress, Working, Calling
  <1> QED
    BY <1>5, <1>6 DEF WorkerInv

LEMMA WorkerStarts == WorkerInit => WorkerInv
  <1> SUFFICES ASSUME WorkerInit
               PROVE  WorkerInv
    OBVIOUS
  <1>1. HostOK(machine) /\ NotLess(machine, machine)
    BY FreshOK DEF WorkerInit
  <1>2. /\ started.machine = machine /\ started.memory = Snapshot(machine) /\ started.fallback = FALSE
        /\ before = CpuSnapshot(machine) /\ point = "called" /\ troubles = 0 /\ plan \in PlanSet
    BY WorkerParameters DEF WorkerInit
  <1>3. WorkerTypes
    BY <1>1, <1>2, GroupOf DEF WorkerTypes
  <1>4. Progress
    BY <1>2 DEF WorkerInit, Progress, Working, Calling
  <1> QED
    BY <1>3, <1>4 DEF WorkerInv

LEMMA WorkerStutters ==
    ASSUME WorkerInv, UNCHANGED workerVars
    PROVE  WorkerInv'
  <1>1. UNCHANGED << plan, point, machine, started, before, runs, expected, warm, troubles >>
    BY DEF workerVars
  <1>2. WorkerTypes'
    BY <1>1 DEF WorkerInv, WorkerTypes
  <1>3. Progress'
    BY <1>1 DEF WorkerInv, Progress, Measured
  <1> QED
    BY <1>2, <1>3 DEF WorkerInv

LEMMA WorkerSteps == WorkerInv /\ [WorkerNext]_workerVars => WorkerInv'
  <1> SUFFICES ASSUME WorkerInv, [WorkerNext]_workerVars
               PROVE  WorkerInv'
    OBVIOUS
  <1> QED
    BY StartOK, LookBeforeOK, ProcessOK, LookAfterOK, ReportOK, TroubleOK, WorkerStutters
       DEF WorkerNext, WorkerStep

\* The gates of the benchmark at every statement, whatever the host does between two of
\* them (run_repeated_worker).
THEOREM WorkerInvariant == WorkerSpec => []WorkerInv
  BY WorkerStarts, WorkerSteps, PTL DEF WorkerSpec

-----------------------------------------------------------------------------
(* A benchmark that passes *)

\* Each input was taken as often as asked, and always gave the digest that is expected.
LEMMA EachInput ==
    ASSUME WorkerInv, point = "passed", NEW i \in 1..plan.inputs
    PROVE  /\ Cardinality({k \in DOMAIN runs : runs[k].input = i}) = plan.repetitions
           /\ Cardinality({runs[k].digest : k \in {x \in DOMAIN runs : runs[x].input = i}}) = 1
  <1> DEFINE n == plan.inputs
             rounds == plan.repetitions
             turns == {k \in 1..(n * rounds) : 1 + ((k - 1) % n) = i}
             those == {k \in DOMAIN runs : runs[k].input = i}
  <1>1. /\ n \in Nat \ {0} /\ rounds \in Nat \ {0} /\ runs \in Seq(Records) /\ Len(runs) = n * rounds
        /\ \A k \in 1..Len(runs) :
             runs[k].input = 1 + ((k - 1) % n) /\ expected[runs[k].input] = runs[k].digest
    BY DEF WorkerInv, Progress, Working, Planned, RunsOK, Calls
  <1>2. DOMAIN runs = 1..(n * rounds)
    BY <1>1, LenProperties
  <1>3. those = turns
    <2> HIDE DEF n, rounds
    <2> QED
      BY <1>1, <1>2
  <1>4. Cardinality(turns) = rounds /\ i \in turns
    <2> HIDE DEF rounds
    <2>1. i \in 1..n
      OBVIOUS
    <2> HIDE DEF n
    <2> QED
      BY <1>1, <2>1, Turns
  <1>5. \A k \in those : runs[k].digest = expected[i]
    <2> HIDE DEF n, rounds
    <2> QED
      BY <1>1, <1>2
  <1>6. {runs[k].digest : k \in those} = {expected[i]}
    <2>1. i \in those
      BY <1>3, <1>4
    <2> HIDE DEF those
    <2> QED
      BY <1>5, <2>1
  <1>7. Cardinality({expected[i]}) = 1
    BY FS_Singleton
  <1>8. Cardinality(those) = rounds
    BY <1>3, <1>4
  <1> QED
    BY <1>6, <1>7, <1>8

\* What a call that nothing was refused for says of the memory that could be measured.
LEMMA EachCall ==
    ASSUME WorkerInv, point = "passed", NEW k \in DOMAIN runs
    PROVE  LET r == runs[k] IN
           /\ QuotaRight(r.before) /\ QuotaRight(r.after) /\ r.machine.acts \in {"well", "drifts"}
           /\ "tree" \in r.machine.readable => TreeOf(r.machine) <= MemoryCap
           /\ "tree" \in r.machine.readable \cap started.machine.readable =>
                TreeOf(r.machine) <= TreeOf(started.machine) + GrowthLimit
           /\ r.machine.readable = runs[1].machine.readable /\ r.machine.cache = runs[1].machine.cache
                /\ "tree" \in r.machine.readable /\ r.machine.cache = 0 =>
                100 * TreeOf(r.machine) <= (100 + WarmPercent) * TreeOf(runs[1].machine)
           /\ plan.mode = "target" => r.delta["usage"] >= 0 /\ r.delta["io"] >= 0
  <1> DEFINE r == runs[k]
             m == r.machine
             first == runs[1].machine
  <1>1. /\ runs \in Seq(Records) /\ k \in 1..Len(runs) /\ 1 \in 1..Len(runs)
        /\ Good(r, plan, started.machine) /\ Good(runs[1], plan, started.machine) /\ NotWarm(r, runs[1])
        /\ plan.mode = "target" => Measured(r)
    <2>1. runs \in Seq(Records) /\ k \in 1..Len(runs) /\ Len(runs) \in Nat
      BY LenProperties DEF WorkerInv, Progress, Working, RunsOK
    <2>2. 1 \in 1..Len(runs)
      BY <2>1
    <2> QED
      BY <2>1, <2>2 DEF WorkerInv, Progress, Working, RunsOK
  <1>2. /\ HostOK(m) /\ HostOK(first) /\ r.memory = Snapshot(m) /\ runs[1].memory = Snapshot(first)
        /\ AskedFor(plan, r.before) /\ AskedFor(plan, r.after) /\ m.acts \in {"well", "drifts"}
        /\ m.peak <= MemoryCap /\ TreeOf(m) <= TreeOf(started.machine) + GrowthLimit
    BY <1>1 DEF Good
  <1>3. r \in Records
    BY <1>1, ElementOfSeq
  <1> HIDE DEF r, m, first
  <1>4. r.delta \in [Counters -> Nat \cup {Unread}]
    BY <1>3 DEF Records
  <1>5. TreeOf(m) <= MemoryCap
    BY <1>2, TreeIs, HostFields, WorkerParameters
  <1>6. ASSUME m.cache = first.cache, m.cache = 0
        PROVE  100 * TreeOf(m) <= (100 + WarmPercent) * TreeOf(first)
    <2>1. Resident(r.memory) = TreeOf(m) /\ Resident(runs[1].memory) = TreeOf(first)
      <3>1. TreeOf(m) \in Nat /\ TreeOf(first) \in Nat
        BY <1>2, TreeIs
      <3>2. /\ Resident(Snapshot(m)) = IF "group" \in m.readable THEN TreeOf(m) + m.cache ELSE TreeOf(m)
            /\ Resident(Snapshot(first)) =
                 IF "group" \in first.readable THEN TreeOf(first) + first.cache ELSE TreeOf(first)
        BY <1>2, ResidentIs
      <3>3. TreeOf(m) + m.cache = TreeOf(m) /\ TreeOf(first) + first.cache = TreeOf(first)
        BY <1>6, <3>1
      <3> QED
        BY <1>2, <3>2, <3>3
    <2> QED
      BY <1>1, <2>1 DEF NotWarm
  <1>7. plan.mode = "target" => r.delta["usage"] >= 0 /\ r.delta["io"] >= 0
    BY <1>1, <1>4 DEF Measured, Counters, Unread
  <1>8. QuotaRight(r.before) /\ QuotaRight(r.after)
    BY <1>2 DEF AskedFor, QuotaRight
  <1> QED
    BY <1>2, <1>5, <1>6, <1>7, <1>8 DEF r, m, first

LEMMA InvariantWarrants == WorkerInv => PassIsWarranted
  <1> SUFFICES ASSUME WorkerInv, point = "passed"
               PROVE  PassIsWarranted
    BY DEF PassIsWarranted
  <1>1. plan.mode = "target" => plan.inputs * plan.minutes * plan.repetitions >= 60
    BY DEF WorkerInv, Progress, Working, Planned
  <1> QED
    BY <1>1, EachInput, EachCall DEF PassIsWarranted

\* A PASS of the benchmark stands on every call: each input taken as often as asked and
\* with one timeline, no call outside the control group that was asked for, and no growth
\* of the memory that could be measured beyond its limits, for every plan, every limit and
\* whatever the host does between two statements (run_repeated_worker).
THEOREM WorkerPassesOnEvidence == WorkerSpec => []PassIsWarranted
  BY WorkerInvariant, InvariantWarrants, PTL

-----------------------------------------------------------------------------
(* A benchmark that does not pass *)

\* A call that is refused for memory was refused for memory that is held.
LEMMA RefusalsAreCaused ==
    ASSUME WorkerInv, LookAfter
    PROVE  Caused'
  <1>1. UNCHANGED << plan, machine, started >> /\ point = "after"
    BY DEF LookAfter
  <1>2. HostOK(machine) /\ HostOK(started.machine)
    BY DEF WorkerInv, WorkerTypes
  <1>3. CASE \E k \in DOMAIN Reasons :
               /\ Refuses(Reasons[k], Record) /\ point' = Reasons[k]
               /\ runs' = (IF k <= 3 THEN runs ELSE Append(runs, Record))
    <2>1. PICK k \in DOMAIN Reasons :
             /\ Refuses(Reasons[k], Record) /\ point' = Reasons[k]
             /\ runs' = (IF k <= 3 THEN runs ELSE Append(runs, Record))
      BY <1>3
    <2>2. Refuses(point', Record) /\ k \in 1..8 /\ point' # "missing"
      BY <2>1, ReasonsAre DEF Ends
    <2>3. ASSUME point' = "grown"
          PROVE  TreeOf(machine) > TreeOf(started.machine) + GrowthLimit
      <3>1. Record.growth > GrowthLimit
        BY <2>2, <2>3 DEF Refuses
      <3> QED
        BY <1>1, <1>2, <3>1, RecordIs, TreeIs, WorkerParameters
    <2>4. ASSUME point' = "large"
          PROVE  machine.peak > MemoryCap
      <3>1. Largest(Record.memory) > MemoryCap
        BY <2>2, <2>4 DEF Refuses
      <3> QED
        BY <1>1, <1>2, <3>1, RecordIs, LargestIs
    <2>5. ASSUME point' = "quota"
          PROVE  ~AskedFor(plan, CpuSnapshot(machine))
      <3>1. ~QuotaRight(Record.after)
        BY <2>2, <2>5 DEF Refuses
      <3> QED
        BY <1>1, <3>1, RecordIs DEF QuotaRight, AskedFor
    <2>6. ASSUME point' = "warm"
          PROVE  LET now == Last(runs').machine  first == runs'[1].machine
                 IN  100 * (TreeOf(now) + now.cache) > (100 + WarmPercent) * TreeOf(first)
      <3>1. WarmedTooMuch(Record)
        BY <2>2, <2>6 DEF Refuses
      <3>2. k = 8
        <4>1. \A j \in 1..8 : j \in {1, 2, 3, 4, 5, 6, 7, 8}
          OBVIOUS
        <4> QED
          BY <2>1, <2>2, <2>6, <4>1, ReasonsAre
      <3>3. runs' = Append(runs, Record) /\ runs \in Seq(Records) /\ Record \in Records
        BY <1>1, <2>1, <3>2, RecordIs DEF WorkerInv, Progress, Working, Calling, RunsOK
      <3>4. runs # << >> /\ warm = << runs[1].memory >>
        BY <1>1, <3>1 DEF WarmedTooMuch, WorkerInv, Progress, Working, Calling, RunsOK
      <3>5. Len(runs) \in Nat \ {0}
        BY <3>3, <3>4, EmptySeq, LenProperties
      <3>6. Last(runs') = Record /\ runs'[1] = runs[1]
        BY <3>3, <3>5, AppendProperties DEF Last
      <3>7. HostOK(runs[1].machine) /\ runs[1].memory = Snapshot(runs[1].machine)
        BY <1>1, <3>5 DEF WorkerInv, Progress, Working, Calling, RunsOK, Good
      <3> DEFINE first == runs[1].machine
                 now == Resident(Record.memory)
                 base == Resident(runs[1].memory)
                 held == TreeOf(machine) + machine.cache
                 tree == TreeOf(first)
      <3>8. now \in Nat /\ now <= held /\ held \in Nat
        BY <1>1, <1>2, RecordIs, ResidentIs, TreeIs, HostFields
      <3>9. base \in Nat /\ tree <= base /\ tree \in Nat
        BY <3>7, ResidentIs, TreeIs
      <3>10. 100 * (now - base) > WarmPercent * base
        <4>1. warm[1] = runs[1].memory
          BY <3>4
        <4> QED
          BY <3>1, <4>1 DEF WarmedTooMuch
      <3>11. 100 * held > (100 + WarmPercent) * tree
        <4> HIDE DEF now, base, held, tree
        <4>1. ~(100 * now <= (100 + WarmPercent) * base)
          BY <3>8, <3>9, <3>10, Percentage
        <4>2. (100 + WarmPercent) * tree <= (100 + WarmPercent) * base
          BY <3>8, <3>9, Percentage
        <4>3. (100 + WarmPercent) * tree \in Nat /\ (100 + WarmPercent) * base \in Nat
          BY <3>9, WorkerParameters
        <4> QED
          BY <3>8, <4>1, <4>2, <4>3
      <3> QED
        BY <1>1, <3>6, <3>11, RecordIs
    <2> QED
      BY <1>1, <2>2, <2>3, <2>4, <2>5, <2>6 DEF Caused
  <1>4. CASE point' \in {"report", "before"}
    BY <1>4 DEF Caused
  <1> QED
    BY <1>3, <1>4, LooksAfter

LEMMA OthersAreCaused ==
    ASSUME WorkerInv, Caused, [Start \/ LookBefore \/ Process \/ Report \/ Trouble]_workerVars
    PROVE  Caused'
  <1>1. CASE Start
    <2>1. HostOK(machine) /\ machine' = machine
      BY <1>1 DEF WorkerInv, WorkerTypes, Start
    <2> DEFINE tooLarge == Largest(Snapshot(machine)) > MemoryCap
    <2>2. \/ point' \in {"invalid", "short"}
          \/ point' = IF tooLarge THEN "large" ELSE "before"
      BY <1>1, Zenon DEF Start
    <2>3. point' \in {"invalid", "short", "before"} \/ (point' = "large" /\ tooLarge)
      BY <2>2
    <2> QED
      BY <2>1, <2>3, LargestIs DEF Caused
  <1>2. CASE LookBefore
    <2>1. /\ UNCHANGED << plan, machine >>
          /\ point' = "processing" \/ (point' = "quota" /\ ~QuotaRight(CpuSnapshot(machine)))
      BY <1>2 DEF LookBefore
    <2> QED
      BY <2>1 DEF Caused, QuotaRight, AskedFor
  <1>3. CASE Process
    BY <1>3 DEF Process, Caused
  <1>4. CASE Report
    <2>1. UNCHANGED << plan, runs >>
      BY <1>4 DEF Report
    <2>2. \/ point' = "passed"
          \/ point' = "missing" /\ \E k \in DOMAIN runs : plan.mode = "target" /\ ~Measured(runs[k])
      BY <1>4 DEF Report
    <2> QED
      BY <2>1, <2>2 DEF Caused, Measured
  <1>5. CASE Trouble
    <2>1. point' \in {"called", "before", "processing"}
      BY <1>5 DEF Trouble
    <2> QED
      BY <2>1 DEF Caused
  <1>6. CASE UNCHANGED workerVars
    BY <1>6 DEF workerVars, Caused, Measured
  <1> QED
    BY <1>1, <1>2, <1>3, <1>4, <1>5, <1>6

\* What is read of a host to which nothing has happened.
LEMMA CalmIs ==
    ASSUME NEW m, HostOK(m), NEW p \in PlanSet, Calm(p, m)
    PROVE  /\ TreeOf(m) = 6 /\ Largest(Snapshot(m)) = 6 /\ Resident(Snapshot(m)) = 6
           /\ Snapshot(m)["tree"] = 6 /\ Snapshot(m)["shared"] = 6
           /\ AskedFor(p, CpuSnapshot(m)) /\ Calm(Asked(p), m)
           /\ \A c \in Counters : CpuSnapshot(m).counter[c] = m.counter[c]
  <1>1. TreeOf(m) = 6
    BY TreeIs DEF Calm
  <1>2. m.readable = Sources \cup Counters /\ m.cache = 0
    BY DEF Calm
  <1>3. Largest(Snapshot(m)) = 6
    BY LargestIs DEF Calm
  <1>4. Resident(Snapshot(m)) = 6
    BY <1>1, <1>2, ResidentIs
  <1>5. Snapshot(m)["tree"] = 6 /\ Snapshot(m)["shared"] = 6
    BY <1>1, <1>2, SnapshotIs DEF Sources
  <1>6. AskedFor(p, CpuSnapshot(m))
    <2>1. p.version \in {"any", "v1", "v2"}
      BY DEF PlanSet
    <2> QED
      BY <2>1, GroupOf DEF AskedFor, Calm
  <1>7. Calm(Asked(p), m)
    <2>1. Asked(p).version = IF p.mode = "target" /\ p.version = "any" THEN "v1" ELSE p.version
      BY DEF PlanSet, Asked
    <2>2. Asked(p).version = "v2" <=> p.version = "v2"
      BY <2>1
    <2> QED
      BY <2>2 DEF Calm
  <1>8. \A c \in Counters : CpuSnapshot(m).counter[c] = m.counter[c]
    BY <1>2, GroupOf
  <1> QED
    BY <1>1, <1>3, <1>4, <1>5, <1>6, <1>7, <1>8

LEMMA CalmCall ==
    ASSUME WorkerInv, Quiet, troubles = 0, point = "after", MemoryCap >= 6
    PROVE  /\ \A k \in DOMAIN Reasons : ~Refuses(Reasons[k], Record)
           /\ Calm(plan, Record.machine) /\ Measured(Record) /\ Record.digest = 1
  <1>1. /\ HostOK(machine) /\ HostOK(started.machine) /\ plan \in PlanSet
        /\ Calm(plan, machine) /\ Calm(plan, started.machine) /\ ~started.fallback
        /\ before \in Groups /\ before.counter["throttled"] = 1
        /\ before.counter["usage"] \in Nat /\ machine.counter["usage"] >= before.counter["usage"]
        /\ before.counter["io"] \in Nat /\ machine.counter["io"] >= before.counter["io"]
    BY DEF WorkerInv, WorkerTypes, Quiet
  <1>2. /\ machine.acts = "well" /\ machine.counter["throttled"] = 1
        /\ machine.counter["usage"] \in Nat /\ machine.counter["io"] \in Nat
    BY <1>1, HostFields DEF Calm, Counters
  <1>3. /\ Record.delta["throttled"] = 0
        /\ Record.delta["usage"] # Unread /\ Record.delta["io"] # Unread
    <2>1. /\ CpuSnapshot(machine).counter["throttled"] = machine.counter["throttled"]
          /\ CpuSnapshot(machine).counter["usage"] = machine.counter["usage"]
          /\ CpuSnapshot(machine).counter["io"] = machine.counter["io"]
      BY <1>1, CalmIs DEF Counters
    <2>2. /\ Record.delta["throttled"] = Delta(1, 1)
          /\ Record.delta["usage"] = Delta(before.counter["usage"], machine.counter["usage"])
          /\ Record.delta["io"] = Delta(before.counter["io"], machine.counter["io"])
      BY <1>1, <1>2, <2>1, RecordIs DEF Counters
    <2> QED
      BY <1>1, <1>2, <2>2 DEF Delta, Unread
  <1>4. /\ Record.machine = machine /\ Record.digest = 1 /\ ~Record.fallback /\ Record.elapsed = Ticks
        /\ Record.memory = Snapshot(machine) /\ Record.after = CpuSnapshot(machine) /\ Record.growth = 0
    BY <1>1, <1>2, RecordIs, CalmIs
  <1>5. Measured(Record)
    BY <1>1, <1>3, <1>4, CalmIs DEF Measured, Unread
  <1>6. ~Refuses("quota", Record)
    BY <1>1, <1>4, CalmIs DEF Refuses, AskedFor, QuotaRight
  <1>7. ~Refuses("fallback", Record)
    BY <1>4 DEF Refuses
  <1>8. ~Refuses("drift", Record)
    <2>1. expected[Record.input] \in {Unread, 1}
      BY RecordIs DEF Quiet, Working, Calling
    <2> QED
      BY <1>4, <2>1 DEF Refuses
  <1>9. ~Refuses("slow", Record) /\ ~Refuses("throttled", Record)
    BY <1>3, <1>4, WorkerParameters DEF Refuses
  <1>10. ~Refuses("large", Record) /\ ~Refuses("grown", Record)
    BY <1>1, <1>4, CalmIs, WorkerParameters DEF Refuses
  <1>11. ~Refuses("warm", Record)
    <2>1. ASSUME warm # << >>
          PROVE  warm[1] = Snapshot(runs[1].machine) /\ Resident(warm[1]) = 6
      <3>1. runs \in Seq(Records) /\ runs # << >> /\ warm = << runs[1].memory >>
        BY <2>1 DEF WorkerInv, Progress, Working, Calling, RunsOK
      <3>2. 1 \in 1..Len(runs)
        BY <3>1, EmptySeq, LenProperties
      <3>3. HostOK(runs[1].machine) /\ runs[1].memory = Snapshot(runs[1].machine)
        BY <3>2 DEF WorkerInv, Progress, Working, Calling, RunsOK, Good
      <3>4. Calm(plan, runs[1].machine)
        BY <3>2 DEF Quiet, Working, Calling
      <3> QED
        BY <1>1, <3>1, <3>3, <3>4, CalmIs
    <2>2. Resident(Record.memory) = 6
      BY <1>1, <1>4, CalmIs
    <2>3. ~WarmedTooMuch(Record)
      <3>1. 100 * (6 - 6) = 0 /\ WarmPercent * 6 \in Nat
        BY WorkerParameters
      <3> QED
        BY <2>1, <2>2, <3>1 DEF WarmedTooMuch
    <2> QED
      BY <2>3 DEF Refuses
  <1>12. \A k \in DOMAIN Reasons : ~Refuses(Reasons[k], Record)
    <2>1. \A k \in 1..8 : k \in {1, 2, 3, 4, 5, 6, 7, 8}
      OBVIOUS
    <2> QED
      BY <1>6, <1>7, <1>8, <1>9, <1>10, <1>11, <2>1, ReasonsAre
  <1> QED
    BY <1>1, <1>4, <1>5, <1>12

LEMMA QuietSteps ==
    ASSUME WorkerInv, Quiet, MemoryCap >= 6, [WorkerNext]_workerVars
    PROVE  Quiet'
  <1> SUFFICES ASSUME troubles' = 0
               PROVE  Quiet'
    BY DEF Quiet
  <1>1. CASE Trouble
    <2>1. troubles' = troubles + 1 /\ troubles \in Nat
      BY <1>1 DEF Trouble, WorkerInv, WorkerTypes
    <2> QED
      BY <2>1
  <1> SUFFICES ASSUME [WorkerStep]_workerVars
               PROVE  Quiet'
    BY <1>1 DEF WorkerNext
  <1>2. troubles = 0
    BY DEF WorkerStep, Start, LookBefore, Process, LookAfter, Report, workerVars
  <1>3. /\ HostOK(machine) /\ HostOK(started.machine) /\ plan \in PlanSet
        /\ Calm(plan, machine) /\ Calm(plan, started.machine) /\ ~started.fallback
        /\ point \notin (Ends \ {"invalid", "short"})
    BY <1>2 DEF WorkerInv, WorkerTypes, Quiet
  <1>4. machine.acts = "well"
    BY <1>3 DEF Calm
  <1>5. CASE Start
    <2>1. /\ point = "called" /\ plan' = Asked(plan) /\ UNCHANGED << machine, runs, expected >>
          /\ runs = << >>
      BY <1>5 DEF Start, WorkerInv, Progress
    <2>2. \/ point' \in {"invalid", "short"} /\ started' = started
          \/ /\ started' = [memory |-> Snapshot(machine), fallback |-> machine.acts = "fallback", machine |-> machine]
             /\ point' = IF Largest(Snapshot(machine)) > MemoryCap THEN "large" ELSE "before"
      BY <1>5, Zenon DEF Start
    <2>3. ~(Largest(Snapshot(machine)) > MemoryCap)
      BY <1>3, CalmIs, WorkerParameters
    <2>4. /\ point' \in {"invalid", "short", "before"} /\ Calm(plan', started'.machine) /\ ~started'.fallback
      <3>1. Calm(plan', machine) /\ Calm(plan', started.machine)
        BY <1>3, <2>1, CalmIs
      <3>2. CASE point' \in {"invalid", "short"} /\ started' = started
        BY <1>3, <3>1, <3>2
      <3>3. CASE /\ started' = [memory |-> Snapshot(machine), fallback |-> machine.acts = "fallback", machine |-> machine]
                 /\ point' = IF Largest(Snapshot(machine)) > MemoryCap THEN "large" ELSE "before"
        <4>1. started'.machine = machine /\ point' = "before"
          BY <2>3, <3>3
        <4>2. ~started'.fallback
          BY <1>4, <3>3
        <4> QED
          BY <3>1, <4>1, <4>2
      <3> QED
        BY <2>2, <3>2, <3>3
    <2>5. Calm(plan', machine')
      BY <1>3, <2>1, CalmIs
    <2>6. plan'.inputs = plan.inputs /\ \A i \in 1..plan.inputs : expected[i] \in {Unread, 1}
      BY <1>2, <1>3, <2>1 DEF Quiet, PlanSet, Asked
    <2>7. Len(runs') = 0
      BY <2>1
    <2> QED
      BY <2>1, <2>4, <2>5, <2>6, <2>7 DEF Quiet, Working, Calling, Ends
  <1>6. CASE LookBefore
    <2>1. QuotaRight(CpuSnapshot(machine))
      BY <1>3, CalmIs DEF AskedFor, QuotaRight
    <2>2. /\ point = "before" /\ point' = "processing" /\ before' = CpuSnapshot(machine)
          /\ UNCHANGED << plan, machine, started, runs, expected >>
      BY <1>6, <2>1 DEF LookBefore
    <2>3. \A c \in Counters : before'.counter[c] = machine.counter[c] /\ machine.counter[c] \in Nat
      BY <1>3, <2>2, CalmIs, HostFields
    <2>4. machine.counter["throttled"] = 1
      BY <1>3 DEF Calm
    <2>5. /\ before'.counter["throttled"] = 1
          /\ \A c \in {"usage", "io"} : before'.counter[c] \in Nat /\ machine'.counter[c] >= before'.counter[c]
      BY <2>2, <2>3, <2>4 DEF Counters
    <2>6. \A k \in 1..Len(runs) : Calm(plan, runs[k].machine) /\ Measured(runs[k])
      BY <1>2, <2>2 DEF Quiet, Working, Calling
    <2>7. \A i \in 1..plan.inputs : expected[i] \in {Unread, 1}
      BY <1>2, <2>2 DEF Quiet, Working, Calling
    <2> QED
      BY <1>3, <2>2, <2>5, <2>6, <2>7 DEF Quiet, Working, Calling, Ends, Measured
  <1>7. CASE Process
    <2>1. /\ point = "processing" /\ point' = "after" /\ UNCHANGED << plan, started, before, runs, expected >>
          /\ machine' = [machine EXCEPT !.counter["usage"] = @ + 1, !.counter["io"] = @ + 1]
      BY <1>4, <1>7 DEF Process
    <2> DEFINE once == [machine.counter EXCEPT !["usage"] = machine.counter["usage"] + 1]
               twice == [once EXCEPT !["io"] = machine.counter["io"] + 1]
    <2>2. machine.counter \in [Counters -> Nat]
      BY <1>3, HostFields
    <2>3. /\ twice["throttled"] = machine.counter["throttled"]
          /\ twice["usage"] = machine.counter["usage"] + 1 /\ twice["io"] = machine.counter["io"] + 1
      BY <2>2 DEF Counters
    <2>4. machine' = [machine EXCEPT !.counter = twice]
      BY <1>3, <2>1, HostFields DEF Machines, Counters
    <2> HIDE DEF once, twice
    <2>5. /\ machine'.counter = twice /\ machine'.acts = machine.acts /\ machine'.quota = machine.quota
          /\ machine'.version = machine.version /\ machine'.processes = machine.processes
          /\ machine'.cache = machine.cache /\ machine'.peak = machine.peak
          /\ machine'.readable = machine.readable
      BY <1>3, <2>4, HostFields DEF Machines
    <2>6. Calm(plan', machine') /\ Calm(plan', started'.machine) /\ ~started'.fallback
      BY <1>3, <2>1, <2>3, <2>5 DEF Calm
    <2>7. /\ before.counter["throttled"] = 1
          /\ \A c \in {"usage", "io"} : before.counter[c] \in Nat /\ machine.counter[c] >= before.counter[c]
      BY <1>2, <2>1 DEF Quiet
    <2>8. \A c \in {"usage", "io"} : machine'.counter[c] >= before.counter[c]
      BY <2>2, <2>3, <2>5, <2>7 DEF Counters
    <2>9. \A k \in 1..Len(runs) : Calm(plan, runs[k].machine) /\ Measured(runs[k])
      BY <1>2, <2>1 DEF Quiet, Working, Calling
    <2>10. \A i \in 1..plan.inputs : expected[i] \in {Unread, 1}
      BY <1>2, <2>1 DEF Quiet, Working, Calling
    <2> QED
      BY <2>1, <2>6, <2>7, <2>8, <2>9, <2>10 DEF Quiet, Working, Calling, Ends, Measured
  <1>8. CASE LookAfter
    <2>1. point = "after" /\ UNCHANGED << plan, machine, started >>
      BY <1>8 DEF LookAfter
    <2>2. /\ \A k \in DOMAIN Reasons : ~Refuses(Reasons[k], Record)
          /\ Calm(plan, Record.machine) /\ Measured(Record) /\ Record.digest = 1
      BY <1>2, <2>1, CalmCall
    <2>3. /\ point' \in {"report", "before"} /\ runs' = Append(runs, Record) /\ expected' = Expect(Record)
      BY <1>8, <2>2, LooksAfter
    <2>4. /\ runs \in Seq(Records) /\ Record \in Records /\ Record.input \in 1..plan.inputs
          /\ expected \in [1..plan.inputs -> {Unread, 1, 2}]
          /\ \A k \in 1..Len(runs) : Calm(plan, runs[k].machine) /\ Measured(runs[k])
          /\ \A i \in 1..plan.inputs : expected[i] \in {Unread, 1}
      BY <1>2, <2>1, RecordIs DEF WorkerInv, Progress, RunsOK, Quiet, Working, Calling
    <2>5. \A i \in 1..plan.inputs : expected'[i] \in {Unread, 1}
      BY <2>2, <2>3, <2>4 DEF Expect
    <2>6. ASSUME NEW k \in 1..Len(runs')
          PROVE  Calm(plan, runs'[k].machine) /\ Measured(runs'[k])
      <3>1. Len(runs) \in Nat /\ Len(runs') = Len(runs) + 1 /\ runs'[Len(runs) + 1] = Record
            /\ \A j \in 1..Len(runs) : runs'[j] = runs[j]
        BY <2>3, <2>4, LenProperties, AppendProperties
      <3>2. k \in 1..Len(runs) \/ k = Len(runs) + 1
        BY <3>1
      <3> QED
        BY <2>2, <2>4, <3>1, <3>2
    <2> QED
      BY <1>3, <2>1, <2>3, <2>5, <2>6 DEF Quiet, Working, Calling, Ends, Measured
  <1>9. CASE Report
    <2>1. /\ point = "report" /\ UNCHANGED << plan, machine, started, runs, expected >>
          /\ point' = IF plan.mode = "target" /\ \E k \in DOMAIN runs : ~Measured(runs[k]) THEN "missing" ELSE "passed"
      BY <1>9 DEF Report
    <2>2. DOMAIN runs = 1..Len(runs)
      BY <2>1, LenProperties DEF WorkerInv, Progress, Working, RunsOK
    <2>3. /\ \A k \in 1..Len(runs) : Calm(plan, runs[k].machine) /\ Measured(runs[k])
          /\ \A i \in 1..plan.inputs : expected[i] \in {Unread, 1}
      BY <1>2, <2>1 DEF Quiet, Working
    <2>4. point' = "passed"
      BY <2>1, <2>2, <2>3
    <2> QED
      BY <1>3, <2>1, <2>3, <2>4 DEF Quiet, Working, Calling, Ends, Measured
  <1>10. CASE UNCHANGED workerVars
    BY <1>10 DEF workerVars, Quiet, Measured
  <1> QED
    BY <1>5, <1>6, <1>7, <1>8, <1>9, <1>10 DEF WorkerStep

\* With a cap that leaves room for what the two processes start with.
LEMMA WorkerCausesStart ==
    ASSUME WorkerInit
    PROVE  Caused /\ Quiet
  <1>1. /\ machine = Fresh(plan) /\ started.machine = machine /\ started.fallback = FALSE
        /\ point = "called" /\ runs = << >> /\ expected = [i \in 1..plan.inputs |-> Unread]
    BY DEF WorkerInit
  <1>2. Caused
    BY <1>1 DEF Caused
  <1>3. Calm(plan, machine)
    BY <1>1, FreshOK
  <1>4. Quiet
    BY <1>1, <1>3 DEF Quiet, Ends
  <1> QED
    BY <1>2, <1>4

WorkerCauses == WorkerInv /\ Caused /\ Quiet

LEMMA WorkerCausesStep == MemoryCap >= 6 /\ WorkerCauses /\ [WorkerNext]_workerVars => WorkerCauses'
  <1> SUFFICES ASSUME MemoryCap >= 6, WorkerCauses, [WorkerNext]_workerVars
               PROVE  WorkerCauses'
    OBVIOUS
  <1>1. WorkerInv'
    BY WorkerSteps DEF WorkerCauses
  <1>2. Quiet'
    BY QuietSteps DEF WorkerCauses
  <1>3. Caused'
    BY RefusalsAreCaused, OthersAreCaused DEF WorkerCauses, WorkerNext, WorkerStep
  <1> QED
    BY <1>1, <1>2, <1>3 DEF WorkerCauses

LEMMA CausesAreRight == WorkerCauses => WorkerRefusedForCause
  <1> SUFFICES ASSUME WorkerCauses
               PROVE  WorkerRefusedForCause
    OBVIOUS
  <1>1. troubles = 0 => point \notin {"quota", "fallback", "drift", "slow", "throttled", "large",
                                     "grown", "warm", "missing", "raised"}
    BY DEF WorkerCauses, Quiet, Ends
  <1>2. point = "quota" => ~QuotaRight(CpuSnapshot(machine))
    BY DEF WorkerCauses, Caused, QuotaRight, AskedFor
  <1> QED
    BY <1>1, <1>2 DEF WorkerCauses, Caused, WorkerRefusedForCause

\* A benchmark is only refused for something that is so: growth of what the worker and its
\* helper hold and no one else's, a peak above the cap, memory above what the first call
\* left, a control group other than the one asked for, evidence that was not measured; and
\* nothing is refused, and nothing fails, where nothing happened to the host
\* (run_repeated_worker, _memory_growth_bytes).  The two start with six pages.
THEOREM WorkerRefusesForCause ==
    ASSUME MemoryCap >= 6
    PROVE  WorkerSpec => []WorkerRefusedForCause
  <1>1. WorkerInit => WorkerCauses
    BY WorkerStarts, WorkerCausesStart DEF WorkerCauses
  <1>2. WorkerCauses /\ [WorkerNext]_workerVars => WorkerCauses'
    BY WorkerCausesStep
  <1> QED
    BY <1>1, <1>2, CausesAreRight, PTL DEF WorkerSpec

-----------------------------------------------------------------------------
(* Who may authorise a PASS (calibration.py, quality.py) *)

Binding == INSTANCE Calibration

Whole(f) == f = [x \in DOMAIN f |-> f[x]]

\* What a profile names besides its signature.
Fields == {"id", "hashes", "rates", "thresholds", "dataset", "scorer", "config", "approver",
           "version", "schema", "provenance", "key"}

\* A profile document: whatever its fields say, in any number of models and rates.  What
\* was signed was a profile of some kind.
Document(doc) ==
    /\ Whole(doc) /\ DOMAIN doc = Fields \cup {"signature"}
    /\ Whole(doc.hashes) /\ doc.rates \subseteq Int
    /\ doc.signature.is \in {"none", "garbage", "signed"}
    /\ doc.signature.is = "signed" => Whole(doc.signature.of) /\ DOMAIN doc.signature.of = Fields
RuntimeOf(now) == Whole(now.hashes)
VerifierOf(verifier) == verifier \in [trust : {"RELEASE", "DEVELOPMENT", "NONE"}, keys : SUBSET STRING]

LEMMA Nobody ==
    ASSUME NEW f, Whole(f)
    PROVE  f = << >> <=> DOMAIN f = {}
  <1>1. << >> \in Seq({}) /\ Len(<< >>) = 0 /\ DOMAIN << >> = {}
    OBVIOUS
  <1>2. ASSUME DOMAIN f = {}
        PROVE  f = << >>
    <2>1. f = [x \in {} |-> f[x]]
      BY <1>2 DEF Whole
    <2>2. 1..0 = {}
      OBVIOUS
    <2>3. f \in [1..0 -> {}]
      BY <1>2, <2>1, <2>2
    <2>4. f \in Seq({})
      BY <2>3, SeqDef
    <2>5. Len(f) = 0
      BY <1>2, <2>2, <2>4, LenProperties
    <2> QED
      BY <2>4, <2>5, EmptySeq
  <1> QED
    BY <1>1, <1>2

LEMMA LowerAllIs ==
    ASSUME NEW f, NEW g, Whole(f), Whole(g)
    PROVE  /\ Whole(Binding!LowerAll(f)) /\ DOMAIN Binding!LowerAll(f) = DOMAIN f
           /\ \A m \in DOMAIN f : Binding!LowerAll(f)[m] = Binding!Lower(f[m])
           /\ Binding!LowerAll(f) = Binding!LowerAll(g) <=>
                DOMAIN f = DOMAIN g /\ \A m \in DOMAIN f : Binding!Lower(f[m]) = Binding!Lower(g[m])
  BY DEF Binding!LowerAll, Whole

LEMMA DigestIs ==
    ASSUME NEW d
    PROVE  /\ Binding!IsDigest(d) <=> d \in {"a", "A", "b", "B"}
           /\ Binding!Lower(Binding!Lower(d)) = Binding!Lower(d)
           /\ Binding!IsDigest(Binding!Lower(d)) <=> d \in {"a", "A", "b", "B"}
           /\ Binding!IsDigest(d) => Binding!Lower(d) # Binding!Blank
  BY Zenon DEF Binding!IsDigest, Binding!Lower, Binding!Blank

LEMMA NormalIs ==
    ASSUME NEW doc, Document(doc)
    PROVE  LET p == Binding!Normal(doc) IN
           /\ Whole(p) /\ DOMAIN p = DOMAIN doc
           /\ p.hashes = Binding!LowerAll(doc.hashes) /\ p.dataset = Binding!Lower(doc.dataset)
           /\ p.scorer = Binding!Lower(doc.scorer) /\ p.config = Binding!Lower(doc.config)
           /\ p.id = doc.id /\ p.rates = doc.rates /\ p.thresholds = doc.thresholds
           /\ p.approver = doc.approver /\ p.version = doc.version /\ p.schema = doc.schema
           /\ p.provenance = doc.provenance /\ p.key = doc.key /\ p.signature = doc.signature
  BY ZenonT(40) DEF Binding!Normal, Document, Whole, Fields

Codes ==
    {"PROVENANCE_INCOMPLETE", "THRESHOLDS_EMPTY", "SIGNATURE_INVALID", "UNBOUND", "MODEL_HASH_MISMATCH",
     "SOURCE_RATE_MISMATCH", "CONFIG_HASH_MISMATCH", "PROFILE_MISMATCH"}

LEMMA BlankIs == Binding!Blank \notin {"a", "A", "b", "B"} \cup Codes
  BY Zenon DEF Binding!Blank, Codes

\* A row of tests, none of which fails.
Tests == [fails : BOOLEAN, code : Codes]
Clean(tests) == \A k \in 1..Len(tests) : ~tests[k].fails

LEMMA NoFailure ==
    ASSUME NEW tests \in Seq(Tests)
    PROVE  Binding!FirstFailure(tests) = Binding!Blank <=> Clean(tests)
  <1> DEFINE failed == {k \in DOMAIN tests : tests[k].fails}
  <1>1. DOMAIN tests = 1..Len(tests) /\ Len(tests) \in Nat
    BY LenProperties
  <1>2. CASE failed = {}
    BY <1>1, <1>2 DEF Binding!FirstFailure, Clean
  <1>3. CASE failed # {}
    <2>1. failed \subseteq Nat
      BY <1>1
    <2>2. Min(failed) \in failed
      BY <1>3, <2>1, LeastNumber
    <2>3. tests[Min(failed)].code # Binding!Blank
      <3>1. tests[Min(failed)] \in Tests
        BY <1>1, <2>2, ElementOfSeq
      <3> QED
        BY <3>1, BlankIs DEF Tests
    <2>4. Binding!FirstFailure(tests) = tests[Min(failed)].code
      <3>1. Binding!Min(failed) = Min(failed)
        BY DEF Binding!Min, Min
      <3> QED
        BY <1>3, <3>1 DEF Binding!FirstFailure
    <2> QED
      BY <1>1, <1>3, <2>3, <2>4 DEF Clean
  <1> QED
    BY <1>2, <1>3

LEMMA Rows ==
    ASSUME NEW s \in Seq(Tests), NEW t \in Seq(Tests)
    PROVE  s \o t \in Seq(Tests) /\ (Clean(s \o t) <=> Clean(s) /\ Clean(t))
  <1> DEFINE u == s \o t
             n == Len(s)
             m == Len(t)
  <1>1. /\ u \in Seq(Tests) /\ Len(u) = n + m /\ n \in Nat /\ m \in Nat
        /\ \A k \in 1..n : u[k] = s[k]
        /\ \A k \in 1..m : u[n + k] = t[k]
    BY ConcatProperties, LenProperties
  <1> HIDE DEF u, n, m
  <1>2. ASSUME Clean(u)
        PROVE  Clean(s) /\ Clean(t)
    <2>1. \A k \in 1..n : k \in 1..Len(u)
      BY <1>1
    <2>2. \A k \in 1..m : n + k \in 1..Len(u)
      BY <1>1
    <2> QED
      BY <1>1, <1>2, <2>1, <2>2 DEF Clean, n, m
  <1>3. ASSUME Clean(s), Clean(t), NEW k \in 1..Len(u)
        PROVE  ~u[k].fails
    <2>1. CASE k \in 1..n
      BY <1>1, <1>3, <2>1 DEF Clean, n
    <2>2. CASE k \notin 1..n
      <3>1. k - n \in 1..m /\ k = n + (k - n)
        BY <1>1, <2>2
      <3>2. u[k] = t[k - n]
        BY <1>1, <3>1
      <3> QED
        BY <1>3, <3>1, <3>2 DEF Clean, m
    <2> QED
      BY <2>1, <2>2
  <1> QED
    BY <1>1, <1>2, <1>3 DEF Clean, u

\* What the tests say of a profile with its signature, and of what runs.
NoDigests(hashes) == hashes = << >> \/ \E m \in DOMAIN hashes : ~Binding!IsDigest(hashes[m])
Unfounded(p) == ~Binding!IsDigest(p.dataset) \/ ~Binding!IsDigest(p.scorer) \/ ~Binding!IsDigest(p.config)
Unapproved(p) == Binding!Blank \in {p.version, p.approver, p.key} \/ p.provenance # "complete"
Forged(p, verifier) ==
    /\ p.signature.is = "signed"
    /\ \/ p.key \notin verifier.keys \/ p.signature.by # p.key
       \/ Binding!Canonical(p.signature.of) # Binding!Canonical(p)

LEMMA ReleaseRow ==
    ASSUME NEW p
    PROVE  /\ Binding!ReleaseTests(p) \in Seq(Tests)
           /\ Clean(Binding!ReleaseTests(p)) <=>
                /\ ~(p.schema # "1")
                /\ ~(p.thresholds = {})
                /\ ~NoDigests(p.hashes)
                /\ ~Unfounded(p)
                /\ ~Unapproved(p)
                /\ ~(p.signature.is = "none")
  <1> DEFINE a == Binding!Test(p.schema # "1", "PROVENANCE_INCOMPLETE")
             b == Binding!Test(p.thresholds = {}, "THRESHOLDS_EMPTY")
             c == Binding!Test(NoDigests(p.hashes), "PROVENANCE_INCOMPLETE")
             d == Binding!Test(Unfounded(p), "PROVENANCE_INCOMPLETE")
             e == Binding!Test(Unapproved(p), "PROVENANCE_INCOMPLETE")
             f == Binding!Test(p.signature.is = "none", "SIGNATURE_INVALID")
  <1>1. a \in Tests /\ (a.fails <=> (p.schema # "1"))
    BY DEF Binding!Test, Tests, Codes
  <1>2. b \in Tests /\ (b.fails <=> (p.thresholds = {}))
    BY DEF Binding!Test, Tests, Codes
  <1>3. c \in Tests /\ (c.fails <=> NoDigests(p.hashes))
    BY DEF Binding!Test, Tests, Codes, NoDigests
  <1>4. d \in Tests /\ (d.fails <=> Unfounded(p))
    BY DEF Binding!Test, Tests, Codes, Unfounded
  <1>5. e \in Tests /\ (e.fails <=> Unapproved(p))
    BY DEF Binding!Test, Tests, Codes, Unapproved
  <1>6. f \in Tests /\ (f.fails <=> (p.signature.is = "none"))
    BY DEF Binding!Test, Tests, Codes
  <1>7. Binding!ReleaseTests(p) = << a, b, c, d, e, f >>
    BY Zenon DEF Binding!ReleaseTests, NoDigests, Unfounded, Unapproved
  <1> HIDE DEF a, b, c, d, e, f
  <1>8. << a, b, c, d, e, f >> \in Seq(Tests) /\ Len(<< a, b, c, d, e, f >>) = 6
    BY <1>1, <1>2, <1>3, <1>4, <1>5, <1>6
  <1>9. Clean(<< a, b, c, d, e, f >>) <=> ~a.fails /\ ~b.fails /\ ~c.fails /\ ~d.fails /\ ~e.fails /\ ~f.fails
    <2> DEFINE row == << a, b, c, d, e, f >>
    <2>1. row[1] = a /\ row[2] = b /\ row[3] = c /\ row[4] = d /\ row[5] = e /\ row[6] = f
      OBVIOUS
    <2>2. Len(row) = 6
      OBVIOUS
    <2> HIDE DEF row
    <2>3. \A k \in 1..6 : k \in {1, 2, 3, 4, 5, 6}
      OBVIOUS
    <2>4. Clean(row) <=> ~a.fails /\ ~b.fails /\ ~c.fails /\ ~d.fails /\ ~e.fails /\ ~f.fails
      BY <2>1, <2>2, <2>3 DEF Clean
    <2> QED
      BY <2>4 DEF row
  <1> QED
    BY <1>1, <1>2, <1>3, <1>4, <1>5, <1>6, <1>7, <1>8, <1>9

LEMMA SignatureRow ==
    ASSUME NEW p, NEW verifier
    PROVE  /\ Binding!SignatureTests(p, verifier) \in Seq(Tests)
           /\ Clean(Binding!SignatureTests(p, verifier)) <=>
                /\ ~(p.signature.is = "garbage")
                /\ ~Forged(p, verifier)
  <1> DEFINE a == Binding!Test(p.signature.is = "garbage", "SIGNATURE_INVALID")
             b == Binding!Test(Forged(p, verifier), "SIGNATURE_INVALID")
  <1>1. a \in Tests /\ (a.fails <=> (p.signature.is = "garbage"))
    BY DEF Binding!Test, Tests, Codes
  <1>2. b \in Tests /\ (b.fails <=> Forged(p, verifier))
    BY DEF Binding!Test, Tests, Codes, Forged
  <1>3. Binding!SignatureTests(p, verifier) = << a, b >>
    BY Zenon DEF Binding!SignatureTests, Forged
  <1> HIDE DEF a, b
  <1>4. << a, b >> \in Seq(Tests) /\ Len(<< a, b >>) = 2
    BY <1>1, <1>2
  <1>5. Clean(<< a, b >>) <=> ~a.fails /\ ~b.fails
    <2> DEFINE row == << a, b >>
    <2>1. row[1] = a /\ row[2] = b
      OBVIOUS
    <2>2. Len(row) = 2
      OBVIOUS
    <2> HIDE DEF row
    <2>3. \A k \in 1..2 : k \in {1, 2}
      OBVIOUS
    <2>4. Clean(row) <=> ~a.fails /\ ~b.fails
      BY <2>1, <2>2, <2>3 DEF Clean
    <2> QED
      BY <2>4 DEF row
  <1> QED
    BY <1>1, <1>2, <1>3, <1>4, <1>5

LEMMA RuntimeRow ==
    ASSUME NEW p, NEW now
    PROVE  /\ Binding!RuntimeTests(p, now) \in Seq(Tests)
           /\ Clean(Binding!RuntimeTests(p, now)) <=>
                /\ ~NoDigests(now.hashes)
                /\ ~(Binding!LowerAll(now.hashes) # p.hashes)
                /\ ~(now.rate \notin p.rates)
                /\ ~(~Binding!IsDigest(now.config))
                /\ ~(Binding!Lower(now.config) # p.config)
                /\ ~(now.id \notin {Binding!Blank, p.id})
  <1> DEFINE a == Binding!Test(NoDigests(now.hashes), "UNBOUND")
             b == Binding!Test(Binding!LowerAll(now.hashes) # p.hashes, "MODEL_HASH_MISMATCH")
             c == Binding!Test(now.rate \notin p.rates, "SOURCE_RATE_MISMATCH")
             d == Binding!Test(~Binding!IsDigest(now.config), "UNBOUND")
             e == Binding!Test(Binding!Lower(now.config) # p.config, "CONFIG_HASH_MISMATCH")
             f == Binding!Test(now.id \notin {Binding!Blank, p.id}, "PROFILE_MISMATCH")
  <1>1. a \in Tests /\ (a.fails <=> NoDigests(now.hashes))
    BY DEF Binding!Test, Tests, Codes, NoDigests
  <1>2. b \in Tests /\ (b.fails <=> (Binding!LowerAll(now.hashes) # p.hashes))
    BY DEF Binding!Test, Tests, Codes
  <1>3. c \in Tests /\ (c.fails <=> (now.rate \notin p.rates))
    BY DEF Binding!Test, Tests, Codes
  <1>4. d \in Tests /\ (d.fails <=> (~Binding!IsDigest(now.config)))
    BY DEF Binding!Test, Tests, Codes
  <1>5. e \in Tests /\ (e.fails <=> (Binding!Lower(now.config) # p.config))
    BY DEF Binding!Test, Tests, Codes
  <1>6. f \in Tests /\ (f.fails <=> (now.id \notin {Binding!Blank, p.id}))
    BY DEF Binding!Test, Tests, Codes
  <1>7. Binding!RuntimeTests(p, now) = << a, b, c, d, e, f >>
    BY Zenon DEF Binding!RuntimeTests, NoDigests
  <1> HIDE DEF a, b, c, d, e, f
  <1>8. << a, b, c, d, e, f >> \in Seq(Tests) /\ Len(<< a, b, c, d, e, f >>) = 6
    BY <1>1, <1>2, <1>3, <1>4, <1>5, <1>6
  <1>9. Clean(<< a, b, c, d, e, f >>) <=> ~a.fails /\ ~b.fails /\ ~c.fails /\ ~d.fails /\ ~e.fails /\ ~f.fails
    <2> DEFINE row == << a, b, c, d, e, f >>
    <2>1. row[1] = a /\ row[2] = b /\ row[3] = c /\ row[4] = d /\ row[5] = e /\ row[6] = f
      OBVIOUS
    <2>2. Len(row) = 6
      OBVIOUS
    <2> HIDE DEF row
    <2>3. \A k \in 1..6 : k \in {1, 2, 3, 4, 5, 6}
      OBVIOUS
    <2>4. Clean(row) <=> ~a.fails /\ ~b.fails /\ ~c.fails /\ ~d.fails /\ ~e.fails /\ ~f.fails
      BY <2>1, <2>2, <2>3 DEF Clean
    <2> QED
      BY <2>4 DEF row
  <1> QED
    BY <1>1, <1>2, <1>3, <1>4, <1>5, <1>6, <1>7, <1>8, <1>9

LEMMA TestsPass ==
    ASSUME NEW p, NEW verifier, NEW now
    PROVE  Binding!FirstFailure(Binding!ReleaseTests(p) \o Binding!SignatureTests(p, verifier)
                                  \o Binding!RuntimeTests(p, now)) = Binding!Blank
             <=> /\ Clean(Binding!ReleaseTests(p)) /\ Clean(Binding!SignatureTests(p, verifier))
                 /\ Clean(Binding!RuntimeTests(p, now))
  <1> DEFINE r == Binding!ReleaseTests(p)
             s == Binding!SignatureTests(p, verifier)
             t == Binding!RuntimeTests(p, now)
  <1>1. r \in Seq(Tests) /\ s \in Seq(Tests) /\ t \in Seq(Tests)
    BY ReleaseRow, SignatureRow, RuntimeRow
  <1> HIDE DEF r, s, t
  <1>2. r \o s \in Seq(Tests) /\ (Clean(r \o s) <=> Clean(r) /\ Clean(s))
    BY <1>1, Rows
  <1>3. r \o s \o t \in Seq(Tests) /\ (Clean(r \o s \o t) <=> Clean(r \o s) /\ Clean(t))
    BY <1>1, <1>2, Rows
  <1> QED
    BY <1>2, <1>3, NoFailure DEF r, s, t

\* Hashes of a document that are digests, and that agree with those of what runs.
LEMMA HashesAre ==
    ASSUME NEW f, Whole(f)
    PROVE  /\ NoDigests(f) <=> DOMAIN f = {} \/ \E m \in DOMAIN f : f[m] \notin {"a", "A", "b", "B"}
           /\ NoDigests(Binding!LowerAll(f)) <=> NoDigests(f)
  <1>1. \A m \in DOMAIN f : /\ Binding!IsDigest(f[m]) <=> f[m] \in {"a", "A", "b", "B"}
                            /\ Binding!IsDigest(Binding!Lower(f[m])) <=> f[m] \in {"a", "A", "b", "B"}
    BY DigestIs
  <1>2. NoDigests(f) <=> DOMAIN f = {} \/ \E m \in DOMAIN f : f[m] \notin {"a", "A", "b", "B"}
    BY <1>1, Nobody DEF NoDigests
  <1>3. /\ Whole(Binding!LowerAll(f)) /\ DOMAIN Binding!LowerAll(f) = DOMAIN f
        /\ \A m \in DOMAIN f : Binding!LowerAll(f)[m] = Binding!Lower(f[m])
    BY LowerAllIs
  <1>4. NoDigests(Binding!LowerAll(f)) <=> DOMAIN f = {} \/ \E m \in DOMAIN f : f[m] \notin {"a", "A", "b", "B"}
    <2>1. Binding!LowerAll(f) = << >> <=> DOMAIN f = {}
      BY <1>3, Nobody
    <2> QED
      BY <1>1, <1>3, <2>1 DEF NoDigests
  <1> QED
    BY <1>2, <1>4

LEMMA SignedContent ==
    ASSUME NEW doc, Document(doc), doc.signature.is = "signed"
    PROVE  Binding!Canonical(Binding!Normal(doc).signature.of) = Binding!Canonical(Binding!Normal(doc)) <=>
             \A field \in DOMAIN doc \ {"signature"} : doc.signature.of[field] = Binding!Normal(doc)[field]
  <1> DEFINE p == Binding!Normal(doc)
             was == doc.signature.of
  <1>1. /\ DOMAIN was = Fields /\ DOMAIN p = Fields \cup {"signature"} /\ p.signature.of = was
        /\ DOMAIN doc = Fields \cup {"signature"} /\ "signature" \notin Fields
    BY NormalIs DEF Document, Fields
  <1> HIDE DEF p, was
  <1>2. DOMAIN was \ {"signature"} = Fields /\ DOMAIN p \ {"signature"} = Fields /\ DOMAIN doc \ {"signature"} = Fields
    BY <1>1
  <1>3. Binding!Canonical(was) = [field \in Fields |-> was[field]] /\ Binding!Canonical(p) = [field \in Fields |-> p[field]]
    BY <1>2 DEF Binding!Canonical
  <1>4. Binding!Canonical(was) = Binding!Canonical(p) <=> \A field \in Fields : was[field] = p[field]
    BY <1>3
  <1> QED
    BY <1>1, <1>2, <1>4 DEF p, was

LEMMA VouchedIs ==
    ASSUME NEW doc, Document(doc), NEW verifier, VerifierOf(verifier), verifier.trust = "RELEASE",
           ~Binding!Malformed(doc)
    PROVE  LET p == Binding!Normal(doc) IN
             Clean(Binding!ReleaseTests(p)) /\ Clean(Binding!SignatureTests(p, verifier))
               <=> Binding!Vouched(doc, verifier)
  <1> DEFINE p == Binding!Normal(doc)
             four == {"a", "A", "b", "B"}
  <1>1. /\ p.hashes = Binding!LowerAll(doc.hashes) /\ p.dataset = Binding!Lower(doc.dataset)
        /\ p.scorer = Binding!Lower(doc.scorer) /\ p.config = Binding!Lower(doc.config)
        /\ p.thresholds = doc.thresholds /\ p.approver = doc.approver /\ p.version = doc.version
        /\ p.schema = doc.schema /\ p.provenance = doc.provenance /\ p.key = doc.key
        /\ p.signature = doc.signature
    BY NormalIs
  <1>2. ~NoDigests(p.hashes) <=> DOMAIN doc.hashes # {} /\ \A m \in DOMAIN doc.hashes : doc.hashes[m] \in four
    <2>1. Whole(doc.hashes)
      BY DEF Document
    <2>2. NoDigests(Binding!LowerAll(doc.hashes)) <=> NoDigests(doc.hashes)
      BY <2>1, HashesAre
    <2>3. NoDigests(doc.hashes) <=> DOMAIN doc.hashes = {} \/ \E m \in DOMAIN doc.hashes : doc.hashes[m] \notin four
      BY <2>1, HashesAre
    <2> HIDE DEF p, four
    <2>4. NoDigests(p.hashes) <=> NoDigests(doc.hashes)
      BY <1>1, <2>2
    <2> QED
      BY <2>3, <2>4
  <1>3. ~Unfounded(p) <=> doc.dataset \in four /\ doc.scorer \in four /\ doc.config \in four
    BY <1>1, DigestIs DEF Unfounded
  <1>4. ~Unapproved(p) <=>
          Binding!Blank \notin {doc.version, doc.approver, doc.key} /\ doc.provenance = "complete"
    BY <1>1 DEF Unapproved
  <1>5. doc.id # Binding!Blank /\ \A rate \in doc.rates : rate > 0
    BY DEF Binding!Malformed, Document
  <1>6. doc.signature.is \in {"none", "garbage", "signed"}
    BY DEF Document
  <1>7. CASE doc.signature.is = "signed"
    <2>1. ~Forged(p, verifier) <=>
            /\ doc.key \in verifier.keys /\ doc.signature.by = doc.key
            /\ \A field \in DOMAIN doc \ {"signature"} : doc.signature.of[field] = p[field]
      BY <1>1, <1>7, SignedContent DEF Forged
    <2>2. {doc.dataset, doc.scorer, doc.config} \cup {doc.hashes[m] : m \in DOMAIN doc.hashes} \subseteq four <=>
            /\ doc.dataset \in four /\ doc.scorer \in four /\ doc.config \in four
            /\ \A m \in DOMAIN doc.hashes : doc.hashes[m] \in four
      OBVIOUS
    <2>3. /\ Clean(Binding!ReleaseTests(p)) <=>
               /\ doc.schema = "1" /\ doc.thresholds # {} /\ ~NoDigests(p.hashes)
               /\ ~Unfounded(p) /\ ~Unapproved(p)
          /\ Clean(Binding!SignatureTests(p, verifier)) <=> ~Forged(p, verifier)
      BY <1>1, <1>7, ReleaseRow, SignatureRow
    <2> HIDE DEF p, four
    <2> QED
      BY <1>2, <1>3, <1>4, <1>5, <1>7, <2>1, <2>2, <2>3 DEF Binding!Vouched, p, four
  <1>8. CASE doc.signature.is # "signed"
    <2>1. ~Clean(Binding!ReleaseTests(p)) \/ ~Clean(Binding!SignatureTests(p, verifier))
      BY <1>1, <1>6, <1>8, ReleaseRow, SignatureRow
    <2> QED
      BY <1>8, <2>1 DEF Binding!Vouched
  <1> QED
    BY <1>7, <1>8

LEMMA AgreesIs ==
    ASSUME NEW doc, Document(doc), NEW now, RuntimeOf(now), NEW verifier, Binding!Vouched(doc, verifier)
    PROVE  /\ Clean(Binding!RuntimeTests(Binding!Normal(doc), now)) <=>
                Binding!Agrees(doc, now) /\ now.id \in {Binding!Blank, doc.id}
           /\ Binding!Agrees(doc, now) =>
                /\ Binding!Matches(Binding!Normal(doc), now.hashes)
                /\ now.rate > 0 /\ now.config # Binding!Blank /\ now.hashes # << >>
  <1> DEFINE p == Binding!Normal(doc)
             four == {"a", "A", "b", "B"}
  <1>1. /\ p.hashes = Binding!LowerAll(doc.hashes) /\ p.config = Binding!Lower(doc.config)
        /\ p.id = doc.id /\ p.rates = doc.rates
    BY NormalIs
  <1>2. /\ Whole(now.hashes) /\ Whole(doc.hashes) /\ doc.config \in four /\ DOMAIN doc.hashes # {}
        /\ \A m \in DOMAIN doc.hashes : doc.hashes[m] \in four
        /\ \A rate \in doc.rates : rate > 0
    BY DEF Document, RuntimeOf, Binding!Vouched
  <1>3. Binding!LowerAll(now.hashes) = p.hashes <=>
          /\ DOMAIN now.hashes = DOMAIN doc.hashes
          /\ \A m \in DOMAIN doc.hashes : Binding!Lower(now.hashes[m]) = Binding!Lower(doc.hashes[m])
    BY <1>1, <1>2, LowerAllIs
  <1>4. \A d, e : Binding!Lower(d) = Binding!Lower(e) /\ e \in four => Binding!IsDigest(d) /\ d \in four
    BY DigestIs DEF Binding!IsDigest
  <1>5. ASSUME Binding!LowerAll(now.hashes) = p.hashes
        PROVE  ~NoDigests(now.hashes)
    BY <1>2, <1>3, <1>4, <1>5, HashesAre
  <1>6. ASSUME Binding!Lower(now.config) = p.config
        PROVE  Binding!IsDigest(now.config) /\ now.config # Binding!Blank
    BY <1>1, <1>2, <1>4, <1>6, BlankIs
  <1>7. Clean(Binding!RuntimeTests(p, now)) <=>
          /\ Binding!LowerAll(now.hashes) = p.hashes /\ now.rate \in p.rates
          /\ Binding!Lower(now.config) = p.config /\ now.id \in {Binding!Blank, p.id}
    BY <1>5, <1>6, RuntimeRow
  <1>8. Binding!Agrees(doc, now) <=>
          /\ Binding!LowerAll(now.hashes) = p.hashes /\ now.rate \in p.rates
          /\ Binding!Lower(now.config) = p.config
    BY <1>1, <1>3 DEF Binding!Agrees
  <1>9. ASSUME Binding!Agrees(doc, now)
        PROVE  /\ Binding!Matches(p, now.hashes)
               /\ now.rate > 0 /\ now.config # Binding!Blank /\ now.hashes # << >>
    <2>1. /\ DOMAIN p.hashes = DOMAIN doc.hashes
          /\ \A m \in DOMAIN doc.hashes : p.hashes[m] = Binding!Lower(doc.hashes[m])
      BY <1>1, <1>2, LowerAllIs
    <2>2. /\ DOMAIN now.hashes = DOMAIN doc.hashes /\ now.rate \in doc.rates
          /\ \A m \in DOMAIN doc.hashes : Binding!Lower(now.hashes[m]) = Binding!Lower(doc.hashes[m])
      BY <1>9 DEF Binding!Agrees
    <2>3. Binding!Matches(p, now.hashes)
      BY <2>1, <2>2 DEF Binding!Matches
    <2>4. now.hashes # << >>
      BY <1>2, <2>2, Nobody
    <2>5. now.config # Binding!Blank
      BY <1>6, <1>8, <1>9
    <2> QED
      BY <1>2, <2>2, <2>3, <2>4, <2>5
  <1> QED
    BY <1>1, <1>7, <1>8, <1>9

\* What may be told of a profile before its tests.
LEMMA ToldNothing ==
    ASSUME NEW p, NEW now
    PROVE  {t.code : t \in {x \in {Binding!Test(now.id \notin {Binding!Blank, p.id}, "PROFILE_MISMATCH"),
                                   Binding!Test(now.rate \notin p.rates, "SOURCE_RATE_MISMATCH"),
                                   Binding!Test(~Binding!Matches(p, now.hashes), "MODEL_HASH_MISMATCH")} : x.fails}} = {}
             <=> now.id \in {Binding!Blank, p.id} /\ now.rate \in p.rates /\ Binding!Matches(p, now.hashes)
  <1> DEFINE a == Binding!Test(now.id \notin {Binding!Blank, p.id}, "PROFILE_MISMATCH")
             b == Binding!Test(now.rate \notin p.rates, "SOURCE_RATE_MISMATCH")
             c == Binding!Test(~Binding!Matches(p, now.hashes), "MODEL_HASH_MISMATCH")
  <1>1. a.fails <=> now.id \notin {Binding!Blank, p.id}
    BY DEF Binding!Test
  <1>2. b.fails <=> now.rate \notin p.rates
    BY DEF Binding!Test
  <1>3. c.fails <=> ~Binding!Matches(p, now.hashes)
    BY DEF Binding!Test, Binding!Matches
  <1> HIDE DEF a, b, c
  <1>4. {t.code : t \in {x \in {a, b, c} : x.fails}} = {} <=> ~a.fails /\ ~b.fails /\ ~c.fails
    OBVIOUS
  <1> QED
    BY <1>1, <1>2, <1>3, <1>4 DEF a, b, c

LEMMA NoMismatch ==
    ASSUME NEW binding, NEW seen
    PROVE  Binding!Mismatches(binding, seen) = {} <=>
             /\ seen.id # Binding!Blank /\ seen.hashes # << >> /\ seen.rate # 0 /\ seen.config # Binding!Blank
             /\ seen.id = binding.id /\ Binding!LowerAll(seen.hashes) = binding.hashes
             /\ seen.rate = binding.rate /\ Binding!Lower(seen.config) = binding.config
  <1> DEFINE unsaid == seen.id = Binding!Blank \/ seen.hashes = << >> \/ seen.rate = 0 \/ seen.config = Binding!Blank
             other == seen.id \notin {Binding!Blank, binding.id}
             hashed == seen.hashes # << >> /\ Binding!LowerAll(seen.hashes) # binding.hashes
             rated == seen.rate \notin {0, binding.rate}
             set == seen.config # Binding!Blank /\ Binding!Lower(seen.config) # binding.config
             a == Binding!Test(unsaid, "UNBOUND")
             b == Binding!Test(other, "PROFILE_MISMATCH")
             c == Binding!Test(hashed, "MODEL_HASH_MISMATCH")
             d == Binding!Test(rated, "SOURCE_RATE_MISMATCH")
             e == Binding!Test(set, "CONFIG_HASH_MISMATCH")
  <1>1. a.fails <=> unsaid
    BY DEF Binding!Test
  <1>2. b.fails <=> other
    BY DEF Binding!Test
  <1>3. c.fails <=> hashed
    BY DEF Binding!Test
  <1>4. d.fails <=> rated
    BY DEF Binding!Test
  <1>5. e.fails <=> set
    BY DEF Binding!Test
  <1>6. Binding!Mismatches(binding, seen) = {t.code : t \in {x \in {a, b, c, d, e} : x.fails}}
    BY Zenon DEF Binding!Mismatches
  <1> HIDE DEF a, b, c, d, e
  <1>7. {t.code : t \in {x \in {a, b, c, d, e} : x.fails}} = {} <=>
          ~a.fails /\ ~b.fails /\ ~c.fails /\ ~d.fails /\ ~e.fails
    OBVIOUS
  <1>8. ~unsaid /\ ~other /\ ~hashed /\ ~rated /\ ~set <=>
          /\ seen.id # Binding!Blank /\ seen.hashes # << >> /\ seen.rate # 0 /\ seen.config # Binding!Blank
          /\ seen.id = binding.id /\ Binding!LowerAll(seen.hashes) = binding.hashes
          /\ seen.rate = binding.rate /\ Binding!Lower(seen.config) = binding.config
    OBVIOUS
  <1> HIDE DEF unsaid, other, hashed, rated, set
  <1> QED
    BY <1>1, <1>2, <1>3, <1>4, <1>5, <1>6, <1>7, <1>8

Told(p, now) ==
    {t.code : t \in {x \in {Binding!Test(now.id \notin {Binding!Blank, p.id}, "PROFILE_MISMATCH"),
                            Binding!Test(now.rate \notin p.rates, "SOURCE_RATE_MISMATCH"),
                            Binding!Test(~Binding!Matches(p, now.hashes), "MODEL_HASH_MISMATCH")} : x.fails}}
AllTests(p, verifier, now) ==
    Binding!ReleaseTests(p) \o Binding!SignatureTests(p, verifier) \o Binding!RuntimeTests(p, now)

LEMMA BindIs ==
    ASSUME NEW doc, NEW verifier, NEW now
    PROVE  LET p == Binding!Normal(doc)
               binding == Binding!Bind(doc, verifier, now)
           IN  /\ binding.is = "verified" <=>
                    /\ ~Binding!Malformed(doc) /\ Told(p, now) = {} /\ verifier.trust # "NONE"
                    /\ Binding!FirstFailure(AllTests(p, verifier, now)) = Binding!Blank
               /\ binding.is = "verified" =>
                    /\ binding.id = p.id /\ binding.hashes = Binding!LowerAll(now.hashes)
                    /\ binding.rate = now.rate /\ binding.config = Binding!Lower(now.config)
                    /\ binding.trust = verifier.trust
               /\ binding.is # "verified" => \A seen : Binding!GateReasons(binding, seen) # {}
               /\ ~Binding!Malformed(doc) /\ Told(p, now) = {} /\ verifier.trust = "NONE" =>
                    binding.is = "legacy"
  <1> DEFINE p == Binding!Normal(doc)
             binding == Binding!Bind(doc, verifier, now)
             code == Binding!FirstFailure(AllTests(p, verifier, now))
             told == Told(p, now)
  <1>1. binding = IF Binding!Malformed(doc) THEN Binding!Refusal("INVALID")
                  ELSE IF told # {} \/ verifier.trust = "NONE" THEN Binding!Legacy(told)
                  ELSE Binding!Verify(p, verifier, now)
    BY Zenon DEF Binding!Bind, Told
  <1>2. Binding!Verify(p, verifier, now) =
          IF code # Binding!Blank THEN Binding!Refusal(code)
          ELSE [is |-> "verified", reasons |-> {}, id |-> p.id, hashes |-> Binding!LowerAll(now.hashes),
                rate |-> now.rate, config |-> Binding!Lower(now.config), trust |-> verifier.trust]
    BY Zenon DEF Binding!Verify, AllTests
  <1>3. ASSUME NEW c
        PROVE  /\ Binding!Refusal(c).is = "refused"
               /\ \A seen : Binding!GateReasons(Binding!Refusal(c), seen) # {}
    <2>1. Binding!Refusal(c).is = "refused" /\ Binding!Refusal(c).reasons = {c}
      BY DEF Binding!Refusal
    <2> QED
      BY <2>1 DEF Binding!GateReasons
  <1>4. /\ Binding!Legacy(told).is = (IF told = {} THEN "legacy" ELSE "refused")
        /\ \A seen : Binding!GateReasons(Binding!Legacy(told), seen) # {}
    <2> HIDE DEF told
    <2>1. /\ Binding!Legacy(told).is = (IF told = {} THEN "legacy" ELSE "refused")
          /\ Binding!Legacy(told).reasons = told
      BY DEF Binding!Legacy
    <2> QED
      BY <2>1 DEF Binding!GateReasons
  <1> HIDE DEF p, binding, code, told
  <1>5. CASE Binding!Malformed(doc)
    BY <1>1, <1>3, <1>5 DEF p, binding, code, told
  <1>6. CASE ~Binding!Malformed(doc) /\ (told # {} \/ verifier.trust = "NONE")
    BY <1>1, <1>4, <1>6 DEF p, binding, code, told
  <1>7. CASE ~Binding!Malformed(doc) /\ told = {} /\ verifier.trust # "NONE"
    <2>1. CASE code # Binding!Blank
      BY <1>1, <1>2, <1>3, <1>7, <2>1 DEF p, binding, code, told
    <2>2. CASE code = Binding!Blank
      <3>1. binding = [is |-> "verified", reasons |-> {}, id |-> p.id, hashes |-> Binding!LowerAll(now.hashes),
                       rate |-> now.rate, config |-> Binding!Lower(now.config), trust |-> verifier.trust]
        BY <1>1, <1>2, <1>7, <2>2
      <3>2. /\ binding.is = "verified" /\ binding.id = p.id /\ binding.hashes = Binding!LowerAll(now.hashes)
            /\ binding.rate = now.rate /\ binding.config = Binding!Lower(now.config)
            /\ binding.trust = verifier.trust
        BY <3>1
      <3> QED
        BY <1>7, <2>2, <3>2 DEF p, binding, code, told
    <2> QED
      BY <2>1, <2>2
  <1> QED
    BY <1>5, <1>6, <1>7

\* The authority of a calibration comes from nothing but a profile that a release key has
\* signed, whole, for the models, the rate and the configuration that run, and that the
\* diagnostics of the run report: whatever the document, the verifier, the runtime and the
\* diagnostics say (bind_calibration_profile, CalibrationProfileVerifier.verify,
\* mismatch_reason_codes, _calibration_reason_codes).
THEOREM CalibrationAuthority ==
    ASSUME NEW doc, Document(doc), NEW verifier, VerifierOf(verifier),
           NEW now, RuntimeOf(now), NEW seen, RuntimeOf(seen)
    PROVE  Binding!AuthorityIsVouchedFor(doc, verifier, now, seen)
  <1> DEFINE p == Binding!Normal(doc)
             binding == Binding!Bind(doc, verifier, now)
             code == Binding!FirstFailure(AllTests(p, verifier, now))
             told == Told(p, now)
             vouched == Binding!Vouched(doc, verifier)
             reasons == Binding!GateReasons(binding, seen)
             agreed == /\ vouched /\ Binding!Agrees(doc, now) /\ now.id \in {Binding!Blank, doc.id}
                       /\ Binding!Agrees(doc, seen) /\ seen.id = doc.id /\ seen.rate = now.rate
  <1>1. p.id = doc.id /\ p.rates = doc.rates /\ p.hashes = Binding!LowerAll(doc.hashes)
        /\ p.config = Binding!Lower(doc.config)
    BY NormalIs
  <1>2. agreed => ~Binding!Malformed(doc) /\ verifier.trust = "RELEASE"
    <2>1. \A rate \in doc.rates : rate \in Int
      BY DEF Document
    <2>2. agreed => doc.rates # {} /\ (\A rate \in doc.rates : rate > 0) /\ doc.id # Binding!Blank
      BY DEF Binding!Vouched, Binding!Agrees
    <2>3. agreed => verifier.trust = "RELEASE"
      BY DEF Binding!Vouched
    <2> HIDE DEF agreed
    <2> QED
      BY <2>1, <2>2, <2>3 DEF Binding!Malformed
  <1>3. code = Binding!Blank <=>
          /\ Clean(Binding!ReleaseTests(p)) /\ Clean(Binding!SignatureTests(p, verifier))
          /\ Clean(Binding!RuntimeTests(p, now))
    BY TestsPass DEF AllTests
  <1>4. told = {} <=>
          now.id \in {Binding!Blank, p.id} /\ now.rate \in p.rates /\ Binding!Matches(p, now.hashes)
    BY ToldNothing, Zenon DEF Told
  <1>5. /\ binding.is = "verified" <=>
             ~Binding!Malformed(doc) /\ told = {} /\ verifier.trust # "NONE" /\ code = Binding!Blank
        /\ binding.is = "verified" =>
             /\ binding.id = p.id /\ binding.hashes = Binding!LowerAll(now.hashes)
             /\ binding.rate = now.rate /\ binding.config = Binding!Lower(now.config)
             /\ binding.trust = verifier.trust
        /\ binding.is # "verified" => reasons # {}
    BY BindIs
  <1>6. ASSUME binding.is = "verified", verifier.trust = "RELEASE"
        PROVE  /\ vouched /\ Binding!Agrees(doc, now) /\ now.id \in {Binding!Blank, doc.id}
               /\ reasons = Binding!Mismatches(binding, seen)
    <2>1. vouched
      BY <1>3, <1>5, <1>6, VouchedIs
    <2>2. Binding!Agrees(doc, now) /\ now.id \in {Binding!Blank, doc.id}
      BY <1>3, <1>5, <1>6, <2>1, AgreesIs
    <2>3. reasons = Binding!Mismatches(binding, seen)
      <3> HIDE DEF binding
      <3> QED
        BY <1>5, <1>6 DEF Binding!GateReasons
    <2> QED
      BY <2>1, <2>2, <2>3
  <1>7. ASSUME reasons = {}
        PROVE  binding.is = "verified" /\ verifier.trust = "RELEASE"
    <2>1. binding.is = "verified" /\ binding.trust = verifier.trust
      BY <1>5, <1>7
    <2> HIDE DEF binding
    <2>2. binding.trust = "RELEASE"
      BY <1>7, <2>1 DEF Binding!GateReasons
    <2> QED
      BY <2>1, <2>2
  <1>8. ASSUME reasons = {}
        PROVE  agreed
    <2>1. /\ vouched /\ Binding!Agrees(doc, now) /\ now.id \in {Binding!Blank, doc.id}
          /\ Binding!Mismatches(binding, seen) = {}
      BY <1>6, <1>7, <1>8
    <2>2. /\ seen.id = p.id /\ Binding!LowerAll(seen.hashes) = Binding!LowerAll(now.hashes)
          /\ seen.rate = now.rate /\ Binding!Lower(seen.config) = Binding!Lower(now.config)
      BY <1>5, <1>7, <1>8, <2>1, NoMismatch
    <2>3. Binding!Agrees(doc, seen)
      <3>1. /\ DOMAIN seen.hashes = DOMAIN now.hashes
            /\ \A m \in DOMAIN seen.hashes : Binding!Lower(seen.hashes[m]) = Binding!Lower(now.hashes[m])
        BY <2>2, LowerAllIs DEF RuntimeOf
      <3> QED
        BY <2>1, <2>2, <3>1 DEF Binding!Agrees
    <2> QED
      BY <1>1, <2>1, <2>2, <2>3
  <1>9. ASSUME agreed
        PROVE  reasons = {}
    <2>1. /\ Clean(Binding!RuntimeTests(p, now)) /\ Binding!Matches(p, now.hashes) /\ now.rate > 0
      BY <1>9, AgreesIs
    <2>2. /\ seen.rate > 0 /\ seen.config # Binding!Blank /\ seen.hashes # << >>
      BY <1>9, AgreesIs
    <2>3. Clean(Binding!ReleaseTests(p)) /\ Clean(Binding!SignatureTests(p, verifier))
      BY <1>2, <1>9, VouchedIs
    <2>4. now.rate \in p.rates /\ now.id \in {Binding!Blank, p.id}
      BY <1>1, <1>9 DEF Binding!Agrees
    <2>5. binding.is = "verified" /\ verifier.trust = "RELEASE"
      BY <1>2, <1>3, <1>4, <1>5, <1>9, <2>1, <2>3, <2>4
    <2>6. seen.id = p.id /\ p.id # Binding!Blank /\ seen.rate # 0 /\ seen.rate = now.rate
      BY <1>1, <1>9, <2>2 DEF Binding!Vouched
    <2>7. Binding!LowerAll(seen.hashes) = Binding!LowerAll(now.hashes) /\ Binding!Lower(seen.config) = Binding!Lower(now.config)
      BY <1>9, LowerAllIs DEF Binding!Agrees, RuntimeOf
    <2>8. Binding!Mismatches(binding, seen) = {}
      BY <1>5, <2>2, <2>5, <2>6, <2>7, NoMismatch
    <2> QED
      BY <1>6, <2>5, <2>8
  <1>10. ASSUME binding.is = "verified"
         PROVE  Binding!Bind(doc, [verifier EXCEPT !.trust = "NONE"], now).is = "legacy"
    <2> DEFINE none == [verifier EXCEPT !.trust = "NONE"]
    <2>1. none.trust = "NONE"
      BY DEF VerifierOf
    <2> HIDE DEF none
    <2>2. ~Binding!Malformed(doc) /\ Told(p, now) = {}
      BY <1>5, <1>10
    <2>3. Binding!Bind(doc, none, now).is = "legacy"
      BY <2>1, <2>2, BindIs
    <2> QED
      BY <2>3 DEF none
  <1> QED
    BY <1>8, <1>9, <1>10 DEF Binding!AuthorityIsVouchedFor

-----------------------------------------------------------------------------
(* What a release is accepted for (release.py) *)

Delivery == INSTANCE Release

\* Files of a target.
Files(files) == Whole(files) /\ \A p \in DOMAIN files : files[p].link \in BOOLEAN

Named(p) == p[2] # Delivery!Local[2]
Listed(entries) == {e.path : e \in entries}

\* Every entry is a file with the content it says, and every file but those of one name is
\* an entry.
Fits(entries, files) ==
    /\ \A e \in entries : /\ Delivery!Safe(e.path) /\ e.path \in DOMAIN files /\ ~files[e.path].link
                          /\ Delivery!Digest(files[e.path]) = e.sum
    /\ \A p \in DOMAIN files : ~files[p].link /\ (Named(p) => p \in Listed(entries))

LEMMA EntriesFit ==
    ASSUME NEW entries, NEW files, Files(files)
    PROVE  Delivery!EntryIssues(entries, files) = {} /\ Delivery!InventoryIssues(entries, files) = {}
             <=> Fits(entries, files)
  <1> DEFINE issues(e) ==
               CASE ~Delivery!Safe(e.path) -> {"MANIFEST_PATH_TRAVERSAL"}
                 [] Delivery!Safe(e.path) /\ e.path \notin DOMAIN files -> {"MANIFEST_ARTIFACT_MISSING"}
                 [] Delivery!Safe(e.path) /\ e.path \in DOMAIN files ->
                      IF files[e.path].link THEN {"RELEASE_SYMLINK_PROHIBITED"}
                      ELSE IF Delivery!Digest(files[e.path]) # e.sum THEN {"HASH_MISMATCH"} ELSE {}
             fine(e) == /\ Delivery!Safe(e.path) /\ e.path \in DOMAIN files /\ ~files[e.path].link
                        /\ Delivery!Digest(files[e.path]) = e.sum
  <1>1. Delivery!EntryIssues(entries, files) = UNION {issues(e) : e \in entries}
    BY Zenon DEF Delivery!EntryIssues
  <1>2. \A e : issues(e) = {} <=> fine(e)
    BY DEF Delivery!Safe
  <1> HIDE DEF issues, fine
  <1>3. UNION {issues(e) : e \in entries} = {} <=> \A e \in entries : issues(e) = {}
    OBVIOUS
  <1>4. Delivery!InventoryIssues(entries, files) = {} <=>
          \A p \in DOMAIN files : ~files[p].link /\ (Named(p) => p \in Listed(entries))
    BY DEF Delivery!InventoryIssues, Named, Listed
  <1> QED
    BY <1>1, <1>2, <1>3, <1>4 DEF Fits, fine

\* What makes a delivery accepted.
LEMMA AcceptedIs ==
    ASSUME NEW catalog, NEW files, Files(files), NEW mode
    PROVE  LET entries == Delivery!Entries(catalog, files) IN
           Delivery!Accepted(catalog, files, mode) <=>
             /\ Delivery!CatalogIssues(catalog, files, mode) = {} /\ Delivery!LayoutIssues(files) = {}
             /\ entries # {} /\ Fits(entries, files)
             /\ mode = "production" /\ catalog.is = "catalog" =>
                  Delivery!ProductionIssues(catalog.section, files, entries) = {}
  <1> DEFINE entries == Delivery!Entries(catalog, files)
             a == Delivery!CatalogIssues(catalog, files, mode)
             b == Delivery!LayoutIssues(files)
             c == Delivery!EntryIssues(entries, files)
             d == Delivery!InventoryIssues(entries, files)
             e == Delivery!ProductionIssues(catalog.section, files, entries)
  <1>1. Delivery!Validate(catalog, files, mode) =
          a \cup b \cup (IF entries = {} THEN {"MANIFEST_TARGET_MISSING"} ELSE {}) \cup c \cup d
            \cup (IF mode = "production" /\ catalog.is = "catalog" THEN e ELSE {})
    BY Zenon DEF Delivery!Validate
  <1>2. c = {} /\ d = {} <=> Fits(entries, files)
    BY EntriesFit
  <1> HIDE DEF a, b, c, d, e, entries
  <1>3. Delivery!Accepted(catalog, files, mode) <=>
          /\ a = {} /\ b = {} /\ entries # {} /\ c = {} /\ d = {}
          /\ mode = "production" /\ catalog.is = "catalog" => e = {}
    BY <1>1 DEF Delivery!Accepted
  <1> QED
    BY <1>2, <1>3 DEF a, b, e, entries

\* Two deliveries of a target share the manifest that lies at the top.
SameManifest(files, other) ==
    /\ Delivery!Local \in DOMAIN files <=> Delivery!Local \in DOMAIN other
    /\ Delivery!Local \in DOMAIN files => files[Delivery!Local] = other[Delivery!Local]

LEMMA SameEntries ==
    ASSUME NEW catalog, NEW files, NEW other, SameManifest(files, other)
    PROVE  Delivery!Entries(catalog, files) = Delivery!Entries(catalog, other)
  BY DEF Delivery!Entries, SameManifest

\* A catalogue, or a target's manifest where the catalogue lists nothing, leaves one
\* delivery to accept: whatever was taken away, laid beside, replaced or made a link, in
\* any number of places, is seen, whichever mode is asked for.  Only files that are called
\* like the target's manifest are free (validate_release_layout, _inventory_issues).
THEOREM DeliveryIsFixed ==
    ASSUME NEW catalog, NEW files, Files(files), NEW other, Files(other), NEW mode, NEW later,
           Delivery!Accepted(catalog, files, mode), Delivery!Accepted(catalog, other, later),
           SameManifest(files, other)
    PROVE  \A p : Named(p) =>
             /\ p \in DOMAIN files <=> p \in DOMAIN other
             /\ p \in DOMAIN files =>
                  /\ Delivery!Digest(files[p]) = Delivery!Digest(other[p])
                  /\ files[p].link = other[p].link
  <1> DEFINE entries == Delivery!Entries(catalog, files)
  <1>1. Fits(entries, files) /\ Fits(entries, other)
    BY AcceptedIs, SameEntries
  <1> HIDE DEF entries
  <1> SUFFICES ASSUME NEW p, Named(p)
               PROVE  /\ p \in DOMAIN files <=> p \in DOMAIN other
                      /\ p \in DOMAIN files =>
                           /\ Delivery!Digest(files[p]) = Delivery!Digest(other[p])
                           /\ files[p].link = other[p].link
    OBVIOUS
  <1>2. p \in DOMAIN files <=> p \in Listed(entries)
    BY <1>1 DEF Fits, Listed
  <1>3. p \in DOMAIN other <=> p \in Listed(entries)
    BY <1>1 DEF Fits, Listed
  <1>4. ASSUME p \in DOMAIN files
        PROVE  Delivery!Digest(files[p]) = Delivery!Digest(other[p]) /\ files[p].link = other[p].link
    <2>1. PICK e \in entries : p = e.path
      BY <1>2, <1>4 DEF Listed
    <2>2. Delivery!Digest(files[p]) = e.sum /\ Delivery!Digest(other[p]) = e.sum
      BY <1>1, <2>1 DEF Fits
    <2>3. ~files[p].link /\ ~other[p].link
      BY <1>1, <1>3, <1>2, <1>4 DEF Fits
    <2>4. files[p].link \in BOOLEAN /\ other[p].link \in BOOLEAN
      BY <1>2, <1>3, <1>4 DEF Files
    <2> QED
      BY <2>2, <2>3, <2>4
  <1> QED
    BY <1>2, <1>3, <1>4

\* What is changed is not what such a change makes of it.
Changeable(files) ==
    \A p \in DOMAIN files :
      /\ \E S, L : files[p] \in [link : BOOLEAN, says : S, lists : L]
      /\ "more" \notin files[p].says /\ (files[p].says # {} \/ files[p].lists # {})

\* A file of an accepted delivery that is taken away, replaced or made a link, and a file
\* laid beside them, are each seen (validate_release_layout, _inventory_issues).
THEOREM ChangesAreSeen ==
    ASSUME NEW catalog, NEW files, Files(files), Changeable(files), NEW mode, NEW places,
           \A p \in places : Named(p), Delivery!Accepted(catalog, files, mode)
    PROVE  Delivery!TamperEvident(catalog, files, mode, places)
  <1>1. ASSUME NEW p, Named(p), NEW other, Files(other),
               \A q : q # p => /\ q \in DOMAIN other <=> q \in DOMAIN files
                               /\ q \in DOMAIN files => other[q] = files[q],
               Delivery!Accepted(catalog, other, mode)
        PROVE  /\ p \in DOMAIN files <=> p \in DOMAIN other
               /\ p \in DOMAIN files =>
                    /\ Delivery!Digest(files[p]) = Delivery!Digest(other[p])
                    /\ files[p].link = other[p].link
    <2>1. p # Delivery!Local
      BY <1>1 DEF Named
    <2>2. SameManifest(files, other)
      BY <1>1, <2>1 DEF SameManifest
    <2> QED
      BY <1>1, <2>2, DeliveryIsFixed
  <1>2. ASSUME NEW p \in DOMAIN files, Named(p)
        PROVE  /\ ~Delivery!Accepted(catalog, [q \in DOMAIN files \ {p} |-> files[q]], mode)
               /\ ~Delivery!Accepted(catalog, [files EXCEPT ![p].link = TRUE], mode)
               /\ ~Delivery!Accepted(catalog, [files EXCEPT ![p].says = files[p].says \cup {"more"}], mode)
               /\ ~Delivery!Accepted(catalog, [files EXCEPT ![p].says = {}, ![p].lists = {}], mode)
    <2> DEFINE away == [q \in DOMAIN files \ {p} |-> files[q]]
               At(file) == [files EXCEPT ![p] = file]
               linked == [files[p] EXCEPT !.link = TRUE]
               more == [files[p] EXCEPT !.says = files[p].says \cup {"more"}]
               empty == [files[p] EXCEPT !.says = {}, !.lists = {}]
    <2>1. ~Delivery!Accepted(catalog, away, mode)
      <3>1. Files(away) /\ p \notin DOMAIN away
        BY DEF Files, Whole
      <3>2. \A q : q # p => /\ q \in DOMAIN away <=> q \in DOMAIN files
                            /\ q \in DOMAIN files => away[q] = files[q]
        OBVIOUS
      <3> HIDE DEF away
      <3> QED
        BY <1>1, <1>2, <3>1, <3>2
    <2>2. ASSUME NEW file, file.link \in BOOLEAN, Delivery!Accepted(catalog, At(file), mode)
          PROVE  Delivery!Digest(files[p]) = Delivery!Digest(file) /\ files[p].link = file.link
      <3>1. /\ Files(At(file)) /\ At(file)[p] = file /\ DOMAIN At(file) = DOMAIN files
            /\ \A q \in DOMAIN files : q # p => At(file)[q] = files[q]
        BY <2>2 DEF Files, Whole
      <3>2. \A q : q # p => /\ q \in DOMAIN At(file) <=> q \in DOMAIN files
                            /\ q \in DOMAIN files => At(file)[q] = files[q]
        BY <3>1
      <3> HIDE DEF At
      <3> QED
        BY <1>1, <1>2, <2>2, <3>1, <3>2
    <2>3. files[p].link = FALSE
      BY AcceptedIs DEF Fits, Files
    <2>4. PICK S, L : files[p] \in [link : BOOLEAN, says : S, lists : L]
      BY DEF Changeable
    <2>5. "more" \notin files[p].says /\ (files[p].says # {} \/ files[p].lists # {})
      BY DEF Changeable
    <2>6. linked.link = TRUE
      BY <2>4
    <2>7. more.says = files[p].says \cup {"more"} /\ more.link \in BOOLEAN
      BY <2>4
    <2>8. empty.says = {} /\ empty.lists = {} /\ empty.link \in BOOLEAN
      BY <2>4
    <2>9. /\ [files EXCEPT ![p].link = TRUE] = At(linked)
          /\ [files EXCEPT ![p].says = files[p].says \cup {"more"}] = At(more)
          /\ [files EXCEPT ![p].says = {}, ![p].lists = {}] = At(empty)
      OBVIOUS
    <2> HIDE DEF At, away, linked, more, empty
    <2>10. ~Delivery!Accepted(catalog, At(linked), mode)
      <3>1. linked.link \in BOOLEAN /\ linked.link # files[p].link
        BY <2>3, <2>6
      <3> QED
        BY <2>2, <3>1
    <2>11. ~Delivery!Accepted(catalog, At(more), mode)
      <3>1. Delivery!Digest(more) # Delivery!Digest(files[p])
        BY <2>5, <2>7 DEF Delivery!Digest
      <3> QED
        BY <2>2, <2>7, <3>1
    <2>12. ~Delivery!Accepted(catalog, At(empty), mode)
      <3>1. Delivery!Digest(empty) # Delivery!Digest(files[p])
        BY <2>5, <2>8 DEF Delivery!Digest
      <3> QED
        BY <2>2, <2>8, <3>1
    <2> QED
      BY <2>1, <2>9, <2>10, <2>11, <2>12 DEF away
  <1>3. ASSUME NEW p \in places \ DOMAIN files
        PROVE  ~Delivery!Accepted(catalog, [q \in DOMAIN files \cup {p} |->
                                              IF q = p THEN [link |-> FALSE, says |-> {"pinned"}, lists |-> {}]
                                              ELSE files[q]], mode)
    <2> DEFINE beside == [q \in DOMAIN files \cup {p} |->
                            IF q = p THEN [link |-> FALSE, says |-> {"pinned"}, lists |-> {}] ELSE files[q]]
    <2>1. Files(beside) /\ p \in DOMAIN beside
      BY <1>3 DEF Files, Whole
    <2>2. \A q : q # p => /\ q \in DOMAIN beside <=> q \in DOMAIN files
                          /\ q \in DOMAIN files => beside[q] = files[q]
      OBVIOUS
    <2> HIDE DEF beside
    <2>3. ~Delivery!Accepted(catalog, beside, mode)
      BY <1>1, <1>3, <2>1, <2>2
    <2> QED
      BY <2>3 DEF beside
  <1> QED
    BY <1>2, <1>3 DEF Delivery!TamperEvident, Named

-----------------------------------------------------------------------------
(* What production is told by *)

\* A document that is named, or where it lies by default.
NamedPaths(kind, section) ==
    IF kind \in DOMAIN section /\ Delivery!Safe(section[kind].path) THEN {section[kind].path}
    ELSE Delivery!Default[kind]

\* Evidence without an issue is one file, and says what that file says.
LEMMA EvidenceIs ==
    ASSUME NEW kind \in DOMAIN Delivery!Claims, NEW section, NEW files,
           Delivery!EvidenceIssues(kind, section, files) = {}
    PROVE  \E p \in DOMAIN files \cap NamedPaths(kind, section) :
             /\ Delivery!Claims[kind] \subseteq files[p].says
             /\ Delivery!Evidence(kind, section, files).says = files[p].says
             /\ Delivery!Evidence(kind, section, files).lists = files[p].lists
  <1> DEFINE e == Delivery!Evidence(kind, section, files)
             paths == NamedPaths(kind, section)
             missing == paths \cap DOMAIN files = {}
             p == CHOOSE q \in paths : TRUE
             said == kind \in DOMAIN section
             sums == IF said THEN section[kind].sums ELSE {}
             unsummed == {"HASH_MISSING" : k \in {x \in {kind} : sums = {} /\ (said \/ x # "sbom")}}
             mismatched == {"HASH_MISMATCH" : s \in {x \in sums : x # Delivery!Digest(files[p])}}
  <1>1. e = [issues |-> IF missing THEN {"MISSING"} ELSE IF files[p].link THEN {"RELEASE_SYMLINK_PROHIBITED"}
                        ELSE unsummed \cup mismatched \cup (IF "json" \in files[p].says THEN {} ELSE {"INVALID"}),
             says |-> IF missing \/ files[p].link THEN {}
                      ELSE IF "json" \in files[p].says THEN files[p].says ELSE {},
             lists |-> IF missing \/ files[p].link THEN {} ELSE files[p].lists]
    BY Zenon DEF Delivery!Evidence, NamedPaths
  <1>2. Delivery!EvidenceIssues(kind, section, files)
          = e.issues \cup (IF e.says = {} THEN {} ELSE Delivery!Claims[kind] \ e.says)
    BY Zenon DEF Delivery!EvidenceIssues
  <1>3. paths = {} \/ \E q : paths = {q}
    BY DEF NamedPaths, Delivery!Default, Delivery!Claims
  <1> HIDE DEF e, paths, unsummed, mismatched
  <1>4. e.issues = {}
    BY <1>2
  <1>5. ~missing
    BY <1>1, <1>4
  <1>6. p \in DOMAIN files \cap paths
    BY <1>3, <1>5
  <1> HIDE DEF missing, p
  <1>7. ~files[p].link
    BY <1>1, <1>4, <1>5
  <1>8. "json" \in files[p].says
    BY <1>1, <1>4, <1>5, <1>7
  <1>9. e.says = files[p].says /\ e.lists = files[p].lists
    BY <1>1, <1>5, <1>7, <1>8
  <1>10. Delivery!Claims[kind] \subseteq files[p].says
    BY <1>2, <1>8, <1>9
  <1> QED
    BY <1>6, <1>9, <1>10 DEF e, paths

\* An entry is a path and a sum.
Entered(entries) == \A e \in entries : e = [path |-> e.path, sum |-> e.sum]

LEMMA ListedFiles ==
    ASSUME NEW entries, Entered(entries), NEW files, Fits(entries, files)
    PROVE  \A p : [path |-> p, sum |-> Delivery!Digest(files[p])] \in entries <=> p \in Listed(entries)
  <1> SUFFICES ASSUME NEW p
               PROVE  [path |-> p, sum |-> Delivery!Digest(files[p])] \in entries <=> p \in Listed(entries)
    OBVIOUS
  <1>1. ASSUME NEW e \in entries, e.path = p
        PROVE  [path |-> p, sum |-> Delivery!Digest(files[p])] \in entries
    <2>1. Delivery!Digest(files[p]) = e.sum /\ e = [path |-> e.path, sum |-> e.sum]
      BY <1>1 DEF Fits, Entered
    <2> QED
      BY <1>1, <2>1
  <1>2. ASSUME [path |-> p, sum |-> Delivery!Digest(files[p])] \in entries
        PROVE  p \in Listed(entries)
    <2> DEFINE e == [path |-> p, sum |-> Delivery!Digest(files[p])]
    <2>1. e.path = p
      OBVIOUS
    <2> QED
      BY <1>2, <2>1 DEF Listed
  <1> QED
    BY <1>1, <1>2 DEF Listed

\* A lock that is installed from has requirements, and they are all pinned.
LEMMA LocksArePinned ==
    ASSUME NEW files, Delivery!LayoutIssues(files) = {}
    PROVE  \E p \in Delivery!LockFile(files) :
             files[p].says # {} /\ files[p].says \cap {"url", "loose", "garbled"} = {}
  <1> DEFINE locks == Delivery!LockFile(files)
             dirs == {"ARTIFACT_DIR_MISSING" :
                        dir \in {d \in {"wheels", "models", "native"} : ~\E p \in DOMAIN files : p[1] = d}}
             others == {"RELEASE_FILE_MISSING" :
                          dir \in {d \in {"sbom", "notices"} : ~\E p \in DOMAIN files : p[1] = d}}
             issues == UNION {Delivery!LockIssues(files[p].says) : p \in locks}
  <1>1. Delivery!LayoutIssues(files)
          = dirs \cup others \cup (IF locks = {} THEN {"LOCKFILE_MISSING"} ELSE issues)
    BY Zenon DEF Delivery!LayoutIssues
  <1> HIDE DEF dirs, others, locks
  <1>2. locks # {} /\ issues = {}
    BY <1>1
  <1>3. PICK p \in locks : Delivery!LockIssues(files[p].says) = {}
    BY <1>2
  <1>4. files[p].says # {} /\ files[p].says \cap {"url", "loose", "garbled"} = {}
    BY <1>3 DEF Delivery!LockIssues
  <1> QED
    BY <1>4 DEF locks

\* What a production target has no issue of.
LEMMA ProductionIs ==
    ASSUME NEW section, NEW files, NEW entries, Delivery!ProductionIssues(section, files, entries) = {}
    PROVE  /\ UNION {Delivery!EvidenceIssues(kind, section, files) : kind \in DOMAIN Delivery!Claims} = {}
           /\ Delivery!CoverageIssues(section, files, entries) = {}
  <1> DEFINE evidence == UNION {Delivery!EvidenceIssues(kind, section, files) : kind \in DOMAIN Delivery!Claims}
             coverage == Delivery!CoverageIssues(section, files, entries)
             issues == Delivery!ProductionIssues(section, files, entries)
  <1>1. section # << >>
    BY Zenon DEF Delivery!ProductionIssues
  <1>2. evidence \subseteq issues /\ coverage \subseteq issues
    <2>1. \A x : x \in evidence => x \in issues
      BY <1>1, Zenon DEF Delivery!ProductionIssues
    <2>2. \A x : x \in coverage => x \in issues
      BY <1>1, Zenon DEF Delivery!ProductionIssues
    <2> QED
      BY <2>1, <2>2
  <1> HIDE DEF evidence, coverage, issues
  <1>3. evidence = {} /\ coverage = {}
    BY <1>2 DEF issues
  <1> QED
    BY <1>3 DEF evidence, coverage

\* A catalogue has these fields, and no evidence that it names is called like a manifest.
Catalogued(catalog) ==
    catalog.is = "catalog" =>
      /\ {"is", "targets", "gate", "approved", "entries", "section"} \subseteq DOMAIN catalog
      /\ \A kind \in DOMAIN Delivery!Claims :
           kind \in DOMAIN catalog.section => Named(catalog.section[kind].path)

\* An accepted release is whole, whatever the catalogue, the target's files and the places
\* beside them: no change of one of them goes unseen, its lock pins every requirement, and
\* for production every promise is made by a file that is listed, the catalogue is signed,
\* the SBOM lists whatever is listed of wheels, models and native libraries, and with the
\* approval withdrawn it is accepted for development (validate_release_layout).
THEOREM DeliveryIsWhole ==
    ASSUME NEW catalog, Catalogued(catalog), NEW files, Files(files), Changeable(files),
           Entered(Delivery!Entries(catalog, files)), NEW mode, NEW places, \A p \in places : Named(p)
    PROVE  Delivery!AcceptedIsWhole(catalog, files, mode, places)
  <1> DEFINE entries == Delivery!Entries(catalog, files)
             listed == {p \in DOMAIN files : [path |-> p, sum |-> Delivery!Digest(files[p])] \in entries}
             says == catalog.section
             told == \A kind \in DOMAIN Delivery!Claims :
                       \E p \in listed : Delivery!Claims[kind] \subseteq files[p].says
             covered == \E p \in listed : \A q \in listed :
                          q[1] \in {"wheels", "models", "native"} => Delivery!Digest(files[q]) \in files[p].lists
             unapproved == [catalog EXCEPT !.approved = FALSE]
  <1> SUFFICES ASSUME Delivery!Accepted(catalog, files, mode)
               PROVE  /\ Delivery!TamperEvident(catalog, files, mode, places)
                      /\ \E p \in Delivery!LockFile(files) :
                           files[p].says # {} /\ files[p].says \cap {"url", "loose", "garbled"} = {}
                      /\ mode = "production" =>
                           /\ told /\ Delivery!Vouches \subseteq catalog.gate /\ covered
                           /\ Delivery!Accepted(unapproved, files, "development")
    BY Zenon DEF Delivery!AcceptedIsWhole
  <1>1. Delivery!TamperEvident(catalog, files, mode, places)
    BY ChangesAreSeen
  <1>2. /\ Delivery!CatalogIssues(catalog, files, mode) = {} /\ Delivery!LayoutIssues(files) = {}
        /\ entries # {} /\ Fits(entries, files)
        /\ mode = "production" /\ catalog.is = "catalog" =>
             Delivery!ProductionIssues(says, files, entries) = {}
    BY AcceptedIs
  <1>3. \A p : p \in listed <=> p \in Listed(entries)
    <2>1. \A p : [path |-> p, sum |-> Delivery!Digest(files[p])] \in entries <=> p \in Listed(entries)
      BY <1>2, ListedFiles
    <2>2. Listed(entries) \subseteq DOMAIN files
      BY <1>2 DEF Fits, Listed
    <2> QED
      BY <2>1, <2>2
  <1> HIDE DEF listed
  <1>4. ASSUME mode = "production"
        PROVE  /\ told /\ Delivery!Vouches \subseteq catalog.gate /\ covered
               /\ Delivery!Accepted(unapproved, files, "development")
    <2>1. catalog.is = "catalog"
      BY <1>2, <1>4 DEF Delivery!CatalogIssues
    <2>2. catalog.targets /\ Delivery!GateIssues(catalog.gate) = {}
      BY <1>2, <1>4, <2>1 DEF Delivery!CatalogIssues
    <2>3. /\ UNION {Delivery!EvidenceIssues(kind, says, files) : kind \in DOMAIN Delivery!Claims} = {}
          /\ Delivery!CoverageIssues(says, files, entries) = {}
      <3>1. Delivery!ProductionIssues(says, files, entries) = {}
        BY <1>2, <1>4, <2>1
      <3> QED
        BY <3>1, ProductionIs
    <2>4. \A kind \in DOMAIN Delivery!Claims : Delivery!EvidenceIssues(kind, says, files) = {}
      BY <2>3
    <2>5. \A kind \in DOMAIN Delivery!Claims : \A p \in NamedPaths(kind, says) : Named(p)
      BY <2>1 DEF Catalogued, NamedPaths, Named, Delivery!Default, Delivery!Claims, Delivery!Local, Delivery!Top
    <2>6. \A kind \in DOMAIN Delivery!Claims : \E p \in listed :
            /\ Delivery!Claims[kind] \subseteq files[p].says
            /\ Delivery!Evidence(kind, says, files).says = files[p].says
            /\ Delivery!Evidence(kind, says, files).lists = files[p].lists
      <3> SUFFICES ASSUME NEW kind \in DOMAIN Delivery!Claims
                   PROVE  \E p \in listed :
                            /\ Delivery!Claims[kind] \subseteq files[p].says
                            /\ Delivery!Evidence(kind, says, files).says = files[p].says
                            /\ Delivery!Evidence(kind, says, files).lists = files[p].lists
        OBVIOUS
      <3>1. PICK p \in DOMAIN files \cap NamedPaths(kind, says) :
              /\ Delivery!Claims[kind] \subseteq files[p].says
              /\ Delivery!Evidence(kind, says, files).says = files[p].says
              /\ Delivery!Evidence(kind, says, files).lists = files[p].lists
        BY <2>4, EvidenceIs
      <3>2. p \in listed
        BY <1>2, <1>3, <2>5, <3>1 DEF Fits
      <3> QED
        BY <3>1, <3>2
    <2>7. covered
      <3>1. "sbom" \in DOMAIN Delivery!Claims /\ "components" \in Delivery!Claims["sbom"]
        BY DEF Delivery!Claims
      <3>2. PICK p \in listed : /\ "components" \in Delivery!Evidence("sbom", says, files).says
                                /\ Delivery!Evidence("sbom", says, files).lists = files[p].lists
        BY <2>6, <3>1
      <3>3. \A x \in entries : x.path[1] \in {"wheels", "models", "native"} => x.sum \in files[p].lists
        BY <2>3, <3>2 DEF Delivery!CoverageIssues
      <3>4. ASSUME NEW q \in listed, q[1] \in {"wheels", "models", "native"}
            PROVE  Delivery!Digest(files[q]) \in files[p].lists
        <4> DEFINE x == [path |-> q, sum |-> Delivery!Digest(files[q])]
        <4>1. x \in entries /\ x.path = q /\ x.sum = Delivery!Digest(files[q])
          BY <3>4 DEF listed
        <4> HIDE DEF x
        <4> QED
          BY <3>3, <3>4, <4>1
      <3> QED
        BY <3>4
    <2>8. Delivery!Accepted(unapproved, files, "development")
      <3>1. /\ unapproved.is = "catalog" /\ unapproved.targets = catalog.targets /\ unapproved.approved = FALSE
            /\ unapproved.entries = catalog.entries
        BY <2>1 DEF Catalogued
      <3> HIDE DEF unapproved
      <3>2. Delivery!Entries(unapproved, files) = entries
        BY <2>1, <3>1 DEF Delivery!Entries
      <3>3. Delivery!CatalogIssues(unapproved, files, "development") = {}
        BY <2>2, <3>1 DEF Delivery!CatalogIssues
      <3> HIDE DEF entries
      <3> QED
        BY <1>2, <3>2, <3>3, AcceptedIs
    <2>9. Delivery!Vouches \subseteq catalog.gate
      BY <2>2 DEF Delivery!GateIssues
    <2> QED
      BY <2>6, <2>7, <2>8, <2>9
  <1> QED
    BY <1>1, <1>2, <1>4, LocksArePinned

-----------------------------------------------------------------------------
(* Sums (conformal_assignment_experimental.py) *)

CONSTANTS VectorScale, QualityUnits, MaxDuration, MaxWork, MaxBatch
Ranks == INSTANCE Conformal

\* Induction over the numbers up to a bound.
LEMMA Climb ==
    ASSUME NEW N \in Nat, NEW T, 0 \in T, \A m \in 1..N : m - 1 \in T => m \in T
    PROVE  0..N \subseteq T
  <1> DEFINE out == (0..N) \ T
             n == Min(out)
  <1>1. ASSUME out # {}
        PROVE  FALSE
    <2>1. n \in out /\ \A m \in out : n <= m
      BY <1>1, LeastNumber
    <2> HIDE DEF n
    <2>2. n \in 1..N /\ n - 1 \notin T
      BY <2>1
    <2> QED
      BY <2>1, <2>2
  <1> QED
    BY <1>1

\* The sums of the first numbers of a sequence.
Adds(g, s, m) == g \in [0..m -> Int] /\ g[0] = 0 /\ \A n \in 1..m : g[n] = g[n - 1] + s[n]

LEMMA SumIs ==
    ASSUME NEW s \in Seq(Int)
    PROVE  \E g : Adds(g, s, Len(s)) /\ Ranks!TotalOf(s) = g[Len(s)]
  <1> DEFINE N == Len(s)
             Fix(g) == g = [n \in 0..N |-> IF n = 0 THEN 0 ELSE g[n - 1] + s[n]]
             total == CHOOSE g : Fix(g)
  <1>1. N \in Nat /\ \A n \in 1..N : s[n] \in Int
    BY LenProperties, ElementOfSeq
  <1>2. Ranks!TotalOf(s) = total[N]
    BY Zenon DEF Ranks!TotalOf
  <1> HIDE DEF N
  <1>3. PICK g : Adds(g, s, N)
    <2> DEFINE T == {m \in 0..N : \E g : Adds(g, s, m)}
    <2>1. 0 \in T
      <3>1. Adds([n \in 0..0 |-> 0], s, 0)
        BY DEF Adds
      <3> QED
        BY <1>1, <3>1
    <2>2. ASSUME NEW m \in 1..N, m - 1 \in T
          PROVE  m \in T
      <3>1. PICK g : Adds(g, s, m - 1)
        BY <2>2
      <3> DEFINE h == [n \in 0..m |-> IF n = m THEN g[m - 1] + s[m] ELSE g[n]]
      <3>2. h \in [0..m -> Int]
        BY <1>1, <3>1 DEF Adds
      <3>3. h[0] = 0 /\ h[m] = g[m - 1] + s[m] /\ \A n \in 0..(m - 1) : h[n] = g[n]
        BY <1>1, <3>1 DEF Adds
      <3> HIDE DEF h
      <3>4. \A n \in 1..m : h[n] = h[n - 1] + s[n]
        <4> SUFFICES ASSUME NEW n \in 1..m
                     PROVE  h[n] = h[n - 1] + s[n]
          OBVIOUS
        <4>1. CASE n = m
          BY <3>3, <4>1
        <4>2. CASE n # m
          <5>1. n \in 1..(m - 1) /\ n \in 0..(m - 1) /\ n - 1 \in 0..(m - 1)
            BY <1>1, <4>2
          <5>2. g[n] = g[n - 1] + s[n]
            BY <3>1, <5>1 DEF Adds
          <5> QED
            BY <3>3, <5>1, <5>2
        <4> QED
          BY <4>1, <4>2
      <3>5. Adds(h, s, m)
        BY <3>2, <3>3, <3>4 DEF Adds
      <3> QED
        BY <3>5
    <2> HIDE DEF T
    <2>3. 0..N \subseteq T
      BY <1>1, <2>1, <2>2, Climb
    <2> QED
      BY <1>1, <2>3 DEF T
  <1>4. Fix(total)
    <2>1. Fix(g)
      BY <1>3 DEF Adds
    <2> HIDE DEF Fix
    <2> QED
      BY <2>1
  <1> HIDE DEF total
  <1>5. total[0] = 0 /\ \A n \in 1..N : total[n] = total[n - 1] + s[n]
    BY <1>1, <1>4
  <1>6. total[N] = g[N]
    <2> DEFINE T == {m \in 0..N : total[m] = g[m]}
    <2>1. 0 \in T
      BY <1>1, <1>3, <1>5 DEF Adds
    <2>2. ASSUME NEW m \in 1..N, m - 1 \in T
          PROVE  m \in T
      BY <1>3, <1>5, <2>2 DEF Adds
    <2> HIDE DEF T
    <2>3. 0..N \subseteq T
      BY <1>1, <2>1, <2>2, Climb
    <2> QED
      BY <1>1, <2>3 DEF T
  <1> QED
    BY <1>2, <1>3, <1>6 DEF N

LEMMA Regrouped ==
    ASSUME NEW a \in Int, NEW b \in Int, NEW c \in Int
    PROVE  ((a + b) + c) - b = a + c /\ (a - b) + c = (a + c) - b
  OBVIOUS

\* A sequence with element k left out.
Up(j, k) == IF j < k THEN j ELSE j + 1
LeftOut(r, s, k) == Len(r) = Len(s) - 1 /\ \A j \in 1..Len(r) : r[j] = s[Up(j, k)]

\* A number less in a sequence is as much less in its sum.
LEMMA SumWithout ==
    ASSUME NEW s \in Seq(Int), NEW k \in 1..Len(s), NEW r \in Seq(Int), LeftOut(r, s, k)
    PROVE  Ranks!TotalOf(r) = Ranks!TotalOf(s) - s[k] /\ Ranks!TotalOf(s) \in Int
  <1>1. PICK g : Adds(g, s, Len(s)) /\ Ranks!TotalOf(s) = g[Len(s)]
    BY SumIs
  <1>2. PICK h : Adds(h, r, Len(r)) /\ Ranks!TotalOf(r) = h[Len(r)]
    BY SumIs
  <1> DEFINE N == Len(r)
             T == {m \in 0..N : h[m] = IF m < k THEN g[m] ELSE g[m + 1] - s[k]}
  <1>3. N \in Nat /\ Len(s) = N + 1 /\ s[k] \in Int /\ \A n \in 1..(N + 1) : s[n] \in Int
    BY LenProperties, ElementOfSeq DEF LeftOut
  <1>4. /\ g[0] = 0 /\ h[0] = 0 /\ \A n \in 1..(N + 1) : g[n] = g[n - 1] + s[n]
        /\ \A n \in 1..N : h[n] = h[n - 1] + r[n]
        /\ \A n \in 0..(N + 1) : g[n] \in Int
        /\ \A n \in 0..N : h[n] \in Int
    BY <1>1, <1>2, <1>3 DEF Adds
  <1>5. \A j \in 1..N : r[j] = s[Up(j, k)]
    BY DEF LeftOut
  <1>6. k \in 1..(N + 1)
    BY <1>3
  <1> HIDE DEF N
  <1>7. 0 \in T
    BY <1>3, <1>4, <1>6
  <1>8. ASSUME NEW m \in 1..N, m - 1 \in T
        PROVE  m \in T
    <2>1. m \in Nat /\ 1 <= m /\ m <= N /\ k \in Nat /\ m - 1 \in 0..N /\ m \in 0..N
      BY <1>3, <1>6
    <2>2. h[m] = h[m - 1] + r[m] /\ g[m] = g[m - 1] + s[m] /\ g[m + 1] = g[m] + s[m + 1]
      <3>1. m + 1 \in 1..(N + 1) /\ (m + 1) - 1 = m
        BY <1>3, <2>1
      <3>2. g[m + 1] = g[(m + 1) - 1] + s[m + 1]
        BY <1>4, <3>1
      <3>3. g[m] = g[m - 1] + s[m]
        <4>1. m \in 1..(N + 1)
          BY <1>3, <2>1
        <4> QED
          BY <1>4, <4>1
      <3>4. h[m] = h[m - 1] + r[m]
        BY <1>4
      <3> QED
        BY <3>1, <3>2, <3>3, <3>4
    <2>3. /\ g[m - 1] \in Int /\ g[m] \in Int /\ g[m + 1] \in Int
          /\ s[m] \in Int /\ s[m + 1] \in Int /\ s[k] \in Int
      <3>1. {m - 1, m, m + 1} \subseteq 0..(N + 1) /\ {m, m + 1} \subseteq 1..(N + 1)
        BY <1>3, <2>1
      <3> QED
        BY <1>3, <1>4, <3>1
    <2>4. h[m - 1] = IF m - 1 < k THEN g[m - 1] ELSE g[(m - 1) + 1] - s[k]
      BY <1>8
    <2>5. r[m] = IF m < k THEN s[m] ELSE s[m + 1]
      BY <1>5 DEF Up
    <2>6. (m - 1) + 1 = m
      BY <2>1
    <2>7. h[m] = IF m < k THEN g[m] ELSE g[m + 1] - s[k]
      <3>1. m \in Int /\ k \in Int /\ (m = k => s[k] = s[m])
        BY <2>1
      <3>2. h[m - 1] = IF m - 1 < k THEN g[m - 1] ELSE g[m] - s[k]
        BY <2>4, <2>6
      <3> HIDE DEF T
      <3>3. CASE m < k
        <4>1. m - 1 < k
          BY <3>1, <3>3
        <4>2. h[m - 1] = g[m - 1] /\ r[m] = s[m]
          BY <2>5, <3>2, <3>3, <4>1
        <4> QED
          BY <2>2, <3>3, <4>2
      <3>4. CASE m = k
        <4>1. m - 1 < k /\ ~(m < k)
          BY <3>1, <3>4
        <4>2. h[m - 1] = g[m - 1] /\ r[m] = s[m + 1] /\ s[k] = s[m]
          BY <2>5, <3>1, <3>2, <3>4, <4>1
        <4>3. h[m] = g[m - 1] + s[m + 1] /\ g[m + 1] - s[k] = ((g[m - 1] + s[m]) + s[m + 1]) - s[m]
          BY <2>2, <4>2
        <4>4. h[m] = g[m + 1] - s[k]
          BY <2>3, <4>3, Regrouped
        <4> QED
          BY <4>1, <4>4
      <3>5. CASE m > k
        <4>1. ~(m - 1 < k) /\ ~(m < k)
          BY <3>1, <3>5
        <4>2. h[m - 1] = g[m] - s[k] /\ r[m] = s[m + 1]
          BY <2>5, <3>2, <4>1
        <4>3. h[m] = (g[m] - s[k]) + s[m + 1] /\ g[m + 1] - s[k] = (g[m] + s[m + 1]) - s[k]
          BY <2>2, <4>2
        <4>4. h[m] = g[m + 1] - s[k]
          BY <2>3, <4>3, Regrouped
        <4> QED
          BY <4>1, <4>4
      <3> QED
        BY <3>1, <3>3, <3>4, <3>5
    <2> QED
      BY <2>1, <2>7
  <1> HIDE DEF T
  <1>9. 0..N \subseteq T
    BY <1>3, <1>7, <1>8, Climb
  <1>10. h[N] = g[N + 1] - s[k]
    <2>1. N \in 0..N /\ N + 1 \in 1..(N + 1) /\ N + 1 \in 0..(N + 1) /\ (N + 1) - 1 = N
      BY <1>3
    <2>2. h[N] = IF N < k THEN g[N] ELSE g[N + 1] - s[k]
      BY <1>9, <2>1 DEF T
    <2>3. g[N + 1] = g[N] + s[N + 1] /\ g[N] \in Int /\ s[N + 1] \in Int
      BY <1>3, <1>4, <2>1
    <2>4. CASE k = N + 1
      <3>1. h[N] = g[N] /\ s[k] = s[N + 1]
        BY <1>3, <2>2, <2>4
      <3> QED
        BY <2>3, <3>1
    <2>5. CASE k # N + 1
      BY <1>3, <1>6, <2>2, <2>5
    <2> QED
      BY <2>4, <2>5
  <1> QED
    BY <1>1, <1>2, <1>3, <1>4, <1>10 DEF N

-----------------------------------------------------------------------------
(* Blocks of a speaker and what they sum up to *)

BlockSet(ids, d) == [id : ids, vector : [1..d -> Int], weight : Int]
Column(blocks, i) == [k \in DOMAIN blocks |-> blocks[k].vector[i] * blocks[k].weight]

LEMMA VectorIs ==
    ASSUME NEW S, NEW n \in Nat, NEW at \in [1..n -> S]
    PROVE  Ranks!Vector(at) = at
  <1>1. at \in Seq(S)
    BY IsASeq
  <1> QED
    BY <1>1, ConcatEmptySeq DEF Ranks!Vector

LEMMA RestIs ==
    ASSUME NEW S, NEW s \in Seq(S), NEW k \in 1..Len(s)
    PROVE  Ranks!RemoveAt(s, k) \in Seq(S) /\ LeftOut(Ranks!RemoveAt(s, k), s, k)
  <1> DEFINE n == Len(s)
             a == SubSeq(s, 1, k - 1)
             b == SubSeq(s, k + 1, n)
  <1>1. n \in Nat /\ k \in Nat /\ 1 <= k /\ k <= n /\ \A i \in 1..n : s[i] \in S
    BY LenProperties, ElementOfSeq
  <1>2. Ranks!RemoveAt(s, k) = a \o b
    BY DEF Ranks!RemoveAt
  <1>3. a \in Seq(S) /\ Len(a) = k - 1 /\ \A i \in 1..(k - 1) : a[i] = s[i]
    <2>1. \A i \in 1..(k - 1) : s[i] \in S
      BY <1>1
    <2>2. /\ SubSeq(s, 1, k - 1) \in Seq(S)
          /\ Len(SubSeq(s, 1, k - 1)) = IF 1 <= k - 1 THEN (k - 1) - 1 + 1 ELSE 0
          /\ \A i \in 1..((k - 1) - 1 + 1) : SubSeq(s, 1, k - 1)[i] = s[1 + i - 1]
      <3>1. 1 \in Int /\ k - 1 \in Int
        BY <1>1
      <3> QED
        BY <2>1, <3>1, SubSeqProperties
    <2> HIDE DEF n
    <2> QED
      BY <1>1, <2>2
  <1>4. b \in Seq(S) /\ Len(b) = n - k /\ \A i \in 1..(n - k) : b[i] = s[k + i]
    <2>1. \A i \in (k + 1)..n : s[i] \in S
      BY <1>1
    <2> HIDE DEF n
    <2>2. /\ SubSeq(s, k + 1, n) \in Seq(S)
          /\ Len(SubSeq(s, k + 1, n)) = IF k + 1 <= n THEN n - (k + 1) + 1 ELSE 0
          /\ \A i \in 1..(n - (k + 1) + 1) : SubSeq(s, k + 1, n)[i] = s[(k + 1) + i - 1]
      <3>1. k + 1 \in Int /\ n \in Int
        BY <1>1
      <3> QED
        BY <2>1, <3>1, SubSeqProperties
    <2> QED
      BY <1>1, <2>2
  <1> HIDE DEF n, a, b
  <1>5. /\ a \o b \in Seq(S) /\ Len(a \o b) = Len(a) + Len(b)
        /\ \A i \in 1..(Len(a) + Len(b)) : (a \o b)[i] = IF i <= Len(a) THEN a[i] ELSE b[i - Len(a)]
    BY <1>3, <1>4, ConcatProperties
  <1>6. ASSUME NEW j \in 1..(n - 1)
        PROVE  (a \o b)[j] = s[Up(j, k)]
    <2>1. (a \o b)[j] = IF j <= k - 1 THEN a[j] ELSE b[j - (k - 1)]
      BY <1>1, <1>3, <1>4, <1>5
    <2>2. CASE j < k
      BY <1>1, <1>3, <2>1, <2>2 DEF Up
    <2>3. CASE j >= k
      <3>1. j - (k - 1) \in 1..(n - k) /\ k + (j - (k - 1)) = j + 1 /\ ~(j <= k - 1) /\ ~(j < k)
        BY <1>1, <2>3
      <3> QED
        BY <1>4, <2>1, <3>1 DEF Up
    <2>4. j < k \/ j >= k
      BY <1>1
    <2> QED
      BY <2>2, <2>3, <2>4
  <1>7. Len(a \o b) = n - 1
    BY <1>1, <1>3, <1>4, <1>5
  <1> QED
    BY <1>2, <1>5, <1>6, <1>7 DEF LeftOut, n

LEMMA ColumnIs ==
    ASSUME NEW ids, NEW d \in Nat, NEW blocks \in Seq(BlockSet(ids, d)), NEW i \in 1..d
    PROVE  /\ Column(blocks, i) \in Seq(Int) /\ Len(Column(blocks, i)) = Len(blocks)
           /\ \A k \in 1..Len(blocks) : Column(blocks, i)[k] = blocks[k].vector[i] * blocks[k].weight
           /\ Ranks!TotalOf(Column(blocks, i)) \in Int
  <1> DEFINE n == Len(blocks)
  <1>1. n \in Nat /\ DOMAIN blocks = 1..n /\ \A k \in 1..n : blocks[k] \in BlockSet(ids, d)
    BY LenProperties, ElementOfSeq
  <1>2. \A k \in 1..n : blocks[k].vector[i] \in Int /\ blocks[k].weight \in Int
    BY <1>1 DEF BlockSet
  <1>3. \A k \in 1..n : blocks[k].vector[i] * blocks[k].weight \in Int
    BY <1>2
  <1> HIDE DEF n
  <1>4. Column(blocks, i) \in [1..n -> Int]
    BY <1>1, <1>3 DEF Column
  <1>5. Column(blocks, i) \in Seq(Int) /\ Len(Column(blocks, i)) = n
    <2>1. Column(blocks, i) \in Seq(Int)
      BY <1>1, <1>4, IsASeq
    <2>2. DOMAIN Column(blocks, i) = 1..n
      BY <1>4
    <2> QED
      BY <1>1, <2>1, <2>2, LenProperties
  <1>6. Ranks!TotalOf(Column(blocks, i)) \in Int
    <2>1. PICK g : /\ Adds(g, Column(blocks, i), n)
                   /\ Ranks!TotalOf(Column(blocks, i)) = g[n]
      BY <1>5, SumIs
    <2> QED
      BY <1>1, <2>1 DEF Adds
  <1> QED
    BY <1>1, <1>5, <1>6 DEF n, Column

LEMMA SumOfBlocksIs ==
    ASSUME NEW ids, NEW d \in Nat, NEW blocks \in Seq(BlockSet(ids, d)), Len(blocks) > 0
    PROVE  /\ Ranks!SumOfBlocks(blocks) \in [1..d -> Int]
           /\ \A i \in 1..d : Ranks!SumOfBlocks(blocks)[i] = Ranks!TotalOf(Column(blocks, i))
  <1> DEFINE sums == [i \in 1..d |-> Ranks!TotalOf(Column(blocks, i))]
  <1>1. DOMAIN blocks[1].vector = 1..d
    <2>1. blocks[1] \in BlockSet(ids, d)
      BY LenProperties, ElementOfSeq
    <2> QED
      BY <2>1 DEF BlockSet
  <1>2. sums \in [1..d -> Int]
    BY ColumnIs
  <1>3. Ranks!SumOfBlocks(blocks) = Ranks!Vector([i \in DOMAIN blocks[1].vector |-> Ranks!TotalOf(Column(blocks, i))])
    BY DEF Ranks!SumOfBlocks, Column
  <1>4. Ranks!SumOfBlocks(blocks) = Ranks!Vector(sums)
    BY <1>1, <1>3
  <1>5. Ranks!SumOfBlocks(blocks) = sums
    <2> HIDE DEF sums
    <2> QED
      BY <1>2, <1>4, VectorIs
  <1> QED
    BY <1>2, <1>5

\* A sum without a block is the sum of the others, and with it again that of all.
LEMMA LeaveAndJoin ==
    ASSUME NEW ids, NEW d \in Nat, NEW blocks \in Seq(BlockSet(ids, d)), Len(blocks) > 1,
           NEW k \in 1..Len(blocks)
    PROVE  LET all == Ranks!SumOfBlocks(blocks)
               rest == Ranks!SumOfBlocks(Ranks!RemoveAt(blocks, k))
           IN  Ranks!Leaving(all, blocks[k]) = rest /\ Ranks!Joining(rest, blocks[k]) = all
  <1> DEFINE others == Ranks!RemoveAt(blocks, k)
             all == Ranks!SumOfBlocks(blocks)
             rest == Ranks!SumOfBlocks(others)
             x(i) == blocks[k].vector[i] * blocks[k].weight
  <1>1. others \in Seq(BlockSet(ids, d)) /\ LeftOut(others, blocks, k) /\ Len(others) = Len(blocks) - 1
        /\ Len(others) > 0
    <2>1. others \in Seq(BlockSet(ids, d)) /\ LeftOut(others, blocks, k)
      BY RestIs
    <2> HIDE DEF others
    <2>2. Len(others) = Len(blocks) - 1 /\ Len(blocks) \in Nat
      BY <2>1, LenProperties DEF LeftOut
    <2> QED
      BY <2>1, <2>2
  <1> HIDE DEF others
  <1>2. /\ all \in [1..d -> Int] /\ \A i \in 1..d : all[i] = Ranks!TotalOf(Column(blocks, i))
        /\ rest \in [1..d -> Int] /\ \A i \in 1..d : rest[i] = Ranks!TotalOf(Column(others, i))
    <2>1. Len(blocks) > 0
      BY LenProperties
    <2> QED
      BY <1>1, <2>1, SumOfBlocksIs
  <1>3. \A i \in 1..d : x(i) \in Int
    <2>1. blocks[k] \in BlockSet(ids, d)
      BY LenProperties, ElementOfSeq
    <2> QED
      BY <2>1 DEF BlockSet
  <1>4. ASSUME NEW i \in 1..d
        PROVE  rest[i] = all[i] - x(i)
    <2>1. LeftOut(Column(others, i), Column(blocks, i), k)
      <3>1. /\ Len(Column(others, i)) = Len(others) /\ Len(Column(blocks, i)) = Len(blocks)
            /\ \A j \in 1..Len(others) : Column(others, i)[j] = others[j].vector[i] * others[j].weight
            /\ \A j \in 1..Len(blocks) : Column(blocks, i)[j] = blocks[j].vector[i] * blocks[j].weight
        BY <1>1, ColumnIs
      <3>2. \A j \in 1..Len(others) : others[j] = blocks[Up(j, k)] /\ Up(j, k) \in 1..Len(blocks)
        <4>1. Len(blocks) \in Nat
          BY LenProperties
        <4> QED
          BY <1>1, <4>1 DEF LeftOut, Up
      <3> QED
        BY <1>1, <3>1, <3>2 DEF LeftOut
    <2>2. /\ Column(others, i) \in Seq(Int) /\ Column(blocks, i) \in Seq(Int)
          /\ Len(Column(blocks, i)) = Len(blocks) /\ Column(blocks, i)[k] = x(i)
      BY <1>1, ColumnIs
    <2>3. Ranks!TotalOf(Column(others, i)) = Ranks!TotalOf(Column(blocks, i)) - Column(blocks, i)[k]
      BY <2>1, <2>2, SumWithout
    <2> QED
      BY <1>2, <2>2, <2>3
  <1> HIDE DEF all, rest, x
  <1>5. /\ DOMAIN all = 1..d /\ DOMAIN rest = 1..d
        /\ \A i \in 1..d : all[i] \in Int /\ rest[i] \in Int /\ rest[i] + x(i) = all[i]
    BY <1>2, <1>3, <1>4
  <1>6. [i \in 1..d |-> all[i] - x(i)] = rest /\ [i \in 1..d |-> rest[i] + x(i)] = all
    BY <1>2, <1>4, <1>5
  <1>7. Ranks!Leaving(all, blocks[k]) = rest
    <2>1. Ranks!Leaving(all, blocks[k]) = Ranks!Vector([i \in 1..d |-> all[i] - x(i)])
      BY <1>5 DEF Ranks!Leaving, x
    <2> QED
      BY <1>2, <1>6, <2>1, VectorIs
  <1>8. Ranks!Joining(rest, blocks[k]) = all
    <2>1. Ranks!Joining(rest, blocks[k]) = Ranks!Vector([i \in 1..d |-> rest[i] + x(i)])
      BY <1>5 DEF Ranks!Joining, x
    <2> QED
      BY <1>2, <1>6, <2>1, VectorIs
  <1> QED
    BY <1>7, <1>8 DEF all, rest, others

-----------------------------------------------------------------------------
(* Ranks *)

\* Fractions; the code fails closed on a bottom that is not positive (_cosine_distance_ratio).
Fraction == Int \X (Nat \ {0})

LEMMA TimesPositive ==
    ASSUME NEW a \in Int, NEW b \in Int, NEW c \in Nat \ {0}
    PROVE  a * c >= b * c <=> a >= b
  OBVIOUS

LEMMA AtLeastOrders ==
    ASSUME NEW x \in Fraction, NEW y \in Fraction, NEW z \in Fraction
    PROVE  /\ Ranks!AtLeast(x, x) /\ (Ranks!AtLeast(x, y) \/ Ranks!AtLeast(y, x))
           /\ Ranks!AtLeast(x, y) /\ Ranks!AtLeast(y, z) => Ranks!AtLeast(x, z)
  <1> DEFINE a == x[1] b == x[2] c == y[1] d == y[2] e == z[1] f == z[2]
  <1>1. a \in Int /\ c \in Int /\ e \in Int /\ b \in Nat \ {0} /\ d \in Nat \ {0} /\ f \in Nat \ {0}
    BY DEF Fraction
  <1>2. /\ Ranks!AtLeast(x, x) <=> a * b >= a * b
        /\ Ranks!AtLeast(x, y) <=> a * d >= c * b
        /\ Ranks!AtLeast(y, x) <=> c * b >= a * d
        /\ Ranks!AtLeast(y, z) <=> c * f >= e * d
        /\ Ranks!AtLeast(x, z) <=> a * f >= e * b
    BY DEF Ranks!AtLeast
  <1> HIDE DEF a, b, c, d, e, f
  <1>3. a * d \in Int /\ c * b \in Int /\ a * b \in Int /\ c * f \in Int /\ e * d \in Int
        /\ a * f \in Int /\ e * b \in Int
    BY <1>1
  <1>4. a * d >= c * b \/ c * b >= a * d
    BY <1>3
  <1>5. ASSUME a * d >= c * b, c * f >= e * d
        PROVE  a * f >= e * b
    <2>1. (a * d) * f >= (c * b) * f
      BY <1>1, <1>3, <1>5, TimesPositive
    <2>2. (c * f) * b >= (e * d) * b
      BY <1>1, <1>3, <1>5, TimesPositive
    <2>3. (a * d) * f = (a * f) * d /\ (c * b) * f = (c * f) * b /\ (e * d) * b = (e * b) * d
      BY <1>1
    <2>4. (a * f) * d >= (e * b) * d
      <3>1. (a * f) * d \in Int /\ (c * f) * b \in Int /\ (e * b) * d \in Int
        BY <1>1, <1>3
      <3> QED
        BY <2>1, <2>2, <2>3, <3>1
    <2> QED
      BY <1>1, <1>3, <2>4, TimesPositive
  <1> QED
    BY <1>2, <1>3, <1>4, <1>5

\* Those that are at least as far away as one of them.
Behind(score, n, k) == {j \in 1..n : Ranks!AtLeast(score[j], score[k])}

LEMMA BehindIsFinite ==
    ASSUME NEW n \in Nat, NEW score, NEW k
    PROVE  /\ IsFiniteSet(Behind(score, n, k)) /\ Cardinality(Behind(score, n, k)) \in Nat
           /\ Cardinality(Behind(score, n, k)) <= n
  <1>1. IsFiniteSet(1..n) /\ Cardinality(1..n) = n
    BY FS_Interval
  <1>2. Behind(score, n, k) \in SUBSET (1..n)
    BY DEF Behind
  <1> QED
    BY <1>1, <1>2, FS_Subset, FS_CardinalityType

\* Of any set of them, one has all the others behind it.
LEMMA OneIsFirst ==
    ASSUME NEW n \in Nat, NEW score \in [1..n -> Fraction], NEW away, away \subseteq 1..n, away # {}
    PROVE  \E k \in away : away \subseteq Behind(score, n, k)
  <1> DEFINE Spare(k) == n - Cardinality(Behind(score, n, k))
             T == {Spare(k) : k \in away}
  <1>1. \A k \in away : Spare(k) \in Nat
    BY BehindIsFinite
  <1>2. PICK k \in away : \A j \in away : Spare(k) <= Spare(j)
    <2>1. T \subseteq Nat /\ T # {}
      BY <1>1
    <2>2. Min(T) \in T /\ \A m \in T : Min(T) <= m
      <3> HIDE DEF T
      <3> QED
        BY <2>1, LeastNumber
    <2>3. PICK k \in away : Spare(k) = Min(T)
      BY <2>2
    <2>4. \A j \in away : Spare(j) \in T
      OBVIOUS
    <2> HIDE DEF Spare, T
    <2> QED
      BY <2>2, <2>3, <2>4
  <1>3. ASSUME NEW j \in away, ~Ranks!AtLeast(score[j], score[k])
        PROVE  FALSE
    <2> DEFINE mine == Behind(score, n, k)
               its == Behind(score, n, j)
    <2>1. score[j] \in Fraction /\ score[k] \in Fraction
      OBVIOUS
    <2>2. mine \subseteq its
      <3> SUFFICES ASSUME NEW i \in mine
                   PROVE  i \in its
        OBVIOUS
      <3>1. i \in 1..n /\ Ranks!AtLeast(score[i], score[k]) /\ score[i] \in Fraction
        BY DEF Behind
      <3>2. Ranks!AtLeast(score[k], score[j])
        BY <1>3, <2>1, AtLeastOrders
      <3>3. Ranks!AtLeast(score[i], score[j])
        BY <2>1, <3>1, <3>2, AtLeastOrders
      <3> QED
        BY <3>1, <3>3 DEF Behind
    <2>3. j \in its /\ j \notin mine
      BY <1>3, <2>1, AtLeastOrders DEF Behind
    <2>4. IsFiniteSet(its) /\ Cardinality(its) \in Nat /\ Cardinality(mine) \in Nat
      BY BehindIsFinite
    <2> HIDE DEF mine, its
    <2>5. Cardinality(mine) <= Cardinality(its) /\ (Cardinality(its) = Cardinality(mine) => its = mine)
      BY <2>2, <2>4, FS_Subset
    <2>6. Cardinality(mine) < Cardinality(its)
      BY <2>3, <2>4, <2>5
    <2>7. n - Cardinality(mine) <= n - Cardinality(its)
      BY <1>2, <1>3 DEF mine, its
    <2> QED
      BY <2>4, <2>6, <2>7
  <1>4. away \subseteq Behind(score, n, k)
    BY <1>3 DEF Behind
  <1> QED
    BY <1>4

\* How far each block is from the rest of its speaker's, against the rival.
Score(blocks, rival) ==
    [k \in 1..Len(blocks) |->
       Ranks!Margin(blocks[k].vector, Ranks!Unit(Ranks!SumOfBlocks(Ranks!RemoveAt(blocks, k))),
                    Ranks!Unit(Ranks!SumOfBlocks(rival)))]

\* Some blocks of one dimension, each of which can be compared with the rest of them.
Comparable(blocks, rival) ==
    /\ \E ids : \E d \in Nat : blocks \in Seq(BlockSet(ids, d))
    /\ Len(blocks) > 1 /\ Score(blocks, rival) \in [1..Len(blocks) -> Fraction]

LEMMA SameCardinality ==
    ASSUME NEW S
    PROVE  Ranks!Cardinality(S) = Cardinality(S)
  BY Zenon DEF Ranks!Cardinality, Cardinality

\* Whichever block is the candidate, it and the anchors have the same scores.
LEMMA ScoresAreShared ==
    ASSUME NEW blocks, NEW rival, Comparable(blocks, rival), NEW k \in 1..Len(blocks)
    PROVE  Ranks!Calibration(Ranks!RemoveAt(blocks, k), rival, blocks[k])
             = [j \in 1..(Len(blocks) - 1) |-> Score(blocks, rival)[Up(j, k)]]
  <1> DEFINE n == Len(blocks)
             own == Ranks!RemoveAt(blocks, k)
             total == Ranks!Joining(Ranks!SumOfBlocks(own), blocks[k])
             other == Ranks!Unit(Ranks!SumOfBlocks(rival))
             score == Score(blocks, rival)
             at == [j \in DOMAIN own |-> Ranks!Margin(own[j].vector, Ranks!Unit(Ranks!Leaving(total, own[j])), other)]
  <1> PICK ids : \E d \in Nat : blocks \in Seq(BlockSet(ids, d))
    BY DEF Comparable
  <1> PICK d \in Nat : blocks \in Seq(BlockSet(ids, d))
    OBVIOUS
  <1> Len(blocks) > 1 /\ score \in [1..n -> Fraction]
    BY DEF Comparable
  <1>1. n \in Nat
    BY LenProperties
  <1>2. /\ own \in Seq(BlockSet(ids, d)) /\ LeftOut(own, blocks, k) /\ DOMAIN own = 1..(n - 1)
        /\ \A j \in 1..(n - 1) : own[j] = blocks[Up(j, k)] /\ Up(j, k) \in 1..n
    <2>1. own \in Seq(BlockSet(ids, d)) /\ LeftOut(own, blocks, k)
      BY RestIs
    <2> HIDE DEF own
    <2>2. Len(own) = n - 1 /\ DOMAIN own = 1..Len(own)
      BY <2>1, LenProperties DEF LeftOut
    <2>3. \A j \in 1..(n - 1) : Up(j, k) \in 1..n
      BY <1>1 DEF Up
    <2> HIDE DEF n
    <2> QED
      BY <2>1, <2>2, <2>3 DEF LeftOut
  <1>3. total = Ranks!SumOfBlocks(blocks)
    BY LeaveAndJoin
  <1>4. Ranks!Calibration(own, rival, blocks[k]) = Ranks!Vector(at)
    BY Zenon DEF Ranks!Calibration
  <1>5. \A j \in 1..n : /\ score[j] \in Fraction
                        /\ score[j] = Ranks!Margin(blocks[j].vector, Ranks!Unit(Ranks!Leaving(total, blocks[j])), other)
    <2> SUFFICES ASSUME NEW j \in 1..n
                 PROVE  /\ score[j] \in Fraction
                        /\ score[j] = Ranks!Margin(blocks[j].vector, Ranks!Unit(Ranks!Leaving(total, blocks[j])), other)
      OBVIOUS
    <2>1. Ranks!Leaving(total, blocks[j]) = Ranks!SumOfBlocks(Ranks!RemoveAt(blocks, j))
      BY <1>3, LeaveAndJoin
    <2>2. score[j] = Ranks!Margin(blocks[j].vector, Ranks!Unit(Ranks!SumOfBlocks(Ranks!RemoveAt(blocks, j))), other)
      BY DEF Score
    <2>3. score[j] \in Fraction
      OBVIOUS
    <2> HIDE DEF total, score, other
    <2> QED
      BY <2>1, <2>2, <2>3
  <1>6. at = [j \in 1..(n - 1) |-> score[Up(j, k)]]
    <2> HIDE DEF own, total, other, score, n
    <2>1. \A j \in 1..(n - 1) :
            Ranks!Margin(own[j].vector, Ranks!Unit(Ranks!Leaving(total, own[j])), other) = score[Up(j, k)]
      BY <1>2, <1>5
    <2> QED
      BY <1>2, <2>1
  <1>7. at \in [1..(n - 1) -> Fraction] /\ n - 1 \in Nat
    <2>1. n - 1 \in Nat
      BY <1>1
    <2> HIDE DEF own, total, other, score, n, at
    <2> QED
      BY <1>2, <1>5, <1>6, <2>1
  <1> HIDE DEF at
  <1>8. Ranks!Vector(at) = at
    BY <1>7, VectorIs
  <1>9. Ranks!Calibration(own, rival, blocks[k]) = at
    BY <1>4, <1>8
  <1> QED
    BY <1>6, <1>9

LEMMA PValueIs ==
    ASSUME NEW own, NEW rival, NEW candidate
    PROVE  LET others == Ranks!Calibration(own, rival, candidate)
               score == Ranks!Margin(candidate.vector, Ranks!Unit(Ranks!SumOfBlocks(own)),
                                     Ranks!Unit(Ranks!SumOfBlocks(rival)))
           IN  Ranks!PValue(own, rival, candidate)
                 = << 1 + Cardinality({j \in DOMAIN others : Ranks!AtLeast(others[j], score)}), Len(own) + 1 >>
  BY SameCardinality DEF Ranks!PValue

\* Its rank is the number of those behind it, itself among them.
LEMMA RankIs ==
    ASSUME NEW blocks, NEW rival, Comparable(blocks, rival), NEW k \in 1..Len(blocks)
    PROVE  Ranks!PValue(Ranks!RemoveAt(blocks, k), rival, blocks[k])
             = << Cardinality(Behind(Score(blocks, rival), Len(blocks), k)), Len(blocks) >>
  <1> DEFINE n == Len(blocks)
             own == Ranks!RemoveAt(blocks, k)
             score == Score(blocks, rival)
             others == [j \in 1..(n - 1) |-> score[Up(j, k)]]
             J == {j \in 1..(n - 1) : Ranks!AtLeast(score[Up(j, k)], score[k])}
             rest == Behind(score, n, k) \ {k}
  <1> PICK ids : \E d \in Nat : blocks \in Seq(BlockSet(ids, d))
    BY DEF Comparable
  <1> PICK d \in Nat : blocks \in Seq(BlockSet(ids, d))
    OBVIOUS
  <1>1. n \in Nat /\ k \in 1..n /\ score \in [1..n -> Fraction]
    BY LenProperties DEF Comparable
  <1>2. Len(own) + 1 = n
    <2>1. LeftOut(own, blocks, k)
      BY RestIs
    <2> HIDE DEF own
    <2> QED
      BY <1>1, <2>1 DEF LeftOut
  <1>3. /\ Ranks!Calibration(own, rival, blocks[k]) = others
        /\ score[k] = Ranks!Margin(blocks[k].vector, Ranks!Unit(Ranks!SumOfBlocks(own)), Ranks!Unit(Ranks!SumOfBlocks(rival)))
    <2>1. Ranks!Calibration(own, rival, blocks[k]) = others
      BY ScoresAreShared
    <2>2. score[k] = Ranks!Margin(blocks[k].vector, Ranks!Unit(Ranks!SumOfBlocks(own)),
                                  Ranks!Unit(Ranks!SumOfBlocks(rival)))
      BY DEF Score
    <2> QED
      BY <2>1, <2>2
  <1>4. DOMAIN others = 1..(n - 1) /\ \A j \in 1..(n - 1) : others[j] = score[Up(j, k)]
    OBVIOUS
  <1>5. Ranks!PValue(own, rival, blocks[k]) = << 1 + Cardinality(J), n >>
    <2> HIDE DEF own, score, others, n
    <2>1. {j \in DOMAIN others : Ranks!AtLeast(others[j], score[k])} = J
      BY <1>4
    <2> QED
      <3>1. Ranks!PValue(own, rival, blocks[k])
              = << 1 + Cardinality({j \in DOMAIN Ranks!Calibration(own, rival, blocks[k]) :
                                      Ranks!AtLeast(Ranks!Calibration(own, rival, blocks[k])[j], score[k])}),
                   Len(own) + 1 >>
        BY <1>3, PValueIs
      <3> QED
        BY <1>2, <1>3, <2>1, <3>1
  <1> HIDE DEF n, score, own
  <1>6. IsFiniteSet(J)
    <2>1. n - 1 \in Int
      BY <1>1
    <2>2. IsFiniteSet(1..(n - 1))
      BY <2>1, FS_Interval
    <2> QED
      BY <2>2, FS_Subset
  <1>7. ExistsBijection(J, rest)
    <2> DEFINE f == [j \in J |-> Up(j, k)]
    <2>1. \A j \in J : Up(j, k) \in rest
      BY <1>1 DEF Up, Behind
    <2>2. \A i, j \in J : Up(i, k) = Up(j, k) => i = j
      BY <1>1 DEF Up
    <2>3. ASSUME NEW i \in rest
          PROVE  \E j \in J : Up(j, k) = i
      <3>1. i \in 1..n /\ i # k /\ Ranks!AtLeast(score[i], score[k])
        BY DEF Behind
      <3> DEFINE j == IF i < k THEN i ELSE i - 1
      <3>2. j \in 1..(n - 1) /\ Up(j, k) = i
        BY <1>1, <3>1 DEF Up
      <3> QED
        BY <3>1, <3>2
    <2> HIDE DEF J, rest
    <2>4. f \in Bijection(J, rest)
      BY <2>1, <2>2, <2>3 DEF Bijection, Injection, Surjection, IsInjective
    <2> QED
      BY <2>4 DEF ExistsBijection
  <1>8. IsFiniteSet(rest) /\ Cardinality(rest) = Cardinality(J)
    <2> HIDE DEF J, rest
    <2> QED
      BY <1>6, <1>7, FS_Bijection
  <1>9. k \in Behind(score, n, k) /\ Behind(score, n, k) = rest \cup {k} /\ k \notin rest
    <2>1. score[k] \in Fraction
      BY <1>1
    <2>2. k \in Behind(score, n, k)
      BY <1>1, <2>1, AtLeastOrders DEF Behind
    <2> QED
      BY <2>2
  <1> HIDE DEF rest, J
  <1>10. Cardinality(Behind(score, n, k)) = Cardinality(rest) + 1 /\ Cardinality(rest) \in Nat
    BY <1>8, <1>9, FS_AddElement, FS_CardinalityType
  <1> QED
    BY <1>5, <1>8, <1>10 DEF n, score, own

\* Take each block of a speaker in turn for the candidate: no more than a share epsilon of
\* them is turned away, for any blocks of any dimension and any rival with which they can
\* be compared at all.  It rests on each block having one score whichever of them is the
\* candidate, so that the ranks are those of one table (_score_class, evaluate_bm_rcm).
THEOREM FewAreTurnedAway ==
    ASSUME NEW blocks, NEW rival, Comparable(blocks, rival), NEW epsilon \in Nat \X (Nat \ {0})
    PROVE  Ranks!CoverageHolds(blocks, rival, epsilon)
  <1> DEFINE n == Len(blocks)
             score == Score(blocks, rival)
             Rank(k) == Cardinality(Behind(score, n, k))
             away == {k \in DOMAIN blocks :
                        ~Ranks!Eligible(Ranks!PValue(Ranks!RemoveAt(blocks, k), rival, blocks[k]), epsilon)}
  <1> PICK ids : \E d \in Nat : blocks \in Seq(BlockSet(ids, d))
    BY DEF Comparable
  <1> PICK d \in Nat : blocks \in Seq(BlockSet(ids, d))
    OBVIOUS
  <1> score \in [1..n -> Fraction]
    BY DEF Comparable
  <1>1. n \in Nat /\ DOMAIN blocks = 1..n /\ epsilon[1] \in Nat /\ epsilon[2] \in Nat
    BY LenProperties
  <1>2. \A k \in 1..n : Rank(k) \in Nat
    BY <1>1, BehindIsFinite
  <1>3. \A k \in away : k \in 1..n /\ Rank(k) * epsilon[2] <= epsilon[1] * n
    <2> SUFFICES ASSUME NEW k \in away
                 PROVE  Rank(k) * epsilon[2] <= epsilon[1] * n
      BY <1>1
    <2>1. k \in 1..n /\ ~Ranks!Eligible(Ranks!PValue(Ranks!RemoveAt(blocks, k), rival, blocks[k]), epsilon)
      BY <1>1
    <2>2. Ranks!PValue(Ranks!RemoveAt(blocks, k), rival, blocks[k]) = << Rank(k), n >>
      BY <2>1, RankIs
    <2> HIDE DEF Rank, n
    <2>3. ~(Rank(k) * epsilon[2] > epsilon[1] * n)
      BY <2>1, <2>2 DEF Ranks!Eligible
    <2>4. Rank(k) * epsilon[2] \in Nat /\ epsilon[1] * n \in Nat
      BY <1>1, <1>2, <2>1
    <2> QED
      BY <2>3, <2>4
  <1>4. Ranks!CoverageHolds(blocks, rival, epsilon) <=> Cardinality(away) * epsilon[2] <= epsilon[1] * n
    BY SameCardinality, Zenon DEF Ranks!CoverageHolds
  <1> HIDE DEF away
  <1>5. CASE away = {}
    <2>1. Cardinality(away) = 0
      BY <1>5, FS_EmptySet
    <2>2. Cardinality(away) * epsilon[2] = 0 /\ epsilon[1] * n \in Nat
      BY <1>1, <2>1
    <2> QED
      BY <1>4, <2>2
  <1>6. CASE away # {}
    <2>1. PICK k \in away : away \subseteq Behind(score, n, k)
      BY <1>1, <1>3, <1>6, OneIsFirst
    <2>2. Cardinality(away) <= Rank(k) /\ Cardinality(away) \in Nat /\ Rank(k) \in Nat
      BY <1>1, <1>3, <2>1, BehindIsFinite, FS_Subset, FS_CardinalityType
    <2> HIDE DEF Rank, n
    <2>3. Cardinality(away) * epsilon[2] <= Rank(k) * epsilon[2]
      <3>1. epsilon[2] \in Nat \ {0}
        OBVIOUS
      <3>2. Rank(k) * epsilon[2] >= Cardinality(away) * epsilon[2]
        <4>1. Rank(k) \in Int /\ Cardinality(away) \in Int /\ Rank(k) >= Cardinality(away)
          BY <2>2
        <4> QED
          BY <3>1, <4>1, TimesPositive, Zenon
      <3> QED
        BY <1>1, <2>2, <3>2
    <2>4. {Cardinality(away) * epsilon[2], Rank(k) * epsilon[2], epsilon[1] * n} \subseteq Nat
      BY <1>1, <2>2
    <2> QED
      BY <1>3, <1>4, <2>3, <2>4
  <1> QED
    BY <1>5, <1>6

=============================================================================
