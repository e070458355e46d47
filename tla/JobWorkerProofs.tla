--------------------------- MODULE JobWorkerProofs ---------------------------
(***************************************************************************)
(* The store of src/sddiar/worker.py.  For every number of worker          *)
(* processes: types, keys and the order of its two writes.  When one       *)
(* process owns it: it never acts on a copy that the disk has outlived, so *)
(* submit stores one job per key, attempts beyond max_attempts are paid    *)
(* for, and the store implements JobLedger.                                *)
(***************************************************************************)
EXTENDS JobWorker, TLAPS

-----------------------------------------------------------------------------
(* Facts about the constants. *)

\* The key of a job is the one its submission carries.
LEMMA KeyOfRequest == \A r \in Requests : r.job \in Jobs /\ KeyOf(r.job) = r.key
  <1>1. TAKE r \in Requests
  <1>2. r.job \in Jobs
    BY DEF Jobs
  <1>3. \E s \in Requests : s.job = r.job
    OBVIOUS
  <1>4. (CHOOSE s \in Requests : s.job = r.job) \in Requests
        /\ (CHOOSE s \in Requests : s.job = r.job).job = r.job
    BY <1>3
  <1>5. QED
    BY <1>2, <1>4, WorkerAssumption DEF KeyOf

\* Every job has a key of some request.
LEMMA KeyOfJob == \A j \in Jobs : KeyOf(j) \in Keys
  BY KeyOfRequest DEF Jobs, Keys

\* The sentinels are not values of the files they stand for.
LEMMA Sentinels == NoFile \notin LocalJob /\ NoResult \notin 1..MaxRuns
  BY SentinelAssumption DEF LocalJob

\* A received job is a LocalJob.
LEMMA ReceivedType ==
    \A j \in Jobs : Received(KeyOf(j)) \in LocalJob
  BY KeyOfJob, WorkerAssumption DEF Received, LocalJob, Statuses

\* A run of a job raises its attempts by one and keeps its key.
LEMMA RunningType ==
    ASSUME NEW job \in LocalJob, job.attempts < MaxRuns
    PROVE  /\ Running(job) \in LocalJob
           /\ Running(job).key = job.key
           /\ Running(job).status = "RUNNING"
           /\ Running(job).attempts = job.attempts + 1
           /\ Running(job).attempts \in 1..MaxRuns
  BY WorkerAssumption DEF Running, LocalJob, Statuses

\* A failure is recorded as one of two statuses, and as retryable only while
\* attempts remain.
LEMMA FailureStatusType ==
    ASSUME NEW transient, NEW attempts
    PROVE  /\ FailureStatus(transient, attempts) \in {"FAILED_RETRYABLE", "FAILED_TERMINAL"}
           /\ FailureStatus(transient, attempts) = "FAILED_RETRYABLE"
                => attempts < MaxAttempts
  BY DEF FailureStatus

-----------------------------------------------------------------------------
(* The inductive invariant. *)

Begun == {"handling", "publishing", "marking", "returning", "recording"}

\* What a process holds between two statements: a copy of a job under its key,
\* with attempts that fit where it stands, and a result once it marks success.
Holding(p) ==
    /\ ~At(p, "idle") => /\ proc[p].job \in Jobs
                         /\ proc[p].copy \in LocalJob
                         /\ proc[p].copy.key = KeyOf(proc[p].job)
    /\ At(p, "saving") => proc[p].copy = Received(KeyOf(proc[p].job))
    /\ At(p, "loaded") => proc[p].copy.attempts < MaxRuns
    /\ proc[p].at \in Begun => proc[p].copy.attempts \in 1..MaxRuns
    /\ At(p, "marking") => resultFile[proc[p].job] # NoResult

IInv ==
    /\ TypeOK
    /\ \A p \in Procs : Holding(p)
    /\ SucceededHasResult

\* The store starts empty and every process idle.
LEMMA InitIInv == Init => IInv
  <1> SUFFICES ASSUME Init PROVE IInv
    OBVIOUS
  <1> USE DEF Init, Idle
  <1>1. TypeOK
    BY WorkerAssumption DEF TypeOK, Labels
  <1>2. \A p \in Procs : Holding(p)
    BY DEF Holding, At, Begun
  <1>3. SucceededHasResult
    BY DEF SucceededHasResult, HasStatus, Stored
  <1>4. QED
    BY <1>1, <1>2, <1>3 DEF IInv

\* A step that leaves the files alone and moves one process keeps IInv if what
\* the process then holds is right.
LEMMA ProcStep ==
    ASSUME IInv, NEW p \in Procs, NEW state, UNCHANGED disk,
           proc' = [proc EXCEPT ![p] = state],
           state \in [at : Labels, job : Jobs \cup {NoJob},
                      copy : LocalJob \cup {NoFile}, retry : BOOLEAN],
           crashes' \in 0..MaxCrashes, writeErrors' \in 0..MaxWriteErrors,
           interrupts' \in 0..MaxInterrupts,
           Holding(p)'
    PROVE  IInv'
  <1>1. TypeOK'
    BY DEF IInv, TypeOK, disk
  <1>2. \A q \in Procs : Holding(q)'
    <2>1. TAKE q \in Procs
    <2>2. CASE q = p
      BY <2>2
    <2>3. CASE q # p
      <3>1. proc'[q] = proc[q]
        BY <2>3 DEF IInv, TypeOK
      <3>2. QED
        BY <3>1 DEF IInv, Holding, At, disk
    <2>4. QED
      BY <2>2, <2>3
  <1>3. SucceededHasResult'
    BY DEF IInv, SucceededHasResult, HasStatus, Stored, disk
  <1>4. QED
    BY <1>1, <1>2, <1>3 DEF IInv

\* A write of a job's file keeps IInv if it writes a LocalJob under the job's
\* key, and SUCCEEDED only where a result is.
LEMMA SaveStep ==
    ASSUME IInv, NEW p \in Procs, NEW state, NEW job \in LocalJob,
           proc[p].job \in Jobs, job.key = KeyOf(proc[p].job),
           job.status = "SUCCEEDED" => resultFile[proc[p].job] # NoResult,
           Save(p, job), UNCHANGED << resultFile, counters >>,
           proc' = [proc EXCEPT ![p] = state],
           state \in [at : Labels, job : Jobs \cup {NoJob},
                      copy : LocalJob \cup {NoFile}, retry : BOOLEAN],
           Holding(p)'
    PROVE  IInv'
  <1>0. \A j \in Jobs : jobFile'[j] = IF j = proc[p].job THEN job ELSE jobFile[j]
    BY DEF IInv, TypeOK, Save
  <1>1. TypeOK'
    <2>1. jobFile' \in [Jobs -> LocalJob \cup {NoFile}]
      BY DEF IInv, TypeOK, Save
    <2>2. \A j \in Jobs : jobFile'[j] # NoFile => jobFile'[j].key = KeyOf(j)
      BY <1>0 DEF IInv, TypeOK
    <2>3. QED
      BY <2>1, <2>2 DEF IInv, TypeOK, counters
  <1>2. \A q \in Procs : Holding(q)'
    <2>1. TAKE q \in Procs
    <2>2. CASE q = p
      BY <2>2
    <2>3. CASE q # p
      <3>1. proc'[q] = proc[q]
        BY <2>3 DEF IInv, TypeOK
      <3>2. QED
        BY <3>1 DEF IInv, Holding, At
    <2>4. QED
      BY <2>2, <2>3
  <1>3. SucceededHasResult'
    BY <1>0 DEF IInv, SucceededHasResult, HasStatus, Stored
  <1>4. QED
    BY <1>1, <1>2, <1>3 DEF IInv

\* An idle process holds nothing.
LEMMA IdleHolds ==
    ASSUME NEW p \in Procs, TypeOK, proc' = [proc EXCEPT ![p] = Idle]
    PROVE  Holding(p)'
  <1>1. proc'[p] = Idle
    BY DEF TypeOK
  <1>2. QED
    BY <1>1 DEF Holding, At, Idle, Begun

LEMMA IdleType ==
    Idle \in [at : Labels, job : Jobs \cup {NoJob},
              copy : LocalJob \cup {NoFile}, retry : BOOLEAN]
  BY DEF Idle, Labels

ProcState == [at : Labels, job : Jobs \cup {NoJob},
              copy : LocalJob \cup {NoFile}, retry : BOOLEAN]

\* Goto and Raise change one process; IInv bounds what it becomes.
LEMMA GotoState ==
    ASSUME TypeOK, NEW p \in Procs, NEW label \in Labels, Goto(p, label)
    PROVE  /\ proc' = [proc EXCEPT ![p] = [proc[p] EXCEPT !.at = label]]
           /\ [proc[p] EXCEPT !.at = label] \in ProcState
           /\ proc'[p] = [proc[p] EXCEPT !.at = label]
  BY DEF TypeOK, Goto, ProcState

LEMMA RaiseState ==
    ASSUME TypeOK, NEW p \in Procs, NEW failure, Raise(p, failure)
    PROVE  \E state \in ProcState :
             /\ proc' = [proc EXCEPT ![p] = state]
             /\ proc'[p] = state
             /\ state.at = "recording"
             /\ state.job = proc[p].job
             /\ state.copy = proc[p].copy
  <1> DEFINE state == [[proc[p] EXCEPT !.at = "recording"]
                         EXCEPT !.retry = ClassifyRetry(failure)]
  <1>1. ClassifyRetry(failure) \in BOOLEAN
    BY DEF ClassifyRetry
  <1>2. proc' = [proc EXCEPT ![p] = state]
    BY DEF Raise, TypeOK
  <1>3. proc[p] \in ProcState
    BY DEF TypeOK, ProcState
  <1>4. state \in ProcState /\ state.at = "recording"
        /\ state.job = proc[p].job /\ state.copy = proc[p].copy
    BY <1>1, <1>3 DEF ProcState, Labels
  <1>5. proc'[p] = state
    BY <1>2 DEF TypeOK
  <1>6. QED
    BY <1>2, <1>4, <1>5

-----------------------------------------------------------------------------
LEMMA SubmitFindIInv ==
    ASSUME IInv, NEW p \in Procs, NEW r \in Requests, SubmitFind(p, r)
    PROVE  IInv'
  <1> DEFINE state == [at |-> "saving", job |-> r.job,
                       copy |-> Received(r.key), retry |-> FALSE]
  <1>1. r.job \in Jobs /\ KeyOf(r.job) = r.key
    BY KeyOfRequest
  <1>2. Received(r.key) \in LocalJob /\ Received(r.key).key = r.key
    BY <1>1, ReceivedType DEF Received
  <1>3. state \in ProcState
    BY <1>1, <1>2 DEF ProcState, Labels
  <1>4. proc' = [proc EXCEPT ![p] = state] /\ proc'[p] = state
    BY DEF SubmitFind, Become, IInv, TypeOK
  <1>5. Holding(p)'
    BY <1>1, <1>2, <1>4 DEF Holding, At, Begun
  <1>6. UNCHANGED disk /\ crashes' \in 0..MaxCrashes
        /\ writeErrors' \in 0..MaxWriteErrors
        /\ interrupts' \in 0..MaxInterrupts
    BY DEF SubmitFind, IInv, TypeOK, counters
  <1>7. QED
    BY <1>3, <1>4, <1>5, <1>6, ProcStep DEF ProcState

LEMMA SubmitSaveIInv ==
    ASSUME IInv, NEW p \in Procs, SubmitSave(p)
    PROVE  IInv'
  <1>1. /\ proc[p].job \in Jobs
        /\ proc[p].copy = Received(KeyOf(proc[p].job))
        /\ proc[p].copy \in LocalJob
    BY DEF SubmitSave, IInv, Holding, At
  <1>2. proc[p].copy.key = KeyOf(proc[p].job)
        /\ proc[p].copy.status # "SUCCEEDED"
    BY <1>1 DEF Received
  <1>3. Holding(p)'
    BY IdleHolds DEF SubmitSave, Become, IInv
  <1>4. Save(p, proc[p].copy) /\ proc' = [proc EXCEPT ![p] = Idle]
        /\ UNCHANGED << resultFile, counters >>
    BY DEF SubmitSave, Become
  <1>5. QED
    BY <1>1, <1>2, <1>3, <1>4, IdleType, SaveStep

LEMMA RunLoadIInv ==
    ASSUME IInv, NEW p \in Procs, NEW j \in Jobs, RunLoad(p, j)
    PROVE  IInv'
  <1> DEFINE state == [at |-> "loaded", job |-> j, copy |-> jobFile[j],
                       retry |-> FALSE]
  <1>1. jobFile[j] \in LocalJob /\ jobFile[j].key = KeyOf(j)
        /\ jobFile[j].attempts < MaxRuns
    BY DEF RunLoad, IInv, TypeOK
  <1>2. state \in ProcState
    BY <1>1 DEF ProcState, Labels
  <1>3. proc' = [proc EXCEPT ![p] = state] /\ proc'[p] = state
    BY DEF RunLoad, Become, IInv, TypeOK
  <1>4. Holding(p)'
    BY <1>1, <1>3 DEF Holding, At, Begun
  <1>5. UNCHANGED disk /\ crashes' \in 0..MaxCrashes
        /\ writeErrors' \in 0..MaxWriteErrors
        /\ interrupts' \in 0..MaxInterrupts
    BY DEF RunLoad, IInv, TypeOK, counters
  <1>6. QED
    BY <1>2, <1>3, <1>4, <1>5, ProcStep DEF ProcState

LEMMA MarkRunningIInv ==
    ASSUME IInv, NEW p \in Procs, MarkRunning(p)
    PROVE  IInv'
  <1> DEFINE job == Running(proc[p].copy)
  <1> DEFINE state == [[proc[p] EXCEPT !.at = "handling"] EXCEPT !.copy = job]
  <1>1. /\ proc[p].job \in Jobs /\ proc[p].copy \in LocalJob
        /\ proc[p].copy.key = KeyOf(proc[p].job)
        /\ proc[p].copy.attempts < MaxRuns
    BY DEF MarkRunning, IInv, Holding, At
  <1>2. /\ job \in LocalJob /\ job.key = KeyOf(proc[p].job)
        /\ job.status # "SUCCEEDED" /\ job.attempts \in 1..MaxRuns
    BY <1>1, RunningType
  <1>3. proc' = [proc EXCEPT ![p] = state] /\ proc'[p] = state
    BY DEF MarkRunning, Become, IInv, TypeOK
  <1>4. /\ state \in ProcState /\ state.at = "handling"
        /\ state.job = proc[p].job /\ state.copy = job
    <2>1. proc[p] \in ProcState
      BY DEF IInv, TypeOK, ProcState
    <2>2. QED
      BY <1>2, <2>1 DEF ProcState, Labels
  <1>5. Holding(p)'
    BY <1>1, <1>2, <1>3, <1>4 DEF Holding, At, Begun
  <1>6. Save(p, job) /\ UNCHANGED << resultFile, counters >>
    BY DEF MarkRunning
  <1>7. QED
    BY <1>1, <1>2, <1>3, <1>4, <1>5, <1>6, SaveStep DEF ProcState

LEMMA HandlerIInv ==
    ASSUME IInv, NEW p \in Procs,
           HandlerReturns(p) \/ \E failure \in Failure : HandlerRaises(p, failure)
    PROVE  IInv'
  <1>1. /\ At(p, "handling") /\ UNCHANGED disk
        /\ crashes' \in 0..MaxCrashes /\ writeErrors' \in 0..MaxWriteErrors
        /\ interrupts' \in 0..MaxInterrupts
    BY DEF HandlerReturns, HandlerRaises, IInv, TypeOK, counters
  <1>2. PICK state \in ProcState :
            /\ proc' = [proc EXCEPT ![p] = state] /\ proc'[p] = state
            /\ state.at \in {"publishing", "recording"}
            /\ state.job = proc[p].job /\ state.copy = proc[p].copy
    <2>1. CASE HandlerReturns(p)
      <3>1. Goto(p, "publishing") /\ "publishing" \in Labels
        BY <2>1 DEF HandlerReturns, Labels
      <3>2. proc[p] \in ProcState
        BY DEF IInv, TypeOK, ProcState
      <3> DEFINE state == [proc[p] EXCEPT !.at = "publishing"]
      <3>3. /\ proc' = [proc EXCEPT ![p] = state] /\ proc'[p] = state
            /\ state \in ProcState
        BY <3>1, GotoState DEF IInv
      <3>4. /\ state.at = "publishing"
            /\ state.job = proc[p].job /\ state.copy = proc[p].copy
        BY <3>2 DEF ProcState
      <3>5. QED
        BY <3>3, <3>4
    <2>2. CASE \E failure \in Failure : HandlerRaises(p, failure)
      BY <2>2, RaiseState DEF HandlerRaises, IInv
    <2>3. QED
      BY <2>1, <2>2
  <1>3. Holding(p)'
    BY <1>1, <1>2 DEF Holding, At, Begun, IInv
  <1>4. QED
    BY <1>1, <1>2, <1>3, ProcStep DEF ProcState
LEMMA PublishResultIInv ==
    ASSUME IInv, NEW p \in Procs, PublishResult(p)
    PROVE  IInv'
  <1> DEFINE state == [proc[p] EXCEPT !.at = "marking"]
  <1>1. /\ proc[p].job \in Jobs /\ proc[p].copy \in LocalJob
        /\ proc[p].copy.key = KeyOf(proc[p].job)
        /\ proc[p].copy.attempts \in 1..MaxRuns
    BY DEF PublishResult, IInv, Holding, At, Begun
  <1>2. /\ proc' = [proc EXCEPT ![p] = state] /\ proc'[p] = state
        /\ state \in ProcState
    <2>1. Goto(p, "marking") /\ "marking" \in Labels
      BY DEF PublishResult, Labels
    <2>2. QED
      BY <2>1, GotoState DEF IInv
  <1>3. state.at = "marking" /\ state.job = proc[p].job /\ state.copy = proc[p].copy
    BY DEF IInv, TypeOK
  <1>4. \A j \in Jobs : resultFile'[j] = IF j = proc[p].job THEN proc[p].copy.attempts
                                                           ELSE resultFile[j]
    BY DEF PublishResult, IInv, TypeOK
  <1>5. resultFile'[proc[p].job] # NoResult
    BY <1>1, <1>4, Sentinels
  <1>6. TypeOK'
    <2>1. resultFile' \in [Jobs -> (1..MaxRuns) \cup {NoResult}]
      BY <1>1 DEF PublishResult, IInv, TypeOK
    <2>2. proc' \in [Procs -> ProcState]
      BY <1>2 DEF IInv, TypeOK, ProcState
    <2>3. QED
      BY <2>1, <2>2 DEF PublishResult, IInv, TypeOK, ProcState, counters
  <1>7. \A q \in Procs : Holding(q)'
    <2>1. TAKE q \in Procs
    <2>2. CASE q = p
      BY <2>2, <1>1, <1>2, <1>3, <1>5 DEF Holding, At, Begun
    <2>3. CASE q # p
      <3>1. proc'[q] = proc[q]
        BY <2>3 DEF IInv, TypeOK, PublishResult, Goto
      <3>2. At(q, "marking") => proc[q].job \in Jobs
        BY DEF IInv, Holding, At
      <3>3. QED
        BY <3>1, <3>2, <1>4, <1>5 DEF IInv, Holding, At
    <2>4. QED
      BY <2>2, <2>3
  <1>8. SucceededHasResult'
    BY <1>4, <1>5 DEF PublishResult, IInv, SucceededHasResult, HasStatus, Stored
  <1>9. QED
    BY <1>6, <1>7, <1>8 DEF IInv

LEMMA MarkSucceededIInv ==
    ASSUME IInv, NEW p \in Procs, MarkSucceeded(p)
    PROVE  IInv'
  <1> DEFINE job == [proc[p].copy EXCEPT !.status = "SUCCEEDED"]
  <1> DEFINE state == [proc[p] EXCEPT !.at = "returning"]
  <1>1. /\ proc[p].job \in Jobs /\ proc[p].copy \in LocalJob
        /\ proc[p].copy.key = KeyOf(proc[p].job)
        /\ proc[p].copy.attempts \in 1..MaxRuns
        /\ resultFile[proc[p].job] # NoResult
    BY DEF MarkSucceeded, IInv, Holding, At, Begun
  <1>2. job \in LocalJob /\ job.key = KeyOf(proc[p].job)
    BY <1>1 DEF LocalJob, Statuses, Terminal
  <1>3. /\ proc' = [proc EXCEPT ![p] = state] /\ proc'[p] = state
        /\ state \in ProcState
    <2>1. Goto(p, "returning") /\ "returning" \in Labels
      BY DEF MarkSucceeded, Labels
    <2>2. QED
      BY <2>1, GotoState DEF IInv
  <1>4. state.at = "returning" /\ state.job = proc[p].job /\ state.copy = proc[p].copy
    BY DEF IInv, TypeOK
  <1>5. Holding(p)'
    BY <1>1, <1>3, <1>4 DEF Holding, At, Begun
  <1>6. Save(p, job) /\ UNCHANGED << resultFile, counters >>
    BY DEF MarkSucceeded
  <1>7. QED
    BY <1>1, <1>2, <1>3, <1>5, <1>6, SaveStep DEF ProcState

LEMMA RecordFailureIInv ==
    ASSUME IInv, NEW p \in Procs, RecordFailure(p)
    PROVE  IInv'
  <1> DEFINE status == FailureStatus(proc[p].retry, proc[p].copy.attempts)
  <1> DEFINE job == [proc[p].copy EXCEPT !.status = status]
  <1>1. /\ proc[p].job \in Jobs /\ proc[p].copy \in LocalJob
        /\ proc[p].copy.key = KeyOf(proc[p].job)
    BY DEF RecordFailure, IInv, Holding, At
  <1>2. status \in Statuses /\ status # "SUCCEEDED"
    BY FailureStatusType DEF Statuses, Terminal
  <1>3. job \in LocalJob /\ job.key = KeyOf(proc[p].job) /\ job.status = status
    BY <1>1, <1>2 DEF LocalJob
  <1>4. Holding(p)'
    BY IdleHolds DEF RecordFailure, Become, IInv
  <1>5. Save(p, job) /\ proc' = [proc EXCEPT ![p] = Idle]
        /\ UNCHANGED << resultFile, counters >>
    BY DEF RecordFailure, Become
  <1>6. QED
    BY <1>1, <1>2, <1>3, <1>4, <1>5, IdleType, SaveStep

\* A write that fails, and a KeyboardInterrupt, inside the try block.
LEMMA RaisedInTryIInv ==
    ASSUME IInv, NEW p \in Procs, WriteFailsInTry(p) \/ Interrupt(p)
    PROVE  IInv'
  <1>1. /\ proc[p].at \in {"publishing", "marking", "returning"}
        /\ UNCHANGED disk /\ crashes' \in 0..MaxCrashes
        /\ writeErrors' \in 0..MaxWriteErrors /\ interrupts' \in 0..MaxInterrupts
    BY WorkerAssumption DEF WriteFailsInTry, WriteFails, Interrupt, IInv, TypeOK
  <1>2. PICK state \in ProcState :
            /\ proc' = [proc EXCEPT ![p] = state] /\ proc'[p] = state
            /\ state.at = "recording"
            /\ state.job = proc[p].job /\ state.copy = proc[p].copy
    BY RaiseState DEF WriteFailsInTry, Interrupt, IInv
  <1>3. Holding(p)'
    BY <1>1, <1>2 DEF Holding, At, Begun, IInv
  <1>4. QED
    BY <1>1, <1>2, <1>3, ProcStep DEF ProcState

\* The end of a call, a crash, and a write that fails outside the try block.
LEMMA CallOverIInv ==
    ASSUME IInv, NEW p \in Procs, Return(p) \/ WriteFailsOutside(p) \/ Crash(p)
    PROVE  IInv'
  <1>1. /\ proc' = [proc EXCEPT ![p] = Idle] /\ UNCHANGED disk
        /\ crashes' \in 0..MaxCrashes /\ writeErrors' \in 0..MaxWriteErrors
        /\ interrupts' \in 0..MaxInterrupts
    BY WorkerAssumption
       DEF Return, WriteFailsOutside, Crash, WriteFails, Become, IInv, TypeOK, counters
  <1>2. Holding(p)'
    BY <1>1, IdleHolds DEF IInv
  <1>3. QED
    BY <1>1, <1>2, IdleType, ProcStep

LEMMA NextIInv == IInv /\ [Next]_vars => IInv'
  <1>1. CASE Next /\ IInv
    <2>1. PICK p \in Procs :
             \/ \E r \in Requests : SubmitFind(p, r)
             \/ \E j \in Jobs : RunLoad(p, j)
             \/ Advance(p)
             \/ Interrupt(p)
             \/ Crash(p)
      BY <1>1 DEF Next
    <2>2. CASE Advance(p)
      BY <1>1, <2>2, SubmitSaveIInv, MarkRunningIInv, HandlerIInv, PublishResultIInv,
         MarkSucceededIInv, RecordFailureIInv, RaisedInTryIInv, CallOverIInv
         DEF Advance
    <2>3. QED
      BY <1>1, <2>1, <2>2, SubmitFindIInv, RunLoadIInv, RaisedInTryIInv, CallOverIInv
  <1>2. CASE UNCHANGED vars /\ IInv
    BY <1>2 DEF vars, disk, IInv, TypeOK, Holding, At, SucceededHasResult,
                HasStatus, Stored
  <1>3. QED
    BY <1>1, <1>2

\* IInv is an invariant of every instance.
THEOREM Invariant == Spec => []IInv
  <1>1. QED
    BY InitIInv, NextIInv, PTL DEF Spec

\* The store and the processes hold only what the code can put there, and a
\* stored job keeps the key its identifier was submitted with.
THEOREM TypeCorrect == Spec => []TypeOK
  <1>1. IInv => TypeOK
    BY DEF IInv
  <1>2. QED
    BY <1>1, Invariant, PTL

\* worker.run never lets SUCCEEDED be seen before the result is on disk, for
\* any number of workers, crashes and failed writes.
THEOREM ResultBeforeSuccess == Spec => []SucceededHasResult
  <1>1. IInv => SucceededHasResult
    BY DEF IInv
  <1>2. QED
    BY <1>1, Invariant, PTL

-----------------------------------------------------------------------------
(* One worker process owns the store. *)

Succeeded(job) == [job EXCEPT !.status = "SUCCEEDED"]

\* Inside the try block, or in its except branch for another reason than a
\* KeyboardInterrupt.
Attempting(w) ==
    \/ proc[w].at \in {"handling", "publishing", "marking"}
    \/ At(w, "recording") /\ interrupts = 0

\* What the owner w holds is what the disk says, at every statement, except
\* that an interrupt lets the except branch run after SUCCEEDED was stored.
Current(w) ==
    /\ At(w, "saving") => FindIdempotency(KeyOf(proc[w].job)) = {}
    /\ At(w, "loaded") => /\ jobFile[proc[w].job] = proc[w].copy
                          /\ proc[w].copy.status \notin Terminal
    /\ proc[w].at \in Begun =>
         /\ proc[w].copy.status = "RUNNING"
         /\ jobFile[proc[w].job] \in {proc[w].copy, Succeeded(proc[w].copy)}
    /\ Attempting(w) => jobFile[proc[w].job] = proc[w].copy
    /\ At(w, "returning") => jobFile[proc[w].job] = Succeeded(proc[w].copy)

Allowance == MaxAttempts + crashes + writeErrors
Working(w, j) == proc[w].at \in Begun /\ proc[w].job = j

\* A job that may be run again still has an attempt to spend.
Budget(w) ==
    \A j \in Jobs : Stored(j) =>
        /\ jobFile[j].attempts <= Allowance
        /\ jobFile[j].status \notin Terminal /\ ~Working(w, j)
             => jobFile[j].attempts < Allowance

OwnerInv(w) ==
    /\ IInv
    /\ Current(w)
    /\ OneJobPerKey
    /\ Budget(w)

-----------------------------------------------------------------------------
(* What the steps do, pointwise. *)

\* A save writes the file of the process's job and no other.
LEMMA SaveIs ==
    ASSUME IInv, NEW p \in Procs, ~At(p, "idle"), NEW job, Save(p, job)
    PROVE  /\ proc[p].job \in Jobs
           /\ \A j \in Jobs : jobFile'[j] = IF j = proc[p].job THEN job ELSE jobFile[j]
  BY DEF IInv, Holding, TypeOK, Save

LEMMA BecomeIs ==
    ASSUME IInv, NEW p \in Procs, NEW state, Become(p, state)
    PROVE  proc'[p] = state
  BY DEF IInv, TypeOK, Become

\* A step of the owner that leaves the files alone.
Quiet == UNCHANGED jobFile

LEMMA GotoIs ==
    ASSUME IInv, NEW p \in Procs, NEW label, Goto(p, label)
    PROVE  /\ proc'[p].at = label
           /\ proc'[p].job = proc[p].job
           /\ proc'[p].copy = proc[p].copy
  BY DEF IInv, TypeOK, Goto

LEMMA RaiseIs ==
    ASSUME IInv, NEW p \in Procs, NEW failure, Raise(p, failure)
    PROVE  /\ proc'[p].at = "recording"
           /\ proc'[p].job = proc[p].job
           /\ proc'[p].copy = proc[p].copy
  BY RaiseState DEF IInv

-----------------------------------------------------------------------------
(* The owner's copy stays current, and keys stay apart. *)

LEMMA CurrentStep ==
    ASSUME NEW w, Procs = {w}, IInv, Current(w), OneJobPerKey, Next
    PROVE  Current(w)' /\ OneJobPerKey'
  <1> USE DEF At
  <1>0. w \in Procs
    OBVIOUS
  <1>1. CASE \E r \in Requests : SubmitFind(w, r)
    <2>1. PICK r \in Requests : SubmitFind(w, r)
      BY <1>1
    <2>2. r.job \in Jobs /\ KeyOf(r.job) = r.key
      BY KeyOfRequest
    <2>3. proc'[w] = [at |-> "saving", job |-> r.job, copy |-> Received(r.key),
                      retry |-> FALSE] /\ Quiet
      BY <1>0, <2>1, BecomeIs DEF SubmitFind, disk, Quiet
    <2>4. FindIdempotency(r.key) = {}
      BY <2>1 DEF SubmitFind
    <2>5. QED
      BY <2>2, <2>3, <2>4 DEF Current, OneJobPerKey, Stored, FindIdempotency, Begun, Attempting,
                               Quiet
  <1>2. CASE SubmitSave(w)
    <2>1. /\ proc[w].job \in Jobs
          /\ proc[w].copy = Received(KeyOf(proc[w].job))
          /\ FindIdempotency(KeyOf(proc[w].job)) = {}
      BY <1>0, <1>2 DEF SubmitSave, IInv, Holding, Current
    <2>2. \A j \in Jobs : jobFile'[j] = IF j = proc[w].job
                                          THEN Received(KeyOf(proc[w].job))
                                          ELSE jobFile[j]
      BY <1>0, <1>2, <2>1, SaveIs DEF SubmitSave
    <2>3. proc'[w] = Idle
      BY <1>0, <1>2, BecomeIs DEF SubmitSave
    <2>4. Current(w)'
      BY <2>3 DEF Current, Idle, Begun, Attempting
    <2>5. OneJobPerKey'
      BY <2>1, <2>2 DEF OneJobPerKey, Stored, FindIdempotency, Received
    <2>6. QED
      BY <2>4, <2>5
  <1>3. CASE \E j \in Jobs : RunLoad(w, j)
    <2>1. PICK j \in Jobs : RunLoad(w, j)
      BY <1>3
    <2>2. proc'[w] = [at |-> "loaded", job |-> j, copy |-> jobFile[j],
                      retry |-> FALSE] /\ Quiet
      BY <1>0, <2>1, BecomeIs DEF RunLoad, disk, Quiet
    <2>3. QED
      BY <2>1, <2>2 DEF RunLoad, Current, OneJobPerKey, Stored, Begun, Attempting, Quiet
  <1>4. CASE MarkRunning(w)
    <2>1. /\ proc[w].job \in Jobs /\ proc[w].copy \in LocalJob
          /\ proc[w].copy.attempts < MaxRuns
          /\ jobFile[proc[w].job] = proc[w].copy
      BY <1>0, <1>4 DEF MarkRunning, IInv, Holding, Current
    <2>2. Running(proc[w].copy).key = proc[w].copy.key
          /\ Running(proc[w].copy).status = "RUNNING"
      BY <2>1, RunningType
    <2>3. \A j \in Jobs : jobFile'[j] = IF j = proc[w].job THEN Running(proc[w].copy)
                                                           ELSE jobFile[j]
      BY <1>0, <1>4, SaveIs DEF MarkRunning
    <2>4. /\ proc'[w].at = "handling" /\ proc'[w].job = proc[w].job
          /\ proc'[w].copy = Running(proc[w].copy)
      BY <1>0, <1>4, BecomeIs DEF MarkRunning, IInv, TypeOK
    <2>5. QED
      BY <2>1, <2>2, <2>3, <2>4, Sentinels
         DEF Current, OneJobPerKey, Stored, Begun, Attempting
  <1>5. CASE \/ HandlerReturns(w) \/ PublishResult(w) \/ WriteFailsInTry(w)
             \/ Interrupt(w) \/ \E failure \in Failure : HandlerRaises(w, failure)
    <2>1. /\ Quiet /\ proc[w].at \in Begun
          /\ interrupts' = 0 => Attempting(w)
      <3>1. interrupts \in Nat /\ (Interrupt(w) => interrupts' = interrupts + 1)
        BY WorkerAssumption DEF IInv, TypeOK, Interrupt
      <3>2. QED
        BY <1>5, <3>1 DEF HandlerReturns, HandlerRaises, PublishResult, WriteFailsInTry,
                  WriteFails, Interrupt, disk, counters, Begun, Quiet, Attempting
    <2>2. /\ proc'[w].at \in {"publishing", "marking", "recording"}
          /\ proc'[w].at # "recording" => Attempting(w)
          /\ proc'[w].job = proc[w].job
          /\ proc'[w].copy = proc[w].copy
      BY <1>0, <1>5, GotoIs, RaiseIs
         DEF HandlerReturns, HandlerRaises, PublishResult, WriteFailsInTry, Interrupt,
             Attempting
    <2>3. Current(w)'
      BY <2>1, <2>2 DEF Current, Begun, Quiet, Attempting
    <2>4. QED
      BY <2>1, <2>3 DEF OneJobPerKey, Stored, Quiet
  <1>6. CASE MarkSucceeded(w) \/ RecordFailure(w)
    <2>1. PICK status : Save(w, [proc[w].copy EXCEPT !.status = status])
      BY <1>6 DEF MarkSucceeded, RecordFailure
    <2>2. /\ proc[w].job \in Jobs /\ proc[w].copy \in LocalJob
          /\ proc[w].copy.status = "RUNNING"
          /\ jobFile[proc[w].job] \in {proc[w].copy, Succeeded(proc[w].copy)}
          /\ Succeeded(proc[w].copy).key = proc[w].copy.key
          /\ Succeeded(proc[w].copy) \in LocalJob
      BY <1>0, <1>6 DEF MarkSucceeded, RecordFailure, IInv, Holding, Current, Begun,
                        Succeeded, LocalJob, Statuses, Terminal
    <2>3. [proc[w].copy EXCEPT !.status = status].key = proc[w].copy.key
      BY <2>2 DEF LocalJob
    <2>4. ~At(w, "idle")
      BY <1>6 DEF MarkSucceeded, RecordFailure
    <2>5. \A j \in Jobs : jobFile'[j] = IF j = proc[w].job
                                          THEN [proc[w].copy EXCEPT !.status = status]
                                          ELSE jobFile[j]
      BY <1>0, <2>1, <2>4, SaveIs
    <2>7. Current(w)'
      <3>1. CASE MarkSucceeded(w)
        <4>1. /\ proc'[w].at = "returning" /\ proc'[w].job = proc[w].job
              /\ proc'[w].copy = proc[w].copy
          BY <1>0, <3>1, GotoIs DEF MarkSucceeded
        <4>2. jobFile'[proc[w].job] = Succeeded(proc[w].copy)
          BY <1>0, <2>2, <2>4, <3>1, SaveIs DEF MarkSucceeded, Succeeded
        <4>3. QED
          BY <2>2, <4>1, <4>2 DEF Current, Begun, Attempting
      <3>2. CASE RecordFailure(w)
        <4>1. proc'[w] = Idle
          BY <1>0, <3>2, BecomeIs DEF RecordFailure
        <4>2. QED
          BY <4>1 DEF Current, Begun, Idle, Attempting
      <3>3. QED
        BY <1>6, <3>1, <3>2
    <2>8. proc[w].copy # NoFile /\ Succeeded(proc[w].copy) # NoFile
      BY <2>2, Sentinels
    <2>9. \A j \in Jobs : Stored(j)' => Stored(j) /\ jobFile'[j].key = jobFile[j].key
      BY <2>2, <2>3, <2>5, <2>8 DEF Stored
    <2>10. QED
      BY <2>7, <2>9 DEF OneJobPerKey
  <1>7. CASE Return(w) \/ WriteFailsOutside(w) \/ Crash(w)
    <2>1. proc'[w] = Idle /\ Quiet
      BY <1>0, <1>7, BecomeIs
         DEF Return, WriteFailsOutside, WriteFails, Crash, disk, Quiet
    <2>2. QED
      BY <2>1 DEF Current, OneJobPerKey, Stored, Begun, Attempting, Idle, Quiet
  <1>8. QED
    BY <1>1, <1>2, <1>3, <1>4, <1>5, <1>6, <1>7 DEF Next, Advance
-----------------------------------------------------------------------------
(* The attempts of a job stay within what its interruptions allow. *)

\* Interruptions only add to the allowance.
LEMMA AllowanceGrows ==
    ASSUME NEW w, Procs = {w}, IInv, Next
    PROVE  /\ Allowance \in Nat /\ Allowance' \in Nat
           /\ MaxAttempts <= Allowance
           /\ Allowance <= Allowance'
           /\ Crash(w) \/ WriteFailsInTry(w) \/ WriteFailsOutside(w)
                => Allowance < Allowance'
  <1>1. crashes \in Nat /\ writeErrors \in Nat
    BY WorkerAssumption DEF IInv, TypeOK
  <1>2. \/ crashes' = crashes + 1 /\ writeErrors' = writeErrors /\ Crash(w)
        \/ crashes' = crashes /\ writeErrors' = writeErrors + 1
        \/ /\ crashes' = crashes /\ writeErrors' = writeErrors
           /\ ~Crash(w) /\ ~WriteFailsInTry(w) /\ ~WriteFailsOutside(w)
    BY <1>1 DEF Next, Advance, SubmitFind, RunLoad, SubmitSave, MarkRunning,
            HandlerReturns, HandlerRaises, PublishResult, MarkSucceeded, Return,
            RecordFailure, WriteFailsInTry, WriteFailsOutside, WriteFails, Crash,
            Interrupt, counters
  <1>3. QED
    BY <1>1, <1>2, WorkerAssumption DEF Allowance

\* A job whose file a step leaves alone, and that the owner does not put down,
\* keeps its budget.
LEMMA BudgetKept ==
    ASSUME NEW w, Procs = {w}, IInv, Budget(w), Next, NEW j \in Jobs, Stored(j)',
           jobFile'[j] = jobFile[j],
           ~Working(w, j)' => ~Working(w, j) \/ Allowance < Allowance'
    PROVE  /\ jobFile'[j].attempts <= Allowance'
           /\ jobFile'[j].status \notin Terminal /\ ~Working(w, j)'
                => jobFile'[j].attempts < Allowance'
  <1> DEFINE a == jobFile[j].attempts
  <1>1. Stored(j) /\ jobFile'[j].attempts = a /\ jobFile'[j].status = jobFile[j].status
    BY DEF Stored
  <1>2. a \in Nat /\ a <= Allowance
    BY <1>1, WorkerAssumption DEF IInv, TypeOK, LocalJob, Stored, Budget
  <1>3. jobFile[j].status \notin Terminal /\ ~Working(w, j) => a < Allowance
    BY <1>1 DEF Budget
  <1>4. Allowance \in Nat /\ Allowance' \in Nat /\ Allowance <= Allowance'
    BY AllowanceGrows
  <1> HIDE DEF a
  <1>5. a <= Allowance' /\ (a < Allowance => a < Allowance')
    BY <1>2, <1>4
  <1>6. Allowance < Allowance' => a < Allowance'
    BY <1>2, <1>4
  <1>7. QED
    BY <1>1, <1>3, <1>5, <1>6

LEMMA BudgetStep ==
    ASSUME NEW w, Procs = {w}, IInv, Current(w), Budget(w), Next
    PROVE  Budget(w)'
  <1> USE DEF At
  <1>0. w \in Procs
    OBVIOUS
  <1>a. /\ Allowance \in Nat /\ Allowance' \in Nat
        /\ MaxAttempts <= Allowance /\ Allowance <= Allowance'
        /\ Crash(w) \/ WriteFailsInTry(w) \/ WriteFailsOutside(w)
             => Allowance < Allowance'
    BY AllowanceGrows
  <1>b. \A j \in Jobs : Stored(j) => jobFile[j].attempts \in Nat
    BY WorkerAssumption DEF IInv, TypeOK, LocalJob, Stored
  <1>c. SUFFICES ASSUME NEW j \in Jobs, Stored(j)'
                 PROVE  /\ jobFile'[j].attempts <= Allowance'
                        /\ jobFile'[j].status \notin Terminal /\ ~Working(w, j)'
                             => jobFile'[j].attempts < Allowance'
    BY DEF Budget
  <1>1. CASE (\E r \in Requests : SubmitFind(w, r)) \/ (\E i \in Jobs : RunLoad(w, i))
    <2>1. Quiet /\ proc[w].at \notin Begun
      BY <1>1 DEF SubmitFind, RunLoad, Quiet, disk, Begun
    <2>2. QED
      BY <2>1, <1>c, BudgetKept DEF Working, Quiet
  <1>2. CASE SubmitSave(w)
    <2>1. /\ proc[w].copy = Received(KeyOf(proc[w].job))
          /\ proc[w].at \notin Begun
      BY <1>0, <1>2 DEF SubmitSave, IInv, Holding, Begun
    <2>2. jobFile'[j] = IF j = proc[w].job THEN proc[w].copy ELSE jobFile[j]
      BY <1>0, <1>2, SaveIs DEF SubmitSave
    <2>3. CASE j = proc[w].job
      BY <2>1, <2>2, <2>3, <1>a, WorkerAssumption DEF Received
    <2>4. CASE j # proc[w].job
      BY <2>1, <2>2, <2>4, <1>c, BudgetKept DEF Working
    <2>5. QED
      BY <2>3, <2>4
  <1>4. CASE MarkRunning(w)
    <2>1. /\ proc[w].job \in Jobs /\ proc[w].copy \in LocalJob
          /\ proc[w].copy.attempts < MaxRuns
          /\ jobFile[proc[w].job] = proc[w].copy
          /\ proc[w].copy.status \notin Terminal
          /\ proc[w].at \notin Begun
      BY <1>0, <1>4 DEF MarkRunning, IInv, Holding, Current, Begun
    <2>2. jobFile'[j] = IF j = proc[w].job THEN Running(proc[w].copy) ELSE jobFile[j]
      BY <1>0, <1>4, SaveIs DEF MarkRunning
    <2>3. Running(proc[w].copy).attempts = proc[w].copy.attempts + 1
      BY <2>1, RunningType
    <2>4. proc'[w].at \in Begun /\ proc'[w].job = proc[w].job
      BY <1>0, <1>4, BecomeIs DEF MarkRunning, IInv, TypeOK, Begun
    <2>5. CASE j = proc[w].job
      <3>1. Stored(j) /\ ~Working(w, j)
        BY <2>1, <2>5, Sentinels DEF Stored, Working
      <3>2. proc[w].copy.attempts < Allowance /\ proc[w].copy.attempts \in Nat
        BY <2>1, <2>5, <3>1, <1>b DEF Budget
      <3>3. QED
        BY <2>2, <2>3, <2>4, <2>5, <3>2, <1>a DEF Working
    <2>6. CASE j # proc[w].job
      BY <2>1, <2>2, <2>6, <1>c, BudgetKept DEF Working
    <2>7. QED
      BY <2>5, <2>6
  <1>5. CASE \/ HandlerReturns(w) \/ PublishResult(w) \/ WriteFailsInTry(w)
             \/ Interrupt(w) \/ \E failure \in Failure : HandlerRaises(w, failure)
    <2>1. Quiet
      BY <1>5 DEF HandlerReturns, HandlerRaises, PublishResult, WriteFailsInTry,
                  WriteFails, Interrupt, disk, Quiet
    <2>2. proc'[w].at \in Begun /\ proc'[w].job = proc[w].job
      BY <1>0, <1>5, GotoIs, RaiseIs
         DEF HandlerReturns, HandlerRaises, PublishResult, WriteFailsInTry, Interrupt,
             Begun
    <2>3. QED
      BY <2>1, <2>2, <1>c, BudgetKept DEF Working, Quiet
  <1>6. CASE MarkSucceeded(w) \/ RecordFailure(w)
    <2>1. /\ proc[w].job \in Jobs /\ proc[w].copy \in LocalJob
          /\ jobFile[proc[w].job].attempts = proc[w].copy.attempts
          /\ Stored(proc[w].job)
      <3>1. /\ proc[w].job \in Jobs /\ proc[w].copy \in LocalJob
            /\ jobFile[proc[w].job] \in {proc[w].copy, Succeeded(proc[w].copy)}
        BY <1>0, <1>6 DEF MarkSucceeded, RecordFailure, IInv, Holding, Current, Begun
      <3>2. /\ Succeeded(proc[w].copy) \in LocalJob
            /\ Succeeded(proc[w].copy).attempts = proc[w].copy.attempts
        BY <3>1 DEF Succeeded, LocalJob, Statuses, Terminal
      <3>3. QED
        BY <3>1, <3>2, Sentinels DEF Stored
    <2>2. PICK status :
            /\ Save(w, [proc[w].copy EXCEPT !.status = status])
            /\ status \notin Terminal => proc[w].copy.attempts < MaxAttempts
      BY <1>6, FailureStatusType DEF MarkSucceeded, RecordFailure, Terminal
    <2> DEFINE job == [proc[w].copy EXCEPT !.status = status]
    <2>3. job.attempts = proc[w].copy.attempts /\ job.status = status
      BY <2>1 DEF LocalJob
    <2>4. ~At(w, "idle")
      BY <1>6 DEF MarkSucceeded, RecordFailure
    <2>5. jobFile'[j] = IF j = proc[w].job THEN job ELSE jobFile[j]
      BY <1>0, <2>2, <2>4, SaveIs
    <2>6. proc[w].copy.attempts <= Allowance /\ proc[w].copy.attempts \in Nat
      BY <2>1, <1>b DEF Budget
    <2> HIDE DEF job
    <2>7. CASE j = proc[w].job
      BY <2>2, <2>3, <2>5, <2>6, <2>7, <1>a, WorkerAssumption
    <2>8. CASE j # proc[w].job
      BY <2>5, <2>8, <1>c, BudgetKept DEF Working
    <2>9. QED
      BY <2>7, <2>8
  <1>9. CASE Return(w)
    <2>1. /\ Quiet /\ proc[w].job \in Jobs
          /\ jobFile[proc[w].job] = Succeeded(proc[w].copy)
          /\ proc[w].copy \in LocalJob
      BY <1>0, <1>9 DEF Return, IInv, Holding, Current, disk, Quiet
    <2>2. jobFile[proc[w].job].status \in Terminal
      BY <2>1 DEF Succeeded, LocalJob, Terminal
    <2>3. CASE j = proc[w].job
      <3>1. jobFile'[j] = jobFile[j] /\ Stored(j)
        BY <2>1, <1>c DEF Quiet, Stored
      <3>2. jobFile[j].attempts \in Nat /\ jobFile[j].attempts <= Allowance
        BY <3>1, <1>b DEF Budget
      <3>3. jobFile[j].attempts <= Allowance'
        BY <3>2, <1>a
      <3>4. QED
        BY <2>2, <2>3, <3>1, <3>3
    <2>4. CASE j # proc[w].job
      BY <2>1, <2>4, <1>c, BudgetKept DEF Working, Quiet
    <2>5. QED
      BY <2>3, <2>4
  <1>7. CASE WriteFailsOutside(w) \/ Crash(w)
    <2>1. Quiet /\ Allowance < Allowance'
      BY <1>7, <1>a DEF WriteFailsOutside, WriteFails, Crash, disk, Quiet
    <2>2. QED
      BY <2>1, <1>c, BudgetKept DEF Quiet
  <1>8. QED
    BY <1>1, <1>2, <1>4, <1>5, <1>6, <1>7, <1>9 DEF Next, Advance

-----------------------------------------------------------------------------
\* Every step of an owned store that is not interrupted is a step of the ledger,
\* or none.
LEMMA LedgerStep ==
    ASSUME NEW w, Procs = {w}, MaxInterrupts = 0, IInv, Current(w), [Next]_vars
    PROVE  [Ledger!Next]_(Ledger!ledger)
  <1> USE DEF At
  <1>0. w \in Procs
    OBVIOUS
  <1>i. interrupts = 0 /\ ~Interrupt(w)
    BY DEF IInv, TypeOK, Interrupt
  <1> DEFINE phase == [j \in Jobs |-> Phase(j)]
  <1>a. ASSUME Quiet PROVE phase' = phase
    BY <1>a DEF Phase, Stored, HasStatus, Quiet
  <1>1. CASE \/ \E r \in Requests : SubmitFind(w, r)
             \/ \E j \in Jobs : RunLoad(w, j)
             \/ HandlerReturns(w) \/ WriteFailsInTry(w)
             \/ \E failure \in Failure : HandlerRaises(w, failure)
             \/ Return(w) \/ WriteFailsOutside(w) \/ Crash(w)
             \/ UNCHANGED vars
    <2>1. Quiet /\ UNCHANGED resultFile
      BY <1>1 DEF SubmitFind, RunLoad, HandlerReturns, HandlerRaises, WriteFailsInTry,
                  Return, WriteFailsOutside, WriteFails, Crash, disk, Quiet, vars
    <2>2. QED
      BY <2>1, <1>a DEF Ledger!ledger
  <1>2. CASE SubmitSave(w)
    <2> DEFINE i == proc[w].job
    <2>1. /\ i \in Jobs
          /\ proc[w].copy = Received(KeyOf(i))
          /\ FindIdempotency(KeyOf(i)) = {}
      BY <1>0, <1>2 DEF SubmitSave, IInv, Holding, Current
    <2>2. \A j \in Jobs : jobFile'[j] = IF j = i THEN proc[w].copy ELSE jobFile[j]
      BY <1>0, <1>2, SaveIs DEF SubmitSave
    <2>3. proc[w].copy # NoFile /\ proc[w].copy.status = "RECEIVED"
      BY <2>1, ReceivedType, Sentinels DEF Received
    <2>4. jobFile[i] = NoFile
      BY <2>1 DEF FindIdempotency, IInv, TypeOK
    <2>5. phase[i] = "absent" /\ phase' = [phase EXCEPT ![i] = "open"]
      BY <2>1, <2>2, <2>3, <2>4 DEF Phase, Stored, HasStatus
    <2>6. UNCHANGED resultFile
      BY <1>2 DEF SubmitSave
    <2>7. Ledger!Accept(i)
      BY <2>5, <2>6 DEF Ledger!Accept
    <2>8. QED
      BY <2>1, <2>7 DEF Ledger!Next
  <1>3. CASE MarkRunning(w)
    <2>1. /\ proc[w].job \in Jobs /\ proc[w].copy \in LocalJob
          /\ proc[w].copy.attempts < MaxRuns
          /\ jobFile[proc[w].job] = proc[w].copy
          /\ proc[w].copy.status \notin Terminal
      BY <1>0, <1>3 DEF MarkRunning, IInv, Holding, Current
    <2>2. \A j \in Jobs : jobFile'[j] = IF j = proc[w].job THEN Running(proc[w].copy)
                                                           ELSE jobFile[j]
      BY <1>0, <1>3, SaveIs DEF MarkRunning
    <2>3. Running(proc[w].copy).status = "RUNNING" /\ Running(proc[w].copy) # NoFile
          /\ proc[w].copy # NoFile
      BY <2>1, RunningType, Sentinels
    <2>4. phase' = phase
      BY <2>1, <2>2, <2>3 DEF Phase, Stored, HasStatus, Terminal
    <2>5. QED
      BY <1>3, <2>4 DEF MarkRunning, Ledger!ledger
  <1>4. CASE PublishResult(w)
    <2> DEFINE i == proc[w].job
    <2>1. /\ i \in Jobs /\ proc[w].copy \in LocalJob
          /\ proc[w].copy.attempts \in 1..MaxRuns
          /\ jobFile[i] = proc[w].copy /\ proc[w].copy.status = "RUNNING"
      BY <1>0, <1>4 DEF PublishResult, IInv, Holding, Current, Begun, Attempting
    <2>2. phase[i] = "open"
      BY <2>1, Sentinels DEF Phase, Stored, HasStatus
    <2>3. Quiet /\ resultFile' = [resultFile EXCEPT ![i] = proc[w].copy.attempts]
      BY <1>4 DEF PublishResult, Quiet
    <2>4. Ledger!Publish(i, proc[w].copy.attempts)
      BY <2>2, <2>3, <1>a DEF Ledger!Publish
    <2>5. QED
      BY <2>1, <2>4 DEF Ledger!Next
  <1>5. CASE MarkSucceeded(w) \/ RecordFailure(w)
    <2> DEFINE i == proc[w].job
    <2>1. /\ i \in Jobs /\ proc[w].copy \in LocalJob
          /\ jobFile[i] = proc[w].copy /\ proc[w].copy.status = "RUNNING"
          /\ MarkSucceeded(w) => resultFile[i] # NoResult
      BY <1>0, <1>5, <1>i
         DEF MarkSucceeded, RecordFailure, IInv, Holding, Current, Begun, Attempting
    <2>2. PICK status :
            /\ Save(w, [proc[w].copy EXCEPT !.status = status])
            /\ \/ MarkSucceeded(w) /\ status = "SUCCEEDED"
               \/ status \in {"FAILED_RETRYABLE", "FAILED_TERMINAL"}
      BY <1>5, FailureStatusType DEF MarkSucceeded, RecordFailure
    <2> DEFINE job == [proc[w].copy EXCEPT !.status = status]
    <2>3. job.status = status /\ job \in LocalJob /\ job # NoFile
      <3>1. status \in Statuses
        BY <2>2 DEF Statuses, Terminal
      <3>2. QED
        BY <2>1, <3>1, Sentinels DEF LocalJob
    <2>4. ~At(w, "idle")
      BY <1>5 DEF MarkSucceeded, RecordFailure
    <2>5. \A j \in Jobs : jobFile'[j] = IF j = i THEN job ELSE jobFile[j]
      BY <1>0, <2>2, <2>4, SaveIs
    <2>6. phase[i] = "open"
      BY <2>1, Sentinels DEF Phase, Stored, HasStatus
    <2>7. UNCHANGED resultFile
      BY <1>5 DEF MarkSucceeded, RecordFailure
    <2> HIDE DEF job
    <2>8. CASE status = "SUCCEEDED"
      <3>1. phase' = [phase EXCEPT ![i] = "succeeded"]
        BY <2>1, <2>3, <2>5, <2>8 DEF Phase, Stored, HasStatus
      <3>2. Ledger!Succeed(i)
        BY <2>1, <2>2, <2>6, <2>7, <2>8, <3>1 DEF Ledger!Succeed
      <3>3. QED
        BY <2>1, <3>2 DEF Ledger!Next
    <2>9. CASE status = "FAILED_TERMINAL"
      <3>1. phase' = [phase EXCEPT ![i] = "failed"]
        BY <2>1, <2>3, <2>5, <2>9 DEF Phase, Stored, HasStatus
      <3>2. Ledger!Fail(i)
        BY <2>6, <2>7, <3>1 DEF Ledger!Fail
      <3>3. QED
        BY <2>1, <3>2 DEF Ledger!Next
    <2>10. CASE status = "FAILED_RETRYABLE"
      <3>1. phase' = phase
        BY <2>1, <2>3, <2>5, <2>6, <2>10 DEF Phase, Stored, HasStatus
      <3>2. QED
        BY <2>7, <3>1 DEF Ledger!ledger
    <2>11. QED
      BY <2>2, <2>8, <2>9, <2>10
  <1>6. QED
    BY <1>1, <1>2, <1>3, <1>4, <1>5, <1>i DEF Next, Advance

-----------------------------------------------------------------------------
LEMMA OwnerInit == ASSUME NEW w, Procs = {w}, Init PROVE OwnerInv(w)
  <1>1. IInv
    BY InitIInv
  <1>2. Current(w) /\ OneJobPerKey /\ Budget(w)
    BY DEF Init, Current, OneJobPerKey, Budget, At, Idle, Begun, Attempting, Stored
  <1>3. QED
    BY <1>1, <1>2 DEF OwnerInv

LEMMA OwnerNext ==
    ASSUME NEW w, Procs = {w}, OwnerInv(w), [Next]_vars PROVE OwnerInv(w)'
  <1>1. IInv'
    BY NextIInv DEF OwnerInv
  <1>2. CASE Next
    BY <1>1, <1>2, CurrentStep, BudgetStep DEF OwnerInv
  <1>3. CASE UNCHANGED vars
    BY <1>1, <1>3 DEF OwnerInv, Current, OneJobPerKey, Budget, At, Stored, Working,
                      Allowance, FindIdempotency, Attempting, vars
  <1>4. QED
    BY <1>2, <1>3

\* OwnerInv is an invariant of every store with one worker process.
THEOREM OwnerInvariant == ASSUME NEW w, Procs = {w} PROVE Spec => []OwnerInv(w)
  <1>1. Init => OwnerInv(w)
    BY OwnerInit
  <1>2. OwnerInv(w) /\ [Next]_vars => OwnerInv(w)'
    BY OwnerNext
  <1>3. QED
    BY <1>1, <1>2, PTL DEF Spec

\* submit of one worker process never stores two jobs for one idempotency key.
THEOREM SubmitIdempotent == ASSUME NEW w, Procs = {w} PROVE Spec => []OneJobPerKey
  <1>1. OwnerInv(w) => OneJobPerKey
    BY DEF OwnerInv
  <1>2. QED
    BY <1>1, OwnerInvariant, PTL

\* run of one worker process exceeds max_attempts only by attempts that a crash
\* or a failed write interrupted.
THEOREM AttemptsBounded == ASSUME NEW w, Procs = {w} PROVE Spec => []AttemptsPaidFor
  <1>1. OwnerInv(w) => AttemptsPaidFor
    BY DEF OwnerInv, Budget, AttemptsPaidFor, Allowance
  <1>2. QED
    BY <1>1, OwnerInvariant, PTL

\* The store of one worker process that nobody interrupts implements the ledger:
\* through crashes and failed writes an outcome is final, and success comes with
\* its result.
THEOREM StoreImplementsLedger ==
    ASSUME NEW w, Procs = {w}, MaxInterrupts = 0
    PROVE  Spec => ImplementsLedger
  <1>1. Init => Ledger!Init
    BY DEF Init, Ledger!Init, Phase, Stored, HasStatus
  <1>2. OwnerInv(w) /\ OwnerInv(w)' /\ [Next]_vars => [Ledger!Next]_(Ledger!ledger)
    BY LedgerStep DEF OwnerInv
  <1>3. QED
    BY <1>1, <1>2, OwnerInvariant, PTL DEF Spec, ImplementsLedger, Ledger!Spec
=============================================================================
