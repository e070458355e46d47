------------------------------ MODULE JobWorker ------------------------------
(***************************************************************************)
(* The local job state machine of src/sddiar/worker.py: worker processes   *)
(* share one LocalJobStore directory.  Every write of the store goes       *)
(* through service.atomic_publish, so a file changes in one step or not at *)
(* all; everything a process holds between two writes is lost when it      *)
(* crashes.  The handler is the caller's: only how it ends is modelled.    *)
(***************************************************************************)
EXTENDS Naturals, FiniteSets, Failures

CONSTANTS Procs,          \* worker processes that share the store
          Requests,       \* what callers submit: records [job, key]
          MaxAttempts,    \* LocalWorker.max_attempts
          MaxRuns,        \* bound: times a job is run
          MaxCrashes,     \* bound: crashes of worker processes
          MaxWriteErrors, \* bound: writes of the store that fail
          MaxInterrupts,  \* bound: KeyboardInterrupts inside the try block
          NoFile, NoResult, NoJob

\* LocalWorker.__init__ refuses max_attempts < 1.  A caller that reuses a job
\* identifier for other content is outside the model: save() would overwrite
\* the older job.
ASSUME WorkerAssumption ==
    /\ MaxAttempts \in Nat \ {0}
    /\ MaxRuns \in Nat /\ MaxCrashes \in Nat
    /\ MaxWriteErrors \in Nat /\ MaxInterrupts \in Nat
    /\ \A r, s \in Requests : r.job = s.job => r.key = s.key

Jobs == {r.job : r \in Requests}
Keys == {r.key : r \in Requests}
KeyOf(j) == (CHOOSE r \in Requests : r.job = j).key

Terminal == {"SUCCEEDED", "FAILED_TERMINAL"}
Statuses == {"RECEIVED", "RUNNING", "FAILED_RETRYABLE"} \cup Terminal

ASSUME SentinelAssumption ==
    /\ NoResult \notin 1..MaxRuns
    /\ NoFile \notin [key : Keys, status : Statuses, attempts : 0..MaxRuns]

VARIABLES
    jobFile,     \* jobs/<id>.json: the stored LocalJob, or NoFile
    resultFile,  \* results/<id>.json: the attempt that wrote it, or NoResult
    proc,        \* each process: where it is in submit or run, the job it works
                 \* on, the LocalJob it holds, classify_retry of its exception
    crashes,     \* processes that died so far
    writeErrors, \* writes of the store that failed so far
    interrupts   \* KeyboardInterrupts that hit the try block so far

disk == << jobFile, resultFile >>
counters == << crashes, writeErrors, interrupts >>
vars == << jobFile, resultFile, proc, crashes, writeErrors, interrupts >>

LocalJob == [key : Keys, status : Statuses, attempts : 0..MaxRuns]
Received(k) == [key |-> k, status |-> "RECEIVED", attempts |-> 0]
Idle == [at |-> "idle", job |-> NoJob, copy |-> NoFile, retry |-> FALSE]

Init ==
    /\ jobFile = [j \in Jobs |-> NoFile]
    /\ resultFile = [j \in Jobs |-> NoResult]
    /\ proc = [p \in Procs |-> Idle]
    /\ crashes = 0
    /\ writeErrors = 0
    /\ interrupts = 0

At(p, label) == proc[p].at = label
Become(p, state) == proc' = [proc EXCEPT ![p] = state]
Goto(p, label) == proc' = [proc EXCEPT ![p].at = label]
Raise(p, failure) ==
    proc' = [proc EXCEPT ![p].at = "recording",
                         ![p].retry = ClassifyRetry(failure)]

Save(p, job) == jobFile' = [jobFile EXCEPT ![proc[p].job] = job]

\* One atomic_publish fails with an OSError and leaves its target as it was.
WriteFails ==
    /\ writeErrors < MaxWriteErrors
    /\ writeErrors' = writeErrors + 1
    /\ UNCHANGED << disk, crashes, interrupts >>

-----------------------------------------------------------------------------
\* LocalWorker.submit: a job that has the key already is returned as it is;
\* otherwise the scan has found nothing and the save is a later step.
FindIdempotency(k) == {j \in Jobs : jobFile[j] # NoFile /\ jobFile[j].key = k}

\* Mutant: submit saves without looking for an earlier job with the key.
SubmitFind_NoLookup(p, r) ==
    /\ At(p, "idle")
    /\ jobFile[r.job] = NoFile
    /\ Become(p, [at |-> "saving", job |-> r.job, copy |-> Received(r.key),
                  retry |-> FALSE])
    /\ UNCHANGED << disk, counters >>

SubmitFind(p, r) ==
    /\ At(p, "idle")
    /\ FindIdempotency(r.key) = {}
    /\ Become(p, [at |-> "saving", job |-> r.job, copy |-> Received(r.key),
                  retry |-> FALSE])
    /\ UNCHANGED << disk, counters >>

SubmitSave(p) ==
    /\ At(p, "saving")
    /\ Save(p, proc[p].copy)
    /\ Become(p, Idle)
    /\ UNCHANGED << resultFile, counters >>

-----------------------------------------------------------------------------
\* Mutant: run starts again whatever has not failed for good.
RunLoad_ReopensSuccess(p, j) ==
    /\ At(p, "idle")
    /\ jobFile[j] # NoFile
    /\ jobFile[j].status # "FAILED_TERMINAL"
    /\ jobFile[j].attempts < MaxRuns
    /\ Become(p, [at |-> "loaded", job |-> j, copy |-> jobFile[j],
                  retry |-> FALSE])
    /\ UNCHANGED << disk, counters >>

\* LocalWorker.run: a finished job is returned as it is.
RunLoad(p, j) ==
    /\ At(p, "idle")
    /\ jobFile[j] # NoFile
    /\ jobFile[j].status \notin Terminal
    /\ jobFile[j].attempts < MaxRuns
    /\ Become(p, [at |-> "loaded", job |-> j, copy |-> jobFile[j],
                  retry |-> FALSE])
    /\ UNCHANGED << disk, counters >>

Running(job) ==
    [key |-> job.key, status |-> "RUNNING", attempts |-> job.attempts + 1]

MarkRunning(p) ==
    /\ At(p, "loaded")
    /\ Save(p, Running(proc[p].copy))
    /\ Become(p, [proc[p] EXCEPT !.at = "handling", !.copy = Running(@)])
    /\ UNCHANGED << resultFile, counters >>

\* Mutant: SUCCEEDED is stored without the result having been written.
HandlerReturns_SkipsPublish(p) ==
    /\ At(p, "handling")
    /\ Goto(p, "marking")
    /\ UNCHANGED << disk, counters >>

HandlerReturns(p) ==
    /\ At(p, "handling")
    /\ Goto(p, "publishing")
    /\ UNCHANGED << disk, counters >>

\* The handler raises, or returns what JSON cannot hold (a TypeError, which is
\* not retried either).
HandlerRaises(p, failure) ==
    /\ At(p, "handling")
    /\ Raise(p, failure)
    /\ UNCHANGED << disk, counters >>

PublishResult(p) ==
    /\ At(p, "publishing")
    /\ resultFile' = [resultFile EXCEPT ![proc[p].job] = proc[p].copy.attempts]
    /\ Goto(p, "marking")
    /\ UNCHANGED << jobFile, counters >>

MarkSucceeded(p) ==
    /\ At(p, "marking")
    /\ Save(p, [proc[p].copy EXCEPT !.status = "SUCCEEDED"])
    /\ Goto(p, "returning")
    /\ UNCHANGED << resultFile, counters >>

\* The file is replaced; the return statement is still inside the try block.
Return(p) ==
    /\ At(p, "returning")
    /\ Become(p, Idle)
    /\ UNCHANGED << disk, counters >>

\* Mutants: a status JobStatus does not have; a retry that never runs out.
FailureStatus_Unknown(transient, attempts) ==
    IF transient /\ attempts < MaxAttempts THEN "FAILED_RETRYABLE" ELSE "FAILED"

FailureStatus_Unbounded(transient, attempts) ==
    IF transient THEN "FAILED_RETRYABLE" ELSE "FAILED_TERMINAL"

\* The except branch: a transient failure is retried while attempts remain.
FailureStatus(transient, attempts) ==
    IF transient /\ attempts < MaxAttempts THEN "FAILED_RETRYABLE"
                                           ELSE "FAILED_TERMINAL"

RecordFailure(p) ==
    /\ At(p, "recording")
    /\ Save(p, [proc[p].copy EXCEPT
                  !.status = FailureStatus(proc[p].retry, proc[p].copy.attempts)])
    /\ Become(p, Idle)
    /\ UNCHANGED << resultFile, counters >>

\* Writes of the result and of SUCCEEDED are inside the try block: the OSError
\* is a transient failure of the attempt.
WriteFailsInTry(p) ==
    /\ proc[p].at \in {"publishing", "marking"}
    /\ WriteFails
    /\ Raise(p, "OSError")

\* So is the way from there to the end of the return statement: a
\* KeyboardInterrupt is caught with every other BaseException.
Interrupt(p) ==
    /\ proc[p].at \in {"publishing", "marking", "returning"}
    /\ interrupts < MaxInterrupts
    /\ interrupts' = interrupts + 1
    /\ Raise(p, "KeyboardInterrupt")
    /\ UNCHANGED << disk, crashes, writeErrors >>

\* The other writes are outside it: the OSError leaves submit or run, and what
\* the store says of the job stays.
WriteFailsOutside(p) ==
    /\ proc[p].at \in {"saving", "loaded", "recording"}
    /\ WriteFails
    /\ Become(p, Idle)

-----------------------------------------------------------------------------
\* The process dies and is started again; the files stay.
Crash(p) ==
    /\ ~At(p, "idle")
    /\ crashes < MaxCrashes
    /\ crashes' = crashes + 1
    /\ Become(p, Idle)
    /\ UNCHANGED << disk, writeErrors, interrupts >>

Advance(p) ==
    \/ SubmitSave(p)
    \/ MarkRunning(p)
    \/ HandlerReturns(p)
    \/ \E failure \in Failure : HandlerRaises(p, failure)
    \/ PublishResult(p)
    \/ MarkSucceeded(p)
    \/ Return(p)
    \/ RecordFailure(p)
    \/ WriteFailsInTry(p)
    \/ WriteFailsOutside(p)

Next ==
    \E p \in Procs :
        \/ \E r \in Requests : SubmitFind(p, r)
        \/ \E j \in Jobs : RunLoad(p, j)
        \/ Advance(p)
        \/ Interrupt(p)
        \/ Crash(p)

Spec == Init /\ [][Next]_vars

\* A call that has begun goes on to its next statement.
Progress == \A p \in Procs : WF_vars(Advance(p))

\* The outer policy that SDD 11.2 leaves retries to: a job that is not finished
\* is run again by some process.
Rerun == \A j \in Jobs : WF_vars(\E p \in Procs : RunLoad(p, j))

FairSpec == Spec /\ Progress
RetriedSpec == Spec /\ Progress /\ Rerun

-----------------------------------------------------------------------------
(* Properties *)

Labels == {"idle", "saving", "loaded", "handling", "publishing", "marking",
           "returning", "recording"}

\* Every variable holds what the code can store in it; a stored job always
\* carries the key its identifier was submitted with.
TypeOK ==
    /\ jobFile \in [Jobs -> LocalJob \cup {NoFile}]
    /\ \A j \in Jobs : jobFile[j] # NoFile => jobFile[j].key = KeyOf(j)
    /\ resultFile \in [Jobs -> (1..MaxRuns) \cup {NoResult}]
    /\ proc \in [Procs -> [at : Labels, job : Jobs \cup {NoJob},
                           copy : LocalJob \cup {NoFile}, retry : BOOLEAN]]
    /\ crashes \in 0..MaxCrashes
    /\ writeErrors \in 0..MaxWriteErrors
    /\ interrupts \in 0..MaxInterrupts

Stored(j) == jobFile[j] # NoFile
HasStatus(j, status) == Stored(j) /\ jobFile[j].status = status

\* worker.run publishes the result before it stores SUCCEEDED, so a reader that
\* sees SUCCEEDED always finds a result file, whatever crashes or fails.
SucceededHasResult ==
    \A j \in Jobs : HasStatus(j, "SUCCEEDED") => resultFile[j] # NoResult

\* submit is idempotent: one worker process never stores two jobs for one key.
OneJobPerKey ==
    \A i, j \in Jobs : i # j /\ Stored(i) /\ Stored(j)
                         => jobFile[i].key # jobFile[j].key

\* max_attempts bounds the attempts up to those an interruption cut short: each
\* attempt beyond it is paid for by a crash or by a write that failed.
AttemptsPaidFor ==
    \A j \in Jobs :
        Stored(j) => jobFile[j].attempts <= MaxAttempts + crashes + writeErrors

\* tests/test_worker_service.py calls the retry bounded: no job is run more
\* often than max_attempts.
RetryBounded ==
    \A j \in Jobs : Stored(j) => jobFile[j].attempts <= MaxAttempts

\* SDD 11.2: a successful result is returned, and never processed again.
SucceededIsKept ==
    [][\A j \in Jobs : HasStatus(j, "SUCCEEDED") =>
            /\ jobFile'[j] = jobFile[j]
            /\ resultFile'[j] = resultFile[j]]_vars

\* A job whose runs are repeated until it is finished does finish: whatever the
\* handler does, retries run out.
RetriesEnd ==
    \A j \in Jobs : Stored(j) ~> (Stored(j) /\ jobFile[j].status \in Terminal)

\* How the store looks to its callers.
Phase(j) ==
    CASE ~Stored(j) -> "absent"
      [] HasStatus(j, "SUCCEEDED") -> "succeeded"
      [] HasStatus(j, "FAILED_TERMINAL") -> "failed"
      [] OTHER -> "open"

Ledger == INSTANCE JobLedger WITH
              phase <- [j \in Jobs |-> Phase(j)],
              result <- resultFile,
              Results <- 1..MaxRuns

\* A single worker process that nobody interrupts is seen as the abstract
\* ledger through crashes, restarts and failed writes: outcomes are final and
\* come with their result.
ImplementsLedger == Ledger!Spec
=============================================================================
