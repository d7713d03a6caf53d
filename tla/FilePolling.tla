---------------------------- MODULE FilePolling -----------------------------
(***************************************************************************)
(* Observing the jobs of the inference service until they settle: the loop *)
(* of _poll_processing_job, run by background tasks for project files and  *)
(* by the waiting request itself for chat files.                           *)
(***************************************************************************)
EXTENDS FileRecords

Watches(x, j, step) == watch[x][j] = step
WatchGoes(x, j, step) == watch' = [watch EXCEPT ![x][j] = step]

(* A background task is started for a record unless this process already   *)
(* has one for the same file and job.                                      *)
Resumes(f) == Exists(f) /\ IsProjectFile(f) /\ IsActive(f) /\ file[f].phase # "succeeded"

ResumedBy(w, fs) ==
    [watch EXCEPT ![w] = [j \in Jobs |->
        IF watch[w][j] = "none" /\ \E f \in fs : Resumes(f) /\ file[f].job = j
        THEN "poll" ELSE watch[w][j]]]

(* Somebody opens the project: the listing resumes what is unfinished.     *)
List(w) ==
    /\ watch' = ResumedBy(w, ProjectFiles)
    /\ UNCHANGED <<file, docs, jobs, call, faults, histories>>

(* A watcher has nothing more to do: a request is answered.                *)
WatchEnds(x, j) ==
    /\ WatchGoes(x, j, "none")
    /\ call' = IF x \in Calls THEN [call EXCEPT ![x] = Idle] ELSE call

(* A job that is still queued or started only refreshes the record, and    *)
(* the loop ends when the fence refuses that.                              *)
HearsPending(x, j) ==
    /\ Watches(x, j, "poll") /\ ~jobs[j].succeeded
    /\ ~IsCurrent(jobs[j].file, j)
    /\ WatchEnds(x, j)
    /\ UNCHANGED <<file, docs, jobs, faults, histories>>

(* What the service made of the job is settled when somebody first asks.   *)
HearsSuccess(x, j) ==
    /\ Watches(x, j, "poll")
    /\ jobs' = [jobs EXCEPT ![j].succeeded = TRUE]
    /\ WatchGoes(x, j, "complete")
    /\ UNCHANGED <<file, docs, call, faults, histories>>

(* The job failed or skipped the indexing, the service no longer knows it, *)
(* or the loop has run for its time: all of them end the same way, and a   *)
(* loop may run out of time although the job succeeds.                     *)
GivesUp(x, j) ==
    /\ Watches(x, j, "poll")
    /\ WatchGoes(x, j, "fail")
    /\ UNCHANGED <<file, docs, jobs, call, faults, histories>>

Completed(record) ==
    [record EXCEPT !.status = "completed", !.phase = "succeeded", !.indexed = TRUE]
Failed(record) ==
    [record EXCEPT !.status = "failed", !.phase = "failed", !.indexed = FALSE]

CompleteFile(x, j) ==
    LET f == jobs[j].file IN
    /\ Watches(x, j, "complete")
    /\ IF IsCurrent(f, j)
       THEN /\ file' = [file EXCEPT ![f] = Completed(file[f])]
            /\ IF IsProjectFile(f) THEN WatchGoes(x, j, "count") /\ call' = call
                                   ELSE WatchEnds(x, j)
       ELSE file' = file /\ WatchEnds(x, j)
    /\ UNCHANGED <<docs, jobs, faults, histories>>

(* Mutant: the failure is written without the fence.                       *)
FailFileUnfenced(x, j) ==
    /\ Watches(x, j, "fail")
    /\ file' = IF Exists(jobs[j].file)
               THEN [file EXCEPT ![jobs[j].file] = Failed(file[jobs[j].file])] ELSE file
    /\ WatchEnds(x, j)
    /\ UNCHANGED <<docs, jobs, faults, histories>>

FailFile(x, j) ==
    LET f == jobs[j].file IN
    /\ Watches(x, j, "fail")
    /\ file' = IF IsCurrent(f, j) THEN [file EXCEPT ![f] = Failed(file[f])] ELSE file
    /\ WatchEnds(x, j)
    /\ UNCHANGED <<docs, jobs, faults, histories>>

CountFile(x, j) ==
    /\ Watches(x, j, "count")
    /\ docs' = docs + 1
    /\ counted' = [counted EXCEPT ![j] = @ + 1]
    /\ WatchEnds(x, j)
    /\ UNCHANGED <<file, jobs, faults, acked, uncounted>>

Observes(x, j) ==
    HearsPending(x, j) \/ HearsSuccess(x, j) \/ GivesUp(x, j)
    \/ CompleteFile(x, j) \/ FailFile(x, j) \/ CountFile(x, j)

=============================================================================
