---------------------------- MODULE ProjectFiles ----------------------------
(***************************************************************************)
(* Uploads, deletions, pollers, listings and the stops of processes        *)
(* together, and what must hold of them.                                   *)
(***************************************************************************)
EXTENDS FileUploads

Environment ==
    \/ \E w \in Workers : List(w) \/ Crash(w)
    \/ \E w \in Workers, j \in Jobs : PollerDies(w, j)

Next ==
    \/ \E c \in Calls : Request(c) \/ Progress(c) \/ SubmitFails(c) \/ Lost(c)
    \/ \E x \in Watchers, j \in Jobs : Observes(x, j)
    \/ Environment

Spec == Init /\ [][Next]_vars

(***************************************************************************)
(* Properties                                                              *)
(***************************************************************************)
(* Every variable has its type; a record that names a job has a phase.     *)
TypeOK ==
    /\ file \in [Files -> Records]
    /\ \A f \in Files : file[f].job # None => file[f].phase # None
    /\ docs \in Int
    /\ jobs \in Seq(JobRecords)
    /\ Len(jobs) <= MaxJobs
    /\ watch \in [Watchers -> [Jobs -> WatchSteps]]
    /\ call \in [Calls -> CallRecords]
    /\ faults \in 0 .. MaxFaults
    /\ acked \subseteq Files
    /\ counted \in [Jobs -> Nat] /\ uncounted \in [Files -> Nat]

(* A record speaks of a job of its own: "Acknowledge only after the        *)
(* inference service queues the durable job and its identifier is          *)
(* persisted locally", and a file that is shown as completed was indexed   *)
(* by the very job the record names, not by one superseded meanwhile.      *)
RecordSpeaksOfItsJob ==
    \A f \in Files :
        /\ f \in acked /\ Exists(f) => file[f].job # None
        /\ file[f].job # None => jobs[file[f].job].file = f
        /\ file[f].status = "completed" =>
               file[f].indexed /\ file[f].job # None /\ jobs[file[f].job].succeeded

(* A finished job is counted once, although pollers of several processes   *)
(* and a waiting request hear of it, and a deleted file is taken off once, *)
(* although two requests delete it                                         *)
(* (test_competing_pollers_only_finish_and_count_job_once).                *)
CountedOnce ==
    /\ \A j \in Jobs : counted[j] <= 1 /\ (counted[j] = 1 => jobs[j].succeeded)
    /\ \A f \in Files : uncounted[f] <= 1

(* A member who uploads a content again is led to the record it has, in    *)
(* whatever state that is: only uploads of the same member that run        *)
(* together make two.  Another member's upload makes one of its own.       *)
RecordsWith(d, u) == {f \in ProjectFiles : file[f].doc = d /\ file[f].user = u}

OneRecordPerContent ==
    \A d \in Documents, u \in Uploaders : Cardinality(RecordsWith(d, u)) <= Cardinality(Calls)

(* What a job came to stays written until the file is submitted again, a   *)
(* submission fails, or the file is deleted: no late poller rewrites it    *)
(* (test_old_failed_poller_does_not_overwrite_new_attempt).                *)
Resubmits(f) == \E c \in Calls : call[c].file = f /\ call[c].at \in {"saveJob", "saveFailure"}

VerdictStands ==
    [][\A f \in Files :
         file[f].phase \in {"succeeded", "failed"} /\ ~Resubmits(f) =>
             ~Exists(f)' \/ file'[f] = file[f]]_vars

=============================================================================
