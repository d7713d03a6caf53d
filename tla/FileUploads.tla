---------------------------- MODULE FileUploads -----------------------------
(***************************************************************************)
(* The requests that upload a document to the project or to a chat, and    *)
(* the one that deletes a project file (FileManager.upload_project_file,   *)
(* upload_message_file, delete_project_file).                              *)
(***************************************************************************)
EXTENDS FilePolling

Starts(c, request) == At(c, "idle") /\ call' = [call EXCEPT ![c] = request]

(* A project may not hold more than Cap files; a chat upload has no such   *)
(* check.  The upload is hashed before the next call.                      *)
Upload(c, d, u, s) ==
    /\ s = "project" => Cardinality(ProjectFiles) < Cap
    /\ Starts(c, [Idle EXCEPT !.at = "findHash", !.doc = d, !.user = u, !.scope = s])
    /\ UNCHANGED <<file, docs, jobs, watch, faults, histories>>

(* Mutant: the lookup passes over files that are not indexed yet.          *)
HoldingIngested(c) ==
    {f \in Files : Exists(f) /\ IsIngested(f)
                  /\ file[f].doc = call[c].doc /\ file[f].user = call[c].user
                  /\ (call[c].scope = "project" => IsProjectFile(f))}

(* The user's records with this content, for a project those among its     *)
(* own files.  What another member has uploaded is not found.              *)
Holding(c) ==
    {f \in Files : Exists(f) /\ file[f].doc = call[c].doc /\ file[f].user = call[c].user
                  /\ (call[c].scope = "project" => IsProjectFile(f))}

(* A file that is indexed is reused; an upload to the project only resumes *)
(* a live job; every other file is submitted again.                        *)
Reuses(c, f) == IsIngested(f) \/ (call[c].scope = "project" /\ IsActive(f))

FindsKnown(c, f) ==
    /\ At(c, "findHash") /\ f \in Holding(c)
    /\ \/ /\ Reuses(c, f)
          /\ acked' = IF call[c].scope = "project" THEN acked \cup {f} ELSE acked
          /\ watch' = IF IsIngested(f) THEN watch ELSE ResumedBy(WorkerOf[c], {f})
          /\ Ends(c)
       \/ /\ ~Reuses(c, f)
          /\ call' = [call EXCEPT ![c] = [call[c] EXCEPT !.at = "submit", !.file = f]]
          /\ UNCHANGED <<watch, acked>>
    /\ UNCHANGED <<file, docs, jobs, faults, counted, uncounted>>

FindsNew(c, f) ==
    /\ At(c, "findHash") /\ Holding(c) = {} /\ Fresh(f)
    /\ call' = [call EXCEPT ![c] = [call[c] EXCEPT !.at = "insert", !.file = f]]
    /\ UNCHANGED <<file, docs, jobs, watch, faults, histories>>

(* add_file_upload.                                                        *)
InsertRecord(c) ==
    /\ At(c, "insert")
    /\ file' = [file EXCEPT ![call[c].file] = NewRecord(call[c].doc, call[c].user, call[c].scope)]
    /\ Goes(c, "submit")
    /\ UNCHANGED <<docs, jobs, watch, faults, histories>>

(* submit_document_processing: the service queues a job and returns its    *)
(* id, or the call fails.                                                  *)
Submit(c) ==
    /\ At(c, "submit") /\ Len(jobs) < MaxJobs
    /\ jobs' = Append(jobs, [file |-> call[c].file, succeeded |-> FALSE])
    /\ call' = [call EXCEPT ![c] = [call[c] EXCEPT !.at = "saveJob", !.job = Len(jobs) + 1]]
    /\ UNCHANGED <<file, docs, watch, faults, histories>>

SubmitFails(c) ==
    /\ At(c, "submit") /\ faults < MaxFaults
    /\ faults' = faults + 1
    /\ Goes(c, "saveFailure")
    /\ UNCHANGED <<file, docs, jobs, watch, histories>>

Queued(record, j) ==
    [record EXCEPT !.status = "processing", !.job = j, !.phase = "active"]

(* update_file_metadata_fields is not fenced: it writes whatever job the   *)
(* record had, and does nothing to a record that is gone.                  *)
SaveJob(c) ==
    LET f == call[c].file IN
    /\ At(c, "saveJob")
    /\ file' = IF Exists(f) THEN [file EXCEPT ![f] = Queued(file[f], call[c].job)] ELSE file
    /\ Goes(c, "reread")
    /\ UNCHANGED <<docs, jobs, watch, faults, histories>>

SaveFailure(c) ==
    LET f == call[c].file IN
    /\ At(c, "saveFailure")
    /\ file' = IF Exists(f) THEN [file EXCEPT ![f] = Failed(file[f])] ELSE file
    /\ Ends(c)
    /\ UNCHANGED <<docs, jobs, watch, faults, histories>>

(* The record as it is now decides: the upload to a project is             *)
(* acknowledged and its job observed in the background, the one to a chat  *)
(* waits for the job itself.                                               *)
Reread(c) ==
    LET f == call[c].file IN
    /\ At(c, "reread")
    /\ \/ /\ Exists(f) /\ call[c].scope = "project"
          /\ acked' = acked \cup {f}
          /\ watch' = ResumedBy(WorkerOf[c], {f})
          /\ Ends(c)
       \/ /\ Exists(f) /\ call[c].scope = "chat" /\ file[f].phase = "active"
          /\ watch' = [watch EXCEPT ![c][file[f].job] = "poll"]
          /\ Goes(c, "await") /\ acked' = acked
       \/ /\ ~Exists(f) \/ (call[c].scope = "chat" /\ file[f].phase # "active")
          /\ Ends(c) /\ UNCHANGED <<watch, acked>>
    /\ UNCHANGED <<file, docs, jobs, faults, counted, uncounted>>

(* delete_project_file: the record, then the counter.                      *)
Delete(c, f) ==
    /\ f \in ProjectFiles
    /\ Starts(c, [Idle EXCEPT !.at = "deleteRecord", !.file = f])
    /\ UNCHANGED <<file, docs, jobs, watch, faults, histories>>

DeleteRecord(c) ==
    LET f == call[c].file IN
    /\ At(c, "deleteRecord")
    /\ IF Exists(f)
       THEN file' = [file EXCEPT ![f] = [NoRecord EXCEPT !.doc = file[f].doc]] /\ Goes(c, "uncount")
       ELSE file' = file /\ Ends(c)
    /\ UNCHANGED <<docs, jobs, watch, faults, histories>>

Uncount(c) ==
    /\ At(c, "uncount")
    /\ docs' = docs - 1
    /\ uncounted' = [uncounted EXCEPT ![call[c].file] = @ + 1]
    /\ Ends(c)
    /\ UNCHANGED <<file, jobs, watch, faults, acked, counted>>

(* A request is lost, or one of its calls raises: it ends where it is.     *)
Lost(c) ==
    /\ ~At(c, "idle") /\ faults < MaxFaults
    /\ faults' = faults + 1
    /\ Ends(c)
    /\ watch' = [watch EXCEPT ![c] = [j \in Jobs |-> "none"]]
    /\ UNCHANGED <<file, docs, jobs, histories>>

(* A process stops: its requests and its pollers are gone.                 *)
Crash(w) ==
    /\ faults < MaxFaults
    /\ faults' = faults + 1
    /\ call' = [c \in Calls |-> IF WorkerOf[c] = w THEN Idle ELSE call[c]]
    /\ watch' = [x \in Watchers |-> IF x = w \/ (x \in Calls /\ WorkerOf[x] = w)
                                    THEN [j \in Jobs |-> "none"] ELSE watch[x]]
    /\ UNCHANGED <<file, docs, jobs, histories>>

(* A poller dies of an exception; the next listing starts another.         *)
PollerDies(w, j) ==
    /\ ~Watches(w, j, "none") /\ faults < MaxFaults
    /\ faults' = faults + 1
    /\ WatchGoes(w, j, "none")
    /\ UNCHANGED <<file, docs, jobs, call, histories>>

Request(c) ==
    \/ \E d \in Documents, u \in Uploaders, s \in {"project", "chat"} : Upload(c, d, u, s)
    \/ \E f \in Files : Delete(c, f)

Progress(c) ==
    \/ \E f \in Files : FindsKnown(c, f) \/ FindsNew(c, f)
    \/ InsertRecord(c) \/ Submit(c) \/ SaveJob(c) \/ SaveFailure(c)
    \/ Reread(c) \/ DeleteRecord(c) \/ Uncount(c)

=============================================================================
