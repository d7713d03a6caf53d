---------------------------- MODULE FileRecords -----------------------------
(***************************************************************************)
(* The uploaded files of a project and of chats: their records, the jobs   *)
(* of the inference service that index them, and the requests and          *)
(* background tasks of the API workers that write the records              *)
(* (services/file_management.py, the file records of                       *)
(* services/chat_history_service.py).  One step is one call of the         *)
(* database or of the inference service.                                   *)
(***************************************************************************)
EXTENDS Integers, Sequences, FiniteSets

CONSTANTS
    Calls,          \* requests that are served at the same time
    Workers,        \* API processes, each with its own table of pollers
    WorkerOf,       \* the process that serves a request
    Uploaders,      \* members of the project who upload
    Documents,      \* contents, told apart by their hash
    Files,          \* file ids
    Cap,            \* PROJECT_MAX_FILES
    MaxJobs,        \* bound on submissions
    MaxFaults,      \* bound on crashes and failing calls
    None

ASSUME FileAssumption ==
    /\ IsFiniteSet(Calls)
    /\ WorkerOf \in [Calls -> Workers] /\ Calls \cap Workers = {}
    /\ None \notin Calls \cup Workers \cup Uploaders \cup Documents \cup Files
    /\ None \notin 1 .. MaxJobs
    /\ None \notin {"project", "chat", "active", "succeeded", "failed"}
    /\ Cap \in Nat /\ MaxJobs \in Nat /\ MaxFaults \in Nat

VARIABLES
    file,       \* the records, by id
    docs,       \* stats.docs of the project document
    jobs,       \* the jobs of the inference service, in order of submission
    watch,      \* who polls which job: background tasks and waiting requests
    call,       \* the requests
    faults,
    acked,      \* history: files acknowledged to the uploader of a project
    counted,    \* history: how often a job was counted in docs
    uncounted   \* history: how often the deletion of a file was counted

vars == <<file, docs, jobs, watch, call, faults, acked, counted, uncounted>>
histories == <<acked, counted, uncounted>>

Jobs == 1 .. MaxJobs
Watchers == Workers \cup Calls

(* A record, "none" when there is no document with that id.  The phase is  *)
(* processing_status, where queued and started are told apart by nothing   *)
(* but a progress message.                                                 *)
Records ==
    [doc : Documents \cup {None}, user : Uploaders \cup {None},
     scope : {None, "project", "chat"},
     status : {"none", "processing", "completed", "failed"}, job : Jobs \cup {None},
     phase : {None, "active", "succeeded", "failed"}, indexed : BOOLEAN]
NoRecord ==
    [doc |-> None, user |-> None, scope |-> None, status |-> "none", job |-> None,
     phase |-> None, indexed |-> FALSE]
NewRecord(d, u, s) ==
    [NoRecord EXCEPT !.doc = d, !.user = u, !.scope = s, !.status = "processing"]

(* A job of the inference service, and whether it has succeeded.           *)
JobRecords == [file : Files, succeeded : BOOLEAN]

WatchSteps == {"none", "poll", "complete", "fail", "count"}
CallSteps == {"idle", "findHash", "insert", "submit", "saveJob", "saveFailure",
              "reread", "await", "deleteRecord", "uncount"}
CallRecords ==
    [at : CallSteps, doc : Documents \cup {None}, user : Uploaders \cup {None},
     scope : {None, "project", "chat"}, file : Files \cup {None}, job : Jobs \cup {None}]
Idle ==
    [at |-> "idle", doc |-> None, user |-> None, scope |-> None, file |-> None, job |-> None]

Init ==
    /\ file = [f \in Files |-> NoRecord]
    /\ docs = 0 /\ jobs = <<>>
    /\ watch = [x \in Watchers |-> [j \in Jobs |-> "none"]]
    /\ call = [c \in Calls |-> Idle]
    /\ faults = 0
    /\ acked = {} /\ counted = [j \in Jobs |-> 0] /\ uncounted = [f \in Files |-> 0]

Exists(f) == file[f].status # "none"
IsProjectFile(f) == file[f].scope = "project"
ProjectFiles == {f \in Files : Exists(f) /\ IsProjectFile(f)}

(* An id no record ever had: ids are fresh UUIDs.                          *)
Fresh(f) == file[f].doc = None /\ \A c \in Calls : call[c].file # f

(* _processing_is_active and _is_ingested_to_milvus.                       *)
IsActive(f) == file[f].job # None /\ file[f].phase # "failed"
IsIngested(f) == file[f].indexed

(* Mutant: the filter names the file but not the job.                      *)
IsUnsettled(f, j) == Exists(f) /\ file[f].phase \notin {"succeeded", "failed"}

(* Mutant: the filter names the job but not its status.                    *)
IsLatest(f, j) == Exists(f) /\ file[f].job = j

(* The fence of update_file_processing_fields: only the current,           *)
(* unfinished job may change the record.                                   *)
IsCurrent(f, j) == Exists(f) /\ file[f].job = j /\ file[f].phase \notin {"succeeded", "failed"}

At(c, step) == call[c].at = step
Goes(c, step) == call' = [call EXCEPT ![c].at = step]
Ends(c) == call' = [call EXCEPT ![c] = Idle]

=============================================================================
