------------------------- MODULE ProjectFilesProofs -------------------------
(***************************************************************************)
(* The files of a project for any requests, processes, contents and jobs.  *)
(*                                                                         *)
(* That a job is counted once depends on everything that may still hear of *)
(* it: IInv says that a job is watched only after its id was saved, and is *)
(* never current again once somebody has completed it (WatchOK, JobOK);    *)
(* that a deleted id is never inserted again (FileOK, CallOK); and what a  *)
(* request knows of the file it works on (CallOK).  How many records of a  *)
(* content a member has is counted together with its uploads about to      *)
(* insert one (OneEach).                                                   *)
(***************************************************************************)
EXTENDS ProjectFiles, SequenceTheorems, FiniteSetTheorems, TLAPS

(***************************************************************************)
(* The inductive invariant.                                                *)
(***************************************************************************)
Known(f) == file[f].doc # None
Submitted(j) == j \in 1 .. Len(jobs)
Succeeded(j) == Submitted(j) /\ jobs[j].succeeded

(* Nobody is about to write the id of this job into the record.            *)
Saved(j) == \A c \in Calls : At(c, "saveJob") => call[c].job # j

(* The record no longer waits for this job.                                *)
Past(j) == Saved(j) /\ ~IsCurrent(jobs[j].file, j)

FilesTyped == file \in [Files -> Records]
JobsTyped == jobs \in Seq(JobRecords) /\ Len(jobs) <= MaxJobs
WatchTyped == watch \in [Watchers -> [Jobs -> WatchSteps]]
CallsTyped == call \in [Calls -> CallRecords]
CountsTyped ==
    /\ docs \in Int /\ faults \in 0 .. MaxFaults /\ acked \subseteq Files
    /\ counted \in [Jobs -> Nat] /\ uncounted \in [Files -> Nat]
Typed == FilesTyped /\ JobsTyped /\ WatchTyped /\ CallsTyped /\ CountsTyped

FileOK(f) ==
    /\ Exists(f) => Known(f)
    /\ ~Exists(f) => file[f].job = None /\ file[f].phase = None /\ ~file[f].indexed
    /\ file[f].job # None =>
           /\ Submitted(file[f].job) /\ jobs[file[f].job].file = f
           /\ Saved(file[f].job) /\ file[f].phase # None
    /\ file[f].indexed => file[f].job # None
    /\ file[f].status = "completed" => file[f].indexed /\ Succeeded(file[f].job)
    /\ f \in acked => Known(f) /\ (Exists(f) => file[f].job # None)
    /\ uncounted[f] = 0 \/ (uncounted[f] = 1 /\ Known(f) /\ ~Exists(f))

JobOK(j) == counted[j] = 0 \/ (counted[j] = 1 /\ Succeeded(j) /\ Past(j))

WatchOK(x, j) ==
    /\ watch[x][j] # "none" => Submitted(j) /\ Saved(j)
    /\ watch[x][j] \in {"complete", "count"} => Succeeded(j)
    /\ watch[x][j] = "count" =>
           /\ Past(j) /\ counted[j] = 0
           /\ \A y \in Watchers : watch[y][j] = "count" => x = y

CallOK(c) ==
    /\ call[c].at \in {"findHash", "insert"} =>
           call[c].doc # None /\ call[c].user # None /\ call[c].scope # None
    /\ call[c].at \notin {"idle", "findHash"} => call[c].file \in Files
    /\ call[c].at = "insert" =>
           /\ ~Known(call[c].file)
           /\ \A d \in Calls : call[d].file = call[c].file => c = d
    /\ call[c].at \notin {"idle", "findHash", "insert"} => Known(call[c].file)
    /\ call[c].at = "saveJob" =>
           /\ Submitted(call[c].job) /\ jobs[call[c].job].file = call[c].file
           /\ \A d \in Calls : At(d, "saveJob") /\ call[d].job = call[c].job => c = d
    /\ call[c].at = "reread" => (Exists(call[c].file) => file[call[c].file].job # None)
    /\ call[c].at = "uncount" =>
           /\ ~Exists(call[c].file) /\ uncounted[call[c].file] = 0
           /\ \A d \in Calls : At(d, "uncount") /\ call[d].file = call[c].file => c = d

IInv ==
    /\ Typed
    /\ \A f \in Files : FileOK(f)
    /\ \A j \in Jobs : JobOK(j)
    /\ \A x \in Watchers, j \in Jobs : WatchOK(x, j)
    /\ \A c \in Calls : CallOK(c)

(***************************************************************************)
(* Records.                                                                *)
(***************************************************************************)
(* What the writes of a record leave in it.                                *)
LEMMA CompletedFields ==
    ASSUME NEW r \in Records
    PROVE  /\ Completed(r) \in Records
           /\ Completed(r).status = "completed" /\ Completed(r).phase = "succeeded"
           /\ Completed(r).indexed /\ Completed(r).doc = r.doc /\ Completed(r).job = r.job
           /\ Completed(r).scope = r.scope /\ Completed(r).user = r.user
<1> DEFINE a == [r EXCEPT !.status = "completed"]
           b == [a EXCEPT !.phase = "succeeded"]
           z == [b EXCEPT !.indexed = TRUE]
<1>1. /\ a \in Records /\ a.status = "completed" /\ a.doc = r.doc /\ a.job = r.job
      /\ a.scope = r.scope /\ a.user = r.user
  BY DEF Records
<1> HIDE DEF a
<1>2. /\ b \in Records /\ b.phase = "succeeded" /\ b.status = a.status /\ b.doc = a.doc
      /\ b.job = a.job /\ b.scope = a.scope /\ b.user = a.user
  BY <1>1 DEF Records
<1> HIDE DEF b
<1>3. /\ z \in Records /\ z.indexed /\ z.phase = b.phase /\ z.status = b.status /\ z.doc = b.doc
      /\ z.job = b.job /\ z.scope = b.scope /\ z.user = b.user
  BY <1>2 DEF Records
<1>4. Completed(r) = z
  BY DEF Completed, a, b
<1> QED
  BY <1>1, <1>2, <1>3, <1>4

(* A failure takes back that the file was indexed.                         *)
LEMMA FailedFields ==
    ASSUME NEW r \in Records
    PROVE  /\ Failed(r) \in Records
           /\ Failed(r).status = "failed" /\ Failed(r).phase = "failed"
           /\ ~Failed(r).indexed /\ Failed(r).doc = r.doc /\ Failed(r).job = r.job
           /\ Failed(r).scope = r.scope /\ Failed(r).user = r.user
<1> DEFINE a == [r EXCEPT !.status = "failed"]
           b == [a EXCEPT !.phase = "failed"]
           z == [b EXCEPT !.indexed = FALSE]
<1>1. /\ a \in Records /\ a.status = "failed" /\ a.doc = r.doc /\ a.job = r.job
      /\ a.scope = r.scope /\ a.user = r.user
  BY DEF Records
<1> HIDE DEF a
<1>2. /\ b \in Records /\ b.phase = "failed" /\ b.status = a.status /\ b.doc = a.doc
      /\ b.job = a.job /\ b.scope = a.scope /\ b.user = a.user
  BY <1>1 DEF Records
<1> HIDE DEF b
<1>3. /\ z \in Records /\ ~z.indexed /\ z.phase = b.phase /\ z.status = b.status /\ z.doc = b.doc
      /\ z.job = b.job /\ z.scope = b.scope /\ z.user = b.user
  BY <1>2 DEF Records
<1>4. Failed(r) = z
  BY DEF Failed, a, b
<1> QED
  BY <1>1, <1>2, <1>3, <1>4

(* A submission names its job and leaves alone whether the file is indexed.*)
LEMMA QueuedFields ==
    ASSUME NEW r \in Records, NEW j \in Jobs
    PROVE  /\ Queued(r, j) \in Records
           /\ Queued(r, j).status = "processing" /\ Queued(r, j).phase = "active"
           /\ Queued(r, j).job = j /\ Queued(r, j).doc = r.doc
           /\ Queued(r, j).indexed = r.indexed /\ Queued(r, j).scope = r.scope
           /\ Queued(r, j).user = r.user
<1> DEFINE a == [r EXCEPT !.status = "processing"]
           b == [a EXCEPT !.job = j]
           z == [b EXCEPT !.phase = "active"]
<1>1. /\ a \in Records /\ a.status = "processing" /\ a.doc = r.doc /\ a.indexed = r.indexed
      /\ a.scope = r.scope /\ a.user = r.user
  BY DEF Records
<1> HIDE DEF a
<1>2. /\ b \in Records /\ b.job = j /\ b.status = a.status /\ b.doc = a.doc
      /\ b.indexed = a.indexed /\ b.scope = a.scope /\ b.user = a.user
  BY <1>1 DEF Records
<1> HIDE DEF b
<1>3. /\ z \in Records /\ z.phase = "active" /\ z.job = b.job /\ z.status = b.status
      /\ z.doc = b.doc /\ z.indexed = b.indexed /\ z.scope = b.scope /\ z.user = b.user
  BY <1>2 DEF Records
<1>4. Queued(r, j) = z
  BY DEF Queued, a, b
<1> QED
  BY <1>1, <1>2, <1>3, <1>4

(* A new record, and what is left of one that was deleted.                 *)
LEMMA NewFields ==
    ASSUME NEW d \in Documents, NEW u \in Uploaders, NEW s \in {"project", "chat"}
    PROVE  /\ NewRecord(d, u, s) \in Records
           /\ NewRecord(d, u, s).status = "processing" /\ NewRecord(d, u, s).phase = None
           /\ NewRecord(d, u, s).job = None /\ NewRecord(d, u, s).doc = d
           /\ NewRecord(d, u, s).user = u /\ NewRecord(d, u, s).scope = s
           /\ ~NewRecord(d, u, s).indexed
<1> DEFINE a == [NoRecord EXCEPT !.doc = d]
           e == [a EXCEPT !.user = u]
           b == [e EXCEPT !.scope = s]
           z == [b EXCEPT !.status = "processing"]
<1>1. a \in Records /\ a.doc = d /\ a.job = None /\ a.phase = None /\ ~a.indexed
  BY DEF Records, NoRecord
<1> HIDE DEF a
<1>2. /\ e \in Records /\ e.doc = d /\ e.user = u /\ e.job = None /\ e.phase = None
      /\ ~e.indexed
  BY <1>1 DEF Records
<1> HIDE DEF e
<1>3. /\ b \in Records /\ b.doc = d /\ b.user = u /\ b.scope = s /\ b.job = None
      /\ b.phase = None /\ ~b.indexed
  BY <1>2 DEF Records
<1> HIDE DEF b
<1>4. /\ z \in Records /\ z.doc = d /\ z.user = u /\ z.scope = s /\ z.job = None
      /\ z.phase = None /\ ~z.indexed /\ z.status = "processing"
  BY <1>3 DEF Records
<1>5. NewRecord(d, u, s) = z
  BY DEF NewRecord, a, e, b
<1> QED
  BY <1>4, <1>5

LEMMA DeletedFields ==
    ASSUME NEW d \in Documents \cup {None}
    PROVE  LET r == [NoRecord EXCEPT !.doc = d]
           IN  /\ r \in Records /\ r.status = "none" /\ r.phase = None /\ r.job = None
               /\ r.doc = d /\ ~r.indexed
  BY DEF Records, NoRecord

(***************************************************************************)
(* Steps that write no record.                                             *)
(***************************************************************************)
(* A watch that is given up, started for a saved job, or about to fail.    *)
WatchesMildly ==
    \A x \in Watchers, j \in Jobs :
        \/ watch'[x][j] \in {watch[x][j], "none"}
        \/ watch'[x][j] \in {"poll", "fail"} /\ Submitted(j) /\ Saved(j)

(* A file is acknowledged when it has a job.                               *)
AcksMildly == \A f \in acked' : f \in acked \/ (Known(f) /\ (Exists(f) => file[f].job # None))

(* Requests end, and watches start or stop.                                *)
LEMMA CallsEnd ==
    ASSUME IInv, Typed', WatchesMildly, AcksMildly,
           UNCHANGED <<file, jobs, counted, uncounted>>,
           \A d \in Calls : call'[d] \in {call[d], Idle}
    PROVE  IInv'
<1>1. \A j \in Jobs : /\ Saved(j) => Saved(j)'
                      /\ (Submitted(j)' <=> Submitted(j)) /\ (Succeeded(j)' <=> Succeeded(j))
                      /\ \A f \in Files : IsCurrent(f, j)' = IsCurrent(f, j)
  BY DEF Saved, At, Idle, Submitted, Succeeded, IsCurrent, Exists
<1>2. ASSUME NEW f \in Files PROVE FileOK(f)'
  BY <1>1 DEF IInv, Typed, FilesTyped, Records, FileOK, Exists, Known, AcksMildly
<1>3. ASSUME NEW j \in Jobs PROVE JobOK(j)'
  <2>1. Submitted(j) => jobs'[j] = jobs[j]
    OBVIOUS
  <2> QED
    BY <1>1, <2>1 DEF IInv, JobOK, Past, IsCurrent, Exists
<1>4. ASSUME NEW x \in Watchers, NEW j \in Jobs PROVE WatchOK(x, j)'
  BY <1>1 DEF IInv, WatchOK, Past, WatchesMildly, IsCurrent, Exists
<1>5. ASSUME NEW d \in Calls PROVE CallOK(d)'
  <2>1. CASE call'[d] = Idle
    BY <2>1 DEF CallOK, Idle
  <2>2. CASE call'[d] = call[d]
    <3>1. CallOK(d) /\ \A f : Known(f)' = Known(f) /\ Exists(f)' = Exists(f)
      BY DEF IInv, Known, Exists
    <3>2. ASSUME NEW e \in Calls, call'[e].file = call[d].file, call[d].file \in Files
          PROVE  call[e].file = call[d].file
      BY <3>2, FileAssumption DEF Idle
    <3>3. ASSUME NEW e \in Calls, At(e, "saveJob")' PROVE At(e, "saveJob") /\ call'[e] = call[e]
      BY <3>3 DEF At, Idle
    <3>4. ASSUME NEW e \in Calls, At(e, "uncount")' PROVE At(e, "uncount") /\ call'[e] = call[e]
      BY <3>4 DEF At, Idle
    <3> QED
      BY <2>2, <3>1, <3>2, <3>3, <3>4 DEF CallOK, Submitted
  <2> QED
    BY <2>1, <2>2
<1> QED
  BY <1>2, <1>3, <1>4, <1>5 DEF IInv

(* A request goes on to r, and writes neither a record nor a job.          *)
LEMMA CallMoves ==
    ASSUME IInv, Typed', WatchesMildly, AcksMildly,
           UNCHANGED <<file, jobs, counted, uncounted>>,
           NEW c \in Calls, NEW r \in CallRecords, call' = [call EXCEPT ![c] = r],
           r.at \in {"findHash", "insert", "submit", "reread", "saveFailure", "await", "deleteRecord"},
           r.at \in {"findHash", "insert"} => r.doc # None /\ r.user # None /\ r.scope # None,
           r.at = "reread" => ~Exists(r.file),
           IF r.at = "findHash" THEN r.file = None ELSE r.file \in Files,
           IF r.at = "insert" THEN Fresh(r.file) ELSE r.at # "findHash" => Known(r.file)
    PROVE  IInv'
<1>0. \A d \in Calls : call'[d] = IF d = c THEN r ELSE call[d]
  BY DEF IInv, Typed, CallsTyped
<1>1. \A j \in Jobs : /\ Saved(j) => Saved(j)'
                      /\ (Submitted(j)' <=> Submitted(j)) /\ (Succeeded(j)' <=> Succeeded(j))
                      /\ \A f \in Files : IsCurrent(f, j)' = IsCurrent(f, j)
  BY <1>0 DEF Saved, At, Submitted, Succeeded, IsCurrent, Exists
<1>2. ASSUME NEW f \in Files PROVE FileOK(f)'
  BY <1>1 DEF IInv, Typed, FilesTyped, Records, FileOK, Exists, Known, AcksMildly
<1>3. ASSUME NEW j \in Jobs PROVE JobOK(j)'
  BY <1>1 DEF IInv, JobOK, Past, IsCurrent, Exists
<1>4. ASSUME NEW x \in Watchers, NEW j \in Jobs PROVE WatchOK(x, j)'
  BY <1>1 DEF IInv, WatchOK, Past, WatchesMildly, IsCurrent, Exists
<1>5. \A f : Known(f)' = Known(f) /\ Exists(f)' = Exists(f)
  BY DEF Known, Exists
<1>6. CallOK(c)'
  BY <1>0, <1>5 DEF CallOK, Fresh, Known
<1>7. ASSUME NEW d \in Calls, d # c PROVE CallOK(d)'
  <2>1. CallOK(d) /\ call'[d] = call[d]
    BY <1>0, <1>7 DEF IInv
  <2>2. call[d].at = "insert" => r.file # call[d].file
    BY <2>1, FileAssumption DEF CallOK, Fresh
  <2>3. ASSUME NEW e \in Calls, call[d].at = "insert", call'[e].file = call[d].file
        PROVE  d = e
    BY <1>0, <2>1, <2>2, <2>3 DEF CallOK
  <2>4. ASSUME NEW e \in Calls, At(e, "saveJob")' \/ At(e, "uncount")'
        PROVE  call'[e] = call[e]
    BY <1>0, <2>4 DEF At
  <2> QED
    BY <1>5, <2>1, <2>3, <2>4 DEF CallOK, Submitted, At
<1> QED
  BY <1>2, <1>3, <1>4, <1>6, <1>7 DEF IInv

(* A request is a record whose fields have their types.                    *)
LEMMA Acting ==
    ASSUME IInv, NEW c \in Calls
    PROVE  call[c] \in CallRecords /\ CallOK(c)
  BY DEF IInv, Typed, CallsTyped

LEMMA Moving ==
    ASSUME IInv, NEW c \in Calls, NEW step \in CallSteps, Goes(c, step)
    PROVE  \E r \in CallRecords :
              /\ call' = [call EXCEPT ![c] = r]
              /\ r.at = step /\ r.doc = call[c].doc
              /\ r.user = call[c].user /\ r.scope = call[c].scope
              /\ r.file = call[c].file /\ r.job = call[c].job
<1> DEFINE r == [call[c] EXCEPT !.at = step]
<1>1. call' = [call EXCEPT ![c] = r]
  BY DEF Goes, IInv, Typed, CallsTyped
<1>2. /\ r \in CallRecords
      /\ r.at = step /\ r.doc = call[c].doc
      /\ r.user = call[c].user /\ r.scope = call[c].scope
      /\ r.file = call[c].file /\ r.job = call[c].job
  BY Acting DEF CallRecords
<1> HIDE DEF r
<1> QED
  BY <1>1, <1>2

(* A job is about a file.                                                  *)
LEMMA JobsHaveFiles ==
    ASSUME IInv, NEW j \in Jobs, Submitted(j)
    PROVE  jobs[j] \in JobRecords
<1>1. jobs \in Seq(JobRecords)
  BY DEF IInv, Typed, JobsTyped
<1> QED
  BY <1>1 DEF Submitted, Jobs

LEMMA IdleIsTyped ==
    Idle \in CallRecords
  BY DEF Idle, CallRecords, CallSteps

(* A task that polls a job a record names.                                 *)
LEMMA Resuming ==
    ASSUME IInv, NEW w \in Workers, NEW fs \in SUBSET Files, watch' = ResumedBy(w, fs)
    PROVE  WatchesMildly /\ WatchTyped'
<1>1. watch' \in [Watchers -> [Jobs -> WatchSteps]]
  BY DEF ResumedBy, IInv, Typed, WatchTyped, WatchSteps, Watchers
<1>2. ASSUME NEW x \in Watchers, NEW j \in Jobs, watch'[x][j] # watch[x][j]
      PROVE  watch'[x][j] = "poll" /\ \E f \in fs : Resumes(f) /\ file[f].job = j
  BY <1>2 DEF ResumedBy, IInv, Typed, WatchTyped, Watchers
<1>3. ASSUME NEW f \in Files, NEW j \in Jobs, file[f].job = j
      PROVE  Submitted(j) /\ Saved(j)
  BY <1>3, FileAssumption DEF IInv, FileOK, Jobs
<1> QED
  BY <1>1, <1>2, <1>3 DEF WatchesMildly, WatchTyped

(***************************************************************************)
(* Requests that begin, read, wait or are lost.                            *)
(***************************************************************************)
LEMMA RequestsBegin ==
    ASSUME IInv, NEW c \in Calls, Request(c)
    PROVE  IInv'
<1>0. /\ UNCHANGED <<file, docs, jobs, watch, faults, acked, counted, uncounted>>
      /\ WatchesMildly /\ AcksMildly /\ FilesTyped' /\ JobsTyped' /\ WatchTyped' /\ CountsTyped'
  BY DEF Request, Upload, Delete, histories, WatchesMildly, AcksMildly, IInv, Typed, FilesTyped,
     JobsTyped, WatchTyped, CountsTyped
<1>1. ASSUME NEW d \in Documents, NEW u \in Uploaders, NEW s \in {"project", "chat"},
             Upload(c, d, u, s)
      PROVE  IInv'
  <2> DEFINE a == [Idle EXCEPT !.at = "findHash"]
             b == [a EXCEPT !.doc = d]
             e == [b EXCEPT !.user = u]
             r == [e EXCEPT !.scope = s]
  <2>1. call' = [call EXCEPT ![c] = r]
    BY <1>1 DEF Upload, Starts
  <2>2. a \in CallRecords /\ a.at = "findHash" /\ a.file = None
    BY DEF Idle, CallRecords, CallSteps
  <2> HIDE DEF a
  <2>3. b \in CallRecords /\ b.at = "findHash" /\ b.file = None /\ b.doc = d
    BY <2>2 DEF CallRecords
  <2> HIDE DEF b
  <2>4. e \in CallRecords /\ e.at = "findHash" /\ e.file = None /\ e.doc = d /\ e.user = u
    BY <2>3 DEF CallRecords
  <2> HIDE DEF e
  <2>5. /\ r \in CallRecords /\ r.at = "findHash" /\ r.file = None /\ r.doc = d /\ r.user = u
        /\ r.scope = s
    BY <2>4 DEF CallRecords
  <2> HIDE DEF r
  <2>6. CallsTyped'
    BY <2>1, <2>5 DEF IInv, Typed, CallsTyped
  <2>7. r.doc # None /\ r.user # None /\ r.scope # None
    BY <2>5, FileAssumption
  <2> QED
    BY <1>0, <2>1, <2>5, <2>6, <2>7, CallMoves DEF Typed
<1>2. ASSUME NEW f \in Files, Delete(c, f)
      PROVE  IInv'
  <2> DEFINE a == [Idle EXCEPT !.at = "deleteRecord"]
             r == [a EXCEPT !.file = f]
  <2>1. call' = [call EXCEPT ![c] = r]
    BY <1>2 DEF Delete, Starts
  <2>2. a \in CallRecords /\ a.at = "deleteRecord"
    BY DEF Idle, CallRecords, CallSteps
  <2> HIDE DEF a
  <2>3. r \in CallRecords /\ r.at = "deleteRecord" /\ r.file = f
    BY <2>2 DEF CallRecords
  <2> HIDE DEF r
  <2>4. CallsTyped'
    BY <2>1, <2>3 DEF IInv, Typed, CallsTyped
  <2>5. Known(f)
    BY <1>2 DEF Delete, ProjectFiles, IInv, FileOK
  <2> QED
    BY <1>0, <2>1, <2>3, <2>4, <2>5, CallMoves DEF Typed
<1> QED
  BY <1>1, <1>2 DEF Request

LEMMA HashIsFound ==
    ASSUME IInv, NEW c \in Calls, NEW f \in Files, FindsKnown(c, f) \/ FindsNew(c, f)
    PROVE  IInv'
<1>0. /\ UNCHANGED <<file, docs, jobs, faults, counted, uncounted>>
      /\ FilesTyped' /\ JobsTyped'
  BY DEF FindsKnown, FindsNew, histories, IInv, Typed, FilesTyped, JobsTyped
<1>1. /\ call[c] \in CallRecords /\ CallOK(c) /\ call[c].at = "findHash"
      /\ call[c].doc # None /\ call[c].user # None /\ call[c].scope # None
  BY Acting DEF FindsKnown, FindsNew, At, CallOK
<1>2. ASSUME NEW step \in {"insert", "submit"}, UNCHANGED <<watch, acked>>,
             call' = [call EXCEPT ![c] = [call[c] EXCEPT !.at = step, !.file = f]],
             IF step = "insert" THEN Fresh(f) ELSE Known(f)
      PROVE  IInv'
  <2> DEFINE a == [call[c] EXCEPT !.at = step]
             r == [a EXCEPT !.file = f]
  <2>1. call' = [call EXCEPT ![c] = r]
    BY <1>2
  <2>2. /\ a \in CallRecords /\ a.at = step /\ a.doc = call[c].doc
        /\ a.user = call[c].user /\ a.scope = call[c].scope
    BY <1>1 DEF CallRecords, CallSteps
  <2> HIDE DEF a
  <2>3. /\ r \in CallRecords /\ r.at = step /\ r.file = f
        /\ r.doc = call[c].doc /\ r.user = call[c].user /\ r.scope = call[c].scope
    BY <2>2 DEF CallRecords
  <2> HIDE DEF r
  <2>4. CallsTyped' /\ WatchTyped' /\ CountsTyped' /\ WatchesMildly /\ AcksMildly
    BY <1>0, <1>2, <2>1, <2>3 DEF IInv, Typed, CallsTyped, WatchTyped, CountsTyped, WatchesMildly,
       AcksMildly
  <2> QED
    BY <1>0, <1>1, <1>2, <2>1, <2>3, <2>4, CallMoves DEF Typed
<1>3. CASE FindsNew(c, f)
  BY <1>2, <1>3 DEF FindsNew, histories
<1>4. CASE FindsKnown(c, f)
  <2>1. Known(f) /\ Exists(f)
    BY <1>4 DEF FindsKnown, Holding, IInv, FileOK
  <2>2. CASE ~Reuses(c, f)
    BY <1>2, <1>4, <2>1, <2>2 DEF FindsKnown
  <2>3. CASE Reuses(c, f)
    <3>1. file[f].job # None
      BY <2>3 DEF Reuses, IsIngested, IsActive, IInv, FileOK
    <3>2. Ends(c) /\ acked' \in {acked, acked \cup {f}}
          /\ (watch' = watch \/ watch' = ResumedBy(WorkerOf[c], {f}))
      BY <1>4, <2>3 DEF FindsKnown
    <3>3. AcksMildly /\ CountsTyped'
      BY <1>0, <2>1, <3>1, <3>2 DEF AcksMildly, IInv, Typed, CountsTyped
    <3>4. WatchesMildly /\ WatchTyped'
      <4>1. CASE watch' = watch
        BY <4>1 DEF WatchesMildly, IInv, Typed, WatchTyped
      <4>2. CASE watch' = ResumedBy(WorkerOf[c], {f})
        BY <4>2, Resuming, FileAssumption
      <4> QED
        BY <3>2, <4>1, <4>2
    <3>5. CallsTyped' /\ \A d \in Calls : call'[d] \in {call[d], Idle}
      BY <3>2, IdleIsTyped DEF Ends, IInv, Typed, CallsTyped
    <3> QED
      BY <1>0, <3>3, <3>4, <3>5, CallsEnd DEF Typed
  <2> QED
    BY <2>2, <2>3
<1> QED
  BY <1>3, <1>4

(* The record that was saved decides what the request does next.           *)
LEMMA RecordIsReread ==
    ASSUME IInv, NEW c \in Calls, Reread(c)
    PROVE  IInv'
<1> DEFINE f == call[c].file
           j == file[f].job
<1>0. /\ UNCHANGED <<file, docs, jobs, faults, counted, uncounted>>
      /\ FilesTyped' /\ JobsTyped'
  BY DEF Reread, histories, IInv, Typed, FilesTyped, JobsTyped
<1>1. /\ f \in Files /\ Known(f) /\ (Exists(f) => j # None) /\ FileOK(f) /\ file[f] \in Records
  BY Acting DEF Reread, At, CallOK, IInv, Typed, FilesTyped
<1>2. ASSUME Ends(c)
      PROVE  CallsTyped' /\ \A d \in Calls : call'[d] \in {call[d], Idle}
  BY <1>2, IdleIsTyped DEF Ends, IInv, Typed, CallsTyped
<1>3. CASE /\ Exists(f) /\ acked' = acked \cup {f}
           /\ watch' = ResumedBy(WorkerOf[c], {f}) /\ Ends(c)
  <2>1. AcksMildly /\ CountsTyped'
    BY <1>0, <1>1, <1>3 DEF AcksMildly, IInv, Typed, CountsTyped
  <2>2. WatchesMildly /\ WatchTyped'
    BY <1>1, <1>3, Resuming, FileAssumption
  <2> QED
    BY <1>0, <1>2, <1>3, <2>1, <2>2, CallsEnd DEF Typed
<1>4. CASE Ends(c) /\ UNCHANGED <<watch, acked>>
  <2>1. AcksMildly /\ CountsTyped' /\ WatchesMildly /\ WatchTyped'
    BY <1>0, <1>4 DEF AcksMildly, IInv, Typed, CountsTyped, WatchesMildly, WatchTyped
  <2> QED
    BY <1>0, <1>2, <1>4, <2>1, CallsEnd DEF Typed
<1>5. CASE /\ Exists(f) /\ Goes(c, "await") /\ acked' = acked
           /\ watch' = [watch EXCEPT ![c][j] = "poll"]
  <2>1. j \in Jobs /\ Submitted(j) /\ Saved(j)
    BY <1>1, <1>5, FileAssumption DEF FileOK, Records
  <2>2. PICK k : k = j
    OBVIOUS
  <2>3. watch' = [watch EXCEPT ![c][k] = "poll"] /\ k \in Jobs /\ Submitted(k) /\ Saved(k)
    BY <1>5, <2>1, <2>2
  <2>4. WatchTyped' /\ \A x \in Watchers, i \in Jobs :
          watch'[x][i] = IF x = c /\ i = k THEN "poll" ELSE watch[x][i]
    BY <2>3 DEF IInv, Typed, WatchTyped, WatchSteps, Watchers
  <2>5. WatchesMildly
    BY <2>3, <2>4 DEF WatchesMildly
  <2>6. AcksMildly /\ CountsTyped'
    BY <1>0, <1>5 DEF AcksMildly, IInv, Typed, CountsTyped
  <2>7. PICK r \in CallRecords :
              /\ call' = [call EXCEPT ![c] = r]
              /\ r.at = "await" /\ r.doc = call[c].doc
              /\ r.user = call[c].user /\ r.scope = call[c].scope
              /\ r.file = f /\ r.job = call[c].job
    BY <1>5, Moving DEF CallSteps
  <2>8. CallsTyped'
    BY <2>7 DEF IInv, Typed, CallsTyped
  <2> HIDE DEF f
  <2> QED
    BY <1>0, <1>1, <2>4, <2>5, <2>6, <2>7, <2>8, CallMoves DEF Typed
<1> QED
  BY <1>3, <1>4, <1>5 DEF Reread

(* A submission fails, a request is lost, a process or a poller stops, or  *)
(* somebody lists the files.                                               *)
LEMMA NothingIsWritten ==
    ASSUME IInv, (\E c \in Calls : SubmitFails(c) \/ Lost(c)) \/ Environment
    PROVE  IInv'
<1>1. UNCHANGED <<file, docs, jobs, acked, counted, uncounted>> /\ faults' \in 0 .. MaxFaults
  BY FileAssumption DEF SubmitFails, Lost, Environment, List, Crash, PollerDies, histories, IInv,
     Typed, CountsTyped
<1>2. FilesTyped' /\ JobsTyped' /\ CountsTyped' /\ AcksMildly
  BY <1>1 DEF IInv, Typed, FilesTyped, JobsTyped, CountsTyped, AcksMildly
<1>3. watch \in [Watchers -> [Jobs -> WatchSteps]] /\ call \in [Calls -> CallRecords]
  BY DEF IInv, Typed, WatchTyped, CallsTyped
<1>4. ASSUME call' \in [Calls -> CallRecords], \A d \in Calls : call'[d] \in {call[d], Idle},
             watch' \in [Watchers -> [Jobs -> WatchSteps]], WatchesMildly
      PROVE  IInv'
  BY <1>1, <1>2, <1>4, CallsEnd DEF Typed, WatchTyped, CallsTyped
<1>5. ASSUME NEW c \in Calls, SubmitFails(c) PROVE IInv'
  <2>1. PICK r \in CallRecords :
              /\ call' = [call EXCEPT ![c] = r]
              /\ r.at = "saveFailure" /\ r.doc = call[c].doc
              /\ r.user = call[c].user /\ r.scope = call[c].scope
              /\ r.file = call[c].file /\ r.job = call[c].job
    BY <1>5, Moving DEF SubmitFails, CallSteps
  <2>2. CallsTyped' /\ WatchTyped' /\ WatchesMildly
    BY <1>3, <1>5, <2>1 DEF SubmitFails, CallsTyped, WatchTyped, WatchesMildly
  <2>3. call[c].file \in Files /\ Known(call[c].file)
    BY <1>5, Acting DEF SubmitFails, At, CallOK
  <2> QED
    BY <1>1, <1>2, <2>1, <2>2, <2>3, CallMoves DEF Typed
<1>6. ASSUME NEW c \in Calls, Lost(c) PROVE IInv'
  <2>1. call' \in [Calls -> CallRecords] /\ \A d \in Calls : call'[d] \in {call[d], Idle}
    BY <1>3, <1>6, IdleIsTyped DEF Lost, Ends
  <2>2. watch' \in [Watchers -> [Jobs -> WatchSteps]] /\ WatchesMildly
    BY <1>3, <1>6 DEF Lost, WatchSteps, WatchesMildly, Watchers
  <2> QED
    BY <1>4, <2>1, <2>2
<1>7. ASSUME NEW w \in Workers, Crash(w) PROVE IInv'
  <2>1. call' \in [Calls -> CallRecords] /\ \A d \in Calls : call'[d] \in {call[d], Idle}
    BY <1>3, <1>7, IdleIsTyped DEF Crash
  <2>2. watch' \in [Watchers -> [Jobs -> WatchSteps]] /\ WatchesMildly
    BY <1>3, <1>7 DEF Crash, WatchSteps, WatchesMildly
  <2> QED
    BY <1>4, <2>1, <2>2
<1>8. ASSUME NEW w \in Workers, NEW j \in Jobs, PollerDies(w, j) PROVE IInv'
  <2>1. call' = call /\ watch' = [watch EXCEPT ![w][j] = "none"]
    BY <1>8 DEF PollerDies, WatchGoes
  <2>2. watch' \in [Watchers -> [Jobs -> WatchSteps]] /\ WatchesMildly
    BY <1>3, <2>1 DEF WatchSteps, WatchesMildly, Watchers
  <2> QED
    BY <1>3, <1>4, <2>1, <2>2
<1>9. ASSUME NEW w \in Workers, List(w) PROVE IInv'
  <2>1. watch' = ResumedBy(w, ProjectFiles) /\ call' = call /\ ProjectFiles \in SUBSET Files
    BY <1>9 DEF List, ProjectFiles
  <2>2. WatchesMildly /\ WatchTyped'
    BY <2>1, Resuming
  <2> QED
    BY <1>3, <1>4, <2>1, <2>2 DEF WatchTyped
<1> QED
  BY <1>5, <1>6, <1>7, <1>8, <1>9 DEF Environment

(***************************************************************************)
(* Requests that write.                                                    *)
(***************************************************************************)
(* The record of one file changes, and with it the request that writes it; *)
(* what is left to show is about this file and this request.               *)
LEMMA RecordIsWritten ==
    ASSUME IInv, Typed', NEW c \in Calls, NEW f \in Files, NEW record \in Records,
           file' = [file EXCEPT ![f] = record], UNCHANGED <<jobs, watch, acked, counted, uncounted>>,
           NEW r \in CallRecords, call' = [call EXCEPT ![c] = r],
           call[c].file = f, r.file = f \/ r = Idle, r.at \notin {"findHash", "insert", "saveJob"},
           Known(f)', call[c].at = "insert" \/ Known(f),
           call[c].at = "insert" \/ (Exists(f)' => Exists(f)),
           file[f].job # None /\ Exists(f)' => file'[f].job # None,
           FileOK(f)', CallOK(c)',
           \A j \in Jobs : IsCurrent(f, j)' => IsCurrent(f, j) \/ ~Saved(j)
    PROVE  IInv'
<1>0. /\ \A d \in Calls : call'[d] = IF d = c THEN r ELSE call[d]
      /\ \A g \in Files : g # f => file'[g] = file[g]
  BY DEF IInv, Typed, CallsTyped, FilesTyped
<1>1. \A j \in Jobs : /\ Saved(j) => Saved(j)'
                      /\ (Submitted(j)' <=> Submitted(j)) /\ (Succeeded(j)' <=> Succeeded(j))
  BY <1>0 DEF Saved, At, Submitted, Succeeded
<1>2. ASSUME NEW g \in Files PROVE FileOK(g)'
  <2>1. CASE g # f
    <3>1. file'[g] = file[g] /\ FileOK(g) /\ file[g] \in Records
      BY <1>0, <2>1 DEF IInv, Typed, FilesTyped
    <3> QED
      BY <1>1, <3>1 DEF FileOK, Exists, Known, Records
  <2> QED
    BY <2>1
<1>3. ASSUME NEW j \in Jobs, Submitted(j), Past(j) PROVE Past(j)'
  <2>1. jobs[j].file \in Files
    BY <1>3, JobsHaveFiles DEF JobRecords
  <2>2. IsCurrent(jobs[j].file, j)' => jobs[j].file = f \/ IsCurrent(jobs[j].file, j)
    BY <1>0, <2>1 DEF IsCurrent, Exists
  <2> QED
    BY <1>1, <1>3, <2>2 DEF Past
<1>4. ASSUME NEW j \in Jobs PROVE JobOK(j)'
  <2>1. JobOK(j) /\ counted'[j] = counted[j]
    BY DEF IInv
  <2>2. CASE counted[j] = 0
    BY <2>1, <2>2 DEF JobOK
  <2>3. CASE counted[j] = 1 /\ Succeeded(j) /\ Past(j)
    <3>1. Succeeded(j)' /\ Submitted(j)
      BY <1>1, <2>3 DEF Succeeded
    <3>2. Past(j)'
      BY <1>3, <2>3, <3>1
    <3> QED
      BY <2>1, <2>3, <3>1, <3>2 DEF JobOK
  <2> QED
    BY <2>1, <2>2, <2>3 DEF JobOK
<1>5. ASSUME NEW x \in Watchers, NEW j \in Jobs PROVE WatchOK(x, j)'
  BY <1>1, <1>3 DEF IInv, WatchOK
<1>6. ASSUME NEW d \in Calls, d # c PROVE CallOK(d)'
  <2>1. CallOK(d) /\ CallOK(c) /\ call'[d] = call[d]
    BY <1>0, <1>6 DEF IInv
  <2>2. \A g \in Files : g # f => (Known(g)' = Known(g) /\ Exists(g)' = Exists(g))
    BY <1>0 DEF Known, Exists
  <2>3. CASE call[d].at = "insert"
    <3>1. call[d].file # f /\ call[d].file # r.file
      BY <1>6, <2>1, <2>3, FileAssumption DEF CallOK, Idle
    <3>2. \A e \in Calls : call'[e].file = call[d].file => d = e
      BY <1>0, <2>1, <2>3, <3>1 DEF CallOK
    <3> QED
      BY <2>1, <2>2, <2>3, <3>1, <3>2 DEF CallOK
  <2>4. CASE call[d].at = "uncount"
    <3>1. \A e \in Calls : At(e, "uncount")' /\ call'[e].file = call[d].file => d = e
      BY <1>0, <2>1, <2>4 DEF CallOK, At
    <3>2. ~Exists(call[d].file)' /\ Known(call[d].file)'
      BY <2>1, <2>2, <2>4 DEF CallOK
    <3> QED
      BY <2>1, <2>4, <3>1, <3>2 DEF CallOK
  <2>5. CASE call[d].at = "saveJob"
    <3>1. \A e \in Calls : At(e, "saveJob")' => call'[e] = call[e]
      BY <1>0 DEF At
    <3> QED
      BY <2>1, <2>2, <2>5, <3>1 DEF CallOK, At, Submitted
  <2>6. CASE call[d].at = "reread"
    <3>1. Known(call[d].file) /\ call[d].file \in Files
      BY <2>1, <2>6 DEF CallOK
    <3>2. call[d].file = f => call[c].at # "insert"
      BY <1>6, <2>1 DEF CallOK
    <3>3. Exists(call[d].file)' => file'[call[d].file].job # None
      BY <1>0, <2>1, <2>2, <2>6, <3>1, <3>2 DEF CallOK
    <3> QED
      BY <2>1, <2>2, <2>6, <3>1, <3>3 DEF CallOK
  <2>7. CASE call[d].at \notin {"insert", "uncount", "saveJob", "reread"}
    BY <2>1, <2>2, <2>7 DEF CallOK
  <2> QED
    BY <2>3, <2>4, <2>5, <2>6, <2>7
<1> QED
  BY <1>2, <1>4, <1>5, <1>6 DEF IInv

(* A request ends without having written anything.                         *)
LEMMA RequestEnds ==
    ASSUME IInv, NEW c \in Calls, Ends(c),
           UNCHANGED <<file, docs, jobs, watch, faults, acked, counted, uncounted>>
    PROVE  IInv'
<1>1. CallsTyped' /\ \A d \in Calls : call'[d] \in {call[d], Idle}
  BY IdleIsTyped DEF Ends, IInv, Typed, CallsTyped
<1>2. /\ WatchesMildly /\ AcksMildly
      /\ FilesTyped' /\ JobsTyped' /\ WatchTyped' /\ CountsTyped'
  BY DEF WatchesMildly, AcksMildly, IInv, Typed, FilesTyped, JobsTyped, WatchTyped, CountsTyped
<1> QED
  BY <1>1, <1>2, CallsEnd DEF Typed

(* A new record, whose id nobody else works on.                            *)
LEMMA RecordIsInserted ==
    ASSUME IInv, NEW c \in Calls, InsertRecord(c)
    PROVE  IInv'
<1>0. PICK f \in Files : f = call[c].file
  BY Acting DEF CallOK, InsertRecord, At
<1> DEFINE record == NewRecord(call[c].doc, call[c].user, call[c].scope)
<1>1. /\ UNCHANGED <<docs, jobs, watch, faults, acked, counted, uncounted>>
      /\ file' = [file EXCEPT ![f] = record] /\ Goes(c, "submit") /\ call[c].at = "insert"
  BY <1>0 DEF InsertRecord, histories, At
<1>2. f \in Files /\ ~Known(f) /\ CallOK(c) /\ FileOK(f) /\ call[c] \in CallRecords
  BY <1>0, <1>1, Acting DEF CallOK, IInv
<1>3. /\ call[c].doc \in Documents /\ call[c].user \in Uploaders
      /\ call[c].scope \in {"project", "chat"}
  BY <1>0, <1>1, <1>2 DEF CallOK, CallRecords
<1>4. /\ record \in Records /\ record.status = "processing" /\ record.phase = None
      /\ record.job = None /\ record.doc = call[c].doc /\ ~record.indexed
  BY <1>0, <1>3, NewFields
<1> HIDE DEF record
<1>5. PICK r \in CallRecords :
              /\ call' = [call EXCEPT ![c] = r]
              /\ r.at = "submit" /\ r.doc = call[c].doc
              /\ r.user = call[c].user /\ r.scope = call[c].scope
              /\ r.file = f /\ r.job = call[c].job
  BY <1>0, <1>1, Moving DEF CallSteps
<1>6. Typed' /\ file'[f] = record /\ call'[c] = r
  BY <1>0, <1>1, <1>2, <1>4, <1>5
     DEF IInv, Typed, FilesTyped, JobsTyped, WatchTyped, CallsTyped, CountsTyped
<1>7. Known(f)' /\ Exists(f)'
  BY <1>0, <1>3, <1>4, <1>6, FileAssumption DEF Known, Exists
<1>8. FileOK(f)'
  BY <1>0, <1>1, <1>2, <1>4, <1>6, <1>7 DEF FileOK
<1>9. CallOK(c)'
  BY <1>0, <1>2, <1>5, <1>6, <1>7 DEF CallOK
<1>10. \A j \in Jobs : ~IsCurrent(f, j)'
  BY <1>4, <1>6, FileAssumption DEF IsCurrent, Jobs
<1>11. file[f].job = None
  BY <1>2 DEF FileOK
<1> QED
  BY <1>0, <1>1, <1>2, <1>4, <1>5, <1>6, <1>7, <1>8, <1>9, <1>10, <1>11, RecordIsWritten

(* The id of a job, and with it the file is processing again.              *)
LEMMA JobIsSaved ==
    ASSUME IInv, NEW c \in Calls, SaveJob(c)
    PROVE  IInv'
<1>0. PICK f \in Files, j \in Jobs : f = call[c].file /\ j = call[c].job
  <2>1. call[c].file \in Files /\ Submitted(call[c].job)
    BY Acting DEF CallOK, SaveJob, At
  <2>2. call[c].job \in Jobs
    BY <2>1, FileAssumption DEF IInv, Typed, JobsTyped, Submitted, Jobs
  <2> QED
    BY <2>1, <2>2
<1> DEFINE record == Queued(file[f], j)
<1>1. /\ UNCHANGED <<docs, jobs, watch, faults, acked, counted, uncounted>>
      /\ file' = IF Exists(f) THEN [file EXCEPT ![f] = record] ELSE file
      /\ Goes(c, "reread") /\ call[c].at = "saveJob"
  BY <1>0 DEF SaveJob, histories, At
<1>2. f \in Files /\ Known(f) /\ CallOK(c) /\ FileOK(f) /\ file[f] \in Records
  BY <1>0, <1>1, Acting DEF CallOK, IInv, Typed, FilesTyped
<1>3. Submitted(j) /\ jobs[j].file = f /\ j \in Jobs
  BY <1>0, <1>1, <1>2, FileAssumption DEF CallOK, IInv, Typed, JobsTyped, Submitted, Jobs
<1>4. /\ record \in Records /\ record.status = "processing" /\ record.phase = "active"
      /\ record.job = j /\ record.doc = file[f].doc /\ record.indexed = file[f].indexed
  BY <1>2, <1>3, QueuedFields
<1>5. PICK r \in CallRecords :
              /\ call' = [call EXCEPT ![c] = r]
              /\ r.at = "reread" /\ r.doc = call[c].doc
              /\ r.user = call[c].user /\ r.scope = call[c].scope
              /\ r.file = f /\ r.job = j
  BY <1>0, <1>1, Moving DEF CallSteps
<1>6. CallsTyped' /\ \A d \in Calls : call'[d] = IF d = c THEN r ELSE call[d]
  BY <1>5 DEF IInv, Typed, CallsTyped
<1>7. CASE Exists(f)
  <2> HIDE DEF record
  <2>1. Typed' /\ file'[f] = record
    BY <1>0, <1>1, <1>2, <1>4, <1>6, <1>7 DEF IInv, Typed, FilesTyped, JobsTyped, WatchTyped, CountsTyped
  <2>2. Known(f)' /\ Exists(f)' /\ file'[f].job = j /\ j # None
    BY <1>2, <1>3, <1>4, <2>1, FileAssumption DEF Known, Exists, Jobs
  <2>3. Saved(j)'
    BY <1>0, <1>1, <1>2, <1>5, <1>6 DEF Saved, At, CallOK
  <2>4. FileOK(f)'
    <3>1. Saved(file[f].job)'
      BY <2>2, <2>3 DEF Saved, At
    <3>2. Submitted(file[f].job)' /\ jobs'[file'[f].job].file = f /\ file'[f].phase # None
      BY <1>1, <1>3, <1>4, <2>1, <2>2, FileAssumption DEF Submitted
    <3> QED
      BY <1>1, <1>2, <1>4, <1>7, <2>1, <2>2, <3>1, <3>2 DEF FileOK
  <2>5. CallOK(c)'
    BY <1>0, <1>2, <1>5, <1>6, <2>2 DEF CallOK
  <2>6. ~Saved(j)
    BY <1>0, <1>1 DEF Saved, At
  <2>7. \A i \in Jobs : IsCurrent(f, i)' => IsCurrent(f, i) \/ ~Saved(i)
    BY <1>4, <2>1, <2>6 DEF IsCurrent
  <2>8. r.file = f \/ r = Idle
    BY <1>5
  <2>9. r.at \notin {"findHash", "insert", "saveJob"}
    BY <1>5
  <2>10. file' = [file EXCEPT ![f] = record] /\ record \in Records
    BY <1>1, <1>4, <1>7
  <2>11. call[c].file = f
    BY <1>0
  <2> QED
    BY <1>0, <1>1, <1>2, <1>5, <1>7, <2>1, <2>2, <2>4, <2>5, <2>7, <2>8, <2>9, <2>10, <2>11,
       RecordIsWritten
<1>8. CASE ~Exists(f)
  <2>1. file' = file
    BY <1>1, <1>8
  <2>2. /\ WatchesMildly /\ AcksMildly
        /\ FilesTyped' /\ JobsTyped' /\ WatchTyped' /\ CountsTyped'
    BY <1>1, <2>1 DEF WatchesMildly, AcksMildly, IInv, Typed, FilesTyped, JobsTyped, WatchTyped,
       CountsTyped
  <2> QED
    BY <1>0, <1>1, <1>2, <1>5, <1>6, <1>8, <2>1, <2>2, CallMoves DEF Typed
<1> QED
  BY <1>7, <1>8

(* A submission has failed; a record that is gone stays gone.              *)
LEMMA FailureIsSaved ==
    ASSUME IInv, NEW c \in Calls, SaveFailure(c)
    PROVE  IInv'
<1>0. PICK f \in Files : f = call[c].file
  BY Acting DEF CallOK, SaveFailure, At
<1> DEFINE record == Failed(file[f])
<1>1. /\ UNCHANGED <<docs, jobs, watch, faults, acked, counted, uncounted>>
      /\ file' = IF Exists(f) THEN [file EXCEPT ![f] = record] ELSE file
      /\ Ends(c) /\ call[c].at = "saveFailure"
  BY <1>0 DEF SaveFailure, histories, At
<1>2. f \in Files /\ Known(f) /\ FileOK(f) /\ file[f] \in Records
  BY <1>0, <1>1, Acting DEF CallOK, IInv, Typed, FilesTyped
<1>3. CASE ~Exists(f)
  BY <1>1, <1>3, RequestEnds
<1>4. CASE Exists(f)
  <2>1. /\ record \in Records /\ record.status = "failed" /\ record.phase = "failed"
        /\ record.job = file[f].job /\ record.doc = file[f].doc /\ ~record.indexed
    BY <1>2, FailedFields
  <2> HIDE DEF record
  <2>2. PICK r \in CallRecords : r = Idle
    BY IdleIsTyped
  <2>3. call' = [call EXCEPT ![c] = r] /\ r.at = "idle"
    BY <1>1, <2>2 DEF Ends, Idle
  <2>4. Typed' /\ file'[f] = record /\ \A d \in Calls : call'[d] = IF d = c THEN r ELSE call[d]
    BY <1>0, <1>1, <1>2, <1>4, <2>1, <2>3
       DEF IInv, Typed, FilesTyped, JobsTyped, WatchTyped, CallsTyped, CountsTyped
  <2>5. Known(f)' /\ Exists(f)'
    BY <1>2, <2>1, <2>4 DEF Known, Exists
  <2>6. \A i \in Jobs : Saved(i) => Saved(i)'
    BY <2>3, <2>4 DEF Saved, At
  <2>7. FileOK(f)'
    <3>1. file[f].job # None => Saved(file[f].job)'
      <4>1. ASSUME file[f].job # None
            PROVE  \A d \in Calls : call'[d].at = "saveJob" => call'[d].job # file'[f].job
        BY <1>2, <2>1, <2>3, <2>4, <4>1 DEF FileOK, Saved, At
      <4> QED
        BY <4>1 DEF Saved, At
    <3>2. file'[f].job # None => /\ file[f].job = file'[f].job /\ Submitted(file[f].job)
                                 /\ jobs[file[f].job].file = f /\ file'[f].phase # None
      BY <1>2, <2>1, <2>4, FileAssumption DEF FileOK
    <3> QED
      BY <1>0, <1>1, <1>2, <1>4, <2>1, <2>4, <2>5, <3>1, <3>2 DEF FileOK, Submitted
  <2>8. CallOK(c)'
    BY <2>3, <2>4 DEF CallOK
  <2>9. \A i \in Jobs : ~IsCurrent(f, i)'
    BY <2>1, <2>4 DEF IsCurrent
  <2>10. file' = [file EXCEPT ![f] = record] /\ call[c].file = f
    BY <1>0, <1>1, <1>4
  <2> QED
    BY <1>0, <1>1, <1>2, <1>4, <2>1, <2>2, <2>3, <2>4, <2>5, <2>7, <2>8, <2>9, <2>10, RecordIsWritten
<1> QED
  BY <1>3, <1>4

(* One of the requests that delete a file removes it.                      *)
LEMMA RecordIsDeleted ==
    ASSUME IInv, NEW c \in Calls, DeleteRecord(c)
    PROVE  IInv'
<1>0. PICK f \in Files : f = call[c].file
  BY Acting DEF CallOK, DeleteRecord, At
<1> DEFINE record == [NoRecord EXCEPT !.doc = file[f].doc]
<1>1. /\ UNCHANGED <<docs, jobs, watch, faults, acked, counted, uncounted>>
      /\ IF Exists(f) THEN file' = [file EXCEPT ![f] = record] /\ Goes(c, "uncount")
                      ELSE file' = file /\ Ends(c)
      /\ call[c].at = "deleteRecord"
  BY <1>0 DEF DeleteRecord, histories, At
<1>2. f \in Files /\ Known(f) /\ FileOK(f) /\ file[f] \in Records /\ CallOK(c)
  BY <1>0, <1>1, Acting DEF CallOK, IInv, Typed, FilesTyped
<1>3. CASE ~Exists(f)
  BY <1>1, <1>3, RequestEnds
<1>4. CASE Exists(f)
  <2>1. /\ record \in Records /\ record.status = "none" /\ record.phase = None
        /\ record.job = None /\ record.doc = file[f].doc /\ ~record.indexed
    BY <1>2, DeletedFields DEF Records
  <2> HIDE DEF record
  <2>2. PICK r \in CallRecords :
              /\ call' = [call EXCEPT ![c] = r]
              /\ r.at = "uncount" /\ r.doc = call[c].doc
              /\ r.user = call[c].user /\ r.scope = call[c].scope
              /\ r.file = f /\ r.job = call[c].job
    BY <1>0, <1>1, <1>4, Moving DEF CallSteps
  <2>3. Typed' /\ file'[f] = record /\ \A d \in Calls : call'[d] = IF d = c THEN r ELSE call[d]
    BY <1>0, <1>1, <1>2, <1>4, <2>1, <2>2
       DEF IInv, Typed, FilesTyped, JobsTyped, WatchTyped, CallsTyped, CountsTyped
  <2>4. Known(f)' /\ ~Exists(f)'
    BY <1>2, <2>1, <2>3 DEF Known, Exists
  <2>5. uncounted[f] = 0
    BY <1>2, <1>4 DEF FileOK
  <2>6. FileOK(f)'
    BY <1>1, <2>1, <2>3, <2>4, <2>5 DEF FileOK
  <2>7. \A d \in Calls : At(d, "uncount") => call[d].file # f
    BY <1>4 DEF At, IInv, CallOK
  <2>8. \A d \in Calls : At(d, "uncount")' /\ call'[d].file = f => c = d
    BY <2>3, <2>7 DEF At
  <2>9. CallOK(c)'
    BY <1>0, <1>1, <1>2, <2>2, <2>3, <2>4, <2>5, <2>8 DEF CallOK
  <2>10. \A i \in Jobs : ~IsCurrent(f, i)'
    BY <2>1, <2>3, FileAssumption DEF IsCurrent, Jobs
  <2>11. file' = [file EXCEPT ![f] = record] /\ call[c].file = f
    BY <1>0, <1>1, <1>4
  <2> QED
    BY <1>0, <1>1, <1>2, <1>4, <2>1, <2>2, <2>3, <2>4, <2>6, <2>9, <2>10, <2>11, RecordIsWritten
<1> QED
  BY <1>3, <1>4

(* The deletion of a file is counted by the one request that made it.      *)
LEMMA DeletionIsCounted ==
    ASSUME IInv, NEW c \in Calls, Uncount(c)
    PROVE  IInv'
<1>0. PICK f \in Files : f = call[c].file
  BY Acting DEF CallOK, Uncount, At
<1>1. /\ UNCHANGED <<file, jobs, watch, faults, acked, counted>>
      /\ docs' = docs - 1 /\ uncounted' = [uncounted EXCEPT ![f] = @ + 1]
      /\ Ends(c) /\ call[c].at = "uncount"
  BY <1>0 DEF Uncount, At
<1>2. uncounted[f] = 0 /\ Known(f) /\ ~Exists(f)
  BY <1>0, <1>1, Acting DEF CallOK
<1>3. CallsTyped' /\ \A d \in Calls : call'[d] = IF d = c THEN Idle ELSE call[d]
  BY <1>1, IdleIsTyped DEF Ends, IInv, Typed, CallsTyped
<1>4. Typed' /\ uncounted'[f] = 1 /\ \A g \in Files : g # f => uncounted'[g] = uncounted[g]
  BY <1>1, <1>2, <1>3 DEF IInv, Typed, FilesTyped, JobsTyped, WatchTyped, CountsTyped
<1>5. \A j \in Jobs : /\ Saved(j) => Saved(j)'
                      /\ (Submitted(j)' <=> Submitted(j)) /\ (Succeeded(j)' <=> Succeeded(j))
                      /\ \A g \in Files : IsCurrent(g, j)' = IsCurrent(g, j)
  BY <1>1, <1>3 DEF Saved, At, Idle, Submitted, Succeeded, IsCurrent, Exists
<1>6. \A g \in Files : Known(g)' = Known(g) /\ Exists(g)' = Exists(g)
  BY <1>1 DEF Known, Exists
<1>7. ASSUME NEW g \in Files PROVE FileOK(g)'
  BY <1>1, <1>2, <1>4, <1>5, <1>6, <1>7 DEF IInv, Typed, FilesTyped, Records, FileOK
<1>8. ASSUME NEW j \in Jobs PROVE JobOK(j)'
  BY <1>1, <1>5 DEF IInv, JobOK, Past, IsCurrent, Exists
<1>9. ASSUME NEW x \in Watchers, NEW j \in Jobs PROVE WatchOK(x, j)'
  BY <1>1, <1>5 DEF IInv, WatchOK, Past, IsCurrent, Exists
<1>10. CallOK(c)'
  BY <1>3 DEF CallOK, Idle
<1>11. ASSUME NEW d \in Calls, d # c PROVE CallOK(d)'
  <2>1. CallOK(d) /\ call'[d] = call[d] /\ call[d] \in CallRecords
    BY <1>3, <1>11, Acting
  <2>2. call[d].at = "uncount" => call[d].file # f
    BY <1>0, <1>1, <1>11, <2>1 DEF CallOK, At
  <2>3. \A e \in Calls : At(e, "saveJob")' \/ At(e, "uncount")' => call'[e] = call[e]
    BY <1>3 DEF At, Idle
  <2>4. ASSUME call[d].at = "insert", NEW e \in Calls, call'[e].file = call[d].file
        PROVE  d = e
    <3>1. call[d].file \in Files
      BY <2>1, <2>4 DEF CallOK
    <3>2. call'[e] = call[e]
      BY <1>3, <2>4, <3>1, FileAssumption DEF Idle
    <3> QED
      BY <2>1, <2>4, <3>2 DEF CallOK
  <2>5. call[d].at = "uncount" => uncounted'[call[d].file] = uncounted[call[d].file]
    BY <1>4, <2>1, <2>2 DEF CallOK
  <2>6. call[d].file \in Files =>
            Known(call[d].file)' = Known(call[d].file) /\ Exists(call[d].file)' = Exists(call[d].file)
    BY <1>1, <2>1 DEF Known, Exists
  <2> QED
    BY <1>1, <2>1, <2>3, <2>4, <2>5, <2>6 DEF CallOK, Submitted, At
<1> QED
  BY <1>4, <1>7, <1>8, <1>9, <1>10, <1>11 DEF IInv

(* A job that nobody has heard of yet.                                     *)
LEMMA JobIsSubmitted ==
    ASSUME IInv, NEW c \in Calls, Submit(c)
    PROVE  IInv'
<1>0. PICK f \in Files, n \in Jobs : f = call[c].file /\ n = Len(jobs) + 1
  <2>1. call[c].file \in Files
    BY Acting DEF CallOK, Submit, At
  <2>2. Len(jobs) + 1 \in Jobs
    BY FileAssumption DEF Submit, Jobs, IInv, Typed, JobsTyped
  <2> QED
    BY <2>1, <2>2
<1> DEFINE a == [call[c] EXCEPT !.at = "saveJob"]
           r == [a EXCEPT !.job = n]
<1>1. /\ UNCHANGED <<file, docs, watch, faults, acked, counted, uncounted>>
      /\ jobs' = Append(jobs, [file |-> f, succeeded |-> FALSE])
      /\ call' = [call EXCEPT ![c] = r] /\ call[c].at = "submit" /\ Len(jobs) < MaxJobs
  BY <1>0 DEF Submit, histories, At
<1>2. a \in CallRecords /\ a.at = "saveJob" /\ a.file = f
  BY <1>0, Acting DEF CallRecords, CallSteps
<1> HIDE DEF a
<1>3. r \in CallRecords /\ r.at = "saveJob" /\ r.file = f /\ r.job = n
  BY <1>2 DEF CallRecords
<1> HIDE DEF r
<1>4. CallsTyped' /\ \A d \in Calls : call'[d] = IF d = c THEN r ELSE call[d]
  BY <1>1, <1>3 DEF IInv, Typed, CallsTyped
<1>5. [file |-> f, succeeded |-> FALSE] \in JobRecords
  BY DEF JobRecords
<1>6. /\ JobsTyped' /\ Len(jobs') = n
      /\ jobs'[n] = [file |-> f, succeeded |-> FALSE]
      /\ \A i \in 1 .. Len(jobs) : jobs'[i] = jobs[i]
  BY <1>0, <1>1, <1>5, FileAssumption DEF IInv, Typed, JobsTyped
<1>7. Typed'
  BY <1>1, <1>4, <1>6 DEF IInv, Typed, FilesTyped, WatchTyped, CountsTyped
<1>8. /\ ~Submitted(n) /\ Submitted(n)' /\ jobs'[n].file = f
      /\ \A i \in Jobs : Submitted(i) =>
            Submitted(i)' /\ jobs'[i] = jobs[i] /\ i # n /\ (Saved(i) => Saved(i)')
  <2>1. ~Submitted(n) /\ Submitted(n)' /\ jobs'[n].file = f
    BY <1>0, <1>6 DEF Submitted, IInv, Typed, JobsTyped, Jobs
  <2>2. ASSUME NEW i \in Jobs, Submitted(i)
        PROVE  Submitted(i)' /\ jobs'[i] = jobs[i] /\ i # n
    BY <1>0, <1>6, <2>1, <2>2 DEF Submitted, IInv, Typed, JobsTyped, Jobs
  <2>3. ASSUME NEW i \in Jobs, i # n, Saved(i) PROVE Saved(i)'
    BY <1>3, <1>4, <2>3 DEF Saved, At
  <2> QED
    BY <2>1, <2>2, <2>3
<1>9. \A g : Known(g)' = Known(g) /\ Exists(g)' = Exists(g)
  BY <1>1 DEF Known, Exists
<1>10. ASSUME NEW i \in Jobs, Submitted(i)
       PROVE  (Past(i) => Past(i)') /\ (Succeeded(i) => Succeeded(i)')
  BY <1>1, <1>8, <1>10 DEF Past, Succeeded, IsCurrent, Exists
<1>11. ASSUME NEW g \in Files PROVE FileOK(g)'
  <2>1. FileOK(g) /\ file[g] \in Records /\ file'[g] = file[g] /\ (g \in acked' <=> g \in acked)
        /\ uncounted'[g] = uncounted[g]
    BY <1>1 DEF IInv, Typed, FilesTyped
  <2>2. ASSUME file[g].job # None
        PROVE  Submitted(file[g].job)' /\ jobs'[file[g].job].file = g /\ Saved(file[g].job)'
    <3>1. PICK i \in Jobs : i = file[g].job
      BY <2>1, <2>2 DEF Records
    <3>2. Submitted(i) /\ jobs[i].file = g /\ Saved(i)
      BY <2>1, <2>2, <3>1 DEF FileOK
    <3>3. Submitted(i)' /\ jobs'[i].file = g /\ Saved(i)'
      BY <1>8, <3>2
    <3> QED
      BY <1>1, <3>1, <3>3 DEF Submitted, Saved, At
  <2>3. ASSUME file[g].status = "completed"
        PROVE  file[g].indexed /\ Succeeded(file[g].job)'
    <3>1. PICK i \in Jobs : i = file[g].job /\ Succeeded(i)
      BY <2>1, <2>3, FileAssumption DEF Records, FileOK
    <3>2. Succeeded(i)'
      BY <1>10, <3>1 DEF Succeeded
    <3> QED
      BY <1>1, <2>1, <2>3, <3>1, <3>2 DEF FileOK, Succeeded, Submitted
  <2> QED
    BY <1>1, <1>9, <2>1, <2>2, <2>3 DEF FileOK
<1>12. ASSUME NEW j \in Jobs PROVE JobOK(j)'
  BY <1>1, <1>10 DEF IInv, JobOK, Succeeded
<1>13. ASSUME NEW x \in Watchers, NEW j \in Jobs PROVE WatchOK(x, j)'
  BY <1>1, <1>8, <1>10 DEF IInv, WatchOK, Succeeded
<1>14. CallOK(c)'
  <2>1. \A d \in Calls : At(d, "saveJob") => call[d].job # n
    BY <1>8, Acting DEF At, CallOK
  <2>2. \A d \in Calls : At(d, "saveJob")' /\ call'[d].job = n => c = d
    BY <1>4, <2>1 DEF At
  <2>3. Known(f)
    BY <1>0, <1>1, Acting DEF CallOK
  <2> QED
    BY <1>3, <1>4, <1>8, <1>9, <2>2, <2>3 DEF CallOK, Submitted
<1>15. ASSUME NEW d \in Calls, d # c PROVE CallOK(d)'
  <2>1. CallOK(d) /\ call'[d] = call[d] /\ call[d] \in CallRecords
    BY <1>4, <1>15, Acting
  <2>2. call[d].at = "insert" => call[d].file # f
    BY <1>0, <1>15, <2>1 DEF CallOK
  <2>3. ASSUME call[d].at = "insert", NEW e \in Calls, call'[e].file = call[d].file
        PROVE  d = e
    BY <1>3, <1>4, <2>1, <2>2, <2>3 DEF CallOK
  <2>4. \A e \in Calls : At(e, "uncount")' => call'[e] = call[e]
    BY <1>3, <1>4 DEF At
  <2>5. ASSUME call[d].at = "saveJob"
        PROVE  /\ Submitted(call[d].job)' /\ jobs'[call[d].job].file = call[d].file
               /\ \A e \in Calls : At(e, "saveJob")' /\ call'[e].job = call[d].job => d = e
    <3>1. PICK i : i = call[d].job
      OBVIOUS
    <3>2. Submitted(i) /\ i \in Jobs /\ jobs[i].file = call[d].file
      BY <2>1, <2>5, <3>1, FileAssumption DEF CallOK, Submitted, Jobs, IInv, Typed, JobsTyped
    <3>3. Submitted(i)' /\ jobs'[i] = jobs[i] /\ i # n
      BY <1>8, <3>2
    <3>4. \A e \in Calls : At(e, "saveJob")' /\ call'[e].job = i => d = e
      BY <1>3, <1>4, <2>1, <2>5, <3>1, <3>3 DEF At, CallOK
    <3> QED
      BY <2>1, <3>1, <3>2, <3>3, <3>4 DEF Submitted
  <2> QED
    BY <1>1, <1>9, <2>1, <2>3, <2>4, <2>5, ZenonT(60) DEF CallOK, At
<1> QED
  BY <1>7, <1>11, <1>12, <1>13, <1>14, <1>15 DEF IInv

(***************************************************************************)
(* Watches.                                                                *)
(***************************************************************************)
(* A watch that is over answers at most its own request.                   *)
LEMMA EndOfWatch ==
    ASSUME IInv, NEW x \in Watchers, NEW j \in Jobs, WatchEnds(x, j)
    PROVE  /\ WatchTyped' /\ CallsTyped' /\ \A d \in Calls : call'[d] \in {call[d], Idle}
           /\ \A y \in Watchers, i \in Jobs :
                 watch'[y][i] = IF y = x /\ i = j THEN "none" ELSE watch[y][i]
<1>1. call \in [Calls -> CallRecords] /\ watch \in [Watchers -> [Jobs -> WatchSteps]]
  BY DEF IInv, Typed, CallsTyped, WatchTyped
<1>2. call' \in [Calls -> CallRecords] /\ \A d \in Calls : call'[d] \in {call[d], Idle}
  BY <1>1, IdleIsTyped DEF WatchEnds
<1>3. /\ watch' \in [Watchers -> [Jobs -> WatchSteps]]
      /\ \A y \in Watchers, i \in Jobs :
            watch'[y][i] = IF y = x /\ i = j THEN "none" ELSE watch[y][i]
  BY <1>1 DEF WatchEnds, WatchGoes, WatchSteps
<1> QED
  BY <1>2, <1>3 DEF WatchTyped, CallsTyped

(* A watch that goes on.                                                   *)
LEMMA StepOfWatch ==
    ASSUME IInv, NEW x \in Watchers, NEW j \in Jobs, NEW step \in WatchSteps, WatchGoes(x, j, step)
    PROVE  /\ WatchTyped'
           /\ \A y \in Watchers, i \in Jobs :
                 watch'[y][i] = IF y = x /\ i = j THEN step ELSE watch[y][i]
  BY DEF IInv, Typed, WatchTyped, WatchGoes

(* The loop ends, goes on to give up, or hears that the job succeeded.     *)
LEMMA JobIsHeardOf ==
    ASSUME IInv, NEW x \in Watchers, NEW j \in Jobs,
           HearsPending(x, j) \/ GivesUp(x, j) \/ HearsSuccess(x, j)
    PROVE  IInv'
<1>0. watch[x][j] = "poll" /\ Submitted(j) /\ Saved(j) /\ jobs[j] \in JobRecords
  BY JobsHaveFiles DEF HearsPending, GivesUp, HearsSuccess, Watches, IInv, WatchOK
<1>1. CASE HearsPending(x, j)
  <2>1. /\ UNCHANGED <<file, docs, jobs, faults, acked, counted, uncounted>> /\ WatchEnds(x, j)
    BY <1>1 DEF HearsPending, histories
  <2>2. FilesTyped' /\ JobsTyped' /\ CountsTyped' /\ AcksMildly
    BY <2>1 DEF IInv, Typed, FilesTyped, JobsTyped, CountsTyped, AcksMildly
  <2> QED
    BY <2>1, <2>2, EndOfWatch, CallsEnd DEF Typed, WatchesMildly
<1>2. CASE GivesUp(x, j)
  <2>1. /\ UNCHANGED <<file, docs, jobs, call, faults, acked, counted, uncounted>>
        /\ WatchGoes(x, j, "fail")
    BY <1>2 DEF GivesUp, histories
  <2>2. FilesTyped' /\ JobsTyped' /\ CallsTyped' /\ CountsTyped' /\ AcksMildly
    BY <2>1 DEF IInv, Typed, FilesTyped, JobsTyped, CallsTyped, CountsTyped, AcksMildly
  <2>3. WatchTyped' /\ WatchesMildly
    BY <1>0, <2>1, StepOfWatch DEF WatchesMildly, WatchSteps
  <2> QED
    BY <2>1, <2>2, <2>3, CallsEnd DEF Typed
<1>3. CASE HearsSuccess(x, j)
  <2>1. /\ UNCHANGED <<file, docs, call, faults, acked, counted, uncounted>>
        /\ jobs' = [jobs EXCEPT ![j].succeeded = TRUE] /\ WatchGoes(x, j, "complete")
    BY <1>3 DEF HearsSuccess, histories
  <2>2. /\ WatchTyped'
        /\ \A y \in Watchers, i \in Jobs :
              watch'[y][i] = IF y = x /\ i = j THEN "complete" ELSE watch[y][i]
    BY <2>1, StepOfWatch DEF WatchSteps
  <2>3. PICK job \in JobRecords : job = [jobs[j] EXCEPT !.succeeded = TRUE]
    BY <1>0 DEF JobRecords
  <2>4. job.succeeded /\ job.file = jobs[j].file
    BY <1>0, <2>3 DEF JobRecords
  <2>5. /\ JobsTyped' /\ Len(jobs') = Len(jobs)
        /\ \A i \in 1 .. Len(jobs) : jobs'[i] = IF i = j THEN job ELSE jobs[i]
    <3>1. jobs' = [jobs EXCEPT ![j] = job]
      BY <2>1, <2>3
    <3>2. jobs \in Seq(JobRecords) /\ Len(jobs) <= MaxJobs
      BY DEF IInv, Typed, JobsTyped
    <3>3. jobs' \in Seq(JobRecords) /\ Len(jobs') = Len(jobs)
      BY <1>0, <3>1, <3>2, ExceptSeq DEF Submitted
    <3>4. ASSUME NEW i \in 1 .. Len(jobs) PROVE jobs'[i] = IF i = j THEN job ELSE jobs[i]
      BY <3>1, <3>2
    <3> QED
      BY <3>2, <3>3, <3>4 DEF JobsTyped
  <2>6. Typed'
    BY <2>1, <2>2, <2>5 DEF IInv, Typed, FilesTyped, CallsTyped, CountsTyped
  <2>7. \A i : /\ Submitted(i)' <=> Submitted(i)
               /\ Saved(i)' <=> Saved(i)
               /\ Submitted(i) => jobs'[i].file = jobs[i].file
               /\ Succeeded(i) => Succeeded(i)'
    BY <2>1, <2>4, <2>5 DEF Submitted, Saved, At, Succeeded
  <2>8. Succeeded(j)'
    BY <1>0, <2>4, <2>5 DEF Submitted, Succeeded
  <2>9. \A i : Submitted(i) => (Past(i)' <=> Past(i))
    BY <2>1, <2>7 DEF Past, IsCurrent, Exists
  <2>10. ASSUME NEW g \in Files PROVE FileOK(g)'
    <3>1. FileOK(g)
      BY DEF IInv
    <3>2. PICK i : i = file[g].job /\ i = file'[g].job
      BY <2>1
    <3>3. /\ Submitted(file[g].job)' <=> Submitted(i)
          /\ Saved(file[g].job)' <=> Saved(i)
          /\ Succeeded(i) => Succeeded(file[g].job)'
      BY <2>1, <2>7, <3>2 DEF Submitted, Saved, At, Succeeded
    <3> QED
      BY <2>1, <2>7, <3>1, <3>2, <3>3 DEF FileOK, Exists, Known
  <2>11. ASSUME NEW i \in Jobs PROVE JobOK(i)'
    BY <2>1, <2>7, <2>9 DEF IInv, JobOK, Succeeded
  <2>12. ASSUME NEW y \in Watchers, NEW i \in Jobs PROVE WatchOK(y, i)'
    BY <1>0, <2>1, <2>2, <2>7, <2>8, <2>9 DEF IInv, WatchOK, Succeeded
  <2>13. ASSUME NEW d \in Calls PROVE CallOK(d)'
    <3>1. CallOK(d)
      BY DEF IInv
    <3>2. Submitted(call[d].job)' <=> Submitted(call[d].job)
      BY <2>1, <2>5 DEF Submitted
    <3> QED
      BY <2>1, <2>7, <3>1, <3>2 DEF CallOK, Known, Exists, At
  <2> QED
    BY <2>6, <2>10, <2>11, <2>12, <2>13 DEF IInv
<1> QED
  BY <1>1, <1>2, <1>3

(* The watcher goes on to count at most the job it has heard of.           *)
WatchSettles(x, j) ==
    /\ \A y \in Watchers, i \in Jobs :
          watch'[y][i] \in {watch[y][i], "none"} \/ (watch'[y][i] = "count" /\ y = x /\ i = j)
    /\ watch'[x][j] = "count" => Succeeded(j)

(* What a record becomes when its job has come to something.               *)
IsVerdict(record, f, j) ==
    /\ record.doc = file[f].doc /\ record.job = file[f].job /\ record.status # "none"
    /\ record.phase \in {"succeeded", "failed"}
    /\ record.status = "completed" => record.indexed /\ Succeeded(j)

(* The record of the watched job is settled: from then on the job is past, *)
(* and the watcher that settled it may be the one to count it.             *)
LEMMA RecordIsSettled ==
    ASSUME IInv, Typed', NEW x \in Watchers, NEW j \in Jobs, NEW f \in Files, NEW record \in Records,
           watch[x][j] # "none", f = jobs[j].file, IsCurrent(f, j),
           file' = [file EXCEPT ![f] = record], UNCHANGED <<jobs, acked, counted, uncounted>>,
           \A d \in Calls : call'[d] \in {call[d], Idle},
           WatchSettles(x, j), IsVerdict(record, f, j)
    PROVE  IInv'
<1> USE DEF WatchSettles, IsVerdict
<1>0. file'[f] = record /\ \A g \in Files : g # f => file'[g] = file[g]
  BY DEF IInv, Typed, FilesTyped
<1>1. /\ Exists(f) /\ file[f].job = j /\ FileOK(f) /\ Submitted(j) /\ Saved(j)
      /\ Known(f)' /\ Exists(f)' /\ Known(f)
  BY <1>0 DEF IsCurrent, IInv, WatchOK, FileOK, Known, Exists
<1>2. \A i : /\ Saved(i) => Saved(i)'
             /\ (Submitted(i)' <=> Submitted(i)) /\ (Succeeded(i)' <=> Succeeded(i))
  BY DEF Saved, At, Idle, Submitted, Succeeded
<1>3. \A g \in Files :
        (Known(g)' <=> Known(g)) /\ (Exists(g)' <=> Exists(g)) /\ file'[g].job = file[g].job
  BY <1>0, <1>1 DEF Known, Exists
<1>4. ASSUME NEW g \in Files PROVE FileOK(g)'
  <2>1. PICK i : i = file[g].job
    OBVIOUS
  <2>2. /\ Saved(i) => Saved(file[g].job)'
        /\ Submitted(i) => Submitted(file[g].job)'
        /\ Succeeded(i) => Succeeded(file[g].job)'
    <3>1. i = file'[g].job
      BY <1>3, <2>1
    <3>2. Saved(i)' <=> Saved(file[g].job)'
      BY <3>1 DEF Saved, At
    <3>3. Submitted(i)' <=> Submitted(file[g].job)'
      BY <3>1 DEF Submitted
    <3>4. Succeeded(i)' <=> Succeeded(file[g].job)'
      BY <3>1 DEF Succeeded, Submitted
    <3> QED
      BY <1>2, <3>2, <3>3, <3>4
  <2>3. CASE g # f
    <3>1. file'[g] = file[g] /\ FileOK(g)
      BY <1>0, <2>3 DEF IInv
    <3> QED
      BY <1>3, <2>1, <2>2, <3>1 DEF FileOK
  <2>4. CASE g = f
    BY <1>0, <1>1, <1>3, <2>1, <2>2, <2>4, FileAssumption DEF FileOK, Jobs
  <2> QED
    BY <2>3, <2>4
<1>5. ~IsCurrent(f, j)'
  BY <1>0 DEF IsCurrent
<1>6. Past(j)' /\ ~Past(j)
  BY <1>1, <1>2, <1>5 DEF Past
<1>7. ASSUME NEW i \in Jobs, Submitted(i), Past(i) PROVE Past(i)'
  <2>1. jobs[i].file \in Files
    BY <1>7, JobsHaveFiles DEF JobRecords
  <2>2. PICK g \in Files : g = jobs[i].file
    BY <2>1
  <2>3. ~IsCurrent(g, i) /\ Saved(i)
    BY <1>7, <2>2 DEF Past
  <2>4. ~IsCurrent(g, i)'
    BY <1>0, <1>3, <2>3 DEF IsCurrent
  <2> QED
    BY <1>2, <2>2, <2>3, <2>4 DEF Past, IsCurrent, Exists
<1>8. ASSUME NEW i \in Jobs PROVE JobOK(i)'
  BY <1>2, <1>7 DEF IInv, JobOK, Succeeded
<1>9. counted[j] = 0 /\ \A y \in Watchers : watch[y][j] # "count"
  BY <1>6 DEF IInv, JobOK, WatchOK
<1>10. ASSUME NEW y \in Watchers, NEW i \in Jobs PROVE WatchOK(y, i)'
  BY <1>1, <1>2, <1>6, <1>7, <1>9 DEF IInv, WatchOK
<1>11. ASSUME NEW d \in Calls PROVE CallOK(d)'
  <2>1. CASE call'[d] = Idle
    BY <2>1 DEF CallOK, Idle
  <2>2. CASE call'[d] = call[d]
    <3>1. CallOK(d)
      BY DEF IInv
    <3>2. ASSUME NEW e \in Calls, call'[e].file = call[d].file, call[d].file \in Files
          PROVE  call[e].file = call[d].file
      BY <3>2, FileAssumption DEF Idle
    <3>3. ASSUME NEW e \in Calls, At(e, "saveJob")' PROVE At(e, "saveJob") /\ call'[e] = call[e]
      BY <3>3 DEF At, Idle
    <3>4. ASSUME NEW e \in Calls, At(e, "uncount")' PROVE At(e, "uncount") /\ call'[e] = call[e]
      BY <3>4 DEF At, Idle
    <3>5. call[d].file \in Files =>
             /\ Known(call[d].file)' <=> Known(call[d].file)
             /\ Exists(call[d].file)' <=> Exists(call[d].file)
             /\ file'[call[d].file].job = file[call[d].file].job
      BY <1>3, <2>2 DEF Known, Exists
    <3> QED
      BY <2>2, <3>1, <3>2, <3>3, <3>4, <3>5 DEF CallOK, Submitted
  <2> QED
    BY <2>1, <2>2
<1> QED
  BY <1>4, <1>8, <1>10, <1>11 DEF IInv

LEMMA RecordIsCompleted ==
    ASSUME IInv, NEW x \in Watchers, NEW j \in Jobs, CompleteFile(x, j) \/ FailFile(x, j)
    PROVE  IInv'
<1>0. watch[x][j] \in {"complete", "fail"} /\ Submitted(j) /\ jobs[j] \in JobRecords
  BY JobsHaveFiles DEF CompleteFile, FailFile, Watches, IInv, WatchOK
<1>1. PICK f \in Files : f = jobs[j].file
  BY <1>0 DEF JobRecords
<1>2. /\ UNCHANGED <<docs, jobs, faults, acked, counted, uncounted>>
      /\ JobsTyped' /\ CountsTyped' /\ AcksMildly
  BY DEF CompleteFile, FailFile, histories, IInv, Typed, JobsTyped, CountsTyped, AcksMildly
<1>3. CASE WatchEnds(x, j) /\ file' = file
  <2>1. FilesTyped'
    BY <1>3 DEF IInv, Typed, FilesTyped
  <2> QED
    BY <1>2, <1>3, <2>1, EndOfWatch, CallsEnd DEF Typed, WatchesMildly
<1>4. ASSUME IsCurrent(f, j), NEW record \in Records, file' = [file EXCEPT ![f] = record],
             WatchEnds(x, j) \/ (WatchGoes(x, j, "count") /\ call' = call /\ Succeeded(j)),
             IsVerdict(record, f, j)
      PROVE  IInv'
  <2>1. FilesTyped'
    BY <1>4 DEF IInv, Typed, FilesTyped
  <2>2. /\ WatchTyped' /\ CallsTyped' /\ WatchSettles(x, j)
        /\ \A d \in Calls : call'[d] \in {call[d], Idle}
    <3>1. CASE WatchEnds(x, j)
      BY <3>1, EndOfWatch DEF WatchSettles
    <3>2. CASE WatchGoes(x, j, "count") /\ call' = call /\ Succeeded(j)
      BY <3>2, StepOfWatch DEF WatchSettles, WatchSteps, IInv, Typed, CallsTyped
    <3> QED
      BY <1>4, <3>1, <3>2
  <2>3. Typed' /\ watch[x][j] # "none"
    BY <1>0, <1>2, <2>1, <2>2 DEF Typed
  <2> QED
    BY <1>1, <1>2, <1>4, <2>2, <2>3, RecordIsSettled
<1>5. CASE CompleteFile(x, j) /\ IsCurrent(f, j)
  <2> DEFINE record == Completed(file[f])
  <2>1. /\ file' = [file EXCEPT ![f] = record] /\ watch[x][j] = "complete"
        /\ WatchEnds(x, j) \/ (WatchGoes(x, j, "count") /\ call' = call)
    BY <1>1, <1>5 DEF CompleteFile, Watches
  <2>2. Succeeded(j)
    BY <2>1 DEF IInv, WatchOK
  <2>3. file[f] \in Records
    BY DEF IInv, Typed, FilesTyped
  <2>4. /\ record \in Records /\ record.phase = "succeeded" /\ record.status = "completed"
        /\ record.doc = file[f].doc /\ record.job = file[f].job /\ record.indexed
    BY <2>3, CompletedFields
  <2> HIDE DEF record
  <2>5. IsVerdict(record, f, j)
    BY <2>2, <2>4 DEF IsVerdict
  <2> QED
    BY <1>4, <1>5, <2>1, <2>2, <2>4, <2>5
<1>6. CASE FailFile(x, j) /\ IsCurrent(f, j)
  <2> DEFINE record == Failed(file[f])
  <2>1. file' = [file EXCEPT ![f] = record] /\ WatchEnds(x, j)
    BY <1>1, <1>6 DEF FailFile
  <2>2. file[f] \in Records
    BY DEF IInv, Typed, FilesTyped
  <2>3. /\ record \in Records /\ record.phase = "failed" /\ record.status = "failed"
        /\ record.doc = file[f].doc /\ record.job = file[f].job
    BY <2>2, FailedFields
  <2> HIDE DEF record
  <2>4. IsVerdict(record, f, j)
    BY <2>3 DEF IsVerdict
  <2> QED
    BY <1>4, <1>6, <2>1, <2>3, <2>4
<1>7. CASE ~IsCurrent(f, j)
  BY <1>1, <1>3, <1>7 DEF CompleteFile, FailFile
<1> QED
  BY <1>5, <1>6, <1>7

(* The one watcher that settled the record counts it.                      *)
LEMMA FileIsCounted ==
    ASSUME IInv, NEW x \in Watchers, NEW j \in Jobs, CountFile(x, j)
    PROVE  IInv'
<1>1. /\ UNCHANGED <<file, jobs, faults, acked, uncounted>> /\ watch[x][j] = "count"
      /\ docs' = docs + 1 /\ counted' = [counted EXCEPT ![j] = @ + 1] /\ WatchEnds(x, j)
  BY DEF CountFile, Watches
<1>2. /\ counted[j] = 0 /\ Past(j) /\ Succeeded(j)
      /\ \A y \in Watchers : watch[y][j] = "count" => x = y
  BY <1>1 DEF IInv, WatchOK
<1>3. Typed' /\ counted'[j] = 1 /\ \A i \in Jobs : i # j => counted'[i] = counted[i]
  BY <1>1, <1>2, EndOfWatch DEF IInv, Typed, FilesTyped, JobsTyped, CountsTyped
<1>4. /\ \A d \in Calls : call'[d] \in {call[d], Idle}
      /\ \A y \in Watchers, i \in Jobs :
            watch'[y][i] = IF y = x /\ i = j THEN "none" ELSE watch[y][i]
  BY <1>1, EndOfWatch
<1>5. \A i \in Jobs : /\ Saved(i) => Saved(i)'
                      /\ (Submitted(i)' <=> Submitted(i)) /\ (Succeeded(i)' <=> Succeeded(i))
                      /\ \A f \in Files : IsCurrent(f, i)' = IsCurrent(f, i)
                      /\ Past(i) => Past(i)'
  BY <1>1, <1>4 DEF Saved, At, Idle, Submitted, Succeeded, Past, IsCurrent, Exists
<1>6. ASSUME NEW f \in Files PROVE FileOK(f)'
  BY <1>1, <1>5 DEF IInv, Typed, FilesTyped, Records, FileOK, Exists, Known
<1>7. ASSUME NEW i \in Jobs PROVE JobOK(i)'
  BY <1>2, <1>3, <1>5 DEF IInv, JobOK
<1>8. ASSUME NEW y \in Watchers, NEW i \in Jobs PROVE WatchOK(y, i)'
  BY <1>2, <1>3, <1>4, <1>5 DEF IInv, WatchOK
<1>9. ASSUME NEW d \in Calls PROVE CallOK(d)'
  <2>1. CASE call'[d] = Idle
    BY <2>1 DEF CallOK, Idle
  <2>2. CASE call'[d] = call[d]
    <3>1. CallOK(d) /\ \A f : Known(f)' = Known(f) /\ Exists(f)' = Exists(f)
      BY <1>1 DEF IInv, Known, Exists
    <3>2. ASSUME NEW e \in Calls, call'[e].file = call[d].file, call[d].file \in Files
          PROVE  call[e].file = call[d].file
      BY <1>4, <3>2, FileAssumption DEF Idle
    <3>3. ASSUME NEW e \in Calls, At(e, "saveJob")' PROVE At(e, "saveJob") /\ call'[e] = call[e]
      BY <1>4, <3>3 DEF At, Idle
    <3>4. ASSUME NEW e \in Calls, At(e, "uncount")' PROVE At(e, "uncount") /\ call'[e] = call[e]
      BY <1>4, <3>4 DEF At, Idle
    <3> QED
      BY <1>1, <2>2, <3>1, <3>2, <3>3, <3>4 DEF CallOK, Submitted
  <2> QED
    BY <1>4, <2>1, <2>2
<1> QED
  BY <1>3, <1>6, <1>7, <1>8, <1>9 DEF IInv

(***************************************************************************)
(* The theorems.                                                           *)
(***************************************************************************)
LEMMA NothingIsThere ==
    ASSUME Init
    PROVE  IInv
<1>1. NoRecord \in Records
  BY DEF NoRecord, Records
<1>2. Typed
  <2>1. FilesTyped
    BY <1>1 DEF Init, FilesTyped
  <2>2. JobsTyped
    BY FileAssumption DEF Init, JobsTyped
  <2>3. WatchTyped
    BY DEF Init, WatchTyped, WatchSteps
  <2>4. CallsTyped
    BY IdleIsTyped DEF Init, CallsTyped
  <2>5. CountsTyped
    BY FileAssumption DEF Init, CountsTyped
  <2> QED
    BY <2>1, <2>2, <2>3, <2>4, <2>5 DEF Typed
<1>3. ASSUME NEW f \in Files PROVE FileOK(f)
  BY DEF Init, FileOK, Exists, NoRecord
<1>4. ASSUME NEW j \in Jobs PROVE JobOK(j)
  BY DEF Init, JobOK
<1>5. ASSUME NEW x \in Watchers, NEW j \in Jobs PROVE WatchOK(x, j)
  BY DEF Init, WatchOK
<1>6. ASSUME NEW c \in Calls PROVE CallOK(c)
  BY DEF Init, CallOK, Idle
<1> QED
  BY <1>2, <1>3, <1>4, <1>5, <1>6 DEF IInv

LEMMA Preserved ==
    ASSUME IInv, [Next]_vars
    PROVE  IInv'
<1>1. ASSUME NEW c \in Calls, Progress(c) PROVE IInv'
  BY <1>1, HashIsFound, RecordIsInserted, JobIsSubmitted, JobIsSaved, FailureIsSaved, RecordIsReread,
     RecordIsDeleted, DeletionIsCounted DEF Progress
<1>2. ASSUME NEW x \in Watchers, NEW j \in Jobs, Observes(x, j) PROVE IInv'
  BY <1>2, JobIsHeardOf, RecordIsCompleted, FileIsCounted DEF Observes
<1>3. CASE UNCHANGED vars
  <2>1. \A d \in Calls : call'[d] \in {call[d], Idle}
    BY <1>3 DEF vars
  <2>2. Typed' /\ WatchesMildly /\ AcksMildly
    BY <1>3 DEF vars, IInv, Typed, FilesTyped, JobsTyped, WatchTyped, CallsTyped, CountsTyped,
       WatchesMildly, AcksMildly
  <2> QED
    BY <1>3, <2>1, <2>2, CallsEnd DEF vars
<1> QED
  BY <1>1, <1>2, <1>3, RequestsBegin, NothingIsWritten DEF Next

(* Files, jobs, watchers and requests agree in every reachable state.      *)
THEOREM Consistent == Spec => []IInv
<1>1. Init => IInv
  BY NothingIsThere
<1>2. IInv /\ [Next]_vars => IInv'
  BY Preserved
<1> QED
  BY <1>1, <1>2, PTL DEF Spec

(* Every variable has its type.                                            *)
THEOREM TypesHold == Spec => []TypeOK
<1>1. IInv => TypeOK
  BY DEF IInv, Typed, FilesTyped, JobsTyped, WatchTyped, CallsTyped, CountsTyped, FileOK, TypeOK
<1> QED
  BY <1>1, Consistent, PTL

(* A file that is acknowledged has a job of its own, and one that is shown *)
(* as completed was indexed by the job its record names.                   *)
THEOREM RecordsAreHonest == Spec => []RecordSpeaksOfItsJob
<1>1. IInv => RecordSpeaksOfItsJob
  BY DEF IInv, FileOK, Succeeded, RecordSpeaksOfItsJob
<1> QED
  BY <1>1, Consistent, PTL

(* However many requests and processes hear of a job, it is counted once,  *)
(* and however many requests delete a file, it is taken off once.          *)
THEOREM CountsAreSingle == Spec => []CountedOnce
<1>1. IInv => CountedOnce
  BY DEF IInv, JobOK, FileOK, Succeeded, CountedOnce
<1> QED
  BY <1>1, Consistent, PTL

(* No late poller rewrites what a job came to.                             *)
THEOREM VerdictsStand == Spec => VerdictStands
<1> DEFINE Settled(f) == file[f].phase \in {"succeeded", "failed"} /\ ~Resubmits(f)
           Step == \A f \in Files : Settled(f) => ~Exists(f)' \/ file'[f] = file[f]
<1>1. ASSUME IInv, Next PROVE Step
  <2>1. SUFFICES ASSUME NEW f \in Files, Settled(f), Exists(f)'
                 PROVE  file'[f] = file[f]
    OBVIOUS
  <2>2. FileOK(f) /\ file \in [Files -> Records]
    BY <1>1 DEF IInv, Typed, FilesTyped
  <2>3. ASSUME NEW c \in Calls, InsertRecord(c) PROVE file'[f] = file[f]
    <3>1. call[c].file \in Files /\ ~Known(call[c].file)
      BY <1>1, <2>3, Acting DEF InsertRecord, At, CallOK
    <3>2. f # call[c].file
      BY <2>1, <2>2, <3>1, FileAssumption DEF FileOK
    <3> QED
      BY <2>2, <2>3, <3>2 DEF InsertRecord
  <2>4. ASSUME NEW c \in Calls, SaveJob(c) \/ SaveFailure(c) PROVE file'[f] = file[f]
    <3>1. f # call[c].file
      BY <2>1, <2>4 DEF SaveJob, SaveFailure, At, Resubmits
    <3> QED
      BY <2>2, <2>4, <3>1 DEF SaveJob, SaveFailure
  <2>5. ASSUME NEW c \in Calls, DeleteRecord(c) PROVE file'[f] = file[f]
    <3>1. CASE f # call[c].file
      BY <2>2, <2>5, <3>1 DEF DeleteRecord
    <3>2. CASE f = call[c].file
      <4>1. [NoRecord EXCEPT !.doc = file[f].doc].status = "none"
        BY DEF NoRecord
      <4>2. Exists(f) => ~Exists(f)'
        BY <2>2, <2>5, <3>2, <4>1 DEF DeleteRecord, Exists
      <4> QED
        BY <2>1, <2>5, <3>2, <4>2 DEF DeleteRecord
    <3> QED
      BY <3>1, <3>2
  <2>6. ASSUME NEW x \in Watchers, NEW j \in Jobs, CompleteFile(x, j) \/ FailFile(x, j)
        PROVE  file'[f] = file[f]
    BY <2>1, <2>2, <2>6 DEF CompleteFile, FailFile, IsCurrent
  <2>7. CASE file' = file
    BY <2>7
  <2> QED
    BY <1>1, <2>3, <2>4, <2>5, <2>6, <2>7, ZenonT(60)
       DEF Next, Request, Progress, Observes, Environment, Upload, Delete, FindsKnown, FindsNew, Submit,
           Reread, Uncount, SubmitFails, Lost, HearsPending, HearsSuccess, GivesUp, CountFile, List,
           Crash, PollerDies
<1>2. IInv /\ [Next]_vars => [Step]_vars
  BY <1>1
<1> QED
  BY <1>2, Consistent, PTL DEF Spec, VerdictStands

(***************************************************************************)
(* How many records a content has.                                         *)
(***************************************************************************)
(* The uploads to the project that found no record of a content by their   *)
(* member and are about to insert one.                                     *)
Inserting(d, u) ==
    {c \in Calls : /\ At(c, "insert") /\ call[c].scope = "project"
                   /\ call[c].doc = d /\ call[c].user = u}

(* Each record was inserted by one of the uploads that all found none.     *)
OneEach(d, u) ==
    /\ IsFiniteSet(RecordsWith(d, u))
    /\ Cardinality(RecordsWith(d, u)) + Cardinality(Inserting(d, u)) <= Cardinality(Calls)

LEMMA InsertingIsFinite ==
    ASSUME NEW d, NEW u
    PROVE  /\ IsFiniteSet(Inserting(d, u)) /\ Cardinality(Inserting(d, u)) \in Nat
           /\ Cardinality(Calls) \in Nat /\ Cardinality(Inserting(d, u)) <= Cardinality(Calls)
<1>1. Inserting(d, u) \subseteq Calls
  BY DEF Inserting
<1> QED
  BY <1>1, FileAssumption, FS_Subset, FS_CardinalityType

(* Fewer records and fewer uploads about to insert keep the bound.         *)
LEMMA FewerStayBounded ==
    ASSUME NEW d, NEW u, OneEach(d, u), RecordsWith(d, u)' \subseteq RecordsWith(d, u),
           Inserting(d, u)' \subseteq Inserting(d, u)
    PROVE  OneEach(d, u)'
<1>1. /\ IsFiniteSet(RecordsWith(d, u)') /\ Cardinality(RecordsWith(d, u)') \in Nat
      /\ Cardinality(RecordsWith(d, u)) \in Nat
      /\ Cardinality(RecordsWith(d, u)') <= Cardinality(RecordsWith(d, u))
  BY FS_Subset, FS_CardinalityType DEF OneEach
<1>2. /\ Cardinality(Inserting(d, u)') \in Nat /\ Cardinality(Inserting(d, u)) \in Nat
      /\ Cardinality(Inserting(d, u)') <= Cardinality(Inserting(d, u)) /\ Cardinality(Calls) \in Nat
  BY InsertingIsFinite, FS_Subset, FS_CardinalityType
<1> QED
  BY <1>1, <1>2 DEF OneEach

(* Only inserting makes a record one of this content.                      *)
LEMMA RecordsStay ==
    ASSUME IInv, [Next]_vars, NEW d \in Documents, NEW u \in Uploaders,
           \A c \in Calls : ~InsertRecord(c)
    PROVE  RecordsWith(d, u)' \subseteq RecordsWith(d, u)
<1> SUFFICES ASSUME NEW f \in Files, f \in RecordsWith(d, u)'
             PROVE  f \in RecordsWith(d, u)
  BY DEF RecordsWith, ProjectFiles
<1>1. file \in [Files -> Records] /\ file[f] \in Records /\ FileOK(f)
  BY DEF IInv, Typed, FilesTyped
<1>2. file'[f].status # "none" /\ file'[f].doc = d /\ file'[f].user = u
      /\ file'[f].scope = "project"
  BY DEF RecordsWith, ProjectFiles, Exists, IsProjectFile
<1>3. SUFFICES /\ file[f].status # "none" /\ file[f].scope = "project"
               /\ file[f].doc = d /\ file[f].user = u
  BY DEF RecordsWith, ProjectFiles, Exists, IsProjectFile
<1>4. CASE file'[f] = file[f]
  BY <1>2, <1>4
<1>5. CASE file'[f] = Completed(file[f]) /\ Exists(f)
  BY <1>1, <1>2, <1>5, CompletedFields DEF Exists
<1>6. CASE file'[f] = Failed(file[f]) /\ Exists(f)
  BY <1>1, <1>2, <1>6, FailedFields DEF Exists
<1>7. ASSUME NEW c \in Calls, SaveJob(c)
      PROVE  /\ file[f].status # "none" /\ file[f].scope = "project"
             /\ file[f].doc = d /\ file[f].user = u
  <2>1. CASE file'[f] = file[f]
    BY <1>4, <2>1
  <2>2. CASE file'[f] # file[f]
    <3>1. f = call[c].file /\ Exists(f) /\ file'[f] = Queued(file[f], call[c].job)
      BY <1>1, <1>7, <2>2 DEF SaveJob
    <3>2. Submitted(call[c].job) /\ Len(jobs) \in Nat /\ Len(jobs) <= MaxJobs
      BY <1>7, Acting DEF SaveJob, At, CallOK, IInv, Typed, JobsTyped
    <3>3. call[c].job \in Jobs
      BY <3>2, FileAssumption DEF Submitted, Jobs
    <3> QED
      BY <1>1, <1>2, <3>1, <3>3, QueuedFields DEF Exists
  <2> QED
    BY <2>1, <2>2
<1>8. ASSUME NEW c \in Calls, SaveFailure(c)
      PROVE  file'[f] = file[f] \/ (file'[f] = Failed(file[f]) /\ Exists(f))
  BY <1>1, <1>8 DEF SaveFailure
<1>9. ASSUME NEW c \in Calls, DeleteRecord(c)
      PROVE  file'[f] = file[f]
  <2>1. [NoRecord EXCEPT !.doc = file[f].doc].status = "none"
    BY DEF NoRecord
  <2> QED
    BY <1>1, <1>2, <1>9, <2>1 DEF DeleteRecord
<1>10. ASSUME NEW x \in Watchers, NEW j \in Jobs, CompleteFile(x, j) \/ FailFile(x, j)
       PROVE  \/ file'[f] = file[f]
              \/ Exists(f) /\ file'[f] \in {Completed(file[f]), Failed(file[f])}
  BY <1>1, <1>10 DEF CompleteFile, FailFile, IsCurrent
<1>11. file' = file \/ \/ \E c \in Calls : SaveJob(c) \/ SaveFailure(c) \/ DeleteRecord(c)
                       \/ \E x \in Watchers, j \in Jobs : CompleteFile(x, j) \/ FailFile(x, j)
  BY ZenonT(60)
     DEF Next, vars, Request, Progress, Observes, Environment, Upload, Delete, FindsKnown, FindsNew,
         Submit, Reread, Uncount, SubmitFails, Lost, HearsPending, HearsSuccess, GivesUp, CountFile,
         List, Crash, PollerDies
<1> QED
  BY <1>4, <1>5, <1>6, <1>7, <1>8, <1>9, <1>10, <1>11

(* Only an upload that finds no record comes to insert one.                *)
LEMMA InsertersStay ==
    ASSUME IInv, [Next]_vars, NEW d \in Documents, NEW u \in Uploaders,
           \A c \in Calls, f \in Files : ~FindsNew(c, f)
    PROVE  Inserting(d, u)' \subseteq Inserting(d, u)
<1> SUFFICES ASSUME NEW c \in Calls, At(c, "insert")'
             PROVE  call'[c] = call[c]
  BY DEF Inserting, At
<1>1. call \in [Calls -> CallRecords]
  BY DEF IInv, Typed, CallsTyped
<1>2. ASSUME NEW e \in Calls, NEW step \in CallSteps, step # "insert", Goes(e, step)
      PROVE  call'[c] = call[c]
  BY <1>1, <1>2 DEF Goes, At, CallRecords
<1>3. ASSUME \A e \in Calls : call'[e] \in {call[e], Idle}
      PROVE  call'[c] = call[c]
  BY <1>3 DEF At, Idle
<1>4. ASSUME NEW e \in Calls, Request(e)
      PROVE  call'[c] = call[c]
  BY <1>1, <1>4 DEF Request, Upload, Delete, Starts, At, Idle
<1>5. ASSUME NEW e \in Calls, Progress(e)
      PROVE  call'[c] = call[c]
  <2>1. ASSUME NEW f \in Files, FindsKnown(e, f)
        PROVE  call'[c] = call[c]
    <3>1. CASE Ends(e)
      BY <1>1, <3>1 DEF Ends, At, Idle
    <3>2. CASE call' = [call EXCEPT ![e] = [call[e] EXCEPT !.at = "submit", !.file = f]]
      BY <1>1, <3>2 DEF At, CallRecords
    <3> QED
      BY <2>1, <3>1, <3>2 DEF FindsKnown
  <2>2. ASSUME Submit(e)
        PROVE  call'[c] = call[c]
    BY <1>1, <2>2 DEF Submit, At, CallRecords
  <2>3. ASSUME InsertRecord(e) \/ SaveJob(e)
        PROVE  call'[c] = call[c]
    BY <1>2, <2>3 DEF InsertRecord, SaveJob, CallSteps
  <2>4. ASSUME SaveFailure(e) \/ Uncount(e)
        PROVE  call'[c] = call[c]
    BY <1>1, <2>4 DEF SaveFailure, Uncount, Ends, At, Idle
  <2>5. ASSUME Ends(e)
        PROVE  call'[c] = call[c]
    BY <1>1, <2>5 DEF Ends, At, Idle
  <2>6. ASSUME Reread(e) \/ DeleteRecord(e)
        PROVE  call'[c] = call[c]
    BY <1>2, <2>5, <2>6 DEF Reread, DeleteRecord, CallSteps
  <2> QED
    BY <1>5, <2>1, <2>2, <2>3, <2>4, <2>6 DEF Progress
<1>6. ASSUME NEW e \in Calls, SubmitFails(e) \/ Lost(e)
      PROVE  call'[c] = call[c]
  BY <1>1, <1>2, <1>6 DEF SubmitFails, Lost, Ends, At, Idle, CallSteps
<1>7. ASSUME NEW x \in Watchers, NEW j \in Jobs, Observes(x, j)
      PROVE  call'[c] = call[c]
  <2>1. ASSUME WatchEnds(x, j)
        PROVE  call'[c] = call[c]
    BY <1>3, <2>1, EndOfWatch
  <2> QED
    BY <1>7, <2>1 DEF Observes, HearsPending, HearsSuccess, GivesUp, CompleteFile, FailFile, CountFile
<1>8. ASSUME Environment
      PROVE  call'[c] = call[c]
  <2>1. \A e \in Calls : call'[e] \in {call[e], Idle}
    BY <1>1, <1>8 DEF Environment, List, Crash, PollerDies
  <2> QED
    BY <1>3, <2>1
<1> QED
  BY <1>4, <1>5, <1>6, <1>7, <1>8 DEF Next, vars

(* An upload to the project that finds no record may insert the first.     *)
LEMMA FirstIsFound ==
    ASSUME IInv, NEW c \in Calls, NEW f \in Files, FindsNew(c, f),
           NEW d \in Documents, NEW u \in Uploaders, OneEach(d, u)
    PROVE  OneEach(d, u)'
<1>1. UNCHANGED file /\ RecordsWith(d, u)' = RecordsWith(d, u)
  BY DEF FindsNew, RecordsWith, ProjectFiles, Exists, IsProjectFile
<1>2. call \in [Calls -> CallRecords]
  BY DEF IInv, Typed, CallsTyped
<1>3. /\ \A e \in Calls : e # c => call'[e] = call[e]
      /\ call'[c].doc = call[c].doc /\ call'[c].user = call[c].user
      /\ call'[c].scope = call[c].scope
  BY <1>2 DEF FindsNew, CallRecords
<1>4. CASE call[c].doc = d /\ call[c].user = u /\ call[c].scope = "project"
  <2>1. RecordsWith(d, u)' = {}
    BY <1>1, <1>4 DEF FindsNew, Holding, RecordsWith, ProjectFiles
  <2>2. Inserting(d, u)' \subseteq Calls
    BY DEF Inserting
  <2>3. /\ Cardinality(Inserting(d, u)') \in Nat /\ Cardinality(Calls) \in Nat
        /\ Cardinality(Inserting(d, u)') <= Cardinality(Calls)
    BY <2>2, FileAssumption, FS_Subset, FS_CardinalityType
  <2> QED
    BY <2>1, <2>3, FS_EmptySet DEF OneEach
<1>5. CASE ~(call[c].doc = d /\ call[c].user = u /\ call[c].scope = "project")
  <2>1. Inserting(d, u)' \subseteq Inserting(d, u)
    BY <1>3, <1>5 DEF Inserting, At
  <2> QED
    BY <1>1, <2>1, FewerStayBounded
<1> QED
  BY <1>4, <1>5

(* A record takes the place of the upload that inserts it.                 *)
LEMMA InsertKeepsCount ==
    ASSUME IInv, NEW c \in Calls, InsertRecord(c),
           NEW d \in Documents, NEW u \in Uploaders, OneEach(d, u)
    PROVE  OneEach(d, u)'
<1>0. PICK f \in Files : f = call[c].file
  BY Acting DEF CallOK, InsertRecord, At
<1>1. /\ file \in [Files -> Records] /\ call \in [Calls -> CallRecords] /\ call[c].at = "insert"
      /\ call[c].doc \in Documents /\ call[c].user \in Uploaders
      /\ call[c].scope \in {"project", "chat"} /\ ~Known(f)
      /\ ~Exists(f)
  BY <1>0, Acting DEF IInv, Typed, FilesTyped, CallsTyped, CallRecords, CallOK, FileOK, InsertRecord, At
<1>2. /\ file' = [file EXCEPT ![f] = NewRecord(call[c].doc, call[c].user, call[c].scope)]
      /\ Goes(c, "submit")
  BY <1>0 DEF InsertRecord
<1>3. /\ \A e \in Calls : e # c => call'[e] = call[e]
      /\ ~At(c, "insert")'
  BY <1>1, <1>2 DEF Goes, At, CallRecords
<1>4. \A e \in Files : e # f => file'[e] = file[e]
  BY <1>1, <1>2
<1>5. file'[f] = NewRecord(call[c].doc, call[c].user, call[c].scope)
  BY <1>1, <1>2
<1>6. /\ file'[f].doc = call[c].doc /\ file'[f].user = call[c].user
      /\ file'[f].scope = call[c].scope
      /\ file'[f].status # "none"
  BY <1>1, <1>5, NewFields
<1>7. f \notin RecordsWith(d, u)
  BY <1>1 DEF RecordsWith, ProjectFiles
<1>8. CASE call[c].doc = d /\ call[c].user = u /\ call[c].scope = "project"
  <2>1. RecordsWith(d, u)' = RecordsWith(d, u) \cup {f}
    BY <1>4, <1>6, <1>8 DEF RecordsWith, ProjectFiles, Exists, IsProjectFile
  <2>2. Inserting(d, u)' = Inserting(d, u) \ {c} /\ c \in Inserting(d, u)
    BY <1>1, <1>3, <1>8 DEF Inserting, At
  <2>3. /\ IsFiniteSet(RecordsWith(d, u)')
        /\ Cardinality(RecordsWith(d, u)') = Cardinality(RecordsWith(d, u)) + 1
        /\ Cardinality(RecordsWith(d, u)) \in Nat
    BY <1>7, <2>1, FS_AddElement, FS_CardinalityType DEF OneEach
  <2>4. /\ Cardinality(Inserting(d, u)') = Cardinality(Inserting(d, u)) - 1
        /\ Cardinality(Inserting(d, u)) \in Nat /\ Cardinality(Calls) \in Nat
    BY <2>2, InsertingIsFinite, FS_RemoveElement
  <2> QED
    BY <2>3, <2>4 DEF OneEach
<1>9. CASE ~(call[c].doc = d /\ call[c].user = u /\ call[c].scope = "project")
  <2>1. RecordsWith(d, u)' \subseteq RecordsWith(d, u)
    BY <1>4, <1>6, <1>9 DEF RecordsWith, ProjectFiles, Exists, IsProjectFile
  <2>2. Inserting(d, u)' \subseteq Inserting(d, u)
    BY <1>3 DEF Inserting, At
  <2> QED
    BY <2>1, <2>2, FewerStayBounded
<1> QED
  BY <1>8, <1>9

(* A member has no more records of one content than requests are served at *)
(* a time: those who insert one have all looked before the first of them   *)
(* was there.                                                              *)
THEOREM ContentsAreFew == Spec => []OneRecordPerContent
<1> DEFINE Bounded == \A d \in Documents, u \in Uploaders : OneEach(d, u)
<1>1. Init => Bounded
  <2> SUFFICES ASSUME Init, NEW d \in Documents, NEW u \in Uploaders
               PROVE  OneEach(d, u)
    OBVIOUS
  <2>1. RecordsWith(d, u) = {}
    BY DEF Init, RecordsWith, ProjectFiles, Exists, NoRecord
  <2> QED
    BY <2>1, InsertingIsFinite, FS_EmptySet DEF OneEach
<1>2. ASSUME IInv, [Next]_vars, Bounded
      PROVE  Bounded'
  <2> SUFFICES ASSUME NEW d \in Documents, NEW u \in Uploaders
               PROVE  OneEach(d, u)'
    OBVIOUS
  <2>1. OneEach(d, u)
    BY <1>2
  <2>2. CASE \E c \in Calls, f \in Files : FindsNew(c, f)
    BY <1>2, <2>1, <2>2, FirstIsFound
  <2>3. CASE \E c \in Calls : InsertRecord(c)
    BY <1>2, <2>1, <2>3, InsertKeepsCount
  <2>4. CASE /\ \A c \in Calls, f \in Files : ~FindsNew(c, f)
             /\ \A c \in Calls : ~InsertRecord(c)
    BY <1>2, <2>1, <2>4, RecordsStay, InsertersStay, FewerStayBounded
  <2> QED
    BY <2>2, <2>3, <2>4
<1>3. Bounded => OneRecordPerContent
  <2> SUFFICES ASSUME Bounded, NEW d \in Documents, NEW u \in Uploaders
               PROVE  Cardinality(RecordsWith(d, u)) <= Cardinality(Calls)
    BY DEF OneRecordPerContent
  <2>1. OneEach(d, u) /\ Cardinality(RecordsWith(d, u)) \in Nat
    BY FS_CardinalityType DEF OneEach
  <2> QED
    BY <2>1, InsertingIsFinite DEF OneEach
<1> HIDE DEF Bounded
<1> QED
  BY <1>1, <1>2, <1>3, Consistent, PTL DEF Spec
=============================================================================
