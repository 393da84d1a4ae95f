---------------------------- MODULE ExportQueue ----------------------------
(***************************************************************************)
(* The asynchronous export queue of the prices API: the export_requests    *)
(* rows, the files of LocalExportStorage, the worker processes that run    *)
(* ExportService.processPending in a loop, and the requests of users that  *)
(* create, read and download jobs.                                         *)
(*                                                                         *)
(* A step is the code between two awaits: each database statement and each *)
(* file operation is atomic, and anything of another process can happen    *)
(* between two of them.                                                    *)
(*                                                                         *)
(* Clocks are abstracted to the two comparisons the code makes: a lock is  *)
(* "fresh" until it is older than the ten minutes of staleAt, and a job is *)
(* due once its expiresAt has passed.  A lock is identified by the attempt *)
(* that took it, since every claim increments attemptCount.                *)
(***************************************************************************)
EXTENDS Naturals, FiniteSets

CONSTANTS NumJobs,      \* export requests that users may make
          Workers,      \* worker processes
          Callers,      \* concurrent calls of users, which request or download
          MaxAttempts,  \* the max_attempts column (3 by default)
          MaxHalts,     \* bound on the times a worker process ends
          MaxSlow,      \* bound on the times a live worker outlives its lock
          MaxErrors,    \* bound on the exceptions of storage, catalog or database
          MaxChanges    \* bound on the changes administrators make to access

ASSUME ExportAssumption ==
    /\ NumJobs \in Nat
    /\ MaxAttempts \in Nat \ {0}
    /\ MaxHalts \in Nat /\ MaxSlow \in Nat /\ MaxErrors \in Nat /\ MaxChanges \in Nat

Jobs == 1 .. NumJobs    \* numbered in the order of created_at
NoJob == 0
NoLock == 0

VARIABLES
    status,    \* export_requests.status, "absent" before the row exists
    attempts,  \* export_requests.attempt_count
    lock,      \* export_requests.locked_at: null, or its age against staleAt
    checksum,  \* export_requests.checksum: the attempt whose file it describes
    due,       \* expires_at lies in the past
    writer,    \* the attempt that created the file under the job's storage key
    whole,     \* that file is completely written
    accepts,   \* the checks of assertExportInput that would pass for the job now
    pc,        \* where each worker is in processPending
    job,       \* the row a worker found, `queued` in the code
    held,      \* the stale lock a worker saw while polling, then the lock it took
    last,      \* `terminal` in the catch block
    rpc,       \* where each call of a user is
    rjob,      \* the job it requests or downloads
    granted,   \* history: the checks that would have passed at some time during it
    halts, slow, errors, changes   \* how much of each bound is used

rowVars == <<status, attempts, lock, checksum, due>>
workerVars == <<pc, job, held, last>>
callVars == <<rpc, rjob, granted>>
bounds == <<halts, slow, errors, changes>>
file == <<writer, whole>>
vars == <<rowVars, file, accepts, workerVars, callVars, bounds>>

Statuses == {"absent", "queued", "processing", "completed", "failed", "expired"}
Ages == {"null", "fresh", "stale"}
WorkerPCs == {"idle", "found", "claimed", "writing", "stored", "caught", "failing", "down"}
CallPCs == {"idle", "expiring", "checking", "relating", "creating", "reading", "delivered"}

\* What assertExportInput asks, one statement each: the list is there for the
\* user (assertVisible), and the marketplace belongs to the list.
Checks == {"list", "relation"}

\* A worker that has claimed its job and is still inside processPending.
AtWork(w) == pc[w] \in {"claimed", "writing", "stored", "caught", "failing"}

\* The row's current lock has an owner that is still running.
Owned(j) == \E w \in Workers : AtWork(w) /\ job[w] = j /\ held[w] = attempts[j]

Init ==
    /\ status = [j \in Jobs |-> "absent"]
    /\ attempts = [j \in Jobs |-> 0]
    /\ lock = [j \in Jobs |-> "null"]
    /\ checksum = [j \in Jobs |-> NoLock]
    /\ due = [j \in Jobs |-> FALSE]
    /\ writer = [j \in Jobs |-> NoLock]
    /\ whole = [j \in Jobs |-> FALSE]
    /\ accepts = [j \in Jobs |-> Checks]
    /\ pc = [w \in Workers |-> "idle"]
    /\ job = [w \in Workers |-> NoJob]
    /\ held = [w \in Workers |-> NoLock]
    /\ last = [w \in Workers |-> FALSE]
    /\ rpc = [r \in Callers |-> "idle"]
    /\ rjob = [r \in Callers |-> NoJob]
    /\ granted = [r \in Callers |-> {}]
    /\ halts = 0 /\ slow = 0 /\ errors = 0 /\ changes = 0

----------------------------------------------------------------------------
(* The worker: ExportService.processPending, called by export-worker.ts.    *)

\* Mutation: only queued rows are looked for.
Claimable_QueuedOnly(j) == status[j] = "queued"

\* The where clause of findFirst.
Claimable(j) ==
    \/ status[j] = "queued"
    \/ status[j] = "processing" /\ lock[j] = "stale"

\* Mutation: updateMany by id alone.
StillClaimable_ById(w, j) == TRUE

\* The where clause of updateMany: staleAt was computed when polling, so of the
\* locks only the one already stale then still matches.
StillClaimable(w, j) ==
    \/ status[j] = "queued"
    \/ status[j] = "processing" /\ lock[j] = "stale" /\ held[w] = attempts[j]

\* findFirst: the oldest claimable row.
Poll(w) ==
    /\ pc[w] = "idle"
    /\ \E j \in Jobs :
        /\ Claimable(j)
        /\ \A k \in Jobs : Claimable(k) => j <= k
        /\ job' = [job EXCEPT ![w] = j]
        /\ held' = [held EXCEPT ![w] = IF status[j] = "queued" THEN NoLock ELSE attempts[j]]
    /\ pc' = [pc EXCEPT ![w] = "found"]
    /\ UNCHANGED <<rowVars, file, accepts, last, callVars, bounds>>

\* Nothing to do: return false, sleep and ask again.
PollEmpty(w) ==
    /\ pc[w] = "idle"
    /\ \A j \in Jobs : ~Claimable(j)
    /\ UNCHANGED vars

\* updateMany matched the row: the claim, its lock and its attempt are one statement.
Claim(w) ==
    LET j == job[w] IN
    /\ pc[w] = "found"
    /\ StillClaimable(w, j)
    /\ status' = [status EXCEPT ![j] = "processing"]
    /\ attempts' = [attempts EXCEPT ![j] = @ + 1]
    /\ lock' = [lock EXCEPT ![j] = "fresh"]
    /\ held' = [held EXCEPT ![w] = attempts[j] + 1]
    /\ pc' = [pc EXCEPT ![w] = "claimed"]
    /\ UNCHANGED <<checksum, due, file, accepts, job, last, callVars, bounds>>

\* updateMany matched nothing: someone else was faster, return false.
LoseClaim(w) ==
    /\ pc[w] = "found"
    /\ ~StillClaimable(w, job[w])
    /\ pc' = [pc EXCEPT ![w] = "idle"]
    /\ job' = [job EXCEPT ![w] = NoJob]
    /\ held' = [held EXCEPT ![w] = NoLock]
    /\ UNCHANGED <<rowVars, file, accepts, last, callVars, bounds>>

\* Mutation: flag w, an existing file is truncated and written again.
MayCreate_Overwrite(j) == TRUE

\* Flag wx: writeFile creates the file or rejects.
MayCreate(j) == writer[j] = NoLock

\* The catalog was read and serialized, and writeFile opens the file.
CreateFile(w) ==
    /\ pc[w] = "claimed"
    /\ MayCreate(job[w])
    /\ writer' = [writer EXCEPT ![job[w]] = held[w]]
    /\ whole' = [whole EXCEPT ![job[w]] = FALSE]
    /\ pc' = [pc EXCEPT ![w] = "writing"]
    /\ UNCHANGED <<rowVars, accepts, job, held, last, callVars, bounds>>

\* A file of an earlier attempt is there: EEXIST.
FileExists(w) ==
    /\ pc[w] = "claimed"
    /\ ~MayCreate(job[w])
    /\ pc' = [pc EXCEPT ![w] = "caught"]
    /\ UNCHANGED <<rowVars, file, accepts, job, held, last, callVars, bounds>>

\* The content is written and the file closed.
WriteFile(w) ==
    /\ pc[w] = "writing"
    /\ whole' = [whole EXCEPT ![job[w]] = TRUE]
    /\ pc' = [pc EXCEPT ![w] = "stored"]
    /\ UNCHANGED <<rowVars, writer, accepts, job, held, last, callVars, bounds>>

\* update where id: nothing checks that the worker still holds the lock.
Complete(w) ==
    LET j == job[w] IN
    /\ pc[w] = "stored"
    /\ status' = [status EXCEPT ![j] = "completed"]
    /\ checksum' = [checksum EXCEPT ![j] = held[w]]
    /\ due' = [due EXCEPT ![j] = FALSE]
    /\ pc' = [pc EXCEPT ![w] = "idle"]
    /\ job' = [job EXCEPT ![w] = NoJob]
    /\ held' = [held EXCEPT ![w] = NoLock]
    /\ UNCHANGED <<attempts, lock, file, accepts, last, callVars, bounds>>

\* The catalog, the write or the completing update throws.
Throw(w) ==
    /\ pc[w] \in {"claimed", "writing", "stored"}
    /\ errors < MaxErrors
    /\ errors' = errors + 1
    /\ pc' = [pc EXCEPT ![w] = "caught"]
    /\ UNCHANGED <<rowVars, file, accepts, job, held, last, callVars, halts, slow, changes>>

\* Mutation: one attempt too few.
Exhausted_OffByOne(n) == n + 1 >= MaxAttempts

\* `terminal`: this was the last of the allowed attempts.
Exhausted(n) == n >= MaxAttempts

\* The catch block reads the row again ...
Catch(w) ==
    /\ pc[w] = "caught"
    /\ last' = [last EXCEPT ![w] = Exhausted(attempts[job[w]])]
    /\ pc' = [pc EXCEPT ![w] = "failing"]
    /\ UNCHANGED <<rowVars, file, accepts, job, held, callVars, bounds>>

AfterFailure(terminal) == IF terminal THEN "failed" ELSE "queued"

\* ... and updates it by id: requeued, or failed for good.
RequeueOrFail(w) ==
    LET j == job[w] IN
    /\ pc[w] = "failing"
    /\ status' = [status EXCEPT ![j] = AfterFailure(last[w])]
    /\ lock' = [lock EXCEPT ![j] = "null"]
    /\ pc' = [pc EXCEPT ![w] = "idle"]
    /\ job' = [job EXCEPT ![w] = NoJob]
    /\ held' = [held EXCEPT ![w] = NoLock]
    /\ last' = [last EXCEPT ![w] = FALSE]
    /\ UNCHANGED <<attempts, checksum, due, file, accepts, callVars, bounds>>

\* The process ends, and what it knew is gone: SIGTERM seen at the head of the
\* loop, a kill at any point, or an exception outside the try or in the catch.
Halt(w) ==
    /\ pc[w] # "down"
    /\ halts < MaxHalts
    /\ halts' = halts + 1
    /\ pc' = [pc EXCEPT ![w] = "down"]
    /\ job' = [job EXCEPT ![w] = NoJob]
    /\ held' = [held EXCEPT ![w] = NoLock]
    /\ last' = [last EXCEPT ![w] = FALSE]
    /\ UNCHANGED <<rowVars, file, accepts, callVars, slow, errors, changes>>

\* npm run worker:exports again.
Restart(w) ==
    /\ pc[w] = "down"
    /\ pc' = [pc EXCEPT ![w] = "idle"]
    /\ UNCHANGED <<rowVars, file, accepts, job, held, last, callVars, bounds>>

WorkerStep(w) ==
    \/ Poll(w) \/ PollEmpty(w) \/ Claim(w) \/ LoseClaim(w)
    \/ CreateFile(w) \/ FileExists(w) \/ WriteFile(w) \/ Complete(w)
    \/ Throw(w) \/ Catch(w) \/ RequeueOrFail(w)

----------------------------------------------------------------------------
(* Time.                                                                    *)

\* Ten minutes after its claim, the lock of a worker that is gone is stale.
AbandonedLockAges(j) ==
    /\ lock[j] = "fresh" /\ ~Owned(j)
    /\ lock' = [lock EXCEPT ![j] = "stale"]
    /\ UNCHANGED <<status, attempts, checksum, due, file, accepts, workerVars,
                   callVars, bounds>>

\* Ten minutes after its claim, the worker is still busy.
OutliveLock(j) ==
    /\ lock[j] = "fresh" /\ Owned(j)
    /\ slow < MaxSlow
    /\ slow' = slow + 1
    /\ lock' = [lock EXCEPT ![j] = "stale"]
    /\ UNCHANGED <<status, attempts, checksum, due, file, accepts, workerVars,
                   callVars, halts, errors, changes>>

\* expires_at passes.  Only a completed row is ever compared with it, and
\* completing a row sets it anew.
BecomeDue(j) ==
    /\ status[j] = "completed" /\ ~due[j]
    /\ due' = [due EXCEPT ![j] = TRUE]
    /\ UNCHANGED <<status, attempts, lock, checksum, file, accepts, workerVars,
                   callVars, bounds>>

----------------------------------------------------------------------------
(* Users: ExportService.request, get and download; administrators.          *)

\* The list is assigned or unassigned, or deactivated, or its marketplace is.
ChangeAccess(j) ==
    /\ changes < MaxChanges
    /\ changes' = changes + 1
    /\ \E c \in Checks :
          accepts' = [accepts EXCEPT ![j] = IF c \in @ THEN @ \ {c} ELSE @ \cup {c}]
    /\ granted' = [r \in Callers |->
                      IF rjob[r] = j THEN granted[r] \cup accepts'[j] ELSE granted[r]]
    /\ UNCHANGED <<rowVars, file, workerVars, rpc, rjob, halts, slow, errors>>

CallStarts(r, j, at) ==
    /\ rpc[r] = "idle"
    /\ rpc' = [rpc EXCEPT ![r] = at]
    /\ rjob' = [rjob EXCEPT ![r] = j]
    /\ granted' = [granted EXCEPT ![r] = accepts[j]]

CallEnds(r) ==
    /\ rpc' = [rpc EXCEPT ![r] = "idle"]
    /\ rjob' = [rjob EXCEPT ![r] = NoJob]
    /\ granted' = [granted EXCEPT ![r] = {}]

\* request: the input is checked before the row is created.
Ask(r, j) ==
    /\ status[j] = "absent"
    /\ \A q \in Callers : rpc[q] # "idle" => rjob[q] # j
    /\ CallStarts(r, j, "checking")
    /\ UNCHANGED <<rowVars, file, accepts, workerVars, bounds>>

\* get, the first await of download: the requester's own row.  A completed row
\* that is due is marked before the call goes on, any other row that is not
\* completed is refused at once.
Get(r, j) ==
    /\ status[j] = "completed"
    /\ CallStarts(r, j, IF due[j] THEN "expiring" ELSE "checking")
    /\ UNCHANGED <<rowVars, file, accepts, workerVars, bounds>>

\* update where id, whatever the row has become since; download then refuses.
MarkExpired(r) ==
    /\ rpc[r] = "expiring"
    /\ status' = [status EXCEPT ![rjob[r]] = "expired"]
    /\ CallEnds(r)
    /\ UNCHANGED <<attempts, lock, checksum, due, file, accepts, workerVars, bounds>>

\* Mutation: the checks made when the job was requested are trusted.
Passes_AtRequest(c, j) == status[j] # "absent" \/ c \in accepts[j]

\* One statement of assertExportInput, for a request and for a download alike.
Passes(c, j) == c \in accepts[j]

\* assertVisible: the assignment may have been revoked.
CheckList(r) ==
    /\ rpc[r] = "checking"
    /\ Passes("list", rjob[r])
    /\ rpc' = [rpc EXCEPT ![r] = "relating"]
    /\ UNCHANGED <<rowVars, file, accepts, workerVars, rjob, granted, bounds>>

\* Then, in a statement of its own, the relation of the list and the marketplace.
CheckRelation(r) ==
    /\ rpc[r] = "relating"
    /\ Passes("relation", rjob[r])
    /\ rpc' = [rpc EXCEPT ![r] = IF status[rjob[r]] = "absent" THEN "creating" ELSE "reading"]
    /\ UNCHANGED <<rowVars, file, accepts, workerVars, rjob, granted, bounds>>

\* Either statement finds nothing, and the call throws.
Refuse(r) ==
    /\ \/ rpc[r] = "checking" /\ ~Passes("list", rjob[r])
       \/ rpc[r] = "relating" /\ ~Passes("relation", rjob[r])
    /\ CallEnds(r)
    /\ UNCHANGED <<rowVars, file, accepts, workerVars, bounds>>

\* request creates the row.  Jobs are numbered as their rows are created.
Create(r) ==
    LET j == rjob[r] IN
    /\ rpc[r] = "creating"
    /\ \A k \in Jobs : k < j => status[k] # "absent"
    /\ status' = [status EXCEPT ![j] = "queued"]
    /\ CallEnds(r)
    /\ UNCHANGED <<attempts, lock, checksum, due, file, accepts, workerVars, bounds>>

\* storage.read, and the response.
Deliver(r) ==
    /\ rpc[r] = "reading"
    /\ rpc' = [rpc EXCEPT ![r] = "delivered"]
    /\ UNCHANGED <<rowVars, file, accepts, workerVars, rjob, granted, bounds>>

EndDownload(r) ==
    /\ rpc[r] = "delivered"
    /\ CallEnds(r)
    /\ UNCHANGED <<rowVars, file, accepts, workerVars, bounds>>

CallStep(r) ==
    \/ MarkExpired(r) \/ CheckList(r) \/ CheckRelation(r) \/ Refuse(r)
    \/ Create(r) \/ Deliver(r) \/ EndDownload(r)

Next ==
    \/ \E w \in Workers : WorkerStep(w) \/ Halt(w) \/ Restart(w)
    \/ \E j \in Jobs : AbandonedLockAges(j) \/ OutliveLock(j) \/ BecomeDue(j)
                       \/ ChangeAccess(j)
    \/ \E r \in Callers, j \in Jobs : Ask(r, j) \/ Get(r, j)
    \/ \E r \in Callers : CallStep(r)

Spec == Init /\ [][Next]_vars

\* The loop of export-worker.ts never stops by itself, a worker that ended is
\* started again, and ten minutes always pass.  Users and administrators owe
\* nothing.
Fairness ==
    /\ \A w \in Workers : WF_vars(WorkerStep(w)) /\ WF_vars(Restart(w))
    /\ \A j \in Jobs : WF_vars(AbandonedLockAges(j))

FairSpec == Spec /\ Fairness

----------------------------------------------------------------------------
(* Properties.                                                              *)

TypeOK ==
    /\ status \in [Jobs -> Statuses]
    /\ attempts \in [Jobs -> Nat]
    /\ lock \in [Jobs -> Ages]
    /\ checksum \in [Jobs -> Nat]
    /\ due \in [Jobs -> BOOLEAN]
    /\ writer \in [Jobs -> Nat]
    /\ whole \in [Jobs -> BOOLEAN]
    /\ accepts \in [Jobs -> SUBSET Checks]
    /\ pc \in [Workers -> WorkerPCs]
    /\ job \in [Workers -> Jobs \cup {NoJob}]
    /\ held \in [Workers -> Nat]
    /\ last \in [Workers -> BOOLEAN]
    /\ rpc \in [Callers -> CallPCs]
    /\ rjob \in [Callers -> Jobs \cup {NoJob}]
    /\ granted \in [Callers -> SUBSET Checks]
    /\ halts \in Nat /\ slow \in Nat /\ errors \in Nat /\ changes \in Nat

\* A row that is offered for download, or was, names a file that is completely
\* written and that its checksum and byte size describe, whichever workers ran
\* the job, crashed in it or overtook each other.  An attempt that finds a file
\* of another attempt never replaces it (export.storage.ts, flag wx).
CompletedHasItsFile ==
    /\ \A j \in Jobs : status[j] \in {"completed", "expired"} => checksum[j] # NoLock
    /\ \A j \in Jobs : checksum[j] # NoLock => writer[j] = checksum[j] /\ whole[j]

\* What a download streams is the whole file the row describes, even when the
\* row has moved on since download read it.
DownloadsAreWhole ==
    \A r \in Callers :
        rpc[r] \in {"reading", "delivered"} =>
            writer[rjob[r]] = checksum[rjob[r]] /\ whole[rjob[r]]

\* Two workers run the same job at the same time only after one of them was
\* slower than the ten minutes of its lock: findFirst and updateMany are two
\* statements, and the where clause repeated in the second one decides.
OneWorkerPerJob ==
    slow = 0 =>
        \A v, w \in Workers :
            AtWork(v) /\ AtWork(w) /\ job[v] = job[w] => v = w

\* A processing row always carries a lock time.  One without would match
\* neither branch of the where clause, and no worker would ever find it again.
NeverStranded ==
    \A j \in Jobs : status[j] = "processing" => lock[j] # "null"

\* A job is given up only after its last allowed attempt, though the catch block
\* decides on a count it has read in an earlier statement.
FailedOnlyAfterLastAttempt ==
    \A j \in Jobs : status[j] = "failed" => attempts[j] >= MaxAttempts

\* A download delivers only what each of its two checks could have accepted at
\* some time while it ran: one that began after the user had lost the list, or
\* the list its marketplace, and never got it back, delivers nothing.  The two
\* need not have held together, for the checks are two statements; owning a
\* completed job is not enough.
RevocationBlocksDownload ==
    \A r \in Callers : rpc[r] = "delivered" => granted[r] = Checks

\* Every accepted job is settled in the end, in spite of crashes and errors.
EveryJobSettles ==
    \A j \in Jobs :
        status[j] = "queued" ~> status[j] \in {"completed", "failed", "expired"}

\* While no worker outlives its lock, the queue is the lifecycle users are
\* promised: a settled job stays settled, and an expired one never comes back.
stageView == [j \in Jobs |-> IF status[j] \in {"queued", "processing"}
                             THEN "pending" ELSE status[j]]
artifactView == {j \in Jobs : checksum[j] # NoLock}

Lifecycle == INSTANCE ExportLifecycle WITH stage <- stageView, artifact <- artifactView
KeepsLifecycle == Lifecycle!Spec

----------------------------------------------------------------------------
(* What the documentation says and the code does not do.                    *)

\* "CSV, JSON, and TXT jobs are queued, recover safely from worker failure":
\* when workers only end, fewer times than a job may be attempted, and nothing
\* else goes wrong, no job fails.
RecoversFromWorkerFailure ==
    errors = 0 /\ slow = 0 /\ halts < MaxAttempts =>
        \A j \in Jobs : status[j] # "failed"
=============================================================================
