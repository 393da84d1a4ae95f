------------------------- MODULE ExportQueueProofs -------------------------
(***************************************************************************)
(* Proofs about ExportQueue for every number of jobs, workers, calls,    *)
(* attempts, crashes, slow workers and errors.                             *)
(*                                                                         *)
(* The inductive invariant IInv says who may have written a job's file: an *)
(* attempt is owned by at most one worker (AttemptsOwned), so the file of  *)
(* an attempt changes only under its owner's hands (FilesOwned), so what a *)
(* row's checksum describes is never touched again (CompletedHasItsFile).  *)
(***************************************************************************)
EXTENDS ExportQueue, TLAPS

\* Workers and downloads that are under way know their job.
JobsKnown ==
    /\ \A w \in Workers : pc[w] \notin {"idle", "down"} => job[w] \in Jobs
    /\ \A r \in Callers : rpc[r] # "idle" => rjob[r] \in Jobs

\* A worker at work holds an attempt of its job, and nobody else holds that one.
AttemptsOwned ==
    /\ \A w \in Workers : AtWork(w) => held[w] > 0 /\ held[w] <= attempts[job[w]]
    /\ \A v, w \in Workers :
          AtWork(v) /\ AtWork(w) /\ job[v] = job[w] /\ held[v] = held[w] => v = w

\* Whose file it is.
FilesOwned ==
    /\ \A w \in Workers :
          pc[w] = "writing" => writer[job[w]] = held[w] /\ ~whole[job[w]]
    /\ \A w \in Workers :
          pc[w] = "stored" => writer[job[w]] = held[w] /\ whole[job[w]]

\* A worker works on a row that exists, and a row is requested by one call.
RowsExist ==
    /\ \A w \in Workers : pc[w] \notin {"idle", "down"} => status[job[w]] # "absent"
    /\ \A q, r \in Callers :
          rpc[q] # "idle" /\ rpc[r] # "idle" /\ rjob[q] = rjob[r]
          /\ status[rjob[r]] = "absent" => q = r

\* A download works on a row that was completed once; a call that creates a row
\* finds none.
DownloadsCompleted ==
    \A r \in Callers :
        /\ rpc[r] \in {"expiring", "reading", "delivered"} => checksum[rjob[r]] # NoLock
        /\ rpc[r] \in {"checking", "relating"} /\ checksum[rjob[r]] = NoLock
              => status[rjob[r]] = "absent"
        /\ rpc[r] = "creating" => status[rjob[r]] = "absent"

\* The decision to give up was taken on a count that has only grown since.
GivingUpIsLate ==
    \A w \in Workers :
        pc[w] = "failing" /\ last[w] => attempts[job[w]] >= MaxAttempts

\* Without slow workers, work is done under the row's current lock only.
PromptWorkersHoldTheLock ==
    slow = 0 =>
        /\ \A w \in Workers :
              AtWork(w) => /\ status[job[w]] = "processing"
                           /\ lock[job[w]] = "fresh"
                           /\ held[w] = attempts[job[w]]
        /\ \A r \in Callers :
              rpc[r] = "expiring" => status[rjob[r]] \in {"completed", "expired"}

\* A check that passes now has passed at some time since the call began, and
\* whoever is past a check has it on record.
GrantsRecorded ==
    \A r \in Callers :
        /\ rpc[r] # "idle" => accepts[rjob[r]] \subseteq granted[r]
        /\ rpc[r] \in {"relating", "creating", "reading", "delivered"} => "list" \in granted[r]
        /\ rpc[r] \in {"creating", "reading", "delivered"} => "relation" \in granted[r]

IInv ==
    /\ TypeOK
    /\ JobsKnown
    /\ AttemptsOwned
    /\ FilesOwned
    /\ CompletedHasItsFile
    /\ RowsExist
    /\ DownloadsCompleted
    /\ NeverStranded
    /\ GivingUpIsLate
    /\ FailedOnlyAfterLastAttempt
    /\ PromptWorkersHoldTheLock
    /\ GrantsRecorded
----------------------------------------------------------------------------
(* Type correctness. *)

\* Nothing has happened yet: the invariant holds of an empty queue.
LEMMA InitHolds == Init => IInv
  BY DEF Init, IInv, TypeOK, JobsKnown, AttemptsOwned, FilesOwned, CompletedHasItsFile,
         RowsExist, DownloadsCompleted, NeverStranded, GivingUpIsLate, FailedOnlyAfterLastAttempt,
         PromptWorkersHoldTheLock, GrantsRecorded, AtWork,
         Statuses, Ages, WorkerPCs, CallPCs, Checks, NoLock, NoJob

\* Types and the indices the workers and downloads hold.
LEMMA TypeStep == TypeOK /\ JobsKnown /\ [Next]_vars => TypeOK' /\ JobsKnown'
<1> SUFFICES ASSUME TypeOK, JobsKnown, [Next]_vars PROVE TypeOK' /\ JobsKnown'
  OBVIOUS
<1> USE DEF TypeOK, JobsKnown, Statuses, Ages, WorkerPCs, CallPCs, Checks, NoLock, NoJob,
            rowVars, workerVars, callVars, bounds, file, vars
<1>1. ASSUME NEW w \in Workers, Poll(w) PROVE TypeOK' /\ JobsKnown'
  BY <1>1 DEF Poll, Claimable
<1>2. ASSUME NEW w \in Workers, PollEmpty(w) PROVE TypeOK' /\ JobsKnown'
  BY <1>2 DEF PollEmpty
<1>3. ASSUME NEW w \in Workers, Claim(w) PROVE TypeOK' /\ JobsKnown'
  BY <1>3 DEF Claim, StillClaimable
<1>4. ASSUME NEW w \in Workers, LoseClaim(w) PROVE TypeOK' /\ JobsKnown'
  BY <1>4 DEF LoseClaim, StillClaimable
<1>5. ASSUME NEW w \in Workers, CreateFile(w) PROVE TypeOK' /\ JobsKnown'
  BY <1>5 DEF CreateFile, MayCreate
<1>6. ASSUME NEW w \in Workers, FileExists(w) PROVE TypeOK' /\ JobsKnown'
  BY <1>6 DEF FileExists, MayCreate
<1>7. ASSUME NEW w \in Workers, WriteFile(w) PROVE TypeOK' /\ JobsKnown'
  BY <1>7 DEF WriteFile
<1>8. ASSUME NEW w \in Workers, Complete(w) PROVE TypeOK' /\ JobsKnown'
  BY <1>8 DEF Complete
<1>9. ASSUME NEW w \in Workers, Throw(w) PROVE TypeOK' /\ JobsKnown'
  BY <1>9 DEF Throw
<1>10. ASSUME NEW w \in Workers, Catch(w) PROVE TypeOK' /\ JobsKnown'
  BY <1>10 DEF Catch, Exhausted
<1>11. ASSUME NEW w \in Workers, RequeueOrFail(w) PROVE TypeOK' /\ JobsKnown'
  BY <1>11 DEF RequeueOrFail, AfterFailure
<1>12. ASSUME NEW w \in Workers, Halt(w) PROVE TypeOK' /\ JobsKnown'
  BY <1>12 DEF Halt
<1>13. ASSUME NEW w \in Workers, Restart(w) PROVE TypeOK' /\ JobsKnown'
  BY <1>13 DEF Restart
<1>14. ASSUME NEW j \in Jobs, AbandonedLockAges(j) PROVE TypeOK' /\ JobsKnown'
  BY <1>14 DEF AbandonedLockAges
<1>15. ASSUME NEW j \in Jobs, OutliveLock(j) PROVE TypeOK' /\ JobsKnown'
  BY <1>15 DEF OutliveLock
<1>16. ASSUME NEW j \in Jobs, BecomeDue(j) PROVE TypeOK' /\ JobsKnown'
  BY <1>16 DEF BecomeDue
<1>17. ASSUME NEW r \in Callers, Create(r) PROVE TypeOK' /\ JobsKnown'
  BY <1>17 DEF Create, CallEnds
<1>18. ASSUME NEW j \in Jobs, ChangeAccess(j) PROVE TypeOK' /\ JobsKnown'
  BY <1>18 DEF ChangeAccess
<1>19. ASSUME NEW r \in Callers, MarkExpired(r) PROVE TypeOK' /\ JobsKnown'
  BY <1>19 DEF MarkExpired, CallEnds
<1>20. ASSUME NEW r \in Callers, CheckList(r) \/ CheckRelation(r) PROVE TypeOK' /\ JobsKnown'
  BY <1>20 DEF CheckList, CheckRelation, Passes
<1>21. ASSUME NEW r \in Callers, Refuse(r) PROVE TypeOK' /\ JobsKnown'
  BY <1>21 DEF Refuse, CallEnds, Passes
<1>22. ASSUME NEW r \in Callers, Deliver(r) PROVE TypeOK' /\ JobsKnown'
  BY <1>22 DEF Deliver
<1>23. ASSUME NEW r \in Callers, EndDownload(r) PROVE TypeOK' /\ JobsKnown'
  BY <1>23 DEF EndDownload, CallEnds
<1>24. ASSUME NEW r \in Callers, NEW j \in Jobs, Ask(r, j) \/ Get(r, j) PROVE TypeOK' /\
      JobsKnown'
  BY <1>24 DEF Ask, Get, CallStarts
<1>25. CASE UNCHANGED vars
  BY <1>25
<1> QED
  BY <1>1, <1>2, <1>3, <1>4, <1>5, <1>6, <1>7, <1>8, <1>9, <1>10, <1>11,
     <1>12, <1>13, <1>14, <1>15, <1>16, <1>17, <1>18, <1>19, <1>20, <1>21, <1>22,
     <1>23, <1>24, <1>25 DEF Next, WorkerStep, CallStep

\* Every variable has its type in every reachable state of ExportQueue.
THEOREM TypeCorrect == Spec => []TypeOK
<1>1. Init => TypeOK /\ JobsKnown
  BY InitHolds DEF IInv
<1>2. TypeOK /\ JobsKnown /\ [Next]_vars => TypeOK' /\ JobsKnown'
  BY TypeStep
<1> QED
  BY <1>1, <1>2, PTL DEF Spec

----------------------------------------------------------------------------
(* The inductive invariant, conjunct by conjunct. *)

\* A claim takes an attempt number nobody has had before.
LEMMA AttemptsStep == IInv /\ [Next]_vars => AttemptsOwned'
<1> SUFFICES ASSUME TypeOK, JobsKnown, AttemptsOwned, [Next]_vars PROVE AttemptsOwned'
  BY DEF IInv
<1> USE DEF TypeOK, JobsKnown, NoLock, NoJob, rowVars, workerVars, callVars,
            bounds, file, vars, AttemptsOwned, AtWork
<1>1. ASSUME NEW w \in Workers, Poll(w) PROVE AttemptsOwned'
  BY <1>1 DEF Poll, Claimable
<1>2. ASSUME NEW w \in Workers, PollEmpty(w) PROVE AttemptsOwned'
  BY <1>2 DEF PollEmpty
<1>3. ASSUME NEW w \in Workers, Claim(w) PROVE AttemptsOwned'
  BY <1>3 DEF Claim, StillClaimable
<1>4. ASSUME NEW w \in Workers, LoseClaim(w) PROVE AttemptsOwned'
  BY <1>4 DEF LoseClaim, StillClaimable
<1>5. ASSUME NEW w \in Workers, CreateFile(w) PROVE AttemptsOwned'
  BY <1>5 DEF CreateFile, MayCreate
<1>6. ASSUME NEW w \in Workers, FileExists(w) PROVE AttemptsOwned'
  BY <1>6 DEF FileExists, MayCreate
<1>7. ASSUME NEW w \in Workers, WriteFile(w) PROVE AttemptsOwned'
  BY <1>7 DEF WriteFile
<1>8. ASSUME NEW w \in Workers, Complete(w) PROVE AttemptsOwned'
  BY <1>8 DEF Complete
<1>9. ASSUME NEW w \in Workers, Throw(w) PROVE AttemptsOwned'
  BY <1>9 DEF Throw
<1>10. ASSUME NEW w \in Workers, Catch(w) PROVE AttemptsOwned'
  BY <1>10 DEF Catch, Exhausted
<1>11. ASSUME NEW w \in Workers, RequeueOrFail(w) PROVE AttemptsOwned'
  BY <1>11 DEF RequeueOrFail, AfterFailure
<1>12. ASSUME NEW w \in Workers, Halt(w) PROVE AttemptsOwned'
  BY <1>12 DEF Halt
<1>13. ASSUME NEW w \in Workers, Restart(w) PROVE AttemptsOwned'
  BY <1>13 DEF Restart
<1>14. ASSUME NEW j \in Jobs, AbandonedLockAges(j) \/ OutliveLock(j) \/ BecomeDue(j)
      \/ ChangeAccess(j) PROVE AttemptsOwned'
  BY <1>14 DEF AbandonedLockAges, OutliveLock, BecomeDue, ChangeAccess
<1>15. ASSUME NEW r \in Callers, MarkExpired(r) \/ CheckList(r) \/ CheckRelation(r) \/
      Refuse(r) \/ Create(r) \/ Deliver(r) \/ EndDownload(r) PROVE AttemptsOwned'
  BY <1>15 DEF MarkExpired, CallEnds, CheckList, CheckRelation, Passes, Refuse,
         Create, Deliver,
         EndDownload
<1>16. ASSUME NEW r \in Callers, NEW j \in Jobs, Ask(r, j) \/ Get(r, j) PROVE AttemptsOwned'
  BY <1>16 DEF Ask, Get, CallStarts
<1>17. CASE UNCHANGED vars
  BY <1>17
<1> QED
  BY <1>1, <1>2, <1>3, <1>4, <1>5, <1>6, <1>7, <1>8, <1>9, <1>10, <1>11,
     <1>12, <1>13, <1>14, <1>15, <1>16, <1>17 DEF Next, WorkerStep, CallStep

\* Only the owner of an attempt writes to the file of that attempt.
LEMMA FilesStep == IInv /\ [Next]_vars => FilesOwned'
<1> SUFFICES ASSUME TypeOK, JobsKnown, AttemptsOwned, FilesOwned, [Next]_vars PROVE FilesOwned'
  BY DEF IInv
<1> USE DEF TypeOK, JobsKnown, NoLock, NoJob, rowVars, workerVars, callVars,
            bounds, file, vars, AttemptsOwned, FilesOwned, AtWork
<1>1. ASSUME NEW w \in Workers, Poll(w) PROVE FilesOwned'
  BY <1>1 DEF Poll, Claimable
<1>2. ASSUME NEW w \in Workers, PollEmpty(w) PROVE FilesOwned'
  BY <1>2 DEF PollEmpty
<1>3. ASSUME NEW w \in Workers, Claim(w) PROVE FilesOwned'
  BY <1>3 DEF Claim, StillClaimable
<1>4. ASSUME NEW w \in Workers, LoseClaim(w) PROVE FilesOwned'
  BY <1>4 DEF LoseClaim, StillClaimable
<1>5. ASSUME NEW w \in Workers, CreateFile(w) PROVE FilesOwned'
  BY <1>5 DEF CreateFile, MayCreate
<1>6. ASSUME NEW w \in Workers, FileExists(w) PROVE FilesOwned'
  BY <1>6 DEF FileExists, MayCreate
<1>7. ASSUME NEW w \in Workers, WriteFile(w) PROVE FilesOwned'
  BY <1>7 DEF WriteFile
<1>8. ASSUME NEW w \in Workers, Complete(w) PROVE FilesOwned'
  BY <1>8 DEF Complete
<1>9. ASSUME NEW w \in Workers, Throw(w) PROVE FilesOwned'
  BY <1>9 DEF Throw
<1>10. ASSUME NEW w \in Workers, Catch(w) PROVE FilesOwned'
  BY <1>10 DEF Catch, Exhausted
<1>11. ASSUME NEW w \in Workers, RequeueOrFail(w) PROVE FilesOwned'
  BY <1>11 DEF RequeueOrFail, AfterFailure
<1>12. ASSUME NEW w \in Workers, Halt(w) PROVE FilesOwned'
  BY <1>12 DEF Halt
<1>13. ASSUME NEW w \in Workers, Restart(w) PROVE FilesOwned'
  BY <1>13 DEF Restart
<1>14. ASSUME NEW j \in Jobs, AbandonedLockAges(j) \/ OutliveLock(j) \/ BecomeDue(j)
      \/ ChangeAccess(j) PROVE FilesOwned'
  BY <1>14 DEF AbandonedLockAges, OutliveLock, BecomeDue, ChangeAccess
<1>15. ASSUME NEW r \in Callers, MarkExpired(r) \/ CheckList(r) \/ CheckRelation(r) \/
      Refuse(r) \/ Create(r) \/ Deliver(r) \/ EndDownload(r) PROVE FilesOwned'
  BY <1>15 DEF MarkExpired, CallEnds, CheckList, CheckRelation, Passes, Refuse,
         Create, Deliver,
         EndDownload
<1>16. ASSUME NEW r \in Callers, NEW j \in Jobs, Ask(r, j) \/ Get(r, j) PROVE FilesOwned'
  BY <1>16 DEF Ask, Get, CallStarts
<1>17. CASE UNCHANGED vars
  BY <1>17
<1> QED
  BY <1>1, <1>2, <1>3, <1>4, <1>5, <1>6, <1>7, <1>8, <1>9, <1>10, <1>11,
     <1>12, <1>13, <1>14, <1>15, <1>16, <1>17 DEF Next, WorkerStep, CallStep

\* A file that a checksum describes is whole and is not written again.
LEMMA CompletedStep == IInv /\ [Next]_vars => CompletedHasItsFile'
<1> SUFFICES ASSUME TypeOK, JobsKnown, AttemptsOwned, FilesOwned, CompletedHasItsFile, DownloadsCompleted, [Next]_vars PROVE CompletedHasItsFile'
  BY DEF IInv
<1> USE DEF TypeOK, JobsKnown, NoLock, NoJob, rowVars, workerVars, callVars,
            bounds, file, vars, AttemptsOwned, FilesOwned, CompletedHasItsFile,
            DownloadsCompleted, AtWork
<1>1. ASSUME NEW w \in Workers, Poll(w) PROVE CompletedHasItsFile'
  BY <1>1 DEF Poll, Claimable
<1>2. ASSUME NEW w \in Workers, PollEmpty(w) PROVE CompletedHasItsFile'
  BY <1>2 DEF PollEmpty
<1>3. ASSUME NEW w \in Workers, Claim(w) PROVE CompletedHasItsFile'
  BY <1>3 DEF Claim, StillClaimable
<1>4. ASSUME NEW w \in Workers, LoseClaim(w) PROVE CompletedHasItsFile'
  BY <1>4 DEF LoseClaim, StillClaimable
<1>5. ASSUME NEW w \in Workers, CreateFile(w) PROVE CompletedHasItsFile'
  BY <1>5 DEF CreateFile, MayCreate
<1>6. ASSUME NEW w \in Workers, FileExists(w) PROVE CompletedHasItsFile'
  BY <1>6 DEF FileExists, MayCreate
<1>7. ASSUME NEW w \in Workers, WriteFile(w) PROVE CompletedHasItsFile'
  BY <1>7 DEF WriteFile
<1>8. ASSUME NEW w \in Workers, Complete(w) PROVE CompletedHasItsFile'
  BY <1>8 DEF Complete
<1>9. ASSUME NEW w \in Workers, Throw(w) PROVE CompletedHasItsFile'
  BY <1>9 DEF Throw
<1>10. ASSUME NEW w \in Workers, Catch(w) PROVE CompletedHasItsFile'
  BY <1>10 DEF Catch, Exhausted
<1>11. ASSUME NEW w \in Workers, RequeueOrFail(w) PROVE CompletedHasItsFile'
  BY <1>11 DEF RequeueOrFail, AfterFailure
<1>12. ASSUME NEW w \in Workers, Halt(w) PROVE CompletedHasItsFile'
  BY <1>12 DEF Halt
<1>13. ASSUME NEW w \in Workers, Restart(w) PROVE CompletedHasItsFile'
  BY <1>13 DEF Restart
<1>14. ASSUME NEW j \in Jobs, AbandonedLockAges(j) PROVE CompletedHasItsFile'
  BY <1>14 DEF AbandonedLockAges
<1>15. ASSUME NEW j \in Jobs, OutliveLock(j) PROVE CompletedHasItsFile'
  BY <1>15 DEF OutliveLock
<1>16. ASSUME NEW j \in Jobs, BecomeDue(j) PROVE CompletedHasItsFile'
  BY <1>16 DEF BecomeDue
<1>17. ASSUME NEW r \in Callers, Create(r) PROVE CompletedHasItsFile'
  BY <1>17 DEF Create, CallEnds
<1>18. ASSUME NEW j \in Jobs, ChangeAccess(j) PROVE CompletedHasItsFile'
  BY <1>18 DEF ChangeAccess
<1>19. ASSUME NEW r \in Callers, MarkExpired(r) PROVE CompletedHasItsFile'
  BY <1>19 DEF MarkExpired, CallEnds
<1>20. ASSUME NEW r \in Callers, CheckList(r) \/ CheckRelation(r) PROVE CompletedHasItsFile'
  BY <1>20 DEF CheckList, CheckRelation, Passes
<1>21. ASSUME NEW r \in Callers, Refuse(r) PROVE CompletedHasItsFile'
  BY <1>21 DEF Refuse, CallEnds, Passes
<1>22. ASSUME NEW r \in Callers, Deliver(r) PROVE CompletedHasItsFile'
  BY <1>22 DEF Deliver
<1>23. ASSUME NEW r \in Callers, EndDownload(r) PROVE CompletedHasItsFile'
  BY <1>23 DEF EndDownload, CallEnds
<1>24. ASSUME NEW r \in Callers, NEW j \in Jobs, Ask(r, j) \/ Get(r, j) PROVE
      CompletedHasItsFile'
  BY <1>24 DEF Ask, Get, CallStarts
<1>25. CASE UNCHANGED vars
  BY <1>25
<1> QED
  BY <1>1, <1>2, <1>3, <1>4, <1>5, <1>6, <1>7, <1>8, <1>9, <1>10, <1>11,
     <1>12, <1>13, <1>14, <1>15, <1>16, <1>17, <1>18, <1>19, <1>20, <1>21, <1>22,
     <1>23, <1>24, <1>25 DEF Next, WorkerStep, CallStep

\* Workers find rows that are there, a row becomes there by the one call that asked
\* for it, and it never goes away.
LEMMA RowsStep == IInv /\ [Next]_vars => RowsExist'
<1> SUFFICES ASSUME TypeOK, JobsKnown, RowsExist, DownloadsCompleted, [Next]_vars
             PROVE  RowsExist'
  BY DEF IInv
<1> USE DEF TypeOK, JobsKnown, RowsExist, DownloadsCompleted, NoLock, NoJob, rowVars,
            workerVars, callVars, bounds, file, vars
<1>1. ASSUME NEW w \in Workers, Claim(w)
      PROVE RowsExist'
  BY <1>1 DEF Claim, StillClaimable
<1>2. ASSUME NEW w \in Workers, Complete(w)
      PROVE RowsExist'
  BY <1>2 DEF Complete, CompletedHasItsFile, AttemptsOwned, AtWork
<1>3. ASSUME NEW w \in Workers, RequeueOrFail(w)
      PROVE RowsExist'
  BY <1>3 DEF RequeueOrFail, AfterFailure
<1>4. ASSUME NEW w \in Workers, Poll(w) \/ PollEmpty(w) \/ LoseClaim(w) \/
      CreateFile(w) \/ FileExists(w) \/ WriteFile(w) \/ Throw(w) \/ Catch(w) \/
      Halt(w) \/ Restart(w)
      PROVE RowsExist'
  BY <1>4 DEF Poll, Claimable, PollEmpty, LoseClaim, StillClaimable, CreateFile,
         MayCreate, FileExists, WriteFile, Throw, Catch, Exhausted, Halt, Restart
<1>5. ASSUME NEW j \in Jobs, AbandonedLockAges(j) \/ OutliveLock(j) \/ BecomeDue(j)
      \/ ChangeAccess(j)
      PROVE RowsExist'
  BY <1>5 DEF AbandonedLockAges, OutliveLock, BecomeDue, ChangeAccess
<1>6. ASSUME NEW r \in Callers, MarkExpired(r)
      PROVE RowsExist'
  BY <1>6 DEF MarkExpired, CallEnds
<1>7. ASSUME NEW r \in Callers, CheckList(r) \/ CheckRelation(r)
      PROVE RowsExist'
  BY <1>7 DEF CheckList, CheckRelation, Passes
<1>8. ASSUME NEW r \in Callers, Refuse(r)
      PROVE RowsExist'
  BY <1>8 DEF Refuse, CallEnds, Passes
<1>9. ASSUME NEW r \in Callers, Create(r)
      PROVE RowsExist'
  BY <1>9 DEF Create, CallEnds
<1>10. ASSUME NEW r \in Callers, Deliver(r)
      PROVE RowsExist'
  BY <1>10 DEF Deliver
<1>11. ASSUME NEW r \in Callers, EndDownload(r)
      PROVE RowsExist'
  BY <1>11 DEF EndDownload, CallEnds
<1>12. ASSUME NEW r \in Callers, NEW j \in Jobs, Ask(r, j)
      PROVE RowsExist'
  BY <1>12 DEF Ask, CallStarts
<1>13. ASSUME NEW r \in Callers, NEW j \in Jobs, Get(r, j)
      PROVE RowsExist'
  BY <1>13 DEF Get, CallStarts, CompletedHasItsFile
<1>14. CASE UNCHANGED vars
  BY <1>14
<1> QED
  BY <1>1, <1>2, <1>3, <1>4, <1>5, <1>6, <1>7, <1>8, <1>9, <1>10, <1>11, <1>12, <1>13, <1>14
     DEF Next, WorkerStep, CallStep

\* A checksum is never cleared.
LEMMA DownloadsStep == IInv /\ [Next]_vars => DownloadsCompleted'
<1> SUFFICES ASSUME TypeOK, JobsKnown, RowsExist, AttemptsOwned, CompletedHasItsFile,
                    DownloadsCompleted, [Next]_vars
             PROVE  DownloadsCompleted'
  BY DEF IInv
<1> USE DEF TypeOK, JobsKnown, RowsExist, DownloadsCompleted, NoLock, NoJob, rowVars,
            workerVars, callVars, bounds, file, vars
<1>1. ASSUME NEW w \in Workers, Claim(w)
      PROVE DownloadsCompleted'
  BY <1>1 DEF Claim, StillClaimable
<1>2. ASSUME NEW w \in Workers, Complete(w)
      PROVE DownloadsCompleted'
  BY <1>2 DEF Complete, CompletedHasItsFile, AttemptsOwned, AtWork
<1>3. ASSUME NEW w \in Workers, RequeueOrFail(w)
      PROVE DownloadsCompleted'
  BY <1>3 DEF RequeueOrFail, AfterFailure
<1>4. ASSUME NEW w \in Workers, Poll(w) \/ PollEmpty(w) \/ LoseClaim(w) \/
      CreateFile(w) \/ FileExists(w) \/ WriteFile(w) \/ Throw(w) \/ Catch(w) \/
      Halt(w) \/ Restart(w)
      PROVE DownloadsCompleted'
  BY <1>4 DEF Poll, Claimable, PollEmpty, LoseClaim, StillClaimable, CreateFile,
         MayCreate, FileExists, WriteFile, Throw, Catch, Exhausted, Halt, Restart
<1>5. ASSUME NEW j \in Jobs, AbandonedLockAges(j) \/ OutliveLock(j) \/ BecomeDue(j)
      \/ ChangeAccess(j)
      PROVE DownloadsCompleted'
  BY <1>5 DEF AbandonedLockAges, OutliveLock, BecomeDue, ChangeAccess
<1>6. ASSUME NEW r \in Callers, MarkExpired(r)
      PROVE DownloadsCompleted'
  BY <1>6 DEF MarkExpired, CallEnds
<1>7. ASSUME NEW r \in Callers, CheckList(r) \/ CheckRelation(r)
      PROVE DownloadsCompleted'
  BY <1>7 DEF CheckList, CheckRelation, Passes
<1>8. ASSUME NEW r \in Callers, Refuse(r)
      PROVE DownloadsCompleted'
  BY <1>8 DEF Refuse, CallEnds, Passes
<1>9. ASSUME NEW r \in Callers, Create(r)
      PROVE DownloadsCompleted'
  BY <1>9 DEF Create, CallEnds
<1>10. ASSUME NEW r \in Callers, Deliver(r)
      PROVE DownloadsCompleted'
  BY <1>10 DEF Deliver
<1>11. ASSUME NEW r \in Callers, EndDownload(r)
      PROVE DownloadsCompleted'
  BY <1>11 DEF EndDownload, CallEnds
<1>12. ASSUME NEW r \in Callers, NEW j \in Jobs, Ask(r, j)
      PROVE DownloadsCompleted'
  BY <1>12 DEF Ask, CallStarts
<1>13. ASSUME NEW r \in Callers, NEW j \in Jobs, Get(r, j)
      PROVE DownloadsCompleted'
  BY <1>13 DEF Get, CallStarts, CompletedHasItsFile
<1>14. CASE UNCHANGED vars
  BY <1>14
<1> QED
  BY <1>1, <1>2, <1>3, <1>4, <1>5, <1>6, <1>7, <1>8, <1>9, <1>10, <1>11, <1>12, <1>13, <1>14
     DEF Next, WorkerStep, CallStep

\* Only a claim makes a row processing, and it takes a lock in the same
\* statement; the lock is released only together with the status.
LEMMA StrandedStep == IInv /\ [Next]_vars => NeverStranded'
<1> SUFFICES ASSUME TypeOK, JobsKnown, NeverStranded, [Next]_vars PROVE NeverStranded'
  BY DEF IInv
<1> USE DEF TypeOK, JobsKnown, NoLock, NoJob, rowVars, workerVars, callVars,
            bounds, file, vars, NeverStranded
<1>1. ASSUME NEW w \in Workers, Claim(w) PROVE NeverStranded'
  BY <1>1 DEF Claim, StillClaimable
<1>2. ASSUME NEW w \in Workers, Complete(w) PROVE NeverStranded'
  BY <1>2 DEF Complete
<1>3. ASSUME NEW w \in Workers, RequeueOrFail(w) PROVE NeverStranded'
  BY <1>3 DEF RequeueOrFail, AfterFailure
<1>4. ASSUME NEW w \in Workers, Poll(w) \/ PollEmpty(w) \/ LoseClaim(w) \/
      CreateFile(w) \/ FileExists(w) \/ WriteFile(w) \/ Throw(w) \/ Catch(w) \/
      Halt(w) \/ Restart(w) PROVE NeverStranded'
  BY <1>4 DEF Poll, Claimable, PollEmpty, LoseClaim, StillClaimable, CreateFile,
         MayCreate, FileExists, WriteFile, Throw, Catch, Exhausted, Halt, Restart
<1>5. ASSUME NEW j \in Jobs, AbandonedLockAges(j) \/ OutliveLock(j) \/ BecomeDue(j)
      \/ ChangeAccess(j) PROVE NeverStranded'
  BY <1>5 DEF AbandonedLockAges, OutliveLock, BecomeDue, ChangeAccess
<1>6. ASSUME NEW r \in Callers, MarkExpired(r) PROVE NeverStranded'
  BY <1>6 DEF MarkExpired, CallEnds
<1>7. ASSUME NEW r \in Callers, CheckList(r) \/ CheckRelation(r) \/
      Refuse(r) \/ Create(r) \/ Deliver(r) \/ EndDownload(r) PROVE NeverStranded'
  BY <1>7 DEF CheckList, CheckRelation, Passes, Refuse, Create, CallEnds, Deliver,
         EndDownload
<1>8. ASSUME NEW r \in Callers, NEW j \in Jobs, Ask(r, j) \/ Get(r, j) PROVE NeverStranded'
  BY <1>8 DEF Ask, Get, CallStarts
<1>9. CASE UNCHANGED vars
  BY <1>9
<1> QED
  BY <1>1, <1>2, <1>3, <1>4, <1>5, <1>6, <1>7, <1>8, <1>9 DEF Next,
     WorkerStep, CallStep

\* attempt_count only grows, so what Catch has read is a lower bound.
LEMMA GivingUpStep == IInv /\ [Next]_vars => GivingUpIsLate'
<1> SUFFICES ASSUME TypeOK, JobsKnown, GivingUpIsLate, [Next]_vars PROVE GivingUpIsLate'
  BY DEF IInv
<1> USE DEF TypeOK, JobsKnown, NoLock, NoJob, rowVars, workerVars, callVars,
            bounds, file, vars, GivingUpIsLate, WorkerPCs
<1>1. ASSUME NEW w \in Workers, Poll(w) PROVE GivingUpIsLate'
  BY <1>1 DEF Poll, Claimable
<1>2. ASSUME NEW w \in Workers, PollEmpty(w) PROVE GivingUpIsLate'
  BY <1>2 DEF PollEmpty
<1>3. ASSUME NEW w \in Workers, Claim(w) PROVE GivingUpIsLate'
  <2>1. \A j \in Jobs : attempts'[j] >= attempts[j]
    BY <1>3 DEF Claim
  <2>2. /\ pc'[w] = "claimed" /\ \A v \in Workers : v # w => pc'[v] = pc[v]
        /\ job' = job /\ last' = last
    BY <1>3 DEF Claim
  <2>3. ASSUME NEW v \in Workers, pc'[v] = "failing", last'[v]
        PROVE  attempts'[job'[v]] >= MaxAttempts
    <3>1. v # w /\ pc[v] = "failing" /\ job[v] \in Jobs /\ job'[v] = job[v]
      BY <2>2, <2>3
    <3>2. attempts[job[v]] >= MaxAttempts
      BY <2>2, <2>3, <3>1
    <3>3. attempts[job[v]] \in Nat /\ attempts'[job[v]] \in Nat
      BY <1>3, <3>1 DEF Claim
    <3> QED
      BY <2>1, <3>1, <3>2, <3>3, ExportAssumption
  <2> QED
    BY <2>3
<1>4. ASSUME NEW w \in Workers, LoseClaim(w) PROVE GivingUpIsLate'
  BY <1>4 DEF LoseClaim, StillClaimable
<1>5. ASSUME NEW w \in Workers, CreateFile(w) PROVE GivingUpIsLate'
  BY <1>5 DEF CreateFile, MayCreate
<1>6. ASSUME NEW w \in Workers, FileExists(w) PROVE GivingUpIsLate'
  BY <1>6 DEF FileExists, MayCreate
<1>7. ASSUME NEW w \in Workers, WriteFile(w) PROVE GivingUpIsLate'
  BY <1>7 DEF WriteFile
<1>8. ASSUME NEW w \in Workers, Complete(w) PROVE GivingUpIsLate'
  BY <1>8 DEF Complete
<1>9. ASSUME NEW w \in Workers, Throw(w) PROVE GivingUpIsLate'
  BY <1>9 DEF Throw
<1>10. ASSUME NEW w \in Workers, Catch(w) PROVE GivingUpIsLate'
  BY <1>10 DEF Catch, Exhausted
<1>11. ASSUME NEW w \in Workers, RequeueOrFail(w) PROVE GivingUpIsLate'
  BY <1>11 DEF RequeueOrFail, AfterFailure
<1>12. ASSUME NEW w \in Workers, Halt(w) PROVE GivingUpIsLate'
  BY <1>12 DEF Halt
<1>13. ASSUME NEW w \in Workers, Restart(w) PROVE GivingUpIsLate'
  BY <1>13 DEF Restart
<1>14. ASSUME NEW j \in Jobs, AbandonedLockAges(j) \/ OutliveLock(j) \/ BecomeDue(j)
      \/ ChangeAccess(j) PROVE GivingUpIsLate'
  BY <1>14 DEF AbandonedLockAges, OutliveLock, BecomeDue, ChangeAccess
<1>15. ASSUME NEW r \in Callers, MarkExpired(r) \/ CheckList(r) \/ CheckRelation(r) \/
      Refuse(r) \/ Create(r) \/ Deliver(r) \/ EndDownload(r) PROVE GivingUpIsLate'
  BY <1>15 DEF MarkExpired, CallEnds, CheckList, CheckRelation, Passes, Refuse,
         Create, Deliver,
         EndDownload
<1>16. ASSUME NEW r \in Callers, NEW j \in Jobs, Ask(r, j) \/ Get(r, j) PROVE GivingUpIsLate'
  BY <1>16 DEF Ask, Get, CallStarts
<1>17. CASE UNCHANGED vars
  BY <1>17
<1> QED
  BY <1>1, <1>2, <1>3, <1>4, <1>5, <1>6, <1>7, <1>8, <1>9, <1>10, <1>11,
     <1>12, <1>13, <1>14, <1>15, <1>16, <1>17 DEF Next, WorkerStep, CallStep

\* A row fails by a decision of the catch block, and its attempts never decrease.
LEMMA FailedStep == IInv /\ [Next]_vars => FailedOnlyAfterLastAttempt'
<1> SUFFICES ASSUME TypeOK, JobsKnown, GivingUpIsLate, FailedOnlyAfterLastAttempt, [Next]_vars PROVE FailedOnlyAfterLastAttempt'
  BY DEF IInv
<1> USE DEF TypeOK, JobsKnown, NoLock, NoJob, rowVars, workerVars, callVars,
            bounds, file, vars, GivingUpIsLate, FailedOnlyAfterLastAttempt
<1>1. ASSUME NEW w \in Workers, Claim(w) PROVE FailedOnlyAfterLastAttempt'
  BY <1>1 DEF Claim, StillClaimable
<1>2. ASSUME NEW w \in Workers, Complete(w) PROVE FailedOnlyAfterLastAttempt'
  BY <1>2 DEF Complete
<1>3. ASSUME NEW w \in Workers, RequeueOrFail(w) PROVE FailedOnlyAfterLastAttempt'
  BY <1>3 DEF RequeueOrFail, AfterFailure
<1>4. ASSUME NEW w \in Workers, Poll(w) \/ PollEmpty(w) \/ LoseClaim(w) \/
      CreateFile(w) \/ FileExists(w) \/ WriteFile(w) \/ Throw(w) \/ Catch(w) \/
      Halt(w) \/ Restart(w) PROVE FailedOnlyAfterLastAttempt'
  BY <1>4 DEF Poll, Claimable, PollEmpty, LoseClaim, StillClaimable, CreateFile,
         MayCreate, FileExists, WriteFile, Throw, Catch, Exhausted, Halt, Restart
<1>5. ASSUME NEW j \in Jobs, AbandonedLockAges(j) \/ OutliveLock(j) \/ BecomeDue(j)
      \/ ChangeAccess(j) PROVE FailedOnlyAfterLastAttempt'
  BY <1>5 DEF AbandonedLockAges, OutliveLock, BecomeDue, ChangeAccess
<1>6. ASSUME NEW r \in Callers, MarkExpired(r) PROVE FailedOnlyAfterLastAttempt'
  BY <1>6 DEF MarkExpired, CallEnds
<1>7. ASSUME NEW r \in Callers, CheckList(r) \/ CheckRelation(r) \/
      Refuse(r) \/ Create(r) \/ Deliver(r) \/ EndDownload(r) PROVE FailedOnlyAfterLastAttempt'
  BY <1>7 DEF CheckList, CheckRelation, Passes, Refuse, Create, CallEnds, Deliver,
         EndDownload
<1>8. ASSUME NEW r \in Callers, NEW j \in Jobs, Ask(r, j) \/ Get(r, j) PROVE
      FailedOnlyAfterLastAttempt'
  BY <1>8 DEF Ask, Get, CallStarts
<1>9. CASE UNCHANGED vars
  BY <1>9
<1> QED
  BY <1>1, <1>2, <1>3, <1>4, <1>5, <1>6, <1>7, <1>8, <1>9 DEF Next,
     WorkerStep, CallStep

\* Without slow workers a lock is stale only after its owner is gone.
LEMMA PromptStep == IInv /\ [Next]_vars => PromptWorkersHoldTheLock'
<1> SUFFICES ASSUME TypeOK, JobsKnown, AttemptsOwned, DownloadsCompleted,
                    PromptWorkersHoldTheLock, [Next]_vars
             PROVE  PromptWorkersHoldTheLock'
  BY DEF IInv
<1> USE DEF TypeOK, JobsKnown, NoLock, NoJob, rowVars, workerVars, callVars,
            bounds, file, vars, AttemptsOwned, PromptWorkersHoldTheLock, AtWork,
            Owned
<1>1. ASSUME NEW w \in Workers, Poll(w) PROVE PromptWorkersHoldTheLock'
  BY <1>1 DEF Poll, Claimable
<1>2. ASSUME NEW w \in Workers, PollEmpty(w) PROVE PromptWorkersHoldTheLock'
  BY <1>2 DEF PollEmpty
<1>3. ASSUME NEW w \in Workers, Claim(w) PROVE PromptWorkersHoldTheLock'
  BY <1>3 DEF Claim, StillClaimable
<1>4. ASSUME NEW w \in Workers, LoseClaim(w) PROVE PromptWorkersHoldTheLock'
  BY <1>4 DEF LoseClaim, StillClaimable
<1>5. ASSUME NEW w \in Workers, CreateFile(w) PROVE PromptWorkersHoldTheLock'
  BY <1>5 DEF CreateFile, MayCreate
<1>6. ASSUME NEW w \in Workers, FileExists(w) PROVE PromptWorkersHoldTheLock'
  BY <1>6 DEF FileExists, MayCreate
<1>7. ASSUME NEW w \in Workers, WriteFile(w) PROVE PromptWorkersHoldTheLock'
  BY <1>7 DEF WriteFile
<1>8. ASSUME NEW w \in Workers, Complete(w) PROVE PromptWorkersHoldTheLock'
  BY <1>8 DEF Complete
<1>9. ASSUME NEW w \in Workers, Throw(w) PROVE PromptWorkersHoldTheLock'
  BY <1>9 DEF Throw
<1>10. ASSUME NEW w \in Workers, Catch(w) PROVE PromptWorkersHoldTheLock'
  BY <1>10 DEF Catch, Exhausted
<1>11. ASSUME NEW w \in Workers, RequeueOrFail(w) PROVE PromptWorkersHoldTheLock'
  BY <1>11 DEF RequeueOrFail, AfterFailure
<1>12. ASSUME NEW w \in Workers, Halt(w) PROVE PromptWorkersHoldTheLock'
  BY <1>12 DEF Halt
<1>13. ASSUME NEW w \in Workers, Restart(w) PROVE PromptWorkersHoldTheLock'
  BY <1>13 DEF Restart
<1>14. ASSUME NEW j \in Jobs, AbandonedLockAges(j) PROVE PromptWorkersHoldTheLock'
  BY <1>14 DEF AbandonedLockAges
<1>15. ASSUME NEW j \in Jobs, OutliveLock(j) PROVE PromptWorkersHoldTheLock'
  BY <1>15 DEF OutliveLock
<1>16. ASSUME NEW j \in Jobs, BecomeDue(j) PROVE PromptWorkersHoldTheLock'
  BY <1>16 DEF BecomeDue
<1>17. ASSUME NEW r \in Callers, Create(r) PROVE PromptWorkersHoldTheLock'
  BY <1>17 DEF Create, CallEnds, DownloadsCompleted
<1>18. ASSUME NEW j \in Jobs, ChangeAccess(j) PROVE PromptWorkersHoldTheLock'
  BY <1>18 DEF ChangeAccess
<1>19. ASSUME NEW r \in Callers, MarkExpired(r) PROVE PromptWorkersHoldTheLock'
  BY <1>19 DEF MarkExpired, CallEnds
<1>20. ASSUME NEW r \in Callers, CheckList(r) \/ CheckRelation(r) PROVE PromptWorkersHoldTheLock'
  BY <1>20 DEF CheckList, CheckRelation, Passes
<1>21. ASSUME NEW r \in Callers, Refuse(r) PROVE PromptWorkersHoldTheLock'
  BY <1>21 DEF Refuse, CallEnds, Passes
<1>22. ASSUME NEW r \in Callers, Deliver(r) PROVE PromptWorkersHoldTheLock'
  BY <1>22 DEF Deliver
<1>23. ASSUME NEW r \in Callers, EndDownload(r) PROVE PromptWorkersHoldTheLock'
  BY <1>23 DEF EndDownload, CallEnds
<1>24. ASSUME NEW r \in Callers, NEW j \in Jobs, Ask(r, j) \/ Get(r, j) PROVE
      PromptWorkersHoldTheLock'
  BY <1>24 DEF Ask, Get, CallStarts
<1>25. CASE UNCHANGED vars
  BY <1>25
<1> QED
  BY <1>1, <1>2, <1>3, <1>4, <1>5, <1>6, <1>7, <1>8, <1>9, <1>10, <1>11,
     <1>12, <1>13, <1>14, <1>15, <1>16, <1>17, <1>18, <1>19, <1>20, <1>21, <1>22,
     <1>23, <1>24, <1>25 DEF Next, WorkerStep, CallStep

\* granted remembers every check that would have passed since the call began, and
\* the check the call itself makes is one of them.
LEMMA GrantsStep == IInv /\ [Next]_vars => GrantsRecorded'
<1> SUFFICES ASSUME TypeOK, JobsKnown, GrantsRecorded, [Next]_vars PROVE GrantsRecorded'
  BY DEF IInv
<1> USE DEF TypeOK, JobsKnown, NoLock, NoJob, rowVars, workerVars, callVars,
            bounds, file, vars, GrantsRecorded
<1>1. ASSUME NEW w \in Workers, Poll(w) \/ PollEmpty(w) \/ Claim(w) \/ LoseClaim(w)
      \/ CreateFile(w) \/ FileExists(w) \/ WriteFile(w) \/ Complete(w) \/ Throw(w)
      \/ Catch(w) \/ RequeueOrFail(w) \/ Halt(w) \/ Restart(w) PROVE GrantsRecorded'
  BY <1>1 DEF Poll, Claimable, PollEmpty, Claim, StillClaimable, LoseClaim,
         CreateFile, MayCreate, FileExists, WriteFile, Complete, Throw, Catch,
         Exhausted, RequeueOrFail, AfterFailure, Halt, Restart
<1>2. ASSUME NEW j \in Jobs, ChangeAccess(j) PROVE GrantsRecorded'
  BY <1>2 DEF ChangeAccess
<1>3. ASSUME NEW j \in Jobs, AbandonedLockAges(j) \/ OutliveLock(j) \/ BecomeDue(j)
      PROVE GrantsRecorded'
  BY <1>3 DEF AbandonedLockAges, OutliveLock, BecomeDue
<1>4. ASSUME NEW r \in Callers, MarkExpired(r) PROVE GrantsRecorded'
  BY <1>4 DEF MarkExpired, CallEnds
<1>5. ASSUME NEW r \in Callers, CheckList(r) \/ CheckRelation(r) PROVE GrantsRecorded'
  BY <1>5 DEF CheckList, CheckRelation, Passes
<1>6. ASSUME NEW r \in Callers, Refuse(r) PROVE GrantsRecorded'
  BY <1>6 DEF Refuse, CallEnds, Passes
<1>7. ASSUME NEW r \in Callers, Deliver(r) PROVE GrantsRecorded'
  BY <1>7 DEF Deliver
<1>8. ASSUME NEW r \in Callers, EndDownload(r) PROVE GrantsRecorded'
  BY <1>8 DEF EndDownload, CallEnds
<1>9. ASSUME NEW r \in Callers, NEW j \in Jobs, Ask(r, j) \/ Get(r, j) PROVE GrantsRecorded'
  BY <1>9 DEF Ask, Get, CallStarts
<1>10. ASSUME NEW r \in Callers, Create(r) PROVE GrantsRecorded'
  BY <1>10 DEF Create, CallEnds
<1>11. CASE UNCHANGED vars
  BY <1>11
<1> QED
  BY <1>1, <1>2, <1>3, <1>4, <1>5, <1>6, <1>7, <1>8, <1>9, <1>10, <1>11 DEF Next,
     WorkerStep, CallStep

\* IInv is an invariant.
THEOREM Invariance == Spec => []IInv
<1>1. IInv /\ [Next]_vars => IInv'
  <2> SUFFICES ASSUME IInv, [Next]_vars PROVE IInv'
    OBVIOUS
  <2>1. TypeOK' /\ JobsKnown'
    BY TypeStep DEF IInv
  <2> QED
    BY <2>1, AttemptsStep, FilesStep, CompletedStep, RowsStep, DownloadsStep, StrandedStep,
       GivingUpStep, FailedStep, PromptStep, GrantsStep DEF IInv
<1> QED
  BY InitHolds, <1>1, PTL DEF Spec

----------------------------------------------------------------------------
(* The safety properties. *)

\* Whatever the workers do to each other, a completed or expired row names a whole
\* file that its checksum describes.
THEOREM CompletedHasItsFileAlways == Spec => []CompletedHasItsFile
<1>1. IInv => CompletedHasItsFile
  BY DEF IInv
<1> QED
  BY Invariance, <1>1, PTL

\* A download streams that whole file.
THEOREM DownloadsAreWholeAlways == Spec => []DownloadsAreWhole
<1>1. IInv => DownloadsAreWhole
  BY DEF IInv, JobsKnown, DownloadsCompleted, CompletedHasItsFile, DownloadsAreWhole
<1> QED
  BY Invariance, <1>1, PTL

\* While no worker has outlived its lock, a job has at most one worker.
THEOREM OneWorkerPerJobAlways == Spec => []OneWorkerPerJob
<1>1. IInv => OneWorkerPerJob
  BY DEF IInv, AttemptsOwned, PromptWorkersHoldTheLock, OneWorkerPerJob
<1> QED
  BY Invariance, <1>1, PTL

\* No processing row is without a lock time.
THEOREM NeverStrandedAlways == Spec => []NeverStranded
<1>1. IInv => NeverStranded
  BY DEF IInv
<1> QED
  BY Invariance, <1>1, PTL

\* A failed job has used all its attempts.
THEOREM FailedOnlyAfterLastAttemptAlways == Spec => []FailedOnlyAfterLastAttempt
<1>1. IInv => FailedOnlyAfterLastAttempt
  BY DEF IInv
<1> QED
  BY Invariance, <1>1, PTL

\* A download delivers nothing that one of its two checks has refused ever since
\* it began.
THEOREM RevocationBlocksDownloadAlways == Spec => []RevocationBlocksDownload
<1>1. IInv => RevocationBlocksDownload
  BY DEF IInv, GrantsRecorded, RevocationBlocksDownload, TypeOK, Checks
<1> QED
  BY Invariance, <1>1, PTL

----------------------------------------------------------------------------
(* Refinement: with workers that never outlive their locks, the queue       *)
(* implements ExportLifecycle.                                              *)

\* The number of times a worker outlives its lock respects its bound.
LEMMA NeverSlow == Spec => [](slow <= MaxSlow)
<1>1. Init => slow <= MaxSlow
  BY ExportAssumption DEF Init
<1>2. TypeOK /\ slow <= MaxSlow /\ [Next]_vars => (slow <= MaxSlow)'
  <2> SUFFICES ASSUME TypeOK, slow <= MaxSlow, [Next]_vars PROVE slow' <= MaxSlow
    OBVIOUS
  <2>1. ASSUME NEW j \in Jobs, OutliveLock(j) PROVE slow' <= MaxSlow
    BY <2>1, ExportAssumption DEF OutliveLock, TypeOK
  <2>2. \/ slow' = slow
        \/ \E j \in Jobs : OutliveLock(j)
    BY DEF Next, WorkerStep, CallStep, vars, bounds, Poll, PollEmpty, Claim, LoseClaim, CreateFile,
           FileExists, WriteFile, Complete, Throw, Catch, RequeueOrFail, Halt, Restart,
           AbandonedLockAges, BecomeDue, ChangeAccess, Ask, Get, MarkExpired,
           CheckList, CheckRelation, Refuse, Create, Deliver, EndDownload
  <2> QED
    BY <2>1, <2>2
<1> QED
  BY <1>1, <1>2, TypeCorrect, PTL DEF Spec

\* The rows of a state in which every job is as before map to the same lifecycle.
LEMMA SameRows == ASSUME UNCHANGED <<status, checksum>>
                  PROVE  UNCHANGED <<stageView, artifactView>>
  BY DEF stageView, artifactView

\* One step of the queue is a step of the lifecycle or leaves it as it is.
LEMMA LifecycleStep ==
    ASSUME IInv, slow = 0, [Next]_vars
    PROVE  [Lifecycle!Next]_(Lifecycle!vars)
<1> DEFINE Step == [Lifecycle!Next]_(Lifecycle!vars)
<1> USE DEF TypeOK, JobsKnown, Statuses, NoLock, NoJob
<1>1. ASSUME NEW w \in Workers, Claim(w) PROVE Step
  <2>1. job[w] \in Jobs /\ status[job[w]] \in {"queued", "processing"}
    BY <1>1 DEF Claim, StillClaimable, IInv
  <2>2. UNCHANGED artifactView
    BY <1>1 DEF Claim, artifactView
  <2>3. UNCHANGED stageView
    BY <1>1, <2>1 DEF Claim, stageView, IInv
  <2> QED
    BY <2>2, <2>3 DEF Lifecycle!vars
<1>2. ASSUME NEW w \in Workers, Complete(w) PROVE Step
  <2>1. job[w] \in Jobs /\ status[job[w]] = "processing" /\ held[w] # NoLock
    BY <1>2 DEF Complete, IInv, PromptWorkersHoldTheLock, AttemptsOwned, AtWork
  <2>2. stageView[job[w]] = "pending"
    BY <2>1 DEF stageView
  <2>3. stageView' = [stageView EXCEPT ![job[w]] = "completed"]
    BY <1>2, <2>1 DEF Complete, stageView, IInv
  <2>4. artifactView' = artifactView \cup {job[w]}
    BY <1>2, <2>1 DEF Complete, artifactView, IInv
  <2> QED
    BY <2>1, <2>2, <2>3, <2>4 DEF Lifecycle!Next, Lifecycle!Complete
<1>3. ASSUME NEW w \in Workers, RequeueOrFail(w) PROVE Step
  <2>1. job[w] \in Jobs /\ status[job[w]] = "processing"
    BY <1>3 DEF RequeueOrFail, IInv, PromptWorkersHoldTheLock, AtWork
  <2>2. UNCHANGED artifactView
    BY <1>3 DEF RequeueOrFail, artifactView
  <2>3. CASE last[w]
    <3>1. stageView[job[w]] = "pending"
      BY <2>1 DEF stageView
    <3>2. stageView' = [stageView EXCEPT ![job[w]] = "failed"]
      BY <1>3, <2>1, <2>3 DEF RequeueOrFail, AfterFailure, stageView, IInv
    <3> QED
      BY <2>1, <2>2, <3>1, <3>2 DEF Lifecycle!Next, Lifecycle!GiveUp
  <2>4. CASE ~last[w]
    <3>1. UNCHANGED stageView
      BY <1>3, <2>1, <2>4 DEF RequeueOrFail, AfterFailure, stageView, IInv
    <3> QED
      BY <2>2, <3>1 DEF Lifecycle!vars
  <2> QED
    BY <2>3, <2>4
<1>4. ASSUME NEW r \in Callers, Create(r) PROVE Step
  <2>1. rjob[r] \in Jobs /\ status[rjob[r]] = "absent"
    BY <1>4 DEF Create, IInv, DownloadsCompleted
  <2>2. UNCHANGED artifactView
    BY <1>4 DEF Create, artifactView
  <2>3. stageView[rjob[r]] = "absent"
    BY <2>1 DEF stageView
  <2>4. stageView' = [stageView EXCEPT ![rjob[r]] = "pending"]
    BY <1>4, <2>1 DEF Create, stageView, IInv
  <2> QED
    BY <2>1, <2>2, <2>3, <2>4 DEF Lifecycle!Next, Lifecycle!Submit
<1>5. ASSUME NEW r \in Callers, MarkExpired(r) PROVE Step
  <2>1. rjob[r] \in Jobs /\ status[rjob[r]] \in {"completed", "expired"}
    BY <1>5 DEF MarkExpired, IInv, PromptWorkersHoldTheLock
  <2>2. UNCHANGED artifactView
    BY <1>5 DEF MarkExpired, artifactView
  <2>3. CASE status[rjob[r]] = "completed"
    <3>1. stageView[rjob[r]] = "completed"
      BY <2>1, <2>3 DEF stageView
    <3>2. stageView' = [stageView EXCEPT ![rjob[r]] = "expired"]
      BY <1>5, <2>1 DEF MarkExpired, stageView, IInv
    <3> QED
      BY <2>1, <2>2, <3>1, <3>2 DEF Lifecycle!Next, Lifecycle!Expire
  <2>4. CASE status[rjob[r]] = "expired"
    <3>1. UNCHANGED stageView
      BY <1>5, <2>1, <2>4 DEF MarkExpired, stageView, IInv
    <3> QED
      BY <2>2, <3>1 DEF Lifecycle!vars
  <2> QED
    BY <2>1, <2>3, <2>4
<1>6. CASE UNCHANGED <<status, checksum>>
  BY <1>6, SameRows DEF Lifecycle!vars
<1>7. \/ \E w \in Workers : Claim(w) \/ Complete(w) \/ RequeueOrFail(w)
      \/ \E r \in Callers : Create(r) \/ MarkExpired(r)
      \/ UNCHANGED <<status, checksum>>
  BY DEF Next, WorkerStep, CallStep, vars, rowVars, Poll, PollEmpty, LoseClaim, CreateFile,
         FileExists, WriteFile, Throw, Catch, Halt, Restart, AbandonedLockAges,
         OutliveLock, BecomeDue, ChangeAccess, Ask, Get, CallStep, CheckList, CheckRelation,
         Refuse, Deliver, EndDownload
<1> QED
  BY <1>1, <1>2, <1>3, <1>4, <1>5, <1>6, <1>7

\* If no worker outlives its lock, users see the lifecycle they are promised: no
\* settled job is reopened, whatever crashes, retries and downloads interleave.
THEOREM ImplementsLifecycle == MaxSlow = 0 /\ Spec => KeepsLifecycle
<1> SUFFICES ASSUME MaxSlow = 0 PROVE Spec => KeepsLifecycle
  OBVIOUS
<1>1. Init => Lifecycle!Init
  BY DEF Init, Lifecycle!Init, stageView, artifactView
<1>2. IInv /\ slow <= MaxSlow /\ [Next]_vars => [Lifecycle!Next]_(Lifecycle!vars)
  <2>1. IInv /\ slow <= MaxSlow => slow = 0
    BY DEF IInv, TypeOK
  <2> QED
    BY <2>1, LifecycleStep
<1> QED
  BY <1>1, <1>2, Invariance, NeverSlow, PTL DEF Spec, KeepsLifecycle, Lifecycle!Spec
=============================================================================
