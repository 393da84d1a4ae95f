---------------------------- MODULE ExportWatch ----------------------------
(***************************************************************************)
(* The exports of PriceCatalogComponent: requesting one, the table of      *)
(* them, and the interval that asks for it every three seconds until none  *)
(* of those shown is pending.  The interval looks at what is shown when it *)
(* runs, before what it has just asked for has landed.  A list and a       *)
(* marketplace are selected, which ones does not matter here, and a        *)
(* download changes nothing.                                               *)
(***************************************************************************)
EXTENDS Screen

CONSTANTS Jobs,        \* bound: the exports there may be
          MaxPolls     \* bound: calls for the exports under way when the interval runs

ASSUME ExportWatchAssumption ==
    MaxPolls \in Nat

VARIABLES
    requesting, \* the company of the export being requested
    jobs,       \* server: the exports
    exports,    \* those shown, and whether as finished
    polls,      \* calls for them, in the order sent
    polling,    \* whether there is a pollHandle
    watched,    \* history: exports requested since the company was switched
    missed      \* history: an answer about exports was late, failed, or took
                \* longer than the interval

exportVars == <<requesting, jobs, exports, polls, polling, watched, missed>>
exportWatchVars == <<screenVars, company, exportVars>>

Requester == UserOn("exports")
Informed == LandsOn("exports")

ExportWatchInit ==
    /\ requesting = None
    /\ jobs = [j \in Jobs |-> [status |-> "none", tenant |-> None]]
    /\ exports = {} /\ polls = <<[tenant |-> FirstCompany, late |-> FALSE]>>
    /\ polling = FALSE /\ watched = {} /\ missed = FALSE

LoadExports == polls' = Append(polls, [tenant |-> company, late |-> FALSE])

RequestExport ==
    /\ Requester /\ requesting = None
    /\ requesting' = company
    /\ UNCHANGED <<company, jobs, exports, polls, polling, watched, missed>>

Queued(j) ==
    /\ jobs[j].status = "none"
    /\ jobs' = [jobs EXCEPT ![j] = [status |-> "pending", tenant |-> requesting]]

\* What follows a request that was accepted.
Requested == LoadExports /\ polling' = TRUE

\* It is accepted, or refused, or accepted and the answer lost.
RequestLands ==
    /\ Informed /\ requesting # None /\ requesting' = None
    /\ \/ \E j \in Jobs : /\ Queued(j) /\ Requested
                          /\ watched' = IF requesting = company THEN watched \cup {j} ELSE watched
       \/ UNCHANGED <<polls, polling, watched>> /\ (UNCHANGED jobs \/ \E j \in Jobs : Queued(j))
    /\ UNCHANGED <<company, exports, missed>>

\* Mutation: exports that are queued but not yet processed do not count.
Pending_Not == FALSE

Pending == \E e \in exports : ~e.finished

\* The interval runs: it goes by what is shown, not by what it has just asked for.
Tick ==
    /\ Informed /\ polling /\ Len(polls) < MaxPolls
    /\ LoadExports
    /\ polling' = Pending
    /\ missed' = (missed \/ polls # <<>>)
    /\ UNCHANGED <<company, requesting, jobs, exports, watched>>

PollLands(i) ==
    /\ Informed
    /\ \/ /\ exports' = {[job |-> j, finished |-> jobs[j].status = "finished"] :
                           j \in {j \in Jobs : jobs[j].tenant = polls[i].tenant}}
          /\ missed' = (missed \/ polls[i].late)
       \/ exports' = {} /\ missed' = TRUE
    /\ polls' = Landed(polls, i, LAMBDA j : TRUE)
    /\ UNCHANGED <<company, requesting, jobs, polling, watched>>

\* A worker completes it, or gives it up.
JobFinishes(j) ==
    /\ Informed
    /\ jobs[j].status = "pending" /\ jobs' = [jobs EXCEPT ![j].status = "finished"]
    /\ UNCHANGED <<company, requesting, exports, polls, polling, watched, missed>>

\* The subscriber of tenantContext.changes: the interval goes on.
ExportsOfAnother(t) ==
    /\ Requester /\ t # company /\ company' = t
    /\ polls' = Append(polls, [tenant |-> t, late |-> FALSE])
    /\ watched' = {}
    /\ UNCHANGED <<requesting, jobs, exports, polling, missed>>

-----------------------------------------------------------------------------
ExportWatchNext ==
    \/ RequestExport \/ RequestLands \/ Tick
    \/ \E i \in DOMAIN polls : PollLands(i)
    \/ \E j \in Jobs : JobFinishes(j)
    \/ \E t \in Companies : ExportsOfAnother(t)

\* Every call is answered, timers run and workers work.
ExportWatchFairness ==
    /\ WF_exportWatchVars(polls # <<>> /\ PollLands(1))
    /\ WF_exportWatchVars(RequestLands)
    /\ WF_exportWatchVars(Tick)
    /\ \A j \in Jobs : WF_exportWatchVars(JobFinishes(j))

ExportWatchSpec == ExportWatchInit /\ [][ExportWatchNext]_exportWatchVars /\ ExportWatchFairness

-----------------------------------------------------------------------------
(* Properties.                                                               *)

\* As long as answers about exports land in time, an export requested here is
\* shown as finished in the end, unless the company is switched: the interval
\* does not stop between the request and the first answer that has it.
FinishedExportIsShown ==
    \A j \in Jobs :
        j \in watched ~> \/ [job |-> j, finished |-> TRUE] \in exports
                         \/ missed \/ j \notin watched

\* Until then the interval goes on, under the same conditions: it is cleared
\* neither before the first answer that has the export nor by exports of another
\* company that are shown meanwhile.
IntervalGoesOn ==
    missed \/ \A j \in watched : polling \/ [job |-> j, finished |-> TRUE] \in exports
=============================================================================
