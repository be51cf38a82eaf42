---------------------------- MODULE RoutingJobs ----------------------------
(***************************************************************************)
(* The routing_jobs table, the ARQ message of each job and the worker that *)
(* runs it.                                                                *)
(*                                                                         *)
(* A dispatcher asks for the plan of a (date, district): the API inserts a *)
(* queued row, commits, then posts a message to ARQ.  A worker claims the  *)
(* row in one transaction (queued -> running) and computes outside of any  *)
(* transaction of the claim; the outcome is a second commit, after which   *)
(* the worker announces the draft.  At any of these points, the claim      *)
(* included, the process may be stopped: by ARQ's job timeout, a shutdown, *)
(* a crash or, outside of the function's `try', an error of the database.  The creation   *)
(* and the claim both run under the transaction-level advisory lock of the *)
(* scope (_scope_lock) with no commit in between, so each is one step.     *)
(***************************************************************************)
EXTENDS Naturals, FiniteSets

CONSTANTS
    Jobs,     \* ids of routing_jobs rows
    Scopes,   \* the (service_date, district) pairs
    NoScope,  \* scope of a row that does not exist
    MaxKills  \* bound: at how many jobs a worker is stopped

ASSUME JobsAssumption ==
    /\ NoScope \notin Scopes
    /\ MaxKills \in Nat

VARIABLES
    job,        \* job[j]: the row, status and scope
    posting,    \* jobs committed as queued whose message is not yet posted
    queue,      \* jobs with an ARQ message that is not acknowledged
    computing,  \* jobs a live worker has claimed and not yet finished
    announcing, \* jobs a live worker has finished and not yet announced
    stopped     \* jobs at which a worker was stopped, at most MaxKills

jobVars == <<job, posting, queue, computing, announcing, stopped>>

JobStatus == {"absent", "queued", "running", "done", "failed"}
Finished == {"done", "failed"}

Row(status, scope) == [status |-> status, scope |-> scope]

(* RoutingJobsRepository.running: a running row of the scope. *)
RunningIn(s) == {j \in Jobs : job[j].status = "running" /\ job[j].scope = s}

SetStatus(j, status) == job' = [job EXCEPT ![j].status = status]

-----------------------------------------------------------------------------
JobsInit ==
    /\ job = [j \in Jobs |-> Row("absent", NoScope)]
    /\ posting = {}
    /\ queue = {}
    /\ computing = {}
    /\ announcing = {}
    /\ stopped = {}

(* Mutant of CreateJob: the message is posted before the row is committed.   *)
CreateJobPosted(j, s) ==
    /\ job[j].status = "absent"
    /\ RunningIn(s) = {}
    /\ job' = [job EXCEPT ![j] = Row("queued", s)]
    /\ posting' = posting \cup {j}
    /\ queue' = queue \cup {j}
    /\ UNCHANGED <<computing, announcing, stopped>>

(* DispatchService.create_job up to its commit: refused when the scope has a *)
(* running job; a job that is only queued does not count.                    *)
CreateJob(j, s) ==
    /\ job[j].status = "absent"
    /\ RunningIn(s) = {}
    /\ job' = [job EXCEPT ![j] = Row("queued", s)]
    /\ posting' = posting \cup {j}
    /\ UNCHANGED <<queue, computing, announcing, stopped>>

(* create_job after its commit: the message is posted ...                    *)
PostJob(j) ==
    /\ j \in posting
    /\ posting' = posting \ {j}
    /\ queue' = queue \cup {j}
    /\ UNCHANGED <<job, computing, announcing, stopped>>

(* ... or ARQ declines it and the row is failed in a second commit ...       *)
PostRefused(j) ==
    /\ j \in posting
    /\ posting' = posting \ {j}
    /\ SetStatus(j, "failed")
    /\ UNCHANGED <<queue, computing, announcing, stopped>>

(* ... or the API process or Redis is lost first: the row stays queued with  *)
(* no message.                                                               *)
PostLost(j) ==
    /\ j \in posting
    /\ posting' = posting \ {j}
    /\ UNCHANGED <<job, queue, computing, announcing, stopped>>

(* Mutant of Claimable: a redelivery runs the job whatever became of it.     *)
AlwaysClaimable(j) == job[j].status # "absent"

(* A delivery that finds the row queued: the guard of run_dispatch_job.      *)
Claimable(j) == job[j].status = "queued"

(* ARQ delivers at least once: its lease on a message may expire while the   *)
(* first worker is still computing, so a delivery needs only the message.    *)
Delivered(j) == j \in queue

(* Mutant of ClaimJob: the worker does not look for a running job.           *)
ClaimJobBlindly(j) ==
    /\ Delivered(j)
    /\ Claimable(j)
    /\ SetStatus(j, "running")
    /\ computing' = computing \cup {j}
    /\ UNCHANGED <<posting, queue, announcing, stopped>>

(* run_dispatch_job, first transaction, nobody runs in the scope.            *)
ClaimJob(j) ==
    /\ Delivered(j)
    /\ Claimable(j)
    /\ RunningIn(job[j].scope) \subseteq {j}
    /\ SetStatus(j, "running")
    /\ computing' = computing \cup {j}
    /\ UNCHANGED <<posting, queue, announcing, stopped>>

(* Mutant of RefuseJob: the message is dropped and the row stays queued.     *)
DropJob(j) ==
    /\ Delivered(j)
    /\ Claimable(j)
    /\ ~ RunningIn(job[j].scope) \subseteq {j}
    /\ queue' = queue \ {j}
    /\ UNCHANGED <<job, posting, computing, announcing, stopped>>

(* run_dispatch_job, first transaction, another job runs in the scope.       *)
RefuseJob(j) ==
    /\ Delivered(j)
    /\ Claimable(j)
    /\ ~ RunningIn(job[j].scope) \subseteq {j}
    /\ SetStatus(j, "failed")
    /\ queue' = queue \ {j}
    /\ UNCHANGED <<posting, computing, announcing, stopped>>

(* run_dispatch_job on a row that is not queued: a redelivery, acknowledged. *)
SkipJob(j) ==
    /\ Delivered(j)
    /\ ~ Claimable(j)
    /\ queue' = queue \ {j}
    /\ UNCHANGED <<job, posting, computing, announcing, stopped>>

(* A worker stops at a job before it returns.  ARQ redelivers the message    *)
(* after a shutdown or a crash (kept); after a timeout or an error that      *)
(* leaves the function it drops it: WorkerSettings asks for no retry.        *)
StopWorker(j) ==
    /\ Cardinality(stopped) < MaxKills
    /\ stopped' = stopped \cup {j}

MessageStays(j, kept) == queue' = IF kept THEN queue ELSE queue \ {j}

(* The claim does not commit: no `try' covers it, and it may wait for the    *)
(* scope's lock past the timeout.  The row stays queued.                     *)
LoseClaim(j, kept) ==
    /\ Delivered(j)
    /\ Claimable(j)
    /\ StopWorker(j)
    /\ MessageStays(j, kept)
    /\ UNCHANGED <<job, posting, computing, announcing>>

(* The second transaction of run_dispatch_job commits; the message is not    *)
(* acknowledged before the announcement.                                     *)
FinishJob(j) ==
    /\ j \in computing
    /\ SetStatus(j, "done")
    /\ computing' = computing \ {j}
    /\ announcing' = announcing \cup {j}
    /\ UNCHANGED <<posting, queue, stopped>>

(* The draft is announced on the event bus and the function returns.         *)
AnnounceJob(j) ==
    /\ j \in announcing
    /\ announcing' = announcing \ {j}
    /\ queue' = queue \ {j}
    /\ UNCHANGED <<job, posting, computing, stopped>>

(* Mutant of FailJob: rolled back, but the row is not failed.                *)
OnlyRollback(j) ==
    /\ j \in computing
    /\ computing' = computing \ {j}
    /\ queue' = queue \ {j}
    /\ UNCHANGED <<job, posting, announcing, stopped>>

(* The `except Exception' branch: rollback, then the row is failed.  Its     *)
(* `try' covers the announcement too, which raises when Redis is away: a     *)
(* job committed as done is then failed as well.                             *)
FailJob(j) ==
    /\ j \in computing \cup announcing
    /\ SetStatus(j, "failed")
    /\ computing' = computing \ {j}
    /\ announcing' = announcing \ {j}
    /\ queue' = queue \ {j}
    /\ UNCHANGED <<posting, stopped>>

(* A worker stops after its claim.  CancelledError is no Exception, and the  *)
(* failing of the row may fail itself: nobody touches the row.               *)
KillJob(j, kept) ==
    /\ j \in computing \cup announcing
    /\ StopWorker(j)
    /\ computing' = computing \ {j}
    /\ announcing' = announcing \ {j}
    /\ MessageStays(j, kept)
    /\ UNCHANGED <<job, posting>>

-----------------------------------------------------------------------------
(* The steps of a worker that do not compute a plan.                         *)
WorkerStep(j) == ClaimJob(j) \/ RefuseJob(j) \/ SkipJob(j)

(* The steps that touch nothing but the jobs: all except Finish, Fail and    *)
(* Kill, which commit or abandon a plan.                                     *)
JobsOnlyStep ==
    \E j \in Jobs :
        \/ \E s \in Scopes : CreateJob(j, s)
        \/ PostJob(j)
        \/ PostRefused(j)
        \/ PostLost(j)
        \/ WorkerStep(j)
        \/ \E kept \in BOOLEAN : LoseClaim(j, kept)
        \/ AnnounceJob(j)

JobsNext ==
    \/ JobsOnlyStep
    \/ \E j \in Jobs :
        \/ FinishJob(j)
        \/ FailJob(j)
        \/ \E kept \in BOOLEAN : KillJob(j, kept)

JobsSpec == JobsInit /\ [][JobsNext]_jobVars

(* A live worker keeps polling its queue, and what it has claimed it brings  *)
(* to an end: solve is a bounded computation and the publications return or  *)
(* raise.  Dispatchers and the API owe nothing.                              *)
JobsFairness ==
    \A j \in Jobs :
        /\ WF_jobVars(WorkerStep(j))
        /\ WF_jobVars(FinishJob(j) \/ AnnounceJob(j) \/ FailJob(j))

JobsFairSpec == JobsSpec /\ JobsFairness

-----------------------------------------------------------------------------
JobsTypeOK ==
    /\ job \in [Jobs -> [status : JobStatus, scope : Scopes \cup {NoScope}]]
    /\ posting \subseteq Jobs
    /\ queue \subseteq Jobs
    /\ computing \subseteq Jobs
    /\ announcing \subseteq Jobs
    /\ stopped \subseteq Jobs

(* At most one job of a (date, district) is running (create_job answers 409, *)
(* run_dispatch_job fails the later one), however creations, deliveries,     *)
(* redeliveries and deaths of workers interleave.                            *)
AtMostOneRunning ==
    \A s \in Scopes : \A i, j \in RunningIn(s) : i = j

(* Who may still write a row: a worker only while the row is running, or     *)
(* done and not announced, the creating request only while it is queued and  *)
(* has no message.  No other actor shares the row with them, although        *)
(* neither holds a lock on it.                                               *)
OneWriterPerJob ==
    /\ \A j \in computing : job[j].status = "running"
    /\ \A j \in announcing : job[j].status = "done"
    /\ \A j \in posting : job[j].status = "queued" /\ j \notin queue
    /\ \A j \in queue : job[j].status # "absent"

(* A finished job never runs again, whatever ARQ redelivers, and a failed    *)
(* one stays failed; a done one may only turn failed.                        *)
OutcomeIsFinal ==
    [][\A j \in Jobs : job[j].status \in Finished =>
            job'[j] \in {job[j], Row("failed", job[j].scope)}]_jobVars

(* A posted message is answered, the row leaves queued, unless a worker was  *)
(* stopped at this very job: what happens at the others does not excuse it.  *)
PostedJobsAreTaken ==
    \A j \in Jobs :
        j \in queue /\ Claimable(j) ~> ~ Claimable(j) \/ j \in stopped

(* A running job ends in done or failed, unless a worker was stopped at it.  *)
RunningJobsEndOrAreLost ==
    \A j \in Jobs :
        job[j].status = "running" ~> job[j].status \in Finished \/ j \in stopped
=============================================================================
