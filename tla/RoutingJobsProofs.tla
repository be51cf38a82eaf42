-------------------------- MODULE RoutingJobsProofs --------------------------
(***************************************************************************)
(* Theorems about RoutingJobs, for every set of jobs and scopes and any    *)
(* number of stopped workers.                                              *)
(***************************************************************************)
EXTENDS RoutingJobs, TLAPS

(* The conjunction the proofs carry from step to step.                       *)
JobsInv == JobsTypeOK /\ AtMostOneRunning /\ OneWriterPerJob

(* What a step does to one row: the four ways a status is written.           *)
LEMMA SetStatusRow ==
    ASSUME JobsTypeOK, NEW j \in Jobs, NEW st \in JobStatus, SetStatus(j, st)
    PROVE  /\ job' \in [Jobs -> [status : JobStatus, scope : Scopes \cup {NoScope}]]
           /\ job'[j].status = st /\ job'[j].scope = job[j].scope
           /\ \A i \in Jobs \ {j} : job'[i] = job[i]
    BY DEF SetStatus, JobsTypeOK

(* A row that does not become running cannot break the scope's exclusion.    *)
LEMMA NoNewRunning ==
    ASSUME AtMostOneRunning,
           \A i \in Jobs : job'[i].status = "running" => job'[i] = job[i]
    PROVE  AtMostOneRunning'
    BY DEF AtMostOneRunning, RunningIn

LEMMA JobsInitial == JobsInit => JobsInv
    BY JobsAssumption
    DEF JobsInit, JobsInv, JobsTypeOK, AtMostOneRunning, OneWriterPerJob, RunningIn,
        Row, JobStatus

LEMMA CreateJobKeepsInv ==
    ASSUME JobsInv, NEW j \in Jobs, NEW s \in Scopes, CreateJob(j, s)
    PROVE  JobsInv'
    <1>1. job'[j] = Row("queued", s) /\ \A i \in Jobs \ {j} : job'[i] = job[i]
        BY DEF CreateJob, JobsInv, JobsTypeOK
    <1>2. JobsTypeOK'
        BY DEF CreateJob, JobsInv, JobsTypeOK, Row, JobStatus
    <1>3. AtMostOneRunning'
        BY <1>1, NoNewRunning DEF JobsInv, Row
    <1>4. OneWriterPerJob'
        BY <1>1 DEF CreateJob, JobsInv, OneWriterPerJob, JobsTypeOK, Row
    <1> QED BY <1>2, <1>3, <1>4 DEF JobsInv

LEMMA PostKeepsInv ==
    ASSUME JobsInv, NEW j \in Jobs, PostJob(j) \/ PostRefused(j) \/ PostLost(j)
    PROVE  JobsInv'
    <1>1. CASE PostRefused(j)
        <2>1. job'[j].status = "failed" /\ \A i \in Jobs \ {j} : job'[i] = job[i]
            BY <1>1, SetStatusRow DEF PostRefused, JobsInv, JobStatus
        <2>2. JobsTypeOK'
            BY <1>1, SetStatusRow DEF PostRefused, JobsInv, JobsTypeOK, JobStatus
        <2>3. AtMostOneRunning'
            BY <2>1, NoNewRunning DEF JobsInv
        <2>4. OneWriterPerJob'
            BY <1>1, <2>1 DEF PostRefused, JobsInv, OneWriterPerJob, JobsTypeOK
        <2> QED BY <2>2, <2>3, <2>4 DEF JobsInv
    <1>2. CASE PostJob(j)
        BY <1>2 DEF PostJob, JobsInv, JobsTypeOK, AtMostOneRunning, OneWriterPerJob, RunningIn
    <1>3. CASE PostLost(j)
        BY <1>3 DEF PostLost, JobsInv, JobsTypeOK, AtMostOneRunning, OneWriterPerJob, RunningIn
    <1> QED BY <1>1, <1>2, <1>3

LEMMA ClaimJobKeepsInv ==
    ASSUME JobsInv, NEW j \in Jobs, ClaimJob(j)
    PROVE  JobsInv'
    <1>1. /\ job'[j].status = "running" /\ job'[j].scope = job[j].scope
          /\ \A i \in Jobs \ {j} : job'[i] = job[i]
        BY SetStatusRow DEF ClaimJob, JobsInv, JobStatus
    <1>2. JobsTypeOK'
        BY SetStatusRow DEF ClaimJob, JobsInv, JobsTypeOK, JobStatus
    <1>3. AtMostOneRunning'
        BY <1>1 DEF ClaimJob, JobsInv, AtMostOneRunning, RunningIn
    <1>4. OneWriterPerJob'
        BY <1>1 DEF ClaimJob, Delivered, Claimable, JobsInv, OneWriterPerJob, JobsTypeOK
    <1> QED BY <1>2, <1>3, <1>4 DEF JobsInv

LEMMA RefuseOrSkipKeepsInv ==
    ASSUME JobsInv, NEW j \in Jobs, RefuseJob(j) \/ SkipJob(j)
    PROVE  JobsInv'
    <1>1. CASE RefuseJob(j)
        <2>1. job'[j].status = "failed" /\ \A i \in Jobs \ {j} : job'[i] = job[i]
            BY <1>1, SetStatusRow DEF RefuseJob, JobsInv, JobStatus
        <2>2. JobsTypeOK'
            BY <1>1, SetStatusRow DEF RefuseJob, JobsInv, JobsTypeOK, JobStatus
        <2>3. AtMostOneRunning'
            BY <2>1, NoNewRunning DEF JobsInv
        <2>4. OneWriterPerJob'
            BY <1>1, <2>1
            DEF RefuseJob, Delivered, Claimable, JobsInv, OneWriterPerJob, JobsTypeOK
        <2> QED BY <2>2, <2>3, <2>4 DEF JobsInv
    <1>2. CASE SkipJob(j)
        BY <1>2 DEF SkipJob, JobsInv, JobsTypeOK, AtMostOneRunning, OneWriterPerJob, RunningIn
    <1> QED BY <1>1, <1>2

LEMMA FinishOrFailKeepsInv ==
    ASSUME JobsInv, NEW j \in Jobs, FinishJob(j) \/ FailJob(j)
    PROVE  JobsInv'
    <1>1. PICK st \in Finished : SetStatus(j, st)
        BY DEF FinishJob, FailJob, Finished
    <1>2. job'[j].status = st /\ \A i \in Jobs \ {j} : job'[i] = job[i]
        BY <1>1, SetStatusRow DEF JobsInv, JobStatus, Finished
    <1>3. JobsTypeOK'
        BY <1>1, SetStatusRow DEF FinishJob, FailJob, JobsInv, JobsTypeOK, JobStatus, Finished
    <1>4. AtMostOneRunning'
        BY <1>2, NoNewRunning DEF JobsInv, Finished
    <1>5. OneWriterPerJob'
        <2>1. CASE FinishJob(j)
            <3>1. job'[j].status = "done"
                BY <2>1, SetStatusRow DEF FinishJob, JobsInv, JobStatus
            <3> QED BY <1>2, <2>1, <3>1
                DEF FinishJob, JobsInv, OneWriterPerJob, JobsTypeOK
        <2>2. CASE FailJob(j)
            BY <1>2, <2>2 DEF FailJob, JobsInv, OneWriterPerJob, JobsTypeOK, Finished
        <2> QED BY <2>1, <2>2
    <1> QED BY <1>3, <1>4, <1>5 DEF JobsInv

LEMMA AnnounceJobKeepsInv ==
    ASSUME JobsInv, NEW j \in Jobs, AnnounceJob(j)
    PROVE  JobsInv'
    BY DEF AnnounceJob, JobsInv, JobsTypeOK, AtMostOneRunning, OneWriterPerJob, RunningIn

LEMMA KillJobKeepsInv ==
    ASSUME JobsInv, NEW j \in Jobs, NEW kept \in BOOLEAN, KillJob(j, kept)
    PROVE  JobsInv'
    BY DEF KillJob, StopWorker, MessageStays, JobsInv, JobsTypeOK, AtMostOneRunning, OneWriterPerJob, RunningIn

LEMMA LoseClaimKeepsInv ==
    ASSUME JobsInv, NEW j \in Jobs, NEW kept \in BOOLEAN, LoseClaim(j, kept)
    PROVE  JobsInv'
    BY DEF LoseClaim, StopWorker, MessageStays, JobsInv, JobsTypeOK, AtMostOneRunning,
        OneWriterPerJob, RunningIn

LEMMA JobsStepKeepsInv == JobsInv /\ [JobsNext]_jobVars => JobsInv'
    <1> SUFFICES ASSUME JobsInv, [JobsNext]_jobVars PROVE JobsInv'
        OBVIOUS
    <1>1. CASE JobsOnlyStep
        BY <1>1, CreateJobKeepsInv, PostKeepsInv, ClaimJobKeepsInv, RefuseOrSkipKeepsInv,
           AnnounceJobKeepsInv, LoseClaimKeepsInv
        DEF JobsOnlyStep, WorkerStep
    <1>2. ASSUME NEW j \in Jobs, FinishJob(j) \/ FailJob(j) PROVE JobsInv'
        BY <1>2, FinishOrFailKeepsInv
    <1>3. ASSUME NEW j \in Jobs, NEW kept \in BOOLEAN, KillJob(j, kept) PROVE JobsInv'
        BY <1>3, KillJobKeepsInv
    <1>4. CASE UNCHANGED jobVars
        BY <1>4
        DEF jobVars, JobsInv, JobsTypeOK, AtMostOneRunning, OneWriterPerJob, RunningIn
    <1> QED BY <1>1, <1>2, <1>3, <1>4 DEF JobsNext

-----------------------------------------------------------------------------
(* The invariant holds in every reachable state.                             *)
THEOREM JobsInvariant == JobsSpec => []JobsInv
    <1>1. JobsInit => JobsInv BY JobsInitial
    <1>2. JobsInv /\ [JobsNext]_jobVars => JobsInv' BY JobsStepKeepsInv
    <1> QED BY <1>1, <1>2, PTL DEF JobsSpec

(* At most one job of a scope is ever running.                               *)
THEOREM RunningIsExclusive == JobsSpec => []AtMostOneRunning
    <1>1. JobsInv => AtMostOneRunning BY DEF JobsInv
    <1> QED BY <1>1, JobsInvariant, PTL

(* The creating request and the workers never share a row.                   *)
THEOREM WritersAreExclusive == JobsSpec => []OneWriterPerJob
    <1>1. JobsInv => OneWriterPerJob BY DEF JobsInv
    <1> QED BY <1>1, JobsInvariant, PTL

LEMMA FinishedRowsStay ==
    ASSUME JobsInv, [JobsNext]_jobVars, NEW i \in Jobs, job[i].status \in Finished
    PROVE  job'[i] \in {job[i], Row("failed", job[i].scope)}
    <1> USE DEF JobsInv, Finished
    <1>1. CASE JobsOnlyStep
        <2> PICK j \in Jobs :
                \/ \E s \in Scopes : CreateJob(j, s)
                \/ PostJob(j) \/ PostRefused(j) \/ PostLost(j) \/ WorkerStep(j)
                \/ AnnounceJob(j) \/ \E kept \in BOOLEAN : LoseClaim(j, kept)
            BY <1>1 DEF JobsOnlyStep
        <2>1. ASSUME NEW s \in Scopes, CreateJob(j, s) PROVE job'[i] = job[i]
            BY <2>1 DEF CreateJob, JobsTypeOK
        <2>2. CASE PostJob(j) \/ PostLost(j) \/ SkipJob(j) \/ AnnounceJob(j)
            BY <2>2 DEF PostJob, PostLost, SkipJob, AnnounceJob
        <2>3. CASE PostRefused(j)
            BY <2>3 DEF PostRefused, SetStatus, OneWriterPerJob, JobsTypeOK
        <2>4. CASE ClaimJob(j) \/ RefuseJob(j)
            BY <2>4 DEF ClaimJob, RefuseJob, Claimable, SetStatus, JobsTypeOK
        <2>5. ASSUME NEW kept \in BOOLEAN, LoseClaim(j, kept) PROVE job'[i] = job[i]
            BY <2>5 DEF LoseClaim
        <2> QED BY <2>1, <2>2, <2>3, <2>4, <2>5 DEF WorkerStep
    <1>2. ASSUME NEW j \in Jobs, FinishJob(j)
          PROVE job'[i] = job[i]
        BY <1>2 DEF FinishJob, SetStatus, OneWriterPerJob, JobsTypeOK
    <1>3. ASSUME NEW j \in Jobs, FailJob(j)
          PROVE job'[i] \in {job[i], Row("failed", job[i].scope)}
        BY <1>3 DEF FailJob, SetStatus, JobsTypeOK, Row
    <1>4. ASSUME NEW j \in Jobs, NEW kept \in BOOLEAN, KillJob(j, kept)
          PROVE job'[i] = job[i]
        BY <1>4 DEF KillJob
    <1>5. CASE UNCHANGED jobVars
        BY <1>5 DEF jobVars
    <1> QED BY <1>1, <1>2, <1>3, <1>4, <1>5 DEF JobsNext

(* A finished job never runs again.                                          *)
THEOREM FinishedIsFinal == JobsSpec => OutcomeIsFinal
    <1>1. JobsInv /\ [JobsNext]_jobVars
            => [\A j \in Jobs : job[j].status \in Finished =>
                    job'[j] \in {job[j], Row("failed", job[j].scope)}]_jobVars
        BY FinishedRowsStay
    <1> QED BY <1>1, JobsInvariant, PTL DEF JobsSpec, OutcomeIsFinal
=============================================================================
