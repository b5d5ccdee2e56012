------------------------------ MODULE BacktestJobs ------------------------------
(***************************************************************************)
(* Backtest jobs: the JobManager of internal/backtest/job.go over its      *)
(* table, the handlers of internal/api/backtest_handler.go and the worker. *)
(*                                                                         *)
(* CreateJob leaves error_message and error_details NULL, UpdateJobStatus  *)
(* writes the message, nothing writes the details.  Reading a row scans    *)
(* them into strings, which a NULL cannot be scanned into.                 *)
(***************************************************************************)
EXTENDS Integers, FiniteSets

CONSTANTS
    Users,      \* user_id of the requests, "anonymous" if there is none
    Limits,     \* bound: page lengths asked for
    MaxJobs     \* bound: jobs created

JobsAssumption == Limits \subseteq Nat /\ MaxJobs \in Nat

VARIABLES
    table,      \* backtest_jobs, by id: a later one was created later
    created,    \* jobs created
    answer      \* the last request and what it was answered

jobs == <<table, created, answer>>

Ids == 1 .. MaxJobs
Statuses == {"pending", "running", "completed", "failed", "cancelled"}

JobsInit ==
    /\ table = <<>> /\ created = 0
    /\ answer = [request |-> "none", user |-> "anonymous", code |-> 0, job |-> 0, page |-> <<>>, more |-> FALSE]

Answer(request, user, job, code) ==
    [request |-> request, user |-> user, code |-> code, job |-> job, page |-> <<>>, more |-> FALSE]

-----------------------------------------------------------------------------
(* The table.                                                              *)

\* What is bound and refused by validateJob: a range that does not end after it
\* began, an empty strategy.
Invalid == {"backwards", "empty"}

\* A job as it is created.
NewJob(user) ==
    [user |-> user, status |-> "pending", message |-> "NULL", details |-> "NULL",
     results |-> FALSE, started |-> FALSE, ended |-> FALSE]

CreateJob(user, id) == [j \in DOMAIN table \cup {id} |-> IF j = id THEN NewJob(user) ELSE table[j]]

\* A status that a job starts or ends with comes with its time; the other time stays.
UpdateJobStatus(j, new, text) ==
    [i \in DOMAIN table |->
        IF i # j THEN table[i]
        ELSE [table[i] EXCEPT !.status = new, !.message = text, !.started = @ \/ new = "running",
                              !.ended = @ \/ new \in {"completed", "failed", "cancelled"}]]

\* GetJob finds the row and can scan all of it.
Got(j) == j \in DOMAIN table /\ table[j].message # "NULL" /\ table[j].details # "NULL"

DeleteJob(j) == [i \in DOMAIN table \ {j} |-> table[i]]

\* The jobs of a user, newest first, and a page of them.
JobsOf(user) == {j \in DOMAIN table : table[j].user = user}
Newest(user, k) == CHOOSE j \in JobsOf(user) : Cardinality({i \in JobsOf(user) : i >= j}) = k
Page(user, limit, offset) ==
    LET total == Cardinality(JobsOf(user))
    IN  [k \in 1 .. (IF offset + limit > total THEN total - offset ELSE limit) |-> Newest(user, offset + k)]

-----------------------------------------------------------------------------
(* The handlers.                                                           *)

\* What the binding refuses is a bad request, what validateJob refuses the server's
\* error.  The job is created and nothing is told of it.
RunBacktest(user) ==
    \/ \E request \in {"unbound"} \cup Invalid :
          /\ answer' = Answer("run", user, 0, IF request = "unbound" THEN 400 ELSE 500)
          /\ UNCHANGED <<table, created>>
    \/ /\ created < MaxJobs /\ created' = created + 1
       /\ table' = CreateJob(user, created')
       /\ answer' = Answer("run", user, created', 202)

GetBacktest(user, j) ==
    /\ answer' = Answer("get", user, j, IF Got(j) THEN 200 ELSE 404)
    /\ UNCHANGED <<table, created>>

\* The owner alone deletes a job.
DeleteBacktest(user, j) ==
    LET owned == Got(j) /\ table[j].user = user IN
    /\ answer' = Answer("delete", user, j, IF ~ Got(j) THEN 404 ELSE IF owned THEN 200 ELSE 403)
    /\ table' = IF owned THEN DeleteJob(j) ELSE table
    /\ UNCHANGED created

\* Anybody cancels a job that has not ended.
CancelBacktest(user, j) ==
    LET unended == Got(j) /\ table[j].status \in {"pending", "running"} IN
    /\ answer' = Answer("cancel", user, j, IF ~ Got(j) THEN 404 ELSE IF unended THEN 200 ELSE 409)
    /\ table' = IF unended THEN UpdateJobStatus(j, "cancelled", "Cancelled by user") ELSE table
    /\ UNCHANGED created

\* A page has no answer if one of its rows cannot be scanned; the details are not asked for.
ListBacktests(user, limit, offset) ==
    LET page == Page(user, limit, offset)
        failed == \E k \in DOMAIN page : table[page[k]].message = "NULL"
    IN
    /\ answer' = IF failed THEN Answer("list", user, 0, 500)
                 ELSE [Answer("list", user, 0, 200) EXCEPT
                          !.page = page, !.more = offset + Cardinality(DOMAIN page) < Cardinality(JobsOf(user))]
    /\ UNCHANGED <<table, created>>

-----------------------------------------------------------------------------
(* The worker, which has the job and not its row: neither update asks for  *)
(* the status that it replaces.                                            *)

ExecuteBacktestJob(j) == table' = UpdateJobStatus(j, "running", "blank") /\ UNCHANGED <<created, answer>>

SaveResults(j) ==
    /\ table' = [i \in DOMAIN table |->
                    IF i # j THEN table[i]
                    ELSE [table[i] EXCEPT !.results = TRUE, !.status = "completed", !.ended = TRUE]]
    /\ UNCHANGED <<created, answer>>

JobsNext ==
    \/ \E u \in Users :
          \/ RunBacktest(u)
          \/ \E j \in Ids : GetBacktest(u, j) \/ DeleteBacktest(u, j) \/ CancelBacktest(u, j)
          \/ \E limit \in Limits, offset \in 0 .. MaxJobs : ListBacktests(u, limit, offset)
    \/ \E j \in 1 .. created : ExecuteBacktestJob(j) \/ SaveResults(j)

JobsSpec == JobsInit /\ [][JobsNext]_jobs

-----------------------------------------------------------------------------
(* Properties.                                                             *)

\* Types.
JobsTypeOK ==
    /\ created \in 0 .. MaxJobs /\ DOMAIN table = 1 .. created
    /\ \A j \in DOMAIN table :
          /\ table[j].user \in Users /\ table[j].status \in Statuses
          /\ table[j].message \in {"NULL", "blank", "Cancelled by user"} /\ table[j].details = "NULL"
          /\ table[j].results \in BOOLEAN /\ table[j].started \in BOOLEAN /\ table[j].ended \in BOOLEAN
    /\ answer.code \in {0, 200, 202, 400, 403, 404, 409, 500}

\* A page that is shown is one of the user's own jobs, newest first, each of which
\* a worker began; the results of a job that completed are there, even if it was
\* executed again since.
PagesAreStarted ==
    /\ \A k \in DOMAIN answer.page :
          LET j == answer.page[k]
          IN  /\ j \in DOMAIN table /\ table[j].started /\ table[j].user = answer.user
              /\ \A l \in DOMAIN answer.page : k < l => j > answer.page[l]
    /\ \A j \in DOMAIN table :
          /\ table[j].status = "completed" => table[j].results
          /\ table[j].results => table[j].ended

\* No request takes a job from its user, deletes one of another user, or changes
\* one that has ended (DeleteBacktest, CancelBacktest).
RequestsRespectJobs ==
    [][\A j \in DOMAIN table :
          IF j \in DOMAIN table'
          THEN /\ table'[j].user = table[j].user
               /\ table'[j] # table[j] /\ answer' # answer => table[j].status \in {"pending", "running"}
          ELSE answer'.request = "delete" /\ answer'.user = table[j].user]_jobs
=============================================================================
