------------------------------ MODULE JobCalls ------------------------------
(* Jobs: functions-jobs.c.  What follows a job's insertion (the scheduler is *)
(* found, connected to and told) is out of reach: see jobs_cb_add in RpcCall. *)
EXTENDS CallSteps

JobReads == {"getJobs", "getJobsByUUID"}
getJobsByUID == Checked(Ask("getJobsByUID"))
isJob == Checked(Ask("isJob"))
addJob == Checked(Ask("addJob"))

getJob(n, e, v, o) == Checked(AskCb("getJob", "jobs_cb_get"))
getRecentJobs(n, e, v, o) == {AskCb("getRecentJobs", "ptr_job")}
getRecentJobsByUID(n, e, v, o) == {AskCb("getRecentJobsByUID", "ptr_job")}
getJobsByJIDs(n, e, v, o) == Checked(AskCb("getJobsByIds", "ptr_job"))
getJobsStatus(n, e, v, o) == Checked(AskCb("getJobsStatus", "ptr_job"))
getJobStatus(n, e, v, o) == Checked(AskCb("getJobStatus", "ptr_int"))

(* One cancelling job for each job that is found.                            *)
cancelJob(n, e, v, o) == {JobAdd}
jobs_cancel(q, n, e, v) ==
  IF n = 0 THEN {Value(q)}
  ELSE CASE e = "UNKNOWN_RESOURCE" -> {Cleared(Answer)}
         [] e = OK -> {TimesCb(v, "addJob", "jobs_cb_add")}
         [] OTHER -> {Nothing}
cancelJobsByUUID(n, e, v, o) == jobs_cancel("getJobsByUUID", n, e, v)
cancelJobsByUID(n, e, v, o) ==
  IF n = 0 THEN Checked(Value("getJobsByUID")) ELSE jobs_cancel("getJobsByUID", n, e, v)

JobMethods ==
  {"getJob", "getRecentJobs", "getRecentJobsByUID", "getJobsByJIDs",
   "getJobsStatus", "getJobStatus", "cancelJob", "cancelJobsByUUID",
   "cancelJobsByUID"}
(* One entry of a method, and the methods: a read is named by its query.     *)
JobStep(m, n, e, v, o) ==
  CASE m = "getJob" -> getJob(n, e, v, o)
    [] m = "getRecentJobs" -> getRecentJobs(n, e, v, o)
    [] m = "getRecentJobsByUID" -> getRecentJobsByUID(n, e, v, o)
    [] m = "getJobsByJIDs" -> getJobsByJIDs(n, e, v, o)
    [] m = "getJobsStatus" -> getJobsStatus(n, e, v, o)
    [] m = "getJobStatus" -> getJobStatus(n, e, v, o)
    [] m = "cancelJob" -> cancelJob(n, e, v, o)
    [] m = "cancelJobsByUUID" -> cancelJobsByUUID(n, e, v, o)
    [] m = "cancelJobsByUID" -> cancelJobsByUID(n, e, v, o)
    [] m = "getJobsByUID" -> getJobsByUID
    [] m = "isJob" -> isJob
    [] m = "addJob" -> addJob
    [] OTHER -> {Ask(m)}
JobAll ==
  JobMethods \cup JobReads \cup {"getJobsByUID", "isJob", "addJob"}
=============================================================================
