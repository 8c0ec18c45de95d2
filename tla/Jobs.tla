-------------------------------- MODULE Jobs --------------------------------
(***************************************************************************)
(* Operations of the Workbench, crates/verum_workbench/src/jobs.rs: a      *)
(* bounded list of jobs, a task per job that runs a child process and      *)
(* waits for the first of the end of its agent scope, a cancellation, the  *)
(* end of the process and the timeout, and a receipt per job that is kept  *)
(* in memory, retained on disk and read by a client with the versions it   *)
(* already knows.  The host may stop at any moment and restore the         *)
(* receipts when it starts again.                                          *)
(***************************************************************************)
EXTENDS Integers, Sequences, SequencesExt, FiniteSets

CONSTANTS MaxStarts,    \* bound: jobs altogether; a job is its number
          Proofs,       \* the jobs that check a proof
          Owned,        \* the jobs an agent scope starts
          Limit,        \* length of the list: 128 in the code
          Keep,         \* receipts restored at most: 126 in the code
          MaxOutputs,   \* bound: pieces of output per job
          MaxStops,     \* bound: how often the host stops
          MaxFailures   \* bound: receipts that cannot be written

Ids == 1 .. MaxStarts

ASSUME JobsAssumption ==
  /\ MaxStarts \in Nat /\ Proofs \subseteq Ids /\ Owned \subseteq Ids
  /\ Limit \in Nat \ {0, 1} /\ Keep \in 0 .. Limit
  /\ MaxOutputs \in Nat /\ MaxStops \in Nat /\ MaxFailures \in Nat

(* "inconclusive" stands for the code's "exhausted" and "unsupported" too:   *)
(* the results that decide nothing.  "Other" stands for the reports that     *)
(* decide nothing, the invalid ones included.                                *)
Terminal == {"succeeded", "failed", "inconclusive", "cancelled"}
Statuses == Terminal \cup {"none", "running"}
Reports  == {"Verified", "Rejected", "Other"}
Ends(i)  == {"bad"} \cup (IF i \in Proofs THEN Reports ELSE {"ok"})
Nothing  == [status |-> "none", version |-> 0]

VARIABLES
  host, stops,   \* "up" or "down", and how often it has stopped
  started,       \* jobs started so far
  jobs,          \* Jobs.jobs
  receipt,       \* what is in memory: status and version
  cancel,        \* jobs whose watch channel carries true
  scope,         \* the agent scope: "live" or "ended"
  task, verdict, \* where the task of each job is, and what its select chose
  child,         \* its process: "none", "alive", or how it ended: "bad", "ok",
                 \* for a proof worker that ended well what its report says
  disk,          \* receipt.json
  watch, known,  \* the client: the job it follows, the status and version it
                 \* knows, and in which life of the host it read them
  failures,      \* writes that have failed
  unsaved        \* history: jobs whose last receipt could not be written

vars == <<host, stops, started, jobs, receipt, cancel, scope, task, verdict,
          child, disk, watch, known, failures, unsaved>>

TypeOK ==
  /\ host \in {"up", "down"} /\ stops \in 0..MaxStops /\ started \in 0..MaxStarts
  /\ jobs \in Seq(Ids) /\ Len(jobs) <= Limit
  /\ receipt \in [Ids -> [status : Statuses, version : Nat]]
  /\ disk \in [Ids -> [status : Statuses, version : Nat]]
  /\ watch \in Ids /\ known \in [status : Statuses, version : Nat, life : 0..MaxStops]
  /\ cancel \subseteq Ids /\ scope \in {"live", "ended"}
  /\ task \in [Ids -> {"none", "persist", "select", "finish"}]
  /\ verdict \in [Ids -> Terminal \cup {"none"}]
  /\ child \in [Ids -> {"none", "alive", "bad", "ok"} \cup Reports]
  /\ \A i \in Ids : child[i] \in {"none", "alive"} \cup Ends(i)
  /\ unsaved \subseteq Ids /\ failures \in 0..MaxFailures

Init ==
  /\ host = "up" /\ stops = 0 /\ started = 0 /\ jobs = <<>>
  /\ receipt = [i \in Ids |-> Nothing] /\ disk = [i \in Ids |-> Nothing]
  /\ watch \in Ids /\ known = [status |-> "none", version |-> 0, life |-> 0]
  /\ cancel = {} /\ scope = "live"
  /\ task = [i \in Ids |-> "none"] /\ verdict = [i \in Ids |-> "none"]
  /\ child = [i \in Ids |-> "none"]
  /\ failures = 0 /\ unsaved = {}

Running == {i \in ToSet(jobs) : receipt[i].status = "running"}

-----------------------------------------------------------------------------
(* operation.start, under the lock of the list.  A full list gives up its    *)
(* first job that does not run.                                              *)
Room ==
  IF Len(jobs) = Limit
  THEN RemoveAt(jobs, CHOOSE n \in 1..Limit :
                        /\ jobs[n] \notin Running
                        /\ \A m \in 1 .. n - 1 : jobs[m] \in Running)
  ELSE jobs

(* Mutant: the first job goes, running or not.                               *)
StartEvictsFirst ==
  LET i == started + 1 IN
  /\ host = "up" /\ i \in Ids /\ Cardinality(Running) < 2
  /\ i \in Owned => scope = "live"
  /\ started' = i
  /\ jobs' = Append(IF Len(jobs) = Limit THEN Tail(jobs) ELSE jobs, i)
  /\ receipt' = [receipt EXCEPT ![i] = [status |-> "running", version |-> 0]]
  /\ task' = [task EXCEPT ![i] = "persist"] /\ child' = [child EXCEPT ![i] = "alive"]
  /\ UNCHANGED <<host, stops, cancel, scope, verdict, disk, watch, known, failures, unsaved>>

Start ==
  LET i == started + 1 IN
  /\ host = "up" /\ i \in Ids /\ Cardinality(Running) < 2
  /\ i \in Owned => scope = "live"              \* owner.admit
  /\ started' = i
  /\ jobs' = Append(Room, i)
  /\ receipt' = [receipt EXCEPT ![i] = [status |-> "running", version |-> 0]]
  /\ task' = [task EXCEPT ![i] = "persist"] /\ child' = [child EXCEPT ![i] = "alive"]
  /\ UNCHANGED <<host, stops, cancel, scope, verdict, disk, watch, known, failures, unsaved>>

(* A start that fails after it has made room: the directory, the source or   *)
(* the process could not be made.                                            *)
StartFails ==
  /\ host = "up" /\ Cardinality(Running) < 2 /\ Len(jobs) = Limit
  /\ jobs' = Room
  /\ UNCHANGED <<host, stops, started, receipt, cancel, scope, task, verdict, child,
                 disk, watch, known, failures, unsaved>>

(* The first act of the task; a failure is ignored.                          *)
PersistStart(i) ==
  /\ task[i] = "persist"
  /\ \/ disk' = [disk EXCEPT ![i] = receipt[i]] /\ UNCHANGED failures
     \/ /\ failures < MaxFailures /\ failures' = failures + 1
        /\ UNCHANGED disk
  /\ task' = [task EXCEPT ![i] = "select"]
  /\ UNCHANGED <<host, stops, started, jobs, receipt, cancel, scope, verdict, child,
                 watch, known, unsaved>>

(* capture(): a piece of output of the job that the client follows, for a    *)
(* proof one of stderr; that of the others makes no difference.              *)
Capture(i) ==
  /\ task[i] = "select" /\ child[i] = "alive" /\ i = watch
  /\ receipt[i].version < MaxOutputs
  /\ receipt' = [receipt EXCEPT ![i].version = @ + 1]
  /\ UNCHANGED <<host, stops, started, jobs, cancel, scope, task, verdict, child,
                 disk, watch, known, failures, unsaved>>

(* The process has ended by itself and execute() has read its output to the  *)
(* end; that of a proof worker is published then.                            *)
ChildEnds(i) ==
  /\ task[i] = "select" /\ child[i] = "alive"
  /\ \E c \in Ends(i) : child' = [child EXCEPT ![i] = c]
  /\ receipt' = [receipt EXCEPT ![i].version = IF i \in Proofs THEN @ + 1 ELSE @]
  /\ UNCHANGED <<host, stops, started, jobs, cancel, scope, task, verdict,
                 disk, watch, known, failures, unsaved>>

(* operation.cancel finds the job in the list and writes to its channel; a   *)
(* task that has chosen no longer reads it.                                  *)
Cancel(i) ==
  /\ host = "up" /\ i \in ToSet(jobs) \ cancel /\ task[i] \in {"persist", "select"}
  /\ cancel' = cancel \cup {i}
  /\ UNCHANGED <<host, stops, started, jobs, receipt, scope, task, verdict, child,
                 disk, watch, known, failures, unsaved>>

(* Scope::end                                                                *)
ScopeEnds ==
  /\ host = "up" /\ scope = "live" /\ Owned # {}
  /\ scope' = "ended"
  /\ UNCHANGED <<host, stops, started, jobs, receipt, cancel, task, verdict, child,
                 disk, watch, known, failures, unsaved>>

(* A proof worker that ends badly used up its CPU time, or was terminated.   *)
ProcessStatus(i) ==
  IF child[i] # "bad" THEN "succeeded"
  ELSE IF i \in Proofs THEN "inconclusive" ELSE "failed"

(* The biased select of execute().  The channel of a job that has left the   *)
(* list is closed, which counts as a change.                                 *)
Chosen(i) ==
  IF (i \in Owned /\ scope = "ended") \/ i \in cancel \/ i \notin ToSet(jobs)
  THEN "cancelled"
  ELSE IF child[i] # "alive" THEN ProcessStatus(i)
  ELSE "inconclusive"                            \* a budget, or an I/O error

(* Mutant: the result is shown before the process has been killed.           *)
SelectShows(i) ==
  /\ task[i] = "select"
  /\ verdict' = [verdict EXCEPT ![i] = Chosen(i)]
  /\ receipt' = [receipt EXCEPT ![i].status = Chosen(i)]
  /\ task' = [task EXCEPT ![i] = "finish"]
  /\ UNCHANGED <<host, stops, started, jobs, cancel, scope, child,
                 disk, watch, known, failures, unsaved>>

Select(i) ==
  /\ task[i] = "select"
  /\ verdict' = [verdict EXCEPT ![i] = Chosen(i)]
  /\ task' = [task EXCEPT ![i] = "finish"]
  /\ UNCHANGED <<host, stops, started, jobs, receipt, cancel, scope, child,
                 disk, watch, known, failures, unsaved>>

(* A proof counts as what its report says.                                   *)
Validated(i) ==
  IF i \in Proofs /\ verdict[i] = "succeeded"
  THEN CASE child[i] = "Verified" -> "succeeded"
         [] child[i] = "Rejected" -> "failed"
         [] OTHER -> "inconclusive"
  ELSE verdict[i]

Ended(i, v) == [status |-> Validated(i), version |-> v]

(* Mutant: the last receipt stays in memory.                                 *)
FinishUnsaved(i) ==
  /\ task[i] = "finish"
  /\ receipt' = [receipt EXCEPT ![i] = Ended(i, @.version + 1)]
  /\ task' = [task EXCEPT ![i] = "none"] /\ verdict' = [verdict EXCEPT ![i] = "none"]
  /\ child' = [child EXCEPT ![i] = IF verdict[i] \in {"succeeded", "failed"} THEN @ ELSE "none"]
  /\ cancel' = cancel \ {i}
  /\ UNCHANGED <<host, stops, started, jobs, scope, disk, watch, known, failures, unsaved>>

(* Mutant: the end of the job is not a new version.                          *)
FinishSameVersion(i) ==
  /\ task[i] = "finish"
  /\ receipt' = [receipt EXCEPT ![i] = Ended(i, @.version)]
  /\ task' = [task EXCEPT ![i] = "none"] /\ verdict' = [verdict EXCEPT ![i] = "none"]
  /\ child' = [child EXCEPT ![i] = IF verdict[i] \in {"succeeded", "failed"} THEN @ ELSE "none"]
  /\ cancel' = cancel \ {i}
  /\ disk' = [disk EXCEPT ![i] = receipt'[i]]
  /\ UNCHANGED <<host, stops, started, jobs, scope, watch, known, failures, unsaved>>

(* The process group is killed and waited for; then the receipt is changed   *)
(* and written in one lock region.  A failed write is noted in stderr.  The  *)
(* exit code is kept when it decided the result.                             *)
Finish(i) ==
  /\ task[i] = "finish"
  /\ receipt' = [receipt EXCEPT ![i] = Ended(i, @.version + 1)]
  /\ task' = [task EXCEPT ![i] = "none"] /\ verdict' = [verdict EXCEPT ![i] = "none"]
  /\ child' = [child EXCEPT ![i] = IF verdict[i] \in {"succeeded", "failed"} THEN @ ELSE "none"]
  /\ cancel' = cancel \ {i}
  /\ \/ disk' = [disk EXCEPT ![i] = receipt'[i]] /\ UNCHANGED <<failures, unsaved>>
     \/ /\ failures < MaxFailures /\ failures' = failures + 1
        /\ unsaved' = unsaved \cup {i} /\ UNCHANGED disk
  /\ UNCHANGED <<host, stops, started, jobs, scope, watch, known>>

(* changes(known), and of its answer the job the client follows: what has    *)
(* another version than the one it knows is sent.                            *)
Changes ==
  /\ host = "up" /\ watch \in ToSet(jobs)
  /\ known.status = "none" \/ known.version # receipt[watch].version
  /\ known' = [status |-> receipt[watch].status, version |-> receipt[watch].version,
               life |-> stops]
  /\ UNCHANGED <<host, stops, started, jobs, receipt, cancel, scope, task, verdict,
                 child, disk, watch, failures, unsaved>>

-----------------------------------------------------------------------------
(* The host stops: what is not on disk is gone.  kill_on_drop ends the       *)
(* children; the orphans of a host that was killed are nobody's jobs.        *)
Stop ==
  /\ host = "up" /\ stops < MaxStops
  /\ host' = "down" /\ stops' = stops + 1
  /\ jobs' = <<>> /\ receipt' = [i \in Ids |-> Nothing]
  /\ cancel' = {} /\ scope' = "live"
  /\ task' = [i \in Ids |-> "none"] /\ verdict' = [i \in Ids |-> "none"]
  /\ child' = [i \in Ids |-> IF child[i] = "alive" THEN "none" ELSE child[i]]
  /\ UNCHANGED <<started, disk, watch, known, failures, unsaved>>

(* The newest receipts, in the order in which their jobs were started.       *)
Newest(recorded) ==
  UNION {{s \in [1 .. Cardinality(kept) -> kept] : \A k, m \in DOMAIN s : k < m => s[k] < s[m]} :
          kept \in {k \in SUBSET recorded :
                      /\ \A i \in k, j \in recorded \ k : j < i
                      /\ Cardinality(k) <= Keep
                      /\ k = recorded \/ Cardinality(k) = Keep}}

(* restore(): a job that was running has no result; a retained proof counts  *)
(* only if this build of the checker accepts its report.                     *)
Restore ==
  /\ host = "down" /\ host' = "up"
  /\ jobs' \in Newest({i \in Ids : disk[i].status # "none"})
  /\ \E rejected \in SUBSET {i \in Proofs : disk[i].status = "succeeded"} :
       receipt' = [i \in Ids |->
         IF i \notin ToSet(jobs') THEN Nothing
         ELSE IF disk[i].status = "running" \/ i \in rejected
         THEN [disk[i] EXCEPT !.status = "inconclusive"] ELSE disk[i]]
  /\ UNCHANGED <<stops, started, cancel, scope, task, verdict, child, disk,
                 watch, known, failures, unsaved>>

-----------------------------------------------------------------------------
Next ==
  \/ Start \/ StartFails \/ Changes \/ ScopeEnds \/ Stop \/ Restore
  \/ \E i \in Ids : \/ PersistStart(i) \/ Capture(i) \/ ChildEnds(i) \/ Cancel(i)
                    \/ Select(i) \/ Finish(i)

Spec == Init /\ [][Next]_vars

-----------------------------------------------------------------------------
(* A result the client has read survives the stops of the host: whenever     *)
(* the job is listed again it has that result, unless the last write of its  *)
(* receipt failed.  Only a retained proof may change, and only between       *)
(* succeeded and inconclusive, as the builds of the checker accept the       *)
(* report on disk or not.                                                    *)
ResultSurvives ==
  (watch \in ToSet(jobs) /\ known.status \in Terminal /\ watch \notin unsaved) =>
    \/ receipt[watch].status = known.status
    \/ /\ watch \in Proofs /\ disk[watch].status = "succeeded"
       /\ {receipt[watch].status, known.status} = {"succeeded", "inconclusive"}

(* A receipt says what happened: success and failure of a run are those of   *)
(* its process, those of a proof are its report's ("A terminated checker has *)
(* not rejected a theorem", jobs.rs:430), and a job is cancelled only when   *)
(* somebody cancelled it, never because its entry left the list.             *)
VerdictHonest ==
  \A i \in Ids : LET s == receipt[i].status IN
    /\ s = "succeeded" => child[i] = IF i \in Proofs THEN "Verified" ELSE "ok"
    /\ s = "failed" => child[i] = IF i \in Proofs THEN "Rejected" ELSE "bad"
    /\ verdict[i] = "cancelled" => i \in cancel \/ (i \in Owned /\ scope = "ended")

(* No more than two children run, counting those whose job has left the list *)
(* or whose result is decided and not yet written.                           *)
TwoChildren == Cardinality({i \in Ids : task[i] # "none"}) <= 2

(* A client that asks with the version it knows is told of every change of   *)
(* the status, a result lost by a failed write and a stop of the host        *)
(* included, but for the two that restore() makes under the same version:    *)
(* what was running has become inconclusive, and a retained proof is read    *)
(* by another build of the checker (jobs.rs:88, :103).                       *)
ChangesTold ==
  (watch \in ToSet(jobs) /\ known.status # "none"
     /\ known.version = receipt[watch].version) =>
    \/ receipt[watch].status = known.status
    \/ /\ known.life < stops
       /\ known.status = "running" /\ receipt[watch].status = "inconclusive"
    \/ /\ known.life < stops /\ watch \in Proofs /\ disk[watch].status = "succeeded"
       /\ {receipt[watch].status, known.status} = {"succeeded", "inconclusive"}
=============================================================================
