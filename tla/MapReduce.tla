----------------------------- MODULE MapReduce ------------------------------
(***************************************************************************)
(* The coordinator (mr/coordinator.go) and the workers (mr/worker.go) of a *)
(* MapReduce job, the files they share, and workers that crash.            *)
(*                                                                         *)
(* An RPC handler holds c.mu from its first to its last statement, and a   *)
(* worker does nothing else while it waits for the reply, so a call and    *)
(* its reply are one action.  A worker writes and reads its files one at a *)
(* time, so those are actions of their own.                                *)
(*                                                                         *)
(* A key-value pair is named by where it comes from: <<m, n>> is the n-th  *)
(* pair that mapf emits for the m-th input file.  The order of the pairs   *)
(* in a file, which reducef gets its values in, is left out.               *)
(*                                                                         *)
(* A Slip_ operator is the definition after it with a likely mistake; it   *)
(* only serves to confirm that a property would notice it.                 *)
(***************************************************************************)
EXTENDS Integers, Sequences, FiniteSets, Functions

CONSTANTS
    Worker,        \* worker processes
    NMap,          \* number of input files, len(c.mapTasks)
    NReduce,       \* c.nReduce
    Key,           \* the keys mapf may emit
    Hash,          \* ihash
    Emits,         \* for each input file, the keys of the pairs mapf emits
    MaxCrashes     \* bound: workers that crash

MapTasks    == 0 .. NMap - 1
ReduceTasks == 0 .. NReduce - 1

ASSUME JobAssumption ==
    /\ NMap \in Nat \ {0}         \* mrcoordinator.go exits without input files
    /\ NReduce \in Nat \ {0}
    /\ Hash \in [Key -> Nat]
    /\ Emits \in [MapTasks -> Seq(Key)]
    /\ MaxCrashes \in Nat

VARIABLES
    mapStatus,     \* Status of mapTasks
    reduceStatus,  \* Status of reduceTasks
    reduceFiles,   \* AllFilenames of reduceTasks
    exited,        \* whether the coordinator process has ended
    pc,            \* where each worker is
    task,          \* the reply to the RequestTask of each worker
    done,          \* files of the task the worker has written or read
    kvMap,         \* pairs read by the worker's reduce task, from each file
    files,         \* intermediate files on disk
    output,        \* the mr-out-X files on disk
    crashes        \* crashes so far

coordVars  == <<mapStatus, reduceStatus, reduceFiles, exited>>
workerVars == <<pc, task, done, kvMap>>
diskVars   == <<files, output>>
vars == <<coordVars, workerVars, diskVars, crashes>>

Unassigned == "Unassigned"
InProgress == "InProgress"
Completed  == "Completed"
Status == {Unassigned, InProgress, Completed}

\* The intermediate file mr-m-r.json, and the index the coordinator parses
\* from its name.
Filename(m, r) == [map |-> m, reduce |-> r]
extractReduceTaskIndex(f) == f.reduce
Filenames == [map : MapTasks, reduce : ReduceTasks]

Idle == [type |-> "none", index |-> 0, files |-> <<>>]
Task == [type : {"none", "map", "reduce"}, index : Nat, files : Seq(Filenames)]

\* A file that does not exist is <<>>, one that holds s is <<s>>.
Pairs == SUBSET (MapTasks \X Nat)
Absent == <<>>

Init ==
    /\ mapStatus = [m \in MapTasks |-> Unassigned]
    /\ reduceStatus = [r \in ReduceTasks |-> Unassigned]
    /\ reduceFiles = [r \in ReduceTasks |-> <<>>]
    /\ exited = FALSE
    /\ pc = [w \in Worker |-> "ask"]
    /\ task = [w \in Worker |-> Idle]
    /\ done = [w \in Worker |-> 0]
    /\ kvMap = [w \in Worker |-> <<>>]
    /\ files = [f \in Filenames |-> Absent]
    /\ output = [r \in ReduceTasks |-> Absent]
    /\ crashes = 0

-----------------------------------------------------------------------------
(* Coordinator *)

Slip_allMapTasksDone == \A m \in MapTasks : mapStatus[m] # Unassigned
allMapTasksDone == \A m \in MapTasks : mapStatus[m] = Completed
allReduceTasksDone == \A r \in ReduceTasks : reduceStatus[r] = Completed

\* The first task of a table that can be handed out.  An unassigned task has
\* the zero StartTime, which is older than any timeout.  The slip: a task in
\* progress is given to another worker too, without ReportTaskDone being made
\* ready for a second report.
Slip_FirstUnassigned(status, i) == status[i] # Completed
FirstUnassigned(status, i) ==
    /\ status[i] = Unassigned
    /\ \A j \in DOMAIN status : j < i => status[j] # Unassigned

\* What the worker does with the reply.
Receive(w, type, i, names, next) ==
    /\ task' = [task EXCEPT ![w] = [type |-> type, index |-> i, files |-> names]]
    /\ done' = [done EXCEPT ![w] = 0]
    /\ kvMap' = [kvMap EXCEPT ![w] = <<>>]
    /\ pc' = [pc EXCEPT ![w] = next]

RequestMapTask(w) ==
    /\ ~allMapTasksDone
    /\ \E i \in MapTasks :
        /\ FirstUnassigned(mapStatus, i)
        /\ mapStatus' = [mapStatus EXCEPT ![i] = InProgress]
        /\ Receive(w, "map", i, <<>>, "map")
    /\ UNCHANGED <<reduceStatus, reduceFiles, exited, diskVars, crashes>>

\* A worker that gets a reduce task without files just asks again.
RequestReduceTask(w) ==
    /\ allMapTasksDone
    /\ ~allReduceTasksDone
    /\ \E i \in ReduceTasks :
        /\ FirstUnassigned(reduceStatus, i)
        /\ reduceStatus' = [reduceStatus EXCEPT ![i] = InProgress]
        /\ Receive(w, "reduce", i, reduceFiles[i],
                   IF reduceFiles[i] = <<>> THEN "ask" ELSE "reduce")
    /\ UNCHANGED <<mapStatus, reduceFiles, exited, diskVars, crashes>>

\* Without a task to hand out the reply is AllDone: the SleepABit the handler
\* has stored by then is overwritten.  The worker returns.
RequestNothing(w) ==
    /\ IF allMapTasksDone
       THEN \A r \in ReduceTasks : reduceStatus[r] # Unassigned
       ELSE \A m \in MapTasks : mapStatus[m] # Unassigned
    /\ Receive(w, "none", 0, <<>>, "returned")
    /\ UNCHANGED <<coordVars, diskVars, crashes>>

RequestTask(w) ==
    /\ pc[w] = "ask"
    /\ ~exited
    /\ RequestMapTask(w) \/ RequestReduceTask(w) \/ RequestNothing(w)

\* Dialing a coordinator that has exited ends the worker, whatever it calls for.
DialFails(w) ==
    /\ pc[w] \in {"ask", "report"}
    /\ exited
    /\ pc' = [pc EXCEPT ![w] = "returned"]
    /\ UNCHANGED <<coordVars, task, done, kvMap, diskVars, crashes>>

\* ReportTaskDone.  A worker reports all NReduce files of its map task; each
\* is appended to the reduce task its name says.
AllDone == allMapTasksDone /\ allReduceTasksDone

IntermediateFilenames(i) == {Filename(i, n) : n \in ReduceTasks}

ReportMapDone(i) ==
    /\ mapStatus' = [mapStatus EXCEPT ![i] = Completed]
    /\ reduceFiles' = [r \in ReduceTasks |->
            Append(reduceFiles[r], CHOOSE f \in IntermediateFilenames(i) :
                                        extractReduceTaskIndex(f) = r)]
    /\ UNCHANGED reduceStatus

Slip_ReportReduceDone(i) == UNCHANGED <<mapStatus, reduceStatus, reduceFiles>>
ReportReduceDone(i) ==
    /\ reduceStatus' = [reduceStatus EXCEPT ![i] = Completed]
    /\ UNCHANGED <<mapStatus, reduceFiles>>

ReportTaskDone(w) ==
    /\ pc[w] = "report"
    /\ ~exited
    /\ IF AllDone THEN UNCHANGED <<mapStatus, reduceStatus, reduceFiles>>
       ELSE IF task[w].type = "map" THEN ReportMapDone(task[w].index)
       ELSE ReportReduceDone(task[w].index)
    /\ pc' = [pc EXCEPT ![w] = IF AllDone THEN "returned" ELSE "ask"]
    /\ task' = [task EXCEPT ![w] = Idle]
    /\ UNCHANGED <<exited, done, kvMap, diskVars, crashes>>

\* mrcoordinator.go polls Done() and exits when it answers true.
Done ==
    /\ ~exited
    /\ AllDone
    /\ exited' = TRUE
    /\ UNCHANGED <<mapStatus, reduceStatus, reduceFiles, workerVars, diskVars, crashes>>

-----------------------------------------------------------------------------
(* Worker *)

Bucket(k) == Hash[k] % NReduce

\* The pairs of input file m that belong to reduce task r.
Slip_Partition(m, r) ==
    {p \in {m} \X DOMAIN Emits[m] : Hash[Emits[m][p[2]]] % (NReduce + 1) = r}
Partition(m, r) ==
    {p \in {m} \X DOMAIN Emits[m] : Bucket(Emits[m][p[2]]) = r}

\* doMap, one round of its loop over the reduce tasks.
Slip_LastBucket(w) == done[w] = NReduce
LastBucket(w) == done[w] + 1 = NReduce

doMap(w) ==
    /\ pc[w] = "map"
    /\ LET f == Filename(task[w].index, done[w]) IN
       files' = [files EXCEPT ![f] = <<Partition(f.map, f.reduce)>>]
    /\ done' = [done EXCEPT ![w] = @ + 1]
    /\ pc' = [pc EXCEPT ![w] = IF LastBucket(w) THEN "report" ELSE "map"]
    /\ UNCHANGED <<coordVars, task, kvMap, output, crashes>>

\* doReduce, one round of its loop over the files.  A worker that cannot open
\* a file ends there (log.Fatalf).
doReduceRead(w) ==
    /\ pc[w] = "reduce"
    /\ done[w] < Len(task[w].files)
    /\ LET f == task[w].files[done[w] + 1] IN
       IF files[f] = Absent
       THEN /\ pc' = [pc EXCEPT ![w] = "crashed"]
            /\ UNCHANGED <<done, kvMap>>
       ELSE /\ kvMap' = [kvMap EXCEPT ![w] = Append(@, files[f][1])]
            /\ done' = [done EXCEPT ![w] = @ + 1]
            /\ UNCHANGED pc
    /\ UNCHANGED <<coordVars, task, diskVars, crashes>>

\* The rest of doReduce: mr-out-X holds what reducef makes of the pairs.
doReduceWrite(w) ==
    /\ pc[w] = "reduce"
    /\ done[w] = Len(task[w].files)
    /\ output' = [output EXCEPT ![task[w].index] = <<kvMap[w]>>]
    /\ pc' = [pc EXCEPT ![w] = "report"]
    /\ UNCHANGED <<coordVars, task, done, kvMap, files, crashes>>

\* A worker process dies, as mrapps/crash.go makes it; what it wrote remains.
Crash(w) ==
    /\ crashes < MaxCrashes
    /\ pc[w] \notin {"returned", "crashed"}
    /\ crashes' = crashes + 1
    /\ pc' = [pc EXCEPT ![w] = "crashed"]
    /\ task' = [task EXCEPT ![w] = Idle]
    /\ UNCHANGED <<coordVars, done, kvMap, diskVars>>

\* test-mr.sh starts workers again while the coordinator runs.
StartWorker(w) ==
    /\ pc[w] \in {"returned", "crashed"}
    /\ ~exited
    /\ pc' = [pc EXCEPT ![w] = "ask"]
    /\ UNCHANGED <<coordVars, task, done, kvMap, diskVars, crashes>>

-----------------------------------------------------------------------------
WorkerStep(w) ==
    \/ RequestTask(w) \/ DialFails(w) \/ ReportTaskDone(w)
    \/ doMap(w) \/ doReduceRead(w) \/ doReduceWrite(w)

Next ==
    \/ Done
    \/ \E w \in Worker : WorkerStep(w) \/ Crash(w) \/ StartWorker(w)

Spec == Init /\ [][Next]_vars

\* The coordinator polls for ever and a worker that lives keeps running.
\* Nobody has to start workers again.
FairSpec == Spec /\ WF_vars(Done) /\ \A w \in Worker : WF_vars(WorkerStep(w))

\* As in the crash test of test-mr.sh: workers are also started again.
RestartSpec == FairSpec /\ \A w \in Worker : WF_vars(StartWorker(w))

-----------------------------------------------------------------------------
(* Properties *)

\* The types of the variables; the loop of doMap stays within the reduce tasks.
TypeOK ==
    /\ mapStatus \in [MapTasks -> Status]
    /\ reduceStatus \in [ReduceTasks -> Status]
    /\ reduceFiles \in [ReduceTasks -> Seq(Filenames)]
    /\ exited \in BOOLEAN
    /\ pc \in [Worker -> {"ask", "map", "reduce", "report", "returned", "crashed"}]
    /\ task \in [Worker -> Task]
    /\ done \in [Worker -> Nat]
    /\ \A w \in Worker : pc[w] = "map" => done[w] \in ReduceTasks
    /\ kvMap \in [Worker -> Seq(Pairs)]
    /\ \A f \in Filenames : files[f] = Absent \/ files[f][1] \in Pairs
    /\ \A r \in ReduceTasks : output[r] = Absent \/ output[r][1] \in Seq(Pairs)
    /\ crashes \in 0 .. MaxCrashes

\* mrsequential.go: every pair mapf emits, with the pairs of equal keys together.
Pair == UNION {{m} \X DOMAIN Emits[m] : m \in MapTasks}
KeyOf(p) == Emits[p[1]][p[2]]

\* The pairs that went into mr-out-r.
Reduced(r) == UNION Range(output[r][1])

\* When Done() has answered true, the mr-out-X files hold what the sequential
\* program computes: every pair went into exactly one call of reducef, together
\* with all the pairs of its key (test-mr.sh compares the two outputs).
OutputCorrect ==
    exited =>
        /\ \A r \in ReduceTasks : output[r] # Absent /\ Reduced(r) \subseteq Pair
        /\ \A p \in Pair : \E r \in ReduceTasks : \E n \in DOMAIN output[r][1] :
            \A s \in ReduceTasks : \A k \in DOMAIN output[s][1] :
                p \in output[s][1][k] <=> s = r /\ k = n
        /\ \A r, s \in ReduceTasks : r # s =>
            {KeyOf(p) : p \in Reduced(r)} \cap {KeyOf(p) : p \in Reduced(s)} = {}

\* The coordinator has listed one file of every completed map task for each reduce
\* task, and none twice.  ReportTaskDone appends without asking whether the task was
\* reported before (coordinator.go:139), so that this rests on how RequestTask hands
\* tasks out; a task done by two workers must not be listed, and reduced, twice.
FilesListedOnce ==
    \A r \in ReduceTasks :
        /\ IsInjective(reduceFiles[r])
        /\ {f.map : f \in Range(reduceFiles[r])} = {m \in MapTasks : mapStatus[m] = Completed}

\* A reduce task never reads a file that is missing or is still being written:
\* all map tasks are over when the first reduce task is handed out.
NoReadBeforeWrite ==
    \A w \in Worker : pc[w] = "reduce" =>
        /\ {f.map : f \in Range(task[w].files)} = MapTasks
        /\ \A f \in Range(task[w].files) :
            /\ files[f] = <<Partition(f.map, f.reduce)>>
            /\ \A v \in Worker : pc[v] = "map" => task[v].index # f.map

\* The job ends unless a worker crashes, although RequestTask sends a worker home
\* when all the tasks of a phase are in progress and nobody has to start another:
\* whoever holds a task asks again after it has reported it.
JobFinishes == <>(exited \/ crashes > 0)

\* The job ends also if workers crash: another worker gets the
\* task after a while (mr/README.md:36, :192).
CrashesTolerated == <>exited

=============================================================================
