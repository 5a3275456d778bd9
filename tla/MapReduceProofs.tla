--------------------------- MODULE MapReduceProofs ---------------------------
(***************************************************************************)
(* Proofs about MapReduce, for every number of workers, tasks and crashes, *)
(* every hash function and every output of mapf.                           *)
(***************************************************************************)
EXTENDS MapReduce, TLAPS

Types ==
    /\ TypeOK
    /\ files \in [Filenames -> Seq(Pairs)]
    /\ output \in [ReduceTasks -> Seq(Seq(Pairs))]

\* Who holds a task holds one in progress: the coordinator neither takes it back
\* nor completes it but on the holder's report.
Holding(w) ==
    /\ task[w].type = "map" => /\ task[w].index \in MapTasks
                               /\ mapStatus[task[w].index] = InProgress
    /\ task[w].type = "reduce" => /\ task[w].index \in ReduceTasks
                                  /\ reduceStatus[task[w].index] = InProgress
                                  /\ task[w].files = reduceFiles[task[w].index]
    /\ pc[w] = "map" => task[w].type = "map"
    /\ pc[w] = "reduce" => task[w].type = "reduce"
    /\ pc[w] = "report" => task[w].type # "none"

\* In this code a task is in the hands of one worker, since it is never handed out
\* again, not even after the ten seconds of mr/README.md.
OneWorkerPerTask ==
    \A v, w \in Worker :
        (v # w /\ task[v].type # "none") =>
            <<task[v].type, task[v].index>> # <<task[w].type, task[w].index>>

\* A mapper has written the files up to the one it is at.
RightFile(m, r) == files[Filename(m, r)] = <<Partition(m, r)>>
Mapped(w) ==
    \A r \in ReduceTasks :
        /\ pc[w] = "map" /\ r < done[w] => RightFile(task[w].index, r)
        /\ pc[w] = "report" /\ task[w].type = "map" => RightFile(task[w].index, r)

\* A reducer has read the pairs of its task in the files up to the one it is at,
\* and the output it reports is made of all of them.
OutputRight(r) ==
    /\ output[r] # Absent
    /\ Len(output[r][1]) = Len(reduceFiles[r])
    /\ \A n \in 1 .. Len(reduceFiles[r]) :
        output[r][1][n] = Partition(reduceFiles[r][n].map, r)
HasRead(w) ==
    /\ pc[w] = "reduce" =>
        /\ done[w] = Len(kvMap[w])
        /\ done[w] <= Len(task[w].files)
        /\ \A n \in 1 .. done[w] :
            kvMap[w][n] = Partition(task[w].files[n].map, task[w].index)
    /\ pc[w] = "report" /\ task[w].type = "reduce" => OutputRight(task[w].index)

Workers == \A w \in Worker : Holding(w) /\ Mapped(w) /\ HasRead(w)

\* The reduce phase starts after the map phase, and the job ends after both.
Phases ==
    /\ (\E r \in ReduceTasks : reduceStatus[r] # Unassigned) => allMapTasksDone
    /\ exited => AllDone

\* A reduce task has been given one file of each completed map task.
NamesRight ==
    \A r \in ReduceTasks :
        /\ \A i \in DOMAIN reduceFiles[r] :
            /\ reduceFiles[r][i].reduce = r
            /\ mapStatus[reduceFiles[r][i].map] = Completed
        /\ \A i, j \in DOMAIN reduceFiles[r] :
            reduceFiles[r][i].map = reduceFiles[r][j].map => i = j
        /\ \A m \in MapTasks : mapStatus[m] = Completed =>
            \E i \in DOMAIN reduceFiles[r] : reduceFiles[r][i].map = m

\* What completed tasks have left on disk.
DiskRight ==
    /\ \A m \in MapTasks, r \in ReduceTasks : mapStatus[m] = Completed => RightFile(m, r)
    /\ \A r \in ReduceTasks : reduceStatus[r] = Completed => OutputRight(r)

Inv == Types /\ OneWorkerPerTask /\ Workers /\ Phases /\ NamesRight /\ DiskRight

-----------------------------------------------------------------------------
\* The three values of Status are different.
USE DEF Unassigned, InProgress, Completed

\* The tasks are numbered from 0, as in the code.
LEMMA TaskNumbers ==
    /\ MapTasks \subseteq Nat /\ ReduceTasks \subseteq Nat
    /\ 0 \in ReduceTasks /\ 0 \in MapTasks
    /\ NReduce \in Nat /\ \A r \in ReduceTasks : r < NReduce
<1>. QED
  BY JobAssumption DEF MapTasks, ReduceTasks

\* What the files and the names that are handed around can be.
LEMMA ElementTypes ==
    ASSUME Types
    PROVE  /\ \A r \in ReduceTasks : \A i \in DOMAIN reduceFiles[r] :
                reduceFiles[r][i] \in Filenames /\ reduceFiles[r][i].map \in MapTasks
           /\ \A w \in Worker : task[w].type \in {"none", "map", "reduce"} /\ task[w].index \in Nat
           /\ \A w \in Worker : task[w].files \in Seq(Filenames)
           /\ \A w \in Worker : \A i \in DOMAIN task[w].files : task[w].files[i] \in Filenames
<1>1. \A f \in Filenames : f.map \in MapTasks
  BY DEF Filenames
<1>2. \A r \in ReduceTasks : \A i \in DOMAIN reduceFiles[r] : reduceFiles[r][i] \in Filenames
  BY DEF Types, TypeOK
<1>3. \A w \in Worker : task[w] \in Task
  <2>. HIDE DEF Task
  <2>. QED BY DEF Types, TypeOK
<1>4. \A t \in Task : t.type \in {"none", "map", "reduce"} /\ t.index \in Nat /\ t.files \in Seq(Filenames)
  BY DEF Task
<1>5. \A q \in Seq(Filenames) : \A i \in DOMAIN q : q[i] \in Filenames
  OBVIOUS
<1>. QED
  BY <1>1, <1>2, <1>3, <1>4, <1>5

\* What mapTask writes to a file is a set of pairs.
LEMMA PartitionType ==
    ASSUME NEW m \in MapTasks, NEW r
    PROVE  Partition(m, r) \in Pairs
<1>1. Emits[m] \in Seq(Key)
  BY JobAssumption
<1>2. DOMAIN Emits[m] \subseteq Nat
  BY <1>1
<1>. QED
  BY <1>2 DEF Partition, Pairs

\* The names a map task reports are names of intermediate files.
LEMMA FilenameType ==
    ASSUME NEW m \in MapTasks, NEW r \in ReduceTasks
    PROVE  Filename(m, r) \in Filenames
<1>. QED
  BY DEF Filename, Filenames

\* Initially no task is handed out and nothing is on disk.
LEMMA InitInv == Init => Inv
<1>. SUFFICES ASSUME Init PROVE Inv
  OBVIOUS
<1>. USE DEF Init
<1>1. Idle \in Task
  BY DEF Idle, Task
<1>2. /\ mapStatus \in [MapTasks -> Status] /\ reduceStatus \in [ReduceTasks -> Status]
      /\ pc \in [Worker -> {"ask", "map", "reduce", "report", "returned", "crashed"}]
      /\ \A w \in Worker : pc[w] = "map" => done[w] \in ReduceTasks
  BY DEF Status
<1>3. /\ reduceFiles \in [ReduceTasks -> Seq(Filenames)]
      /\ kvMap \in [Worker -> Seq(Pairs)]
      /\ files \in [Filenames -> Seq(Pairs)]
      /\ output \in [ReduceTasks -> Seq(Seq(Pairs))]
      /\ \A f \in Filenames : files[f] = Absent
      /\ \A r \in ReduceTasks : output[r] = Absent
  BY DEF Absent
<1>4. task \in [Worker -> Task] /\ done \in [Worker -> Nat]
  <2>1. done \in [Worker -> Nat]
    OBVIOUS
  <2>. HIDE DEF Task, Idle
  <2>2. task \in [Worker -> Task]
    BY <1>1
  <2>. QED
    BY <2>1, <2>2
<1>5. exited \in BOOLEAN /\ crashes \in 0 .. MaxCrashes
  <2>1. exited \in BOOLEAN
    OBVIOUS
  <2>2. crashes \in 0 .. MaxCrashes
    BY JobAssumption
  <2>. QED
    BY <2>1, <2>2
<1>6. Types
  <2>. HIDE DEF Init
  <2>. QED
    BY <1>2, <1>3, <1>4, <1>5 DEF Types, TypeOK
<1>7. OneWorkerPerTask /\ Workers
  BY DEF OneWorkerPerTask, Workers, Holding, Mapped, HasRead, Idle
<1>8. Phases /\ NamesRight /\ DiskRight
  BY DEF Phases, NamesRight, DiskRight
<1>. QED
  BY <1>6, <1>7, <1>8 DEF Inv

\* What is known of a worker lasts while others move, if they leave its task and
\* the files of that task alone.
LEMMA Bystander ==
    ASSUME Inv, NEW v \in Worker,
           task'[v] = task[v], pc'[v] = pc[v], done'[v] = done[v], kvMap'[v] = kvMap[v],
           task[v].type = "map" =>
                /\ mapStatus'[task[v].index] = mapStatus[task[v].index]
                /\ \A r \in ReduceTasks :
                    files'[Filename(task[v].index, r)] = files[Filename(task[v].index, r)],
           task[v].type = "reduce" =>
                /\ reduceStatus'[task[v].index] = reduceStatus[task[v].index]
                /\ reduceFiles'[task[v].index] = reduceFiles[task[v].index]
                /\ output'[task[v].index] = output[task[v].index]
    PROVE  (Holding(v) /\ Mapped(v) /\ HasRead(v))'
<1>1. Holding(v) /\ Mapped(v) /\ HasRead(v)
  BY DEF Inv, Workers
<1>2. Holding(v)'
  BY <1>1 DEF Holding
<1>3. Mapped(v)'
  BY <1>1 DEF Holding, Mapped, RightFile
<1>4. HasRead(v)'
  BY <1>1 DEF Holding, HasRead, OutputRight
<1>. QED
  BY <1>2, <1>3, <1>4

\* A worker that gets a task which no other holds, or gives up its own, leaves
\* every task with at most one worker.
LEMMA NewHolder ==
    ASSUME OneWorkerPerTask, NEW w \in Worker,
           \A v \in Worker : v # w => task'[v] = task[v],
           \/ task'[w].type = "none"
           \/ \A v \in Worker : v # w =>
                task[v].type # task'[w].type \/ task[v].index # task'[w].index
    PROVE  OneWorkerPerTask'
<1>. SUFFICES ASSUME NEW u \in Worker, NEW v \in Worker, u # v, task'[u].type # "none",
                     task'[u].type = task'[v].type, task'[u].index = task'[v].index
              PROVE  FALSE
  BY DEF OneWorkerPerTask
<1>1. CASE u # w /\ v # w
  BY <1>1 DEF OneWorkerPerTask
<1>2. CASE u = w \/ v = w
  BY <1>2
<1>. QED
  BY <1>1, <1>2

-----------------------------------------------------------------------------
(* RequestTask *)

\* The reply changes only the worker that receives it.
LEMMA ReceiveEffect ==
    ASSUME Types, NEW w \in Worker, NEW type \in {"none", "map", "reduce"}, NEW i \in Nat,
           NEW names \in Seq(Filenames), NEW next \in {"ask", "map", "reduce", "returned"},
           Receive(w, type, i, names, next)
    PROVE  /\ task' \in [Worker -> Task] /\ done' \in [Worker -> Nat]
           /\ kvMap' \in [Worker -> Seq(Pairs)]
           /\ pc' \in [Worker -> {"ask", "map", "reduce", "report", "returned", "crashed"}]
           /\ task'[w].type = type /\ task'[w].index = i /\ task'[w].files = names
           /\ done'[w] = 0 /\ kvMap'[w] = <<>> /\ pc'[w] = next
           /\ \A v \in Worker : v # w =>
                task'[v] = task[v] /\ done'[v] = done[v] /\ kvMap'[v] = kvMap[v] /\ pc'[v] = pc[v]
<1>. USE DEF Receive, Types, TypeOK
<1>. DEFINE t == [type |-> type, index |-> i, files |-> names]
<1>1. t \in Task /\ t.type = type /\ t.index = i /\ t.files = names
  BY DEF Task
<1>2. task' \in [Worker -> Task] /\ task'[w] = t /\ \A v \in Worker : v # w => task'[v] = task[v]
  <2>. HIDE DEF Task, t
  <2>1. task' = [task EXCEPT ![w] = t]
    BY DEF t
  <2>. QED
    BY <1>1, <2>1
<1>3. /\ done' \in [Worker -> Nat] /\ done'[w] = 0
      /\ kvMap' \in [Worker -> Seq(Pairs)] /\ kvMap'[w] = <<>>
      /\ pc' \in [Worker -> {"ask", "map", "reduce", "report", "returned", "crashed"}] /\ pc'[w] = next
      /\ \A v \in Worker : v # w => done'[v] = done[v] /\ kvMap'[v] = kvMap[v] /\ pc'[v] = pc[v]
  <2>. HIDE DEF Task
  <2>1. done' \in [Worker -> Nat] /\ done'[w] = 0 /\ \A v \in Worker : v # w => done'[v] = done[v]
    OBVIOUS
  <2>2. kvMap' \in [Worker -> Seq(Pairs)] /\ kvMap'[w] = <<>> /\ \A v \in Worker : v # w => kvMap'[v] = kvMap[v]
    OBVIOUS
  <2>. QED
    BY <2>1, <2>2
<1>. HIDE DEF t
<1>. QED
  BY <1>1, <1>2, <1>3

\* The coordinator hands out a map task that nobody holds.
LEMMA RequestMapTaskInv ==
    ASSUME Inv, NEW w \in Worker, ~exited, RequestMapTask(w)
    PROVE  Inv'
<1>1. Types /\ TypeOK
  BY DEF Inv, Types
<1>2. PICK i \in MapTasks :
            /\ FirstUnassigned(mapStatus, i)
            /\ mapStatus' = [mapStatus EXCEPT ![i] = InProgress]
            /\ Receive(w, "map", i, <<>>, "map")
  BY DEF RequestMapTask
<1>3. ~allMapTasksDone /\ UNCHANGED <<reduceStatus, reduceFiles, exited, files, output, crashes>>
  BY DEF RequestMapTask, diskVars
<1>4. mapStatus[i] = Unassigned
  BY <1>2 DEF FirstUnassigned
<1>5. /\ mapStatus' \in [MapTasks -> Status] /\ mapStatus'[i] = InProgress
      /\ \A m \in MapTasks : m # i => mapStatus'[m] = mapStatus[m]
  BY <1>1, <1>2 DEF TypeOK, Status
<1>6. /\ task' \in [Worker -> Task] /\ done' \in [Worker -> Nat]
      /\ kvMap' \in [Worker -> Seq(Pairs)]
      /\ pc' \in [Worker -> {"ask", "map", "reduce", "report", "returned", "crashed"}]
      /\ task'[w].type = "map" /\ task'[w].index = i
      /\ done'[w] = 0 /\ pc'[w] = "map"
      /\ \A v \in Worker : v # w =>
            task'[v] = task[v] /\ done'[v] = done[v] /\ kvMap'[v] = kvMap[v] /\ pc'[v] = pc[v]
  <2>1. i \in Nat /\ <<>> \in Seq(Filenames)
    BY TaskNumbers
  <2>. QED
    BY <1>1, <1>2, <2>1, ReceiveEffect
<1>7. Types'
  <2>1. \A v \in Worker : pc'[v] = "map" => done'[v] \in ReduceTasks
    BY <1>1, <1>6, TaskNumbers DEF TypeOK
  <2>. QED
    BY <1>1, <1>3, <1>5, <1>6, <2>1 DEF Types, TypeOK
<1>8. \A v \in Worker : task[v].type = "map" => task[v].index \in MapTasks /\ task[v].index # i
  BY <1>4 DEF Inv, Workers, Holding
<1>9. OneWorkerPerTask'
  <2>1. \A v \in Worker : v # w => task'[v] = task[v]
    BY <1>6
  <2>2. \A v \in Worker : v # w => task[v].type # task'[w].type \/ task[v].index # task'[w].index
    BY <1>6, <1>8
  <2>3. OneWorkerPerTask
    BY DEF Inv
  <2>. QED
    BY <2>1, <2>2, <2>3, NewHolder
<1>10. Workers'
  <2>. SUFFICES ASSUME NEW v \in Worker PROVE (Holding(v) /\ Mapped(v) /\ HasRead(v))'
    BY DEF Workers
  <2>1. CASE v = w
    <3>1. \A r \in ReduceTasks : ~(r < 0)
      BY TaskNumbers
    <3>. QED
      BY <2>1, <3>1, <1>5, <1>6 DEF Holding, Mapped, HasRead
  <2>2. CASE v # w
    <3>1. task'[v] = task[v] /\ done'[v] = done[v] /\ kvMap'[v] = kvMap[v] /\ pc'[v] = pc[v]
      BY <2>2, <1>6
    <3>2. task[v].type = "map" => mapStatus'[task[v].index] = mapStatus[task[v].index]
      BY <1>5, <1>8
    <3>. QED
      BY <3>1, <3>2, <1>3, Bystander
  <2>. QED
    BY <2>1, <2>2
<1>11. Phases'
  BY <1>3 DEF Inv, Phases
<1>12. \A m \in MapTasks : mapStatus'[m] = Completed <=> mapStatus[m] = Completed
  BY <1>4, <1>5
<1>13. NamesRight'
  BY <1>1, <1>3, <1>12, ElementTypes DEF Inv, NamesRight
<1>14. DiskRight'
  BY <1>3, <1>12 DEF Inv, DiskRight, RightFile, OutputRight
<1>. QED
  BY <1>7, <1>9, <1>10, <1>11, <1>13, <1>14 DEF Inv

\* The coordinator hands out a reduce task that nobody holds, with the files of
\* all map tasks.
LEMMA RequestReduceTaskInv ==
    ASSUME Inv, NEW w \in Worker, ~exited, RequestReduceTask(w)
    PROVE  Inv'
<1>1. Types /\ TypeOK
  BY DEF Inv, Types
<1>. DEFINE next(i) == IF reduceFiles[i] = <<>> THEN "ask" ELSE "reduce"
<1>2. PICK i \in ReduceTasks :
            /\ FirstUnassigned(reduceStatus, i)
            /\ reduceStatus' = [reduceStatus EXCEPT ![i] = InProgress]
            /\ Receive(w, "reduce", i, reduceFiles[i], next(i))
  BY DEF RequestReduceTask
<1>3. allMapTasksDone /\ UNCHANGED <<mapStatus, reduceFiles, exited, files, output, crashes>>
  BY DEF RequestReduceTask, diskVars
<1>4. reduceStatus[i] = Unassigned
  BY <1>2 DEF FirstUnassigned
<1>5. /\ reduceStatus' \in [ReduceTasks -> Status] /\ reduceStatus'[i] = InProgress
      /\ \A r \in ReduceTasks : r # i => reduceStatus'[r] = reduceStatus[r]
  BY <1>1, <1>2 DEF TypeOK, Status
<1>6. /\ task' \in [Worker -> Task] /\ done' \in [Worker -> Nat]
      /\ kvMap' \in [Worker -> Seq(Pairs)]
      /\ pc' \in [Worker -> {"ask", "map", "reduce", "report", "returned", "crashed"}]
      /\ task'[w].type = "reduce" /\ task'[w].index = i /\ task'[w].files = reduceFiles[i]
      /\ done'[w] = 0 /\ kvMap'[w] = <<>> /\ pc'[w] \in {"ask", "reduce"}
      /\ \A v \in Worker : v # w =>
            task'[v] = task[v] /\ done'[v] = done[v] /\ kvMap'[v] = kvMap[v] /\ pc'[v] = pc[v]
  <2>1. i \in Nat /\ reduceFiles[i] \in Seq(Filenames) /\ next(i) \in {"ask", "reduce"}
    BY <1>1, TaskNumbers DEF TypeOK
  <2>. HIDE DEF next
  <2>. QED
    BY <1>1, <1>2, <2>1, ReceiveEffect
<1>7. Types'
  <2>1. \A v \in Worker : pc'[v] = "map" => done'[v] \in ReduceTasks
    BY <1>1, <1>6 DEF TypeOK
  <2>. QED
    BY <1>1, <1>3, <1>5, <1>6, <2>1 DEF Types, TypeOK
<1>8. \A v \in Worker : task[v].type = "reduce" => task[v].index \in ReduceTasks /\ task[v].index # i
  BY <1>4 DEF Inv, Workers, Holding
<1>9. OneWorkerPerTask'
  <2>1. \A v \in Worker : v # w => task'[v] = task[v]
    BY <1>6
  <2>2. \A v \in Worker : v # w => task[v].type # task'[w].type \/ task[v].index # task'[w].index
    BY <1>6, <1>8
  <2>3. OneWorkerPerTask
    BY DEF Inv
  <2>. QED
    BY <2>1, <2>2, <2>3, NewHolder
<1>10. Workers'
  <2>. SUFFICES ASSUME NEW v \in Worker PROVE (Holding(v) /\ Mapped(v) /\ HasRead(v))'
    BY DEF Workers
  <2>1. CASE v = w
    <3>1. Len(kvMap'[w]) = 0 /\ 0 <= Len(task'[w].files) /\ 1 .. 0 = {}
      <4>1. reduceFiles[i] \in Seq(Filenames)
        BY <1>1 DEF TypeOK
      <4>. QED
        BY <4>1, <1>6
    <3>2. HasRead(v)'
      BY <2>1, <3>1, <1>6 DEF HasRead
    <3>3. Holding(v)' /\ Mapped(v)'
      BY <2>1, <1>3, <1>5, <1>6 DEF Holding, Mapped
    <3>. QED
      BY <3>2, <3>3
  <2>2. CASE v # w
    <3>1. task'[v] = task[v] /\ done'[v] = done[v] /\ kvMap'[v] = kvMap[v] /\ pc'[v] = pc[v]
      BY <2>2, <1>6
    <3>2. task[v].type = "reduce" => reduceStatus'[task[v].index] = reduceStatus[task[v].index]
      BY <1>5, <1>8
    <3>. QED
      BY <3>1, <3>2, <1>3, Bystander
  <2>. QED
    BY <2>1, <2>2
<1>11. Phases'
  BY <1>3 DEF Phases, allMapTasksDone
<1>12. NamesRight'
  BY <1>3 DEF Inv, NamesRight
<1>13. DiskRight'
  BY <1>3, <1>4, <1>5 DEF Inv, DiskRight, RightFile, OutputRight
<1>. QED
  BY <1>7, <1>9, <1>10, <1>11, <1>12, <1>13 DEF Inv

\* Without a task to hand out the worker ends up with none.
LEMMA RequestNothingInv ==
    ASSUME Inv, NEW w \in Worker, RequestNothing(w)
    PROVE  Inv'
<1>1. Types /\ TypeOK
  BY DEF Inv, Types
<1>2. /\ Receive(w, "none", 0, <<>>, "returned")
      /\ UNCHANGED <<mapStatus, reduceStatus, reduceFiles, exited, files, output, crashes>>
  BY DEF RequestNothing, coordVars, diskVars
<1>3. /\ task' \in [Worker -> Task] /\ done' \in [Worker -> Nat]
      /\ kvMap' \in [Worker -> Seq(Pairs)]
      /\ pc' \in [Worker -> {"ask", "map", "reduce", "report", "returned", "crashed"}]
      /\ task'[w].type = "none" /\ pc'[w] = "returned"
      /\ \A v \in Worker : v # w =>
            task'[v] = task[v] /\ done'[v] = done[v] /\ kvMap'[v] = kvMap[v] /\ pc'[v] = pc[v]
  <2>1. 0 \in Nat /\ <<>> \in Seq(Filenames)
    OBVIOUS
  <2>. QED
    BY <1>1, <1>2, <2>1, ReceiveEffect
<1>4. Types'
  <2>1. \A v \in Worker : pc'[v] = "map" => done'[v] \in ReduceTasks
    BY <1>1, <1>3 DEF TypeOK
  <2>. QED
    BY <1>1, <1>2, <1>3, <2>1 DEF Types, TypeOK
<1>5. OneWorkerPerTask'
  BY <1>3, NewHolder DEF Inv
<1>6. Workers'
  <2>. SUFFICES ASSUME NEW v \in Worker PROVE (Holding(v) /\ Mapped(v) /\ HasRead(v))'
    BY DEF Workers
  <2>1. CASE v = w
    BY <2>1, <1>3 DEF Holding, Mapped, HasRead
  <2>2. CASE v # w
    BY <2>2, <1>2, <1>3, Bystander
  <2>. QED
    BY <2>1, <2>2
<1>7. Phases' /\ NamesRight'
  BY <1>2 DEF Inv, Phases, NamesRight, allMapTasksDone, allReduceTasksDone, AllDone
<1>8. DiskRight'
  BY <1>2 DEF Inv, DiskRight, RightFile, OutputRight
<1>. QED
  BY <1>4, <1>5, <1>6, <1>7, <1>8 DEF Inv

-----------------------------------------------------------------------------
(* The worker's process *)

\* Workers that end, crash or start again, and the coordinator's end.
LEMMA ProcessInv ==
    ASSUME Inv, Done \/ \E w \in Worker : DialFails(w) \/ Crash(w) \/ StartWorker(w)
    PROVE  Inv'
<1>1. Types /\ TypeOK
  BY DEF Inv, Types
<1>2. UNCHANGED <<mapStatus, reduceStatus, reduceFiles, done, kvMap, files, output>>
  BY DEF Done, DialFails, Crash, StartWorker, coordVars, workerVars, diskVars
<1>3. NamesRight' /\ DiskRight'
  BY <1>2 DEF Inv, NamesRight, DiskRight, RightFile, OutputRight
<1>4. CASE Done
  <2>1. exited' = TRUE /\ AllDone /\ UNCHANGED <<pc, task, crashes>>
    BY <1>4 DEF Done, workerVars
  <2>2. Types'
    <3>1. exited' \in BOOLEAN
      BY <2>1
    <3>. QED
      BY <1>1, <1>2, <2>1, <3>1 DEF Types, TypeOK
  <2>3. OneWorkerPerTask'
    BY <2>1 DEF Inv, OneWorkerPerTask
  <2>4. Workers'
    BY <1>2, <2>1, Bystander DEF Workers
  <2>5. Phases'
    BY <1>2, <2>1 DEF Inv, Phases, allMapTasksDone, allReduceTasksDone, AllDone
  <2>. QED
    BY <1>3, <2>2, <2>3, <2>4, <2>5 DEF Inv
<1>5. ASSUME NEW w \in Worker, DialFails(w) \/ Crash(w) \/ StartWorker(w)
      PROVE  Inv'
  <2>1. exited' = exited
    BY <1>5 DEF DialFails, Crash, StartWorker, coordVars
  <2>2. PICK p \in {"ask", "returned", "crashed"} : pc' = [pc EXCEPT ![w] = p]
    BY <1>5 DEF DialFails, Crash, StartWorker
  <2>3. task' = task \/ task' = [task EXCEPT ![w] = Idle]
    BY <1>5 DEF DialFails, Crash, StartWorker
  <2>4. crashes' \in 0 .. MaxCrashes
    <3>1. crashes' = crashes \/ (crashes < MaxCrashes /\ crashes' = crashes + 1)
      BY <1>5 DEF DialFails, Crash, StartWorker
    <3>. QED
      BY <1>1, <3>1, JobAssumption DEF TypeOK
  <2>5. Idle \in Task /\ Idle.type = "none"
    BY DEF Idle, Task
  <2>6. /\ task' \in [Worker -> Task]
        /\ \A v \in Worker : v # w => task'[v] = task[v]
        /\ task'[w] = task[w] \/ task'[w].type = "none"
    <3>1. task \in [Worker -> Task]
      BY <1>1 DEF TypeOK
    <3>. HIDE DEF Task
    <3>. QED
      BY <2>3, <2>5, <3>1
  <2>7. /\ pc' \in [Worker -> {"ask", "map", "reduce", "report", "returned", "crashed"}]
        /\ pc'[w] = p /\ \A v \in Worker : v # w => pc'[v] = pc[v]
    BY <1>1, <2>2 DEF TypeOK
  <2>8. Types'
    <3>1. \A v \in Worker : pc'[v] = "map" => done'[v] \in ReduceTasks
      BY <1>1, <1>2, <2>2, <2>7 DEF TypeOK
    <3>. QED
      BY <1>1, <1>2, <2>1, <2>4, <2>6, <2>7, <3>1 DEF Types, TypeOK
  <2>9. OneWorkerPerTask'
    <3>1. CASE task'[w].type = "none"
      BY <2>6, <3>1, NewHolder DEF Inv
    <3>2. CASE task'[w] = task[w]
      BY <2>6, <3>2 DEF Inv, OneWorkerPerTask
    <3>. QED
      BY <2>6, <3>1, <3>2
  <2>10. Workers'
    <3>. SUFFICES ASSUME NEW v \in Worker PROVE (Holding(v) /\ Mapped(v) /\ HasRead(v))'
      BY DEF Workers
    <3>1. CASE v = w
      <4>1. Holding(w)
        BY DEF Inv, Workers
      <4>2. Holding(v)'
        BY <3>1, <4>1, <1>2, <2>6, <2>7 DEF Holding
      <4>. QED
        BY <3>1, <4>2, <2>7 DEF Mapped, HasRead
    <3>2. CASE v # w
      BY <3>2, <1>2, <2>6, <2>7, Bystander
    <3>. QED
      BY <3>1, <3>2
  <2>11. Phases'
    BY <1>2, <2>1 DEF Inv, Phases, allMapTasksDone, allReduceTasksDone, AllDone
  <2>. QED
    BY <1>3, <2>8, <2>9, <2>10, <2>11 DEF Inv
<1>. QED
  BY <1>4, <1>5

-----------------------------------------------------------------------------
(* doMap and doReduce *)

\* A mapper writes the next of its files, which nobody else writes or reads.
LEMMA doMapInv ==
    ASSUME Inv, NEW w \in Worker, doMap(w)
    PROVE  Inv'
<1>1. Types /\ TypeOK /\ Holding(w) /\ Mapped(w)
  BY DEF Inv, Types, Workers
<1>. DEFINE i == task[w].index
            f == Filename(i, done[w])
<1>2. /\ pc[w] = "map" /\ task[w].type = "map" /\ i \in MapTasks
      /\ mapStatus[i] = InProgress /\ done[w] \in ReduceTasks /\ f \in Filenames
  BY <1>1, FilenameType DEF doMap, Holding, TypeOK
<1>3. UNCHANGED <<mapStatus, reduceStatus, reduceFiles, exited, task, kvMap, output, crashes>>
  BY DEF doMap, coordVars
<1>4. files' = [files EXCEPT ![f] = <<Partition(i, done[w])>>]
  BY DEF doMap, Filename
<1>5. /\ files' \in [Filenames -> Seq(Pairs)]
      /\ files'[f] = <<Partition(i, done[w])>>
      /\ \A g \in Filenames : g # f => files'[g] = files[g]
  <2>1. <<Partition(i, done[w])>> \in Seq(Pairs)
    BY <1>2, PartitionType
  <2>2. files \in [Filenames -> Seq(Pairs)]
    BY <1>1 DEF Types
  <2>. HIDE DEF f
  <2>. QED
    BY <1>2, <1>4, <2>1, <2>2
<1>6. \A g \in Filenames : files'[g] = Absent \/ files'[g][1] \in Pairs
  <2>1. \A q \in Seq(Pairs) : q = <<>> \/ q[1] \in Pairs
    OBVIOUS
  <2>. QED
    BY <1>5, <2>1 DEF Absent
<1>7. \A m \in MapTasks, r \in ReduceTasks :
            Filename(m, r) \in Filenames /\ (Filename(m, r) = f => m = i /\ r = done[w])
  BY FilenameType DEF Filename
<1>8. /\ done' \in [Worker -> Nat] /\ done'[w] = done[w] + 1 /\ done[w] \in Nat
      /\ \A v \in Worker : v # w => done'[v] = done[v]
  BY <1>1 DEF doMap, TypeOK
<1>9. /\ pc' \in [Worker -> {"ask", "map", "reduce", "report", "returned", "crashed"}]
      /\ pc'[w] = IF done[w] + 1 = NReduce THEN "report" ELSE "map"
      /\ \A v \in Worker : v # w => pc'[v] = pc[v]
  BY <1>1 DEF doMap, LastBucket, TypeOK
<1>10. Types'
  <2>1. pc'[w] = "map" => done'[w] \in ReduceTasks
    BY <1>2, <1>8, <1>9, JobAssumption DEF ReduceTasks
  <2>2. \A v \in Worker : pc'[v] = "map" => done'[v] \in ReduceTasks
    BY <1>1, <1>8, <1>9, <2>1 DEF TypeOK
  <2>. QED
    BY <1>1, <1>3, <1>5, <1>6, <1>8, <1>9, <2>2 DEF Types, TypeOK
<1>11. OneWorkerPerTask'
  BY <1>3 DEF Inv, OneWorkerPerTask
<1>12. Workers'
  <2>. SUFFICES ASSUME NEW v \in Worker PROVE (Holding(v) /\ Mapped(v) /\ HasRead(v))'
    BY DEF Workers
  <2>1. CASE v = w
    <3>1. Holding(v)' /\ HasRead(v)'
      BY <2>1, <1>1, <1>2, <1>3, <1>9 DEF Holding, HasRead
    <3>2. \A r \in ReduceTasks : r <= done[w] => files'[Filename(i, r)] = <<Partition(i, r)>>
      <4>. SUFFICES ASSUME NEW r \in ReduceTasks, r <= done[w]
                    PROVE  files'[Filename(i, r)] = <<Partition(i, r)>>
        OBVIOUS
      <4>1. CASE r = done[w]
        BY <4>1, <1>5
      <4>2. CASE r < done[w]
        <5>1. files[Filename(i, r)] = <<Partition(i, r)>>
          BY <4>2, <1>1, <1>2 DEF Mapped, RightFile
        <5>2. Filename(i, r) \in Filenames /\ Filename(i, r) # f
          <6>1. r # done[w]
            BY <4>2, <1>8, TaskNumbers
          <6>. QED
            BY <6>1, <1>2, <1>7
        <5>. QED
          BY <5>1, <5>2, <1>5
      <4>. QED
        BY <4>1, <4>2, <1>8, TaskNumbers
    <3>3. \A r \in ReduceTasks : r < done[w] + 1 => r <= done[w]
      BY <1>8, TaskNumbers
    <3>4. done[w] + 1 = NReduce => \A r \in ReduceTasks : r <= done[w]
      BY <1>8, TaskNumbers
    <3>5. Mapped(v)'
      <4>. SUFFICES ASSUME NEW r \in ReduceTasks,
                           (pc'[v] = "map" /\ r < done'[v]) \/ pc'[v] = "report"
                    PROVE  files'[Filename(task'[v].index, r)] = <<Partition(task'[v].index, r)>>
        BY DEF Mapped, RightFile
      <4>1. r <= done[w]
        BY <2>1, <3>3, <3>4, <1>8, <1>9
      <4>. QED
        BY <2>1, <3>2, <4>1, <1>3
    <3>. QED
      BY <3>1, <3>5
  <2>2. CASE v # w
    <3>1. task[v].type = "map" => task[v].index \in MapTasks /\ task[v].index # i
      BY <2>2, <1>2 DEF Inv, OneWorkerPerTask, Workers, Holding
    <3>2. task[v].type = "map" => \A r \in ReduceTasks :
                files'[Filename(task[v].index, r)] = files[Filename(task[v].index, r)]
      BY <3>1, <1>5, <1>7
    <3>. QED
      BY <2>2, <3>2, <1>3, <1>8, <1>9, Bystander
  <2>. QED
    BY <2>1, <2>2
<1>13. Phases' /\ NamesRight'
  BY <1>3 DEF Inv, Phases, NamesRight, allMapTasksDone, allReduceTasksDone, AllDone
<1>14. DiskRight'
  <2>1. \A m \in MapTasks, r \in ReduceTasks : mapStatus[m] = Completed => files'[Filename(m, r)] = files[Filename(m, r)]
    BY <1>2, <1>5, <1>7
  <2>. QED
    BY <1>3, <2>1 DEF Inv, DiskRight, RightFile, OutputRight
<1>. QED
  BY <1>10, <1>11, <1>12, <1>13, <1>14 DEF Inv

\* A reducer finds the files it was given, complete.
LEMMA FilesReady ==
    ASSUME Inv, NEW w \in Worker, task[w].type = "reduce"
    PROVE  /\ task[w].index \in ReduceTasks /\ task[w].files = reduceFiles[task[w].index]
           /\ allMapTasksDone
           /\ \A n \in DOMAIN task[w].files :
                LET f == task[w].files[n] IN
                /\ f \in Filenames /\ f.map \in MapTasks /\ f.reduce = task[w].index
                /\ files[f] = <<Partition(f.map, task[w].index)>>
<1>1. /\ task[w].index \in ReduceTasks /\ reduceStatus[task[w].index] = InProgress
      /\ task[w].files = reduceFiles[task[w].index]
  BY DEF Inv, Workers, Holding
<1>2. allMapTasksDone
  BY <1>1 DEF Inv, Phases
<1>. SUFFICES ASSUME NEW n \in DOMAIN task[w].files
              PROVE  LET f == task[w].files[n] IN
                     /\ f \in Filenames /\ f.map \in MapTasks /\ f.reduce = task[w].index
                     /\ files[f] = <<Partition(f.map, task[w].index)>>
  BY <1>1, <1>2
<1>. DEFINE f == task[w].files[n]
<1>3. f \in Filenames /\ f.map \in MapTasks /\ f.reduce = task[w].index
  BY <1>1, ElementTypes DEF Inv, NamesRight
<1>4. f = Filename(f.map, f.reduce)
  BY <1>3 DEF Filenames, Filename
<1>5. files[Filename(f.map, task[w].index)] = <<Partition(f.map, task[w].index)>>
  BY <1>1, <1>2, <1>3 DEF Inv, DiskRight, RightFile, allMapTasksDone
<1>. QED
  BY <1>3, <1>4, <1>5

\* A reducer reads its next file; it never meets one that is missing.
LEMMA doReduceReadInv ==
    ASSUME Inv, NEW w \in Worker, doReduceRead(w)
    PROVE  Inv'
<1>1. Types /\ TypeOK /\ Holding(w) /\ HasRead(w)
  BY DEF Inv, Types, Workers
<1>. DEFINE d == done[w]
            names == task[w].files
            P == Partition(names[d + 1].map, task[w].index)
<1>2. pc[w] = "reduce" /\ task[w].type = "reduce" /\ d < Len(names)
  BY <1>1 DEF doReduceRead, Holding
<1>3. names \in Seq(Filenames) /\ d \in Nat /\ d + 1 \in DOMAIN names
  <2>1. names \in Seq(Filenames) /\ d \in Nat
    BY <1>1, ElementTypes DEF TypeOK
  <2>. QED
    BY <1>2, <2>1
<1>4. files[names[d + 1]] = <<P>> /\ names[d + 1].map \in MapTasks
  BY <1>2, <1>3, FilesReady
<1>5. P \in Pairs
  BY <1>4, PartitionType
<1>6. UNCHANGED <<mapStatus, reduceStatus, reduceFiles, exited, task, files, output, crashes, pc>>
      /\ kvMap' = [kvMap EXCEPT ![w] = Append(@, P)]
      /\ done' = [done EXCEPT ![w] = @ + 1]
  <2>. HIDE DEF P
  <2>1. <<P>> # Absent /\ <<P>>[1] = P
    BY DEF Absent
  <2>. QED
    BY <1>4, <2>1 DEF doReduceRead, coordVars, diskVars
<1>7. /\ done' \in [Worker -> Nat] /\ done'[w] = d + 1
      /\ \A v \in Worker : v # w => done'[v] = done[v]
  BY <1>1, <1>6 DEF TypeOK
<1>8. kvMap[w] \in Seq(Pairs)
  BY <1>1 DEF TypeOK
<1>9. /\ kvMap' \in [Worker -> Seq(Pairs)] /\ kvMap'[w] = Append(kvMap[w], P)
      /\ \A v \in Worker : v # w => kvMap'[v] = kvMap[v]
  <2>. HIDE DEF P
  <2>1. kvMap \in [Worker -> Seq(Pairs)]
    BY <1>1 DEF TypeOK
  <2>. QED
    BY <1>5, <1>6, <2>1
<1>10. Types'
  <2>1. \A v \in Worker : pc'[v] = "map" => done'[v] \in ReduceTasks
    BY <1>1, <1>2, <1>6, <1>7 DEF TypeOK
  <2>. QED
    BY <1>1, <1>6, <1>7, <1>9, <2>1 DEF Types, TypeOK
<1>11. OneWorkerPerTask'
  BY <1>6 DEF Inv, OneWorkerPerTask
<1>12. Workers'
  <2>. SUFFICES ASSUME NEW v \in Worker PROVE (Holding(v) /\ Mapped(v) /\ HasRead(v))'
    BY DEF Workers
  <2>1. CASE v = w
    <3>1. Holding(v)' /\ Mapped(v)'
      BY <2>1, <1>1, <1>2, <1>6 DEF Holding, Mapped
    <3>2. /\ d = Len(kvMap[w])
          /\ \A n \in 1 .. d : kvMap[w][n] = Partition(names[n].map, task[w].index)
      BY <1>1, <1>2 DEF HasRead
    <3>3. /\ Len(kvMap'[w]) = d + 1
          /\ \A n \in 1 .. d : kvMap'[w][n] = kvMap[w][n]
          /\ kvMap'[w][d + 1] = P
      <4>. HIDE DEF P
      <4>. QED
        BY <3>2, <1>5, <1>8, <1>9
    <3>4. \A n \in 1 .. d + 1 : kvMap'[w][n] = Partition(names[n].map, task[w].index)
      <4>. SUFFICES ASSUME NEW n \in 1 .. d + 1
                    PROVE  kvMap'[w][n] = Partition(names[n].map, task[w].index)
        OBVIOUS
      <4>1. CASE n = d + 1
        BY <4>1, <3>3
      <4>2. CASE n \in 1 .. d
        BY <4>2, <3>2, <3>3
      <4>. QED
        BY <4>1, <4>2, <1>3
    <3>5. d + 1 <= Len(names)
      BY <1>2, <1>3
    <3>. QED
      BY <2>1, <3>1, <3>3, <3>4, <3>5, <1>2, <1>6, <1>7 DEF HasRead
  <2>2. CASE v # w
    BY <2>2, <1>6, <1>7, <1>9, Bystander
  <2>. QED
    BY <2>1, <2>2
<1>13. Phases' /\ NamesRight' /\ DiskRight'
  BY <1>6 DEF Inv, Phases, NamesRight, DiskRight, RightFile, OutputRight,
              allMapTasksDone, allReduceTasksDone, AllDone
<1>. QED
  BY <1>10, <1>11, <1>12, <1>13 DEF Inv

\* A reducer that has read all its files writes its output.
LEMMA doReduceWriteInv ==
    ASSUME Inv, NEW w \in Worker, doReduceWrite(w)
    PROVE  Inv'
<1>1. Types /\ TypeOK /\ Holding(w) /\ HasRead(w)
  BY DEF Inv, Types, Workers
<1>. DEFINE i == task[w].index
<1>2. /\ pc[w] = "reduce" /\ task[w].type = "reduce" /\ done[w] = Len(task[w].files)
      /\ output' = [output EXCEPT ![i] = <<kvMap[w]>>]
      /\ pc' = [pc EXCEPT ![w] = "report"]
      /\ UNCHANGED <<mapStatus, reduceStatus, reduceFiles, exited, task, done, kvMap, files, crashes>>
  BY <1>1 DEF doReduceWrite, Holding, coordVars
<1>3. i \in ReduceTasks /\ reduceStatus[i] = InProgress /\ task[w].files = reduceFiles[i]
  BY <1>1, <1>2 DEF Holding
<1>4. kvMap[w] \in Seq(Pairs) /\ output \in [ReduceTasks -> Seq(Seq(Pairs))]
  BY <1>1 DEF Types, TypeOK
<1>5. /\ output' \in [ReduceTasks -> Seq(Seq(Pairs))]
      /\ output'[i] = <<kvMap[w]>>
      /\ \A r \in ReduceTasks : r # i => output'[r] = output[r]
  <2>1. <<kvMap[w]>> \in Seq(Seq(Pairs))
    <3>. DEFINE T == Seq(Pairs)
    <3>. HIDE DEF T
    <3>1. kvMap[w] \in T
      BY <1>4 DEF T
    <3>2. <<kvMap[w]>> \in Seq(T)
      BY <3>1
    <3>. QED
      BY <3>2 DEF T
  <2>. HIDE DEF i
  <2>. QED
    BY <1>2, <1>3, <1>4, <2>1
<1>6. \A r \in ReduceTasks : output'[r] = Absent \/ output'[r][1] \in Seq(Pairs)
  <2>. DEFINE T == Seq(Pairs)
  <2>. HIDE DEF T
  <2>1. \A q \in Seq(T) : q = <<>> \/ q[1] \in T
    OBVIOUS
  <2>2. \A r \in ReduceTasks : output'[r] \in Seq(T)
    BY <1>5 DEF T
  <2>3. \A r \in ReduceTasks : output'[r] = Absent \/ output'[r][1] \in T
    BY <2>1, <2>2 DEF Absent
  <2>. QED
    BY <2>3 DEF T
<1>7. /\ pc' \in [Worker -> {"ask", "map", "reduce", "report", "returned", "crashed"}]
      /\ pc'[w] = "report" /\ \A v \in Worker : v # w => pc'[v] = pc[v]
  BY <1>1, <1>2 DEF TypeOK
<1>8. Types'
  <2>1. \A v \in Worker : pc'[v] = "map" => done'[v] \in ReduceTasks
    BY <1>1, <1>2, <1>7 DEF TypeOK
  <2>. QED
    BY <1>1, <1>2, <1>5, <1>6, <1>7, <2>1 DEF Types, TypeOK
<1>9. OneWorkerPerTask'
  BY <1>2 DEF Inv, OneWorkerPerTask
<1>10. Workers'
  <2>. SUFFICES ASSUME NEW v \in Worker PROVE (Holding(v) /\ Mapped(v) /\ HasRead(v))'
    BY DEF Workers
  <2>1. CASE v = w
    <3>1. Holding(v)' /\ Mapped(v)'
      BY <2>1, <1>1, <1>2, <1>3, <1>7 DEF Holding, Mapped
    <3>2. output'[i] # Absent /\ output'[i][1] = kvMap[w]
      BY <1>5 DEF Absent
    <3>3. /\ Len(kvMap[w]) = Len(reduceFiles[i])
          /\ \A n \in 1 .. Len(reduceFiles[i]) : kvMap[w][n] = Partition(reduceFiles[i][n].map, i)
      BY <1>1, <1>2, <1>3 DEF HasRead
    <3>4. OutputRight(i)'
      BY <3>2, <3>3, <1>2 DEF OutputRight
    <3>. QED
      BY <2>1, <3>1, <3>4, <1>2, <1>7 DEF HasRead
  <2>2. CASE v # w
    <3>1. task[v].type = "reduce" => task[v].index \in ReduceTasks /\ task[v].index # i
      BY <2>2, <1>2 DEF Inv, OneWorkerPerTask, Workers, Holding
    <3>. QED
      BY <2>2, <3>1, <1>2, <1>5, <1>7, Bystander
  <2>. QED
    BY <2>1, <2>2
<1>11. Phases' /\ NamesRight'
  BY <1>2 DEF Inv, Phases, NamesRight, allMapTasksDone, allReduceTasksDone, AllDone
<1>12. DiskRight'
  <2>1. \A r \in ReduceTasks : reduceStatus[r] = Completed => output'[r] = output[r]
    BY <1>3, <1>5
  <2>. QED
    BY <1>2, <2>1 DEF Inv, DiskRight, RightFile, OutputRight
<1>. QED
  BY <1>8, <1>9, <1>10, <1>11, <1>12 DEF Inv

-----------------------------------------------------------------------------
(* ReportTaskDone *)

\* The holder reports the task that is in progress, so that not all are done; it
\* is completed and nobody holds it any more.
LEMMA ReportTaskDoneInv ==
    ASSUME Inv, NEW w \in Worker, ReportTaskDone(w)
    PROVE  Inv'
<1>1. Types /\ TypeOK /\ Holding(w) /\ Mapped(w) /\ HasRead(w)
  BY DEF Inv, Types, Workers
<1>. DEFINE i == task[w].index
<1>2. pc[w] = "report" /\ ~exited /\ task[w].type \in {"map", "reduce"}
  BY <1>1, ElementTypes DEF ReportTaskDone, Holding
<1>3. ~AllDone
  BY <1>1, <1>2 DEF Holding, AllDone, allMapTasksDone, allReduceTasksDone
<1>4. /\ task' = [task EXCEPT ![w] = Idle] /\ pc' = [pc EXCEPT ![w] = "ask"]
      /\ UNCHANGED <<exited, done, kvMap, files, output, crashes>>
  BY <1>3 DEF ReportTaskDone, diskVars
<1>5. /\ task' \in [Worker -> Task] /\ task'[w].type = "none"
      /\ \A v \in Worker : v # w => task'[v] = task[v]
  <2>1. Idle \in Task /\ Idle.type = "none"
    BY DEF Idle, Task
  <2>2. task \in [Worker -> Task]
    BY <1>1 DEF TypeOK
  <2>. HIDE DEF Task
  <2>. QED
    BY <1>4, <2>1, <2>2
<1>6. /\ pc' \in [Worker -> {"ask", "map", "reduce", "report", "returned", "crashed"}]
      /\ pc'[w] = "ask" /\ \A v \in Worker : v # w => pc'[v] = pc[v]
  BY <1>1, <1>4 DEF TypeOK
<1>7. \A v \in Worker : pc'[v] = "map" => done'[v] \in ReduceTasks
  BY <1>1, <1>4, <1>6 DEF TypeOK
<1>8. OneWorkerPerTask'
  BY <1>5, NewHolder DEF Inv
<1>9. (Holding(w) /\ Mapped(w) /\ HasRead(w))'
  BY <1>5, <1>6 DEF Holding, Mapped, HasRead
<1>10. CASE task[w].type = "map"
  <2>1. /\ i \in MapTasks /\ mapStatus[i] = InProgress
        /\ ReportMapDone(i)
    BY <1>1, <1>3, <1>10 DEF Holding, ReportTaskDone
  <2>2. ~allMapTasksDone /\ \A r \in ReduceTasks : reduceStatus[r] = Unassigned
    BY <2>1 DEF Inv, Phases, allMapTasksDone
  <2>3. /\ mapStatus' \in [MapTasks -> Status] /\ mapStatus'[i] = Completed
        /\ \A m \in MapTasks : m # i => mapStatus'[m] = mapStatus[m]
        /\ reduceStatus' = reduceStatus
    BY <1>1, <2>1 DEF ReportMapDone, TypeOK, Status
  <2>. DEFINE named(r) == CHOOSE f \in IntermediateFilenames(i) : extractReduceTaskIndex(f) = r
  <2>4. \A r \in ReduceTasks : named(r) = Filename(i, r)
    <3>1. \A r \in ReduceTasks : /\ Filename(i, r) \in IntermediateFilenames(i)
                                 /\ extractReduceTaskIndex(Filename(i, r)) = r
      BY DEF IntermediateFilenames, extractReduceTaskIndex, Filename
    <3>2. \A r \in ReduceTasks : \A f \in IntermediateFilenames(i) :
                extractReduceTaskIndex(f) = r => f = Filename(i, r)
      BY DEF IntermediateFilenames, extractReduceTaskIndex, Filename
    <3>. QED
      BY <3>1, <3>2
  <2>5. reduceFiles' = [r \in ReduceTasks |-> Append(reduceFiles[r], named(r))]
    BY <2>1 DEF ReportMapDone
  <2>6. \A r \in ReduceTasks :
            /\ Filename(i, r) \in Filenames /\ Filename(i, r).map = i /\ Filename(i, r).reduce = r
            /\ reduceFiles[r] \in Seq(Filenames)
    BY <1>1, <2>1, FilenameType DEF Filename, TypeOK
  <2>7. /\ reduceFiles' \in [ReduceTasks -> Seq(Filenames)]
        /\ \A r \in ReduceTasks : reduceFiles'[r] = Append(reduceFiles[r], Filename(i, r))
    <3>. HIDE DEF named
    <3>1. \A r \in ReduceTasks : reduceFiles'[r] = Append(reduceFiles[r], named(r))
      BY <2>5
    <3>2. \A r \in ReduceTasks : reduceFiles'[r] = Append(reduceFiles[r], Filename(i, r))
      BY <2>4, <3>1
    <3>3. \A r \in ReduceTasks : Append(reduceFiles[r], named(r)) \in Seq(Filenames)
      BY <2>4, <2>6
    <3>. QED
      BY <2>5, <3>2, <3>3
  <2>8. Types'
    BY <1>1, <1>4, <1>5, <1>6, <1>7, <2>3, <2>7 DEF Types, TypeOK
  <2>9. Workers'
    <3>. SUFFICES ASSUME NEW v \in Worker, v # w PROVE (Holding(v) /\ Mapped(v) /\ HasRead(v))'
      BY <1>9 DEF Workers
    <3>1. task[v].type # "reduce"
      BY <2>2 DEF Inv, Workers, Holding
    <3>2. task[v].type = "map" => task[v].index \in MapTasks /\ task[v].index # i
      BY <1>10 DEF Inv, OneWorkerPerTask, Workers, Holding
    <3>. QED
      BY <3>1, <3>2, <1>4, <1>5, <1>6, <2>3, Bystander
  <2>10. Phases'
    BY <1>2, <1>4, <2>2, <2>3 DEF Phases
  <2>11. NamesRight'
    <3>. SUFFICES ASSUME NEW r \in ReduceTasks
                  PROVE  /\ \A k \in DOMAIN reduceFiles'[r] :
                                /\ reduceFiles'[r][k].reduce = r
                                /\ mapStatus'[reduceFiles'[r][k].map] = Completed
                         /\ \A k, j \in DOMAIN reduceFiles'[r] :
                                reduceFiles'[r][k].map = reduceFiles'[r][j].map => k = j
                         /\ \A m \in MapTasks : mapStatus'[m] = Completed =>
                                \E k \in DOMAIN reduceFiles'[r] : reduceFiles'[r][k].map = m
      BY DEF NamesRight
    <3>. DEFINE q == reduceFiles[r]
                g == Filename(i, r)
                n == Len(q) + 1
    <3>1. /\ Len(q) \in Nat /\ DOMAIN q = 1 .. Len(q) /\ DOMAIN reduceFiles'[r] = 1 .. n
          /\ \A k \in 1 .. Len(q) : reduceFiles'[r][k] = q[k]
          /\ reduceFiles'[r][n] = g
      <4>. HIDE DEF q, g
      <4>1. q \in Seq(Filenames) /\ g \in Filenames /\ reduceFiles'[r] = Append(q, g)
        BY <2>6, <2>7 DEF q, g
      <4>. QED
        BY <4>1
    <3>2. g.map = i /\ g.reduce = r
      BY <2>6
    <3>. HIDE DEF g
    <3>3. /\ \A k \in DOMAIN q : q[k].reduce = r /\ q[k].map \in MapTasks /\ mapStatus[q[k].map] = Completed
          /\ \A k, j \in DOMAIN q : q[k].map = q[j].map => k = j
          /\ \A m \in MapTasks : mapStatus[m] = Completed => \E k \in DOMAIN q : q[k].map = m
      BY <1>1, ElementTypes DEF Inv, NamesRight
    <3>. HIDE DEF q
    <3>4. \A k \in DOMAIN q : q[k].map # i
      BY <2>1, <3>3
    <3>5. \A k \in 1 .. n : k \in DOMAIN q \/ k = n
      BY <3>1
    <3>6. \A k \in DOMAIN q : k \in 1 .. n /\ k # n
      BY <3>1
    <3>7. \A k \in DOMAIN reduceFiles'[r] :
                /\ reduceFiles'[r][k].reduce = r
                /\ mapStatus'[reduceFiles'[r][k].map] = Completed
      BY <2>3, <3>1, <3>2, <3>3, <3>4, <3>5
    <3>8. \A k, j \in DOMAIN reduceFiles'[r] :
                reduceFiles'[r][k].map = reduceFiles'[r][j].map => k = j
      BY <3>1, <3>2, <3>3, <3>4, <3>5
    <3>9. \A m \in MapTasks : mapStatus'[m] = Completed =>
                \E k \in DOMAIN reduceFiles'[r] : reduceFiles'[r][k].map = m
      <4>. SUFFICES ASSUME NEW m \in MapTasks, mapStatus'[m] = Completed
                    PROVE  \E k \in DOMAIN reduceFiles'[r] : reduceFiles'[r][k].map = m
        OBVIOUS
      <4>1. CASE m = i
        BY <4>1, <3>1, <3>2
      <4>2. CASE m # i
        <5>1. PICK k \in DOMAIN q : q[k].map = m
          BY <4>2, <2>3, <3>3
        <5>. QED
          BY <5>1, <3>1, <3>6
      <4>. QED
        BY <4>1, <4>2
    <3>. QED
      BY <3>7, <3>8, <3>9
  <2>12. DiskRight'
    <3>1. \A r \in ReduceTasks : RightFile(i, r)
      BY <1>1, <1>2, <1>10 DEF Mapped
    <3>2. \A m \in MapTasks, r \in ReduceTasks : mapStatus'[m] = Completed => RightFile(m, r)
      BY <2>3, <3>1 DEF Inv, DiskRight
    <3>. QED
      BY <1>4, <2>2, <2>3, <3>2 DEF DiskRight, RightFile
  <2>. QED
    BY <1>8, <2>8, <2>9, <2>10, <2>11, <2>12 DEF Inv
<1>11. CASE task[w].type = "reduce"
  <2>1. /\ i \in ReduceTasks /\ reduceStatus[i] = InProgress
        /\ ReportReduceDone(i)
    BY <1>1, <1>3, <1>11 DEF Holding, ReportTaskDone
  <2>2. /\ reduceStatus' \in [ReduceTasks -> Status] /\ reduceStatus'[i] = Completed
        /\ \A r \in ReduceTasks : r # i => reduceStatus'[r] = reduceStatus[r]
        /\ UNCHANGED <<mapStatus, reduceFiles>>
    BY <1>1, <2>1 DEF ReportReduceDone, TypeOK, Status
  <2>3. Types'
    BY <1>1, <1>4, <1>5, <1>6, <1>7, <2>2 DEF Types, TypeOK
  <2>4. Workers'
    <3>. SUFFICES ASSUME NEW v \in Worker, v # w PROVE (Holding(v) /\ Mapped(v) /\ HasRead(v))'
      BY <1>9 DEF Workers
    <3>1. task[v].type = "reduce" => task[v].index \in ReduceTasks /\ task[v].index # i
      BY <1>11 DEF Inv, OneWorkerPerTask, Workers, Holding
    <3>. QED
      BY <3>1, <1>4, <1>5, <1>6, <2>2, Bystander
  <2>5. Phases'
    <3>1. allMapTasksDone
      BY <2>1 DEF Inv, Phases
    <3>. QED
      BY <3>1, <1>2, <1>4, <2>2 DEF Phases, allMapTasksDone
  <2>6. NamesRight'
    BY <2>2 DEF Inv, NamesRight
  <2>7. DiskRight'
    <3>1. OutputRight(i)
      BY <1>1, <1>2, <1>11 DEF HasRead
    <3>2. \A r \in ReduceTasks : reduceStatus'[r] = Completed => OutputRight(r)
      BY <2>2, <3>1 DEF Inv, DiskRight
    <3>. QED
      BY <1>4, <2>2, <3>2 DEF Inv, DiskRight, RightFile, OutputRight
  <2>. QED
    BY <1>8, <2>3, <2>4, <2>5, <2>6, <2>7 DEF Inv
<1>. QED
  BY <1>2, <1>10, <1>11

-----------------------------------------------------------------------------
\* Every step keeps the invariant.
LEMMA NextInv == Inv /\ [Next]_vars => Inv'
<1>. SUFFICES ASSUME Inv, [Next]_vars PROVE Inv'
  OBVIOUS
<1>1. CASE Done
  BY <1>1, ProcessInv
<1>2. ASSUME NEW w \in Worker, WorkerStep(w)
      PROVE  Inv'
  <2>1. CASE RequestTask(w)
    BY <2>1, RequestMapTaskInv, RequestReduceTaskInv, RequestNothingInv DEF RequestTask
  <2>2. CASE DialFails(w)
    BY <2>2, ProcessInv
  <2>3. CASE ReportTaskDone(w)
    BY <2>3, ReportTaskDoneInv
  <2>4. CASE doMap(w)
    BY <2>4, doMapInv
  <2>5. CASE doReduceRead(w)
    BY <2>5, doReduceReadInv
  <2>6. CASE doReduceWrite(w)
    BY <2>6, doReduceWriteInv
  <2>. QED
    BY <1>2, <2>1, <2>2, <2>3, <2>4, <2>5, <2>6 DEF WorkerStep
<1>3. ASSUME NEW w \in Worker, Crash(w) \/ StartWorker(w)
      PROVE  Inv'
  BY <1>3, ProcessInv
<1>4. CASE UNCHANGED vars
  <2>. USE <1>4 DEF vars, coordVars, workerVars, diskVars
  <2>1. Types' /\ OneWorkerPerTask'
    BY DEF Inv, Types, TypeOK, OneWorkerPerTask
  <2>2. Workers'
    BY Bystander DEF Workers
  <2>3. Phases' /\ NamesRight' /\ DiskRight'
    BY DEF Inv, Phases, NamesRight, DiskRight, RightFile, OutputRight,
           allMapTasksDone, allReduceTasksDone, AllDone
  <2>. QED
    BY <2>1, <2>2, <2>3 DEF Inv
<1>. QED
  BY <1>1, <1>2, <1>3, <1>4 DEF Next

\* The inductive invariant holds in every reachable state: what workers hold, the
\* coordinator knows and the disk contains fit together.
THEOREM Invariance == Spec => []Inv
<1>. QED
  BY InitInv, NextInv, PTL DEF Spec

\* The types of the coordinator's and the workers' variables; the loop of doMap
\* stays within the reduce tasks.
THEOREM TypeCorrect == Spec => []TypeOK
<1>1. Inv => TypeOK
  BY DEF Inv, Types
<1>. QED
  BY <1>1, Invariance, PTL

\* Each reduce task has one file of every map task that was reported, and none twice,
\* although ReportTaskDone appends whatever it is told.
THEOREM FilesOnce == Spec => []FilesListedOnce
<1>1. Inv => FilesListedOnce
  <2>. SUFFICES ASSUME Inv, NEW r \in ReduceTasks
                PROVE  /\ IsInjective(reduceFiles[r])
                       /\ {f.map : f \in Range(reduceFiles[r])}
                            = {m \in MapTasks : mapStatus[m] = Completed}
    BY DEF FilesListedOnce
  <2>. DEFINE q == reduceFiles[r]
  <2>1. /\ \A n \in DOMAIN q : q[n].map \in MapTasks /\ mapStatus[q[n].map] = Completed
        /\ \A n, k \in DOMAIN q : q[n].map = q[k].map => n = k
        /\ \A m \in MapTasks : mapStatus[m] = Completed => \E n \in DOMAIN q : q[n].map = m
    BY ElementTypes DEF Inv, NamesRight
  <2>2. Range(q) = {q[n] : n \in DOMAIN q}
    BY DEF Range
  <2>. HIDE DEF q
  <2>3. IsInjective(q)
    BY <2>1 DEF IsInjective
  <2>4. {f.map : f \in Range(q)} = {m \in MapTasks : mapStatus[m] = Completed}
    BY <2>1, <2>2
  <2>. QED
    BY <2>3, <2>4 DEF q
<1>. QED
  BY <1>1, Invariance, PTL

\* doReduce opens only files that exist and are complete, one of each map task.
THEOREM ReadsFollowWrites == Spec => []NoReadBeforeWrite
<1>1. Inv => NoReadBeforeWrite
  <2>. SUFFICES ASSUME Inv, NEW w \in Worker, pc[w] = "reduce"
                PROVE  /\ {f.map : f \in Range(task[w].files)} = MapTasks
                       /\ \A f \in Range(task[w].files) :
                            /\ files[f] = <<Partition(f.map, f.reduce)>>
                            /\ \A v \in Worker : pc[v] = "map" => task[v].index # f.map
    BY DEF NoReadBeforeWrite
  <2>1. task[w].type = "reduce"
    BY DEF Inv, Workers, Holding
  <2>. DEFINE q == task[w].files
  <2>2. /\ task[w].index \in ReduceTasks /\ q = reduceFiles[task[w].index] /\ allMapTasksDone
        /\ \A n \in DOMAIN q : /\ q[n].map \in MapTasks /\ q[n].reduce = task[w].index
                               /\ files[q[n]] = <<Partition(q[n].map, task[w].index)>>
    BY <2>1, FilesReady
  <2>3. \A m \in MapTasks : \E n \in DOMAIN q : q[n].map = m
    BY <2>2 DEF Inv, NamesRight, allMapTasksDone
  <2>4. \A v \in Worker : pc[v] # "map"
    BY <2>2 DEF Inv, Workers, Holding, allMapTasksDone
  <2>5. Range(q) = {q[n] : n \in DOMAIN q}
    BY DEF Range
  <2>. HIDE DEF q
  <2>6. {f.map : f \in Range(q)} = MapTasks
    BY <2>2, <2>3, <2>5
  <2>7. \A f \in Range(q) : files[f] = <<Partition(f.map, f.reduce)>>
    <3>1. \A n \in DOMAIN q : files[q[n]] = <<Partition(q[n].map, q[n].reduce)>>
      BY <2>2
    <3>. QED  BY <2>5, <3>1
  <2>. QED
    BY <2>4, <2>6, <2>7 DEF q
<1>. QED
  BY <1>1, Invariance, PTL

\* When the coordinator has ended, the mr-out-X files are what the sequential
\* program would have computed, whoever crashed on the way.
THEOREM JobOutput == Spec => []OutputCorrect
<1>1. Inv => OutputCorrect
  <2>. SUFFICES ASSUME Inv, exited PROVE OutputCorrect
    BY DEF OutputCorrect
  <2>1. allMapTasksDone /\ \A r \in ReduceTasks : OutputRight(r)
    BY DEF Inv, Phases, AllDone, allReduceTasksDone, DiskRight
  <2>2. \A r \in ReduceTasks :
            /\ output[r] # Absent /\ reduceFiles[r] \in Seq(Filenames)
            /\ output[r] \in Seq(Seq(Pairs)) /\ output[r][1] \in Seq(Pairs)
    BY <2>1 DEF Inv, Types, TypeOK, OutputRight
  <2>3. \A r \in ReduceTasks : DOMAIN output[r][1] = DOMAIN reduceFiles[r]
    BY <2>1, <2>2 DEF OutputRight
  <2>4. \A r \in ReduceTasks : \A n \in DOMAIN reduceFiles[r] :
            /\ reduceFiles[r][n].map \in MapTasks
            /\ output[r][1][n] = Partition(reduceFiles[r][n].map, r)
    <3>1. \A r \in ReduceTasks : \A n \in DOMAIN reduceFiles[r] : reduceFiles[r][n].map \in MapTasks
      BY ElementTypes DEF Inv
    <3>2. \A r \in ReduceTasks : DOMAIN reduceFiles[r] = 1 .. Len(reduceFiles[r])
      BY <2>2
    <3>. QED
      BY <2>1, <3>1, <3>2 DEF OutputRight
  <2>5. \A r \in ReduceTasks :
            /\ \A m \in MapTasks : \E n \in DOMAIN reduceFiles[r] : reduceFiles[r][n].map = m
            /\ \A n, k \in DOMAIN reduceFiles[r] : reduceFiles[r][n].map = reduceFiles[r][k].map => n = k
    BY <2>1 DEF Inv, NamesRight, allMapTasksDone
  <2>6. \A p \in Pair : p[1] \in MapTasks /\ Bucket(KeyOf(p)) \in ReduceTasks
    <3>. SUFFICES ASSUME NEW m \in MapTasks, NEW n \in DOMAIN Emits[m]
                  PROVE  Hash[Emits[m][n]] % NReduce \in 0 .. NReduce - 1
      BY DEF Pair, Bucket, KeyOf, ReduceTasks
    <3>1. Emits[m][n] \in Key
      BY JobAssumption
    <3>2. Hash[Emits[m][n]] \in Nat
      BY <3>1, JobAssumption
    <3>. QED
      BY <3>2, JobAssumption
  <2>7. \A m \in MapTasks : \A r, p :
            p \in Partition(m, r) <=> p \in Pair /\ p[1] = m /\ Bucket(KeyOf(p)) = r
    BY DEF Partition, Pair, KeyOf
  <2>8. \A r \in ReduceTasks : \A p \in Reduced(r) : p \in Pair /\ Bucket(KeyOf(p)) = r
    BY <2>3, <2>4, <2>7 DEF Reduced, Range
  <2>9. \A p \in Pair : \E r \in ReduceTasks : \E n \in DOMAIN output[r][1] :
            \A s \in ReduceTasks : \A k \in DOMAIN output[s][1] :
                p \in output[s][1][k] <=> s = r /\ k = n
    <3>. TAKE p \in Pair
    <3>. DEFINE r == Bucket(KeyOf(p))
    <3>1. p[1] \in MapTasks /\ r \in ReduceTasks
      BY <2>6
    <3>2. PICK n \in DOMAIN reduceFiles[r] : reduceFiles[r][n].map = p[1]
      BY <2>5, <3>1
    <3>3. \A s \in ReduceTasks : \A k \in DOMAIN output[s][1] :
                p \in output[s][1][k] <=> s = r /\ k = n
      <4>. SUFFICES ASSUME NEW s \in ReduceTasks, NEW k \in DOMAIN output[s][1]
                    PROVE  p \in output[s][1][k] <=> s = r /\ k = n
        OBVIOUS
      <4>1. p \in output[s][1][k] <=> p[1] = reduceFiles[s][k].map /\ r = s
        BY <2>3, <2>4, <2>7
      <4>. HIDE DEF r
      <4>. QED
        BY <2>3, <2>5, <3>1, <3>2, <4>1
    <3>4. n \in DOMAIN output[r][1]
      BY <2>3, <3>1, <3>2
    <3>. HIDE DEF r
    <3>. QED
      BY <3>1, <3>3, <3>4
  <2>10. \A r, s \in ReduceTasks : r # s =>
            {KeyOf(p) : p \in Reduced(r)} \cap {KeyOf(p) : p \in Reduced(s)} = {}
    BY <2>8
  <2>11. \A r \in ReduceTasks : output[r] # Absent /\ Reduced(r) \subseteq Pair
    BY <2>2, <2>8
  <2>. QED
    BY <2>9, <2>10, <2>11 DEF OutputCorrect
<1>. QED
  BY <1>1, Invariance, PTL

=============================================================================
