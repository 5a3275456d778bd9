-------------------------- MODULE MutexAggregator ---------------------------
(***************************************************************************)
(* mutexAggregator of ws/mutex_aggregator.go: a loop that reports the      *)
(* average of each batch when its ticker fires, and one goroutine per      *)
(* weather station and batch that adds its answer to the sum under a       *)
(* mutex.                                                                  *)
(*                                                                         *)
(* A temperature is abstracted to <<station, batch>>, where it was asked   *)
(* for, and sum to the sequence of the temperatures that were added.  The  *)
(* ticker may fire at any time.  The consumer receives from out, and may   *)
(* at some time offer a signal on quit; both channels are unbuffered.      *)
(*                                                                         *)
(* A Slip_ operator is the definition after it with a likely mistake; it   *)
(* only serves to confirm that a property would notice it.                 *)
(***************************************************************************)
EXTENDS Integers, Sequences, FiniteSets, Functions

CONSTANTS
    Station,    \* the stations 0 .. k-1
    MaxBatch    \* bound: batches reported

ASSUME StationAssumption == IsFiniteSet(Station)
ASSUME MaxBatchAssumption == MaxBatch \in Nat

Batch == 0 .. MaxBatch
Call == Station \X Batch        \* a goroutine of retrieveData(id, currentBatch)

VARIABLES
    pc,         \* where the loop is
    mutex,      \* whether the loop holds the mutex
    batch, sum, count,
    call,       \* progress of each goroutine
    quit,       \* whether the consumer is sending on quit
    reports     \* what the consumer has received from out

vars == <<pc, mutex, batch, sum, count, call, quit, reports>>

\* A goroutine is not started, waits for its station, has the answer (a
\* temperature or NaN), or is over.
CallState == {"none", "waiting", "answered", "NaN", "counted", "ignored"}

Init ==
    /\ pc = "newBatch"
    /\ mutex = FALSE
    /\ batch = 0
    /\ sum = <<>>
    /\ count = 0
    /\ call = [c \in Call |-> "none"]
    /\ quit = FALSE
    /\ reports = <<>>

-----------------------------------------------------------------------------
\* newBatch: reset under the mutex, then start a goroutine for each station.
Slip_newBatch ==
    /\ pc = "newBatch"
    /\ ~mutex
    /\ call' = [c \in Call |-> IF c[2] = batch THEN "waiting" ELSE call[c]]
    /\ pc' = "select"
    /\ UNCHANGED <<mutex, batch, sum, count, quit, reports>>
newBatch ==
    /\ pc = "newBatch"
    /\ ~mutex
    /\ sum' = <<>>
    /\ count' = 0
    /\ call' = [c \in Call |-> IF c[2] = batch THEN "waiting" ELSE call[c]]
    /\ pc' = "select"
    /\ UNCHANGED <<mutex, batch, quit, reports>>

\* getWeatherData returns, early, late, or never.
getWeatherData(c) ==
    /\ call[c] = "waiting"
    /\ \E answer \in {"answered", "NaN"} : call' = [call EXCEPT ![c] = answer]
    /\ UNCHANGED <<pc, mutex, batch, sum, count, quit, reports>>

\* The critical section of retrieveData.
retrieveData(c) ==
    /\ call[c] \in {"answered", "NaN"}
    /\ ~mutex
    /\ IF batch = c[2] /\ call[c] # "NaN"
       THEN /\ sum' = Append(sum, c)
            /\ count' = count + 1
            /\ call' = [call EXCEPT ![c] = "counted"]
       ELSE /\ call' = [call EXCEPT ![c] = "ignored"]
            /\ UNCHANGED <<sum, count>>
    /\ UNCHANGED <<pc, mutex, batch, quit, reports>>

\* case <-stamp.C: lock the mutex and offer the report.
Slip_Tick ==
    /\ pc = "select"
    /\ ~mutex
    /\ batch < MaxBatch /\ count > 0
    /\ mutex' = TRUE
    /\ pc' = "send"
    /\ UNCHANGED <<batch, sum, count, call, quit, reports>>
Tick ==
    /\ pc = "select"
    /\ ~mutex
    /\ batch < MaxBatch
    /\ mutex' = TRUE
    /\ pc' = "send"
    /\ UNCHANGED <<batch, sum, count, call, quit, reports>>

\* The consumer receives the report, of NaN if count is 0; the loop goes on to
\* the next batch.
Slip_Send ==
    /\ pc = "send"
    /\ reports' = Append(reports, [batch |-> batch, sum |-> sum, count |-> count])
    /\ batch' = batch + 1
    /\ pc' = "newBatch"
    /\ UNCHANGED <<mutex, sum, count, call, quit>>
Send ==
    /\ pc = "send"
    /\ reports' = Append(reports, [batch |-> batch, sum |-> sum, count |-> count])
    /\ batch' = batch + 1
    /\ mutex' = FALSE
    /\ pc' = "newBatch"
    /\ UNCHANGED <<sum, count, call, quit>>

\* case <-quit
Quit ==
    /\ pc = "select"
    /\ quit
    /\ quit' = FALSE
    /\ pc' = "returned"
    /\ UNCHANGED <<mutex, batch, sum, count, call, reports>>

\* The consumer sends on quit, from a goroutine of its own as ws_test.go does.
SendQuit ==
    /\ pc # "returned"
    /\ ~quit
    /\ quit' = TRUE
    /\ UNCHANGED <<pc, mutex, batch, sum, count, call, reports>>

Next ==
    \/ newBatch \/ Tick \/ Send \/ Quit \/ SendQuit
    \/ \E c \in Call : getWeatherData(c) \/ retrieveData(c)

Spec == Init /\ [][Next]_vars

\* The loop and the goroutines that have an answer run; the ticker fires; a
\* select that finds quit ready again and again takes it; the consumer receives
\* until it has sent on quit.
FairSpec ==
    /\ Spec
    /\ WF_vars(newBatch) /\ WF_vars(Tick) /\ SF_vars(Quit)
    /\ WF_vars(~quit /\ Send)
    /\ \A c \in Call : SF_vars(retrieveData(c))

-----------------------------------------------------------------------------
(* Properties *)

\* The types of the variables; the loop holds the mutex just while it offers a
\* report.
TypeOK ==
    /\ pc \in {"newBatch", "select", "send", "returned"}
    /\ mutex = (pc = "send")
    /\ batch \in Batch
    /\ sum \in Seq(Call)
    /\ count \in 0 .. Cardinality(Station)
    /\ call \in [Call -> CallState]
    /\ quit \in BOOLEAN
    /\ reports \in Seq([batch : Batch, sum : Seq(Call), count : Nat])

\* The average of a batch is over the answers to that batch that were counted, each
\* once, whatever goroutines of older batches still run; what was added while a
\* batch lasted is in its report, and nothing else is (README.md:16).
AverageOfBatch ==
    /\ pc \in {"select", "send"} =>
        /\ Range(sum) = {c \in Call : c[2] = batch /\ call[c] = "counted"}
        /\ Len(sum) = count
        /\ Cardinality(Range(sum)) = count
    /\ \A i \in DOMAIN reports :
        /\ reports[i].batch = i - 1
        /\ Range(reports[i].sum) = {c \in Call : c[2] = i - 1 /\ call[c] = "counted"}
        /\ Cardinality(Range(reports[i].sum)) = reports[i].count

\* Unless it is told to quit, the loop reports batch after batch, whatever the
\* stations do: the mutex it holds while it sends is given back.
EveryBatchReported == <>(Len(reports) = MaxBatch \/ quit)

=============================================================================
