------------------------- MODULE ChannelAggregator --------------------------
(***************************************************************************)
(* channelAggregator of ws/channel_aggregator.go: a loop that closes the   *)
(* signal channel of the current batch when its ticker fires and starts a  *)
(* collector, the goroutine retrieveData, for the next one; a collector    *)
(* starts one goroutine per weather station and averages the answers it    *)
(* takes from its own buffered channel until its signal is closed.         *)
(*                                                                         *)
(* As in MutexAggregator, a temperature is abstracted to the <<station,    *)
(* batch>> it was asked for, and a sum to the sequence of what was added.  *)
(*                                                                         *)
(* A Slip_ operator is the definition after it with a likely mistake; it   *)
(* only serves to confirm that a property would notice it.                 *)
(***************************************************************************)
EXTENDS Integers, Sequences, FiniteSets, Functions

CONSTANTS
    Station,    \* the stations 0 .. k-1
    MaxBatch    \* bound: the last batch that is started

ASSUME StationAssumption == IsFiniteSet(Station)
ASSUME MaxBatchAssumption == MaxBatch \in Nat

Batch == 0 .. MaxBatch
Call == Station \X Batch        \* a goroutine that asks one station

VARIABLES
    running,        \* whether the loop is running
    batch,          \* batch of the loop
    signalClosed,   \* batches whose signal channel is closed
    collector,      \* progress of retrieveData, for each batch
    responseChan,   \* contents of the channel of each batch
    sum,            \* sum (and count) of each collector
    call,           \* progress of the goroutine of each station and batch
    quit,           \* the consumer's signal: none, offered on the channel, or taken
    reports         \* what the consumer has received from out

collectorVars == <<collector, sum>>
vars == <<running, batch, signalClosed, collectorVars, responseChan, call, quit, reports>>

\* An answer is a temperature, named by its call, or NaN.
Response == [call : Call, nan : BOOLEAN]

Init ==
    /\ running = TRUE
    /\ batch = 0
    /\ signalClosed = {}
    /\ collector = [b \in Batch |-> IF b = 0 THEN "started" ELSE "none"]
    /\ responseChan = [b \in Batch |-> <<>>]
    /\ sum = [b \in Batch |-> <<>>]
    /\ call = [c \in Call |-> "none"]
    /\ quit = "none"
    /\ reports = <<>>

-----------------------------------------------------------------------------
(* The loop *)

\* case <-stamp.C
Slip_Tick ==
    /\ running
    /\ batch < MaxBatch
    /\ batch' = batch + 1
    /\ collector' = [collector EXCEPT ![batch + 1] = "started"]
    /\ UNCHANGED <<running, signalClosed, responseChan, sum, call, quit, reports>>
Tick ==
    /\ running
    /\ batch < MaxBatch
    /\ signalClosed' = signalClosed \cup {batch}
    /\ batch' = batch + 1
    /\ collector' = [collector EXCEPT ![batch + 1] = "started"]
    /\ UNCHANGED <<running, responseChan, sum, call, quit, reports>>

\* A signal on quit has one receiver.
TakeQuit == quit = "offered" /\ quit' = "taken"

\* case <-quit
LoopQuits ==
    /\ running
    /\ TakeQuit
    /\ running' = FALSE
    /\ UNCHANGED <<batch, signalClosed, collectorVars, responseChan, call, reports>>

-----------------------------------------------------------------------------
(* Collectors and the goroutines they start *)

\* retrieveData makes its channel and starts a goroutine for each station.
retrieveData(b) ==
    /\ collector[b] = "started"
    /\ collector' = [collector EXCEPT ![b] = "collecting"]
    /\ call' = [c \in Call |-> IF c[2] = b THEN "waiting" ELSE call[c]]
    /\ UNCHANGED <<running, batch, signalClosed, responseChan, sum, quit, reports>>

\* getWeatherData returns, early, late, or never.
getWeatherData(c) ==
    /\ call[c] = "waiting"
    /\ \E answer \in {"answered", "NaN"} : call' = [call EXCEPT ![c] = answer]
    /\ UNCHANGED <<running, batch, signalClosed, collectorVars, responseChan, quit, reports>>

Answered(c) == call[c] \in {"answered", "NaN"}

\* responseChan := make(chan WeatherReport, k)
Slip_Capacity == 1
Capacity == Cardinality(Station)

\* The channel that a goroutine sends its answer to.
Slip_Channel(c) == batch
Channel(c) == c[2]

\* case responseChan <- response
Respond(c) ==
    /\ Answered(c)
    /\ Len(responseChan[Channel(c)]) < Capacity
    /\ responseChan' = [responseChan EXCEPT ![Channel(c)] =
                            Append(@, [call |-> c, nan |-> call[c] = "NaN"])]
    /\ call' = [call EXCEPT ![c] = "over"]
    /\ UNCHANGED <<running, batch, signalClosed, collectorVars, quit, reports>>

\* case <-quit, in the goroutine of a station
CallQuits(c) ==
    /\ Answered(c)
    /\ TakeQuit
    /\ call' = [call EXCEPT ![c] = "over"]
    /\ UNCHANGED <<running, batch, signalClosed, collectorVars, responseChan, reports>>

\* case report := <-responseChan
Collect(b) ==
    /\ collector[b] = "collecting"
    /\ responseChan[b] # <<>>
    /\ LET r == Head(responseChan[b]) IN
       sum' = IF r.nan THEN sum ELSE [sum EXCEPT ![b] = Append(@, r.call)]
    /\ responseChan' = [responseChan EXCEPT ![b] = Tail(@)]
    /\ UNCHANGED <<running, batch, signalClosed, collector, call, quit, reports>>

\* case <-signal: answers still in the channel are left there
StopCollecting(b) ==
    /\ collector[b] = "collecting"
    /\ b \in signalClosed
    /\ collector' = [collector EXCEPT ![b] = "sending"]
    /\ UNCHANGED <<running, batch, signalClosed, responseChan, sum, call, quit, reports>>

\* The consumer receives the report, of NaN if nothing was added.
Send(b) ==
    /\ collector[b] = "sending"
    /\ reports' = Append(reports, [batch |-> b, sum |-> sum[b]])
    /\ collector' = [collector EXCEPT ![b] = "over"]
    /\ UNCHANGED <<running, batch, signalClosed, responseChan, sum, call, quit>>

\* case <-quit, in a collector that offers its report
CollectorQuits(b) ==
    /\ collector[b] = "sending"
    /\ TakeQuit
    /\ collector' = [collector EXCEPT ![b] = "over"]
    /\ UNCHANGED <<running, batch, signalClosed, responseChan, sum, call, reports>>

-----------------------------------------------------------------------------
\* The consumer sends one signal on quit, from a goroutine of its own as ws_test.go does.
SendQuit ==
    /\ running
    /\ quit = "none"
    /\ quit' = "offered"
    /\ UNCHANGED <<running, batch, signalClosed, collectorVars, responseChan, call, reports>>

CallStep(c) == Respond(c) \/ CallQuits(c)
CollectorStep(b) == retrieveData(b) \/ Collect(b) \/ StopCollecting(b) \/ CollectorQuits(b)

Next ==
    \/ Tick \/ LoopQuits \/ SendQuit
    \/ \E c \in Call : getWeatherData(c) \/ CallStep(c)
    \/ \E b \in Batch : CollectorStep(b) \/ Send(b)

Spec == Init /\ [][Next]_vars

\* The ticker fires, goroutines run, a select that finds a case ready again and
\* again takes it, and the consumer receives.
FairSpec ==
    /\ Spec
    /\ WF_vars(Tick) /\ SF_vars(LoopQuits)
    /\ \A c \in Call : WF_vars(CallStep(c))
    /\ \A b \in Batch : /\ WF_vars(retrieveData(b))
                        /\ SF_vars(StopCollecting(b))
                        /\ SF_vars(Send(b))

-----------------------------------------------------------------------------
(* Properties *)

\* The types of the variables; the signal of every batch but the current one is
\* closed, so that no collector of an earlier batch is left waiting.  That of the
\* current batch waits for ever once the loop was told to quit.
TypeOK ==
    /\ running \in BOOLEAN
    /\ batch \in Batch
    /\ signalClosed = 0 .. batch - 1
    /\ collector \in [Batch -> {"none", "started", "collecting", "sending", "over"}]
    /\ responseChan \in [Batch -> Seq(Response)]
    /\ sum \in [Batch -> Seq(Call)]
    /\ call \in [Call -> {"none", "waiting", "answered", "NaN", "over"}]
    /\ quit \in {"none", "offered", "taken"}
    /\ reports \in Seq([batch : Batch, sum : Seq(Call)])

\* A report averages answers to its own batch only, no station twice, and no
\* batch is reported twice, though collectors of several batches, and late
\* answers, run at the same time (README.md:16).
BatchesDontMix ==
    /\ \A b \in Batch :
        /\ \A c \in Range(sum[b]) : c[2] = b
        /\ IsInjective(sum[b])
    /\ \A i \in DOMAIN reports : reports[i].sum = sum[reports[i].batch]
    /\ \A i, j \in DOMAIN reports : reports[i].batch = reports[j].batch => i = j

\* A goroutine that has its answer finds room in its channel, even when nobody
\* collects any more: make(chan WeatherReport, k) is large enough, so that the
\* send of line 55 never waits for a receiver.  This is why no goroutine leaks.
RoomForAnswer == \A c \in Call : Answered(c) => Len(responseChan[Channel(c)]) < Capacity

\* The goroutine of a station ends once it has its answer, even if the answer
\* is late and nobody collects it: the channel has room for all stations.
NoGoroutineLeak == \A c \in Call : Answered(c) ~> call[c] = "over"

\* Every batch whose period has passed is reported, unless the consumer quits.
EveryBatchReported ==
    \A b \in Batch : b < MaxBatch =>
        <>(quit # "none" \/ \E i \in DOMAIN reports : reports[i].batch = b)

=============================================================================
