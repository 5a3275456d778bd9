----------------------- MODULE ChannelAggregatorProofs -----------------------
(***************************************************************************)
(* Proofs about ChannelAggregator, for every finite set of stations and    *)
(* every number of batches: types, that a report averages answers to its   *)
(* own batch, and that a goroutine never finds its channel full.           *)
(***************************************************************************)
EXTENDS ChannelAggregator, FiniteSetTheorems, TLAPS

\* A collector exists for the batches up to the current one, and the goroutines
\* of a batch only once its collector has started them.
Started ==
    /\ \A b \in Batch : b > batch => collector[b] = "none"
    /\ \A c \in Call : collector[c[2]] \in {"none", "started"} => call[c] = "none"

\* An answer in the sum of a batch was given to that batch, by a goroutine that
\* is over, and was added once.
SumsRight ==
    \A b \in Batch :
        /\ \A i \in DOMAIN sum[b] : sum[b][i][2] = b /\ call[sum[b][i]] = "over"
        /\ \A i, j \in DOMAIN sum[b] : sum[b][i] = sum[b][j] => i = j

\* The same of the answers in a channel, none of which has been added already.
ChansRight ==
    \A b \in Batch : \A i \in DOMAIN responseChan[b] :
        LET c == responseChan[b][i].call IN
        /\ c[2] = b /\ call[c] = "over"
        /\ \A j \in DOMAIN responseChan[b] : responseChan[b][j].call = c => j = i
        /\ \A j \in DOMAIN sum[b] : sum[b][j] # c

\* A batch is reported once, by a collector that is over and adds nothing more.
ReportsRight ==
    /\ \A i \in DOMAIN reports :
        /\ collector[reports[i].batch] = "over"
        /\ reports[i].sum = sum[reports[i].batch]
    /\ \A i, j \in DOMAIN reports : reports[i].batch = reports[j].batch => i = j

Inv == TypeOK /\ Started /\ SumsRight /\ ChansRight /\ ReportsRight

-----------------------------------------------------------------------------
\* The types of what the sequences hold.
LEMMA ElementTypes ==
    ASSUME TypeOK
    PROVE  /\ \A b \in Batch : \A i \in DOMAIN sum[b] : sum[b][i] \in Call
           /\ \A b \in Batch : \A i \in DOMAIN responseChan[b] : responseChan[b][i].call \in Call
           /\ \A i \in DOMAIN reports : reports[i].batch \in Batch
<1>1. \A b \in Batch : \A i \in DOMAIN sum[b] : sum[b][i] \in Call
  BY DEF TypeOK
<1>2. \A b \in Batch : \A i \in DOMAIN responseChan[b] : responseChan[b][i] \in Response
  <2>. HIDE DEF Response
  <2>. QED BY DEF TypeOK
<1>3. \A r \in Response : r.call \in Call
  BY DEF Response
<1>4. \A i \in DOMAIN reports : reports[i] \in [batch : Batch, sum : Seq(Call)]
  <2>. DEFINE R == [batch : Batch, sum : Seq(Call)]
  <2>1. reports \in Seq(R)
    BY DEF TypeOK
  <2>. HIDE DEF R
  <2>2. \A i \in DOMAIN reports : reports[i] \in R
    BY <2>1
  <2>. QED BY <2>2 DEF R
<1>. QED
  BY <1>1, <1>2, <1>3, <1>4

\* Initially nothing has been asked or answered.
LEMMA InitInv == Init => Inv
<1>. SUFFICES ASSUME Init PROVE Inv
  OBVIOUS
<1>. USE DEF Init
<1>1. running \in BOOLEAN /\ quit \in {"none", "offered", "taken"}
  OBVIOUS
<1>2. batch \in Batch /\ signalClosed = 0 .. batch - 1
  BY MaxBatchAssumption DEF Batch
<1>3. /\ collector \in [Batch -> {"none", "started", "collecting", "sending", "over"}]
      /\ call \in [Call -> {"none", "waiting", "answered", "NaN", "over"}]
  OBVIOUS
<1>4. /\ responseChan \in [Batch -> Seq(Response)]
      /\ sum \in [Batch -> Seq(Call)]
      /\ reports \in Seq([batch : Batch, sum : Seq(Call)])
  OBVIOUS
<1>5. TypeOK
  <2>. HIDE DEF Init
  <2>. QED
    BY <1>1, <1>2, <1>3, <1>4 DEF TypeOK
<1>6. Started
  BY DEF Started, Call, Batch
<1>7. SumsRight /\ ChansRight /\ ReportsRight
  BY DEF SumsRight, ChansRight, ReportsRight
<1>. QED
  BY <1>5, <1>6, <1>7 DEF Inv

\* What is known of the sums, the channels and the reports lasts when they and
\* the collectors that are over do not change, and no goroutine comes back.
LEMMA Frame ==
    ASSUME Inv, TypeOK',
           UNCHANGED <<responseChan, sum, reports>>,
           \A b \in Batch : collector[b] = "over" => collector'[b] = "over",
           \A c \in Call : call[c] = "over" => call'[c] = "over"
    PROVE  SumsRight' /\ ChansRight' /\ ReportsRight'
<1>1. TypeOK
  BY DEF Inv
<1>2. SumsRight'
  BY <1>1, ElementTypes DEF Inv, SumsRight
<1>3. ChansRight'
  BY <1>1, ElementTypes DEF Inv, ChansRight
<1>4. ReportsRight'
  BY <1>1, ElementTypes DEF Inv, ReportsRight
<1>. QED
  BY <1>2, <1>3, <1>4

\* The ticker and the signals on quit.
LEMMA LoopInv ==
    ASSUME Inv, Tick \/ LoopQuits \/ SendQuit
    PROVE  Inv'
<1>1. TypeOK
  BY DEF Inv
<1>2. CASE Tick
  <2>. USE <1>2 DEF Tick
  <2>1. batch' \in Batch /\ batch' = batch + 1 /\ batch \in Nat
    BY <1>1, MaxBatchAssumption DEF TypeOK, Batch
  <2>2. signalClosed' = 0 .. batch' - 1
    BY <1>1, <2>1 DEF TypeOK
  <2>3. collector' \in [Batch -> {"none", "started", "collecting", "sending", "over"}]
    BY <1>1 DEF TypeOK
  <2>4. TypeOK'
    BY <1>1, <2>1, <2>2, <2>3 DEF TypeOK
  <2>5. collector[batch + 1] = "none"
    BY <2>1 DEF Inv, Started
  <2>6. \A b \in Batch : b # batch + 1 => collector'[b] = collector[b]
    BY <1>1 DEF TypeOK
  <2>7. Started'
    <3>1. \A b \in Batch : b > batch' => collector'[b] = "none"
      BY <2>1, <2>6 DEF Inv, Started, Batch
    <3>2. \A c \in Call : c[2] \in Batch
      BY DEF Call
    <3>3. \A c \in Call : collector'[c[2]] \in {"none", "started"} => call'[c] = "none"
      BY <2>5, <2>6, <3>2 DEF Inv, Started
    <3>. QED
      BY <3>1, <3>3 DEF Started
  <2>8. \A b \in Batch : collector[b] = "over" => collector'[b] = "over"
    BY <2>5, <2>6
  <2>. QED
    BY <2>4, <2>7, <2>8, Frame DEF Inv
<1>3. CASE LoopQuits \/ SendQuit
  <2>1. /\ UNCHANGED <<batch, signalClosed, collector, sum, responseChan, call, reports>>
        /\ running' \in BOOLEAN /\ quit' \in {"none", "offered", "taken"}
    BY <1>1, <1>3 DEF LoopQuits, SendQuit, TakeQuit, collectorVars, TypeOK
  <2>2. TypeOK'
    BY <1>1, <2>1 DEF TypeOK
  <2>. QED
    BY <2>1, <2>2, Frame DEF Inv, Started
<1>. QED
  BY <1>2, <1>3

\* A collector starts its goroutines, once.
LEMMA retrieveDataInv ==
    ASSUME Inv, NEW b \in Batch, retrieveData(b)
    PROVE  Inv'
<1>. USE DEF retrieveData
<1>1. TypeOK
  BY DEF Inv
<1>2. TypeOK'
  BY <1>1 DEF TypeOK
<1>3. \A d \in Batch : collector'[d] = IF d = b THEN "collecting" ELSE collector[d]
  BY <1>1 DEF TypeOK
<1>4. \A c \in Call : c[2] \in Batch /\ (c[2] = b => call[c] = "none")
  BY DEF Inv, Started, Call
<1>5. Started'
  BY <1>1, <1>3, <1>4 DEF Inv, Started, TypeOK
<1>6. \A c \in Call : call[c] = "over" => call'[c] = "over"
  BY <1>4
<1>. QED
  BY <1>2, <1>3, <1>5, <1>6, Frame DEF Inv

\* A goroutine gets its answer, or gives up because it took the signal.
LEMMA CallInv ==
    ASSUME Inv, NEW c \in Call, getWeatherData(c) \/ CallQuits(c)
    PROVE  Inv'
<1>1. TypeOK
  BY DEF Inv
<1>2. PICK a \in {"answered", "NaN", "over"} :
            /\ call' = [call EXCEPT ![c] = a]
            /\ call[c] \in {"waiting", "answered", "NaN"}
  BY DEF getWeatherData, CallQuits, Answered
<1>3. /\ UNCHANGED <<running, batch, signalClosed, collector, sum, responseChan, reports>>
      /\ quit' \in {"none", "offered", "taken"}
  BY <1>1 DEF getWeatherData, CallQuits, TakeQuit, collectorVars, TypeOK
<1>4. TypeOK'
  BY <1>1, <1>2, <1>3 DEF TypeOK
<1>5. Started'
  BY <1>1, <1>2, <1>3 DEF Inv, Started, TypeOK
<1>6. \A d \in Call : call[d] = "over" => call'[d] = "over"
  BY <1>1, <1>2 DEF TypeOK
<1>. QED
  BY <1>3, <1>4, <1>5, <1>6, Frame DEF Inv

\* A goroutine puts its answer into the channel of its own batch; its answer is
\* neither there nor in the sum, as the goroutine is not over.
LEMMA RespondInv ==
    ASSUME Inv, NEW c \in Call, Respond(c)
    PROVE  Inv'
<1>. USE DEF Respond, Channel, Answered, collectorVars
<1>1. TypeOK
  BY DEF Inv
<1>. DEFINE b == c[2]
            r == [call |-> c, nan |-> call[c] = "NaN"]
<1>2. b \in Batch /\ r \in Response /\ r.call = c
  BY DEF Call, Response
<1>3. /\ responseChan'[b] = Append(responseChan[b], r)
      /\ \A d \in Batch : d # b => responseChan'[d] = responseChan[d]
  BY <1>1, <1>2 DEF TypeOK
<1>4. responseChan[b] \in Seq(Response)
  BY <1>1, <1>2 DEF TypeOK
<1>5. /\ Len(responseChan'[b]) = Len(responseChan[b]) + 1
      /\ \A i \in 1 .. Len(responseChan[b]) : responseChan'[b][i] = responseChan[b][i]
      /\ responseChan'[b][Len(responseChan[b]) + 1] = r
      /\ DOMAIN responseChan[b] = 1 .. Len(responseChan[b])
      /\ DOMAIN responseChan'[b] = 1 .. Len(responseChan[b]) + 1
      /\ Len(responseChan[b]) \in Nat
  <2>. HIDE DEF r, b, Respond
  <2>. QED
    BY <1>2, <1>3, <1>4
<1>6. TypeOK'
  BY <1>1, <1>2 DEF TypeOK
<1>7. /\ \A d \in Call : call[d] = "over" => call'[d] = "over"
      /\ call'[c] = "over" /\ call[c] # "over" /\ call[c] # "none"
  BY <1>1 DEF TypeOK
<1>8. Started'
  BY <1>1, <1>7 DEF Inv, Started, TypeOK
<1>9. \A d \in Batch : \A i \in DOMAIN sum[d] : sum[d][i] \in Call
  BY <1>1, ElementTypes
<1>10. SumsRight'
  BY <1>7, <1>9 DEF Inv, SumsRight
<1>11. ChansRight'
  <2>. SUFFICES ASSUME NEW d \in Batch, NEW i \in DOMAIN responseChan'[d]
                PROVE  LET e == responseChan'[d][i].call IN
                       /\ e[2] = d /\ call'[e] = "over"
                       /\ \A j \in DOMAIN responseChan'[d] : responseChan'[d][j].call = e => j = i
                       /\ \A j \in DOMAIN sum[d] : sum[d][j] # e
    BY DEF ChansRight
  <2>1. \A j \in DOMAIN responseChan[d] : responseChan[d][j].call \in Call
    BY <1>1, ElementTypes
  <2>2. CASE d # b
    BY <2>1, <2>2, <1>3, <1>7 DEF Inv, ChansRight
  <2>3. CASE d = b
    <3>1. \A j \in DOMAIN responseChan[b] : responseChan[b][j].call # c
      BY <1>2, <1>7 DEF Inv, ChansRight
    <3>2. \A j \in DOMAIN sum[b] : sum[b][j] # c
      BY <1>2, <1>7 DEF Inv, SumsRight
    <3>3. CASE i = Len(responseChan[b]) + 1
      BY <2>3, <3>1, <3>2, <3>3, <1>2, <1>5, <1>7
    <3>4. CASE i \in DOMAIN responseChan[b]
      BY <2>1, <2>3, <3>1, <3>4, <1>2, <1>5, <1>7 DEF Inv, ChansRight
    <3>. QED
      BY <2>3, <3>3, <3>4, <1>5
  <2>. QED
    BY <2>2, <2>3
<1>12. ReportsRight'
  BY DEF Inv, ReportsRight
<1>. QED
  BY <1>6, <1>8, <1>10, <1>11, <1>12 DEF Inv

\* A collector moves an answer from its channel to its sum, or drops a NaN.
LEMMA CollectInv ==
    ASSUME Inv, NEW b \in Batch, Collect(b)
    PROVE  Inv'
<1>. USE DEF Collect
<1>1. TypeOK
  BY DEF Inv
<1>. DEFINE q == responseChan[b]
            r == Head(q)
<1>2. q \in Seq(Response) /\ q # <<>>
  BY <1>1 DEF TypeOK
<1>3. /\ Tail(q) \in Seq(Response)
      /\ Len(q) \in Nat \ {0} /\ Len(Tail(q)) = Len(q) - 1
      /\ r = q[1] /\ r \in Response
      /\ DOMAIN q = 1 .. Len(q) /\ DOMAIN Tail(q) = 1 .. Len(q) - 1
      /\ \A i \in 1 .. Len(q) - 1 : Tail(q)[i] = q[i + 1]
  <2>. HIDE DEF q, Response
  <2>. QED
    BY <1>2
<1>4. /\ responseChan'[b] = Tail(q)
      /\ \A d \in Batch : d # b => responseChan'[d] = responseChan[d]
      /\ responseChan' \in [Batch -> Seq(Response)]
  BY <1>1, <1>3 DEF TypeOK
<1>5. r.call \in Call /\ r.call[2] = b /\ call[r.call] = "over"
  BY <1>1, <1>3, ElementTypes DEF Inv, ChansRight
<1>6. \A j \in DOMAIN sum[b] : sum[b][j] # r.call
  BY <1>3 DEF Inv, ChansRight
<1>7. \A i \in 1 .. Len(q) - 1 : Tail(q)[i].call # r.call
  <2>. SUFFICES ASSUME NEW i \in 1 .. Len(q) - 1, q[i + 1].call = r.call PROVE FALSE
    BY <1>3
  <2>1. i + 1 \in DOMAIN q /\ 1 \in DOMAIN q /\ i + 1 # 1
    BY <1>3
  <2>. QED
    BY <1>3, <2>1 DEF Inv, ChansRight
<1>8. ASSUME sum' = [sum EXCEPT ![b] = Append(@, r.call)]
      PROVE  /\ sum' \in [Batch -> Seq(Call)]
             /\ \A d \in Batch : d # b => sum'[d] = sum[d]
             /\ Len(sum[b]) \in Nat
             /\ DOMAIN sum[b] = 1 .. Len(sum[b]) /\ DOMAIN sum'[b] = 1 .. Len(sum[b]) + 1
             /\ \A i \in 1 .. Len(sum[b]) : sum'[b][i] = sum[b][i]
             /\ sum'[b][Len(sum[b]) + 1] = r.call
  <2>. HIDE DEF Collect, r
  <2>1. sum \in [Batch -> Seq(Call)]
    BY <1>1 DEF TypeOK
  <2>2. sum' \in [Batch -> Seq(Call)] /\ sum'[b] = Append(sum[b], r.call)
    BY <1>5, <1>8, <2>1
  <2>3. \A d \in Batch : d # b => sum'[d] = sum[d]
    BY <1>8, <2>1
  <2>. QED
    BY <1>5, <2>1, <2>2, <2>3
<1>9. SumsRight' /\ sum' \in [Batch -> Seq(Call)]
  <2>1. CASE r.nan
    BY <2>1, <1>1 DEF Inv, SumsRight, TypeOK
  <2>2. CASE ~r.nan
    <3>1. sum' = [sum EXCEPT ![b] = Append(@, r.call)]
      BY <2>2
    <3>. HIDE DEF r
    <3>2. SUFFICES ASSUME NEW d \in Batch
                  PROVE  /\ \A i \in DOMAIN sum'[d] : sum'[d][i][2] = d /\ call[sum'[d][i]] = "over"
                         /\ \A i, j \in DOMAIN sum'[d] : sum'[d][i] = sum'[d][j] => i = j
      BY <3>1, <1>8 DEF SumsRight
    <3>3. CASE d # b
      BY <3>1, <3>3, <1>8 DEF Inv, SumsRight
    <3>4. CASE d = b
      BY <3>1, <3>4, <1>5, <1>6, <1>8 DEF Inv, SumsRight
    <3>. QED
      BY <3>3, <3>4
  <2>. QED
    BY <2>1, <2>2
<1>10. TypeOK'
  BY <1>1, <1>4, <1>9 DEF TypeOK
<1>11. Started'
  BY DEF Inv, Started
<1>12. ChansRight'
  <2>. HIDE DEF r, q
  <2>1. \A d \in Batch : \A j \in DOMAIN sum'[d] :
            \/ j \in DOMAIN sum[d] /\ sum'[d][j] = sum[d][j]
            \/ d = b /\ sum'[d][j] = r.call
    <3>1. CASE r.nan
      BY <3>1 DEF r, q
    <3>2. CASE ~r.nan
      <4>1. sum' = [sum EXCEPT ![b] = Append(@, r.call)]
        BY <3>2 DEF r, q
      <4>. QED
        BY <4>1, <1>8
    <3>. QED
      BY <3>1, <3>2
  <2>2. SUFFICES ASSUME NEW d \in Batch, NEW i \in DOMAIN responseChan'[d]
                PROVE  LET e == responseChan'[d][i].call IN
                       /\ e[2] = d /\ call[e] = "over"
                       /\ \A j \in DOMAIN responseChan'[d] : responseChan'[d][j].call = e => j = i
                       /\ \A j \in DOMAIN sum'[d] : sum'[d][j] # e
    BY DEF ChansRight
  <2>3. CASE d # b
    BY <2>1, <2>3, <1>4 DEF Inv, ChansRight
  <2>4. CASE d = b
    <3>1. i \in 1 .. Len(q) - 1 /\ i + 1 \in DOMAIN q /\ responseChan'[d][i] = q[i + 1]
      BY <2>4, <1>3, <1>4
    <3>. DEFINE e == q[i + 1].call
    <3>2. /\ e[2] = d /\ call[e] = "over"
          /\ \A j \in DOMAIN q : q[j].call = e => j = i + 1
          /\ \A j \in DOMAIN sum[d] : sum[d][j] # e
      BY <2>4, <3>1 DEF Inv, ChansRight, q
    <3>3. \A j \in DOMAIN responseChan'[d] : responseChan'[d][j].call = e => j = i
      <4>. SUFFICES ASSUME NEW j \in DOMAIN responseChan'[d], responseChan'[d][j].call = e PROVE j = i
        OBVIOUS
      <4>1. j \in 1 .. Len(q) - 1 /\ j + 1 \in DOMAIN q /\ responseChan'[d][j] = q[j + 1]
        BY <2>4, <1>3, <1>4
      <4>. QED
        BY <3>1, <3>2, <4>1
    <3>4. e # r.call
      BY <1>3, <1>7, <3>1
    <3>. QED
      BY <2>1, <3>1, <3>2, <3>3, <3>4
  <2>. QED
    BY <2>3, <2>4
<1>13. ReportsRight'
  <2>1. \A i \in DOMAIN reports : reports[i].batch \in Batch /\ reports[i].batch # b
    BY <1>1, ElementTypes DEF Inv, ReportsRight
  <2>2. \A d \in Batch : d # b => sum'[d] = sum[d]
    BY <1>8
  <2>. QED
    BY <2>1, <2>2 DEF Inv, ReportsRight
<1>. QED
  BY <1>9, <1>10, <1>11, <1>12, <1>13 DEF Inv

\* A collector stops, or takes the signal instead of sending its report.
LEMMA StopInv ==
    ASSUME Inv, NEW b \in Batch, StopCollecting(b) \/ CollectorQuits(b)
    PROVE  Inv'
<1>1. TypeOK
  BY DEF Inv
<1>2. PICK s \in {"sending", "over"} :
            /\ collector' = [collector EXCEPT ![b] = s]
            /\ collector[b] \in {"collecting", "sending"}
  BY DEF StopCollecting, CollectorQuits
<1>3. /\ UNCHANGED <<running, batch, signalClosed, responseChan, sum, call, reports>>
      /\ quit' \in {"none", "offered", "taken"}
  BY <1>1 DEF StopCollecting, CollectorQuits, TakeQuit, TypeOK
<1>4. TypeOK'
  BY <1>1, <1>2, <1>3 DEF TypeOK
<1>5. \A d \in Batch : collector'[d] = IF d = b THEN s ELSE collector[d]
  BY <1>1, <1>2 DEF TypeOK
<1>6. \A c \in Call : c[2] \in Batch
  BY DEF Call
<1>7. Started'
  BY <1>2, <1>3, <1>5, <1>6 DEF Inv, Started
<1>8. \A d \in Batch : collector[d] = "over" => collector'[d] = "over"
  BY <1>2, <1>5
<1>. QED
  BY <1>3, <1>4, <1>7, <1>8, Frame DEF Inv

\* The report of a batch is sent once, as its collector is over with it.
LEMMA SendInv ==
    ASSUME Inv, NEW b \in Batch, Send(b)
    PROVE  Inv'
<1>. USE DEF Send
<1>1. TypeOK
  BY DEF Inv
<1>. DEFINE r == [batch |-> b, sum |-> sum[b]]
            R == [batch : Batch, sum : Seq(Call)]
<1>2. r \in R /\ r.batch = b /\ r.sum = sum[b]
  BY <1>1 DEF TypeOK
<1>3. reports \in Seq(R) /\ reports' = Append(reports, r)
  BY <1>1 DEF TypeOK
<1>4. /\ reports' \in Seq(R) /\ Len(reports) \in Nat
      /\ DOMAIN reports = 1 .. Len(reports) /\ DOMAIN reports' = 1 .. Len(reports) + 1
      /\ \A i \in 1 .. Len(reports) : reports'[i] = reports[i]
      /\ reports'[Len(reports) + 1] = r
  <2>. HIDE DEF r, R
  <2>. QED
    BY <1>2, <1>3
<1>5. \A d \in Batch : collector'[d] = IF d = b THEN "over" ELSE collector[d]
  BY <1>1 DEF TypeOK
<1>6. TypeOK'
  BY <1>1, <1>4 DEF TypeOK
<1>7. \A c \in Call : c[2] \in Batch
  BY DEF Call
<1>8. Started'
  BY <1>5, <1>7 DEF Inv, Started
<1>9. SumsRight' /\ ChansRight'
  BY DEF Inv, SumsRight, ChansRight
<1>10. \A i \in DOMAIN reports : reports[i].batch \in Batch /\ reports[i].batch # b
  BY <1>1, ElementTypes DEF Inv, ReportsRight
<1>11. ReportsRight'
  <2>1. sum' = sum
    OBVIOUS
  <2>. HIDE DEF r, Send
  <2>2. \A i \in 1 .. Len(reports) + 1 : i \in 1 .. Len(reports) \/ i = Len(reports) + 1
    BY <1>4
  <2>3. \A i \in DOMAIN reports' :
            \/ i \in DOMAIN reports /\ reports'[i] = reports[i]
            \/ i = Len(reports) + 1 /\ reports'[i] = r
    BY <1>4, <2>2, Zenon
  <2>. QED
    BY <1>2, <1>5, <1>10, <2>1, <2>3 DEF Inv, ReportsRight
<1>. QED
  BY <1>6, <1>8, <1>9, <1>11 DEF Inv

\* Every step keeps the invariant.
LEMMA NextInv == Inv /\ [Next]_vars => Inv'
<1>. SUFFICES ASSUME Inv, [Next]_vars PROVE Inv'
  OBVIOUS
<1>1. CASE Tick \/ LoopQuits \/ SendQuit
  BY <1>1, LoopInv
<1>2. ASSUME NEW c \in Call, getWeatherData(c) \/ CallStep(c)
      PROVE  Inv'
  BY <1>2, CallInv, RespondInv DEF CallStep
<1>3. ASSUME NEW b \in Batch, CollectorStep(b) \/ Send(b)
      PROVE  Inv'
  BY <1>3, retrieveDataInv, CollectInv, StopInv, SendInv DEF CollectorStep
<1>4. CASE UNCHANGED vars
  <2>. USE <1>4 DEF vars, collectorVars
  <2>1. TypeOK'
    BY DEF Inv, TypeOK
  <2>2. Started'
    BY DEF Inv, Started
  <2>. QED
    BY <2>1, <2>2, Frame DEF Inv
<1>. QED
  BY <1>1, <1>2, <1>3, <1>4 DEF Next

\* The inductive invariant holds in every reachable state: what the channels hold
\* and what has been added up belong to one batch.
THEOREM Invariance == Spec => []Inv
<1>. QED
  BY InitInv, NextInv, PTL DEF Spec

-----------------------------------------------------------------------------
\* The types of channelAggregator's variables; the signal channels that are
\* closed are those of the batches before the current one.
THEOREM TypeCorrect == Spec => []TypeOK
<1>1. Inv => TypeOK
  BY DEF Inv
<1>. QED
  BY <1>1, Invariance, PTL

\* However collectors of several batches and late goroutines interleave, a
\* report averages answers to its own batch, none twice, and is sent once.
THEOREM BatchesSeparate == Spec => []BatchesDontMix
<1>1. Inv => BatchesDontMix
  <2>. SUFFICES ASSUME Inv PROVE BatchesDontMix
    OBVIOUS
  <2>1. \A b \in Batch : (\A c \in Range(sum[b]) : c[2] = b) /\ IsInjective(sum[b])
    BY DEF Inv, SumsRight, Range, IsInjective
  <2>2. \A i \in DOMAIN reports : reports[i].sum = sum[reports[i].batch]
    BY DEF Inv, ReportsRight
  <2>3. \A i, j \in DOMAIN reports : reports[i].batch = reports[j].batch => i = j
    BY DEF Inv, ReportsRight
  <2>. QED
    BY <2>1, <2>2, <2>3 DEF BatchesDontMix
<1>. QED
  BY <1>1, Invariance, PTL

\* The counting argument: the answers in a channel are distinct, and so are the
\* stations they come from; one that is not in it leaves room for itself.
LEMMA Room == Inv => RoomForAnswer
<1>. SUFFICES ASSUME Inv, NEW c \in Call, Answered(c)
              PROVE  Len(responseChan[c[2]]) < Cardinality(Station)
  BY DEF RoomForAnswer, Channel, Capacity
<1>. DEFINE b == c[2]
            q == responseChan[b]
            T == Station \X {b}
            g == [s \in Station |-> <<s, b>>]
            f == [i \in 1 .. Len(q) |-> q[i].call]
<1>1. TypeOK /\ b \in Batch
  BY DEF Inv, Call
<1>2. q \in Seq(Response)
  BY <1>1 DEF TypeOK
<1>3. Len(q) \in Nat /\ DOMAIN q = 1 .. Len(q)
  <2>. HIDE DEF q, Response
  <2>. QED BY <1>2
<1>4. g \in Surjection(Station, T)
  <2>1. \A t \in T : \E s \in Station : t = <<s, b>>
    OBVIOUS
  <2>2. \A s \in Station : g[s] = <<s, b>> /\ <<s, b>> \in T
    OBVIOUS
  <2>3. g \in [Station -> T]
    BY <2>2
  <2>. HIDE DEF g, T, b
  <2>. QED
    BY <2>1, <2>2, <2>3 DEF Surjection
<1>5. IsFiniteSet(T) /\ Cardinality(T) <= Cardinality(Station)
  <2>. HIDE DEF g, T, b
  <2>. QED
    BY <1>4, StationAssumption, FS_Surjection
<1>6. c \in T
  BY DEF Call
<1>7. IsFiniteSet(T \ {c}) /\ Cardinality(T \ {c}) = Cardinality(T) - 1
  <2>. HIDE DEF T
  <2>. QED
    BY <1>5, <1>6, FS_RemoveElement
<1>8. call[c] # "over"
  BY DEF Answered
<1>9. \A i \in DOMAIN q : /\ q[i].call \in T \ {c}
                         /\ \A j \in DOMAIN q : q[j].call = q[i].call => j = i
  BY <1>1, <1>8, ElementTypes DEF Inv, ChansRight, Call
<1>10. f \in Injection(1 .. Len(q), T \ {c})
  <2>1. f \in [1 .. Len(q) -> T \ {c}]
    BY <1>3, <1>9
  <2>2. \A i, j \in 1 .. Len(q) : f[i] = f[j] => i = j
    BY <1>3, <1>9
  <2>. HIDE DEF f, T
  <2>. QED
    BY <2>1, <2>2 DEF Injection, IsInjective
<1>11. Cardinality(1 .. Len(q)) <= Cardinality(T \ {c})
  <2>. HIDE DEF f, T, q
  <2>. QED
    BY <1>7, <1>10, FS_Injection
<1>12. Cardinality(1 .. Len(q)) = Len(q)
  <2>1. Cardinality(1 .. Len(q)) = IF 1 > Len(q) THEN 0 ELSE Len(q) - 1 + 1
    <3>1. 1 \in Int /\ Len(q) \in Int
      BY <1>3
    <3>. HIDE DEF q
    <3>. QED
      BY <3>1, FS_Interval, Zenon
  <2>. QED
    BY <1>3, <2>1
<1>13. Cardinality(T) \in Nat /\ Cardinality(Station) \in Nat
  BY <1>5, StationAssumption, FS_CardinalityType
<1>. HIDE DEF q, T
<1>14. Len(q) < Cardinality(Station)
  BY <1>3, <1>5, <1>7, <1>11, <1>12, <1>13
<1>. QED
  BY <1>14 DEF q

\* The goroutine of a station never waits to send its answer, early or late: the
\* channel that retrieveData makes has room for one answer of every station.
THEOREM RespondNeverBlocks == Spec => []RoomForAnswer
<1>. QED
  BY Room, Invariance, PTL

=============================================================================
