------------------------ MODULE MutexAggregatorProofs ------------------------
(***************************************************************************)
(* Proofs about MutexAggregator, for every finite set of stations and      *)
(* every number of batches: types, and what a report is the average of.    *)
(***************************************************************************)
EXTENDS MutexAggregator, FiniteSetTheorems, TLAPS

\* The calls of a batch whose answer was added to the sum.
Counted(b) == {c \in Call : c[2] = b /\ call[c] = "counted"}

\* The variables sum and count describe the current batch from the moment
\* newBatch has reset them.
SumOfBatch ==
    pc # "newBatch" =>
        /\ Range(sum) = Counted(batch)
        /\ Len(sum) = count
        /\ Cardinality(Counted(batch)) = count

\* Every report is about its batch, and the answers to it that were counted.
ReportsRight ==
    \A i \in DOMAIN reports :
        /\ reports[i].batch = i - 1
        /\ Range(reports[i].sum) = Counted(i - 1)
        /\ Cardinality(Counted(i - 1)) = reports[i].count

\* No goroutine runs for a batch that newBatch has not started.
NotStarted ==
    \A c \in Call : (c[2] > batch \/ (pc = "newBatch" /\ c[2] = batch)) => call[c] = "none"

\* The types, and that the loop has reported every batch before the current one.
Types ==
    /\ TypeOK
    /\ pc = "send" => batch < MaxBatch
    /\ Len(reports) = batch

Inv == Types /\ NotStarted /\ SumOfBatch /\ ReportsRight

-----------------------------------------------------------------------------
\* A batch has no more calls than there are stations.
LEMMA CallsBound ==
    ASSUME NEW b \in Batch, NEW C, C \subseteq {c \in Call : c[2] = b}
    PROVE  /\ IsFiniteSet(C)
           /\ Cardinality(C) <= Cardinality(Station)
<1>. DEFINE T == Station \X {b}
            f == [s \in Station |-> <<s, b>>]
<1>1. f \in Surjection(Station, T)
  <2>1. \A t \in T : \E s \in Station : t = <<s, b>>
    OBVIOUS
  <2>2. \A s \in Station : f[s] = <<s, b>> /\ <<s, b>> \in T
    OBVIOUS
  <2>3. f \in [Station -> T]
    BY <2>2
  <2>. HIDE DEF f, T
  <2>. QED
    BY <2>1, <2>2, <2>3 DEF Surjection
<1>2. IsFiniteSet(T) /\ Cardinality(T) <= Cardinality(Station)
  BY <1>1, StationAssumption, FS_Surjection
<1>3. C \subseteq T
  BY DEF Call
<1>4. IsFiniteSet(C) /\ Cardinality(C) <= Cardinality(T)
  BY <1>2, <1>3, FS_Subset
<1>. QED
  BY <1>2, <1>4, StationAssumption, FS_CardinalityType

\* Appending to a sequence adds one element to its range.
LEMMA RangeAppend ==
    ASSUME NEW S, NEW s \in Seq(S), NEW x \in S
    PROVE  Range(Append(s, x)) = Range(s) \cup {x}
<1>1. Append(s, x) \in Seq(S) /\ Len(Append(s, x)) = Len(s) + 1
  OBVIOUS
<1>2. \A i \in 1 .. Len(s) : Append(s, x)[i] = s[i]
  OBVIOUS
<1>3. Append(s, x)[Len(s) + 1] = x
  OBVIOUS
<1>4. DOMAIN s = 1 .. Len(s) /\ DOMAIN Append(s, x) = 1 .. Len(s) + 1
  BY <1>1
<1>. QED
  BY <1>1, <1>2, <1>3, <1>4 DEF Range

-----------------------------------------------------------------------------
\* Initially no batch has been asked for.
LEMMA InitInv == Init => Inv
<1>. SUFFICES ASSUME Init PROVE Inv
  OBVIOUS
<1>. USE DEF Init
<1>1. Cardinality(Station) \in Nat
  BY StationAssumption, FS_CardinalityType
<1>2. TypeOK
  <2>1. batch \in Batch /\ count \in 0 .. Cardinality(Station)
    BY <1>1, MaxBatchAssumption DEF Batch
  <2>2. call \in [Call -> CallState]
    BY DEF CallState
  <2>3. mutex = FALSE /\ pc # "send"
    OBVIOUS
  <2>4. mutex = (pc = "send")
    <3>1. (pc = "send") = FALSE
      BY <2>3
    <3>. QED
      BY <2>3, <3>1
  <2>5. /\ pc \in {"newBatch", "select", "send", "returned"}
        /\ sum \in Seq(Call)
        /\ reports \in Seq([batch : Batch, sum : Seq(Call), count : Nat])
    OBVIOUS
  <2>6. quit \in BOOLEAN
    OBVIOUS
  <2>. HIDE DEF Init
  <2>. QED
    BY <2>1, <2>2, <2>4, <2>5, <2>6 DEF TypeOK
<1>. QED
  BY <1>2 DEF Inv, Types, NotStarted, SumOfBatch, ReportsRight, Call

\* The loop's reset: nothing of the new batch is counted yet.
LEMMA newBatchInv ==
    ASSUME Inv, newBatch
    PROVE  Inv'
<1>. USE DEF newBatch
<1>1. TypeOK /\ (pc = "send" => batch < MaxBatch) /\ Len(reports) = batch
  BY DEF Inv, Types
<1>2. call' \in [Call -> CallState]
  BY <1>1 DEF TypeOK, CallState
<1>3. Cardinality(Station) \in Nat
  BY StationAssumption, FS_CardinalityType
<1>4. Types'
  BY <1>1, <1>2, <1>3 DEF Types, TypeOK
<1>5. NotStarted'
  BY <1>1 DEF Inv, NotStarted, TypeOK, Call, Batch
<1>6. Counted(batch)' = {}
  BY DEF Counted
<1>7. SumOfBatch'
  BY <1>6, FS_EmptySet DEF SumOfBatch, Range
<1>8. \A i \in DOMAIN reports : Counted(i - 1)' = Counted(i - 1)
  <2>. SUFFICES ASSUME NEW i \in DOMAIN reports PROVE Counted(i - 1)' = Counted(i - 1)
    OBVIOUS
  <2>1. i - 1 # batch
    BY <1>1 DEF TypeOK, Batch
  <2>. QED
    BY <2>1 DEF Counted
<1>9. ReportsRight'
  BY <1>8 DEF ReportsRight, Inv
<1>. QED
  BY <1>4, <1>5, <1>7, <1>9 DEF Inv

\* A step of the rest of the loop, or of the consumer, that touches neither the
\* calls nor the sum nor the reports.
LEMMA LoopInv ==
    ASSUME Inv, Tick \/ Quit \/ SendQuit
    PROVE  Inv'
<1>. USE DEF Tick, Quit, SendQuit
<1>1. TypeOK /\ (pc = "send" => batch < MaxBatch) /\ Len(reports) = batch
  BY DEF Inv, Types
<1>2. Types'
  BY <1>1 DEF Types, TypeOK
<1>3. NotStarted'
  BY DEF Inv, NotStarted
<1>4. SumOfBatch'
  BY DEF Inv, SumOfBatch, Counted
<1>5. ReportsRight'
  BY DEF Inv, ReportsRight, Counted
<1>. QED
  BY <1>2, <1>3, <1>4, <1>5 DEF Inv

\* The report that is sent is the sum of the batch that ends.
LEMMA SendInv ==
    ASSUME Inv, Send
    PROVE  Inv'
<1>. USE DEF Send
<1>1. TypeOK /\ batch < MaxBatch /\ Len(reports) = batch
  BY DEF Inv, Types
<1>. DEFINE r == [batch |-> batch, sum |-> sum, count |-> count]
            R == [batch : Batch, sum : Seq(Call), count : Nat]
<1>2. Cardinality(Station) \in Nat
  BY StationAssumption, FS_CardinalityType
<1>3. r \in R
  BY <1>1, <1>2 DEF TypeOK
<1>4. reports \in Seq(R) /\ reports' = Append(reports, r)
  BY <1>1 DEF TypeOK
<1>5. /\ reports' \in Seq(R)
      /\ Len(reports') = Len(reports) + 1
      /\ \A i \in 1 .. Len(reports) : reports'[i] = reports[i]
      /\ reports'[Len(reports) + 1] = r
  <2>. HIDE DEF r, R
  <2>. QED BY <1>3, <1>4
<1>6. batch' \in Batch /\ batch' = batch + 1
  BY <1>1, MaxBatchAssumption DEF TypeOK, Batch
<1>7. Types'
  BY <1>1, <1>5, <1>6 DEF Types, TypeOK
<1>8. NotStarted'
  BY <1>1, <1>6 DEF Inv, NotStarted, Call, Batch, TypeOK
<1>9. SumOfBatch'
  BY DEF SumOfBatch
<1>10. ReportsRight'
  <2>. SUFFICES ASSUME NEW i \in DOMAIN reports'
                PROVE  /\ reports'[i].batch = i - 1
                       /\ Range(reports'[i].sum) = Counted(i - 1)
                       /\ Cardinality(Counted(i - 1)) = reports'[i].count
    BY DEF ReportsRight, Counted
  <2>1. i \in 1 .. batch + 1
    BY <1>1, <1>5
  <2>2. CASE i \in 1 .. batch
    BY <2>2, <1>1, <1>4, <1>5 DEF Inv, ReportsRight
  <2>3. CASE i = batch + 1
    <3>1. i - 1 = batch
      BY <2>3, <1>1 DEF TypeOK, Batch
    <3>2. reports'[i] = r
      BY <2>3, <1>1, <1>5
    <3>. QED
      BY <3>1, <3>2 DEF Inv, SumOfBatch
  <2>4. i \in 1 .. batch \/ i = batch + 1
    BY <2>1, <1>1 DEF TypeOK, Batch
  <2>. QED
    BY <2>2, <2>3, <2>4
<1>. QED
  BY <1>7, <1>8, <1>9, <1>10 DEF Inv

\* An answer that has not reached the critical section counts nowhere.
LEMMA getWeatherDataInv ==
    ASSUME Inv, NEW c \in Call, getWeatherData(c)
    PROVE  Inv'
<1>. USE DEF getWeatherData
<1>1. TypeOK
  BY DEF Inv, Types
<1>2. PICK answer \in {"answered", "NaN"} : call' = [call EXCEPT ![c] = answer]
  OBVIOUS
<1>3. call' \in [Call -> CallState]
  BY <1>1, <1>2 DEF TypeOK, CallState
<1>4. Types'
  BY <1>1, <1>3 DEF Inv, Types, TypeOK
<1>5. NotStarted'
  BY <1>1, <1>2 DEF Inv, NotStarted, TypeOK
<1>6. \A b : Counted(b)' = Counted(b)
  BY <1>1, <1>2 DEF Counted, TypeOK
<1>7. SumOfBatch'
  BY <1>6 DEF Inv, SumOfBatch
<1>8. ReportsRight'
  BY <1>6 DEF Inv, ReportsRight
<1>. QED
  BY <1>4, <1>5, <1>7, <1>8 DEF Inv

\* The critical section: an answer to the current batch is counted once; one to
\* an earlier batch is not, and the batch it would be counted in is reported.
LEMMA retrieveDataInv ==
    ASSUME Inv, NEW c \in Call, retrieveData(c)
    PROVE  Inv'
<1>. USE DEF retrieveData
<1>1. TypeOK /\ (pc = "send" => batch < MaxBatch) /\ Len(reports) = batch
  BY DEF Inv, Types
<1>2. CASE batch = c[2] /\ call[c] # "NaN"
  <2>1. /\ sum' = Append(sum, c)
        /\ count' = count + 1
        /\ call' = [call EXCEPT ![c] = "counted"]
    BY <1>2
  <2>2. pc # "newBatch" /\ c \notin Counted(batch)
    BY <1>2 DEF Inv, NotStarted, Counted
  <2>3. Counted(batch)' = Counted(batch) \cup {c}
    BY <1>1, <1>2, <2>1 DEF Counted, TypeOK
  <2>4. /\ Range(sum) = Counted(batch)
        /\ Len(sum) = count
        /\ Cardinality(Counted(batch)) = count
    BY <2>2 DEF Inv, SumOfBatch
  <2>5. sum' \in Seq(Call) /\ Len(sum') = Len(sum) + 1
    BY <1>1, <2>1 DEF TypeOK
  <2>6. Range(sum') = Counted(batch)'
    <3>1. sum \in Seq(Call) /\ c \in Call
      BY <1>1 DEF TypeOK
    <3>2. Range(Append(sum, c)) = Range(sum) \cup {c}
      BY <3>1, RangeAppend
    <3>. QED
      BY <2>1, <2>3, <2>4, <3>2
  <2>7. batch \in Batch /\ IsFiniteSet(Counted(batch))
    BY <1>1, CallsBound DEF TypeOK, Counted
  <2>8. Cardinality(Counted(batch)') = count'
    BY <2>1, <2>2, <2>3, <2>4, <2>7, FS_AddElement
  <2>9. SumOfBatch'
    BY <2>1, <2>4, <2>5, <2>6, <2>8 DEF SumOfBatch
  <2>10. Cardinality(Counted(batch)') <= Cardinality(Station)
    <3>1. Counted(batch)' \subseteq {d \in Call : d[2] = batch}
      BY DEF Counted
    <3>. HIDE DEF retrieveData
    <3>. QED
      BY <2>7, <3>1, CallsBound
  <2>11. count' \in 0 .. Cardinality(Station)
    <3>1. Cardinality(Station) \in Nat
      BY StationAssumption, FS_CardinalityType
    <3>. QED
      BY <1>1, <2>1, <2>8, <2>10, <3>1 DEF TypeOK
  <2>12. Types'
    BY <1>1, <2>1, <2>5, <2>11 DEF Types, TypeOK, CallState
  <2>13. NotStarted'
    BY <1>1, <1>2, <2>1, <2>2 DEF Inv, NotStarted, TypeOK, Batch, Call
  <2>14. \A i \in DOMAIN reports : Counted(i - 1)' = Counted(i - 1)
    <3>. SUFFICES ASSUME NEW i \in DOMAIN reports PROVE Counted(i - 1)' = Counted(i - 1)
      OBVIOUS
    <3>1. i - 1 # batch
      BY <1>1 DEF TypeOK, Batch
    <3>. QED
      BY <1>1, <1>2, <2>1, <3>1 DEF Counted, TypeOK
  <2>15. ReportsRight'
    BY <2>14 DEF ReportsRight, Inv
  <2>. QED
    BY <2>9, <2>12, <2>13, <2>15 DEF Inv
<1>3. CASE ~(batch = c[2] /\ call[c] # "NaN")
  <2>1. call' = [call EXCEPT ![c] = "ignored"] /\ sum' = sum /\ count' = count
    BY <1>3
  <2>2. Types'
    BY <1>1, <2>1 DEF Types, TypeOK, CallState
  <2>3. NotStarted'
    BY <1>1, <2>1 DEF Inv, NotStarted, TypeOK
  <2>4. \A b : Counted(b)' = Counted(b)
    BY <1>1, <2>1 DEF Counted, TypeOK
  <2>5. SumOfBatch' /\ ReportsRight'
    BY <2>1, <2>4 DEF Inv, SumOfBatch, ReportsRight
  <2>. QED
    BY <2>2, <2>3, <2>5 DEF Inv
<1>. QED
  BY <1>2, <1>3

\* Every step keeps the invariant.
LEMMA NextInv == Inv /\ [Next]_vars => Inv'
<1>. SUFFICES ASSUME Inv, [Next]_vars PROVE Inv'
  OBVIOUS
<1>1. CASE newBatch
  BY <1>1, newBatchInv
<1>2. CASE Tick \/ Quit \/ SendQuit
  BY <1>2, LoopInv
<1>3. CASE Send
  BY <1>3, SendInv
<1>4. CASE \E c \in Call : getWeatherData(c) \/ retrieveData(c)
  BY <1>4, getWeatherDataInv, retrieveDataInv
<1>5. CASE UNCHANGED vars
  <2>. USE <1>5 DEF vars
  <2>1. Types'
    BY DEF Inv, Types, TypeOK
  <2>2. NotStarted' /\ SumOfBatch' /\ ReportsRight'
    BY DEF Inv, NotStarted, SumOfBatch, ReportsRight, Counted
  <2>. QED
    BY <2>1, <2>2 DEF Inv
<1>. QED
  BY <1>1, <1>2, <1>3, <1>4, <1>5 DEF Next

\* The inductive invariant holds in every reachable state: sum and count are those
\* of the stations that have answered in the batch.
THEOREM Invariance == Spec => []Inv
<1>. QED
  BY InitInv, NextInv, PTL DEF Spec

\* The types of mutexAggregator's variables, count among them: it never exceeds
\* the number of stations; and the loop holds the mutex just while it sends.
THEOREM TypeCorrect == Spec => []TypeOK
<1>1. Inv => TypeOK
  BY DEF Inv, Types
<1>. QED
  BY <1>1, Invariance, PTL

\* What mutexAggregator reports for a batch is the average over exactly the
\* stations whose answers to that batch came in time, each counted once.
THEOREM AverageCorrect == Spec => []AverageOfBatch
<1>1. Inv => AverageOfBatch
  BY DEF Inv, SumOfBatch, ReportsRight, AverageOfBatch, Counted
<1>. QED
  BY <1>1, Invariance, PTL

=============================================================================
