--------------------------- MODULE GeQueueProofs ---------------------------
(***************************************************************************)
(* Proofs about GeQueue, for every number of client processes, size of the *)
(* ring, guard and batch.                                                  *)
(***************************************************************************)
EXTENDS GeQueue, SequenceTheorems, TLAPS

Words == Seq(Clients \X Nat)
Batches == [open : BOOLEAN, words : Words, error : BOOLEAN]
Calls == {"idle", "submit", "sync", "retry", "wait"}

(* The library's contexts.                                                 *)
ClientType ==
    /\ pc \in [Clients -> Calls]
    /\ batch \in [Clients -> Batches]
    /\ buf \in [Clients -> Words]
    /\ wait \in [Clients -> BOOLEAN]
    /\ asked \in [Clients -> Words]
    /\ drawn \in Nat

(* An open batch that has refused nothing holds what was drawn into it; a  *)
(* submission has words, and they are those.                               *)
Submitting == {"submit", "sync", "retry"}
BatchOK ==
    \A c \in Clients :
        /\ pc[c] # "idle" => ~batch[c].open
        /\ batch[c].open /\ ~batch[c].error => batch[c].words = asked[c]
        /\ pc[c] \in Submitting => buf[c] = asked[c] /\ buf[c] # <<>>

(* The engine runs exactly while its cursor is behind the producer, and    *)
(* then to the producer.  Since the driver submits into a drained ring     *)
(* only, the wrap bit never outlasts the submission that sets it, and the  *)
(* ring in use is one piece.                                               *)
EngineOK ==
    /\ ~wrap
    /\ first \in Nat /\ producer \in Nat
    /\ first <= producer /\ producer <= Size
    /\ busy \in BOOLEAN /\ (busy <=> first # producer)
    /\ busy => end = producer
    /\ isReset => producer = 0
    /\ finish => ~busy

RingOK == ring = [i \in 0..Size - 1 |-> ring[i]]

QueueInv ==
    ClientType /\ BatchOK /\ EngineOK /\ RingOK /\ RingIsFaithful

(* sf2000_ge_start_available without a wrap runs to the producer ...       *)
LEMMA StartsStraight ==
    ASSUME NEW p, NEW wa, NEW f, p # f
    PROVE  Started(p, FALSE, wa, f) = [first |-> f, end |-> p, wrap |-> FALSE,
                                       busy |-> TRUE, finish |-> FALSE]
BY DEF Started

(* ... and with one, when the old tail is consumed, from the start of the  *)
(* ring.                                                                   *)
LEMMA StartsOver ==
    ASSUME NEW p, NEW f, p # f
    PROVE  Started(p, TRUE, f, f) = [first |-> 0, end |-> p, wrap |-> FALSE,
                                     busy |-> TRUE, finish |-> FALSE]
BY DEF Started

(* A drained ring owes nothing, and so does a sync that answers 0.         *)
LEMMA DrainedOwesNothing ==
    ASSUME QueueInv PROVE (Drained => first = producer) /\ (Synced => Drained)
                          /\ (Drained => owed = <<>>)
<1>1. Drained => first = producer
  BY DEF QueueInv, EngineOK, Drained
<1>2. Synced => Drained
  BY DEF QueueInv, EngineOK, Synced, Drained
<1>3. ASSUME Drained PROVE owed = <<>>
  <2>1. first = producer /\ first \in Nat /\ ~wrap
    BY <1>1, <1>3 DEF QueueInv, EngineOK
  <2>2. owed = Slice(first, producer)
    BY <2>1 DEF QueueInv, RingIsFaithful, Queued
  <2>3. 1..(producer - first) = {}
    BY <2>1
  <2> QED BY <2>2, <2>3 DEF Slice
<1> QED BY <1>1, <1>2, <1>3

(* HCGE_SUBMIT into a drained ring: the words, and nothing else, are in    *)
(* the ring, and the engine runs to their end.                             *)
LEMMA PublishIsFaithful ==
    ASSUME QueueAssumption, QueueInv, NEW words \in Words, words # <<>>,
           Drained, Fits(Len(words)), Publish(words)
    PROVE  /\ EngineOK' /\ RingOK'
           /\ Queued' = words
<1> DEFINE n == Len(words)
           turn == ~FitsTail(n) /\ FitsWrap(n)
           dst == IF turn THEN 0 ELSE producer
           at == IF turn THEN producer ELSE wrapAt
           s == Started(dst + n, wrap \/ turn, at, IF isReset THEN 0 ELSE first)
<1>1. n \in Nat /\ n > 0 /\ words = [i \in 1..n |-> words[i]]
  BY DEF Words
<1>2. /\ first = producer /\ first \in Nat /\ producer <= Size /\ Size \in Nat
      /\ Guard \in Nat /\ ~wrap
  BY DrainedOwesNothing DEF QueueInv, EngineOK, QueueAssumption
<1>3. isReset => first = 0
  BY <1>2 DEF QueueInv, EngineOK
<1>4. /\ ring' = [i \in DOMAIN ring |->
                    IF i \in dst .. dst + n - 1 THEN words[i - dst + 1] ELSE ring[i]]
      /\ producer' = dst + n
      /\ wrap' = s.wrap /\ first' = s.first /\ end' = s.end /\ busy' = s.busy
      /\ finish' = s.finish /\ isReset' = FALSE
  BY DEF Publish
<1>5. dst \in Nat /\ dst + n <= Size
  BY <1>1, <1>2 DEF Fits, FitsTail, FitsWrap, FitsGap
<1>6. s = [first |-> dst, end |-> dst + n, wrap |-> FALSE, busy |-> TRUE,
           finish |-> FALSE]
  <2>1. CASE turn
    <3>1. dst + n # first /\ dst = 0 /\ at = first /\ first # 0
      BY <2>1, <1>1, <1>2 DEF FitsWrap
    <3>2. s = Started(dst + n, TRUE, first, first)
      BY <2>1, <3>1, <1>3
    <3> HIDE DEF s, dst, n, at
    <3>3. Started(dst + n, TRUE, first, first) =
             [first |-> 0, end |-> dst + n, wrap |-> FALSE, busy |-> TRUE,
              finish |-> FALSE]
      BY <3>1, StartsOver
    <3> QED BY <3>1, <3>2, <3>3
  <2>2. CASE ~turn
    <3>1. dst + n # first /\ dst = first
      BY <2>2, <1>1, <1>2
    <3>2. (wrap \/ turn) = FALSE
      BY <2>2, <1>2
    <3>3. s = Started(dst + n, FALSE, at, first)
      BY <3>2, <1>3
    <3> HIDE DEF s
    <3> QED BY <3>1, <3>3, StartsStraight
  <2> QED BY <2>1, <2>2
<1> HIDE DEF s
<1>7. /\ first' = dst /\ end' = dst + n /\ wrap' = FALSE /\ busy' = TRUE
      /\ finish' = FALSE
  BY <1>4, <1>6
<1> HIDE DEF dst, n
<1>8. EngineOK'
  <2>1. busy' \in BOOLEAN
    BY <1>7, Zenon
  <2> QED BY <1>1, <1>4, <1>5, <1>7, <1>2, <2>1 DEF EngineOK
<1>9. DOMAIN ring = 0..Size - 1
  BY DEF QueueInv, RingOK
<1>10. RingOK'
  BY <1>4, <1>9 DEF RingOK
<1>11. Queued' = words
  <2>1. Queued' = [i \in 1..(dst + n) - dst |-> ring'[dst + i - 1]]
    BY <1>4, <1>7 DEF Queued, Slice
  <2>2. (dst + n) - dst = n
    BY <1>1, <1>5
  <2>3. ASSUME NEW i \in 1..n PROVE ring'[dst + i - 1] = words[i]
    <3>1. /\ dst + i - 1 \in 0..Size - 1
          /\ dst + i - 1 \in dst .. dst + n - 1
          /\ (dst + i - 1) - dst + 1 = i
      BY <1>1, <1>2, <1>5
    <3>2. ring'[dst + i - 1] = words[(dst + i - 1) - dst + 1]
      BY <3>1, <1>4, <1>9, Zenon
    <3> QED BY <3>1, <3>2
  <2> QED BY <2>1, <2>2, <2>3, <1>1
<1> QED BY <1>8, <1>10, <1>11

(* NewWords makes words of its client.                                     *)
LEMMA NewWordsType ==
    ASSUME NEW c \in Clients, NEW n \in Nat, drawn \in Nat
    PROVE  NewWords(c, n) \in Words /\ (n > 0 => NewWords(c, n) # <<>>)
<1>1. \A i \in 1..n : <<c, drawn + i>> \in Clients \X Nat
  OBVIOUS
<1>2. NewWords(c, n) \in [1..n -> Clients \X Nat]
  BY <1>1 DEF NewWords
<1>3. NewWords(c, n) \in Words
  BY <1>2 DEF Words
<1>4. Len(NewWords(c, n)) = n
  BY <1>2
<1> QED BY <1>3, <1>4

(* The batch side of hcge_linux_submit.                                    *)
LEMMA InBatchKeeps ==
    ASSUME NEW b \in Batches, NEW w \in Words
    PROVE  /\ InBatch(b, w) \in Batches
           /\ InBatch(b, w).open = b.open
           /\ ~InBatch(b, w).error => ~b.error /\ InBatch(b, w).words = b.words \o w
<1>1. b.words \o w \in Words
  BY ConcatProperties DEF Batches, Words
<1>2. CASE b.error
  BY <1>2 DEF InBatch
<1>3. CASE ~b.error /\ Len(w) > BatchCap - Len(b.words)
  <2>1. InBatch(b, w) = [b EXCEPT !.error = TRUE]
    BY <1>3 DEF InBatch
  <2>2. [b EXCEPT !.error = TRUE] \in Batches
    BY Zenon DEF Batches
  <2>3. [b EXCEPT !.error = TRUE].open = b.open /\ [b EXCEPT !.error = TRUE].error
    BY DEF Batches
  <2> QED BY <2>1, <2>2, <2>3
<1>4. CASE ~b.error /\ ~(Len(w) > BatchCap - Len(b.words))
  <2>1. InBatch(b, w) = [b EXCEPT !.words = b.words \o w]
    BY <1>4 DEF InBatch
  <2> QED BY <2>1, <1>1, <1>4 DEF Batches
<1> QED BY <1>2, <1>3, <1>4

(* Every call of the library keeps the contexts whole.                     *)
LEMMA ClientsStayWhole ==
    ASSUME QueueAssumption, ClientType, BatchOK, NEW c \in Clients, ClientStep(c)
    PROVE  ClientType' /\ BatchOK'
<1> USE DEF ClientType, BatchOK, Submitting, Calls
<1>0. NoBatch \in Batches /\ NoBatch.open = FALSE /\ <<>> \in Words
      /\ NoBatch.words = <<>>
  <2>1. <<>> \in Words
    BY DEF Words
  <2> QED BY <2>1, Zenon DEF NoBatch, Batches
<1>1. CASE BatchBegin(c)
  <2> DEFINE b == [NoBatch EXCEPT !.open = TRUE]
  <2>1. b \in Batches /\ b.words = <<>>
    BY <1>0, Zenon DEF NoBatch, Batches
  <2> HIDE DEF b
  <2>2. /\ pc[c] = "idle"
        /\ batch' = [batch EXCEPT ![c] = b]
        /\ asked' = [asked EXCEPT ![c] = <<>>]
        /\ UNCHANGED <<pc, buf, wait, drawn>>
    BY <1>1 DEF BatchBegin, b
  <2> QED BY <1>0, <2>1, <2>2
<1>2. ASSUME NEW n \in 1..MaxLen, Draw(c, n) PROVE ClientType' /\ BatchOK'
  <2> DEFINE w == NewWords(c, n)
  <2>1. n \in Nat /\ n > 0
    BY DEF QueueAssumption
  <2>2. w \in Words /\ w # <<>>
    BY <2>1, NewWordsType
  <2>3. pc[c] = "idle" /\ drawn' = drawn + n /\ wait' = wait
    BY <1>2 DEF Draw
  <2>4. CASE batch[c].open
    <3>1. /\ batch' = [batch EXCEPT ![c] = InBatch(batch[c], w)]
          /\ asked' = [asked EXCEPT ![c] = asked[c] \o w]
          /\ UNCHANGED <<pc, buf>>
      BY <1>2, <2>4 DEF Draw
    <3> HIDE DEF w
    <3>2. batch[c] \in Batches /\ asked[c] \in Words
      OBVIOUS
    <3>3. /\ InBatch(batch[c], w) \in Batches
          /\ ~InBatch(batch[c], w).error
                => ~batch[c].error /\ InBatch(batch[c], w).words = batch[c].words \o w
      BY <2>2, <3>2, InBatchKeeps
    <3>4. asked[c] \o w \in Words
      BY <2>2, <3>2, ConcatProperties DEF Words
    <3>5. ClientType'
      BY <2>1, <2>3, <3>1, <3>3, <3>4
    <3>6. BatchOK'
      BY <2>3, <2>4, <3>1, <3>3
    <3> QED BY <3>5, <3>6
  <2>5. CASE ~batch[c].open
    <3>1. /\ pc' = [pc EXCEPT ![c] = "submit"]
          /\ buf' = [buf EXCEPT ![c] = w]
          /\ asked' = [asked EXCEPT ![c] = w]
          /\ batch' = batch
      BY <1>2, <2>5 DEF Draw
    <3> HIDE DEF w
    <3> QED BY <2>1, <2>2, <2>3, <2>5, <3>1
  <2> QED BY <2>4, <2>5
<1>3. ASSUME NEW w \in BOOLEAN, BatchEnd(c, w) PROVE ClientType' /\ BatchOK'
  <2>1. /\ pc[c] = "idle" /\ batch[c].open /\ drawn' = drawn
        /\ batch' = [batch EXCEPT ![c] = NoBatch]
    BY <1>3 DEF BatchEnd
  <2>2. CASE batch[c].error \/ (batch[c].words = <<>> /\ ~w)
    <3>1. asked' = [asked EXCEPT ![c] = <<>>] /\ UNCHANGED <<pc, buf, wait>>
      BY <1>3, <2>2 DEF BatchEnd
    <3> QED BY <1>0, <2>1, <3>1
  <2>3. CASE ~(batch[c].error \/ (batch[c].words = <<>> /\ ~w))
    <3>1. /\ buf' = [buf EXCEPT ![c] = batch[c].words]
          /\ wait' = [wait EXCEPT ![c] = w]
          /\ pc' = [pc EXCEPT ![c] =
                       IF batch[c].words # <<>> THEN "submit" ELSE "wait"]
          /\ asked' = asked
      BY <1>3, <2>3 DEF BatchEnd
    <3>2. batch[c].words \in Words
      BY DEF Batches
    <3>3. wait' \in [Clients -> BOOLEAN]
      BY <3>1
    <3>4. ClientType'
      BY <1>0, <2>1, <3>1, <3>2, <3>3
    <3>5. BatchOK'
      BY <1>0, <2>1, <2>3, <3>1
    <3> QED BY <3>4, <3>5
  <2> QED BY <2>2, <2>3
<1>4. ASSUME Return(c), pc[c] # "idle" PROVE ClientType' /\ BatchOK'
  <2>1. wait' \in [Clients -> BOOLEAN]
    BY <1>4 DEF Return
  <2>2. pc' \in [Clients -> Calls] /\ buf' \in [Clients -> Words]
        /\ asked' \in [Clients -> Words] /\ batch' = batch /\ drawn' = drawn
    BY <1>0, <1>4 DEF Return
  <2>3. BatchOK'
    BY <1>0, <1>4 DEF Return
  <2> QED BY <2>1, <2>2, <2>3
<1>5. ASSUME Accept(c), pc[c] \in Submitting PROVE ClientType' /\ BatchOK'
  <2>1. CASE wait[c]
    <3>1. pc' = [pc EXCEPT ![c] = "wait"] /\ UNCHANGED <<batch, buf, wait, asked, drawn>>
      BY <1>5, <2>1 DEF Accept
    <3> QED BY <1>5, <3>1
  <2>2. CASE ~wait[c]
    BY <1>4, <1>5, <2>2 DEF Accept
  <2> QED BY <2>1, <2>2
<1>6. CASE SubmitAccepted(c) BY <1>5, <1>6 DEF SubmitAccepted
<1>7. CASE SubmitBusy(c) BY <1>7 DEF SubmitBusy
<1>8. CASE RetryAccepted(c) BY <1>5, <1>8 DEF RetryAccepted
<1>9. CASE RetryBusy(c) BY <1>4, <1>9 DEF RetryBusy
<1>10. CASE SyncThenRetry(c) BY <1>10 DEF SyncThenRetry
<1>11. CASE SyncThenReturn(c) BY <1>4, <1>11 DEF SyncThenReturn
<1>12. CASE SyncFails(c) BY <1>4, <1>12 DEF SyncFails
<1>13. CASE Reset(c) BY <1>13 DEF Reset, client
<1>14. CASE Reopen(c)
  BY <1>0, <1>14 DEF Reopen
<1> QED BY <1>1, <1>2, <1>3, <1>6, <1>7, <1>8, <1>9, <1>10, <1>11, <1>12,
           <1>13, <1>14 DEF ClientStep

(* An accepted submission leaves exactly its words in the ring.            *)
LEMMA AcceptKeepsQueue ==
    ASSUME QueueAssumption, QueueInv, NEW c \in Clients, pc[c] \in Submitting,
           Accept(c)
    PROVE  EngineOK' /\ RingOK' /\ RingIsFaithful'
<1>1. buf[c] \in Words /\ buf[c] # <<>>
  BY DEF QueueInv, ClientType, BatchOK
<1>2. Drained /\ Fits(Len(buf[c])) /\ Publish(buf[c]) /\ owed' = owed \o buf[c]
  BY DEF Accept
<1>3. EngineOK' /\ RingOK' /\ Queued' = buf[c]
  BY <1>1, <1>2, PublishIsFaithful
<1>4. owed' = buf[c]
  BY <1>1, <1>2, DrainedOwesNothing, ConcatEmptySeq DEF Words
<1> QED BY <1>3, <1>4 DEF RingIsFaithful

(* The engine takes the oldest word; the interrupt finds nothing to start, *)
(* or confirms what runs.                                                  *)
LEMMA EngineKeepsQueue ==
    ASSUME QueueAssumption, QueueInv, Execute \/ Interrupt
    PROVE  EngineOK' /\ RingOK' /\ RingIsFaithful'
<1>1. /\ first \in Nat /\ producer \in Nat /\ first <= producer /\ ~wrap
      /\ producer <= Size /\ Size \in Nat
      /\ busy <=> first # producer
      /\ busy => end = producer
      /\ isReset => producer = 0
      /\ finish => ~busy
      /\ owed = Slice(first, producer)
  BY DEF QueueInv, EngineOK, RingIsFaithful, Queued, QueueAssumption
<1>2. CASE Execute
  <2>1. /\ busy /\ owed' = Tail(owed) /\ first' = first + 1
        /\ busy' = (first + 1 # end)
        /\ UNCHANGED <<ring, producer, wrap, wrapAt, finish, isReset, end>>
    BY <1>2 DEF Execute, driver
  <2>2. first < producer /\ end = producer
    BY <1>1, <2>1
  <2>3. EngineOK'
    <3>1. busy' \in BOOLEAN
      BY <2>1, Zenon
    <3>2. busy' <=> first' # producer'
      BY <2>1, <2>2, Zenon
    <3>3. ~finish' /\ ~isReset'
      BY <1>1, <2>1, <2>2
    <3> QED BY <1>1, <2>1, <2>2, <3>1, <3>2, <3>3 DEF EngineOK
  <2>4. RingOK'
    BY <2>1 DEF QueueInv, RingOK
  <2>5. RingIsFaithful'
    <3> DEFINE l == producer - first
    <3>1. owed = [i \in 1..l |-> ring[first + i - 1]]
      BY <1>1 DEF Slice
    <3>2. l \in Nat /\ l > 0 /\ producer - (first + 1) = l - 1
      BY <1>1, <2>2
    <3> HIDE DEF l
    <3>3. Tail(owed) = [i \in 1..l - 1 |-> ring[(first + 1) + i - 1]]
      <4>1. Len(owed) = l
        BY <3>1, <3>2
      <4>2. Tail(owed) = [i \in 1..l - 1 |-> owed[i + 1]]
        BY <3>1, <3>2, <4>1
      <4>3. \A i \in 1..l - 1 : owed[i + 1] = ring[(first + 1) + i - 1]
        BY <1>1, <3>1, <3>2
      <4> QED BY <4>2, <4>3
    <3>4. Queued' = [i \in 1..l - 1 |-> ring[(first + 1) + i - 1]]
      BY <1>1, <2>1, <3>2 DEF Queued, Slice
    <3> QED BY <2>1, <3>3, <3>4 DEF RingIsFaithful
  <2> QED BY <2>3, <2>4, <2>5
<1>3. CASE Interrupt
  <2> DEFINE s == Started(producer, wrap, wrapAt, IF isReset THEN 0 ELSE first)
  <2>1. /\ first' = s.first /\ end' = s.end /\ wrap' = s.wrap
        /\ busy' = s.busy /\ finish' = s.finish
        /\ isReset' = FALSE
        /\ UNCHANGED <<ring, producer, wrapAt, owed>>
    BY <1>3 DEF Interrupt
  <2>2. s = Started(producer, FALSE, wrapAt, first)
    <3>1. (IF isReset THEN 0 ELSE first) = first /\ wrap = FALSE
      BY <1>1
    <3> QED BY <3>1
  <2>3. first' = first /\ wrap' = FALSE /\ (busy' = busy)
        /\ (busy' => end' = producer) /\ (finish' => ~busy')
    <3>1. CASE producer = first
      <4>1. s = [first |-> first, end |-> end, wrap |-> FALSE, busy |-> busy,
                 finish |-> TRUE]
        BY <2>2, <3>1 DEF Started
      <4> HIDE DEF s
      <4>2. busy = FALSE
        BY <1>1, <3>1 DEF QueueInv, EngineOK
      <4> QED BY <2>1, <4>1, <4>2
    <3>2. CASE producer # first
      <4>1. s = [first |-> first, end |-> producer, wrap |-> FALSE, busy |-> TRUE,
                 finish |-> FALSE]
        BY <2>2, <3>2, StartsStraight
      <4> HIDE DEF s
      <4>2. busy = TRUE
        BY <1>1, <3>2 DEF QueueInv, EngineOK
      <4> QED BY <2>1, <4>1, <4>2
    <3> QED BY <3>1, <3>2
  <2>4. EngineOK'
    BY <1>1, <2>1, <2>3 DEF QueueInv, EngineOK
  <2>5. RingOK' /\ RingIsFaithful'
    BY <1>1, <2>1, <2>3 DEF QueueInv, RingOK, RingIsFaithful, Queued, Slice
  <2> QED BY <2>4, <2>5
<1> QED BY <1>2, <1>3

(* HCGE_RESET empties ring and debt together.                              *)
LEMMA ResetKeepsQueue ==
    ASSUME QueueAssumption, NEW c \in Clients, Reset(c)
    PROVE  EngineOK' /\ RingOK' /\ RingIsFaithful'
<1>1. /\ ring' = [i \in 0..Size - 1 |-> Blank]
      /\ producer' = 0 /\ wrap' = FALSE
      /\ first' = 0 /\ end' = 0 /\ busy' = FALSE /\ owed' = <<>>
  BY DEF Reset
<1>2. EngineOK'
  <2>1. busy' \in BOOLEAN
    BY <1>1, Zenon
  <2> QED BY <1>1, <2>1 DEF EngineOK, QueueAssumption
<1>3. RingOK'
  BY <1>1 DEF RingOK
<1>4. Queued' = <<>>
  <2>1. Queued' = [i \in 1..0 - 0 |-> ring'[0 + i - 1]]
    BY <1>1 DEF Queued, Slice
  <2>2. 1..0 - 0 = {}
    OBVIOUS
  <2> QED BY <2>1, <2>2
<1> QED BY <1>1, <1>2, <1>3, <1>4 DEF RingIsFaithful

(* Every step of a client, of the driver and of the engine.                *)
LEMMA QueueInductive ==
    ASSUME QueueAssumption, QueueInv, [Next]_vars PROVE QueueInv'
<1>1. ASSUME NEW c \in Clients, ClientStep(c) PROVE QueueInv'
  <2>1. ClientType' /\ BatchOK'
    BY <1>1, ClientsStayWhole DEF QueueInv
  <2>2. CASE SubmitAccepted(c) \/ RetryAccepted(c)
    <3>1. pc[c] \in Submitting /\ Accept(c)
      BY <2>2 DEF SubmitAccepted, RetryAccepted, Submitting
    <3> QED BY <2>1, <3>1, AcceptKeepsQueue DEF QueueInv
  <2>3. CASE Reset(c)
    BY <2>1, <2>3, ResetKeepsQueue DEF QueueInv
  <2>4. CASE ~(SubmitAccepted(c) \/ RetryAccepted(c) \/ Reset(c))
    <3>1. UNCHANGED <<driver, engine, owed>>
      BY <1>1, <2>4 DEF ClientStep, BatchBegin, Draw, BatchEnd, SubmitBusy,
         SyncThenRetry, SyncThenReturn, SyncFails, RetryBusy, Reopen
    <3> QED BY <2>1, <3>1 DEF QueueInv, driver, engine, EngineOK, RingOK,
                              RingIsFaithful, Queued, Slice
  <2> QED BY <2>2, <2>3, <2>4
<1>2. CASE Execute \/ Interrupt
  <2>1. UNCHANGED client
    BY <1>2 DEF Execute, Interrupt
  <2>2. ClientType' /\ BatchOK'
    BY <2>1 DEF client, QueueInv, ClientType, BatchOK
  <2> QED BY <1>2, <2>2, EngineKeepsQueue DEF QueueInv
<1>3. CASE UNCHANGED vars
  BY <1>3 DEF vars, client, driver, engine, QueueInv, ClientType, BatchOK,
     EngineOK, RingOK, RingIsFaithful, Queued, Slice
<1> QED BY <1>1, <1>2, <1>3 DEF Next

(* The invariant gives the four promises of the queue.                     *)
LEMMA QueueInvGives ==
    ASSUME QueueAssumption, QueueInv PROVE GeQueueIsFaithful
<1>1. RingIsFaithful
  BY DEF QueueInv
<1>2. BatchIsWhole
  BY DEF QueueInv, BatchOK, Submitting, BatchIsWhole
<1>3. SyncMeansDrawn
  <2>1. Synced => DOMAIN owed = {}
    BY DrainedOwesNothing
  <2> QED BY <2>1 DEF SyncMeansDrawn
<1>4. DrainedHasRoom
  <2> SUFFICES ASSUME Drained, NEW n \in 1..Size, 2 * n + Guard <= Size
               PROVE  Fits(n)
    BY DEF DrainedHasRoom
  <2>1. first = producer /\ ~wrap /\ producer \in Nat /\ producer <= Size
    BY DrainedOwesNothing DEF QueueInv, EngineOK
  <2>2. n \in Nat
    BY DEF QueueAssumption
  <2> QED BY <2>1, <2>2 DEF QueueAssumption, Fits, FitsTail, FitsWrap
<1> QED BY <1>1, <1>2, <1>3, <1>4 DEF GeQueueIsFaithful

(* The queue starts empty, with every client idle.                         *)
LEMMA QueueStarts ==
    ASSUME QueueAssumption, Init PROVE QueueInv
<1>1. /\ pc = [c \in Clients |-> "idle"]
      /\ batch = [c \in Clients |-> NoBatch]
      /\ buf = [c \in Clients |-> <<>>]
      /\ wait = [c \in Clients |-> FALSE]
      /\ asked = [c \in Clients |-> <<>>]
      /\ ring = [i \in 0..Size - 1 |-> Blank]
      /\ producer = 0 /\ wrap = FALSE /\ isReset = FALSE
      /\ first = 0 /\ busy = FALSE /\ drawn = 0 /\ owed = <<>>
  BY DEF Init
<1>2. NoBatch \in Batches /\ NoBatch.open = FALSE /\ <<>> \in Words
  <2>1. <<>> \in Words
    BY DEF Words
  <2> QED BY <2>1, Zenon DEF NoBatch, Batches
<1>3. ClientType
  <2>1. wait \in [Clients -> BOOLEAN]
    BY <1>1
  <2> QED BY <1>1, <1>2, <2>1 DEF ClientType, Calls
<1>4. BatchOK
  BY <1>1, <1>2 DEF BatchOK, Submitting
<1>5. EngineOK
  <2>1. busy \in BOOLEAN
    BY <1>1, Zenon
  <2> QED BY <1>1, <2>1 DEF EngineOK, QueueAssumption
<1>6. RingOK
  BY <1>1 DEF RingOK
<1>7. RingIsFaithful
  <2>1. Queued = [i \in 1..0 - 0 |-> ring[0 + i - 1]]
    BY <1>1 DEF Queued, Slice
  <2>2. 1..0 - 0 = {}
    OBVIOUS
  <2> QED BY <1>1, <2>1, <2>2 DEF RingIsFaithful
<1> QED BY <1>3, <1>4, <1>5, <1>6, <1>7 DEF QueueInv

(* For every number of processes that have /dev/ge open: the ring holds    *)
(* exactly the accepted words that are still to be drawn, over every turn  *)
(* of the ring, busy retry, reset and late interrupt; no batch is          *)
(* submitted without a command it refused; a sync that answers 0 comes     *)
(* after all its client's words; and one retry finds room.                 *)
THEOREM QueueIsFaithful == QueueAssumption /\ Spec => []GeQueueIsFaithful
<1>1. ASSUME QueueAssumption, Init PROVE QueueInv
  BY <1>1, QueueStarts
<1>2. CASE QueueAssumption
  <2>1. Init => QueueInv
    BY <1>1, <1>2
  <2>2. QueueInv /\ [Next]_vars => QueueInv'
    BY <1>2, QueueInductive
  <2>3. QueueInv => GeQueueIsFaithful
    BY <1>2, QueueInvGives
  <2> QED BY <2>1, <2>2, <2>3, PTL DEF Spec
<1>3. CASE ~QueueAssumption
  BY <1>3
<1> QED BY <1>2, <1>3
=============================================================================
