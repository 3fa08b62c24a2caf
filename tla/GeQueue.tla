------------------------------ MODULE GeQueue ------------------------------
(***************************************************************************)
(* Submission to the graphics engine: the library's batches and its        *)
(* one-retry submit, the driver's command ring, and the engine.  A word of *)
(* the ring is one drawing command; commands are numbered as they are      *)
(* drawn.  The driver's submit is one step: submit_lock keeps out other    *)
(* submitters, and the interrupt changes nothing a drained submit reads.   *)
(***************************************************************************)
EXTENDS Integers, Sequences

CONSTANTS Clients,    \* processes that opened /dev/ge
          Size,       \* words of the ring
          Guard,      \* SF2000_GE_QUEUE_GUARD
          MaxLen,     \* longest direct command, in words
          BatchCap,   \* capacity_words of a batch
          MaxWords    \* bound on the words drawn in a behaviour

VARIABLES pc,         \* what each client does: idle submit sync retry
          batch,      \* [open, words, error] of ctx->batch
          buf,        \* words being submitted
          wait,       \* sync after the submission (batch_end)
          asked,      \* words drawn by the call or batch under way (history)
          ring,       \* contents of the ring
          producer, wrap, wrapAt, finish, isReset,   \* hcge_cmdq_node_ctx
          first, end, busy, irq,                     \* engine registers
          drawn,      \* words drawn so far
          owed        \* words submitted with success and not yet drawn (history)

client == <<pc, batch, buf, wait, asked, drawn>>
driver == <<ring, producer, wrap, wrapAt, finish, isReset>>
engine == <<first, end, busy, irq>>
vars == <<client, driver, engine, owed>>

(* Sizes are numbers; a client chooses the capacity of its batches freely. *)
QueueAssumption ==
    Size \in Nat /\ Guard \in Nat /\ MaxLen \in Nat /\ BatchCap \in Nat

(* A word of cleared memory. *)
Blank == <<0, 0>>
NoBatch == [open |-> FALSE, words |-> <<>>, error |-> FALSE]

Init ==
    /\ pc = [c \in Clients |-> "idle"]
    /\ batch = [c \in Clients |-> NoBatch]
    /\ buf = [c \in Clients |-> <<>>]
    /\ wait = [c \in Clients |-> FALSE]
    /\ asked = [c \in Clients |-> <<>>]
    /\ ring = [i \in 0..Size - 1 |-> Blank]
    /\ producer = 0 /\ wrap = FALSE /\ wrapAt = 0 /\ finish = TRUE
    /\ isReset = FALSE
    /\ first = 0 /\ end = 0 /\ busy = FALSE /\ irq = FALSE
    /\ drawn = 0 /\ owed = <<>>
-----------------------------------------------------------------------------
(* The library *)

NewWords(c, n) == [i \in 1..n |-> <<c, drawn + i>>]

(* hcge_batch_begin *)
BatchBegin(c) ==
    /\ pc[c] = "idle" /\ ~batch[c].open
    /\ batch' = [batch EXCEPT ![c] = [NoBatch EXCEPT !.open = TRUE]]
    /\ asked' = [asked EXCEPT ![c] = <<>>]
    /\ UNCHANGED <<pc, buf, wait, drawn, driver, engine, owed>>

(* Slip: a command that does not fit leaves the batch usable. *)
InBatchForgiving(b, words) ==
    IF Len(words) > BatchCap - Len(b.words) THEN b
    ELSE [b EXCEPT !.words = @ \o words]

(* hcge_linux_submit with a batch open: the first command that does not fit
   spoils the batch for good. *)
InBatch(b, words) ==
    IF b.error THEN b
    ELSE IF Len(words) > BatchCap - Len(b.words) THEN [b EXCEPT !.error = TRUE]
    ELSE [b EXCEPT !.words = @ \o words]

(* A drawing call of n words: into the batch, or on its way to the driver. *)
Draw(c, n) ==
    /\ pc[c] = "idle" /\ drawn + n <= MaxWords
    /\ drawn' = drawn + n
    /\ IF batch[c].open
       THEN /\ batch' = [batch EXCEPT ![c] = InBatch(@, NewWords(c, n))]
            /\ asked' = [asked EXCEPT ![c] = @ \o NewWords(c, n)]
            /\ UNCHANGED <<pc, buf>>
       ELSE /\ pc' = [pc EXCEPT ![c] = "submit"]
            /\ buf' = [buf EXCEPT ![c] = NewWords(c, n)]
            /\ asked' = [asked EXCEPT ![c] = NewWords(c, n)]
            /\ UNCHANGED batch
    /\ UNCHANGED <<wait, driver, engine, owed>>

(* The call returns to the application. *)
Return(c) ==
    /\ pc' = [pc EXCEPT ![c] = "idle"]
    /\ buf' = [buf EXCEPT ![c] = <<>>]
    /\ asked' = [asked EXCEPT ![c] = <<>>]
    /\ wait' = [wait EXCEPT ![c] = FALSE]
    /\ UNCHANGED <<batch, drawn>>

(* hcge_batch_end: the batch is detached first, then submitted if it is whole
   and has work; an empty one only waits. *)
BatchEnd(c, w) ==
    /\ pc[c] = "idle" /\ batch[c].open
    /\ batch' = [batch EXCEPT ![c] = NoBatch]
    /\ IF batch[c].error \/ (batch[c].words = <<>> /\ ~w)
       THEN /\ asked' = [asked EXCEPT ![c] = <<>>]
            /\ UNCHANGED <<pc, buf, wait>>
       ELSE /\ buf' = [buf EXCEPT ![c] = batch[c].words]
            /\ wait' = [wait EXCEPT ![c] = w]
            /\ pc' = [pc EXCEPT ![c] =
                         IF batch[c].words # <<>> THEN "submit" ELSE "wait"]
            /\ UNCHANGED asked
    /\ UNCHANGED <<drawn, driver, engine, owed>>
-----------------------------------------------------------------------------
(* The driver *)

(* The condition both ioctls poll for. *)
Drained == ~busy /\ (first = producer \/ (wrap /\ first = 0))

(* Slip: commands only ever go behind the producer. *)
FitsTailOnly(n) == ~wrap /\ n <= Size - producer

FitsTail(n) == ~wrap /\ n <= Size - producer
FitsWrap(n) == ~wrap /\ n + Guard < first
FitsGap(n) == wrap /\ producer + n + Guard < first
Fits(n) == FitsTail(n) \/ FitsWrap(n) \/ FitsGap(n)

(* Slip: after a wrap the consumer is left where the old tail ended. *)
StartedNoRewind(p, w, wa, f) ==
    IF p = f THEN [first |-> f, end |-> end, wrap |-> w, busy |-> busy, finish |-> TRUE]
    ELSE [first |-> f, end |-> p, wrap |-> FALSE, busy |-> TRUE, finish |-> FALSE]

(* Slip: the wrapped part waits for the interrupt of a tail already consumed. *)
StartedTailOnly(p, w, wa, f) ==
    IF p = f THEN [first |-> f, end |-> end, wrap |-> w, busy |-> busy, finish |-> TRUE]
    ELSE [first |-> f, end |-> IF w THEN wa ELSE p, wrap |-> w,
          busy |-> IF w THEN busy ELSE TRUE, finish |-> FALSE]

(* sf2000_ge_start_available for the producer p, its wrap bit w, the end of
   the old tail at wa, and the consumer at f. *)
Started(p, w, wa, f) ==
    IF p = f THEN [first |-> f, end |-> end, wrap |-> w, busy |-> busy, finish |-> TRUE]
    ELSE IF w /\ f = wa
    THEN [first |-> 0, end |-> p, wrap |-> FALSE, busy |-> TRUE, finish |-> FALSE]
    ELSE [first |-> f, end |-> IF w THEN wa ELSE p, wrap |-> w,
          busy |-> TRUE, finish |-> FALSE]

(* HCGE_SUBMIT after the drain: latched status is cleared, the words are
   copied behind the producer or to the start, and the engine is rung. *)
Publish(words) ==
    LET n == Len(words)
        turn == ~FitsTail(n) /\ FitsWrap(n)
        dst == IF turn THEN 0 ELSE producer
        at == IF turn THEN producer ELSE wrapAt
        s == Started(dst + n, wrap \/ turn, at, IF isReset THEN 0 ELSE first)
    IN  /\ ring' = [i \in DOMAIN ring |->
                       IF i \in dst .. dst + n - 1 THEN words[i - dst + 1] ELSE ring[i]]
        /\ producer' = dst + n /\ wrapAt' = at
        /\ wrap' = s.wrap /\ first' = s.first /\ end' = s.end /\ busy' = s.busy
        /\ finish' = s.finish /\ isReset' = FALSE /\ irq' = FALSE

(* The ioctl worked; batch_end then waits if it was asked to. *)
Accept(c) ==
    /\ Drained /\ Fits(Len(buf[c]))
    /\ Publish(buf[c])
    /\ owed' = owed \o buf[c]
    /\ IF wait[c]
       THEN /\ pc' = [pc EXCEPT ![c] = "wait"]
            /\ UNCHANGED <<batch, buf, wait, asked, drawn>>
       ELSE Return(c)

(* EBUSY: the queue did not drain within the limit, or has no room. *)
Refused(c) == ~Drained \/ ~Fits(Len(buf[c]))

SubmitAccepted(c) == pc[c] = "submit" /\ Accept(c)

SubmitBusy(c) ==
    /\ pc[c] = "submit" /\ Refused(c)
    /\ pc' = [pc EXCEPT ![c] = "sync"]
    /\ UNCHANGED <<batch, buf, wait, asked, drawn, driver, engine, owed>>

RetryAccepted(c) == pc[c] = "retry" /\ Accept(c)

RetryBusy(c) ==
    /\ pc[c] = "retry" /\ Refused(c)
    /\ Return(c)
    /\ UNCHANGED <<driver, engine, owed>>

(* Slip: the result of the poll is dropped. *)
SyncedAnyway == TRUE

(* HCGE_SYNC_TIMEOUT answers 0. *)
Synced == IF finish THEN ~busy ELSE Drained

(* In the middle of a submission a successful sync leads to the retry. *)
SyncThenRetry(c) ==
    /\ pc[c] = "sync" /\ Synced
    /\ pc' = [pc EXCEPT ![c] = "retry"]
    /\ UNCHANGED <<batch, buf, wait, asked, drawn, driver, engine, owed>>

SyncThenReturn(c) ==
    /\ pc[c] = "wait" /\ Synced
    /\ Return(c)
    /\ UNCHANGED <<driver, engine, owed>>

(* The sync runs into its limit of a second, or a signal arrives: the drawing
   call fails with EIO and is not repeated. *)
SyncFails(c) ==
    /\ pc[c] \in {"sync", "wait"} /\ ~Synced
    /\ Return(c)
    /\ UNCHANGED <<driver, engine, owed>>

(* hcge_reset, HCGE_RESET: what was queued is gone. *)
Reset(c) ==
    /\ pc[c] = "idle" /\ producer # 0
    /\ ring' = [i \in 0..Size - 1 |-> Blank]
    /\ producer' = 0 /\ wrap' = FALSE /\ wrapAt' = 0
    /\ isReset' = TRUE /\ finish' = TRUE
    /\ first' = 0 /\ end' = 0 /\ busy' = FALSE /\ irq' = FALSE
    /\ owed' = <<>>
    /\ UNCHANGED client

(* hcge_close and a new hcge_open while a batch is open: the context is zeroed
   and the batch, whose buffer is the caller's, is never submitted. *)
Reopen(c) ==
    /\ pc[c] = "idle" /\ batch[c].open
    /\ batch' = [batch EXCEPT ![c] = NoBatch]
    /\ asked' = [asked EXCEPT ![c] = <<>>]
    /\ UNCHANGED <<pc, buf, wait, drawn, driver, engine, owed>>
-----------------------------------------------------------------------------
(* The engine and its interrupt *)

Execute ==
    /\ busy
    /\ owed' = Tail(owed)
    /\ first' = first + 1
    /\ busy' = (first + 1 # end)
    /\ irq' = (irq \/ first + 1 = end)
    /\ UNCHANGED <<client, driver, end>>

(* sf2000_ge_irq; an interrupt that is lost is one that is never taken. *)
Interrupt ==
    /\ irq
    /\ irq' = FALSE
    /\ LET s == Started(producer, wrap, wrapAt, IF isReset THEN 0 ELSE first)
       IN  /\ first' = s.first /\ end' = s.end /\ wrap' = s.wrap
           /\ busy' = s.busy /\ finish' = s.finish
    /\ isReset' = FALSE
    /\ UNCHANGED <<client, ring, producer, wrapAt, owed>>

ClientStep(c) ==
    \/ BatchBegin(c)
    \/ \E n \in 1..MaxLen : Draw(c, n)
    \/ \E w \in BOOLEAN : BatchEnd(c, w)
    \/ SubmitAccepted(c) \/ SubmitBusy(c)
    \/ SyncThenRetry(c) \/ SyncThenReturn(c) \/ SyncFails(c)
    \/ RetryAccepted(c) \/ RetryBusy(c)
    \/ Reset(c) \/ Reopen(c)

Next == (\E c \in Clients : ClientStep(c)) \/ Execute \/ Interrupt

Spec == Init /\ [][Next]_vars /\ WF_vars(Execute)
-----------------------------------------------------------------------------
Slice(a, b) == [i \in 1..b - a |-> ring[a + i - 1]]

Queued == IF wrap THEN Slice(first, wrapAt) \o Slice(0, producer)
          ELSE Slice(first, producer)

(* The engine draws every accepted word once and in order: what lies in the
   ring between consumer and producer is what successful submissions still have
   to see drawn, across wraps, busy retries and late interrupts. *)
RingIsFaithful == Queued = owed

(* A submission carries everything the client drew for it: a batch that had to
   refuse a command is not submitted without it. *)
BatchIsWhole ==
    \A c \in Clients : pc[c] \in {"submit", "sync", "retry"} => buf[c] = asked[c]

(* A sync that answers 0 comes after everything its client had submitted has
   been drawn, also when the interrupt was lost or belongs to an earlier run. *)
SyncMeansDrawn ==
    \A c \in Clients :
        pc[c] = "wait" /\ Synced => \A i \in DOMAIN owed : owed[i][1] # c

(* A drained ring takes any submission that fits its half with the guard, so
   the one retry after a successful sync is enough. *)
DrainedHasRoom ==
    Drained => \A n \in 1..Size : 2 * n + Guard <= Size => Fits(n)

(* The queue is right for every client, at every step. *)
GeQueueIsFaithful ==
    RingIsFaithful /\ BatchIsWhole /\ SyncMeansDrawn /\ DrainedHasRoom

(* What was accepted is drawn. *)
AcceptedIsDrawn == []<>(owed = <<>>)
=============================================================================
