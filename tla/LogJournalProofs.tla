-------------------------- MODULE LogJournalProofs --------------------------
(***************************************************************************)
(* Proofs about LogJournal for every value of its constants.               *)
(*                                                                         *)
(* The inductive invariant (JournalInv) says where every cell of the log   *)
(* is: the buffer is a run of consecutive cells up to the newest, all      *)
(* older cells are written, lost or shed, and what a failed write has put  *)
(* on a card while it is still in the buffer is a prefix of the buffer.    *)
(* flush_log and the copy of append_bytes keep this one by one (FlushIs-   *)
(* Sound, CopyIsSound), and append_bytes is flush, copy, flush. BindInv    *)
(* adds which card's file may have cells that are not synced yet.          *)
(***************************************************************************)
EXTENDS LogJournal, SequenceTheorems, FiniteSetTheorems, TLAPS

-----------------------------------------------------------------------------
(* Runs of cells, and sequences of cells as sets                           *)

(* n consecutive cells behind cell lo.                                     *)
Run(lo, n) == [i \in 1..n |-> lo + i]

(* A run of n cells behind cell lo is the sequence of those cells, in      *)
(* order.                                                                  *)
LEMMA RunSeq ==
  ASSUME NEW lo \in Nat, NEW n \in Nat
  PROVE  /\ Run(lo, n) \in Seq(lo + 1 .. lo + n) /\ Len(Run(lo, n)) = n
         /\ ToSet(Run(lo, n)) = lo + 1 .. lo + n
<1>1. Run(lo, n) \in Seq(lo + 1 .. lo + n)
  BY DEF Run
<1>2. Len(Run(lo, n)) = n
  BY DEF Run
<1>3. ASSUME NEW x \in lo + 1 .. lo + n PROVE x \in ToSet(Run(lo, n))
  <2>1. x - lo \in 1..n /\ Run(lo, n)[x - lo] = x BY DEF Run
  <2> QED BY <2>1 DEF Run, ToSet
<1>4. ToSet(Run(lo, n)) \subseteq lo + 1 .. lo + n
  BY DEF Run, ToSet
<1> QED BY <1>1, <1>2, <1>3, <1>4

(* A run that is cut in two is two runs: what a write took and what it     *)
(* left, or what append_bytes discards and what it keeps.                  *)
LEMMA RunHeadTail ==
  ASSUME NEW lo \in Nat, NEW n \in Nat, NEW d \in 0..n
  PROVE  /\ SubSeq(Run(lo, n), 1, d) = Run(lo, d)
         /\ SubSeq(Run(lo, n), d + 1, n) = Run(lo + d, n - d)
  BY DEF Run

(* Copying new cells behind a run that ends where they begin makes one     *)
(* longer run.                                                             *)
LEMMA RunConcat ==
  ASSUME NEW lo \in Nat, NEW n \in Nat, NEW m \in Nat
  PROVE  Run(lo, n) \o Run(lo + n, m) = Run(lo, n + m)
  BY DEF Run

(* The cells of a sequence come from the set it is a sequence over.        *)
LEMMA SeqCells ==
  ASSUME NEW S, NEW s \in Seq(S) PROVE ToSet(s) \subseteq S
<1>1. \A i \in DOMAIN s : s[i] \in S OBVIOUS
<1> QED BY <1>1, Zenon DEF ToSet

(* write() at the end of a file adds exactly the cells it wrote.           *)
LEMMA ConcatToSet ==
  ASSUME NEW S, NEW s \in Seq(S), NEW t \in Seq(S)
  PROVE  ToSet(s \o t) = ToSet(s) \cup ToSet(t)
<1>1. ASSUME NEW i \in DOMAIN s PROVE s[i] \in ToSet(s \o t)
  <2>1. i \in DOMAIN (s \o t) /\ (s \o t)[i] = s[i] OBVIOUS
  <2> QED BY <2>1, Zenon DEF ToSet
<1>2. ASSUME NEW i \in DOMAIN t PROVE t[i] \in ToSet(s \o t)
  <2>1. Len(s) + i \in DOMAIN (s \o t) /\ (s \o t)[Len(s) + i] = t[i] OBVIOUS
  <2> QED BY <2>1, Zenon DEF ToSet
<1>3. ASSUME NEW i \in DOMAIN (s \o t) PROVE (s \o t)[i] \in ToSet(s) \cup ToSet(t)
  <2>1. CASE i <= Len(s)
    <3>1. i \in DOMAIN s /\ (s \o t)[i] = s[i] BY <2>1
    <3> QED BY <3>1, Zenon DEF ToSet
  <2>2. CASE ~(i <= Len(s))
    <3>1. i - Len(s) \in DOMAIN t /\ (s \o t)[i] = t[i - Len(s)] BY <2>2
    <3> QED BY <3>1, Zenon DEF ToSet
  <2> QED BY <2>1, <2>2
<1> QED BY <1>1, <1>2, <1>3 DEF ToSet

-----------------------------------------------------------------------------
(* flush_log                                                               *)

(* The cells in the files of all cards.                                    *)
CellsOf(log) == UNION {ToSet(log[c]) : c \in Cards}

(* A flush hands some prefix of the buffer to write(): all of it, and then *)
(* the buffer is empty; nothing; or a part of it, in a call that failed.   *)
FlushTakes(buf, log, r, k) ==
    /\ r.log = Written(log, SubSeq(buf, 1, k))
    /\ r.gone = Swallowed(SubSeq(buf, 1, k))
    /\ \/ k = Len(buf) /\ r.buf = <<>> /\ r.bad = 0
       \/ k < Len(buf) /\ r.buf = buf /\ r.bad = 1
       \/ k = 0 /\ r.buf = buf /\ r.bad = 0

(* Writing no cell changes no file and loses nothing.                      *)
LEMMA WrittenNothing ==
  ASSUME NEW S, NEW log \in [Cards -> Seq(S)]
  PROVE  Written(log, <<>>) = log /\ Swallowed(<<>>) = {}
<1>1. CASE Alive
  <2>1. fd \in Cards /\ log[fd] \o <<>> = log[fd] BY <1>1 DEF Alive
  <2> QED BY <1>1, <2>1 DEF Written, Swallowed
<1>2. CASE ~Alive
  BY <1>2 DEF Written, Swallowed, ToSet
<1> QED BY <1>1, <1>2

(* Every outcome of flush_log takes a prefix of the buffer.                *)
LEMMA FlushShape ==
  ASSUME NEW S, NEW buf \in Seq(S), NEW log \in [Cards -> Seq(S)], NEW held,
         NEW r \in FlushResults(buf, log, held)
  PROVE  \E k \in 0..Len(buf) : FlushTakes(buf, log, r, k)
<1>1. CASE NoFlush(buf, held)
  <2>1. r = [buf |-> buf, log |-> log, gone |-> {}, bad |-> 0]
    BY <1>1 DEF FlushResults
  <2>2. SubSeq(buf, 1, 0) = <<>> OBVIOUS
  <2>3. FlushTakes(buf, log, r, 0)
    BY <2>1, <2>2, WrittenNothing DEF FlushTakes
  <2> QED BY <2>3
<1>2. CASE ~NoFlush(buf, held)
  <2>1. CASE r = [buf |-> KeptAfterWrite(buf), log |-> Written(log, buf),
                  gone |-> Swallowed(buf), bad |-> 0]
    <3>1. SubSeq(buf, 1, Len(buf)) = buf OBVIOUS
    <3>2. FlushTakes(buf, log, r, Len(buf))
      BY <2>1, <3>1 DEF FlushTakes, KeptAfterWrite
    <3> QED BY <3>2
  <2>2. ASSUME NEW k \in 0..(Len(buf) - 1),
               r = [buf |-> KeptAfterFailure(buf),
                    log |-> Written(log, SubSeq(buf, 1, k)),
                    gone |-> Swallowed(SubSeq(buf, 1, k)), bad |-> 1]
        PROVE  \E j \in 0..Len(buf) : FlushTakes(buf, log, r, j)
    <3>1. FlushTakes(buf, log, r, k) BY <2>2 DEF FlushTakes, KeptAfterFailure
    <3> QED BY <3>1
  <2> QED BY <1>2, <2>1, <2>2 DEF FlushResults
<1> QED BY <1>1, <1>2

(* What write() took is in a file or lost, and nothing else is new there.  *)
LEMMA WrittenOrLost ==
  ASSUME NEW S, NEW log \in [Cards -> Seq(S)], NEW cells \in Seq(S)
  PROVE  /\ Written(log, cells) \in [Cards -> Seq(S)]
         /\ CellsOf(Written(log, cells)) \cup Swallowed(cells)
              = CellsOf(log) \cup ToSet(cells)
<1>1. CASE Alive
  <2> DEFINE log2 == Written(log, cells)
  <2>1. fd \in Cards /\ log2 = [log EXCEPT ![fd] = log[fd] \o cells]
    BY <1>1 DEF Alive, Written
  <2>2. log2 \in [Cards -> Seq(S)] BY <2>1
  <2>3. ToSet(log2[fd]) = ToSet(log[fd]) \cup ToSet(cells)
    BY <2>1, ConcatToSet
  <2>4. \A c \in Cards \ {fd} : log2[c] = log[c] BY <2>1
  <2>5. CellsOf(log2) = CellsOf(log) \cup ToSet(cells)
    <3> HIDE DEF log2
    <3> QED BY <2>1, <2>3, <2>4, Zenon DEF CellsOf
  <2> QED BY <1>1, <2>2, <2>5 DEF Swallowed
<1>2. CASE ~Alive
  BY <1>2 DEF Written, Swallowed
<1> QED BY <1>1, <1>2

-----------------------------------------------------------------------------
(* The stream: what is in the buffer, in the files, lost and shed          *)

(* The buffer is a run of consecutive cells that ends with the newest one; *)
(* every older cell is in a file, lost or shed; what was shed is older     *)
(* than the buffer; and a cell of the buffer that a failed write has       *)
(* already put on a card has only such cells before it.                    *)
Sound(buf, log, gone, old, e) ==
    /\ e \in Nat /\ Len(buf) <= e /\ Len(buf) <= BufferSize
    /\ buf \in Seq(1..e) /\ buf = Run(e - Len(buf), Len(buf))
    /\ log \in [Cards -> Seq(1..e)] /\ gone \subseteq 1..e /\ old \subseteq 1..e
    /\ 1..(e - Len(buf)) \subseteq CellsOf(log) \cup gone \cup old
    /\ \A x \in old : x <= e - Len(buf)
    /\ \A x \in CellsOf(log) \cup gone : \A y \in (e - Len(buf) + 1)..x :
          y \in CellsOf(log) \cup gone

(* From a sound journal a flush makes exactly the k oldest cells of the    *)
(* buffer stored, in a file or lost with the card.                         *)
LEMMA FlushStores ==
  ASSUME NEW buf, NEW log, NEW gone, NEW old, NEW e, NEW held,
         Sound(buf, log, gone, old, e), NEW r \in FlushResults(buf, log, held)
  PROVE  \E k \in 0..Len(buf) :
           /\ FlushTakes(buf, log, r, k)
           /\ r.log \in [Cards -> Seq(1..e)]
           /\ r.gone \subseteq 1..e
           /\ CellsOf(r.log) \cup (gone \cup r.gone)
                = (CellsOf(log) \cup gone)
                  \cup ((e - Len(buf) + 1) .. (e - Len(buf) + k))
<1> DEFINE lo == e - Len(buf)
<1>1. buf \in Seq(1..e) /\ log \in [Cards -> Seq(1..e)] /\ lo \in Nat
      /\ Len(buf) \in Nat /\ buf = Run(lo, Len(buf)) /\ e \in Nat
  BY DEF Sound
<1>2. PICK k \in 0..Len(buf) : FlushTakes(buf, log, r, k)
  BY <1>1, FlushShape
<1>3. SubSeq(buf, 1, k) = Run(lo, k)
  <2> DEFINE m == Len(buf)
  <2>1. lo \in Nat /\ m \in Nat /\ k \in 0..m /\ buf = Run(lo, m) BY <1>1
  <2> HIDE DEF lo, m
  <2>2. SubSeq(Run(lo, m), 1, k) = Run(lo, k) BY <2>1, RunHeadTail
  <2> QED BY <2>1, <2>2
<1>4. /\ SubSeq(buf, 1, k) \in Seq(1..e)
      /\ ToSet(SubSeq(buf, 1, k)) = (lo + 1)..(lo + k)
  <2> HIDE DEF lo
  <2>1. SubSeq(buf, 1, k) \in Seq(1..e) BY <1>1
  <2>2. k \in Nat OBVIOUS
  <2> QED BY <1>1, <1>3, <2>1, <2>2, RunSeq
<1>5. /\ r.log \in [Cards -> Seq(1..e)]
      /\ CellsOf(r.log) \cup r.gone = CellsOf(log) \cup (lo + 1 .. lo + k)
  <2> DEFINE cells == SubSeq(buf, 1, k)
  <2>1. r.log = Written(log, cells) /\ r.gone = Swallowed(cells)
    BY <1>2 DEF FlushTakes
  <2>2. cells \in Seq(1..e) /\ ToSet(cells) = (lo + 1)..(lo + k) BY <1>4
  <2> HIDE DEF lo, cells
  <2>3. /\ Written(log, cells) \in [Cards -> Seq(1..e)]
        /\ CellsOf(Written(log, cells)) \cup Swallowed(cells)
             = CellsOf(log) \cup ToSet(cells)
    BY <1>1, <2>2, WrittenOrLost
  <2> QED BY <2>1, <2>2, <2>3
<1>6. r.gone \subseteq 1..e
  <2> HIDE DEF lo
  <2>1. r.gone \subseteq ToSet(SubSeq(buf, 1, k))
    BY <1>2 DEF FlushTakes, Swallowed
  <2>2. lo + k <= e BY <1>1 DEF lo
  <2> QED BY <1>1, <1>4, <2>1, <2>2
<1> QED BY <1>2, <1>5, <1>6

(* flush_log keeps the journal sound, also when its write fails half-way   *)
(* and leaves written cells in the buffer.                                 *)
LEMMA FlushIsSound ==
  ASSUME NEW buf, NEW log, NEW gone, NEW old, NEW e, NEW held,
         Sound(buf, log, gone, old, e), NEW r \in FlushResults(buf, log, held)
  PROVE  Sound(r.buf, r.log, gone \cup r.gone, old, e)
<1> DEFINE lo == e - Len(buf)
           st == CellsOf(log) \cup gone
           st2 == CellsOf(r.log) \cup (gone \cup r.gone)
<1>1. PICK k \in 0..Len(buf) :
           /\ FlushTakes(buf, log, r, k)
           /\ r.log \in [Cards -> Seq(1..e)]
           /\ r.gone \subseteq 1..e
           /\ st2 = st \cup ((lo + 1) .. (lo + k))
  BY FlushStores
<1>2. /\ e \in Nat /\ Len(buf) \in Nat /\ lo \in Nat /\ lo + Len(buf) = e
      /\ 1..lo \subseteq st \cup old /\ gone \subseteq 1..e
      /\ \A x \in old : x <= lo
      /\ \A x \in st : \A y \in (lo + 1)..x : y \in st
      /\ st \subseteq 1..e /\ old \subseteq 1..e
  <2>1. CellsOf(log) \subseteq 1..e BY DEF Sound, CellsOf, ToSet
  <2>2. Len(buf) \in Nat /\ e \in Nat /\ Len(buf) <= e BY DEF Sound
  <2>3. lo \in Nat /\ lo + Len(buf) = e BY <2>2
  <2> QED BY <2>1, <2>2, <2>3 DEF Sound
<1>3. st \subseteq Nat BY <1>2
<1>4. CASE r.buf = buf
  <2>1. \A x \in st2 : \A y \in (lo + 1)..x : y \in st2
    <3> HIDE DEF lo, st, st2
    <3> QED BY <1>1, <1>2, <1>3
  <2>2. 1..lo \subseteq st2 \cup old BY <1>1, <1>2
  <2> QED BY <1>1, <1>2, <1>4, <2>1, <2>2 DEF Sound
<1>5. CASE r.buf = <<>> /\ k = Len(buf)
  <2>1. Len(r.buf) = 0 /\ r.buf \in Seq(1..e) /\ r.buf = Run(e - 0, 0)
    BY <1>5 DEF Run
  <2>2. 1..e \subseteq st2 \cup old
    <3> HIDE DEF lo, st, st2
    <3> QED BY <1>1, <1>2, <1>5
  <2>3. st2 \subseteq 1..e
    <3> HIDE DEF lo, st, st2
    <3>1. (lo + 1)..(lo + k) \subseteq 1..e BY <1>2, <1>5
    <3> QED BY <1>1, <1>2, <3>1
  <2>4. \A x \in st2 : \A y \in (e + 1)..x : y \in st2
    <3> HIDE DEF lo, st, st2
    <3> QED BY <1>2, <2>3
  <2>5. \A x \in old : x <= e BY <1>2
  <2>6. e - Len(r.buf) = e /\ 0 <= e /\ 0 <= BufferSize
    BY <1>2, <2>1, LogJournalAssumption
  <2> QED BY <1>1, <1>2, <2>1, <2>2, <2>4, <2>5, <2>6 DEF Sound
<1> QED BY <1>1, <1>4, <1>5 DEF FlushTakes

(* append_bytes between its two flushes: n new cells behind what stays of  *)
(* the buffer.                                                             *)
Copied(buf, n, e) == NewestWindow(buf, Discard(buf, n)) \o Run(e, n)
Discarded(buf, n, e) ==
    (ToSet(buf) \cup ToSet(Run(e, n))) \ ToSet(Copied(buf, n, e))

(* What append_bytes leaves in the buffer is a run that ends with the new  *)
(* cells, never longer than log_buffer; it discards the oldest cells, and  *)
(* only if the buffer is full afterwards.                                  *)
LEMMA CopyShape ==
  ASSUME NEW buf, NEW log, NEW gone, NEW old, NEW e,
         Sound(buf, log, gone, old, e), NEW n \in 1..BufferSize
  PROVE  LET new == Copied(buf, n, e)
             lo == e - Len(buf)
             lo2 == e + n - Len(new)
         IN /\ Len(new) \in Nat /\ Len(new) <= BufferSize
            /\ lo \in Nat /\ lo2 \in Nat /\ lo <= lo2 /\ lo2 <= e
            /\ new = Run(lo2, Len(new))
            /\ new \in Seq(1..(e + n))
            /\ Discarded(buf, n, e) = (lo + 1)..lo2
            /\ lo < lo2 => Len(new) = BufferSize
            /\ Discard(buf, n) = lo2 - lo
<1> DEFINE lo == e - Len(buf)
           d == Discard(buf, n)
           L == Len(buf) - d + n
<1>0. BufferSize \in Nat BY LogJournalAssumption
<1>1. /\ e \in Nat /\ Len(buf) \in Nat /\ lo \in Nat /\ n \in Nat
      /\ buf = Run(lo, Len(buf)) /\ Len(buf) <= BufferSize
  BY <1>0 DEF Sound
<1>2. /\ d \in 0..Len(buf) /\ L \in Nat /\ L <= BufferSize
      /\ (d > 0 => L = BufferSize)
  BY <1>0, <1>1 DEF Discard
<1>3. NewestWindow(buf, d) = Run(lo + d, Len(buf) - d)
  <2> DEFINE m == Len(buf)
  <2>1. lo \in Nat /\ m \in Nat /\ d \in 0..m /\ buf = Run(lo, m) BY <1>1, <1>2
  <2>2. NewestWindow(buf, d) = SubSeq(buf, d + 1, m) BY DEF NewestWindow
  <2> HIDE DEF lo, d, m
  <2>3. SubSeq(Run(lo, m), d + 1, m) = Run(lo + d, m - d) BY <2>1, RunHeadTail
  <2>4. NewestWindow(buf, d) = Run(lo + d, m - d) BY <2>1, <2>2, <2>3
  <2> QED BY <2>4 DEF m
<1>4. Copied(buf, n, e) = Run(lo + d, L)
  <2>1. Run(lo + d, Len(buf) - d) \o Run(lo + d + (Len(buf) - d), n)
          = Run(lo + d, (Len(buf) - d) + n)
    <3>1. lo + d \in Nat /\ Len(buf) - d \in Nat BY <1>1, <1>2
    <3> HIDE DEF lo, d
    <3> QED BY <1>1, <3>1, RunConcat
  <2>2. lo + d + (Len(buf) - d) = e BY <1>1, <1>2
  <2> QED BY <1>3, <2>1, <2>2 DEF Copied
<1>5. /\ Len(Copied(buf, n, e)) = L /\ e + n - L = lo + d
      /\ ToSet(Copied(buf, n, e)) = (lo + d + 1)..(e + n)
      /\ Copied(buf, n, e) \in Seq(1..(e + n))
  <2>1. lo + d \in Nat /\ e + n - L = lo + d /\ lo + d + L = e + n
    BY <1>1, <1>2
  <2> HIDE DEF lo, d, L
  <2>2. /\ Run(lo + d, L) \in Seq((lo + d + 1)..(lo + d + L))
        /\ Len(Run(lo + d, L)) = L
        /\ ToSet(Run(lo + d, L)) = (lo + d + 1)..(lo + d + L)
    BY <1>2, <2>1, RunSeq
  <2>3. (lo + d + 1)..(e + n) \subseteq 1..(e + n) BY <2>1
  <2> QED BY <1>4, <2>1, <2>2, <2>3, SeqMonotonic
<1>6. ToSet(buf) = (lo + 1)..e /\ ToSet(Run(e, n)) = (e + 1)..(e + n)
  <2>1. ToSet(buf) = (lo + 1)..(lo + Len(buf))
    <3> HIDE DEF lo
    <3> QED BY <1>1, RunSeq
  <2> QED BY <1>1, <2>1, RunSeq
<1>7. Discarded(buf, n, e) = (lo + 1)..(lo + d)
  <2>1. lo + d <= e BY <1>1, <1>2
  <2> HIDE DEF lo, d, L
  <2> QED BY <1>1, <1>2, <1>5, <1>6, <2>1 DEF Discarded
<1> DEFINE new == Copied(buf, n, e)
<1>8. /\ e + n - Len(new) = lo + d /\ lo + d \in Nat /\ lo <= lo + d
      /\ lo + d <= e /\ (lo < lo + d => d > 0) /\ d = (lo + d) - lo
  <2>1. lo + d \in Nat /\ lo <= lo + d /\ lo + d <= e BY <1>1, <1>2
  <2>2. (lo < lo + d => d > 0) /\ d = (lo + d) - lo
    <3> HIDE DEF d, lo
    <3> QED BY <1>1, <1>2
  <2>3. e + n - Len(new) = lo + d BY <1>5
  <2> QED BY <2>1, <2>2, <2>3
<1>9. /\ Len(new) \in Nat /\ Len(new) <= BufferSize
      /\ new = Run(lo + d, Len(new)) /\ new \in Seq(1..(e + n))
      /\ (d > 0 => Len(new) = BufferSize)
  BY <1>2, <1>4, <1>5
<1> HIDE DEF lo, new, L
<1> QED BY <1>1, <1>7, <1>8, <1>9 DEF lo, new

(* Discarding the oldest cells and copying new ones keeps the journal      *)
(* sound.                                                                  *)
LEMMA CopyIsSound ==
  ASSUME NEW buf, NEW log, NEW gone, NEW old, NEW e,
         Sound(buf, log, gone, old, e), NEW n \in 1..BufferSize
  PROVE  Sound(Copied(buf, n, e), log, gone, old \cup Discarded(buf, n, e), e + n)
<1> DEFINE new == Copied(buf, n, e)
           lo == e - Len(buf)
           lo2 == e + n - Len(new)
           st == CellsOf(log) \cup gone
           old2 == old \cup Discarded(buf, n, e)
<1>1. /\ Len(new) \in Nat /\ Len(new) <= BufferSize
      /\ lo \in Nat /\ lo2 \in Nat /\ lo <= lo2 /\ lo2 <= e
      /\ new = Run(lo2, Len(new)) /\ new \in Seq(1..(e + n))
      /\ Discarded(buf, n, e) = (lo + 1)..lo2
  BY CopyShape
<1>2. /\ e \in Nat /\ n \in Nat /\ e + n \in Nat /\ 1..e \subseteq 1..(e + n)
      /\ 1..lo \subseteq st \cup old /\ old \subseteq 1..e /\ gone \subseteq 1..e
      /\ \A x \in old : x <= lo
      /\ \A x \in st : \A y \in (lo + 1)..x : y \in st
  <2>1. e \in Nat /\ n \in Nat BY LogJournalAssumption DEF Sound
  <2> QED BY <2>1 DEF Sound
<1>3. log \in [Cards -> Seq(1..(e + n))]
  <2>1. log \in [Cards -> Seq(1..e)] BY DEF Sound
  <2>2. \A c \in Cards : log[c] \in Seq(1..(e + n))
    BY <1>2, <2>1, SeqMonotonic
  <2> QED BY <2>1, <2>2
<1>4. Len(new) <= e + n
  <2> HIDE DEF new
  <2> QED BY <1>1, <1>2
<1>5. CellsOf(log) \subseteq 1..e BY DEF Sound, CellsOf, ToSet
<1>6. st \subseteq 1..e BY <1>2, <1>5
<1> HIDE DEF new, lo, lo2, st
<1>7. 1..lo2 \subseteq st \cup old2 BY <1>1, <1>2
<1>8. \A x \in old2 : x <= lo2 BY <1>1, <1>2
<1>9. \A x \in st : \A y \in (lo2 + 1)..x : y \in st BY <1>1, <1>2, <1>6
<1>10. old2 \subseteq 1..(e + n) BY <1>1, <1>2
<1>11. /\ 1..(e + n - Len(new)) \subseteq (CellsOf(log) \cup gone) \cup old2
       /\ \A x \in old2 : x <= e + n - Len(new)
       /\ \A x \in CellsOf(log) \cup gone :
             \A y \in (e + n - Len(new) + 1)..x : y \in CellsOf(log) \cup gone
       /\ new = Run(e + n - Len(new), Len(new))
  BY <1>1, <1>7, <1>8, <1>9 DEF lo2, st
<1>12. Sound(new, log, gone, old2, e + n)
  BY <1>1, <1>2, <1>3, <1>4, <1>10, <1>11 DEF Sound
<1> QED BY <1>12 DEF new

-----------------------------------------------------------------------------
(* append_bytes is flush, copy, flush                                      *)

(* append_bytes with these outcomes of its two flushes.                    *)
AppendIs(n, was, r1, r2) ==
    /\ buffer' = r2.buf /\ file' = r2.log
    /\ lost' = (lost \cup r1.gone) \cup r2.gone
    /\ failures' = Count(r1.bad + r2.bad)
    /\ dropped' = was + Discard(r1.buf, n)
    /\ shed' = shed \cup Discarded(r1.buf, n, emitted)
    /\ emitted' = emitted + n
    /\ durable' = durable

(* append_bytes is a flush, a copy and another flush; held back by a       *)
(* session, both flushes are.                                              *)
LEMMA AppendParts ==
  ASSUME NEW n, NEW held \in BOOLEAN, NEW was, AppendBytes(n, held, was)
  PROVE  \E h1, h2 \in BOOLEAN :
         \E r1 \in FlushResults(buffer, file, h1) :
         \E r2 \in FlushResults(Copied(r1.buf, n, emitted), r1.log, h2) :
            (held => h1 /\ h2) /\ AppendIs(n, was, r1, r2)
<1> DEFINE h1 == IF Len(buffer) + n > BufferSize THEN held ELSE TRUE
           Buf(r) == NewestWindow(r.buf, Discard(r.buf, n))
                       \o [i \in 1..n |-> emitted + i]
           h2(r) == held \/ Len(Buf(r)) < FlushBytes
<1>1. PICK r1 \in FlushResults(buffer, file, h1) :
      \E r2 \in FlushResults(Buf(r1), r1.log, h2(r1)) :
           /\ buffer' = r2.buf /\ file' = r2.log
           /\ lost' = lost \cup r1.gone \cup r2.gone
           /\ failures' = Count(r1.bad + r2.bad)
           /\ dropped' = was + Discard(r1.buf, n)
           /\ shed' = shed \cup ((ToSet(r1.buf)
                         \cup ToSet([i \in 1..n |-> emitted + i])) \ ToSet(Buf(r1)))
           /\ emitted' = emitted + n
           /\ UNCHANGED durable
  <2>1. CASE Len(buffer) + n > BufferSize
    BY <2>1, Zenon DEF AppendBytes
  <2>2. CASE ~(Len(buffer) + n > BufferSize)
    BY <2>2, Zenon DEF AppendBytes
  <2> QED BY <2>1, <2>2
<1>2. Buf(r1) = Copied(r1.buf, n, emitted) BY Zenon DEF Copied, Run
<1>3. h1 \in BOOLEAN /\ h2(r1) \in BOOLEAN BY Zenon
<1>4. held => h1 /\ h2(r1) BY Zenon
<1> HIDE DEF Buf, h1, h2
<1>5. \E r2 \in FlushResults(Copied(r1.buf, n, emitted), r1.log, h2(r1)) :
         AppendIs(n, was, r1, r2)
  BY <1>1, <1>2, Zenon DEF AppendIs, Discarded, Run
<1> QED BY <1>3, <1>4, <1>5, Zenon

-----------------------------------------------------------------------------
(* What every write to the files has in common                             *)

(* Only the file of the card in the slot, if logd has that one open, gets  *)
(* longer; no file changes what it has.                                    *)
Grown(log, log2) ==
    \A c \in Cards :
        /\ c # slot \/ c # fd => log2[c] = log[c]
        /\ Len(log[c]) <= Len(log2[c])
        /\ \A i \in 1..Len(log[c]) : log2[c][i] = log[c][i]

(* Two writes in a row change the files as one may.                        *)
LEMMA GrownTwice ==
  ASSUME NEW S, NEW log1 \in [Cards -> Seq(S)], NEW log2 \in [Cards -> Seq(S)],
         NEW T, NEW log3 \in [Cards -> Seq(T)],
         Grown(log1, log2), Grown(log2, log3)
  PROVE  Grown(log1, log3)
<1> SUFFICES ASSUME NEW c \in Cards
             PROVE  /\ c # slot \/ c # fd => log3[c] = log1[c]
                    /\ Len(log1[c]) <= Len(log3[c])
                    /\ \A i \in 1..Len(log1[c]) : log3[c][i] = log1[c][i]
  BY Zenon DEF Grown
<1>1. /\ c # slot \/ c # fd => log2[c] = log1[c]
      /\ Len(log1[c]) <= Len(log2[c])
      /\ \A i \in 1..Len(log1[c]) : log2[c][i] = log1[c][i]
  BY Zenon DEF Grown
<1>2. /\ c # slot \/ c # fd => log3[c] = log2[c]
      /\ Len(log2[c]) <= Len(log3[c])
      /\ \A i \in 1..Len(log2[c]) : log3[c][i] = log2[c][i]
  BY Zenon DEF Grown
<1>3. Len(log1[c]) \in Nat /\ Len(log2[c]) \in Nat /\ Len(log3[c]) \in Nat
  OBVIOUS
<1> QED BY <1>1, <1>2, <1>3

(* flush_log only appends, and only to the file on the card in the slot.   *)
LEMMA FlushGrows ==
  ASSUME NEW S, NEW buf \in Seq(S), NEW log \in [Cards -> Seq(S)], NEW held,
         NEW r \in FlushResults(buf, log, held)
  PROVE  Grown(log, r.log)
<1>1. PICK k \in 0..Len(buf) : FlushTakes(buf, log, r, k)
  BY FlushShape
<1> DEFINE cells == SubSeq(buf, 1, k)
<1>2. cells \in Seq(S) /\ r.log = Written(log, cells) BY <1>1 DEF FlushTakes
<1> HIDE DEF cells
<1>3. CASE Alive
  <2>1. fd \in Cards /\ slot = fd /\ r.log = [log EXCEPT ![fd] = log[fd] \o cells]
    BY <1>2, <1>3 DEF Alive, Written
  <2> SUFFICES ASSUME NEW c \in Cards
               PROVE  /\ c # slot \/ c # fd => r.log[c] = log[c]
                      /\ Len(log[c]) <= Len(r.log[c])
                      /\ \A i \in 1..Len(log[c]) : r.log[c][i] = log[c][i]
    BY Zenon DEF Grown
  <2>2. CASE c = fd
    <3>1. r.log[c] = log[c] \o cells BY <2>1, <2>2
    <3> QED BY <1>2, <2>1, <2>2, <3>1
  <2>3. CASE c # fd
    <3>1. r.log[c] = log[c] BY <2>1, <2>3
    <3> QED BY <3>1
  <2> QED BY <2>2, <2>3
<1>4. CASE ~Alive
  <2>1. r.log = log BY <1>2, <1>4 DEF Written
  <2> QED BY <2>1 DEF Grown
<1> QED BY <1>3, <1>4

(* The journal is sound and no card has more durable cells than cells.     *)
StreamInv ==
    /\ Sound(buffer, file, lost, shed, emitted)
    /\ dropped \in Nat /\ failures \in Nat
    /\ durable \in [Cards -> Nat] /\ \A c \in Cards : durable[c] <= Len(file[c])

(* What a step that appends or flushes does to the stream.                 *)
StreamGrows ==
    /\ StreamInv' /\ Grown(file, file')
    /\ emitted <= emitted' /\ shed \subseteq shed' /\ lost \subseteq lost'

(* A flush fails at most once.                                             *)
LEMMA BadIsCounted ==
  ASSUME NEW S, NEW buf \in Seq(S), NEW log \in [Cards -> Seq(S)], NEW held,
         NEW r \in FlushResults(buf, log, held)
  PROVE  r.bad \in {0, 1}
<1>1. PICK k \in 0..Len(buf) : FlushTakes(buf, log, r, k)
  BY FlushShape
<1> QED BY <1>1 DEF FlushTakes

(* append_bytes keeps the stream invariant, appends n cells, syncs         *)
(* nothing, and writes nothing while it is held back.                      *)
LEMMA AppendKeeps ==
  ASSUME StreamInv, NEW n \in 1..BufferSize, NEW held \in BOOLEAN,
         NEW was \in Nat, AppendBytes(n, held, was)
  PROVE  /\ StreamGrows /\ durable' = durable /\ emitted' = emitted + n
         /\ held => file' = file
<1>1. PICK h1 \in BOOLEAN, h2 \in BOOLEAN :
        \E r1 \in FlushResults(buffer, file, h1) :
        \E r2 \in FlushResults(Copied(r1.buf, n, emitted), r1.log, h2) :
           (held => h1 /\ h2) /\ AppendIs(n, was, r1, r2)
  BY AppendParts, Zenon
<1>0. PICK r1 \in FlushResults(buffer, file, h1) :
        \E r2 \in FlushResults(Copied(r1.buf, n, emitted), r1.log, h2) :
           (held => h1 /\ h2) /\ AppendIs(n, was, r1, r2)
  BY <1>1, Zenon
<1>2. PICK r2 \in FlushResults(Copied(r1.buf, n, emitted), r1.log, h2) :
           (held => h1 /\ h2) /\ AppendIs(n, was, r1, r2)
  BY <1>0, Zenon
<1> DEFINE buf2 == Copied(r1.buf, n, emitted)
           old2 == shed \cup Discarded(r1.buf, n, emitted)
<1>3. Sound(buffer, file, lost, shed, emitted) BY DEF StreamInv
<1>4. Sound(r1.buf, r1.log, lost \cup r1.gone, shed, emitted)
  BY <1>3, FlushIsSound
<1>5. Sound(buf2, r1.log, lost \cup r1.gone, old2, emitted + n)
  BY <1>4, CopyIsSound
<1> HIDE DEF buf2, old2
<1>6. Sound(r2.buf, r2.log, (lost \cup r1.gone) \cup r2.gone, old2, emitted + n)
  BY <1>5, FlushIsSound DEF buf2
<1>7. Sound(buffer', file', lost', shed', emitted')
  BY <1>2, <1>6 DEF AppendIs, old2
<1>8. /\ buffer \in Seq(1..emitted) /\ file \in [Cards -> Seq(1..emitted)]
      /\ r1.log \in [Cards -> Seq(1..emitted)]
      /\ buf2 \in Seq(1..(emitted + n))
      /\ r1.log \in [Cards -> Seq(1..(emitted + n))]
      /\ r2.log \in [Cards -> Seq(1..(emitted + n))]
  BY <1>3, <1>4, <1>5, <1>6 DEF Sound
<1>9. Grown(file, r1.log) BY <1>8, FlushGrows
<1>10. Grown(r1.log, r2.log) BY <1>8, FlushGrows DEF buf2
<1>11. Grown(file, file')
  BY <1>2, <1>8, <1>9, <1>10, GrownTwice DEF AppendIs
<1>12. r1.bad \in {0, 1} /\ r2.bad \in {0, 1}
  BY <1>8, BadIsCounted DEF buf2
<1>13. failures' \in Nat
  BY <1>2, <1>12 DEF AppendIs, Count, StreamInv
<1>14. dropped' \in Nat
  <2>1. Len(r1.buf) \in Nat BY <1>4 DEF Sound
  <2>2. Discard(r1.buf, n) \in Nat
    BY <2>1, LogJournalAssumption DEF Discard
  <2> QED BY <1>2, <2>2 DEF AppendIs
<1>15. durable' \in [Cards -> Nat] /\ \A c \in Cards : durable'[c] <= Len(file'[c])
  <2>1. durable' = durable BY <1>2 DEF AppendIs
  <2>2. ASSUME NEW c \in Cards PROVE durable[c] <= Len(file'[c])
    <3>1. durable[c] \in Nat /\ durable[c] <= Len(file[c]) BY DEF StreamInv
    <3>2. Len(file[c]) <= Len(file'[c]) BY <1>11 DEF Grown
    <3>3. file[c] \in Seq(1..emitted) /\ file'[c] \in Seq(1..(emitted + n))
      BY <1>2, <1>8 DEF AppendIs
    <3>4. Len(file[c]) \in Nat /\ Len(file'[c]) \in Nat BY <3>3
    <3> QED BY <3>1, <3>2, <3>4
  <2> QED BY <2>1, <2>2 DEF StreamInv
<1>16. held => file' = file
  <2> SUFFICES ASSUME held PROVE file' = file
    OBVIOUS
  <2>1. h1 /\ h2 BY <1>2
  <2>2. r1.log = file BY <2>1 DEF FlushResults, NoFlush
  <2>3. r2.log = r1.log BY <2>1 DEF FlushResults, NoFlush
  <2> QED BY <1>2, <2>2, <2>3 DEF AppendIs
<1>17. emitted <= emitted' /\ emitted' = emitted + n
  BY <1>2, <1>3, LogJournalAssumption DEF AppendIs, Sound
<1> QED
  BY <1>2, <1>7, <1>11, <1>13, <1>14, <1>15, <1>16, <1>17
  DEF StreamGrows, StreamInv, AppendIs

(* flush_log of the buffer as a step.                                      *)
LEMMA FlushKeeps ==
  ASSUME StreamInv, NEW held, NEW r \in FlushResults(buffer, file, held),
         buffer' = r.buf, file' = r.log, lost' = lost \cup r.gone,
         failures' \in Nat, UNCHANGED <<dropped, emitted, shed>>,
         durable' \in [Cards -> Nat],
         \A c \in Cards : durable'[c] <= Len(file'[c])
  PROVE  StreamGrows
<1>1. Sound(buffer, file, lost, shed, emitted) BY DEF StreamInv
<1>2. Sound(r.buf, r.log, lost \cup r.gone, shed, emitted) BY <1>1, FlushIsSound
<1>3. buffer \in Seq(1..emitted) /\ file \in [Cards -> Seq(1..emitted)]
      /\ emitted \in Nat
  BY <1>1 DEF Sound
<1>4. Grown(file, r.log) BY <1>3, FlushGrows
<1>5. Sound(buffer', file', lost', shed', emitted') BY <1>2
<1>6. dropped' \in Nat BY DEF StreamInv
<1> QED BY <1>3, <1>4, <1>5, <1>6 DEF StreamGrows, StreamInv

(* The durable part of a file grows only by fsync of the card in the slot. *)
DurableGrows ==
    \A c \in Cards : /\ durable[c] <= durable'[c]
                     /\ c # slot \/ c # fd => durable'[c] = durable[c]

(* A file that grows still has its durable cells.                          *)
LEMMA GrownKeepsDurable ==
  ASSUME StreamInv, NEW S, NEW log \in [Cards -> Seq(S)], Grown(file, log),
         NEW c \in Cards
  PROVE  durable[c] <= Len(log[c])
<1>1. durable[c] \in Nat /\ durable[c] <= Len(file[c]) BY DEF StreamInv
<1>2. Len(file[c]) <= Len(log[c]) BY DEF Grown
<1>3. file[c] \in Seq(1..emitted) BY DEF StreamInv, Sound
<1>4. Len(file[c]) \in Nat /\ Len(log[c]) \in Nat BY <1>3
<1> QED BY <1>1, <1>2, <1>4

(* flush_log keeps the stream invariant and syncs nothing.                 *)
LEMMA PlainFlushKeeps ==
  ASSUME StreamInv, NEW held \in BOOLEAN, Flush(held)
  PROVE  /\ StreamGrows /\ emitted' = emitted /\ durable' = durable
         /\ held => file' = file
<1>1. PICK r \in FlushResults(buffer, file, held) :
        /\ buffer' = r.buf /\ file' = r.log
        /\ lost' = lost \cup r.gone
        /\ failures' = Count(r.bad)
        /\ UNCHANGED <<durable, dropped, emitted, shed>>
  BY DEF Flush
<1>2. buffer \in Seq(1..emitted) /\ file \in [Cards -> Seq(1..emitted)]
  BY DEF StreamInv, Sound
<1>3. r.bad \in {0, 1} BY <1>2, BadIsCounted
<1>4. failures' \in Nat BY <1>1, <1>3 DEF Count, StreamInv
<1>5. Grown(file, r.log) BY <1>2, FlushGrows
<1>6. r.log \in [Cards -> Seq(1..emitted)]
  <2>1. Sound(buffer, file, lost, shed, emitted) BY DEF StreamInv
  <2>2. Sound(r.buf, r.log, lost \cup r.gone, shed, emitted)
    BY <2>1, FlushIsSound
  <2> QED BY <2>2 DEF Sound
<1>7. \A c \in Cards : durable[c] <= Len(r.log[c])
  BY <1>5, <1>6, GrownKeepsDurable
<1>8. durable' \in [Cards -> Nat] /\ \A c \in Cards : durable'[c] <= Len(file'[c])
  BY <1>1, <1>7 DEF StreamInv
<1>9. StreamGrows BY <1>1, <1>4, <1>8, FlushKeeps
<1>10. held => file' = file BY <1>1 DEF FlushResults, NoFlush
<1> QED BY <1>1, <1>9, <1>10

(* flush_log and fsync; a success leaves nothing in the buffer and all of  *)
(* the open file durable.                                                  *)
SyncDrains ==
    /\ buffer' = <<>> /\ (Alive \/ fd \notin Cards)
    /\ Alive => durable'[fd] = Len(file'[fd])

(* flush_log and fsync keep the stream invariant; a success drains the     *)
(* buffer, a failure on a present card is counted.                         *)
LEMMA SyncKeeps ==
  ASSUME StreamInv, NEW ok \in BOOLEAN, FlushAndSync(ok), fd # None
  PROVE  /\ StreamGrows /\ emitted' = emitted /\ DurableGrows
         /\ ok => SyncDrains
         /\ ~ok /\ Alive => failures' = failures + 1
<1>1. PICK r \in FlushResults(buffer, file, FALSE) :
        /\ buffer' = r.buf /\ file' = r.log
        /\ lost' = lost \cup r.gone
        /\ IF r.bad = 1
             THEN ok = FALSE /\ failures' = Count(1) /\ UNCHANGED durable
             ELSE /\ ok \in IF fd \in Cards /\ slot # fd THEN {FALSE}
                                                       ELSE SyncOutcomes
                  /\ failures' = Count(IF ok THEN 0 ELSE 1)
                  /\ durable' = IF ok /\ Alive
                                  THEN [durable EXCEPT ![fd] = Len(file'[fd])]
                                  ELSE durable
        /\ UNCHANGED <<dropped, emitted, shed>>
  BY Zenon DEF FlushAndSync
<1>2. buffer \in Seq(1..emitted) /\ file \in [Cards -> Seq(1..emitted)]
  BY DEF StreamInv, Sound
<1>3. r.bad \in {0, 1} BY <1>2, BadIsCounted
<1>4. failures' \in Nat
  <2>1. failures' = Count(0) \/ failures' = Count(1) BY <1>1, Zenon
  <2>2. failures \in Nat BY DEF StreamInv
  <2> QED BY <2>1, <2>2 DEF Count
<1>5. Grown(file, r.log) BY <1>2, FlushGrows
<1>6. r.log \in [Cards -> Seq(1..emitted)]
  <2>1. Sound(buffer, file, lost, shed, emitted) BY DEF StreamInv
  <2>2. Sound(r.buf, r.log, lost \cup r.gone, shed, emitted)
    BY <2>1, FlushIsSound
  <2> QED BY <2>2 DEF Sound
<1>7. \A c \in Cards : durable[c] <= Len(r.log[c])
  BY <1>5, <1>6, GrownKeepsDurable
<1>8. durable' = durable \/ (Alive /\ durable' = [durable EXCEPT ![fd] = Len(r.log[fd])])
  BY <1>1
<1>9. /\ durable' \in [Cards -> Nat]
      /\ \A c \in Cards : durable'[c] <= Len(r.log[c])
      /\ DurableGrows
  <2>1. durable \in [Cards -> Nat] BY DEF StreamInv
  <2>2. CASE durable' = durable
    <3>1. \A c \in Cards : durable[c] <= durable'[c] BY <2>1, <2>2
    <3> QED BY <1>7, <2>1, <2>2, <3>1 DEF DurableGrows
  <2>3. CASE Alive /\ durable' = [durable EXCEPT ![fd] = Len(r.log[fd])]
    <3>1. fd \in Cards /\ slot = fd BY <2>3 DEF Alive
    <3>2. Len(r.log[fd]) \in Nat BY <1>6, <3>1
    <3>3. \A c \in Cards : durable[c] <= durable'[c]
      BY <1>7, <2>1, <2>3, <3>1, <3>2
    <3> QED BY <1>7, <2>1, <2>3, <3>1, <3>2, <3>3 DEF DurableGrows
  <2> QED BY <1>8, <2>2, <2>3
<1>10. StreamGrows BY <1>1, <1>4, <1>9, FlushKeeps
<1>11. ok => SyncDrains
  <2> SUFFICES ASSUME ok PROVE SyncDrains
    OBVIOUS
  <2>1. r.bad = 0 /\ ~(fd \in Cards /\ slot # fd)
        /\ (Alive => durable' = [durable EXCEPT ![fd] = Len(file'[fd])])
    BY <1>1, <1>3
  <2>2. buffer' = <<>>
    <3>1. CASE NoFlush(buffer, FALSE)
      <4>1. buffer = <<>> BY <3>1 DEF NoFlush
      <4>2. r.buf = buffer BY <3>1 DEF FlushResults
      <4> QED BY <1>1, <4>1, <4>2
    <3>2. CASE ~NoFlush(buffer, FALSE)
      <4>1. r.buf = <<>> BY <2>1, <3>2 DEF FlushResults, KeptAfterWrite
      <4> QED BY <1>1, <4>1
    <3> QED BY <3>1, <3>2
  <2>3. Alive => durable'[fd] = Len(file'[fd])
    BY <2>1 DEF StreamInv, Alive
  <2> QED BY <2>1, <2>2, <2>3 DEF SyncDrains, Alive
<1>12. ~ok /\ Alive => failures' = failures + 1
  BY <1>1 DEF Count
<1> QED BY <1>1, <1>9, <1>10, <1>11, <1>12

-----------------------------------------------------------------------------
(* The control state                                                       *)

(* The types of everything but the stream.                                 *)
ControlType ==
    /\ lpc \in LogdPCs /\ then \in {"top", "mode"}
    /\ fd \in Cards \cup {RootFs, None} /\ fs \in Cards \cup {RootFs}
    /\ slot \in Cards \cup {None} /\ inserted \in 0..MaxCards
    /\ mpc \in {"idle", "moved", "numbered", "up", "released"}
    /\ volume \in Cards \cup {None}
    /\ gen \in Nat /\ genSeen \in Nat /\ storageGen \in Nat
    /\ hasty \in BOOLEAN
    /\ run \subseteq Markers /\ flushDone \in {"none", "ok", "error"}
    /\ events \in 0..MaxEvents

(* logd has undone the deferral when it comes to its last sync.            *)
FlagType ==
    /\ deferred \in BOOLEAN /\ active \in BOOLEAN
    /\ lpc = "exitSync" => ~deferred

(* Every step keeps the types of the control state.                        *)
LEMMA ControlKept ==
  ASSUME ControlType, [Next]_vars PROVE ControlType'
<1> USE LogJournalAssumption DEF ControlType, LogdPCs, Markers, Cards, Event,
        Create, Unlink
<1> USE DEF streamVars, cardVars, bindVars, modeVars, mountVars, envVars,
        quietEnv, calm
<1>1. CASE Start BY <1>1 DEF Start
<1>2. CASE PreMountRecord BY <1>2 DEF PreMountRecord
<1>3. CASE PreMountDone BY <1>3 DEF PreMountDone
<1>4. CASE OpenLog BY <1>4 DEF OpenLog
<1>5. CASE ReadGeneration BY <1>5 DEF ReadGeneration
<1>6. CASE Hello BY <1>6 DEF Hello
<1>7. CASE HelloSync BY <1>7 DEF HelloSync
<1>8. CASE Top BY <1>8 DEF Top
<1>9. CASE Bind BY <1>9 DEF Bind
<1>10. CASE Reopen BY <1>10 DEF Reopen
<1>11. CASE Mode BY <1>11 DEF Mode
<1>12. CASE SessionSync BY <1>12 DEF SessionSync
<1>13. CASE SessionBegin BY <1>13 DEF SessionBegin
<1>14. CASE SessionRecords BY <1>14 DEF SessionRecords
<1>15. CASE SessionEnd BY <1>15 DEF SessionEnd
<1>16. CASE WorkRecord BY <1>16 DEF WorkRecord
<1>17. CASE Chord BY <1>17 DEF Chord
<1>18. CASE ChordFlush BY <1>18 DEF ChordFlush
<1>19. CASE Service BY <1>19 DEF Service
<1>20. CASE ServiceFlush BY <1>20 DEF ServiceFlush, Answer
<1>21. CASE Periodic BY <1>21 DEF Periodic
<1>22. CASE Exit BY <1>22 DEF Exit
<1>23. CASE ExitSync BY <1>23 DEF ExitSync
<1>24. CASE MountCard BY <1>24 DEF MountCard
<1>25. CASE Number BY <1>25 DEF Number
<1>26. CASE Publish BY <1>26 DEF Publish
<1>27. CASE Release BY <1>27 DEF Release
<1>28. CASE MarkerGone BY <1>28 DEF MarkerGone
<1>29. CASE CardOut BY <1>29 DEF CardOut
<1>30. CASE CardIn BY <1>30 DEF CardIn
<1>31. ASSUME NEW m \in {"STANDBY", "PERFORMANCE"}, Toggle(m) PROVE ControlType'
  <2>1. run' \subseteq Markers
    <3>1. run' = run \ {m} \/ run' = run \cup {m}
      BY <1>31, Zenon DEF Toggle, Unlink, Create
    <3>2. m \in Markers OBVIOUS
    <3> QED BY <3>1, <3>2
  <2> QED BY <1>31, <2>1 DEF Toggle
<1>32. CASE AskStop BY <1>32 DEF AskStop
<1>33. CASE AskFlush BY <1>33 DEF AskFlush
<1>34. CASE UNCHANGED vars BY <1>34 DEF vars
<1> QED
  BY <1>1, <1>2, <1>3, <1>4, <1>5, <1>6, <1>7, <1>8, <1>9, <1>10, <1>11,
     <1>12, <1>13, <1>14, <1>15, <1>16, <1>17, <1>18, <1>19, <1>20, <1>21,
     <1>22, <1>23, <1>24, <1>25, <1>26, <1>27, <1>28, <1>29, <1>30, <1>31,
     <1>32, <1>33, <1>34
  DEF Next, Logd, Input, MountService, Outside

(* Every step keeps the flags Boolean, and no step defers the journal on   *)
(* the way to logd's last sync.                                            *)
LEMMA FlagsKept ==
  ASSUME ControlType, FlagType, [Next]_vars PROVE FlagType'
<1> USE DEF FlagType, ControlType
<1> USE DEF streamVars, cardVars, bindVars, modeVars, mountVars, envVars,
        quietEnv, calm
<1>1. CASE Start BY <1>1 DEF Start
<1>2. CASE PreMountRecord BY <1>2 DEF PreMountRecord
<1>3. CASE PreMountDone BY <1>3 DEF PreMountDone
<1>4. CASE OpenLog BY <1>4 DEF OpenLog
<1>5. CASE ReadGeneration BY <1>5 DEF ReadGeneration
<1>6. CASE Hello BY <1>6 DEF Hello
<1>7. CASE HelloSync BY <1>7 DEF HelloSync
<1>8. CASE Top BY <1>8 DEF Top
<1>9. CASE Bind BY <1>9 DEF Bind
<1>10. CASE Reopen BY <1>10 DEF Reopen
<1>11. CASE Mode
  <2>1. active' = active \/ active' = ("PERFORMANCE" \in run)
    BY <1>11 DEF Mode
  <2>3. active' \in BOOLEAN
    <3>1. CASE active' = active BY <3>1
    <3>2. CASE active' = ("PERFORMANCE" \in run)
      <4> HIDE DEF FlagType, ControlType
      <4> QED BY <3>2
    <3> QED BY <2>1, <3>1, <3>2
  <2>2. deferred' = deferred /\ lpc' # "exitSync" BY <1>11 DEF Mode
  <2> QED BY <2>2, <2>3
<1>12. CASE SessionSync BY <1>12 DEF SessionSync
<1>13. CASE SessionBegin BY <1>13 DEF SessionBegin
<1>14. CASE SessionRecords BY <1>14 DEF SessionRecords
<1>15. CASE SessionEnd BY <1>15 DEF SessionEnd
<1>16. CASE WorkRecord BY <1>16 DEF WorkRecord
<1>17. CASE Chord BY <1>17 DEF Chord
<1>18. CASE ChordFlush BY <1>18 DEF ChordFlush
<1>19. CASE Service BY <1>19 DEF Service
<1>20. CASE ServiceFlush BY <1>20 DEF ServiceFlush
<1>21. CASE Periodic BY <1>21 DEF Periodic
<1>22. CASE Exit BY <1>22 DEF Exit, DeferredAtExit
<1>23. CASE ExitSync BY <1>23 DEF ExitSync
<1>24. CASE MountCard BY <1>24 DEF MountCard
<1>25. CASE Number BY <1>25 DEF Number
<1>26. CASE Publish BY <1>26 DEF Publish
<1>27. CASE Release BY <1>27 DEF Release
<1>28. CASE MarkerGone BY <1>28 DEF MarkerGone
<1>29. CASE CardOut BY <1>29 DEF CardOut
<1>30. CASE CardIn BY <1>30 DEF CardIn
<1>31. ASSUME NEW m \in {"STANDBY", "PERFORMANCE"}, Toggle(m) PROVE FlagType'
  BY <1>31 DEF Toggle
<1>32. CASE AskStop BY <1>32 DEF AskStop
<1>33. CASE AskFlush BY <1>33 DEF AskFlush
<1>34. CASE UNCHANGED vars BY <1>34 DEF vars
<1> QED
  BY <1>1, <1>2, <1>3, <1>4, <1>5, <1>6, <1>7, <1>8, <1>9, <1>10, <1>11,
     <1>12, <1>13, <1>14, <1>15, <1>16, <1>17, <1>18, <1>19, <1>20, <1>21,
     <1>22, <1>23, <1>24, <1>25, <1>26, <1>27, <1>28, <1>29, <1>30, <1>31,
     <1>32, <1>33, <1>34
  DEF Next, Logd, Input, MountService, Outside

-----------------------------------------------------------------------------
(* Every step is of one of six kinds                                       *)

(* logd keeps its file or closes it; card and mount service do nothing.    *)
Calm == UNCHANGED <<slot, inserted, mountVars>> /\ fd' \in {fd, None}

(* append_bytes; in a session nothing of it goes to the card.              *)
Appends ==
    /\ \E n \in 1..BufferSize, held \in BOOLEAN, was \in Nat :
          AppendBytes(n, held, was) /\ (deferred => held)
    /\ Calm /\ UNCHANGED <<flushDone, asked>> /\ lpc' # "done"

(* flush_log, held back as long as the session lasts.                      *)
Flushes ==
    /\ \E held \in BOOLEAN : Flush(held) /\ (deferred /\ deferred' => held)
    /\ Calm /\ UNCHANGED <<flushDone, asked>> /\ lpc' # "done"

(* flush_log and fsync: in a session only for a forced checkpoint.         *)
Syncs ==
    /\ fd # None /\ Calm /\ asked' = asked
    /\ \E ok \in BOOLEAN :
          /\ FlushAndSync(ok)
          /\ flushDone' = "ok" => ok \/ flushDone = "ok"
    /\ deferred => lpc \in {"force", "forceRequest"}

(* The stream is left alone; an answer to a flush may be forgotten, and    *)
(* logd ends only without a file to sync.                                  *)
Quiet ==
    /\ UNCHANGED <<streamVars, file, durable, lost>>
    /\ failures' \in Nat /\ failures <= failures'
    /\ asked' \in {asked, emitted}
    /\ flushDone' = "ok" => flushDone = "ok" /\ asked' = asked
    /\ lpc' = "done" => lpc = "done" \/ fd = None

Idles == Calm /\ Quiet

(* The card or the mount service moves, or logd opens a file.              *)
Binds == OpenLog \/ Reopen \/ CardIn \/ MountService

(* Opening a file, putting in a card and the mount service leave the       *)
(* stream alone.                                                           *)
LEMMA BindsAreQuiet ==
  ASSUME ControlType, StreamInv, Binds PROVE Quiet
<1> USE DEF Quiet, ControlType, streamVars, cardVars, bindVars, modeVars,
        mountVars, envVars, calm
<1>0. failures \in Nat /\ failures <= failures BY DEF StreamInv
<1>1. CASE OpenLog BY <1>0, <1>1 DEF OpenLog
<1>2. CASE Reopen BY <1>0, <1>2 DEF Reopen
<1>3. CASE CardIn BY <1>0, <1>3 DEF CardIn, Event
<1>4. CASE MountService
  BY <1>0, <1>4 DEF MountService, MountCard, Number, Publish, Release, MarkerGone
<1> QED BY <1>1, <1>2, <1>3, <1>4 DEF Binds

(* Every step of the system is of one of the six kinds.                    *)
LEMMA StepKinds ==
  ASSUME ControlType, FlagType, StreamInv, [Next]_vars
  PROVE  Appends \/ Flushes \/ Syncs \/ CardOut \/ Binds \/ Idles
<1> USE DEF ControlType, FlagType, Calm, streamVars, cardVars, bindVars,
        modeVars, mountVars, envVars, quietEnv, calm
<1>0. /\ failures \in Nat /\ failures <= failures /\ dropped \in Nat
      /\ 1 \in 1..BufferSize /\ Lengths \subseteq 1..BufferSize
      /\ TRUE \in BOOLEAN /\ 0 \in Nat
  <2>1. 1 \in 1..BufferSize /\ Lengths \subseteq 1..BufferSize
    BY LogJournalAssumption
  <2>2. TRUE \in BOOLEAN BY Zenon
  <2> QED BY <2>1, <2>2 DEF StreamInv
<1>1. CASE Start
  BY <1>0, <1>1 DEF Start, Appends, Note, Event
<1>2. CASE PreMountRecord
  BY <1>0, <1>2 DEF PreMountRecord, Appends, Note, Event
<1>3. CASE Hello
  BY <1>0, <1>3 DEF Hello, Appends, Note, Event
<1>4. CASE SessionBegin
  BY <1>0, <1>4 DEF SessionBegin, Appends, Note, Event
<1>5. CASE SessionRecords
  BY <1>0, <1>5 DEF SessionRecords, Appends, Note, Event
<1>6. CASE WorkRecord
  BY <1>0, <1>6 DEF WorkRecord, Appends, Note, Event
<1>7. CASE Chord
  BY <1>0, <1>7 DEF Chord, Appends, Note, Event
<1>8. CASE Exit
  BY <1>0, <1>8 DEF Exit, Appends, Note, Event
<1>9. CASE PreMountDone
  BY <1>0, <1>9 DEF PreMountDone, Idles, Quiet
<1>10. CASE ReadGeneration
  BY <1>0, <1>10 DEF ReadGeneration, Idles, Quiet
<1>11. CASE Top
  BY <1>0, <1>11 DEF Top, Idles, Quiet
<1>12. CASE AskStop
  BY <1>0, <1>12 DEF AskStop, Idles, Quiet, Event
<1>13. CASE AskFlush
  BY <1>0, <1>13 DEF AskFlush, Idles, Quiet, Event
<1>14. CASE HelloSync
  BY <1>0, <1>14 DEF HelloSync, Sync, Syncs, Idles, Quiet
<1>15. CASE SessionSync
  BY <1>0, <1>15 DEF SessionSync, Sync, Syncs, Idles, Quiet
<1>16. CASE ExitSync
  BY <1>0, <1>16 DEF ExitSync, Sync, Syncs, Idles, Quiet
<1>17. CASE Mode
  BY <1>0, <1>17 DEF Mode, Sync, Syncs, Idles, Quiet
<1>18. CASE Bind
  BY <1>0, <1>18 DEF Bind, Flushes, Idles, Quiet
<1>19. CASE SessionEnd
  BY <1>0, <1>19 DEF SessionEnd, Flushes
<1>20. CASE ChordFlush
  BY <1>0, <1>20 DEF ChordFlush, ForceFlush, Syncs, Idles, Quiet
<1>21. CASE ServiceFlush
  BY <1>0, <1>21 DEF ServiceFlush, ForceFlush, Answer, Syncs, Idles, Quiet
<1>22. CASE Service
  BY <1>0, <1>22 DEF Service, Note, Appends, Idles, Quiet
<1>23. CASE Periodic
  BY <1>0, <1>23 DEF Periodic, Sync, Flushes, Syncs, Idles, Quiet
<1>24. ASSUME NEW m \in {"STANDBY", "PERFORMANCE"}, Toggle(m) PROVE Idles
  BY <1>0, <1>24 DEF Toggle, Idles, Quiet, Event
<1>25. CASE UNCHANGED vars
  BY <1>0, <1>25 DEF vars, Idles, Quiet
<1> QED
  BY <1>1, <1>2, <1>3, <1>4, <1>5, <1>6, <1>7, <1>8, <1>9, <1>10, <1>11,
     <1>12, <1>13, <1>14, <1>15, <1>16, <1>17, <1>18, <1>19, <1>20, <1>21,
     <1>22, <1>23, <1>24, <1>25
  DEF Next, Logd, Input, Outside, Binds

(* A card that is taken out keeps what was durable; the rest of its file   *)
(* is lost, so nothing disappears from the stream.                         *)
LEMMA CardOutKeeps ==
  ASSUME ControlType, StreamInv, CardOut
  PROVE  /\ StreamInv' /\ UNCHANGED <<streamVars, durable, failures>>
         /\ CellsOf(file') \cup lost' = CellsOf(file) \cup lost
         /\ lost \subseteq lost'
         /\ slot \in Cards /\ slot' = None /\ Len(file'[slot]) = durable[slot]
         /\ \A c \in Cards \ {slot} : file'[c] = file[c]
         /\ \A c \in Cards : /\ Len(file'[c]) <= Len(file[c])
                             /\ \A i \in 1..durable[c] : file'[c][i] = file[c][i]
                             /\ \A i \in 1..Len(file'[c]) : file'[c][i] = file[c][i]
<1>1. /\ slot \in Cards /\ slot' = None
      /\ file' = [file EXCEPT ![slot] = SubSeq(file[slot], 1, durable[slot])]
      /\ lost' = lost \cup (ToSet(file[slot]) \ ToSet(file'[slot]))
      /\ UNCHANGED <<streamVars, durable, failures>>
  BY DEF CardOut, ControlType, calm
<1>2. /\ file \in [Cards -> Seq(1..emitted)] /\ durable \in [Cards -> Nat]
      /\ \A c \in Cards : durable[c] <= Len(file[c])
      /\ emitted \in Nat /\ lost \subseteq 1..emitted
  BY DEF StreamInv, Sound
<1>3. /\ file[slot] \in Seq(1..emitted) /\ durable[slot] \in 0..Len(file[slot])
      /\ file'[slot] = SubSeq(file[slot], 1, durable[slot])
  BY <1>1, <1>2
<1>4. /\ file'[slot] \in Seq(1..emitted) /\ Len(file'[slot]) = durable[slot]
      /\ \A i \in 1..durable[slot] : file'[slot][i] = file[slot][i]
  BY <1>2, <1>3
<1>5. \A c \in Cards \ {slot} : file'[c] = file[c]
  BY <1>1, <1>2
<1>6. file' \in [Cards -> Seq(1..emitted)]
  BY <1>1, <1>2, <1>4
<1>7. \A c \in Cards : Len(file'[c]) <= Len(file[c]) /\ durable[c] <= Len(file'[c])
  <2> TAKE c \in Cards
  <2>1. durable[c] \in Nat /\ Len(file[c]) \in Nat /\ durable[c] <= Len(file[c])
    BY <1>2
  <2>2. CASE c = slot BY <1>4, <2>1, <2>2
  <2>3. CASE c # slot
    <3>1. file'[c] = file[c] BY <1>5, <2>3
    <3> QED BY <2>1, <3>1
  <2> QED BY <2>2, <2>3
<1>8. \A c \in Cards : /\ \A i \in 1..durable[c] : file'[c][i] = file[c][i]
                       /\ \A i \in 1..Len(file'[c]) : file'[c][i] = file[c][i]
  <2> TAKE c \in Cards
  <2>1. CASE c = slot BY <1>4, <2>1
  <2>2. CASE c # slot
    <3>1. file'[c] = file[c] BY <1>5, <2>2
    <3> QED BY <3>1
  <2> QED BY <2>1, <2>2
<1>9. ToSet(file'[slot]) \subseteq ToSet(file[slot])
  <2>1. DOMAIN file'[slot] \subseteq DOMAIN file[slot] /\ DOMAIN file'[slot] = 1..durable[slot]
    BY <1>3, <1>4
  <2> QED BY <1>4, <2>1, Zenon DEF ToSet
<1>10. CellsOf(file') \cup lost' = CellsOf(file) \cup lost
  <2>1. ASSUME NEW x \in CellsOf(file) PROVE x \in CellsOf(file') \cup lost'
    <3>1. PICK c \in Cards : x \in ToSet(file[c]) BY Zenon DEF CellsOf
    <3>2. CASE c = slot
      <4>1. x \in ToSet(file'[slot]) \/ x \in lost' BY <1>1, <3>1, <3>2
      <4> QED BY <1>1, <4>1 DEF CellsOf
    <3>3. CASE c # slot
      <4>1. x \in ToSet(file'[c]) BY <1>5, <3>1, <3>3
      <4> QED BY <4>1 DEF CellsOf
    <3> QED BY <3>2, <3>3
  <2>2. ASSUME NEW x \in CellsOf(file') PROVE x \in CellsOf(file)
    <3>1. PICK c \in Cards : x \in ToSet(file'[c]) BY Zenon DEF CellsOf
    <3>2. x \in ToSet(file[c])
      <4>1. CASE c = slot BY <1>9, <3>1, <4>1
      <4>2. CASE c # slot BY <1>5, <3>1, <4>2
      <4> QED BY <4>1, <4>2
    <3> QED BY <3>2 DEF CellsOf
  <2>3. ToSet(file[slot]) \subseteq CellsOf(file) BY <1>1 DEF CellsOf
  <2> QED BY <1>1, <2>1, <2>2, <2>3
<1>11. lost' \subseteq 1..emitted
  <2>1. file[slot] \in Seq(1..emitted) BY <1>3
  <2>2. ToSet(file[slot]) \subseteq 1..emitted BY <2>1, SeqCells
  <2> QED BY <1>1, <1>2, <2>2
<1>12. Sound(buffer, file', lost', shed, emitted)
  <2>1. Sound(buffer, file, lost, shed, emitted) BY DEF StreamInv
  <2> QED BY <1>6, <1>10, <1>11, <2>1 DEF Sound
<1>13. StreamInv'
  BY <1>1, <1>2, <1>7, <1>12 DEF StreamInv, streamVars
<1> QED
  BY <1>1, <1>4, <1>5, <1>7, <1>8, <1>10, <1>13

(* Every step keeps the stream invariant, and cells are never un-produced. *)
LEMMA StreamKept ==
  ASSUME ControlType, FlagType, StreamInv, [Next]_vars
  PROVE  StreamInv' /\ emitted <= emitted'
<1>0. emitted \in Nat BY DEF StreamInv, Sound
<1>1. CASE Appends
  BY <1>1, AppendKeeps DEF Appends, StreamGrows
<1>2. CASE Flushes
  BY <1>2, PlainFlushKeeps DEF Flushes, StreamGrows
<1>3. CASE Syncs
  BY <1>3, SyncKeeps DEF Syncs, StreamGrows
<1>4. CASE CardOut
  BY <1>0, <1>4, CardOutKeeps DEF streamVars
<1>5. CASE Quiet
  BY <1>0, <1>5 DEF Quiet, streamVars, StreamInv
<1> QED
  BY <1>1, <1>2, <1>3, <1>4, <1>5, StepKinds, BindsAreQuiet DEF Idles

(* A flush is requested for cells that exist.                              *)
LEMMA AskedKept ==
  ASSUME ControlType, FlagType, StreamInv, asked \in 0..emitted, [Next]_vars
  PROVE  asked' \in 0..emitted'
<1>0. emitted \in Nat /\ emitted' \in Nat /\ emitted <= emitted'
  BY StreamKept DEF StreamInv, Sound
<1>1. asked' = asked \/ asked' = emitted
  <2>1. CASE CardOut BY <2>1 DEF CardOut
  <2>2. CASE ~CardOut
    BY <2>2, StepKinds, BindsAreQuiet
    DEF Idles, Quiet, Appends, Flushes, Syncs
  <2> QED BY <2>1, <2>2
<1> QED BY <1>0, <1>1

(* The whole inductive invariant of the types and of the stream.           *)
JournalInv == ControlType /\ FlagType /\ StreamInv /\ asked \in 0..emitted

(* The invariant holds at start.                                           *)
LEMMA JournalInvInit == Init => JournalInv
<1> SUFFICES ASSUME Init PROVE JournalInv
  OBVIOUS
<1> USE LogJournalAssumption DEF Init
<1>1. ControlType
  <2>1. hasty \in BOOLEAN BY Zenon
  <2> QED BY <2>1 DEF ControlType, LogdPCs, Markers
<1>2. FlagType BY Zenon DEF FlagType
<1>3. CellsOf(file) = {} BY DEF CellsOf, ToSet
<1>4. buffer = Run(0 - 0, 0) /\ buffer \in Seq(1..0) /\ Len(buffer) = 0
  BY DEF Run
<1>5. file \in [Cards -> Seq(1..0)] OBVIOUS
<1>6. Sound(buffer, file, lost, shed, emitted)
  BY <1>3, <1>4, <1>5 DEF Sound
<1>7. StreamInv BY <1>6 DEF StreamInv
<1> QED BY <1>1, <1>2, <1>7 DEF JournalInv

(* The invariant holds always.                                             *)
LEMMA JournalInvHolds == Spec => []JournalInv
<1>1. JournalInv /\ [Next]_vars => JournalInv'
  BY ControlKept, FlagsKept, StreamKept, AskedKept DEF JournalInv
<1> QED BY <1>1, JournalInvInit, PTL DEF Spec

(* TypeOK for every buffer, threshold, record length and number of cards:  *)
(* append_bytes never overruns log_buffer, whatever fails.                 *)
THEOREM TypeCorrect == Spec => []TypeOK
<1>1. JournalInv => TypeOK
  BY DEF JournalInv, ControlType, FlagType, StreamInv, Sound, TypeOK
<1> QED BY <1>1, JournalInvHolds, PTL

-----------------------------------------------------------------------------
(* A session leaves the card alone                                         *)

(* SessionSparesCard for every value of the constants: between the         *)
(* acknowledgement and the end of a session only a forced checkpoint       *)
(* writes or syncs the card.                                               *)
THEOREM SessionKeepsOffCard == Spec => SessionSparesCard
<1> DEFINE Spares == deferred /\ deferred' /\ lpc \notin {"force", "forceRequest"} =>
                       \A c \in Cards : /\ durable'[c] = durable[c]
                                        /\ Len(file'[c]) <= Len(file[c])
<1>1. JournalInv /\ [Next]_vars => [Spares]_vars
  <2> SUFFICES ASSUME JournalInv, [Next]_vars, deferred, deferred',
                      lpc \notin {"force", "forceRequest"}, NEW c \in Cards
               PROVE  durable'[c] = durable[c] /\ Len(file'[c]) <= Len(file[c])
    OBVIOUS
  <2> USE DEF JournalInv
  <2>0. Len(file[c]) \in Nat /\ Len(file[c]) <= Len(file[c])
    <3>1. file[c] \in Seq(1..emitted) BY DEF StreamInv, Sound
    <3> QED BY <3>1
  <2>1. CASE Appends
    BY <2>0, <2>1, AppendKeeps DEF Appends
  <2>2. CASE Flushes
    BY <2>0, <2>2, PlainFlushKeeps DEF Flushes
  <2>3. CASE CardOut
    BY <2>3, CardOutKeeps
  <2>4. CASE Quiet
    BY <2>0, <2>4 DEF Quiet
  <2> QED
    BY <2>1, <2>2, <2>3, <2>4, StepKinds, BindsAreQuiet DEF Idles, Syncs
<1> QED BY <1>1, JournalInvHolds, PTL DEF Spec, SessionSparesCard

-----------------------------------------------------------------------------
(* The order of a card's log                                               *)

(* A log in order holds only cells older than the buffer.                  *)
Ordered(buf, log, e) ==
    \A c \in Cards :
        /\ \A i \in 1..Len(log[c]) : log[c][i] <= e - Len(buf)
        /\ \A i, j \in 1..Len(log[c]) : i < j => log[c][i] < log[c][j]

(* A flush without a failure on a present card leaves every log in order   *)
(* and older than the buffer.                                              *)
LEMMA FlushKeepsOrder ==
  ASSUME NEW buf, NEW log, NEW gone, NEW old, NEW e, NEW held,
         Sound(buf, log, gone, old, e), Ordered(buf, log, e),
         NEW r \in FlushResults(buf, log, held), Alive => r.bad = 0
  PROVE  Ordered(r.buf, r.log, e)
<1>1. /\ e \in Nat /\ buf \in Seq(1..e) /\ log \in [Cards -> Seq(1..e)]
      /\ Len(buf) \in Nat /\ Len(buf) <= e
      /\ \A i \in 1..Len(buf) : buf[i] = e - Len(buf) + i
  BY DEF Sound, Run
<1>2. PICK k \in 0..Len(buf) : FlushTakes(buf, log, r, k)
  BY <1>1, FlushShape
<1>3. CASE r.log = log
  <2>1. r.buf = buf \/ r.buf = <<>> BY <1>2 DEF FlushTakes
  <2>2. Len(r.buf) \in Nat /\ Len(r.buf) <= Len(buf) BY <1>1, <2>1
  <2>3. ASSUME NEW c \in Cards, NEW i \in 1..Len(log[c])
        PROVE  log[c][i] <= e - Len(r.buf)
    <3>1. log[c][i] <= e - Len(buf) BY DEF Ordered
    <3>2. log[c] \in Seq(1..e) BY <1>1
    <3>3. log[c][i] \in 1..e BY <3>2, ElementOfSeq
    <3> QED BY <1>1, <2>2, <3>1, <3>3
  <2> QED BY <1>3, <2>3 DEF Ordered
<1>4. CASE r.log # log
  <2>1. Alive
    BY <1>2, <1>4 DEF FlushTakes, Written
  <2>2. r.buf = <<>> /\ k = Len(buf)
    <3>1. CASE k = 0 /\ r.buf = buf
      <4>1. SubSeq(buf, 1, k) = <<>> BY <1>1, <3>1
      <4>2. r.log = log BY <1>1, <1>2, <4>1, WrittenNothing DEF FlushTakes
      <4> QED BY <1>4, <4>2
    <3> QED BY <1>2, <2>1, <3>1 DEF FlushTakes
  <2>3. SubSeq(buf, 1, k) = buf BY <1>1, <2>2
  <2>4. fd \in Cards /\ r.log = [log EXCEPT ![fd] = log[fd] \o buf]
    BY <1>2, <2>1, <2>3 DEF FlushTakes, Written, Alive
  <2> DEFINE s == log[fd]
             m == Len(s)
             lo == e - Len(buf)
  <2>5. s \in Seq(1..e) /\ m \in Nat /\ lo \in Nat BY <1>1, <2>4
  <2>6. /\ \A i \in 1..m : s[i] \in 1..e /\ s[i] <= lo
        /\ \A i, j \in 1..m : i < j => s[i] < s[j]
    <3>1. \A i \in 1..m : s[i] \in 1..e BY <2>5, ElementOfSeq
    <3>2. /\ \A i \in 1..m : s[i] <= lo
          /\ \A i, j \in 1..m : i < j => s[i] < s[j]
      BY <2>4 DEF Ordered
    <3> QED BY <3>1, <3>2
  <2>7. /\ Len(s \o buf) = m + Len(buf)
        /\ \A i \in 1..(m + Len(buf)) :
              (s \o buf)[i] = IF i <= m THEN s[i] ELSE buf[i - m]
    BY <1>1, <2>5
  <2>8. \A i \in (m + 1)..(m + Len(buf)) : (s \o buf)[i] = lo + (i - m)
    <3> SUFFICES ASSUME NEW i \in (m + 1)..(m + Len(buf))
                 PROVE  (s \o buf)[i] = lo + (i - m)
      OBVIOUS
    <3>1. i - m \in 1..Len(buf) /\ i \in 1..(m + Len(buf)) /\ ~(i <= m)
      BY <1>1, <2>5
    <3> QED BY <1>1, <2>7, <3>1
  <2> DEFINE t == s \o buf
  <2>9. /\ Len(t) = m + Len(buf)
        /\ \A i \in 1..m : t[i] = s[i]
        /\ \A i \in (m + 1)..(m + Len(buf)) : t[i] = lo + (i - m)
    <3>1. Len(t) = m + Len(buf) BY <2>7
    <3>2. \A i \in 1..m : t[i] = s[i]
      <4> SUFFICES ASSUME NEW i \in 1..m PROVE (s \o buf)[i] = s[i]
        OBVIOUS
      <4>1. i \in 1..(m + Len(buf)) /\ i <= m BY <1>1, <2>5
      <4> QED BY <2>7, <4>1
    <3> QED BY <2>8, <3>1, <3>2
  <2>10. lo + Len(buf) = e BY <1>1
  <2> HIDE DEF s, m, lo, t
  <2>11. \A i \in 1..Len(t) : t[i] <= e - 0
    BY <1>1, <2>5, <2>6, <2>9, <2>10
  <2>12. \A i, j \in 1..Len(t) : i < j => t[i] < t[j]
    <3> SUFFICES ASSUME NEW i \in 1..Len(t), NEW j \in 1..Len(t), i < j
                 PROVE  t[i] < t[j]
      OBVIOUS
    <3>1. CASE j <= m BY <1>1, <2>5, <2>6, <2>9, <3>1
    <3>2. CASE i <= m /\ j > m
      <4>1. t[i] = s[i] /\ s[i] \in 1..e /\ s[i] <= lo BY <2>5, <2>6, <2>9, <3>2
      <4>2. t[j] = lo + (j - m) BY <1>1, <2>5, <2>9, <3>2
      <4> QED BY <1>1, <2>5, <2>9, <3>2, <4>1, <4>2
    <3>3. CASE i > m BY <1>1, <2>5, <2>9, <3>3
    <3> QED BY <1>1, <2>5, <2>9, <3>1, <3>2, <3>3
  <2>13. Len(r.buf) = 0 BY <2>2
  <2>14. ASSUME NEW c \in Cards
         PROVE  /\ \A i \in 1..Len(r.log[c]) : r.log[c][i] <= e - Len(r.buf)
                /\ \A i, j \in 1..Len(r.log[c]) : i < j => r.log[c][i] < r.log[c][j]
    <3>1. CASE c = fd
      <4>1. r.log[c] = t BY <1>1, <2>4, <3>1 DEF t, s
      <4> QED BY <2>11, <2>12, <2>13, <4>1
    <3>2. CASE c # fd
      <4>1. r.log[c] = log[c] BY <1>1, <2>4, <3>2
      <4>2. \A i \in 1..Len(log[c]) : log[c][i] \in 1..e BY <1>1
      <4>3. \A i \in 1..Len(log[c]) : log[c][i] <= e - Len(r.buf)
        BY <1>1, <2>13, <4>2
      <4> QED BY <4>1, <4>3 DEF Ordered
    <3> QED BY <3>1, <3>2
  <2> QED BY <2>14, Zenon DEF Ordered
<1> QED BY <1>3, <1>4

(* Discarding and copying leave every log older than the buffer.           *)
LEMMA CopyKeepsOrder ==
  ASSUME NEW buf, NEW log, NEW gone, NEW old, NEW e,
         Sound(buf, log, gone, old, e), Ordered(buf, log, e),
         NEW n \in 1..BufferSize
  PROVE  Ordered(Copied(buf, n, e), log, e + n)
<1> DEFINE lo == e - Len(buf)
           lo2 == e + n - Len(Copied(buf, n, e))
<1>1. lo \in Nat /\ lo2 \in Nat /\ lo <= lo2
  BY CopyShape
<1>2. \A c \in Cards : \A i \in 1..Len(log[c]) : log[c][i] <= lo2
  <2> TAKE c \in Cards
  <2> TAKE i \in 1..Len(log[c])
  <2>1. log[c] \in Seq(1..e) BY DEF Sound
  <2>2. log[c][i] \in 1..e BY <2>1, ElementOfSeq
  <2>3. log[c][i] <= lo BY DEF Ordered
  <2> HIDE DEF lo, lo2
  <2>4. log[c][i] \in Int BY <2>2
  <2> QED BY <1>1, <2>3, <2>4
<1>4. \A c \in Cards : \A i, j \in 1..Len(log[c]) : i < j => log[c][i] < log[c][j]
  BY Zenon DEF Ordered
<1>5. lo2 = (e + n) - Len(Copied(buf, n, e))
  <2>1. e \in Nat /\ n \in Nat /\ Len(Copied(buf, n, e)) \in Nat
    BY CopyShape, LogJournalAssumption DEF Sound
  <2> QED BY <2>1
<1> HIDE DEF lo2
<1> QED BY <1>2, <1>4, <1>5, Zenon DEF Ordered

(* As long as no call on a present card has failed.                        *)
OrderInv == failures = 0 => Ordered(buffer, file, emitted)

(* append_bytes keeps the logs in order as long as nothing fails.          *)
LEMMA AppendKeepsOrder ==
  ASSUME StreamInv, OrderInv, NEW n \in 1..BufferSize, NEW held \in BOOLEAN,
         NEW was \in Nat, AppendBytes(n, held, was)
  PROVE  OrderInv'
<1> SUFFICES ASSUME failures' = 0 PROVE Ordered(buffer', file', emitted')
  BY DEF OrderInv
<1>1. PICK h1 \in BOOLEAN, h2 \in BOOLEAN :
        \E r1 \in FlushResults(buffer, file, h1) :
        \E r2 \in FlushResults(Copied(r1.buf, n, emitted), r1.log, h2) :
           (held => h1 /\ h2) /\ AppendIs(n, was, r1, r2)
  BY AppendParts, Zenon
<1>2. PICK r1 \in FlushResults(buffer, file, h1) :
        \E r2 \in FlushResults(Copied(r1.buf, n, emitted), r1.log, h2) :
           (held => h1 /\ h2) /\ AppendIs(n, was, r1, r2)
  BY <1>1, Zenon
<1>3. PICK r2 \in FlushResults(Copied(r1.buf, n, emitted), r1.log, h2) :
           (held => h1 /\ h2) /\ AppendIs(n, was, r1, r2)
  BY <1>2, Zenon
<1> DEFINE buf2 == Copied(r1.buf, n, emitted)
           old2 == shed \cup Discarded(r1.buf, n, emitted)
<1>4. Sound(buffer, file, lost, shed, emitted) BY DEF StreamInv
<1>5. Sound(r1.buf, r1.log, lost \cup r1.gone, shed, emitted)
  BY <1>4, FlushIsSound
<1>6. Sound(buf2, r1.log, lost \cup r1.gone, old2, emitted + n)
  BY <1>5, CopyIsSound
<1>7. r1.bad \in {0, 1} /\ r2.bad \in {0, 1}
  <2>1. buffer \in Seq(1..emitted) /\ file \in [Cards -> Seq(1..emitted)]
    BY <1>4 DEF Sound
  <2>2. buf2 \in Seq(1..(emitted + n)) /\ r1.log \in [Cards -> Seq(1..(emitted + n))]
    BY <1>6 DEF Sound
  <2> QED BY <2>1, <2>2, BadIsCounted
<1>8. failures = 0 /\ (Alive => r1.bad = 0) /\ (Alive => r2.bad = 0)
  <2>1. failures \in Nat BY DEF StreamInv
  <2>2. failures' = Count(r1.bad + r2.bad) BY <1>3 DEF AppendIs
  <2>3. CASE Alive BY <1>7, <2>1, <2>2, <2>3 DEF Count
  <2>4. CASE ~Alive BY <2>2, <2>4 DEF Count
  <2> QED BY <2>3, <2>4
<1>9. Ordered(buffer, file, emitted) BY <1>8 DEF OrderInv
<1>10. Ordered(r1.buf, r1.log, emitted)
  BY <1>4, <1>8, <1>9, FlushKeepsOrder
<1>11. Ordered(buf2, r1.log, emitted + n)
  BY <1>5, <1>10, CopyKeepsOrder
<1>12. Ordered(r2.buf, r2.log, emitted + n)
  <2> HIDE DEF old2
  <2> QED BY <1>6, <1>8, <1>11, FlushKeepsOrder
<1> QED BY <1>3, <1>12 DEF AppendIs

(* So does a flush as a step of its own, whether a sync follows or not.    *)
LEMMA FlushStepKeepsOrder ==
  ASSUME StreamInv, OrderInv, NEW held,
         NEW r \in FlushResults(buffer, file, held), NEW bad \in {0, 1},
         r.bad = 1 => bad = 1,
         buffer' = r.buf, file' = r.log, emitted' = emitted,
         failures' = Count(bad)
  PROVE  OrderInv'
<1> SUFFICES ASSUME failures' = 0 PROVE Ordered(buffer', file', emitted')
  BY DEF OrderInv
<1>1. Sound(buffer, file, lost, shed, emitted) BY DEF StreamInv
<1>2. r.bad \in {0, 1}
  <2>1. buffer \in Seq(1..emitted) /\ file \in [Cards -> Seq(1..emitted)]
    BY <1>1 DEF Sound
  <2> QED BY <2>1, BadIsCounted
<1>3. failures = 0 /\ (Alive => r.bad = 0)
  <2>1. failures \in Nat BY DEF StreamInv
  <2>2. CASE Alive BY <1>2, <2>1, <2>2 DEF Count
  <2>3. CASE ~Alive BY <2>3 DEF Count
  <2> QED BY <2>2, <2>3
<1>4. Ordered(r.buf, r.log, emitted)
  BY <1>1, <1>3, FlushKeepsOrder DEF OrderInv
<1> QED BY <1>4

(* So does every step: the card that goes loses only the end of its log.   *)
LEMMA OrderKept ==
  ASSUME JournalInv, OrderInv, [Next]_vars PROVE OrderInv'
<1> USE DEF JournalInv
<1>1. CASE Appends
  BY <1>1, AppendKeepsOrder DEF Appends
<1>2. CASE Flushes
  <2>1. PICK held \in BOOLEAN : Flush(held) BY <1>2 DEF Flushes
  <2>2. PICK r \in FlushResults(buffer, file, held) :
          /\ buffer' = r.buf /\ file' = r.log /\ emitted' = emitted
          /\ failures' = Count(r.bad)
    BY <2>1 DEF Flush
  <2>3. r.bad \in {0, 1}
    <3>1. buffer \in Seq(1..emitted) /\ file \in [Cards -> Seq(1..emitted)]
      BY DEF StreamInv, Sound
    <3> QED BY <3>1, BadIsCounted
  <2> QED BY <2>2, <2>3, FlushStepKeepsOrder
<1>3. CASE Syncs
  <2>1. PICK ok \in BOOLEAN : FlushAndSync(ok) BY <1>3 DEF Syncs
  <2>2. PICK r \in FlushResults(buffer, file, FALSE) :
          /\ buffer' = r.buf /\ file' = r.log /\ emitted' = emitted
          /\ failures' = Count(0) \/ failures' = Count(1)
          /\ r.bad = 1 => failures' = Count(1)
    BY <2>1, Zenon DEF FlushAndSync
  <2> DEFINE bad == IF r.bad = 1 \/ failures' = Count(1) THEN 1 ELSE 0
  <2>3. bad \in {0, 1} /\ (r.bad = 1 => bad = 1) /\ failures' = Count(bad)
    BY <2>2, Zenon
  <2> HIDE DEF bad
  <2> QED BY <2>2, <2>3, FlushStepKeepsOrder
<1>4. CASE CardOut
  <2> SUFFICES ASSUME failures' = 0, NEW c \in Cards
               PROVE  /\ \A i \in 1..Len(file'[c]) :
                            file'[c][i] <= emitted' - Len(buffer')
                      /\ \A i, j \in 1..Len(file'[c]) :
                            i < j => file'[c][i] < file'[c][j]
    BY Zenon DEF OrderInv, Ordered
  <2>1. /\ failures = 0 /\ emitted' = emitted /\ buffer' = buffer
        /\ Len(file'[c]) <= Len(file[c])
        /\ \A i \in 1..Len(file'[c]) : file'[c][i] = file[c][i]
    BY <1>4, CardOutKeeps DEF streamVars
  <2>2. /\ \A i \in 1..Len(file[c]) : file[c][i] <= emitted - Len(buffer)
        /\ \A i, j \in 1..Len(file[c]) : i < j => file[c][i] < file[c][j]
    BY <2>1, Zenon DEF OrderInv, Ordered
  <2>3. Len(file[c]) \in Nat /\ Len(file'[c]) \in Nat
    <3>1. file[c] \in Seq(1..emitted) /\ file'[c] \in Seq(1..emitted')
      BY <1>4, CardOutKeeps DEF StreamInv, Sound
    <3> QED BY <3>1
  <2>4. 1..Len(file'[c]) \subseteq 1..Len(file[c]) BY <2>1, <2>3
  <2> QED BY <2>1, <2>2, <2>4
<1>5. CASE Quiet
  <2>1. failures \in Nat BY DEF StreamInv
  <2>2. failures' = 0 => failures = 0 BY <1>5, <2>1 DEF Quiet
  <2> QED BY <1>5, <2>2 DEF Quiet, streamVars, OrderInv
<1> QED
  BY <1>1, <1>2, <1>3, <1>4, <1>5, StepKinds, BindsAreQuiet DEF Idles

(* LogIsInOrder for every value of the constants: as long as no write of a *)
(* present card fails, sessions, card changes, checkpoints and discards    *)
(* never repeat or reorder a cell of a log.                                *)
THEOREM LogsAreInOrder == Spec => []LogIsInOrder
<1>1. Init => OrderInv
  BY DEF Init, OrderInv, Ordered
<1>2. JournalInv /\ OrderInv => LogIsInOrder
  <2> SUFFICES ASSUME JournalInv, failures = 0, Ordered(buffer, file, emitted),
                      NEW c \in Cards, NEW i \in DOMAIN file[c],
                      NEW j \in DOMAIN file[c], i < j
               PROVE  file[c][i] < file[c][j]
    BY DEF OrderInv, LogIsInOrder
  <2>1. file[c] \in Seq(1..emitted) BY DEF JournalInv, StreamInv, Sound
  <2>2. DOMAIN file[c] = 1..Len(file[c]) BY <2>1
  <2> QED BY <2>2 DEF Ordered
<1> QED BY <1>1, <1>2, OrderKept, JournalInvHolds, PTL DEF Spec

-----------------------------------------------------------------------------
(* Which files can have cells that are not yet durable                     *)

(* A card that is not in the slot has lost what was not durable; a card    *)
(* that was never in has an empty log; as long as its card is in the slot  *)
(* a volume stays mounted, and a log with cells on it is the one logd has  *)
(* open, or will reopen.                                                   *)
AbsentIsDurable == \A c \in Cards : c # slot => durable[c] = Len(file[c])
FreshIsEmpty == \A c \in Cards : c > inserted => file[c] = <<>>
SeenCards == {fs, fd, slot} \cap Cards \subseteq 1..inserted
MountStays == fs = slot => volume = slot /\ mpc \in {"moved", "numbered", "up"}
OpenIsMounted == fd \in Cards /\ fd = slot => fs = slot
WrittenIsMounted ==
    slot \in Cards /\ file[slot] # <<>> => fs = slot /\ fd \in {slot, None}

BindInv == AbsentIsDurable /\ FreshIsEmpty /\ SeenCards /\ MountStays
           /\ OpenIsMounted /\ WrittenIsMounted

(* Appending, flushing and syncing keep it: they write the open file of    *)
(* the card in the slot only.                                              *)
LEMMA WritingKeepsBinding ==
  ASSUME JournalInv, BindInv, Calm, StreamInv', Grown(file, file'), DurableGrows
  PROVE  BindInv'
<1> USE DEF BindInv
<1>1. /\ slot' = slot /\ inserted' = inserted /\ fs' = fs /\ volume' = volume
      /\ mpc' = mpc /\ fd' \in {fd, None}
  BY DEF Calm, mountVars
<1>2. /\ None \notin Cards /\ RootFs \notin Cards /\ Cards \subseteq Nat
      /\ inserted \in Nat /\ slot \in Cards \cup {None}
  BY LogJournalAssumption DEF Cards, JournalInv, ControlType
<1>3. \A c \in Cards : c # slot \/ c # fd => file'[c] = file[c] /\ durable'[c] = durable[c]
  BY DEF Grown, DurableGrows
<1>4. AbsentIsDurable' BY <1>1, <1>3 DEF AbsentIsDurable
<1>5. SeenCards' BY <1>1, <1>2 DEF SeenCards
<1>6. MountStays' BY <1>1 DEF MountStays
<1>7. OpenIsMounted' BY <1>1, <1>2 DEF OpenIsMounted
<1>8. FreshIsEmpty'
  <2> SUFFICES ASSUME NEW c \in Cards, c > inserted PROVE file'[c] = <<>>
    BY <1>1 DEF FreshIsEmpty
  <2>1. c # slot BY <1>2 DEF SeenCards
  <2> QED BY <1>3, <2>1 DEF FreshIsEmpty
<1>9. WrittenIsMounted'
  <2> SUFFICES ASSUME slot \in Cards, file'[slot] # <<>>
               PROVE  fs = slot /\ fd' \in {slot, None}
    BY <1>1 DEF WrittenIsMounted
  <2>1. CASE fd = slot BY <1>1, <2>1 DEF OpenIsMounted
  <2>2. CASE fd # slot
    <3>1. file'[slot] = file[slot] BY <1>3, <2>2
    <3> QED BY <1>1, <3>1 DEF WrittenIsMounted
  <2> QED BY <2>1, <2>2
<1> QED BY <1>4, <1>5, <1>6, <1>7, <1>8, <1>9

(* Every step keeps the binding invariant, the mount service's and the     *)
(* user's included.                                                        *)
LEMMA BindingKept ==
  ASSUME JournalInv, BindInv, [Next]_vars PROVE BindInv'
<1> USE DEF JournalInv
<1>0. /\ None \notin Cards /\ RootFs \notin Cards /\ RootFs # None
      /\ Cards \subseteq Nat /\ inserted \in Nat /\ slot \in Cards \cup {None}
      /\ fs \in Cards \cup {RootFs} /\ fd \in Cards \cup {RootFs, None}
  BY LogJournalAssumption DEF Cards, ControlType
<1>1. CASE Appends
  <2>1. StreamGrows /\ durable' = durable
    BY <1>1, AppendKeeps DEF Appends
  <2>2. DurableGrows BY <2>1 DEF DurableGrows, StreamInv
  <2> QED BY <1>1, <2>1, <2>2, WritingKeepsBinding DEF Appends, StreamGrows
<1>2. CASE Flushes
  <2>1. StreamGrows /\ durable' = durable
    BY <1>2, PlainFlushKeeps DEF Flushes
  <2>2. DurableGrows BY <2>1 DEF DurableGrows, StreamInv
  <2> QED BY <1>2, <2>1, <2>2, WritingKeepsBinding DEF Flushes, StreamGrows
<1>3. CASE Syncs
  <2>1. StreamGrows /\ DurableGrows
    BY <1>3, SyncKeeps DEF Syncs
  <2> QED BY <1>3, <2>1, WritingKeepsBinding DEF Syncs, StreamGrows
<1>4. CASE Idles
  <2>1. StreamInv' BY StreamKept
  <2>2. Grown(file, file') /\ DurableGrows
    <3>1. file' = file /\ durable' = durable BY <1>4 DEF Idles, Quiet
    <3>2. \A c \in Cards : Len(file[c]) \in Nat /\ durable[c] \in Nat
      <4>1. \A c \in Cards : file[c] \in Seq(1..emitted)
        BY DEF StreamInv, Sound
      <4> QED BY <4>1 DEF StreamInv
    <3> QED BY <3>1, <3>2 DEF Grown, DurableGrows
  <2> QED BY <1>4, <2>1, <2>2, WritingKeepsBinding DEF Idles
<1>5. CASE CardOut
  <2>1. /\ slot \in Cards /\ slot' = None /\ durable' = durable
        /\ Len(file'[slot]) = durable[slot]
        /\ \A c \in Cards \ {slot} : file'[c] = file[c]
    BY <1>5, CardOutKeeps
  <2>2. inserted' = inserted /\ fs' = fs /\ fd' = fd
    BY <1>5 DEF CardOut, calm, bindVars, mountVars
  <2>3. AbsentIsDurable' BY <2>1 DEF BindInv, AbsentIsDurable
  <2>4. FreshIsEmpty'
    <3> SUFFICES ASSUME NEW c \in Cards, c > inserted PROVE file'[c] = <<>>
      BY <2>2 DEF FreshIsEmpty
    <3>1. c # slot BY <1>0 DEF BindInv, SeenCards
    <3> QED BY <2>1, <3>1 DEF BindInv, FreshIsEmpty
  <2>5. SeenCards' BY <1>0, <2>1, <2>2 DEF BindInv, SeenCards
  <2>6. MountStays' /\ OpenIsMounted' /\ WrittenIsMounted'
    BY <1>0, <2>1, <2>2 DEF MountStays, OpenIsMounted, WrittenIsMounted
  <2> QED BY <2>3, <2>4, <2>5, <2>6 DEF BindInv
<1>6. CASE Binds
  <2>1. file' = file /\ durable' = durable
    BY <1>6, BindsAreQuiet DEF Quiet
  <2> USE DEF BindInv, AbsentIsDurable, FreshIsEmpty, SeenCards, MountStays,
          OpenIsMounted, WrittenIsMounted, bindVars, envVars, mountVars, calm
  <2>2. CASE OpenLog BY <1>0, <2>1, <2>2 DEF OpenLog
  <2>3. CASE Reopen BY <1>0, <2>1, <2>3 DEF Reopen
  <2>4. CASE CardIn
    <3>1. /\ slot = None /\ slot' = inserted + 1 /\ inserted' = inserted + 1
          /\ slot' \in Cards /\ fs' = fs /\ fd' = fd
      BY <2>4, LogJournalAssumption DEF CardIn, Cards, ControlType
    <3>2. fs # slot' /\ fd # slot' BY <1>0, <3>1
    <3>3. file[slot'] = <<>> BY <1>0, <3>1
    <3>4. AbsentIsDurable' BY <1>0, <2>1, <3>1
    <3>5. FreshIsEmpty' BY <1>0, <2>1, <3>1
    <3>6. SeenCards' BY <1>0, <3>1
    <3> QED BY <2>1, <3>1, <3>2, <3>3, <3>4, <3>5, <3>6
  <2>5. CASE MountCard BY <1>0, <2>1, <2>5 DEF MountCard
  <2>6. CASE Number BY <1>0, <2>1, <2>6 DEF Number
  <2>7. CASE Publish BY <1>0, <2>1, <2>7 DEF Publish
  <2>8. CASE Release BY <1>0, <2>1, <2>8 DEF Release
  <2>9. CASE MarkerGone BY <1>0, <2>1, <2>9 DEF MarkerGone
  <2> QED
    BY <1>6, <2>2, <2>3, <2>4, <2>5, <2>6, <2>7, <2>8, <2>9
    DEF Binds, MountService
<1> QED
  BY <1>1, <1>2, <1>3, <1>4, <1>5, <1>6, StepKinds

-----------------------------------------------------------------------------
(* What an answered flush and a clean exit promise                         *)

(* The cells that survive losing every card and the power.                 *)
DurableOf(log, dur) == UNION {ToSet(SubSeq(log[c], 1, dur[c])) : c \in Cards}

(* Durable cells stay durable, whatever grows and whichever card goes.     *)
LEMMA DurableStays ==
  ASSUME NEW S, NEW log \in [Cards -> Seq(S)], NEW dur \in [Cards -> Nat],
         NEW T, NEW log2 \in [Cards -> Seq(T)], NEW dur2 \in [Cards -> Nat],
         \A c \in Cards : dur[c] <= Len(log[c]) /\ dur2[c] <= Len(log2[c]),
         \A c \in Cards : dur[c] <= dur2[c],
         \A c \in Cards : \A i \in 1..dur[c] : log2[c][i] = log[c][i]
  PROVE  DurableOf(log, dur) \subseteq DurableOf(log2, dur2)
<1>1. \A c \in Cards : ToSet(SubSeq(log[c], 1, dur[c]))
                         \subseteq ToSet(SubSeq(log2[c], 1, dur2[c]))
  <2> TAKE c \in Cards
  <2> DEFINE s == SubSeq(log[c], 1, dur[c])
             s2 == SubSeq(log2[c], 1, dur2[c])
  <2>1. /\ log[c] \in Seq(S) /\ dur[c] \in Nat /\ dur[c] <= Len(log[c])
        /\ log2[c] \in Seq(T) /\ dur2[c] \in Nat /\ dur2[c] <= Len(log2[c])
        /\ dur[c] <= dur2[c]
    OBVIOUS
  <2>2. DOMAIN s = 1..dur[c] /\ \A i \in 1..dur[c] : s[i] = log[c][i]
    BY <2>1
  <2>3. DOMAIN s2 = 1..dur2[c] /\ \A i \in 1..dur2[c] : s2[i] = log2[c][i]
    BY <2>1
  <2>4. \A i \in DOMAIN s : i \in DOMAIN s2 /\ s2[i] = s[i]
    <3> HIDE DEF s, s2
    <3> TAKE i \in DOMAIN s
    <3>1. i \in 1..dur[c] BY <2>2
    <3>2. i \in 1..dur2[c] BY <2>1, <3>1
    <3>3. log2[c][i] = log[c][i] BY <3>1
    <3> QED BY <2>2, <2>3, <3>1, <3>2, <3>3, Zenon
  <2> HIDE DEF s, s2
  <2>5. ToSet(s) \subseteq ToSet(s2) BY <2>4, Zenon DEF ToSet
  <2> QED BY <2>5 DEF s, s2
<1> DEFINE A(c) == ToSet(SubSeq(log[c], 1, dur[c]))
           B(c) == ToSet(SubSeq(log2[c], 1, dur2[c]))
<1>2. \A c \in Cards : A(c) \subseteq B(c) BY <1>1
<1>3. DurableOf(log, dur) = UNION {A(c) : c \in Cards} BY DEF DurableOf
<1>4. DurableOf(log2, dur2) = UNION {B(c) : c \in Cards} BY DEF DurableOf
<1> HIDE DEF A, B
<1>5. UNION {A(c) : c \in Cards} \subseteq UNION {B(c) : c \in Cards} BY <1>2
<1> QED BY <1>3, <1>4, <1>5

(* With nothing left to sync all that is written is durable.               *)
LEMMA AllDurable ==
  ASSUME NEW S, NEW log \in [Cards -> Seq(S)], NEW dur,
         \A c \in Cards : dur[c] = Len(log[c])
  PROVE  CellsOf(log) \subseteq DurableOf(log, dur)
<1>1. \A c \in Cards : SubSeq(log[c], 1, dur[c]) = log[c]
  <2> TAKE c \in Cards
  <2>1. log[c] \in Seq(S) /\ dur[c] = Len(log[c]) OBVIOUS
  <2> QED BY <2>1
<1> QED BY <1>1, Zenon DEF CellsOf, DurableOf

(* Nothing that can still be lost.                                         *)
Kept == DurableCells \cup shed \cup lost

(* A cell that is durable, shed or lost stays so: no step truncates what   *)
(* was synced.                                                             *)
LEMMA KeptStays ==
  ASSUME JournalInv, [Next]_vars PROVE Kept \subseteq Kept'
<1> USE DEF JournalInv
<1>1. /\ file \in [Cards -> Seq(1..emitted)] /\ durable \in [Cards -> Nat]
      /\ \A c \in Cards : durable[c] <= Len(file[c])
      /\ \A c \in Cards : durable[c] \in Nat /\ Len(file[c]) \in Nat
  <2>1. file \in [Cards -> Seq(1..emitted)] BY DEF StreamInv, Sound
  <2>2. \A c \in Cards : file[c] \in Seq(1..emitted) BY <2>1
  <2>3. \A c \in Cards : Len(file[c]) \in Nat BY <2>2
  <2> QED BY <2>1, <2>3 DEF StreamInv
<1>2. /\ file' \in [Cards -> Seq(1..emitted')] /\ durable' \in [Cards -> Nat]
      /\ \A c \in Cards : durable'[c] <= Len(file'[c])
  BY StreamKept DEF StreamInv, Sound
<1>3. CASE /\ \A c \in Cards : durable[c] <= durable'[c]
           /\ \A c \in Cards : \A i \in 1..durable[c] : file'[c][i] = file[c][i]
           /\ shed \subseteq shed' /\ lost \subseteq lost'
  <2>1. DurableOf(file, durable) \subseteq DurableOf(file', durable')
    BY <1>1, <1>2, <1>3, DurableStays
  <2>2. DurableCells = DurableOf(file, durable) /\ DurableCells' = DurableOf(file', durable')
    BY DEF DurableCells, DurableOf
  <2> QED BY <1>3, <2>1, <2>2 DEF Kept
<1>4. CASE StreamGrows /\ (durable' = durable \/ DurableGrows)
  <2>1. \A c \in Cards : durable[c] <= durable'[c]
    BY <1>1, <1>4 DEF DurableGrows
  <2>2. \A c \in Cards : \A i \in 1..durable[c] : file'[c][i] = file[c][i]
    <3> TAKE c \in Cards
    <3>1. \A i \in 1..Len(file[c]) : file'[c][i] = file[c][i]
      BY <1>4 DEF StreamGrows, Grown
    <3>2. 1..durable[c] \subseteq 1..Len(file[c]) BY <1>1
    <3> QED BY <3>1, <3>2
  <2> QED BY <1>3, <1>4, <2>1, <2>2 DEF StreamGrows
<1>5. CASE Appends BY <1>4, <1>5, AppendKeeps DEF Appends
<1>6. CASE Flushes BY <1>4, <1>6, PlainFlushKeeps DEF Flushes
<1>7. CASE Syncs BY <1>4, <1>7, SyncKeeps DEF Syncs
<1>8. CASE CardOut
  <2>1. \A c \in Cards : durable[c] <= durable'[c]
    BY <1>1, <1>8, CardOutKeeps
  <2> QED BY <1>3, <1>8, <2>1, CardOutKeeps DEF streamVars
<1>9. CASE Quiet
  <2>1. \A c \in Cards : durable[c] <= durable'[c] BY <1>1, <1>9 DEF Quiet
  <2> QED BY <1>3, <1>9, <2>1 DEF Quiet, streamVars
<1> QED
  BY <1>5, <1>6, <1>7, <1>8, <1>9, StepKinds, BindsAreQuiet DEF Idles

(* A sync that succeeds leaves no cell behind: those of the buffer are     *)
(* written, the open file is durable, and no other file was waiting.       *)
LEMMA SyncKeepsAll ==
  ASSUME JournalInv, BindInv, BindInv', Syncs, NEW ok \in BOOLEAN, ok,
         FlushAndSync(ok)
  PROVE  1..emitted \subseteq Kept'
<1> USE DEF JournalInv
<1>1. StreamGrows /\ emitted' = emitted /\ SyncDrains /\ fd # None
  BY SyncKeeps DEF Syncs
<1>2. Sound(buffer', file', lost', shed', emitted')
  BY <1>1 DEF StreamGrows, StreamInv
<1>3. 1..emitted \subseteq CellsOf(file') \cup lost' \cup shed'
  <2>1. Len(buffer') = 0 /\ emitted \in Nat
    BY <1>1 DEF SyncDrains, StreamInv, Sound
  <2> QED BY <1>1, <1>2, <2>1 DEF Sound
<1>4. \A c \in Cards : durable'[c] = Len(file'[c])
  <2> TAKE c \in Cards
  <2>1. slot' = slot BY DEF Syncs, Calm
  <2>2. CASE c # slot
    BY <2>1, <2>2 DEF BindInv, AbsentIsDurable
  <2>3. CASE c = slot /\ Alive
    BY <1>1, <2>3 DEF SyncDrains, Alive
  <2>4. CASE c = slot /\ ~Alive
    <3>1. fd \notin Cards /\ fd # slot BY <1>1, <2>4 DEF SyncDrains
    <3>2. file[slot] = <<>>
      BY <1>1, <2>4, <3>1 DEF BindInv, WrittenIsMounted
    <3>3. file'[slot] = <<>>
      BY <1>1, <2>4, <3>1, <3>2 DEF StreamGrows, Grown
    <3>4. durable'[c] \in Nat /\ durable'[c] <= Len(file'[c])
      BY <1>1 DEF StreamGrows, StreamInv
    <3>5. Len(file'[c]) = 0 BY <2>4, <3>3
    <3> QED BY <3>4, <3>5
  <2> QED BY <2>2, <2>3, <2>4
<1>5. CellsOf(file') \subseteq DurableOf(file', durable')
  BY <1>2, <1>4, AllDurable DEF Sound
<1>6. DurableCells' = DurableOf(file', durable') BY DEF DurableCells, DurableOf
<1> QED BY <1>3, <1>5, <1>6 DEF Kept

(* What an answer "ok" means, with the cells it is about.                  *)
FlushInv == flushDone = "ok" => 1..asked \subseteq Kept

(* An answer "ok" stays true until it is forgotten, and only a successful  *)
(* checkpoint gives it.                                                    *)
LEMMA FlushKept ==
  ASSUME JournalInv, BindInv, FlushInv, [Next]_vars PROVE FlushInv'
<1> USE DEF JournalInv
<1>1. BindInv' BY BindingKept
<1>2. Kept \subseteq Kept' BY KeptStays
<1>3. CASE flushDone' = "ok" => flushDone = "ok" /\ asked' = asked
  BY <1>2, <1>3 DEF FlushInv
<1>4. CASE Syncs
  <2>1. PICK ok \in BOOLEAN : FlushAndSync(ok) /\ (flushDone' = "ok" => ok \/ flushDone = "ok")
    BY <1>4 DEF Syncs
  <2>2. CASE ok
    <3>1. 1..emitted \subseteq Kept' BY <1>1, <1>4, <2>1, <2>2, SyncKeepsAll
    <3>2. asked' = asked /\ 1..asked \subseteq 1..emitted
      BY <1>4 DEF Syncs, StreamInv, Sound
    <3> QED BY <3>1, <3>2 DEF FlushInv
  <2>3. CASE ~ok
    BY <1>3, <1>4, <2>1, <2>3 DEF Syncs
  <2> QED BY <2>2, <2>3
<1>5. CASE Appends BY <1>3, <1>5 DEF Appends
<1>6. CASE Flushes BY <1>3, <1>6 DEF Flushes
<1>7. CASE CardOut BY <1>3, <1>7 DEF CardOut
<1>8. CASE Quiet BY <1>3, <1>8 DEF Quiet
<1> QED
  BY <1>4, <1>5, <1>6, <1>7, <1>8, StepKinds, BindsAreQuiet DEF Idles

(* The binding invariant holds always.                                     *)
LEMMA BindInvHolds == Spec => []BindInv
<1>1. Init => BindInv
  BY LogJournalAssumption
  DEF Init, BindInv, AbsentIsDurable, FreshIsEmpty, SeenCards, MountStays,
      OpenIsMounted, WrittenIsMounted, Cards
<1> QED BY <1>1, BindingKept, JournalInvHolds, PTL DEF Spec

(* FlushOkIsDurable for every value of the constants: "ok" in              *)
(* LOG_FLUSH_DONE means that what was logged before the request survives a *)
(* power cut, or was shed or lost before.                                  *)
THEOREM FlushAnswerIsTrue == Spec => []FlushOkIsDurable
<1>1. Init => FlushInv BY DEF Init, FlushInv
<1>2. FlushInv => FlushOkIsDurable BY DEF FlushInv, FlushOkIsDurable, Kept
<1> QED
  BY <1>1, <1>2, FlushKept, BindInvHolds, JournalInvHolds, PTL DEF Spec

(* CleanExitDrains for every value of the constants: the last sync of main *)
(* leaves nothing behind in the buffer or in an unsynced file, also when   *)
(* the stop came in the middle of a session.                               *)
THEOREM ExitLeavesNothing == Spec => CleanExitDrains
<1> DEFINE Drains == lpc' = "done" /\ lpc # "done" /\ Alive /\ failures' = 0 =>
                       1..emitted \subseteq (DurableCells \cup shed \cup lost)'
<1>1. JournalInv /\ BindInv /\ BindInv' /\ [Next]_vars => [Drains]_vars
  <2> SUFFICES ASSUME JournalInv, BindInv, BindInv', [Next]_vars, lpc' = "done",
                      lpc # "done", Alive, failures' = 0
               PROVE  1..emitted \subseteq Kept'
    BY DEF Kept
  <2> USE DEF JournalInv
  <2>1. fd # None BY LogJournalAssumption DEF Alive, Cards
  <2>2. Syncs
    <3>1. ~CardOut BY DEF CardOut, calm
    <3> QED BY <2>1, <3>1, StepKinds, BindsAreQuiet
            DEF Appends, Flushes, Idles, Quiet
  <2>3. PICK ok \in BOOLEAN : FlushAndSync(ok) BY <2>2 DEF Syncs
  <2>4. ok
    <3>1. failures \in Nat BY DEF StreamInv
    <3> QED BY <2>1, <2>3, <3>1, SyncKeeps
  <2> QED BY <2>2, <2>3, <2>4, SyncKeepsAll
<1> QED BY <1>1, BindInvHolds, JournalInvHolds, PTL DEF Spec, CleanExitDrains

-----------------------------------------------------------------------------
(* The journal implements LogStream                                        *)

(* What soundness says of the cell numbers: the buffer holds those behind  *)
(* lo, and every cell up to lo is stored or shed.                          *)
LEMMA SoundFacts ==
  ASSUME NEW buf, NEW log, NEW gone, NEW old, NEW e,
         Sound(buf, log, gone, old, e)
  PROVE  LET lo == e - Len(buf)
             st == CellsOf(log) \cup gone
         IN /\ e \in Nat /\ lo \in Nat /\ lo <= e /\ e - lo <= BufferSize
            /\ ToSet(buf) = (lo + 1)..e
            /\ st \subseteq 1..e /\ old \subseteq 1..lo
            /\ 1..lo \subseteq st \cup old
            /\ \A x \in st : \A y \in (lo + 1)..x : y \in st
<1> DEFINE lo == e - Len(buf)
           st == CellsOf(log) \cup gone
<1>1. Len(buf) \in Nat /\ e \in Nat /\ Len(buf) <= e /\ Len(buf) <= BufferSize
      /\ buf = Run(lo, Len(buf)) /\ BufferSize \in Nat
  BY LogJournalAssumption DEF Sound
<1>2. lo \in Nat /\ lo <= e /\ e - lo <= BufferSize /\ lo + Len(buf) = e
  BY <1>1
<1>3. ToSet(buf) = (lo + 1)..e
  <2> HIDE DEF lo
  <2> QED BY <1>1, <1>2, RunSeq
<1>4. st \subseteq 1..e
  <2>1. CellsOf(log) \subseteq 1..e BY DEF Sound, CellsOf, ToSet
  <2> QED BY <2>1 DEF Sound
<1>5. old \subseteq 1..e /\ (\A x \in old : x <= lo) BY DEF Sound
<1>6. old \subseteq 1..lo
  <2> HIDE DEF lo
  <2> QED BY <1>1, <1>2, <1>5
<1>7. 1..lo \subseteq st \cup old BY DEF Sound
<1>8. \A x \in st : \A y \in (lo + 1)..x : y \in st BY DEF Sound
<1> HIDE DEF lo, st
<1> QED BY <1>1, <1>2, <1>3, <1>4, <1>6, <1>7, <1>8 DEF lo, st

(* How a step of the journal moves the stream on: only cells of the buffer *)
(* or newer ones are written or shed, and shedding leaves a full buffer of *)
(* newer cells.                                                            *)
Advances(lo, st, old, e, st2, old2, e2) ==
    /\ e <= e2 /\ st \subseteq st2 /\ old \subseteq old2
    /\ \A x \in (st2 \ st) \cup (old2 \ old) : lo < x
    /\ old2 # old => /\ BufferSize <= e2
                     /\ \A x \in old2 : x <= e2 - BufferSize

(* A flush moves the stream on.                                            *)
LEMMA FlushAdvances ==
  ASSUME NEW buf, NEW log, NEW gone, NEW old, NEW e, NEW held,
         Sound(buf, log, gone, old, e), NEW r \in FlushResults(buf, log, held)
  PROVE  /\ Advances(e - Len(buf), CellsOf(log) \cup gone, old, e,
                     CellsOf(r.log) \cup (gone \cup r.gone), old, e)
         /\ e - Len(r.buf) \in Nat /\ e - Len(buf) <= e - Len(r.buf)
<1> DEFINE lo == e - Len(buf)
           st == CellsOf(log) \cup gone
           st2 == CellsOf(r.log) \cup (gone \cup r.gone)
<1>1. PICK k \in 0..Len(buf) : /\ FlushTakes(buf, log, r, k)
                               /\ st2 = st \cup ((lo + 1) .. (lo + k))
  BY FlushStores
<1>2. e \in Nat /\ Len(buf) \in Nat /\ lo \in Nat /\ lo <= e BY DEF Sound
<1>3. Advances(lo, st, old, e, st2, old, e)
  <2> HIDE DEF lo, st, st2
  <2> QED BY <1>1, <1>2 DEF Advances
<1>4. r.buf = buf \/ r.buf = <<>> BY <1>1 DEF FlushTakes
<1>5. Len(r.buf) = Len(buf) \/ Len(r.buf) = 0 BY <1>4
<1> QED BY <1>2, <1>3, <1>5

(* append_bytes moves the stream on.                                       *)
LEMMA AppendAdvances ==
  ASSUME StreamInv, NEW n \in 1..BufferSize, NEW held \in BOOLEAN,
         NEW was \in Nat, AppendBytes(n, held, was)
  PROVE  Advances(emitted - Len(buffer), CellsOf(file) \cup lost, shed, emitted,
                  CellsOf(file') \cup lost', shed', emitted')
<1>1. PICK h1 \in BOOLEAN, h2 \in BOOLEAN :
        \E r1 \in FlushResults(buffer, file, h1) :
        \E r2 \in FlushResults(Copied(r1.buf, n, emitted), r1.log, h2) :
           (held => h1 /\ h2) /\ AppendIs(n, was, r1, r2)
  BY AppendParts, Zenon
<1>2. PICK r1 \in FlushResults(buffer, file, h1) :
        \E r2 \in FlushResults(Copied(r1.buf, n, emitted), r1.log, h2) :
           (held => h1 /\ h2) /\ AppendIs(n, was, r1, r2)
  BY <1>1, Zenon
<1>3. PICK r2 \in FlushResults(Copied(r1.buf, n, emitted), r1.log, h2) :
           AppendIs(n, was, r1, r2)
  BY <1>2, Zenon
<1> DEFINE e == emitted
           e2 == emitted + n
           new == Copied(r1.buf, n, e)
           gone1 == lost \cup r1.gone
           shed2 == shed \cup Discarded(r1.buf, n, e)
           lo == e - Len(buffer)
           lo1 == e - Len(r1.buf)
           lo2 == e + n - Len(new)
           st == CellsOf(file) \cup lost
           st1 == CellsOf(r1.log) \cup gone1
           st2 == CellsOf(r2.log) \cup (gone1 \cup r2.gone)
<1>4. Sound(buffer, file, lost, shed, e) BY DEF StreamInv
<1>5. Sound(r1.buf, r1.log, gone1, shed, e) BY <1>4, FlushIsSound
<1>6. Sound(new, r1.log, gone1, shed2, e2) BY <1>5, CopyIsSound
<1>7. Advances(lo, st, shed, e, st1, shed, e) /\ lo1 \in Nat /\ lo <= lo1
  BY <1>4, FlushAdvances
<1>8. Advances(lo2, st1, shed2, e2, st2, shed2, e2)
  <2>1. Advances(e2 - Len(new), st1, shed2, e2, st2, shed2, e2)
    <3> HIDE DEF e2, gone1, shed2, new
    <3> QED BY <1>6, FlushAdvances DEF new
  <2>2. e \in Nat /\ n \in Nat /\ Len(new) \in Nat
    BY <1>4, <1>6, LogJournalAssumption DEF Sound
  <2>3. e2 - Len(new) = lo2
    <3> HIDE DEF new
    <3> QED BY <2>2
  <2> QED BY <2>1, <2>3
<1>9. /\ Len(new) \in Nat /\ lo2 \in Nat /\ lo1 <= lo2 /\ lo2 <= e
      /\ Discarded(r1.buf, n, e) = (lo1 + 1)..lo2
      /\ lo1 < lo2 => Len(new) = BufferSize
  BY <1>5, CopyShape
<1>10. /\ e \in Nat /\ e2 \in Nat /\ e <= e2 /\ lo \in Nat /\ BufferSize \in Nat
       /\ \A x \in shed : x <= lo /\ x \in Nat
  <2>1. e \in Nat /\ lo \in Nat /\ shed \subseteq 1..lo
    <3> HIDE DEF lo, e
    <3> QED BY <1>4, SoundFacts DEF lo
  <2>2. n \in Nat /\ BufferSize \in Nat BY LogJournalAssumption
  <2> QED BY <2>1, <2>2
<1>11. /\ file' = r2.log /\ lost' = gone1 \cup r2.gone /\ shed' = shed2
       /\ emitted' = e2
  BY <1>3 DEF AppendIs
<1>12. lo1 < lo2 => lo2 = e2 - BufferSize
  <2>1. n \in Nat BY LogJournalAssumption
  <2> HIDE DEF new, lo1
  <2> QED BY <1>9, <1>10, <2>1
<1>13. shed2 # shed => lo1 < lo2
  <2> HIDE DEF lo1, lo2, e2, new
  <2> QED BY <1>7, <1>9, <1>10
<1>14. shed2 # shed => /\ BufferSize <= e2
                       /\ \A x \in shed2 : x <= e2 - BufferSize
  <2> SUFFICES ASSUME shed2 # shed
               PROVE  BufferSize <= e2 /\ \A x \in shed2 : x <= e2 - BufferSize
    OBVIOUS
  <2>1. lo2 = e2 - BufferSize BY <1>12, <1>13
  <2> HIDE DEF lo, lo1, lo2, e2, new
  <2>2. \A x \in shed2 : x <= lo2 BY <1>7, <1>9, <1>10
  <2> HIDE DEF shed2
  <2> QED BY <1>9, <1>10, <2>1, <2>2
<1>15. Advances(lo, st, shed, e, st2, shed2, e2)
  <2>1. st \subseteq st1 /\ st1 \subseteq st2 BY <1>7, <1>8 DEF Advances
  <2>2. (\A x \in st1 \ st : lo < x) /\ (\A x \in st2 \ st1 : lo2 < x)
    BY <1>7, <1>8 DEF Advances
  <2>3. st2 \subseteq Nat
    <3>1. Sound(r2.buf, r2.log, gone1 \cup r2.gone, shed2, e2)
      <4> HIDE DEF e2, gone1, shed2
      <4> QED BY <1>6, FlushIsSound
    <3>2. st2 \subseteq 1..e2
      <4> HIDE DEF e2, gone1, shed2
      <4> QED BY <3>1, SoundFacts
    <3> QED BY <1>10, <3>2
  <2> HIDE DEF lo, lo1, lo2, e2, new, st, st1, st2
  <2>4. \A x \in st2 \ st : lo < x BY <1>7, <1>9, <1>10, <2>2, <2>3
  <2>5. \A x \in shed2 \ shed : lo < x BY <1>7, <1>9, <1>10
  <2> HIDE DEF shed2
  <2>6. shed \subseteq shed2 BY DEF shed2
  <2> QED BY <1>10, <1>14, <2>1, <2>4, <2>5, <2>6 DEF Advances
<1> QED BY <1>11, <1>15

(* The cells of an interval, counted.                                      *)
LEMMA IntervalCount ==
  ASSUME NEW a \in Nat, NEW b \in Nat, a <= b
  PROVE  IsFiniteSet((a + 1)..b) /\ Cardinality((a + 1)..b) = b - a
<1>1. /\ IsFiniteSet((a + 1)..b)
      /\ Cardinality((a + 1)..b) = IF a + 1 > b THEN 0 ELSE b - (a + 1) + 1
  BY FS_Interval
<1> QED BY <1>1

(* The state of LogStream that the journal stands for.                     *)
Waits(buf, st) == ToSet(buf) \ st
Sheds(old, st) == old \ st
Produces(buf, st, old) == (Waits(buf, st) \cup st) \cup Sheds(old, st)

(* All cells up to the newest are waiting, stored or shed.                 *)
LEMMA AllProduced ==
  ASSUME NEW buf, NEW log, NEW gone, NEW old, NEW e,
         Sound(buf, log, gone, old, e)
  PROVE  Produces(buf, CellsOf(log) \cup gone, old) = 1..e
<1> DEFINE lo == e - Len(buf)
           st == CellsOf(log) \cup gone
           A == 1..lo
           B == (lo + 1)..e
           C == 1..e
<1>1. /\ e \in Nat /\ lo \in Nat /\ lo <= e /\ ToSet(buf) = B
      /\ st \subseteq C /\ old \subseteq A /\ A \subseteq st \cup old
  BY SoundFacts
<1> HIDE DEF lo, st
<1>2. A \subseteq C /\ B \subseteq C /\ \A x \in C : x \in A \/ x \in B
  BY <1>1
<1> HIDE DEF A, B, C
<1>3. Produces(buf, st, old) = C
  BY <1>1, <1>2, Zenon DEF Produces, Waits, Sheds
<1> QED BY <1>3 DEF st, C

(* What a step of LogStream is for the journal.                            *)
StreamStep(buf, st, old, buf2, st2, old2) ==
    LET p == Produces(buf, st, old)
        p2 == Produces(buf2, st2, old2)
        w2 == Waits(buf2, st2)
        sh == Sheds(old, st)
        sh2 == Sheds(old2, st2)
    IN /\ st \subseteq st2 /\ sh \subseteq sh2
       /\ p \subseteq p2
       /\ \A a \in p, b \in p2 \ p : a < b
       /\ \A a \in st2 \ st, b \in w2 : a < b
       /\ \A a \in sh2 \ sh, b \in w2 : a < b
       /\ w2 \cap (st2 \cup sh2) = {} /\ st2 \cap sh2 = {}
       /\ sh2 # sh => Cardinality(p2 \ (st \cup sh2)) >= BufferSize
       /\ Cardinality(w2) <= BufferSize

(* Every step of the journal that moves the stream on is a step of         *)
(* LogStream.                                                              *)
LEMMA AdvanceIsStep ==
  ASSUME NEW buf, NEW log, NEW gone, NEW old, NEW e,
         NEW buf2, NEW log2, NEW gone2, NEW old2, NEW e2,
         Sound(buf, log, gone, old, e), Sound(buf2, log2, gone2, old2, e2),
         Advances(e - Len(buf), CellsOf(log) \cup gone, old, e,
                  CellsOf(log2) \cup gone2, old2, e2)
  PROVE  StreamStep(buf, CellsOf(log) \cup gone, old,
                    buf2, CellsOf(log2) \cup gone2, old2)
<1> DEFINE st == CellsOf(log) \cup gone
           st2 == CellsOf(log2) \cup gone2
           p == Produces(buf, st, old)
           p2 == Produces(buf2, st2, old2)
           w2 == Waits(buf2, st2)
           sh == Sheds(old, st)
           sh2 == Sheds(old2, st2)
           lo == e - Len(buf)
           lo2 == e2 - Len(buf2)
<1>1. /\ e \in Nat /\ lo \in Nat /\ lo <= e
      /\ ToSet(buf) = (lo + 1)..e
      /\ st \subseteq 1..e /\ old \subseteq 1..lo
      /\ 1..lo \subseteq st \cup old
      /\ \A x \in st : \A y \in (lo + 1)..x : y \in st
  BY SoundFacts
<1>2. /\ e2 \in Nat /\ lo2 \in Nat /\ lo2 <= e2 /\ e2 - lo2 <= BufferSize
      /\ ToSet(buf2) = (lo2 + 1)..e2
      /\ st2 \subseteq 1..e2 /\ old2 \subseteq 1..lo2
      /\ 1..lo2 \subseteq st2 \cup old2
      /\ \A x \in st2 : \A y \in (lo2 + 1)..x : y \in st2
  BY SoundFacts
<1>3. /\ e <= e2 /\ st \subseteq st2 /\ old \subseteq old2
      /\ \A x \in (st2 \ st) \cup (old2 \ old) : lo < x
      /\ old2 # old => /\ BufferSize <= e2
                       /\ \A x \in old2 : x <= e2 - BufferSize
  BY DEF Advances
<1>4. BufferSize \in Nat BY LogJournalAssumption
<1> HIDE DEF st, st2, lo, lo2
<1>5. p = 1..e /\ p2 = 1..e2 BY AllProduced DEF st, st2
<1>6. p \subseteq p2 /\ \A a \in p, b \in p2 \ p : a < b
  <2> HIDE DEF p, p2
  <2> QED BY <1>1, <1>2, <1>3, <1>5
<1>7. sh \subseteq sh2
  BY <1>1, <1>3 DEF Sheds
<1>8. w2 = ((lo2 + 1)..e2) \ st2 /\ sh2 \subseteq 1..lo2 /\ sh2 \cap st2 = {}
  BY <1>2 DEF Waits, Sheds
<1>9. \A a \in st2 \ st, b \in w2 : a < b
  <2> HIDE DEF w2, sh2, sh
  <2> SUFFICES ASSUME NEW a \in st2, NEW b \in w2, ~(a < b) PROVE FALSE
    OBVIOUS
  <2>1. a \in Nat /\ b \in Nat /\ b \in (lo2 + 1)..a BY <1>2, <1>8
  <2> QED BY <1>2, <1>8, <2>1
<1>10. /\ \A a \in sh2 \ sh, b \in w2 : a < b
       /\ w2 \cap (st2 \cup sh2) = {} /\ st2 \cap sh2 = {}
  <2> HIDE DEF w2, sh2, sh
  <2> QED BY <1>2, <1>8
<1>11. Cardinality(w2) <= BufferSize
  <2>1. /\ IsFiniteSet((lo2 + 1)..e2) /\ Cardinality((lo2 + 1)..e2) = e2 - lo2
    BY <1>2, IntervalCount
  <2>2. w2 \subseteq (lo2 + 1)..e2 BY <1>8
  <2> HIDE DEF w2
  <2>3. IsFiniteSet(w2) /\ Cardinality(w2) <= Cardinality((lo2 + 1)..e2)
    BY <2>1, <2>2, FS_Subset
  <2>4. Cardinality(w2) \in Nat BY <2>3, FS_CardinalityType
  <2> QED BY <1>2, <1>4, <2>1, <2>3, <2>4
<1>12. ASSUME sh2 # sh PROVE Cardinality(p2 \ (st \cup sh2)) >= BufferSize
  <2>1. PICK x \in sh2 : x \notin sh BY <1>7, <1>12
  <2>2. x \in old2 /\ x \notin st2 /\ x \notin st /\ x \notin old
    BY <1>3, <2>1 DEF Sheds
  <2>3. lo < x /\ old2 # old /\ x \in Nat BY <1>2, <1>3, <2>2
  <2> DEFINE m == e2 - BufferSize
             I == (m + 1)..e2
  <2>4. m \in Nat /\ m <= e2 /\ e2 - m = BufferSize /\ \A y \in old2 : y <= m
    BY <1>2, <1>3, <1>4, <2>3
  <2> HIDE DEF m
  <2>5. IsFiniteSet(I) /\ Cardinality(I) = BufferSize
    BY <1>2, <2>4, IntervalCount
  <2>6. I \cap sh2 = {} BY <1>2, <2>4 DEF Sheds
  <2>7. I \cap st = {}
    <3> SUFFICES ASSUME NEW y \in I, y \in st PROVE FALSE
      OBVIOUS
    <3>1. x <= m BY <2>2, <2>4
    <3>2. x \in (lo + 1)..y BY <1>1, <1>2, <2>3, <2>4, <3>1
    <3> QED BY <1>1, <2>2, <3>2
  <2>8. I \subseteq p2 \ (st \cup sh2)
    <3>1. I \subseteq 1..e2 BY <1>2, <2>4
    <3> HIDE DEF I, p2, sh2
    <3> QED BY <1>5, <2>6, <2>7, <3>1
  <2>9. IsFiniteSet(p2 \ (st \cup sh2))
    <3>1. IsFiniteSet(1..e2)
      <4>1. 1 \in Int /\ e2 \in Int BY <1>2
      <4> QED BY <4>1, FS_Interval
    <3>2. p2 \ (st \cup sh2) \subseteq 1..e2 BY <1>5
    <3> HIDE DEF p2, sh2
    <3> QED BY <3>1, <3>2, FS_Subset
  <2> DEFINE rest == p2 \ (st \cup sh2)
  <2> HIDE DEF rest, I
  <2>10. Cardinality(I) <= Cardinality(rest)
    BY <2>8, <2>9, FS_Subset DEF rest
  <2>11. Cardinality(rest) \in Nat BY <2>9, FS_CardinalityType DEF rest
  <2>12. Cardinality(rest) >= BufferSize BY <1>4, <2>5, <2>10, <2>11
  <2> QED BY <2>12 DEF rest
<1> HIDE DEF p, p2, w2, sh, sh2
<1>13. st \subseteq st2 BY <1>3
<1> QED BY <1>6, <1>7, <1>9, <1>10, <1>11, <1>12, <1>13
        DEF st, st2, p, p2, w2, sh, sh2, StreamStep

(* A step that appends, flushes or syncs moves the stream on.              *)
LEMMA WritesAdvance ==
  ASSUME JournalInv, Appends \/ Flushes \/ Syncs
  PROVE  Advances(emitted - Len(buffer), CellsOf(file) \cup lost, shed, emitted,
                  CellsOf(file') \cup lost', shed', emitted')
<1>1. StreamInv /\ Sound(buffer, file, lost, shed, emitted)
  BY DEF JournalInv, StreamInv
<1>2. CASE Appends
  <2>1. PICK n \in 1..BufferSize, held \in BOOLEAN, was \in Nat :
           AppendBytes(n, held, was)
    BY <1>2 DEF Appends
  <2> QED BY <1>1, <2>1, AppendAdvances
<1>3. ASSUME Flushes \/ Syncs
      PROVE  \E held \in BOOLEAN : \E r \in FlushResults(buffer, file, held) :
                /\ file' = r.log /\ lost' = lost \cup r.gone
                /\ UNCHANGED <<emitted, shed>>
  <2>1. CASE Flushes BY <2>1 DEF Flushes, Flush
  <2>2. CASE Syncs
    <3>1. FALSE \in BOOLEAN BY Zenon
    <3>2. \E r \in FlushResults(buffer, file, FALSE) :
             /\ file' = r.log /\ lost' = lost \cup r.gone
             /\ UNCHANGED <<emitted, shed>>
      BY <2>2, Zenon DEF Syncs, FlushAndSync
    <3> QED BY <3>1, <3>2, Zenon
  <2> QED BY <1>3, <2>1, <2>2
<1>4. CASE Flushes \/ Syncs
  <2>1. PICK held \in BOOLEAN : \E r \in FlushResults(buffer, file, held) :
                /\ file' = r.log /\ lost' = lost \cup r.gone
                /\ UNCHANGED <<emitted, shed>>
    BY <1>3, <1>4
  <2>2. PICK r \in FlushResults(buffer, file, held) :
                /\ file' = r.log /\ lost' = lost \cup r.gone
                /\ UNCHANGED <<emitted, shed>>
    BY <2>1
  <2>3. Advances(emitted - Len(buffer), CellsOf(file) \cup lost, shed, emitted,
                 CellsOf(r.log) \cup (lost \cup r.gone), shed, emitted)
    BY <1>1, FlushAdvances
  <2> QED BY <2>2, <2>3
<1> QED BY <1>2, <1>4

(* The journal implements LogStream, for every buffer size, threshold,     *)
(* record length and number of cards: append_bytes, flush_log and          *)
(* refresh_storage_binding never lose a cell silently, hand cells over in  *)
(* order, and shed only the oldest, only from a full buffer.               *)
THEOREM JournalImplementsStream == Spec => ImplementsStream
<1>1. Init => Stream!Init
  <2> SUFFICES ASSUME Init PROVE Stream!Init
    OBVIOUS
  <2>1. WrittenCells = {} BY DEF Init, WrittenCells, ToSet
  <2>2. ToSet(buffer) = {} BY DEF Init, ToSet
  <2> QED BY <2>1, <2>2 DEF Init, Stream!Init, stored
<1>2. JournalInv /\ [Next]_vars => [Stream!Step]_(Stream!cells)
  <2> SUFFICES ASSUME JournalInv, [Next]_vars
               PROVE  Stream!Step \/ UNCHANGED Stream!cells
    BY Zenon
  <2>1. /\ Sound(buffer, file, lost, shed, emitted)
        /\ Sound(buffer', file', lost', shed', emitted')
    BY StreamKept DEF JournalInv, StreamInv
  <2>2. stored = CellsOf(file) \cup lost /\ stored' = CellsOf(file') \cup lost'
    BY DEF stored, WrittenCells, CellsOf
  <2>3. CASE Appends \/ Flushes \/ Syncs
    <3>1. Advances(emitted - Len(buffer), CellsOf(file) \cup lost, shed, emitted,
                   CellsOf(file') \cup lost', shed', emitted')
      BY <2>3, WritesAdvance
    <3> DEFINE st == CellsOf(file) \cup lost
               st2 == CellsOf(file') \cup lost'
               p == Produces(buffer, st, shed)
               p2 == Produces(buffer', st2, shed')
               w2 == Waits(buffer', st2)
               sh == Sheds(shed, st)
               sh2 == Sheds(shed', st2)
    <3>2. StreamStep(buffer, st, shed, buffer', st2, shed')
      BY <2>1, <3>1, AdvanceIsStep
    <3>3. /\ st = stored /\ st2 = stored'
          /\ p = Stream!Produced /\ p2 = Stream!Produced'
          /\ w2 = (ToSet(buffer) \ stored)'
          /\ sh = shed \ stored /\ sh2 = (shed \ stored)'
      BY <2>2 DEF Stream!Produced, Produces, Waits, Sheds
    <3>4. \A S : Stream!Cardinality(S) = Cardinality(S)
      BY DEF Stream!Cardinality, Cardinality
    <3>5. /\ st \subseteq st2 /\ sh \subseteq sh2 /\ p \subseteq p2
          /\ \A a \in p, b \in p2 \ p : a < b
          /\ \A a \in st2 \ st, b \in w2 : a < b
          /\ \A a \in sh2 \ sh, b \in w2 : a < b
          /\ w2 \cap (st2 \cup sh2) = {} /\ st2 \cap sh2 = {}
          /\ sh2 # sh => Cardinality(p2 \ (st \cup sh2)) >= BufferSize
          /\ Cardinality(w2) <= BufferSize
      BY <3>2, Zenon DEF StreamStep
    <3> HIDE DEF st, st2, p, p2, w2, sh, sh2
    <3>6. Stream!Step BY <3>3, <3>4, <3>5 DEF Stream!Step, Stream!Older
    <3> QED BY <3>6
  <2>4. CASE CardOut
    <3>1. stored' = stored /\ UNCHANGED <<buffer, shed>>
      BY <2>2, <2>4, CardOutKeeps DEF JournalInv, streamVars
    <3> QED BY <3>1 DEF Stream!cells
  <2>5. CASE Quiet
    <3>1. stored' = stored /\ UNCHANGED <<buffer, shed>>
      BY <2>2, <2>5 DEF Quiet, streamVars
    <3> QED BY <3>1 DEF Stream!cells
  <2> QED BY <2>3, <2>4, <2>5, StepKinds, BindsAreQuiet DEF Idles, JournalInv
<1> QED
  BY <1>1, <1>2, JournalInvHolds, PTL DEF Spec, ImplementsStream, Stream!Spec
=============================================================================
