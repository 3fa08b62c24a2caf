------------------------- MODULE RetainedRingProofs -------------------------
(***************************************************************************)
(* Proofs about RetainedRing, for every number of entries, of marks and of *)
(* writers that may run at the same time.                                  *)
(***************************************************************************)
EXTENDS RetainedRing, Integers, TLAPS

(* At most one context marks; which one, if any; its local variables.      *)
OneMark == \E c \in Contexts : \A d \in Contexts : pc[d] # "idle" => d = c
WriterOf(p) ==
    CHOOSE c \in Contexts : \A d \in Contexts : p[d] # "idle" => d = c
Writer == WriterOf(pc)
P == pc[Writer]
K == style[Writer]
I == index[Writer]
M == mySeq[Writer]

Whole(s) == [seq |-> s, body |-> s]

(* The marks the index accounts for: between the store of the index and    *)
(* that of the sequence number, one more than are completed.               *)
Top == IF P = "seal" THEN done + 1 ELSE done

(* The slot of the mark of age a (0 is the newest), for the next slot h.   *)
SlotOf(h, a) == IF a < h THEN (h - 1) - a ELSE ((h - 1) - a) + N

(* The newest n marks are whole, each in its slot.                         *)
Holds(h, top, n) ==
    \A a \in 0..n - 1 : a < top => entries[SlotOf(h, a)] = Whole(top - a)

Writing == Filling \cup {"publish"}

CountOK == seq = done /\ (P \in Writing \cup {"seal"} => M = done + 1)

HeadOK == /\ P \in Filling => I = FirstSlot
          /\ P = "publish" => I = NextIndex(K, FirstSlot)

(* wrapped is 0 until the marks fill the ring, and 1 from then on: the     *)
(* eager writers set it a store early, the lazy ones a mark late.          *)
WrapOK ==
    /\ wrapped = 0 => writeIndex = Top
    /\ wrapped = 0 /\ P \in Writing => writeIndex < N
    /\ wrapped = 1 => \/ Top >= N
                      \/ P = "publish" /\ Top = N - 1 /\ writeIndex = N - 1 /\ I = 0
    /\ P = "publish" /\ wrapped = 0 /\ K # "lazy" => writeIndex + 1 < N
    /\ P \in {"adopt", "read"} /\ K # "lazy" => ~FullUnwrapped

(* A mark under way has touched only the slot of the oldest one.           *)
EntriesOK == /\ Holds(FirstSlot, Top, N - 1)
             /\ P \notin Writing => Holds(FirstSlot, Top, N)

(* What it has stored there so far.                                        *)
UnderWayOK ==
    /\ P \in {"wrap", "publish"} => entries[FirstSlot] = Whole(M)
    /\ P \in {"tear", "fill"} /\ K # "library" => entries[FirstSlot].seq = M
    /\ P = "stamp" /\ K = "library" => entries[FirstSlot].body = M
    /\ P \in Writing /\ done >= N => entries[FirstSlot].seq \in {M - N, M}

UpOK == CountOK /\ HeadOK /\ WrapOK /\ EntriesOK /\ UnderWayOK

(* Between a reset and the emptying of the ring nothing marks.             *)
BootOK ==
    /\ boot # "up" => \A c \in Contexts : pc[c] = "idle"
    /\ boot = "entries" => /\ seq = 0 /\ writeIndex = 0 /\ wrapped = 0
                           /\ done = 0 /\ ~spoilt

(* What is true of the ring as long as its writers kept out of each        *)
(* other's way.                                                            *)
CleanOK == OneMark /\ (boot = "up" => UpOK) /\ CrashKeepsRecentMarks

RingInv == TypeOK /\ BootOK /\ (~spoilt => CleanOK)

(* Where at most c marks, the writer is c or nothing marks.                *)
LEMMA OnlyWriter ==
    ASSUME NEW p, NEW c \in Contexts,
           \A d \in Contexts : p[d] # "idle" => d = c
    PROVE  /\ WriterOf(p) \in Contexts
           /\ p[c] # "idle" => WriterOf(p) = c
           /\ p[WriterOf(p)] = p[c]
<1>1. \E e \in Contexts : \A d \in Contexts : p[d] # "idle" => d = e
  OBVIOUS
<1>2. /\ WriterOf(p) \in Contexts
      /\ \A d \in Contexts : p[d] # "idle" => d = WriterOf(p)
  BY <1>1, Zenon DEF WriterOf
<1> QED BY <1>2

(* Ages and slots: the newest N - 1 marks leave the next slot alone ...    *)
LEMMA SlotOfAge ==
    ASSUME N \in Nat \ {0}, NEW h \in 0..N - 1, NEW a \in 0..N - 1
    PROVE  /\ SlotOf(h, a) \in 0..N - 1
           /\ a < N - 1 => SlotOf(h, a) # h
           /\ a = N - 1 => SlotOf(h, a) = h
BY DEF SlotOf

(* ... and moving on to the slot after it makes every mark one older.      *)
LEMMA SlotOfNext ==
    ASSUME N \in Nat \ {0}, NEW h \in 0..N - 1, NEW g \in 0..N - 1,
           h + 1 < N => g = h + 1, h + 1 = N => g = 0
    PROVE  /\ SlotOf(g, 0) = h
           /\ \A a \in 1..N - 1 : SlotOf(g, a) = SlotOf(h, a - 1)
BY DEF SlotOf

(* The slot of the next mark is in the ring.                               *)
LEMMA FirstSlotInRing ==
    ASSUME RingAssumption, TypeOK
    PROVE  FirstSlot \in 0..N - 1 /\ N \in Nat \ {0} /\ Slots = 0..N - 1
BY DEF RingAssumption, TypeOK, FirstSlot, Slots

(* Every step keeps the types, and the index within the ring.              *)
LEMMA TypeKept ==
    ASSUME RingAssumption, TypeOK, [Next]_vars PROVE TypeOK'
<1>0. /\ N \in Nat /\ N > 0 /\ FirstSlot \in Slots /\ FirstSlot \in 0..N
      /\ Slots = 0..N - 1
  BY FirstSlotInRing
<1>E. [i \in Slots |-> Empty] \in [Slots -> [seq : Nat, body : Nat]]
  BY DEF Empty
<1>J. \A c \in Contexts : pc[c] \in Filling => index[c] \in Slots
  BY DEF TypeOK, StoresInRing
<1>I. StoresInRing'
  <2>1. /\ pc \in [Contexts -> Steps] /\ index \in [Contexts -> 0..N]
        /\ FirstSlot \in Slots
    BY <1>0 DEF TypeOK
  <2>2. ASSUME NEW c \in Contexts, Read(c) PROVE StoresInRing'
    BY <1>J, <2>1, <2>2 DEF StoresInRing, Read, Goto
  <2>3. ASSUME NEW c \in Contexts, Mark(c), ~Read(c) PROVE StoresInRing'
    BY <1>J, <2>1, <2>3 DEF StoresInRing, Mark, MarkEager, MarkLazy, MarkWipes,
       MarkAdopts, Stamp, Tear, Fill, Wrap, Publish, Seal, Goto, Filling,
       AfterStamp, AfterFill
  <2>4. ASSUME ~(\E c \in Contexts : Mark(c)) PROVE StoresInRing'
    BY <1>J, <2>4 DEF StoresInRing, Next, PowerCycle, Everywhere, ResetHeader, ResetEntries,
       Damage, Filling, vars, header, locals
  <2> QED BY <2>2, <2>3, <2>4
<1> USE DEF TypeOK, Steps, Styles, header, locals, Goto, Filling
<1>1. ASSUME NEW c \in Contexts, Mark(c) PROVE TypeOK'
  <2>1. ASSUME NEW k \in {"kernel", "library"}, MarkEager(c, k) PROVE TypeOK'
    BY <1>I, <2>1 DEF MarkEager
  <2>2. CASE MarkLazy(c) BY <1>I, <2>2 DEF MarkLazy
  <2>3. CASE MarkWipes(c)
    <3>1. entries' \in [Slots -> [seq : Nat, body : Nat]]
      BY <2>3, <1>E DEF MarkWipes
    <3>2. magic' = "junk" /\ seq' = 0 /\ writeIndex' = 0 /\ wrapped' = 0
          /\ done' = 0 /\ UNCHANGED <<boot, index, mySeq>>
      BY <2>3 DEF MarkWipes
    <3>3. pc' \in [Contexts -> Steps] /\ style' \in [Contexts -> Styles]
      BY <2>3 DEF MarkWipes
    <3>4. spoilt' \in BOOLEAN
      BY <2>3, Zenon DEF MarkWipes, Overlaps
    <3> QED BY <1>I, <3>1, <3>2, <3>3, <3>4, <1>0
  <2>4. CASE MarkAdopts(c) BY <1>I, <2>4 DEF MarkAdopts
  <2>5. CASE Read(c)
    <3>1. index' = [index EXCEPT ![c] = FirstSlot]
          /\ mySeq' = [mySeq EXCEPT ![c] = seq + 1]
          /\ wrapped' \in {0, 1}
      BY <2>5 DEF Read, WrappedAtRead
    <3>2. pc' \in [Contexts -> Steps]
      BY <2>5 DEF Read, AfterRead
    <3> QED BY <1>I, <2>5, <3>1, <3>2, <1>0 DEF Read
  <2>6. CASE Stamp(c)
    <3>1. pc' \in [Contexts -> Steps]
      BY <2>6 DEF Stamp, AfterStamp
    <3>2. entries' \in [Slots -> [seq : Nat, body : Nat]]
      BY <1>J, <2>6 DEF Stamp
    <3> QED BY <1>I, <2>6, <3>1, <3>2 DEF Stamp
  <2>7. CASE Tear(c)
    <3>1. entries' \in [Slots -> [seq : Nat, body : Nat]]
      BY <1>J, <2>7 DEF Tear
    <3> QED BY <1>I, <2>7, <3>1 DEF Tear
  <2>8. CASE Fill(c)
    <3>1. pc' \in [Contexts -> Steps]
      BY <2>8 DEF Fill, AfterFill
    <3>2. entries' \in [Slots -> [seq : Nat, body : Nat]]
      BY <1>J, <2>8 DEF Fill
    <3> QED BY <1>I, <2>8, <3>1, <3>2 DEF Fill
  <2>9. CASE Wrap(c)
    <3>1. index[c] \in 0..N - 1
      BY <1>J, <2>9, <1>0 DEF Wrap
    <3>2. NextIndex(style[c], index[c]) \in 0..N
      BY <3>1, <1>0 DEF NextIndex
    <3>3. wrapped' \in {0, 1}
      BY <2>9 DEF Wrap, WrappedAfter
    <3> QED BY <1>I, <2>9, <3>2, <3>3 DEF Wrap
  <2>10. CASE Publish(c) BY <1>I, <2>10 DEF Publish
  <2>11. CASE Seal(c) BY <1>0, <1>I, <2>11 DEF Seal
  <2> QED BY <1>1, <2>1, <2>2, <2>3, <2>4, <2>5, <2>6, <2>7, <2>8, <2>9,
             <2>10, <2>11 DEF Mark
<1>2. CASE PowerCycle BY <1>0, <1>I, <1>2 DEF PowerCycle, Everywhere
<1>3. CASE ResetHeader
  <2>1. spoilt' \in BOOLEAN
    BY <1>3, Zenon DEF ResetHeader
  <2> QED BY <1>I, <1>3, <1>0, <2>1 DEF ResetHeader
<1>4. CASE ResetEntries BY <1>I, <1>4, <1>E DEF ResetEntries
<1>5. CASE Damage BY <1>I, <1>5 DEF Damage
<1>6. CASE UNCHANGED vars BY <1>I, <1>6 DEF vars
<1> QED BY <1>1, <1>2, <1>3, <1>4, <1>5, <1>6 DEF Next

(* Positions that run over the end of the ring by less than its length.    *)
LEMMA ModOnce ==
    ASSUME N \in Nat \ {0}, NEW x \in Nat, x < 2 * N
    PROVE  x % N = IF x < N THEN x ELSE x - N
<1>1. CASE x < N BY <1>1
<1>2. CASE x >= N BY <1>2
<1> QED BY <1>1, <1>2

(* The dump of a ring that has not wrapped: all marks, oldest first.       *)
LEMMA DumpUnwrapped ==
    ASSUME RingAssumption, TypeOK, UpOK, wrapped = 0
    PROVE  /\ Count = Top /\ Top \in Nat /\ Top <= N
           /\ \A j \in 0..Top - 1 : Line(j) = Whole(j + 1)
<1>1. /\ N \in Nat \ {0} /\ FirstSlot \in 0..N - 1 /\ done \in Nat
      /\ writeIndex \in 0..N /\ writeIndex = Top
  BY FirstSlotInRing DEF TypeOK, UpOK, WrapOK
<1>2. InUse = Top /\ Oldest = 0
  BY <1>1 DEF InUse, Oldest
<1>3. Count = Top
  BY <1>1, <1>2 DEF Count, DumpEntries
<1>4. Start = 0
  <2>1. Start = 0 % N
    BY <1>1, <1>2, <1>3 DEF Start
  <2> QED BY <2>1, <1>1, ModOnce
<1>5. ASSUME NEW j \in 0..Top - 1 PROVE Line(j) = Whole(j + 1)
  <2>1. (Start + j) % N = j
    BY <1>1, <1>4, ModOnce
  <2>2. Line(j) = entries[j]
    BY <2>1 DEF Line
  <2> DEFINE a == (Top - 1) - j
  <2>3. a \in 0..N - 1 /\ a < Top /\ Top - a = j + 1
    BY <1>1
  <2>4. CASE Top < N
    <3>1. FirstSlot = Top
      BY <1>1, <2>4 DEF FirstSlot
    <3>2. SlotOf(FirstSlot, a) = j /\ a \in 0..(N - 1) - 1
      BY <1>1, <2>4, <3>1 DEF SlotOf
    <3> HIDE DEF a
    <3>3. entries[SlotOf(FirstSlot, a)] = Whole(Top - a)
      BY <2>3, <3>2 DEF UpOK, EntriesOK, Holds
    <3> QED BY <2>2, <2>3, <3>2, <3>3
  <2>5. CASE Top = N
    <3>1. FirstSlot = 0
      BY <1>1, <2>5 DEF FirstSlot
    <3>2. SlotOf(FirstSlot, a) = j
      BY <1>1, <2>5, <3>1 DEF SlotOf
    <3>3. P \notin Writing
      BY <1>1, <2>5 DEF UpOK, WrapOK
    <3> HIDE DEF a
    <3>4. entries[SlotOf(FirstSlot, a)] = Whole(Top - a)
      BY <2>3, <3>3 DEF UpOK, EntriesOK, Holds
    <3> QED BY <2>2, <2>3, <3>2, <3>4
  <2> QED BY <1>1, <2>4, <2>5
<1> QED BY <1>1, <1>3, <1>5

(* The dump of a wrapped ring: the next slot first, then the newest marks. *)
LEMMA DumpWrapped ==
    ASSUME RingAssumption, TypeOK, UpOK, wrapped = 1
    PROVE  /\ Count = N /\ Top \in Nat /\ Top >= N - 1
           /\ Line(0) = entries[FirstSlot]
           /\ \A j \in 1..N - 1 : Line(j) = Whole((Top - N) + (j + 1))
           /\ P \notin Writing => Line(0) = Whole((Top - N) + 1)
<1>1. /\ N \in Nat \ {0} /\ FirstSlot \in 0..N - 1 /\ done \in Nat
      /\ writeIndex \in 0..N
  BY FirstSlotInRing DEF TypeOK
<1>2. Top \in Nat /\ Top >= N - 1 /\ (P \notin Writing => Top >= N)
  BY <1>1 DEF UpOK, WrapOK, Top, Writing
<1>3. InUse = N /\ Oldest = FirstSlot
  BY <1>1 DEF InUse, Oldest, FirstSlot
<1>4. Count = N
  BY <1>1, <1>3 DEF Count, DumpEntries
<1>5. Start = FirstSlot
  <2>1. Start = FirstSlot % N
    BY <1>1, <1>3, <1>4 DEF Start
  <2> QED BY <2>1, <1>1, ModOnce
<1>6. ASSUME NEW j \in 0..N - 1
      PROVE  /\ (N - 1) - j \in 0..N - 1
             /\ Line(j) = entries[SlotOf(FirstSlot, (N - 1) - j)]
  <2>1. (Start + j) % N = IF FirstSlot + j < N THEN FirstSlot + j ELSE (FirstSlot + j) - N
    BY <1>1, <1>5, ModOnce
  <2>2. (Start + j) % N = SlotOf(FirstSlot, (N - 1) - j)
    BY <1>1, <2>1 DEF SlotOf
  <2> QED BY <1>1, <2>2 DEF Line
<1>7. Line(0) = entries[FirstSlot]
  <2>1. 0 \in 0..N - 1 /\ (N - 1) - 0 = N - 1 /\ N - 1 \in 0..N - 1
    BY <1>1
  <2>2. SlotOf(FirstSlot, N - 1) = FirstSlot
    BY <1>1, <2>1, SlotOfAge
  <2> QED BY <1>6, <2>1, <2>2
<1>8. ASSUME NEW j \in 1..N - 1 PROVE Line(j) = Whole((Top - N) + (j + 1))
  <2> DEFINE a == (N - 1) - j
  <2>1. /\ j \in 0..N - 1 /\ a \in 0..(N - 1) - 1 /\ a < Top
        /\ Top - a = (Top - N) + (j + 1)
    BY <1>1, <1>2
  <2>2. Line(j) = entries[SlotOf(FirstSlot, a)]
    BY <1>6, <2>1
  <2> HIDE DEF a
  <2>3. entries[SlotOf(FirstSlot, a)] = Whole(Top - a)
    BY <2>1 DEF UpOK, EntriesOK, Holds
  <2> QED BY <2>1, <2>2, <2>3
<1>9. ASSUME P \notin Writing PROVE Line(0) = Whole((Top - N) + 1)
  <2>1. N - 1 \in 0..N - 1 /\ N - 1 < Top /\ Top - (N - 1) = (Top - N) + 1
    BY <1>1, <1>2, <1>9
  <2>2. SlotOf(FirstSlot, N - 1) = FirstSlot
    BY <1>1, <2>1, SlotOfAge
  <2>3. entries[SlotOf(FirstSlot, N - 1)] = Whole(Top - (N - 1))
    BY <1>9, <2>1 DEF UpOK, EntriesOK, Holds
  <2> QED BY <1>7, <2>1, <2>2, <2>3
<1> QED BY <1>2, <1>4, <1>7, <1>8, <1>9

(* A running system whose ring is as UpOK says may stop at any store.      *)
LEMMA UpSurvivesReset ==
    ASSUME RingAssumption, TypeOK, UpOK PROVE CrashKeepsRecentMarks
<1> SUFFICES ASSUME done > 0, magic # "junk"
             PROVE  /\ HeaderUsable
                    /\ \A s \in Recent : \E i \in Lines : Line(i) = Whole(s)
                    /\ \A i, j \in Lines :
                           (i < j /\ {Line(i).seq, Line(j).seq} \subseteq Recent)
                               => Line(i).seq < Line(j).seq
  BY DEF CrashKeepsRecentMarks, Whole
<1>0. N \in Nat \ {0} /\ done \in Nat /\ seq = done /\ FirstSlot \in 0..N - 1
  BY FirstSlotInRing DEF TypeOK, UpOK, CountOK
<1>1. HeaderUsable
  BY <1>0 DEF HeaderUsable, TypeOK
<1>2. Top \in {done, done + 1}
  BY DEF Top
<1>3. \A s : Whole(s).seq = s
  BY DEF Whole
<1>4. CASE wrapped = 0
  <2>1. /\ Count = Top /\ Top \in Nat /\ Top <= N
        /\ \A j \in 0..Top - 1 : Line(j) = Whole(j + 1)
    BY <1>4, DumpUnwrapped
  <2>2. ASSUME NEW s \in Recent PROVE \E i \in Lines : Line(i) = Whole(s)
    <3>1. s \in Nat /\ 1 <= s /\ s <= done
      BY <1>0 DEF Recent
    <3>2. s - 1 \in 0..Top - 1 /\ (s - 1) + 1 = s
      BY <3>1, <1>0, <1>2
    <3>3. Line(s - 1) = Whole(s)
      BY <2>1, <3>2
    <3>4. s - 1 \in Lines
      BY <2>1, <3>1, <3>2, <3>3, <1>3 DEF Lines
    <3> QED BY <3>3, <3>4
  <2>3. ASSUME NEW i \in Lines, NEW j \in Lines, i < j
        PROVE  Line(i).seq < Line(j).seq
    <3>1. i \in 0..Top - 1 /\ j \in 0..Top - 1
      BY <2>1 DEF Lines
    <3>2. Line(i).seq = i + 1 /\ Line(j).seq = j + 1
      BY <2>1, <3>1, <1>3
    <3> QED BY <2>1, <2>3, <3>1, <3>2
  <2> QED BY <1>1, <2>2, <2>3
<1>5. CASE wrapped = 1
  <2>1. /\ Count = N /\ Top \in Nat /\ Top >= N - 1
        /\ Line(0) = entries[FirstSlot]
        /\ \A j \in 1..N - 1 : Line(j) = Whole((Top - N) + (j + 1))
        /\ P \notin Writing => Line(0) = Whole((Top - N) + 1)
    BY <1>5, DumpWrapped
  <2>2. Line(0).seq \notin Recent \/ Line(0) = Whole((Top - N) + 1)
    <3>1. CASE P \notin Writing
      BY <2>1, <3>1
    <3>2. CASE P \in Writing
      <4>1. Top = done /\ M = done + 1
        BY <3>2 DEF Top, Writing, Filling, UpOK, CountOK
      <4>2. Line(0).seq \in {M - N, M}
        <5>1. CASE done >= N
          BY <2>1, <3>2, <5>1 DEF UpOK, UnderWayOK
        <5>2. CASE done < N
          <6>1. P = "publish"
            BY <1>5, <4>1, <5>2, <1>0 DEF UpOK, WrapOK
          <6>2. entries[FirstSlot] = Whole(M)
            BY <6>1 DEF UpOK, UnderWayOK
          <6> QED BY <2>1, <6>2, <1>3
        <5> QED BY <1>0, <5>1, <5>2
      <4>3. M - N \notin Recent /\ M \notin Recent
        BY <4>1, <1>0 DEF Recent
      <4> QED BY <4>2, <4>3
    <3> QED BY <3>1, <3>2
  <2>3. ASSUME NEW s \in Recent PROVE \E i \in Lines : Line(i) = Whole(s)
    <3>1. s \in Nat /\ 1 <= s /\ s <= done /\ s + (N - 1) > done
      BY <1>0 DEF Recent
    <3> DEFINE j == (s - 1) - (Top - N)
    <3>2. /\ j \in 0..N - 1 /\ (Top - N) + (j + 1) = s
          /\ j = 0 => Top = done + 1
      BY <3>1, <2>1, <1>0, <1>2
    <3>3. Line(j) = Whole(s)
      <4>1. CASE j = 0
        <5>1. P \notin Writing
          BY <3>2, <4>1, <1>0 DEF Top, Writing, Filling
        <5>2. (Top - N) + 1 = s
          BY <3>2, <4>1
        <5> HIDE DEF j
        <5> QED BY <2>1, <4>1, <5>1, <5>2
      <4>2. CASE j # 0
        <5>1. j \in 1..N - 1
          BY <3>2, <4>2, <1>0
        <5> HIDE DEF j
        <5> QED BY <2>1, <3>2, <5>1
      <4> QED BY <4>1, <4>2
    <3> HIDE DEF j
    <3>4. j \in Lines
      BY <2>1, <3>1, <3>2, <3>3, <1>3 DEF Lines
    <3> QED BY <3>3, <3>4
  <2>4. ASSUME NEW i \in Lines, NEW j \in Lines, i < j,
               {Line(i).seq, Line(j).seq} \subseteq Recent
        PROVE  Line(i).seq < Line(j).seq
    <3>1. i \in 0..N - 1 /\ j \in 1..N - 1
      BY <2>1, <2>4, <1>0 DEF Lines
    <3>2. Line(j).seq = (Top - N) + (j + 1)
      BY <2>1, <3>1, <1>3
    <3>3. Line(i).seq = (Top - N) + (i + 1)
      <4>1. CASE i = 0
        <5>1. Line(0) = Whole((Top - N) + 1)
          BY <2>2, <2>4, <4>1
        <5> QED BY <4>1, <5>1, <1>3
      <4>2. CASE i # 0
        <5>1. i \in 1..N - 1
          BY <3>1, <4>2
        <5> QED BY <2>1, <5>1, <1>3
      <4> QED BY <4>1, <4>2
    <3> QED BY <2>1, <2>4, <3>1, <3>2, <3>3, <1>0
  <2> QED BY <1>1, <2>3, <2>4
<1> QED BY <1>4, <1>5 DEF TypeOK

(* With no mark under way the dump is exact.                               *)
LEMMA UpDumpIsExact ==
    ASSUME RingAssumption, TypeOK, UpOK, P = "idle"
    PROVE  /\ Count = IF done < N THEN done ELSE N
           /\ \A i \in 0..(Count - 1) :
                  LET s == (done - Count) + i + 1
                  IN  Line(i) = [seq |-> s, body |-> s]
<1>0. N \in Nat \ {0} /\ done \in Nat /\ Top = done /\ P \notin Writing
  BY FirstSlotInRing DEF TypeOK, Top, Writing, Filling
<1>1. CASE wrapped = 0
  <2>1. /\ Count = Top /\ Top \in Nat /\ Top <= N
        /\ \A j \in 0..Top - 1 : Line(j) = Whole(j + 1)
    BY <1>1, DumpUnwrapped
  <2>2. Count = IF done < N THEN done ELSE N
    BY <1>0, <2>1
  <2>3. ASSUME NEW i \in 0..(Count - 1) PROVE Line(i) = Whole((done - Count) + i + 1)
    <3>1. i \in 0..Top - 1 /\ (done - Count) + i + 1 = i + 1
      BY <1>0, <2>1
    <3> QED BY <2>1, <3>1
  <2> QED BY <2>2, <2>3 DEF Whole
<1>2. CASE wrapped = 1
  <2>1. /\ Count = N /\ Top \in Nat
        /\ \A j \in 1..N - 1 : Line(j) = Whole((Top - N) + (j + 1))
        /\ Line(0) = Whole((Top - N) + 1)
    BY <1>0, <1>2, DumpWrapped
  <2>2. done >= N
    BY <1>0, <1>2 DEF UpOK, WrapOK
  <2>3. ASSUME NEW i \in 0..(Count - 1) PROVE Line(i) = Whole((done - Count) + i + 1)
    <3>1. CASE i = 0
      <4>1. (done - Count) + i + 1 = (Top - N) + 1
        BY <1>0, <2>1, <3>1
      <4> QED BY <2>1, <3>1, <4>1
    <3>2. CASE i # 0
      <4>1. i \in 1..N - 1 /\ (done - Count) + i + 1 = (Top - N) + (i + 1)
        BY <1>0, <2>1, <3>2
      <4> QED BY <2>1, <4>1
    <3> QED BY <3>1, <3>2
  <2> QED BY <1>0, <2>1, <2>2, <2>3 DEF Whole
<1> QED BY <1>1, <1>2 DEF TypeOK

(* A step of the only mark: the fields change one by one.                  *)
LEMMA ApartMarkKeepsUp ==
    ASSUME RingAssumption, TypeOK, NEW c \in Contexts, Mark(c), ~MarkWipes(c),
           ~spoilt', UpOK,
           \A d \in Contexts : pc[d] # "idle" => d = c,
           \A d \in Contexts : pc'[d] # "idle" => d = c
    PROVE  UpOK'
<1>0. /\ N \in Nat \ {0} /\ FirstSlot \in 0..N - 1 /\ Slots = 0..N - 1
      /\ done \in Nat /\ writeIndex \in 0..N
      /\ wrapped \in {0, 1} /\ P \in Steps
      /\ pc \in [Contexts -> Steps] /\ style \in [Contexts -> Styles]
      /\ index \in [Contexts -> 0..N] /\ mySeq \in [Contexts -> Nat]
      /\ P = pc[c] /\ P' = pc'[c]
      /\ pc[c] # "idle" => Writer = c
      /\ pc'[c] # "idle" => Writer' = c
  BY FirstSlotInRing, OnlyWriter DEF TypeOK, P, Writer
<1>K. pc[c] # "idle" => K \in Styles
  BY <1>0 DEF K
<1> USE DEF Filling, Writing
<1>1. ASSUME NEW k \in Styles, pc[c] = "idle", style' = [style EXCEPT ![c] = k],
             Goto(c, "read"), k = "lazy" \/ ~FullUnwrapped,
             UNCHANGED <<seq, writeIndex, wrapped, entries, index, mySeq, done>>
      PROVE  UpOK'
  <2>1. P = "idle" /\ P' = "read" /\ K' = k /\ Top' = Top
    BY <1>0, <1>1 DEF K, Goto, Top
  <2>2. CountOK' /\ HeadOK' /\ WrapOK' /\ UnderWayOK'
    BY <1>1, <2>1 DEF UpOK, CountOK, HeadOK, WrapOK, UnderWayOK, FullUnwrapped
  <2>3. EntriesOK'
    BY <1>1, <2>1 DEF UpOK, EntriesOK, Holds, FirstSlot, SlotOf
  <2> QED BY <2>2, <2>3 DEF UpOK
<1>2. ASSUME NEW k \in {"kernel", "library"}, MarkEager(c, k) PROVE UpOK'
  BY <1>1, <1>2 DEF MarkEager, Styles, header
<1>3. CASE MarkLazy(c)
  BY <1>1, <1>3 DEF MarkLazy, Styles, header
<1>5. CASE MarkAdopts(c)
  <2>1. /\ P = "adopt" /\ P' = "read" /\ Top' = Top /\ K' = K
        /\ UNCHANGED <<seq, writeIndex, wrapped, entries, style, index, mySeq, done>>
    BY <1>0, <1>5 DEF MarkAdopts, Goto, P, K, Top
  <2>2. CountOK' /\ HeadOK' /\ WrapOK' /\ UnderWayOK'
    BY <2>1 DEF UpOK, CountOK, HeadOK, WrapOK, UnderWayOK, FullUnwrapped
  <2>3. EntriesOK'
    BY <2>1 DEF UpOK, EntriesOK, Holds, FirstSlot, SlotOf
  <2> QED BY <2>2, <2>3 DEF UpOK
<1>6. CASE Read(c)
  <2>1. /\ P = "read" /\ P' = AfterRead(K) /\ P' \in {"tear", "stamp"}
        /\ I' = FirstSlot /\ M' = done + 1 /\ K' = K
        /\ wrapped' = WrappedAtRead(K) /\ FirstSlot' = FirstSlot
        /\ UNCHANGED <<seq, writeIndex, entries, done>>
    BY <1>0, <1>6 DEF Read, Goto, P, K, I, M, AfterRead, UpOK, CountOK, FirstSlot
  <2>2. Top' = Top /\ Top = done
    BY <2>1 DEF Top
  <2>3. CountOK' /\ HeadOK'
    BY <2>1 DEF UpOK, CountOK, HeadOK
  <2>4. WrapOK'
    BY <1>0, <2>1, <2>2 DEF UpOK, WrapOK, WrappedAtRead, FullUnwrapped
  <2>5. Holds(FirstSlot, Top, N)
    BY <2>1 DEF UpOK, EntriesOK
  <2>6. EntriesOK'
    <3>1. Holds(FirstSlot, Top, N - 1)
      BY DEF UpOK, EntriesOK
    <3> QED BY <2>1, <2>2, <3>1 DEF EntriesOK, Holds, SlotOf
  <2>7. UnderWayOK'
    <3>1. done >= N => entries[FirstSlot].seq = (done + 1) - N
      <4>1. SlotOf(FirstSlot, N - 1) = FirstSlot /\ N - 1 \in 0..N - 1
        BY <1>0, SlotOfAge
      <4>2. done >= N => N - 1 < Top /\ Top - (N - 1) = (done + 1) - N
        BY <1>0, <2>2
      <4>3. done >= N => entries[FirstSlot] = Whole((done + 1) - N)
        BY <2>5, <4>1, <4>2 DEF Holds
      <4> QED BY <4>3 DEF Whole
    <3> QED BY <2>1, <3>1 DEF UnderWayOK, AfterRead
  <2> QED BY <2>3, <2>4, <2>6, <2>7 DEF UpOK
<1>7. ASSUME NEW e \in [Slots -> [seq : Nat, body : Nat]], entries' = e,
             \A i \in Slots : i # FirstSlot => e[i] = entries[i],
             P \in Filling, P' \in Filling, I' = I, M' = M, K' = K,
             UNCHANGED <<seq, writeIndex, wrapped, done>>
      PROVE  CountOK' /\ HeadOK' /\ WrapOK' /\ EntriesOK'
  <2>1. Top' = Top /\ Top = done /\ FirstSlot' = FirstSlot
    BY <1>7 DEF Top, FirstSlot
  <2>2. CountOK' /\ HeadOK' /\ WrapOK'
    BY <1>7, <2>1 DEF UpOK, CountOK, HeadOK, WrapOK
  <2>3. ASSUME NEW a \in 0..(N - 1) - 1, a < Top
        PROVE  entries'[SlotOf(FirstSlot, a)] = Whole(Top - a)
    <3>1. a \in 0..N - 1 /\ a < N - 1
      BY <1>0
    <3>2. SlotOf(FirstSlot, a) \in Slots /\ SlotOf(FirstSlot, a) # FirstSlot
      BY <1>0, <3>1, SlotOfAge
    <3>3. entries[SlotOf(FirstSlot, a)] = Whole(Top - a)
      BY <2>3 DEF UpOK, EntriesOK, Holds
    <3> QED BY <1>7, <3>2, <3>3
  <2>4. EntriesOK'
    BY <1>7, <2>1, <2>3 DEF EntriesOK, Holds, SlotOf
  <2> QED BY <2>2, <2>4
<1>8. ASSUME P \in Filling
      PROVE  I = FirstSlot /\ I \in Slots /\ M = done + 1 /\ M \in Nat /\ FirstSlot \in Slots
  BY <1>0, <1>8 DEF UpOK, HeadOK, CountOK
<1>9. CASE Stamp(c)
  <2>1. /\ P = "stamp" /\ P' = AfterStamp(K) /\ I' = I /\ M' = M /\ K' = K
        /\ entries' = [entries EXCEPT ![I].seq = M]
        /\ UNCHANGED <<seq, writeIndex, wrapped, done>>
    BY <1>0, <1>9 DEF Stamp, AfterStamp, Goto, P, K, I, M, header
  <2>2. I = FirstSlot /\ I \in Slots /\ M = done + 1 /\ M \in Nat
    BY <1>8, <2>1
  <2>3. /\ entries' \in [Slots -> [seq : Nat, body : Nat]]
        /\ \A i \in Slots : i # FirstSlot => entries'[i] = entries[i]
        /\ entries'[FirstSlot].seq = M
        /\ entries'[FirstSlot].body = entries[FirstSlot].body
    BY <2>1, <2>2 DEF TypeOK
  <2>4. P' \in Filling
    BY <2>1 DEF AfterStamp
  <2>5. CountOK' /\ HeadOK' /\ WrapOK' /\ EntriesOK'
    BY <1>7, <2>1, <2>3, <2>4
  <2>6. FirstSlot' = FirstSlot
    BY <2>1 DEF FirstSlot
  <2>7. K = "library" => entries'[FirstSlot] = Whole(M)
    <3>1. K = "library" => entries'[FirstSlot].body = M
      BY <2>1, <2>3 DEF UpOK, UnderWayOK
    <3>2. entries'[FirstSlot] \in [seq : Nat, body : Nat]
      BY <2>2, <2>3
    <3> QED BY <2>3, <3>1, <3>2 DEF Whole
  <2>8. UnderWayOK'
    BY <2>1, <2>2, <2>3, <2>6, <2>7 DEF UnderWayOK, AfterStamp
  <2> QED BY <2>5, <2>8 DEF UpOK
<1>10. CASE Tear(c)
  <2>1. /\ P = "tear" /\ P' = "fill" /\ I' = I /\ M' = M /\ K' = K
        /\ entries' = [entries EXCEPT ![I].body = 0]
        /\ UNCHANGED <<seq, writeIndex, wrapped, done>>
    BY <1>0, <1>10 DEF Tear, Goto, P, K, I, M, header
  <2>2. I = FirstSlot /\ I \in Slots /\ M = done + 1 /\ M \in Nat
    BY <1>8, <2>1
  <2>3. /\ entries' \in [Slots -> [seq : Nat, body : Nat]]
        /\ \A i \in Slots : i # FirstSlot => entries'[i] = entries[i]
        /\ entries'[FirstSlot].seq = entries[FirstSlot].seq
    BY <2>1, <2>2 DEF TypeOK
  <2>4. CountOK' /\ HeadOK' /\ WrapOK' /\ EntriesOK'
    BY <1>7, <2>1, <2>3
  <2>5. FirstSlot' = FirstSlot
    BY <2>1 DEF FirstSlot
  <2>6. UnderWayOK'
    BY <2>1, <2>3, <2>5 DEF UpOK, UnderWayOK
  <2> QED BY <2>4, <2>6 DEF UpOK
<1>11. CASE Fill(c)
  <2>1. /\ P = "fill" /\ P' = AfterFill(K) /\ I' = I /\ M' = M /\ K' = K
        /\ entries' = [entries EXCEPT ![I].body = M]
        /\ UNCHANGED <<seq, writeIndex, wrapped, done>>
    BY <1>0, <1>11 DEF Fill, AfterFill, Goto, P, K, I, M, header
  <2>2. I = FirstSlot /\ I \in Slots /\ M = done + 1 /\ M \in Nat
    BY <1>8, <2>1
  <2>3. /\ entries' \in [Slots -> [seq : Nat, body : Nat]]
        /\ \A i \in Slots : i # FirstSlot => entries'[i] = entries[i]
        /\ entries'[FirstSlot].body = M
        /\ entries'[FirstSlot].seq = entries[FirstSlot].seq
    BY <2>1, <2>2 DEF TypeOK
  <2>4. P' \in Filling
    BY <2>1 DEF AfterFill
  <2>5. CountOK' /\ HeadOK' /\ WrapOK' /\ EntriesOK'
    BY <1>7, <2>1, <2>3, <2>4
  <2>6. FirstSlot' = FirstSlot
    BY <2>1 DEF FirstSlot
  <2>7. K # "library" => entries'[FirstSlot] = Whole(M)
    <3>1. K # "library" => entries'[FirstSlot].seq = M
      BY <2>1, <2>3 DEF UpOK, UnderWayOK
    <3>2. entries'[FirstSlot] \in [seq : Nat, body : Nat]
      BY <2>2, <2>3
    <3> QED BY <2>3, <3>1, <3>2 DEF Whole
  <2>8. UnderWayOK'
    BY <2>1, <2>2, <2>3, <2>6, <2>7 DEF UpOK, UnderWayOK, AfterFill
  <2> QED BY <2>5, <2>8 DEF UpOK
<1>12. CASE Wrap(c)
  <2>1. /\ P = "wrap" /\ P' = "publish" /\ I' = NextIndex(K, I) /\ M' = M /\ K' = K
        /\ wrapped' = WrappedAfter(K, I)
        /\ UNCHANGED <<seq, writeIndex, entries, done>>
    BY <1>0, <1>12 DEF Wrap, Goto, P, K, I, M
  <2>2. I = FirstSlot /\ M = done + 1
    BY <1>8, <2>1
  <2>3. Top' = Top /\ Top = done /\ FirstSlot' = FirstSlot
    BY <2>1 DEF Top, FirstSlot
  <2>4. CountOK' /\ HeadOK'
    BY <2>1, <2>2, <2>3 DEF UpOK, CountOK, HeadOK, NextIndex
  <2>5. WrapOK'
    BY <1>0, <2>1, <2>2, <2>3
    DEF UpOK, WrapOK, WrappedAfter, NextIndex, FirstSlot
  <2>6. EntriesOK'
    BY <2>1, <2>3 DEF UpOK, EntriesOK, Holds, SlotOf
  <2>7. UnderWayOK'
    BY <2>1, <2>3 DEF UpOK, UnderWayOK
  <2> QED BY <2>4, <2>5, <2>6, <2>7 DEF UpOK
<1>13. CASE Publish(c)
  <2>1. /\ P = "publish" /\ P' = "seal" /\ writeIndex' = I /\ M' = M
        /\ UNCHANGED <<seq, wrapped, entries, done>>
    BY <1>0, <1>13 DEF Publish, Goto, P, I, M
  <2>2. Top = done /\ Top' = done + 1 /\ M = done + 1
    BY <2>1 DEF Top, UpOK, CountOK
  <2>3. I = NextIndex(K, FirstSlot)
    BY <2>1 DEF UpOK, HeadOK
  <2>4. CountOK' /\ HeadOK' /\ UnderWayOK'
    BY <2>1, <2>2 DEF UpOK, CountOK, HeadOK, UnderWayOK
  <2>5. WrapOK'
    BY <1>0, <2>1, <2>2, <2>3 DEF UpOK, WrapOK, NextIndex, FirstSlot
  <2>6. EntriesOK'
    <3> DEFINE h == FirstSlot
               g == FirstSlot'
    <3>1. /\ h \in 0..N - 1 /\ g \in 0..N - 1
          /\ h + 1 < N => g = h + 1
          /\ h + 1 = N => g = 0
      BY <1>0, <2>1, <2>3 DEF NextIndex, FirstSlot
    <3>2. entries[h] = Whole(done + 1)
      BY <2>1, <2>2 DEF UpOK, UnderWayOK
    <3>3. \A a \in 0..(N - 1) - 1 : a < done => entries[SlotOf(h, a)] = Whole(done - a)
      BY <2>2 DEF UpOK, EntriesOK, Holds
    <3> HIDE DEF h, g
    <3>4. SlotOf(g, 0) = h /\ \A a \in 1..N - 1 : SlotOf(g, a) = SlotOf(h, a - 1)
      BY <1>0, <3>1, SlotOfNext
    <3>5. ASSUME NEW a \in 0..N - 1, a < done + 1
          PROVE  entries[SlotOf(g, a)] = Whole((done + 1) - a)
      <4>1. CASE a = 0
        <5>1. (done + 1) - a = done + 1
          BY <1>0, <4>1
        <5> QED BY <3>2, <3>4, <4>1, <5>1
      <4>2. CASE a # 0
        <5>1. a \in 1..N - 1 /\ a - 1 \in 0..(N - 1) - 1 /\ a - 1 < done
              /\ done - (a - 1) = (done + 1) - a
          BY <1>0, <3>5, <4>2
        <5> QED BY <3>3, <3>4, <5>1
      <4> QED BY <4>1, <4>2
    <3>6. \A n \in {N, N - 1} : \A a \in 0..n - 1 : a \in 0..N - 1
      BY <1>0
    <3> QED BY <2>1, <2>2, <3>5, <3>6 DEF EntriesOK, Holds, SlotOf, g
  <2> QED BY <2>4, <2>5, <2>6 DEF UpOK
<1>14. CASE Seal(c)
  <2>1. /\ P = "seal" /\ P' = "idle" /\ seq' = M /\ done' = done + 1
        /\ UNCHANGED <<writeIndex, wrapped, entries>>
    BY <1>0, <1>14 DEF Seal, Goto, P, M
  <2>2. Top' = Top /\ M = done + 1 /\ FirstSlot' = FirstSlot
    BY <2>1 DEF Top, UpOK, CountOK, FirstSlot
  <2>3. CountOK' /\ HeadOK' /\ UnderWayOK' /\ WrapOK'
    BY <2>1, <2>2 DEF UpOK, CountOK, HeadOK, UnderWayOK, WrapOK
  <2>4. EntriesOK'
    BY <2>1, <2>2 DEF UpOK, EntriesOK, Holds, SlotOf
  <2> QED BY <2>3, <2>4 DEF UpOK
<1> QED
  BY <1>2, <1>3, <1>5, <1>6, <1>9, <1>10, <1>11, <1>12, <1>13, <1>14
  DEF Mark

(* The steps of a mark, one by one, in a running system: as long as the    *)
(* marks stay apart, the ring stays as it should be.                       *)
LEMMA MarkKeepsUp ==
    ASSUME RingAssumption, TypeOK, NEW c \in Contexts, Mark(c), ~spoilt',
           ~spoilt => OneMark /\ UpOK
    PROVE  OneMark' /\ UpOK'
<1>0. /\ N \in Nat \ {0} /\ FirstSlot \in 0..N - 1 /\ Slots = 0..N - 1
      /\ done \in Nat /\ writeIndex \in 0..N
      /\ wrapped \in {0, 1}
      /\ pc \in [Contexts -> Steps] /\ style \in [Contexts -> Styles]
      /\ index \in [Contexts -> 0..N] /\ mySeq \in [Contexts -> Nat]
  BY FirstSlotInRing DEF TypeOK
<1> USE DEF Filling, Writing
<1>A. CASE MarkWipes(c)
  <2>1. \A d \in Contexts : pc'[d] # "idle" => d = c
    BY <1>A, <1>0 DEF MarkWipes, Overlaps, Goto
  <2>2. OneMark' /\ P' = pc'[c]
    BY <2>1, OnlyWriter DEF OneMark, P, Writer
  <2>3. /\ seq' = 0 /\ writeIndex' = 0 /\ wrapped' = 0 /\ done' = 0
        /\ P' = "adopt"
    BY <1>0, <1>A, <2>2 DEF MarkWipes, Goto
  <2>4. Top' = 0
    BY <2>3 DEF Top
  <2>5. CountOK' /\ HeadOK' /\ WrapOK' /\ UnderWayOK'
    BY <1>0, <2>3, <2>4 DEF CountOK, HeadOK, WrapOK, UnderWayOK, FullUnwrapped
  <2>6. EntriesOK'
    BY <1>0, <2>4 DEF EntriesOK, Holds
  <2> QED BY <2>2, <2>5, <2>6 DEF UpOK
<1>B. CASE ~MarkWipes(c)
  <2>1. ~spoilt
    BY <1>B DEF Mark, MarkEager, MarkLazy, MarkAdopts, Read, Stamp, Tear, Fill,
       Wrap, Publish, Seal
  <2>2. OneMark /\ UpOK
    BY <2>1
  <2>3. \A d \in Contexts : pc[d] # "idle" => d = c
    <3>1. CASE pc[c] # "idle"
      BY <2>2, <3>1 DEF OneMark
    <3>2. CASE pc[c] = "idle"
      BY <1>B, <3>2 DEF Mark, MarkEager, MarkLazy, MarkAdopts, Read, Stamp, Tear,
         Fill, Wrap, Publish, Seal, Overlaps
    <3> QED BY <3>1, <3>2
  <2>4. \A d \in Contexts \ {c} : pc'[d] = pc[d]
    BY <1>0, <1>B DEF Mark, MarkEager, MarkLazy, MarkAdopts, Read, Stamp, Tear,
       Fill, Wrap, Publish, Seal, Goto
  <2>5. \A d \in Contexts : pc'[d] # "idle" => d = c
    BY <2>3, <2>4
  <2> QED BY <2>2, <2>3, <2>5, ApartMarkKeepsUp, <1>B DEF OneMark
<1> QED BY <1>A, <1>B

(* What progress_reset and the wiping mark leave.                          *)
Emptied ==
    /\ \A c \in Contexts : pc[c] = "idle"
    /\ seq = 0 /\ writeIndex = 0 /\ wrapped = 0 /\ done = 0

(* An emptied ring is as a running system wants it.                        *)
LEMMA EmptyRingIsUp == ASSUME RingAssumption, Emptied PROVE UpOK
<1> USE DEF Emptied
<1>1. N \in Nat \ {0} /\ P = "idle" /\ Top = 0
  BY OnlyWriter DEF RingAssumption, P, Writer, Top
<1>2. CountOK /\ HeadOK /\ WrapOK /\ UnderWayOK
  BY <1>1 DEF CountOK, HeadOK, WrapOK, UnderWayOK, Filling, Writing, FullUnwrapped
<1>3. EntriesOK
  BY <1>1 DEF EntriesOK, Holds
<1> QED BY <1>2, <1>3 DEF UpOK

(* Marks, resets and damage keep the invariant.                            *)
LEMMA RingInductive ==
    ASSUME RingAssumption, RingInv, [Next]_vars PROVE RingInv'
<1>0. TypeOK /\ TypeOK' /\ Contexts # {} /\ N \in Nat \ {0}
      /\ boot \in {"up", "header", "entries"} /\ pc \in [Contexts -> Steps]
  BY TypeKept DEF RingInv, RingAssumption, TypeOK
<1>1. ASSUME NEW c \in Contexts, Mark(c) PROVE RingInv'
  <2>1. boot = "up" /\ boot' = "up"
    BY <1>0, <1>1 DEF RingInv, BootOK, Mark, MarkEager, MarkLazy, MarkWipes,
       MarkAdopts, Read, Stamp, Tear, Fill, Wrap, Publish, Seal
  <2>2. ASSUME ~spoilt' PROVE CleanOK'
    <3>1. OneMark' /\ UpOK'
      BY <1>0, <1>1, <2>1, <2>2, MarkKeepsUp DEF RingInv, CleanOK
    <3>2. CrashKeepsRecentMarks'
      BY <1>0, <3>1, UpSurvivesReset, PTL
    <3> QED BY <3>1, <3>2 DEF CleanOK
  <2> QED BY <1>0, <2>1, <2>2 DEF RingInv, BootOK
<1>2. CASE PowerCycle
  <2>1. /\ boot' = "header" /\ \A c \in Contexts : pc'[c] = "idle"
        /\ UNCHANGED <<header, entries, done, spoilt>>
    BY <1>2 DEF PowerCycle, Everywhere
  <2>2. OneMark'
    BY <1>0, <2>1 DEF OneMark
  <2>3. ~spoilt => CrashKeepsRecentMarks'
    BY <2>1 DEF RingInv, CleanOK, header, CrashKeepsRecentMarks, HeaderUsable,
       Recent, Lines, Line, Count, Start, InUse, Oldest, DumpEntries
  <2> QED BY <1>0, <2>1, <2>2, <2>3 DEF RingInv, BootOK, CleanOK
<1>3. CASE ResetHeader
  <2>1. /\ boot = "header" /\ boot' = "entries" /\ pc' = pc /\ done' = 0
        /\ seq' = 0 /\ writeIndex' = 0 /\ wrapped' = 0 /\ ~spoilt'
    BY <1>3 DEF ResetHeader, locals
  <2>2. \A c \in Contexts : pc'[c] = "idle"
    BY <2>1 DEF RingInv, BootOK
  <2>3. OneMark' /\ CrashKeepsRecentMarks'
    BY <1>0, <2>1, <2>2 DEF OneMark, CrashKeepsRecentMarks
  <2> QED BY <1>0, <2>1, <2>2, <2>3 DEF RingInv, BootOK, CleanOK
<1>4. CASE ResetEntries
  <2>1. /\ boot = "entries" /\ boot' = "up" /\ pc' = pc /\ done' = 0
        /\ seq' = 0 /\ writeIndex' = 0 /\ wrapped' = 0
        /\ \A c \in Contexts : pc'[c] = "idle"
    BY <1>4 DEF ResetEntries, locals, header, RingInv, BootOK
  <2>2. UpOK'
    <3>1. Emptied'
      BY <2>1 DEF Emptied
    <3> QED BY <3>1, EmptyRingIsUp, PTL
  <2>3. OneMark' /\ CrashKeepsRecentMarks'
    BY <1>0, <2>1 DEF OneMark, CrashKeepsRecentMarks
  <2> QED BY <1>0, <2>1, <2>2, <2>3 DEF RingInv, BootOK, CleanOK
<1>5. ASSUME \/ UNCHANGED magic
             \/ magic = "ok" /\ magic' \in {"zero", "junk"},
             UNCHANGED <<seq, writeIndex, wrapped, entries, boot, pc, style,
                         index, mySeq, done, spoilt>>
      PROVE  RingInv'
  <2>1. BootOK' /\ (~spoilt => OneMark') /\ (~spoilt /\ boot' = "up" => UpOK')
    BY <1>5 DEF RingInv, CleanOK, OneMark, BootOK, UpOK, CountOK, HeadOK, WrapOK,
       EntriesOK, UnderWayOK, P, K, I, M, Writer, Top, Holds, SlotOf, FirstSlot,
       FullUnwrapped
  <2>2. ~spoilt => CrashKeepsRecentMarks'
    BY <1>5 DEF RingInv, CleanOK, CrashKeepsRecentMarks, HeaderUsable, Recent,
       Lines, Line, Count, Start, InUse, Oldest, DumpEntries
  <2> QED BY <1>0, <1>5, <2>1, <2>2 DEF RingInv, CleanOK
<1>6. CASE Damage
  BY <1>5, <1>6 DEF Damage, locals
<1>7. CASE UNCHANGED vars
  BY <1>5, <1>7 DEF vars, header, locals
<1> QED BY <1>1, <1>2, <1>3, <1>4, <1>6, <1>7 DEF Next

(* What the invariant says of a reset now and of a dump at rest.           *)
LEMMA RingInvGives ==
    ASSUME RingAssumption, RingInv PROVE RingSurvivesReset
<1>1. TypeOK /\ (~spoilt => CrashKeepsRecentMarks)
  BY DEF RingInv, CleanOK
<1>2. ASSUME ~spoilt PROVE RestingDumpIsExact
  <2> SUFFICES ASSUME boot = "up", \A c \in Contexts : pc[c] = "idle"
               PROVE  RestingDumpIsExact
    BY DEF RestingDumpIsExact
  <2>1. UpOK /\ P = "idle"
    BY <1>2, OnlyWriter DEF RingInv, CleanOK, OneMark, P, Writer
  <2> QED BY <1>1, <2>1, UpDumpIsExact DEF RestingDumpIsExact
<1> QED BY <1>1, <1>2 DEF RingSurvivesReset

(* The ring starts empty, as after a cold boot.                            *)
LEMMA RingStarts ==
    ASSUME RingAssumption, Init PROVE RingInv
<1>1. Contexts # {} /\ N \in Nat \ {0}
  BY DEF RingAssumption
<1>2. TypeOK
  <2>1. entries \in [Slots -> [seq : Nat, body : Nat]]
    BY DEF Init, Empty
  <2>2. StoresInRing
    BY DEF Init, Everywhere, StoresInRing, Filling
  <2>3. spoilt \in BOOLEAN
    BY Zenon DEF Init
  <2> QED BY <1>1, <2>1, <2>2, <2>3 DEF Init, Everywhere, TypeOK, Steps, Styles
<1>3. boot = "up" /\ done = 0 /\ \A c \in Contexts : pc[c] = "idle"
  BY DEF Init, Everywhere
<1>4. UpOK
  BY <1>3, EmptyRingIsUp DEF Init, Emptied
<1> QED BY <1>1, <1>2, <1>3, <1>4
        DEF RingInv, BootOK, CleanOK, OneMark, CrashKeepsRecentMarks

(* Every copy of progress_mark, for a ring of any size and any number of   *)
(* writers: header and entries stay in range and no mark is stored outside *)
(* the ring, whatever overlaps; and as long as the marks since it was      *)
(* emptied stayed apart, and no eager one met an index at rest on N, a     *)
(* reset at any store loses at most the mark under way and a dump between  *)
(* marks shows exactly the newest ones.                                    *)
THEOREM RingCarriesMarks == RingAssumption /\ Spec => []RingSurvivesReset
<1>1. ASSUME RingAssumption, Init PROVE RingInv
  BY <1>1, RingStarts
<1>2. ASSUME RingAssumption, RingInv PROVE RingSurvivesReset
  BY <1>2, RingInvGives
<1>3. CASE RingAssumption
  <2>1. Init => RingInv
    BY <1>1, <1>3
  <2>2. RingInv /\ [Next]_vars => RingInv'
    BY <1>3, RingInductive
  <2>3. RingInv => RingSurvivesReset
    BY <1>2, <1>3
  <2> QED BY <2>1, <2>2, <2>3, PTL DEF Spec
<1>4. CASE ~RingAssumption
  BY <1>4
<1> QED BY <1>3, <1>4
=============================================================================
