--------------------------- MODULE FatProbeProofs ---------------------------
(***************************************************************************)
(* Proofs about FatProbe, for every volume: any set of cluster numbers,    *)
(* any root directory chain, any number of runs.                           *)
(***************************************************************************)
EXTENDS FatProbe, NaturalsInduction, WellFoundedInduction, TLAPS

(* What the sectors hold.                                                  *)
SectorsOK ==
    /\ root = [i \in Slots |-> root[i]]
    /\ \A i \in Slots : \/ root[i] = Free
                        \/ root[i] = Other
                        \/ \E c \in Clusters : root[i] = Entry(c)
    /\ data \in [Clusters -> {"old", "test"}]
    /\ Own \subseteq fat1
    /\ blind \in BOOLEAN

(* A test under way writes to a cluster that nothing in the directory uses *)
(* and to an entry that is not the other file's.                           *)
TargetOK ==
    /\ step \in 0..4
    /\ step # 0 => /\ cluster \in Clusters \ Own
                   /\ slot \in Slots /\ root[slot].name # "other"
                   /\ \A i \in Slots : root[i].cluster # cluster

(* The entry comes last: data and both tables are in place before it.      *)
ProgressOK ==
    /\ step > 1 => data[cluster] = "test"
    /\ step > 2 => cluster \in fat1
    /\ step > 3 => cluster \in fat2

(* A search that read every link has found the test's own entry, if any.   *)
SearchOK ==
    step # 0 /\ ~blind =>
        \A i \in Slots : root[i].name = "test" => i = slot \/ root[slot].name = "test"

FatInv ==
    /\ SectorsOK /\ TargetOK /\ ProgressOK /\ SearchOK
    /\ VolumeStaysConsistent /\ NameIsUnique

(* The searches take the least number that qualifies, and there is one.    *)
LEMMA LeastIsMember ==
    ASSUME NEW S \in SUBSET Nat, S # {}
    PROVE  (CHOOSE i \in S : \A j \in S : i <= j) \in S
<1> DEFINE R == {ss \in Nat \X Nat : ss[1] < ss[2]}
<1>1. IsWellFoundedOn(R, Nat)
  BY NatLessThanWellFounded DEF OpToRel
<1> HIDE DEF R
<1>2. PICK m \in S : \A j \in S : ~(<<j, m>> \in R)
  BY <1>1, WFMin
<1>3. ASSUME NEW j \in S PROVE m <= j
  <2>1. <<j, m>> \in Nat \X Nat /\ <<j, m>>[1] = j /\ <<j, m>>[2] = m
    OBVIOUS
  <2>2. ~(<<j, m>>[1] < <<j, m>>[2])
    BY <1>2, <2>1, Zenon DEF R
  <2> QED BY <2>1, <2>2
<1> QED BY <1>3

(* A name tells the kinds of entries apart.                                *)
LEMMA EntryNames ==
    /\ Free.name = "" /\ Other.name = "other" /\ Other.cluster = Used
    /\ Free.cluster = 0
    /\ \A c : Entry(c).name = "test" /\ Entry(c).cluster = c
BY DEF Free, Other, Entry

(* find_root_dir_slot_chain_ioctl finds an entry that is free or its own,  *)
(* and its own one if that is in the part of the chain it could read.      *)
LEMMA SearchFinds ==
    ASSUME NEW n \in Nat, SlotIn(n) # 0,
           \A i \in 1..n : root[i].name = "test" => root[i] # Free
    PROVE  /\ SlotIn(n) \in 1..n
           /\ root[SlotIn(n)] = Free \/ root[SlotIn(n)].name = "test"
           /\ \A i \in 1..n : root[i].name = "test" => root[SlotIn(n)].name = "test"
<1> DEFINE own == {i \in 1..n : root[i].name = "test"}
           free == {i \in 1..n : root[i] = Free}
           least(S) == CHOOSE i \in S : \A j \in S : i <= j
<1>1. SlotIn(n) = IF own # {} THEN least(own)
                  ELSE IF free # {} THEN least(free) ELSE 0
  BY DEF SlotIn
<1>2. own \in SUBSET Nat /\ free \in SUBSET Nat
  OBVIOUS
<1>3. own # {} => least(own) \in own
  BY <1>2, LeastIsMember
<1>4. free # {} => least(free) \in free
  BY <1>2, LeastIsMember
<1> HIDE DEF least
<1>5. CASE own # {}
  BY <1>1, <1>3, <1>5
<1>6. CASE own = {}
  BY <1>1, <1>4, <1>6
<1> QED BY <1>5, <1>6

(* The searches of the test, and each sector it writes, keep the invariant. *)
LEMMA FatInductive ==
    ASSUME VolumeAssumption, FatInv, [Next]_vars PROVE FatInv'
<1> USE VolumeAssumption DEF VolumeAssumption
<1>0. Len(RootChain) \in Nat /\ Slots = 1..Len(RootChain)
      /\ (\A i \in Slots : RootChain[i] \in Clusters) /\ 0 \notin Clusters
  BY DEF Slots
<1>1. CASE Begin
  <2>1. PICK n \in Slots :
           /\ blind' = (blind \/ n < Len(RootChain))
           /\ IF FreeClusters # {} /\ SlotIn(n) # 0
              THEN /\ cluster' = CHOOSE c \in FreeClusters :
                                     \A d \in FreeClusters : c <= d
                   /\ slot' = SlotIn(n)
                   /\ step' = 1
              ELSE UNCHANGED <<cluster, slot, step>>
    BY <1>1 DEF Begin
  <2>2. step = 0 /\ UNCHANGED <<fat1, fat2, root, data>>
    BY <1>1 DEF Begin
  <2>3. SectorsOK' /\ VolumeStaysConsistent'
    <3>1. blind' \in BOOLEAN
      BY <2>1, Zenon
    <3> QED BY <2>2, <3>1 DEF FatInv, SectorsOK, VolumeStaysConsistent, Files
  <2>4. NameIsUnique'
    <3>1. ~blind' => ~blind
      BY <2>1, Zenon
    <3> QED BY <2>2, <3>1 DEF FatInv, NameIsUnique, Files
  <2>5. CASE FreeClusters # {} /\ SlotIn(n) # 0
    <3>1. FreeClusters \in SUBSET Nat
      BY DEF FreeClusters
    <3>2. cluster' \in FreeClusters
      BY <2>1, <2>5, <3>1, LeastIsMember
    <3>3. cluster' \in Clusters \ Own /\ cluster' \notin fat1
      BY <3>2 DEF FreeClusters, FatInv, SectorsOK
    <3>4. ASSUME NEW i \in Slots PROVE root[i].cluster # cluster'
      <4>1. CASE root[i] = Free
        BY <4>1, <3>3, <1>0, EntryNames
      <4>2. CASE root[i] # Free
        BY <4>2, <3>3 DEF FatInv, VolumeStaysConsistent, Files
      <4> QED BY <4>1, <4>2
    <3>5. n \in Nat /\ 1..n \subseteq Slots
          /\ \A i \in 1..n : root[i].name = "test" => root[i] # Free
      <4>1. n \in Nat /\ 1..n \subseteq Slots
        BY <1>0
      <4>2. \A i \in 1..n : root[i].name = "test" => root[i] # Free
        BY EntryNames, Zenon
      <4> QED BY <4>1, <4>2
    <3>6. /\ slot' \in 1..n /\ step' = 1
          /\ root[slot'] = Free \/ root[slot'].name = "test"
          /\ \A i \in 1..n : root[i].name = "test" => root[slot'].name = "test"
      BY <2>1, <2>5, <3>5, SearchFinds
    <3>7. TargetOK'
      <4>1. slot' \in Slots /\ root[slot'].name # "other"
        BY <3>5, <3>6, EntryNames
      <4> QED BY <2>2, <3>3, <3>4, <3>6, <4>1 DEF TargetOK, Own, Slots
    <3>8. ProgressOK'
      BY <3>6 DEF ProgressOK
    <3>9. SearchOK'
      <4>1. ~blind' => ~(n < Len(RootChain))
        BY <2>1, Zenon
      <4>2. ~blind' => 1..n = Slots
        BY <4>1, <1>0
      <4>3. SUFFICES ASSUME ~blind', NEW i \in Slots, root'[i].name = "test"
                     PROVE  root'[slot'].name = "test"
        BY DEF SearchOK, Slots
      <4>4. root' = root
        BY <2>2
      <4> QED BY <3>6, <4>2, <4>3, <4>4
    <3> QED BY <2>3, <2>4, <3>7, <3>8, <3>9 DEF FatInv
  <2>6. CASE ~(FreeClusters # {} /\ SlotIn(n) # 0)
    BY <2>1, <2>2, <2>3, <2>4, <2>6
    DEF FatInv, TargetOK, ProgressOK, SearchOK
  <2> QED BY <2>5, <2>6
<1>2. CASE Write
  <2> USE DEF Order
  <2>1. PICK readBack \in BOOLEAN :
           step' = IF readBack /\ step < Len(Order) THEN step + 1 ELSE 0
    BY <1>2, Zenon DEF Write
  <2>2. step \in 1..4 /\ step' \in {0, step + 1} /\ step' \in 0..4
        /\ UNCHANGED <<cluster, slot, runs, blind>>
    BY <1>2, <2>1 DEF Write, FatInv, TargetOK
  <2>3. CASE step = 1
    <3>1. data' = [data EXCEPT ![cluster] = "test"] /\ UNCHANGED <<fat1, fat2, root>>
      BY <1>2, <2>3 DEF Write
    <3>2. data'[cluster] = "test" /\ cluster \in Clusters \ Own
      BY <3>1, <2>3 DEF FatInv, TargetOK, SectorsOK
    <3>3. \A c \in Clusters : c # cluster => data'[c] = data[c]
      BY <3>1 DEF FatInv, SectorsOK
    <3>4. SectorsOK' /\ TargetOK' /\ ProgressOK' /\ SearchOK' /\ NameIsUnique'
      BY <2>2, <2>3, <3>1, <3>2
      DEF FatInv, SectorsOK, TargetOK, ProgressOK, SearchOK, NameIsUnique, Files
    <3>5. VolumeStaysConsistent'
      <4>1. data'[Used] = "old" /\ \A i \in Slots : data'[RootChain[i]] = "old"
        BY <1>0, <3>2, <3>3 DEF FatInv, VolumeStaysConsistent, Own
      <4>2. ASSUME NEW i \in Slots, root[i].name = "test"
            PROVE  data'[root[i].cluster] = "test"
        <5>1. PICK c \in Clusters : root[i] = Entry(c)
          BY <4>2, EntryNames DEF FatInv, SectorsOK
        <5>2. i \in Files
          BY <4>2, EntryNames DEF Files
        <5>3. data[c] = "test" /\ root[i].cluster = c
          BY <4>2, <5>1, <5>2, EntryNames DEF FatInv, VolumeStaysConsistent
        <5> QED BY <5>3, <3>2, <3>3
      <4> QED BY <3>1, <4>1, <4>2 DEF FatInv, VolumeStaysConsistent, Files
    <3> QED BY <3>4, <3>5 DEF FatInv
  <2>4. CASE step = 2
    <3>1. fat1' = fat1 \cup {cluster} /\ UNCHANGED <<data, fat2, root>>
      BY <1>2, <2>4 DEF Write
    <3> QED
      BY <2>2, <2>4, <3>1
      DEF FatInv, SectorsOK, TargetOK, ProgressOK, SearchOK, NameIsUnique, Files,
          VolumeStaysConsistent
  <2>5. CASE step = 3
    <3>1. fat2' = fat2 \cup {cluster} /\ UNCHANGED <<data, fat1, root>>
      BY <1>2, <2>5 DEF Write
    <3> QED
      BY <2>2, <2>5, <3>1
      DEF FatInv, SectorsOK, TargetOK, ProgressOK, SearchOK, NameIsUnique, Files,
          VolumeStaysConsistent
  <2>6. CASE step = 4
    <3>1. root' = [root EXCEPT ![slot] = Entry(cluster)]
          /\ UNCHANGED <<data, fat1, fat2>> /\ step' = 0
      BY <1>2, <2>1, <2>6 DEF Write
    <3>2. /\ cluster \in Clusters \ Own /\ slot \in Slots
          /\ root[slot].name # "other"
          /\ \A i \in Slots : root[i].cluster # cluster
          /\ data[cluster] = "test" /\ cluster \in fat1 /\ cluster \in fat2
      BY <2>6 DEF FatInv, TargetOK, ProgressOK
    <3>3. /\ root'[slot] = Entry(cluster)
          /\ \A i \in Slots : i # slot => root'[i] = root[i]
          /\ root' = [i \in Slots |-> root'[i]]
      BY <3>1, <3>2 DEF FatInv, SectorsOK
    <3>4. SectorsOK'
      BY <2>2, <3>1, <3>2, <3>3 DEF FatInv, SectorsOK
    <3>5. TargetOK' /\ ProgressOK' /\ SearchOK'
      BY <3>1 DEF TargetOK, ProgressOK, SearchOK
    <3>6. Files' = Files \cup {slot}
      BY <3>2, <3>3, EntryNames DEF Files
    <3>7. VolumeStaysConsistent'
      <4>1. PICK o \in Slots : root[o] = Other
        BY DEF FatInv, VolumeStaysConsistent
      <4>2. o # slot /\ root'[o] = Other
        BY <3>2, <3>3, <4>1, EntryNames
      <4>3. root'[slot].cluster = cluster /\ root'[slot].name = "test"
        BY <3>3, EntryNames
      <4>4. \A i \in Files' : root'[i].cluster \in fat1' \cap fat2'
        BY <3>1, <3>2, <3>3, <3>6, <4>3
        DEF FatInv, VolumeStaysConsistent, Files
      <4>5. \A i, j \in Files' : root'[i].cluster = root'[j].cluster => i = j
        BY <3>2, <3>3, <3>6, <4>3 DEF FatInv, VolumeStaysConsistent, Files
      <4>6. \A i \in Files' : root'[i].name = "test" => data'[root'[i].cluster] = "test"
        BY <3>1, <3>2, <3>3, <3>6, <4>3
        DEF FatInv, VolumeStaysConsistent, Files
      <4> QED
        BY <3>1, <4>2, <4>4, <4>5, <4>6 DEF FatInv, VolumeStaysConsistent
    <3>8. NameIsUnique'
      <4>1. root'[slot].name = "test"
        BY <3>3, EntryNames
      <4>2. ASSUME ~blind', NEW i \in Slots, root[i].name = "test", i # slot
            PROVE  FALSE
        <5>1. ~blind
          BY <4>2, <2>2
        <5>2. root[slot].name = "test"
          BY <4>2, <5>1, <2>6 DEF FatInv, SearchOK
        <5>3. i \in Files /\ slot \in Files
          BY <4>2, <5>2, <3>2, EntryNames DEF Files
        <5> QED BY <4>2, <5>1, <5>2, <5>3 DEF FatInv, NameIsUnique
      <4> QED
        BY <2>2, <3>2, <3>3, <3>6, <4>1, <4>2 DEF FatInv, NameIsUnique, Files
    <3> QED BY <3>4, <3>5, <3>7, <3>8 DEF FatInv
  <2> QED BY <2>2, <2>3, <2>4, <2>5, <2>6
<1>3. CASE Stop
  BY <1>3 DEF Stop, FatInv, SectorsOK, TargetOK, ProgressOK, SearchOK,
              NameIsUnique, Files, VolumeStaysConsistent
<1>4. CASE UNCHANGED vars
  BY <1>4 DEF vars, FatInv, SectorsOK, TargetOK, ProgressOK, SearchOK,
              NameIsUnique, Files, VolumeStaysConsistent
<1> QED BY <1>1, <1>2, <1>3, <1>4 DEF Next

(* The volume the probe finds is consistent.                               *)
LEMMA VolumeStarts ==
    ASSUME VolumeAssumption, Init PROVE FatInv
<1> USE VolumeAssumption DEF VolumeAssumption
<1>0. Len(RootChain) \in Nat /\ Slots = 1..Len(RootChain)
      /\ (\A i \in Slots : RootChain[i] \in Clusters) /\ 0 \notin Clusters
  BY DEF Slots
<1>1. PICK i \in Slots, prior \in {0} \cup (Clusters \ Own),
           torn \in {0} \cup (Clusters \ Own) :
         LET taken == Own \cup ({prior} \ {0})
         IN  /\ prior # 0 => i < Len(RootChain)
             /\ fat1 = taken
             /\ fat2 = taken \cup ({torn} \ {0})
             /\ root = [j \in Slots |->
                           IF j = i THEN Other
                           ELSE IF prior # 0 /\ j = Len(RootChain) THEN Entry(prior)
                           ELSE Free]
             /\ data = [c \in Clusters |-> IF c = prior THEN "test" ELSE "old"]
  BY DEF Init
<1>2. step = 0 /\ blind = FALSE
  BY DEF Init
<1>3. /\ root = [j \in Slots |-> root[j]]
      /\ root[i] = Other
      /\ \A j \in Slots : \/ j = i
                          \/ root[j] = Free
                          \/ /\ prior # 0 /\ j = Len(RootChain)
                             /\ root[j] = Entry(prior)
  BY <1>1
<1>4. data \in [Clusters -> {"old", "test"}]
      /\ \A c \in Clusters : data[c] = "test" <=> c = prior
  BY <1>1
<1>5. Own \subseteq fat1 /\ Own \subseteq fat2
      /\ (prior # 0 => prior \in fat1 /\ prior \in fat2 /\ prior \in Clusters)
  BY <1>1
<1>6. prior \notin Own /\ Used \in Own /\ \A j \in Slots : RootChain[j] \in Own
  BY <1>0 DEF Own
<1>7. SectorsOK
  BY <1>2, <1>3, <1>4, <1>5 DEF SectorsOK
<1>8. TargetOK /\ ProgressOK /\ SearchOK
  BY <1>2 DEF TargetOK, ProgressOK, SearchOK
<1>9. VolumeStaysConsistent
  <2>1. \A j \in Files : j = i \/ (prior # 0 /\ j = Len(RootChain) /\ root[j] = Entry(prior))
    BY <1>3 DEF Files
  <2>2. i \in Slots /\ root[i].cluster = Used /\ root[i].name = "other"
    BY <1>3, EntryNames
  <2>3. \A j \in Files : root[j].cluster \in fat1 \cap fat2
    <3>1. Used \in fat1 /\ Used \in fat2
      BY <1>5, <1>6
    <3>2. \A c : Entry(c).cluster = c
      BY EntryNames
    <3> QED BY <2>1, <2>2, <1>5, <3>1, <3>2
  <2>4. \A j, k \in Files : root[j].cluster = root[k].cluster => j = k
    BY <2>1, <2>2, <1>6, EntryNames
  <2>5. data[Used] = "old" /\ \A j \in Slots : data[RootChain[j]] = "old"
    BY <1>0, <1>4, <1>6
  <2>6. \A j \in Files : root[j].name = "test" => data[root[j].cluster] = "test"
    BY <2>1, <2>2, <1>4, <1>5, EntryNames
  <2> QED BY <1>3, <2>3, <2>4, <2>5, <2>6 DEF VolumeStaysConsistent
<1>10. NameIsUnique
  <2>1. \A j \in Files : j = i \/ (j = Len(RootChain) /\ root[j].name = "test")
    BY <1>3, EntryNames DEF Files
  <2>2. root[i].name = "other"
    BY <1>3, EntryNames
  <2> QED BY <2>1, <2>2 DEF NameIsUnique
<1> QED BY <1>7, <1>8, <1>9, <1>10 DEF FatInv

(* raw_fat32_ioctl_known_write_test, for every volume: wherever a failed   *)
(* transfer or a reset stops it, however often it is repeated, no entry    *)
(* leads to a free or a foreign cluster, no other file is touched, and no  *)
(* second entry of its name appears unless a link could not be read.       *)
THEOREM ProbeKeepsVolume == VolumeAssumption /\ Spec => []FatStaysConsistent
<1>1. ASSUME VolumeAssumption, Init PROVE FatInv
  BY <1>1, VolumeStarts
<1>2. FatInv => FatStaysConsistent
  BY DEF FatInv, FatStaysConsistent
<1>3. VolumeAssumption => (Init => FatInv)
  BY <1>1
<1>4. VolumeAssumption => (FatInv /\ [Next]_vars => FatInv')
  BY FatInductive
<1>5. CASE VolumeAssumption
  <2>1. Init => FatInv
    BY <1>3, <1>5
  <2>2. FatInv /\ [Next]_vars => FatInv'
    BY <1>4, <1>5
  <2> QED BY <2>1, <2>2, <1>2, PTL DEF Spec
<1>6. CASE ~VolumeAssumption
  BY <1>6
<1> QED BY <1>5, <1>6
=============================================================================
