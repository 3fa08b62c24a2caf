------------------------------ MODULE FatProbe ------------------------------
(***************************************************************************)
(* The storage probe's raw write test: it creates a file on a FAT32 volume *)
(* by writing sectors behind the file system's back, a sector at a time:   *)
(* data, first FAT, second FAT, directory.  Any transfer may fail, which   *)
(* ends the test where it is, and the machine may be reset between any     *)
(* two; the test runs again at the next start.                             *)
(***************************************************************************)
EXTENDS Integers, Sequences, FiniteSets

CONSTANTS Clusters,   \* data clusters the search looks at, a range of numbers
          RootChain,  \* numbers of the root directory's clusters
          Used,       \* cluster of another file in the root directory
          MaxRuns     \* starts of the test in a behaviour

VARIABLES fat1, fat2, \* clusters marked in use in the two tables
          root,       \* entries of the root directory, one per root cluster
          data,       \* what the first sector of a cluster holds
          step, cluster, slot, runs,
          blind       \* a link of the root directory could not be read

vars == <<fat1, fat2, root, data, step, cluster, slot, runs, blind>>

Free == [name |-> "", cluster |-> 0]
Other == [name |-> "other", cluster |-> Used]
Entry(c) == [name |-> "test", cluster |-> c]
Slots == 1..Len(RootChain)
Own == {RootChain[i] : i \in Slots} \cup {Used}

(* A volume the searches can look at: clusters have positive numbers, and the
   root directory and the other file lie in them. *)
VolumeAssumption ==
    /\ Clusters \subseteq Nat \ {0}
    /\ RootChain \in Seq(Clusters)
    /\ Used \in Clusters

(* Slip: the directory entry is written before the second table. *)
OrderDirectoryEarly == <<"data", "fat1", "dir", "fat2">>

Order == <<"data", "fat1", "fat2", "dir">>

(* Another file, perhaps the file of an earlier test (prior), and perhaps a
   cluster that only the second table has in use. *)
Init ==
    /\ \E i \in Slots, prior, torn \in {0} \cup (Clusters \ Own) :
           LET taken == Own \cup ({prior} \ {0})
           IN  /\ prior # 0 => i < Len(RootChain)
               /\ fat1 = taken
               /\ fat2 = taken \cup ({torn} \ {0})
               /\ root = [j \in Slots |->
                             IF j = i THEN Other
                             ELSE IF prior # 0 /\ j = Len(RootChain) THEN Entry(prior)
                             ELSE Free]
               /\ data = [c \in Clusters |-> IF c = prior THEN "test" ELSE "old"]
    /\ step = 0
    /\ cluster = 0
    /\ slot = 0
    /\ runs = 0
    /\ blind = FALSE

(* find_free_fat32_cluster_mirrored_ioctl looks at both tables. *)
FreeClusters == {c \in Clusters : c \notin fat1 /\ c \notin fat2}

(* Slip: the first free entry is taken without looking further. *)
SlotFirstFree(n) ==
    LET open == {i \in 1..n : root[i] = Free \/ root[i].name = "test"}
    IN  IF open = {} THEN 0 ELSE CHOOSE i \in open : \A j \in open : i <= j

(* find_root_dir_slot_chain_ioctl over the first n clusters of the chain: the
   test's own entry, else the first free one, else 0.  An unreadable link ends
   the chain as if it were its end. *)
SlotIn(n) ==
    LET own == {i \in 1..n : root[i].name = "test"}
        free == {i \in 1..n : root[i] = Free}
        first(S) == CHOOSE i \in S : \A j \in S : i <= j
    IN  IF own # {} THEN first(own) ELSE IF free # {} THEN first(free) ELSE 0

(* The searches of raw_fat32_ioctl_known_write_test. *)
Begin ==
    /\ step = 0
    /\ runs < MaxRuns
    /\ runs' = runs + 1
    /\ \E n \in Slots :
           /\ blind' = (blind \/ n < Len(RootChain))
           /\ IF FreeClusters # {} /\ SlotIn(n) # 0
              THEN /\ cluster' = CHOOSE c \in FreeClusters :
                                     \A d \in FreeClusters : c <= d
                   /\ slot' = SlotIn(n)
                   /\ step' = 1
              ELSE UNCHANGED <<cluster, slot, step>>
    /\ UNCHANGED <<fat1, fat2, root, data>>

(* One read, change and write of a sector, and reading it back. *)
Write ==
    /\ step # 0
    /\ data' = IF Order[step] = "data" THEN [data EXCEPT ![cluster] = "test"] ELSE data
    /\ fat1' = IF Order[step] = "fat1" THEN fat1 \cup {cluster} ELSE fat1
    /\ fat2' = IF Order[step] = "fat2" THEN fat2 \cup {cluster} ELSE fat2
    /\ root' = IF Order[step] = "dir" THEN [root EXCEPT ![slot] = Entry(cluster)]
               ELSE root
    /\ \E readBack \in BOOLEAN :
           step' = IF readBack /\ step < Len(Order) THEN step + 1 ELSE 0
    /\ UNCHANGED <<cluster, slot, runs, blind>>

(* A transfer fails before it has changed the card, or the watchdog resets the
   machine here. *)
Stop ==
    /\ step # 0
    /\ step' = 0
    /\ UNCHANGED <<fat1, fat2, root, data, cluster, slot, runs, blind>>

Next == Begin \/ Write \/ Stop

Spec == Init /\ [][Next]_vars
-----------------------------------------------------------------------------
Files == {i \in Slots : root[i] # Free}

(* Wherever the test stops, the volume is one a file system can mount: every
   entry's cluster is taken in both tables, no two entries share a cluster,
   the other file keeps its entry, cluster and data, and the test's own entry
   leads to the test's data.  At worst clusters are taken that no entry uses. *)
VolumeStaysConsistent ==
    /\ \A i \in Files : root[i].cluster \in fat1 \cap fat2
    /\ \A i, j \in Files : root[i].cluster = root[j].cluster => i = j
    /\ \E i \in Slots : root[i] = Other
    /\ data[Used] = "old" /\ \A i \in Slots : data[RootChain[i]] = "old"
    /\ \A i \in Files : root[i].name = "test" => data[root[i].cluster] = "test"

(* There is never a second entry of the same name, unless a link of the root
   directory could not be read. *)
NameIsUnique ==
    ~blind => \A i, j \in Files : root[i].name = root[j].name => i = j

(* What a test that is stopped anywhere, and repeated, leaves of the volume. *)
FatStaysConsistent == VolumeStaysConsistent /\ NameIsUnique
=============================================================================
