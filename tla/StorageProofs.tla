--------------------------- MODULE StorageProofs ---------------------------
(***************************************************************************)
(* Proofs about the programs of Storage, for every value of their          *)
(* constants.  A behaviour is of one part for good, and a step of it is a  *)
(* step of that part, so an invariant of the component is one of the part. *)
(***************************************************************************)
EXTENDS Storage, WellFoundedInduction, TLAPS

(* A part goes on by the steps of its own program.                         *)
LEMMA PartSteps ==
    ASSUME [Next]_vars
    PROVE  /\ part' = part
           /\ part = "loader" => [Loader!Next]_(Loader!vars)
           /\ part = "bootlog" => [Log!Next]_(Log!vars)
           /\ part = "ring" => [Ring!Next]_(Ring!vars)
           /\ part = "fatprobe" => [Fat!Next]_(Fat!vars)
           /\ part = "mount" => [Mount!Next]_(Mount!vars)
<1>1. CASE LoaderStep(Loader!Next)
  BY <1>1 DEF LoaderStep
<1>2. CASE LogStep(Log!Next)
  BY <1>2 DEF LogStep
<1>3. CASE RingStep(Ring!Next)
  BY <1>3 DEF RingStep
<1>4. CASE FatStep(Fat!Next)
  BY <1>4 DEF FatStep
<1>5. CASE MountStep(Mount!Next)
  BY <1>5 DEF MountStep
<1>6. CASE UNCHANGED vars
  <2>1. /\ part' = part
        /\ UNCHANGED <<loaderVars, logVars, ringVars, fatVars, mountVars>>
    BY <1>6 DEF vars
  <2>2. UNCHANGED Ring!vars
    BY <2>1 DEF ringVars, Ring!vars, Ring!header, Ring!locals
  <2>3. UNCHANGED Fat!vars
    BY <2>1 DEF fatVars, Fat!vars
  <2>4. UNCHANGED Mount!vars
    BY <2>1 DEF mountVars, Mount!vars
  <2>5. UNCHANGED Log!vars
    BY <2>1 DEF logVars, Log!vars
  <2>6. UNCHANGED Loader!vars
    BY <2>1 DEF loaderVars, Loader!vars
  <2> QED BY <2>1, <2>2, <2>3, <2>4, <2>5, <2>6
<1> QED BY <1>1, <1>2, <1>3, <1>4, <1>5, <1>6 DEF Next

(* A part starts as its program does.                                      *)
LEMMA PartStarts ==
    ASSUME Init
    PROVE  /\ part = "loader" => Loader!Init
           /\ part = "bootlog" => Log!Init
           /\ part = "ring" => Ring!Init
           /\ part = "fatprobe" => Fat!Init
           /\ part = "mount" => Mount!Init
BY DEF Init, LoaderInit, LogInit, RingInit, FatInit, MountInit

----------------------------------------------------------------------------
(* The retained progress ring.                                             *)

RingPart == part = "ring" => Ring!RingInv

(* For a ring of any size and marks in any style: a reset at any store of  *)
(* progress_mark loses at most the mark under way, the dump between marks  *)
(* is exact, and a damaged header stays in range.                          *)
THEOREM RingSurvives == Spec => []RingSurvivesReset
<1>1. Init => RingPart
  BY StorageAssumption, PartStarts, Ring!RingStarts DEF RingPart
<1>2. RingPart /\ [Next]_vars => RingPart'
  <2> SUFFICES ASSUME RingPart, [Next]_vars, part' = "ring" PROVE Ring!RingInv'
    BY DEF RingPart
  <2>1. Ring!RingInv /\ [Ring!Next]_(Ring!vars)
    BY PartSteps DEF RingPart
  <2> QED BY <2>1, StorageAssumption, Ring!RingInductive
<1>3. RingPart => RingSurvivesReset
  BY StorageAssumption, Ring!RingInvGives DEF RingPart, RingSurvivesReset
<1> QED BY <1>1, <1>2, <1>3, PTL DEF Spec

----------------------------------------------------------------------------
(* The FAT test of the storage probe.                                      *)

FatPart == part = "fatprobe" => Fat!FatInv

(* For every root directory and set of clusters: the probe stopped after   *)
(* any sector write leaves every entry with its own cluster, marked in     *)
(* both tables, and never adds a second entry of its name.                 *)
THEOREM VolumeStaysWhole == Spec => []FatStaysConsistent
<1>1. Init => FatPart
  BY StorageAssumption, PartStarts, Fat!VolumeStarts DEF FatPart
<1>2. FatPart /\ [Next]_vars => FatPart'
  <2> SUFFICES ASSUME FatPart, [Next]_vars, part' = "fatprobe" PROVE Fat!FatInv'
    BY DEF FatPart
  <2>1. Fat!FatInv /\ [Fat!Next]_(Fat!vars)
    BY PartSteps DEF FatPart
  <2> QED BY <2>1, StorageAssumption, Fat!FatInductive
<1>3. FatPart => FatStaysConsistent
  BY DEF FatPart, FatStaysConsistent, Fat!FatInv, Fat!FatStaysConsistent
<1> QED BY <1>1, <1>2, <1>3, PTL DEF Spec

----------------------------------------------------------------------------
(* The mount service.                                                      *)

Devs == {"p1", "p2", "whole"}
Rests == {Mount!Scan, <<"p2", "whole">>, <<"whole">>, <<>>}
Mounts == [vol : Devs, session : Nat]
Vols == [mount : Mounts, score : Int, at : 0..3]

(* The mount service's values. *)
MountType ==
    /\ card \in Cards \cup {Mount!NoCard}
    /\ session \in Nat
    /\ mount_pc \in {"poll", "start", "probe", "relocate"}
    /\ mounted \in BOOLEAN
    /\ whole_disk \in BOOLEAN
    /\ candidates \in Rests
    /\ vols \in Seq(Vols)
    /\ public \in [Mount!Slots -> Seq(Mounts)]

(* No volume is probed twice. *)
ProbedOnce ==
    /\ \A i, j \in DOMAIN vols : vols[i].mount.vol = vols[j].mount.vol => i = j
    /\ mount_pc = "probe" =>
           /\ Len(vols) + Len(candidates) <= 3
           /\ \A i \in DOMAIN vols, j \in DOMAIN candidates :
                  vols[i].mount.vol # candidates[j]

(* What is on a temporary mountpoint is still to be moved. *)
ProbesArePending ==
    /\ mount_pc \in {"poll", "start"} => probes = {}
    /\ mount_pc = "probe" =>
           \A m \in probes : \E i \in DOMAIN vols : m = vols[i].mount
    /\ mount_pc = "relocate" =>
           \A m \in probes :
               \E i \in DOMAIN vols : i >= next_move /\ m = vols[i].mount

(* A volume that has been moved is where its destination shows it. *)
MovedIsVisible ==
    mount_pc = "relocate" =>
        /\ Len(vols) \in 1..3
        /\ next_move \in 1..(Len(vols) + 1)
        /\ \A i \in DOMAIN vols : i < next_move /\ vols[i].at # 0 =>
               /\ vols[i].at = Mount!Destination(i)
               /\ public[vols[i].at] # <<>>
               /\ Mount!Last(public[vols[i].at]).vol = vols[i].mount.vol
        /\ Mount!Primary < next_move => vols[Mount!Primary].at # 0

(* Nothing is published while the service mounts. *)
MarkerIsHeld ==
    /\ mount_pc # "poll" => ~mounted
    /\ ~mounted => marker = <<>>

MountInv ==
    /\ MountType
    /\ ProbedOnce
    /\ ProbesArePending
    /\ MovedIsVisible
    /\ MarkerIsHeld
    /\ Mount!PublishedIsMounted
-----------------------------------------------------------------------------
(* Of up to three numbers one is the first that is highest. *)
LEMMA HighestExists ==
    ASSUME NEW n \in 1..3, NEW f \in [1..n -> Int]
    PROVE  \E p \in 1..n :
               \A i \in 1..n : f[p] > f[i] \/ (f[p] = f[i] /\ p <= i)
<1>1. CASE n = 1
  <2>1. 1..n = {1} /\ \A i \in 1..n : f[1] = f[i] /\ 1 <= i
    BY <1>1
  <2> QED BY <2>1
<1>2. CASE n = 2
  <2>1. 1..n = {1, 2} /\ f[1] \in Int /\ f[2] \in Int
    BY <1>2
  <2>2. CASE f[1] >= f[2]
    <3>1. f[1] > f[2] \/ f[1] = f[2]
      BY <2>1, <2>2
    <3>2. \A i \in 1..n : f[1] > f[i] \/ (f[1] = f[i] /\ 1 <= i)
      BY <2>1, <3>1
    <3> QED BY <2>1, <3>2
  <2>3. CASE f[2] > f[1]
    <3>1. \A i \in 1..n : f[2] > f[i] \/ (f[2] = f[i] /\ 2 <= i)
      BY <2>1, <2>3
    <3> QED BY <2>1, <3>1
  <2>4. f[1] >= f[2] \/ f[2] > f[1]
    BY <2>1
  <2> QED BY <2>2, <2>3, <2>4
<1>3. CASE n = 3
  <2>1. 1..n = {1, 2, 3} /\ f[1] \in Int /\ f[2] \in Int /\ f[3] \in Int
    BY <1>3
  <2>2. CASE f[1] >= f[2] /\ f[1] >= f[3]
    <3>1. \A i \in 1..n : f[1] > f[i] \/ (f[1] = f[i] /\ 1 <= i)
      BY <2>1, <2>2
    <3> QED BY <2>1, <3>1
  <2>3. CASE f[2] > f[1] /\ f[2] >= f[3]
    <3>1. \A i \in 1..n : f[2] > f[i] \/ (f[2] = f[i] /\ 2 <= i)
      BY <2>1, <2>3
    <3> QED BY <2>1, <3>1
  <2>4. CASE f[3] > f[1] /\ f[3] > f[2]
    <3>1. \A i \in 1..n : f[3] > f[i] \/ (f[3] = f[i] /\ 3 <= i)
      BY <2>1, <2>4
    <3> QED BY <2>1, <3>1
  <2>5. \/ f[1] >= f[2] /\ f[1] >= f[3]
        \/ f[2] > f[1] /\ f[2] >= f[3]
        \/ f[3] > f[1] /\ f[3] > f[2]
    BY <2>1
  <2> QED BY <2>2, <2>3, <2>4, <2>5
<1> QED BY <1>1, <1>2, <1>3

(* What a sequence of volumes holds. *)
LEMMA VolsAt ==
    ASSUME NEW v \in Seq(Vols)
    PROVE  /\ Len(v) \in Nat
           /\ DOMAIN v = 1..Len(v)
           /\ \A i \in DOMAIN v : /\ v[i] \in Vols
                                  /\ v[i].score \in Int
                                  /\ v[i].at \in 0..3
                                  /\ v[i].mount \in Mounts
<1>1. /\ Len(v) \in Nat /\ DOMAIN v = 1..Len(v)
      /\ \A i \in 1..Len(v) : v[i] \in Vols
  OBVIOUS
<1>2. \A x \in Vols : x.score \in Int /\ x.at \in 0..3 /\ x.mount \in Mounts
  BY DEF Vols
<1> QED BY <1>1, <1>2

(* Of up to three volumes one is the first with the highest score. *)
LEMMA TopExists ==
    ASSUME NEW v \in Seq(Vols), Len(v) \in 1..3
    PROVE  LET top == CHOOSE p \in DOMAIN v :
                   \A i \in DOMAIN v : \/ v[p].score > v[i].score
                                       \/ v[p].score = v[i].score /\ p <= i
           IN  /\ top \in DOMAIN v
               /\ \A i \in DOMAIN v : \/ v[top].score > v[i].score
                                      \/ v[top].score = v[i].score /\ top <= i
<1> DEFINE f == [i \in 1..Len(v) |-> v[i].score]
<1>1. DOMAIN v = 1..Len(v) /\ f \in [1..Len(v) -> Int]
  BY VolsAt
<1>2. PICK p \in 1..Len(v) :
          \A i \in 1..Len(v) : f[p] > f[i] \/ (f[p] = f[i] /\ p <= i)
  BY <1>1, HighestExists
<1>3. \A i \in DOMAIN v : \/ v[p].score > v[i].score
                          \/ v[p].score = v[i].score /\ p <= i
  BY <1>1, <1>2
<1> QED BY <1>1, <1>3

(* The primary depends on the scores only. *)
LEMMA SamePrimary ==
    ASSUME vols \in Seq(Vols), Len(vols) \in 1..3,
           vols' \in Seq(Vols), DOMAIN vols' = DOMAIN vols,
           \A i \in DOMAIN vols : vols'[i].score = vols[i].score
    PROVE  Mount!Primary \in DOMAIN vols /\ Mount!Primary' = Mount!Primary
<1>1. Len(vols') = Len(vols)
  OBVIOUS
<1>2. /\ Mount!Primary \in DOMAIN vols
      /\ \A i \in DOMAIN vols :
            \/ vols[Mount!Primary].score > vols[i].score
            \/ vols[Mount!Primary].score = vols[i].score /\ Mount!Primary <= i
  BY TopExists DEF Mount!Primary
<1>3. /\ Mount!Primary' \in DOMAIN vols
      /\ \A i \in DOMAIN vols :
            \/ vols'[Mount!Primary'].score > vols'[i].score
            \/ /\ vols'[Mount!Primary'].score = vols'[i].score
               /\ Mount!Primary' <= i
  BY <1>1, TopExists DEF Mount!Primary
<1>4. DOMAIN vols \subseteq Int /\ \A i \in DOMAIN vols : vols[i].score \in Int
  BY VolsAt
<1> QED BY <1>2, <1>3, <1>4

(* umount takes one mount from a stack or leaves it. *)
LEMMA UnmountedType ==
    ASSUME NEW stack \in Seq(Mounts), NEW busy
    PROVE  Mount!Unmounted(stack, busy) \in Seq(Mounts)
BY DEF Mount!Unmounted, Mount!Front

(* A mount put on a stack is what the mountpoint shows. *)
LEMMA PutOnTop ==
    ASSUME NEW stack \in Seq(Mounts), NEW m \in Mounts
    PROVE  /\ stack \o <<m>> \in Seq(Mounts)
           /\ stack \o <<m>> # <<>>
           /\ Mount!Last(stack \o <<m>>) = m
<1>1. /\ <<m>> \in Seq(Mounts) /\ Len(<<m>>) = 1 /\ <<m>>[1] = m
  OBVIOUS
<1>2. /\ stack \o <<m>> \in Seq(Mounts)
      /\ Len(stack \o <<m>>) = Len(stack) + 1
      /\ (stack \o <<m>>)[Len(stack) + 1] = m
  BY <1>1
<1> QED BY <1>2 DEF Mount!Last

-----------------------------------------------------------------------------
(* The scan goes through its devices one by one. *)
LEMMA RestOfScan ==
    ASSUME NEW c \in Rests
    PROVE  /\ Len(c) \in 0..3
           /\ c # <<>> =>
                  /\ Head(c) \in Devs
                  /\ Tail(c) \in Rests
                  /\ Len(Tail(c)) = Len(c) - 1
                  /\ 1 \in DOMAIN c /\ Head(c) = c[1]
                  /\ \A j \in DOMAIN Tail(c) : /\ Tail(c)[j] # Head(c)
                                               /\ j + 1 \in DOMAIN c
                                               /\ Tail(c)[j] = c[j + 1]
<1>1. CASE c = Mount!Scan
  <2>1. /\ Len(c) = 3 /\ Head(c) = "p1" /\ c[1] = "p1"
        /\ Tail(c) = <<"p2", "whole">>
    BY <1>1 DEF Mount!Scan
  <2>2. DOMAIN c = 1..3 /\ DOMAIN Tail(c) = 1..2
    BY <1>1, <2>1 DEF Mount!Scan
  <2>3. \A j \in 1..2 : Tail(c)[j] # "p1" /\ Tail(c)[j] = c[j + 1]
    BY <1>1, <2>1 DEF Mount!Scan
  <2> QED BY <2>1, <2>2, <2>3 DEF Devs, Rests
<1>2. CASE c = <<"p2", "whole">>
  <2>1. Len(c) = 2 /\ Head(c) = "p2" /\ Tail(c) = <<"whole">> /\ c[1] = "p2"
    BY <1>2
  <2>2. DOMAIN c = 1..2 /\ DOMAIN Tail(c) = 1..1 /\ c[2] = "whole"
    BY <1>2, <2>1
  <2> QED BY <2>1, <2>2 DEF Devs, Rests
<1>3. CASE c = <<"whole">>
  <2>1. /\ Len(c) = 1 /\ Head(c) = "whole" /\ Tail(c) = <<>> /\ c[1] = "whole"
        /\ DOMAIN c = 1..1 /\ DOMAIN Tail(c) = {}
    BY <1>3
  <2> QED BY <2>1 DEF Devs, Rests
<1>4. CASE c = <<>>
  BY <1>4
<1> QED BY <1>1, <1>2, <1>3, <1>4 DEF Rests

(* The service starts with nothing mounted. *)
LEMMA MountStarts ==
    ASSUME Mount!Init
    PROVE  MountInv
<1>1. <<>> \in Seq(Vols) /\ <<>> \in Seq(Mounts)
  OBVIOUS
<1>2. MountType
  BY <1>1 DEF Mount!Init, MountType, Mount!Scan, Mount!Slots, Rests
<1>3. DOMAIN vols = {}
  BY DEF Mount!Init
<1>4. ProbedOnce /\ ProbesArePending /\ MovedIsVisible
  BY <1>3 DEF Mount!Init, ProbedOnce, ProbesArePending, MovedIsVisible
<1>5. MarkerIsHeld /\ Mount!PublishedIsMounted
  BY DEF Mount!Init, MarkerIsHeld, Mount!PublishedIsMounted
<1> QED BY <1>2, <1>4, <1>5 DEF MountInv

(* What the service does not touch stays as it is. *)
LEMMA UserSteps ==
    ASSUME MountInv,
           \/ Mount!Insert \/ Mount!Pull \/ Mount!PollStays
           \/ UNCHANGED Mount!vars
    PROVE  MountInv'
<1>1. /\ card' \in Cards \cup {Mount!NoCard} /\ session' \in Nat
      /\ UNCHANGED <<mount_pc, mounted, candidates, whole_disk, vols,
                     next_move, probes, public, marker>>
  BY DEF MountInv, MountType, Mount!Insert, Mount!Pull, Mount!PollStays,
         Mount!vars, Mount!slot
<1>2. MountType'
  BY <1>1 DEF MountInv, MountType
<1>3. UNCHANGED Mount!Primary /\ \A i : UNCHANGED Mount!Destination(i)
  BY <1>1 DEF Mount!Primary, Mount!Destination
<1>4. ProbedOnce' /\ ProbesArePending'
  BY <1>1 DEF MountInv, ProbedOnce, ProbesArePending
<1>5. MovedIsVisible'
  BY <1>1, <1>3 DEF MountInv, MovedIsVisible
<1>6. MarkerIsHeld' /\ Mount!PublishedIsMounted'
  BY <1>1 DEF MountInv, MarkerIsHeld, Mount!PublishedIsMounted, Mount!Visible
<1> QED BY <1>2, <1>4, <1>5, <1>6 DEF MountInv

(* unmount_all_volumes leaves stacks of mounts. *)
LEMMA UnmountAllType ==
    ASSUME NEW stacks \in [Mount!Slots -> Seq(Mounts)], NEW busy,
           Mount!UnmountAll(stacks, busy)
    PROVE  public' \in [Mount!Slots -> Seq(Mounts)]
BY UnmountedType DEF Mount!UnmountAll

(* The poll that finds a card, or another one: everything is taken down. *)
LEMMA PollMountsStep ==
    ASSUME MountInv, Mount!PollMounts
    PROVE  MountInv'
<1>1. probes' = {} /\ marker' = <<>> /\ public' \in [Mount!Slots -> Seq(Mounts)]
  <2>1. CASE mounted
    <3>1. PICK busy \in Mount!Busy : Mount!UnmountAll(public, busy)
      BY <2>1 DEF Mount!PollMounts
    <3> QED BY <3>1, UnmountAllType DEF Mount!UnmountAll, MountInv, MountType
  <2>2. CASE ~mounted
    <3>1. mount_pc = "poll" /\ UNCHANGED <<public, probes, marker>>
      BY <2>2 DEF Mount!PollMounts
    <3> QED BY <2>2, <3>1
            DEF MountInv, MountType, ProbesArePending, MarkerIsHeld
  <2> QED BY <2>1, <2>2
<1>2. /\ mount_pc = "poll" /\ mount_pc' = "start" /\ mounted' = FALSE
      /\ UNCHANGED <<card, session, candidates, whole_disk, vols>>
  BY DEF Mount!PollMounts, Mount!slot
<1>3. MountType'
  BY <1>1, <1>2 DEF MountInv, MountType
<1>4. ProbedOnce' /\ ProbesArePending'
  BY <1>1, <1>2 DEF MountInv, ProbedOnce, ProbesArePending
<1>5. MovedIsVisible'
  BY <1>2 DEF MovedIsVisible
<1>6. MarkerIsHeld' /\ Mount!PublishedIsMounted'
  BY <1>1, <1>2 DEF MarkerIsHeld, Mount!PublishedIsMounted
<1> QED BY <1>3, <1>4, <1>5, <1>6 DEF MountInv

(* A scan starts with no volume found. *)
LEMMA MountAllStartStep ==
    ASSUME Mount!CardsAssumption, MountInv, Mount!MountAllStart
    PROVE  MountInv'
<1>1. /\ mount_pc = "start" /\ mount_pc' = "probe" /\ vols' = <<>>
      /\ UNCHANGED <<card, session, mounted, probes, public, marker>>
      /\ probes = {} /\ ~mounted /\ marker = <<>>
  BY DEF Mount!MountAllStart, Mount!slot, MountInv, MarkerIsHeld,
         ProbesArePending
<1>2. card.floppy \in BOOLEAN
  <2>1. card \in Cards \/ card = Mount!NoCard
    BY DEF MountInv, MountType
  <2>2. card = Mount!NoCard => card.floppy = FALSE
    BY DEF Mount!NoCard
  <2> QED BY <2>1, <2>2, Zenon DEF Mount!CardsAssumption
<1>3. whole_disk' \in BOOLEAN
  BY <1>2, Zenon DEF Mount!MountAllStart
<1>4. candidates' \in {Mount!Scan, <<"whole">>}
  BY DEF Mount!MountAllStart
<1>5. Len(candidates') \in 0..3
  BY <1>4, RestOfScan DEF Rests
<1>6. MountType'
  BY <1>1, <1>3, <1>4 DEF MountInv, MountType, Rests
<1>7. DOMAIN vols' = {} /\ Len(vols') = 0
  BY <1>1
<1>8. ProbedOnce' /\ ProbesArePending'
  <2>1. Len(vols') + Len(candidates') <= 3
    <3>1. \A k, l : k = 0 /\ l \in 0..3 => k + l <= 3
      OBVIOUS
    <3>2. Len(vols') = 0
      BY <1>7
    <3> QED BY <1>5, <3>1, <3>2, Zenon
  <2> QED BY <1>1, <1>7, <2>1 DEF ProbedOnce, ProbesArePending
<1>9. MovedIsVisible'
  BY <1>1 DEF MovedIsVisible
<1>10. MarkerIsHeld' /\ Mount!PublishedIsMounted'
  BY <1>1 DEF MarkerIsHeld, Mount!PublishedIsMounted
<1> QED BY <1>6, <1>8, <1>9, <1>10 DEF MountInv

(* The scan. *)
LEMMA ProbeStep ==
    ASSUME Mount!CardsAssumption, MountInv, Mount!Probe
    PROVE  MountInv'
<1> DEFINE dev == Head(candidates)
           mount == [vol |-> dev, session |-> session]
           new == [mount |-> mount, score |-> Mount!Score(dev), at |-> 0]
<1>1. /\ mount_pc = "probe"
      /\ candidates # <<>> /\ candidates' = Tail(candidates)
      /\ UNCHANGED <<card, session, mount_pc, mounted, whole_disk, public,
                     marker>>
      /\ ~mounted /\ marker = <<>>
  BY DEF Mount!Probe, Mount!slot, MountInv, MarkerIsHeld
<1>2. candidates \in Rests
  BY DEF MountInv, MountType
<1>3. /\ dev \in Devs /\ Len(candidates) \in 0..3
      /\ Tail(candidates) \in Rests
      /\ Len(Tail(candidates)) = Len(candidates) - 1
      /\ 1 \in DOMAIN candidates /\ dev = candidates[1]
      /\ \A j \in DOMAIN candidates' : /\ candidates'[j] # dev
                                       /\ j + 1 \in DOMAIN candidates
                                       /\ candidates'[j] = candidates[j + 1]
  BY <1>1, <1>2, RestOfScan
<1>4. /\ vols \in Seq(Vols) /\ session \in Nat
      /\ Len(vols) \in Nat /\ DOMAIN vols = 1..Len(vols)
      /\ Len(vols) + Len(candidates) <= 3
      /\ \A i \in DOMAIN vols, j \in DOMAIN candidates :
            vols[i].mount.vol # candidates[j]
      /\ \A i, j \in DOMAIN vols :
            vols[i].mount.vol = vols[j].mount.vol => i = j
      /\ \A m \in probes : \E i \in DOMAIN vols : m = vols[i].mount
  BY <1>1, VolsAt DEF MountInv, MountType, ProbedOnce, ProbesArePending
<1>5. /\ vols' \in Seq(Vols)
      /\ Len(vols') + Len(candidates') <= 3
      /\ \A i \in DOMAIN vols', j \in DOMAIN candidates' :
            vols'[i].mount.vol # candidates'[j]
      /\ \A i, j \in DOMAIN vols' :
            vols'[i].mount.vol = vols'[j].mount.vol => i = j
      /\ \A m \in probes' : \E i \in DOMAIN vols' : m = vols'[i].mount
  <2>1. CASE Mount!Mountable(dev)
    <3>1. vols' = Append(vols, new) /\ probes' = probes \cup {mount}
      BY <2>1 DEF Mount!Probe
    <3>2. mount \in Mounts /\ mount.vol = dev
      BY <1>3, <1>4 DEF Mounts
    <3>3. Mount!Score(dev) \in Int
      <4>1. card \in Cards /\ dev \in DOMAIN card.score
        BY <2>1 DEF Mount!Mountable, Mount!Inserted, MountInv, MountType
      <4>2. card.score[dev] \in Int
        BY <4>1 DEF Mount!CardsAssumption
      <4>3. whole_disk \in BOOLEAN
        BY DEF MountInv, MountType
      <4> QED BY <4>2, <1>3 DEF Mount!Score
    <3>4. new \in Vols /\ new.mount = mount
      BY <3>2, <3>3 DEF Vols
    <3> HIDE DEF new
    <3>5. /\ vols' \in Seq(Vols) /\ Len(vols') = Len(vols) + 1
          /\ DOMAIN vols' = 1..(Len(vols) + 1)
          /\ vols'[Len(vols) + 1] = new
          /\ \A i \in 1..Len(vols) : vols'[i] = vols[i]
      BY <1>4, <3>1, <3>4
    <3> HIDE DEF mount, dev
    <3>6. Len(vols') + Len(candidates') <= 3
      BY <1>1, <1>3, <1>4, <3>5
    <3>7. \A i \in DOMAIN vols', j \in DOMAIN candidates' :
              vols'[i].mount.vol # candidates'[j]
      BY <1>3, <1>4, <3>2, <3>4, <3>5
    <3>8. \A i \in DOMAIN vols : vols[i].mount.vol # dev
      BY <1>3, <1>4
    <3>9. \A i, j \in DOMAIN vols' :
              vols'[i].mount.vol = vols'[j].mount.vol => i = j
      BY <1>4, <3>2, <3>4, <3>5, <3>8
    <3>10. \A m \in probes' : \E i \in DOMAIN vols' : m = vols'[i].mount
      <4>1. SUFFICES ASSUME NEW m \in probes'
                     PROVE  \E i \in DOMAIN vols' : m = vols'[i].mount
        OBVIOUS
      <4>2. CASE m = mount
        BY <1>4, <3>4, <3>5, <4>2
      <4>3. CASE m \in probes
        BY <1>4, <3>5, <4>3
      <4> QED BY <3>1, <4>2, <4>3
    <3> QED BY <3>5, <3>6, <3>7, <3>9, <3>10
  <2>2. CASE ~Mount!Mountable(dev)
    <3>1. UNCHANGED <<vols, probes>>
      BY <2>2 DEF Mount!Probe
    <3>2. Len(vols') + Len(candidates') <= 3
      BY <1>1, <1>3, <1>4, <3>1
    <3> HIDE DEF dev
    <3> QED BY <1>3, <1>4, <3>1, <3>2
  <2> QED BY <2>1, <2>2
<1>6. MountType'
  BY <1>1, <1>3, <1>5 DEF MountInv, MountType
<1>7. ProbedOnce' /\ ProbesArePending'
  BY <1>1, <1>5 DEF ProbedOnce, ProbesArePending
<1>8. MovedIsVisible' /\ MarkerIsHeld' /\ Mount!PublishedIsMounted'
  BY <1>1 DEF MovedIsVisible, MarkerIsHeld, Mount!PublishedIsMounted
<1> QED BY <1>6, <1>7, <1>8 DEF MountInv

(* The end of a scan. *)
LEMMA ProbeEndStep ==
    ASSUME MountInv, Mount!ProbeAgain \/ Mount!NothingFound \/ Mount!ProbesDone
    PROVE  MountInv'
<1>1. /\ mount_pc = "probe"
      /\ UNCHANGED <<card, session, mounted, vols, probes, public, marker>>
      /\ ~mounted /\ marker = <<>>
  BY DEF Mount!ProbeAgain, Mount!NothingFound, Mount!ProbesDone, Mount!slot,
         MountInv, MarkerIsHeld
<1>2. /\ vols \in Seq(Vols) /\ Len(vols) \in Nat /\ DOMAIN vols = 1..Len(vols)
      /\ vols = <<>> => Len(vols) = 0 /\ DOMAIN vols = {}
      /\ vols # <<>> => Len(vols) # 0
  BY VolsAt DEF MountInv, MountType
<1>3. MarkerIsHeld' /\ Mount!PublishedIsMounted'
  BY <1>1 DEF MarkerIsHeld, Mount!PublishedIsMounted
<1>4. CASE Mount!ProbeAgain
  <2>1. /\ vols = <<>> /\ mount_pc' = "probe"
        /\ candidates' = Mount!Scan /\ whole_disk' = FALSE
    BY <1>1, <1>4 DEF Mount!ProbeAgain
  <2>2. whole_disk' \in BOOLEAN
    BY <2>1, Zenon
  <2>3. MountType'
    BY <1>1, <2>1, <2>2 DEF MountInv, MountType, Rests
  <2>4. Len(candidates') = 3
    BY <2>1 DEF Mount!Scan
  <2>5. ProbedOnce' /\ ProbesArePending' /\ MovedIsVisible'
    BY <1>1, <1>2, <2>1, <2>4
    DEF MountInv, ProbedOnce, ProbesArePending, MovedIsVisible
  <2> QED BY <1>3, <2>3, <2>5 DEF MountInv
<1>5. CASE Mount!NothingFound
  <2>1. /\ vols = <<>> /\ mount_pc' = "poll"
        /\ UNCHANGED <<candidates, whole_disk>>
    BY <1>5 DEF Mount!NothingFound
  <2>2. MountType'
    BY <1>1, <2>1 DEF MountInv, MountType
  <2>3. ProbedOnce' /\ ProbesArePending' /\ MovedIsVisible'
    BY <1>1, <1>2, <2>1
    DEF MountInv, ProbedOnce, ProbesArePending, MovedIsVisible
  <2> QED BY <1>3, <2>2, <2>3 DEF MountInv
<1>6. CASE Mount!ProbesDone
  <2>1. /\ vols # <<>> /\ mount_pc' = "relocate" /\ next_move' = 1
        /\ UNCHANGED <<candidates, whole_disk>> /\ candidates = <<>>
    BY <1>6 DEF Mount!ProbesDone
  <2>2. MountType'
    BY <1>1, <2>1 DEF MountInv, MountType
  <2>3. ProbedOnce' /\ ProbesArePending'
    BY <1>1, <1>2, <2>1 DEF MountInv, ProbedOnce, ProbesArePending
  <2>4. Len(candidates) = 0
    BY <2>1
  <2>5. Len(vols') \in 1..3
    BY <1>1, <1>2, <2>1, <2>4 DEF MountInv, ProbedOnce
  <2>6. Mount!Primary' \in DOMAIN vols'
    BY <1>1, <1>2, <2>5, TopExists DEF Mount!Primary
  <2>7. MovedIsVisible'
    BY <1>1, <1>2, <2>1, <2>5, <2>6 DEF MovedIsVisible
  <2> QED BY <1>3, <2>2, <2>3, <2>7 DEF MountInv
<1> QED BY <1>4, <1>5, <1>6

(* The destinations are mountpoints, one for each volume. *)
LEMMA DestinationsApart ==
    ASSUME vols \in Seq(Vols), Len(vols) \in 1..3
    PROVE  /\ Mount!Primary \in DOMAIN vols
           /\ \A i \in DOMAIN vols : Mount!Destination(i) \in Mount!Slots
           /\ \A i, j \in DOMAIN vols :
                  Mount!Destination(i) = Mount!Destination(j) => i = j
           /\ Mount!Destination(Mount!Primary) = 1
<1>1. Mount!Primary \in DOMAIN vols
  BY TopExists DEF Mount!Primary
<1>2. DOMAIN vols = 1..Len(vols)
  BY VolsAt
<1> QED BY <1>1, <1>2 DEF Mount!Destination, Mount!Slots

(* What relocate puts on the destination. *)
LEMMA MovedGives ==
    ASSUME MountInv, mount_pc = "relocate", next_move <= Len(vols),
           NEW busy, NEW moves
    PROVE  LET i == next_move
               m == Mount!Moved(i, busy, moves)
           IN  /\ m.stack \in Seq(Mounts)
               /\ m.ok => /\ m.stack # <<>>
                          /\ Mount!Last(m.stack) \in Mounts
                          /\ Mount!Last(m.stack).vol = vols[i].mount.vol
<1> DEFINE i == next_move
           under == Mount!Unmounted(public[Mount!Destination(i)], busy)
           again == [vol |-> vols[i].mount.vol, session |-> session]
<1>1. i \in DOMAIN vols /\ vols \in Seq(Vols) /\ Len(vols) \in 1..3
  BY VolsAt DEF MountInv, MountType, MovedIsVisible
<1>2. vols[i].mount \in Mounts
  BY <1>1, VolsAt
<1>3. again \in Mounts /\ again.vol = vols[i].mount.vol
  <2>1. session \in Nat
    BY DEF MountInv, MountType
  <2> QED BY <1>2, <2>1 DEF Mounts
<1>4. Mount!Destination(i) \in Mount!Slots
  BY <1>1, DestinationsApart
<1>5. under \in Seq(Mounts)
  BY <1>4, UnmountedType DEF MountInv, MountType
<1>6. CASE moves
  <2>1. /\ Mount!Moved(i, busy, moves).stack = under \o <<vols[i].mount>>
        /\ Mount!Moved(i, busy, moves).ok
    BY <1>6 DEF Mount!Moved
  <2> HIDE DEF under, again, i
  <2> QED BY <1>2, <1>5, <2>1, PutOnTop DEF i
<1>7. CASE ~moves /\ Mount!Mountable(vols[i].mount.vol)
  <2>1. /\ Mount!Moved(i, busy, moves).stack = under \o <<again>>
        /\ Mount!Moved(i, busy, moves).ok
    BY <1>7 DEF Mount!Moved
  <2> HIDE DEF under, again, i
  <2> QED BY <1>3, <1>5, <2>1, PutOnTop DEF i
<1>8. CASE ~moves /\ ~Mount!Mountable(vols[i].mount.vol)
  <2>1. /\ Mount!Moved(i, busy, moves).stack = under \o <<>>
        /\ ~Mount!Moved(i, busy, moves).ok
    BY <1>8 DEF Mount!Moved
  <2> HIDE DEF under, again, i
  <2>2. under \o <<>> \in Seq(Mounts)
    BY <1>5
  <2> QED BY <2>1, <2>2 DEF i
<1> QED BY <1>6, <1>7, <1>8

(* Moving one volume. *)
LEMMA RelocateStep ==
    ASSUME MountInv, Mount!Relocate
    PROVE  MountInv'
<1> DEFINE i == next_move
           d == Mount!Destination(i)
<1>1. /\ mount_pc = "relocate"
      /\ next_move <= Len(vols) /\ next_move' = next_move + 1
      /\ UNCHANGED <<card, session, mount_pc, mounted, candidates, whole_disk,
                     marker>>
      /\ ~mounted /\ marker = <<>>
  BY DEF Mount!Relocate, Mount!slot, MountInv, MarkerIsHeld
<1>2. PICK busy \in BOOLEAN, moves \in BOOLEAN :
        LET m == Mount!Moved(i, busy, moves)
        IN  /\ ~Mount!GivesUp(i, m.ok)
            /\ public' = [public EXCEPT ![d] = m.stack]
            /\ probes' = probes \ {vols[i].mount}
            /\ vols' = [vols EXCEPT
                   ![i].at = IF m.ok THEN d ELSE 0,
                   ![i].mount = IF m.ok THEN Mount!Last(m.stack) ELSE @]
  BY DEF Mount!Relocate
<1> DEFINE m == Mount!Moved(i, busy, moves)
<1>3. /\ m.stack \in Seq(Mounts)
      /\ m.ok => /\ m.stack # <<>>
                 /\ Mount!Last(m.stack) \in Mounts
                 /\ Mount!Last(m.stack).vol = vols[i].mount.vol
  BY <1>1, MovedGives
<1>4. /\ vols \in Seq(Vols) /\ Len(vols) \in 1..3
      /\ DOMAIN vols = 1..Len(vols) /\ i \in DOMAIN vols
      /\ \A j \in DOMAIN vols : vols[j] \in Vols /\ vols[j].mount \in Mounts
  BY <1>1, VolsAt DEF MountInv, MountType, MovedIsVisible
<1>5. /\ Mount!Primary \in DOMAIN vols /\ d \in 1..3
      /\ \A j, k \in DOMAIN vols :
            Mount!Destination(j) = Mount!Destination(k) => j = k
  BY <1>4, DestinationsApart DEF Mount!Slots
<1> DEFINE ok == m.ok
           top == Mount!Last(m.stack)
<1>6. /\ vols' = [vols EXCEPT ![i] = [vols[i] EXCEPT
                        !.at = IF ok THEN d ELSE 0,
                        !.mount = IF ok THEN top ELSE vols[i].mount]]
      /\ public' = [public EXCEPT ![d] = m.stack]
      /\ probes' = probes \ {vols[i].mount}
      /\ ok \/ i # Mount!Primary
  BY <1>2, <1>4 DEF Mount!GivesUp, Vols
<1>7. /\ ok => m.stack # <<>> /\ top \in Mounts /\ top.vol = vols[i].mount.vol
      /\ ok => top = Mount!Last(m.stack)
  BY <1>3
<1> HIDE DEF m, ok, top, d
<1>8. /\ vols' \in Seq(Vols) /\ DOMAIN vols' = DOMAIN vols
      /\ \A j \in DOMAIN vols : j # i => vols'[j] = vols[j]
      /\ vols'[i].score = vols[i].score
      /\ vols'[i].mount.vol = vols[i].mount.vol
      /\ vols'[i].at = IF ok THEN d ELSE 0
  <2> DEFINE new == [vols[i] EXCEPT !.at = IF ok THEN d ELSE 0,
                                    !.mount = IF ok THEN top ELSE vols[i].mount]
  <2>1. /\ new \in Vols /\ new.score = vols[i].score
        /\ new.mount = (IF ok THEN top ELSE vols[i].mount)
        /\ new.at = (IF ok THEN d ELSE 0)
    <3> DEFINE place == IF ok THEN d ELSE 0
               mount == IF ok THEN top ELSE vols[i].mount
    <3>1. place \in 0..3 /\ mount \in Mounts /\ vols[i] \in Vols
      BY <1>4, <1>5, <1>7
    <3>2. new = [vols[i] EXCEPT !.at = place, !.mount = mount]
      OBVIOUS
    <3> HIDE DEF place, mount, new
    <3>3. /\ new \in Vols /\ new.score = vols[i].score
          /\ new.mount = mount /\ new.at = place
      BY <3>1, <3>2 DEF Vols
    <3> QED BY <3>3 DEF place, mount
  <2>2. vols' = [vols EXCEPT ![i] = new]
    BY <1>6
  <2> HIDE DEF new
  <2> QED BY <1>4, <1>7, <2>1, <2>2
<1>9. Mount!Primary' = Mount!Primary
  BY <1>4, <1>8, SamePrimary
<1>10. \A j : Mount!Destination(j)' = Mount!Destination(j)
  BY <1>9 DEF Mount!Destination
<1>11. /\ public' \in [Mount!Slots -> Seq(Mounts)]
       /\ public'[d] = m.stack
       /\ \A s \in Mount!Slots : s # d => public'[s] = public[s]
  BY <1>3, <1>5, <1>6 DEF MountInv, MountType, Mount!Slots
<1>12. MountType'
  BY <1>1, <1>8, <1>11 DEF MountInv, MountType
<1>13. ProbedOnce'
  <2>1. \A j \in DOMAIN vols : vols'[j].mount.vol = vols[j].mount.vol
    BY <1>8
  <2> QED BY <1>1, <1>8, <2>1 DEF MountInv, ProbedOnce
<1>14. ProbesArePending'
  <2>1. ASSUME NEW x \in probes'
        PROVE  \E j \in DOMAIN vols' : j >= next_move' /\ x = vols'[j].mount
    <3>1. x \in probes /\ x # vols[i].mount
      BY <1>6
    <3>2. PICK j \in DOMAIN vols : j >= next_move /\ x = vols[j].mount
      BY <1>1, <3>1 DEF MountInv, ProbesArePending
    <3>3. j # i /\ j >= next_move + 1
      BY <1>4, <3>1, <3>2
    <3> QED BY <1>1, <1>8, <3>2, <3>3
  <2> QED BY <1>1, <2>1 DEF ProbesArePending
<1>15. MovedIsVisible'
  <2>1. Len(vols') = Len(vols) /\ next_move' \in 1..(Len(vols) + 1)
    BY <1>1, <1>4, <1>8 DEF MountInv, MovedIsVisible
  <2>2. ASSUME NEW j \in DOMAIN vols, j < next_move', vols'[j].at # 0
        PROVE  /\ vols'[j].at = Mount!Destination(j)
               /\ public'[vols'[j].at] # <<>>
               /\ Mount!Last(public'[vols'[j].at]).vol = vols'[j].mount.vol
    <3>1. CASE j = i
      <4>1. ok /\ Mount!Destination(j) = d
        BY <1>5, <1>8, <2>2, <3>1 DEF d
      <4> QED BY <1>7, <1>8, <1>11, <3>1, <4>1
    <3>2. CASE j # i
      <4>1. j < next_move /\ vols'[j] = vols[j]
        BY <1>1, <1>4, <1>8, <2>2, <3>2
      <4>2. Mount!Destination(j) # d /\ Mount!Destination(j) \in Mount!Slots
        BY <1>4, <1>5, <3>2, DestinationsApart DEF d
      <4>3. public'[Mount!Destination(j)] = public[Mount!Destination(j)]
        BY <1>11, <4>2
      <4> QED BY <1>1, <2>2, <4>1, <4>3 DEF MountInv, MovedIsVisible
    <3> QED BY <3>1, <3>2
  <2>3. Mount!Primary < next_move' => vols'[Mount!Primary].at # 0
    <3>1. CASE Mount!Primary = i
      <4>1. ok /\ d = 1
        BY <1>4, <1>6, <3>1, DestinationsApart DEF d
      <4> QED BY <1>8, <3>1, <4>1
    <3>2. CASE Mount!Primary # i
      <4>1. Mount!Primary < next_move' => Mount!Primary < next_move
        BY <1>1, <1>4, <1>5, <3>2
      <4> QED BY <1>1, <1>5, <1>8, <3>2, <4>1 DEF MountInv, MovedIsVisible
    <3> QED BY <3>1, <3>2
  <2> QED BY <1>4, <1>8, <1>9, <1>10, <2>1, <2>2, <2>3 DEF MovedIsVisible
<1>16. MarkerIsHeld' /\ Mount!PublishedIsMounted'
  BY <1>1 DEF MarkerIsHeld, Mount!PublishedIsMounted
<1> QED BY <1>12, <1>13, <1>14, <1>15, <1>16 DEF MountInv

(* Undoing it all. *)
LEMMA GivesUpStep ==
    ASSUME MountInv, Mount!RelocateGivesUp
    PROVE  MountInv'
<1>1. /\ mount_pc' = "poll"
      /\ UNCHANGED <<card, session, mounted, candidates, whole_disk, vols>>
      /\ Mount!UnmountAll([public EXCEPT ![1] = Mount!Unmounted(@, FALSE)], {})
      /\ probes' = {} /\ marker' = <<>>
  BY DEF Mount!RelocateGivesUp, Mount!slot, Mount!UnmountAll
<1>2. public \in [Mount!Slots -> Seq(Mounts)]
  BY DEF MountInv, MountType
<1>3. [public EXCEPT ![1] = Mount!Unmounted(@, FALSE)]
          \in [Mount!Slots -> Seq(Mounts)]
  BY <1>2, UnmountedType DEF Mount!Slots
<1>4. public' \in [Mount!Slots -> Seq(Mounts)]
  BY <1>1, <1>3, UnmountAllType
<1>5. MountType'
  BY <1>1, <1>4 DEF MountInv, MountType
<1>6. ProbedOnce' /\ ProbesArePending' /\ MovedIsVisible'
  BY <1>1 DEF MountInv, ProbedOnce, ProbesArePending, MovedIsVisible
<1>7. MarkerIsHeld' /\ Mount!PublishedIsMounted'
  BY <1>1 DEF MarkerIsHeld, Mount!PublishedIsMounted
<1> QED BY <1>5, <1>6, <1>7 DEF MountInv

(* The map while it is written: the primary, then other volumes of the first *)
(* k that have been moved, each of them once. *)
Lines(m, k) ==
    /\ m \in Seq([at : 0..3, vol : Devs])
    /\ m # <<>>
    /\ m[1] = Mount!Root(vols[Mount!Primary])
    /\ \A j \in DOMAIN m : j # 1 =>
           \E i \in DOMAIN vols :
               /\ i <= k /\ i # Mount!Primary /\ vols[i].at # 0
               /\ m[j] = Mount!Root(vols[i])
    /\ \A j, l \in DOMAIN m : m[j].vol = m[l].vol => j = l

(* A line of the map is added. *)
LEMMA LineAdded ==
    ASSUME MountInv, mount_pc = "relocate",
           NEW m, NEW k \in 1..3, Lines(m, k - 1)
    PROVE  Lines(m \o Mount!Extra(k), k)
<1> DEFINE Roots == [at : 0..3, vol : Devs]
<1>1. /\ m \in Seq(Roots)
      /\ Len(m) \in Nat /\ DOMAIN m = 1..Len(m) /\ Len(m) # 0
  BY DEF Lines
<1>2. /\ vols \in Seq(Vols) /\ Len(vols) \in 1..3 /\ DOMAIN vols = 1..Len(vols)
      /\ Mount!Primary \in DOMAIN vols
      /\ \A i \in DOMAIN vols : vols[i].at \in 0..3 /\ vols[i].mount \in Mounts
      /\ \A i, j \in DOMAIN vols :
            vols[i].mount.vol = vols[j].mount.vol => i = j
  BY VolsAt, DestinationsApart
  DEF MountInv, MountType, MovedIsVisible, ProbedOnce
<1>3. CASE Mount!Extra(k) = <<>>
  <2>1. m \o Mount!Extra(k) = m
    BY <1>1, <1>3
  <2>2. \A i \in DOMAIN vols : i <= k - 1 => i <= k
    BY <1>2
  <2> QED BY <2>1, <2>2 DEF Lines
<1>4. CASE Mount!Extra(k) # <<>>
  <2> DEFINE new == Mount!Root(vols[k])
  <2>1. /\ k \in DOMAIN vols /\ k # Mount!Primary /\ vols[k].at # 0
        /\ Mount!Extra(k) = <<new>>
    BY <1>4 DEF Mount!Extra
  <2>2. \A i \in DOMAIN vols : Mount!Root(vols[i]).vol = vols[i].mount.vol
    BY DEF Mount!Root
  <2>3. new \in Roots
    BY <1>2, <2>1 DEF Mount!Root, Mounts
  <2> HIDE DEF new
  <2> DEFINE longer == m \o Mount!Extra(k)
  <2>4. /\ longer \in Seq(Roots) /\ Len(longer) = Len(m) + 1
        /\ DOMAIN longer = 1..(Len(m) + 1)
        /\ longer[Len(m) + 1] = new
        /\ \A j \in 1..Len(m) : longer[j] = m[j]
    BY <1>1, <2>1, <2>3
  <2> HIDE DEF longer
  <2>5. longer # <<>> /\ longer[1] = Mount!Root(vols[Mount!Primary])
    BY <1>1, <2>4 DEF Lines
  <2>6. ASSUME NEW j \in DOMAIN longer, j # 1
        PROVE  \E i \in DOMAIN vols :
                   /\ i <= k /\ i # Mount!Primary /\ vols[i].at # 0
                   /\ longer[j] = Mount!Root(vols[i])
    <3>1. CASE j = Len(m) + 1
      BY <1>2, <2>1, <2>4, <3>1 DEF new
    <3>2. CASE j \in DOMAIN m
      <4>1. PICK i \in DOMAIN vols :
                /\ i <= k - 1 /\ i # Mount!Primary /\ vols[i].at # 0
                /\ m[j] = Mount!Root(vols[i])
        BY <2>6, <3>2 DEF Lines
      <4>2. i <= k /\ longer[j] = Mount!Root(vols[i])
        BY <1>1, <1>2, <2>4, <3>2, <4>1
      <4> QED BY <4>1, <4>2
    <3> QED BY <1>1, <2>4, <3>1, <3>2
  <2>7. \A j \in DOMAIN m : m[j].vol # new.vol
    <3>1. SUFFICES ASSUME NEW j \in DOMAIN m PROVE m[j].vol # new.vol
      OBVIOUS
    <3>2. new.vol = vols[k].mount.vol
      BY <2>1, <2>2 DEF new
    <3>3. \E i \in DOMAIN vols : i # k /\ m[j] = Mount!Root(vols[i])
      <4>1. CASE j = 1
        BY <1>2, <2>1, <4>1 DEF Lines
      <4>2. CASE j # 1
        <5>1. PICK i \in DOMAIN vols : i <= k - 1 /\ m[j] = Mount!Root(vols[i])
          BY <4>2 DEF Lines
        <5>2. i # k
          BY <1>2, <5>1
        <5> QED BY <5>1, <5>2
      <4> QED BY <4>1, <4>2
    <3>4. PICK i \in DOMAIN vols : i # k /\ m[j] = Mount!Root(vols[i])
      BY <3>3
    <3> QED BY <1>2, <2>1, <2>2, <3>2, <3>4
  <2>8. \A j, l \in DOMAIN longer : longer[j].vol = longer[l].vol => j = l
    <3>1. \A j, l \in DOMAIN m : m[j].vol = m[l].vol => j = l
      BY DEF Lines
    <3> QED BY <1>1, <2>4, <2>7, <3>1
  <2> QED BY <2>4, <2>5, <2>6, <2>8 DEF Lines, longer
<1> QED BY <1>3, <1>4

(* Publishing. *)
LEMMA PublishStep ==
    ASSUME MountInv, Mount!Publish
    PROVE  MountInv'
<1>1. /\ mount_pc = "relocate" /\ next_move > Len(vols)
      /\ mount_pc' = "poll" /\ mounted' = TRUE
      /\ UNCHANGED <<card, session, candidates, whole_disk, vols, next_move,
                     probes, public>>
  BY DEF Mount!Publish, Mount!slot
<1>2. /\ vols \in Seq(Vols) /\ Len(vols) \in 1..3 /\ DOMAIN vols = 1..Len(vols)
      /\ Mount!Primary \in DOMAIN vols /\ Mount!Destination(Mount!Primary) = 1
      /\ \A i \in DOMAIN vols : vols[i].at \in 0..3 /\ vols[i].mount \in Mounts
      /\ next_move \in 1..(Len(vols) + 1)
      /\ \A i \in DOMAIN vols : i < next_move
  BY <1>1, VolsAt, DestinationsApart DEF MountInv, MountType, MovedIsVisible
<1>3. mounted' \in BOOLEAN
  BY <1>1, Zenon
<1>4. MountType'
  BY <1>1, <1>3 DEF MountInv, MountType
<1>5. probes = {}
  <2>1. ASSUME NEW x \in probes PROVE FALSE
    <3>1. PICK i \in DOMAIN vols : i >= next_move
      BY <1>1 DEF MountInv, ProbesArePending
    <3> QED BY <1>2, <3>1
  <2> QED BY <2>1
<1>6. ProbedOnce' /\ ProbesArePending' /\ MovedIsVisible' /\ MarkerIsHeld'
  BY <1>1, <1>5
  DEF MountInv, ProbedOnce, ProbesArePending, MovedIsVisible, MarkerIsHeld
<1>7. \A i \in DOMAIN vols : vols[i].at # 0 =>
          Mount!Visible(Mount!Root(vols[i]).at).vol = Mount!Root(vols[i]).vol
  BY <1>1, <1>2 DEF MountInv, MovedIsVisible, Mount!Root, Mount!Visible
<1>8. vols[Mount!Primary].at = 1
  BY <1>1, <1>2 DEF MountInv, MovedIsVisible
<1> DEFINE first == Mount!Root(vols[Mount!Primary])
<1>9. Lines(<<first>>, 0)
  <2>1. first \in [at : 0..3, vol : Devs]
    BY <1>2 DEF Mount!Root, Mounts
  <2> HIDE DEF first
  <2>2. /\ <<first>> \in Seq([at : 0..3, vol : Devs]) /\ <<first>> # <<>>
        /\ DOMAIN <<first>> = {1} /\ <<first>>[1] = first
    BY <2>1
  <2> QED BY <2>2 DEF Lines, first
<1>10. Lines(marker', 3)
  <2>1. Lines(<<first>> \o Mount!Extra(1), 1)
    BY <1>1, <1>9, LineAdded
  <2>2. Lines(<<first>> \o Mount!Extra(1) \o Mount!Extra(2), 2)
    BY <1>1, <2>1, LineAdded
  <2>3. Lines(<<first>> \o Mount!Extra(1) \o Mount!Extra(2) \o Mount!Extra(3),
              3)
    BY <1>1, <2>2, LineAdded
  <2> QED BY <2>3 DEF Mount!Publish
<1>11. Mount!PublishedIsMounted'
  <2>1. marker'[1].at = 1
    BY <1>8, <1>10 DEF Lines, Mount!Root
  <2>2. ASSUME NEW j \in DOMAIN marker'
        PROVE  Mount!Visible(marker'[j].at).vol = marker'[j].vol
    <3>1. CASE j = 1
      BY <1>2, <1>7, <1>8, <1>10, <3>1 DEF Lines
    <3>2. CASE j # 1
      BY <1>7, <1>10, <2>2, <3>2 DEF Lines
    <3> QED BY <3>1, <3>2
  <2>3. \A s : Mount!Visible(s)' = Mount!Visible(s)
    BY <1>1 DEF Mount!Visible
  <2>4. \A j, l \in DOMAIN marker' : marker'[j].vol = marker'[l].vol => j = l
    BY <1>10 DEF Lines
  <2> QED BY <2>1, <2>2, <2>3, <2>4 DEF Mount!PublishedIsMounted
<1> QED BY <1>4, <1>6, <1>11 DEF MountInv

(* Every step of the service keeps the invariant. *)
LEMMA MountInductive ==
    ASSUME Mount!CardsAssumption, MountInv, [Mount!Next]_(Mount!vars)
    PROVE  MountInv'
BY UserSteps, PollMountsStep, MountAllStartStep, ProbeStep, ProbeEndStep,
   RelocateStep, GivesUpStep, PublishStep
DEF Mount!Next, Mount!Service

(* At a poll the map is true and no probe is left. *)
LEMMA MountInvGives ==
    ASSUME MountInv
    PROVE  Mount!PublishedIsMounted /\ Mount!NoProbeLeft
BY DEF MountInv, ProbesArePending, Mount!NoProbeLeft

MountPart == part = "mount" => MountInv

(* For every set of cards, whenever they are pulled or put in, and          *)
(* whichever umount, move or second mount fails: every root of the          *)
(* published map shows the volume it names, the primary at /mnt/sd, no      *)
(* volume is published twice and none is left on a probe mountpoint.        *)
THEOREM MapIsTrue == Spec => []MountPublishesWhatIsThere
<1>1. Init => MountPart
  BY PartStarts, MountStarts DEF MountPart
<1>2. MountPart /\ [Next]_vars => MountPart'
  <2> SUFFICES ASSUME MountPart, [Next]_vars, part' = "mount" PROVE MountInv'
    BY DEF MountPart
  <2>1. MountInv /\ [Mount!Next]_(Mount!vars)
    BY PartSteps DEF MountPart
  <2> QED BY <2>1, StorageAssumption, MountInductive
<1>3. MountPart => MountPublishesWhatIsThere
  BY MountInvGives DEF MountPart, MountPublishesWhatIsThere
<1> QED BY <1>1, <1>2, <1>3, PTL DEF Spec

----------------------------------------------------------------------------
(* Induction over the numbers, and division.                               *)

(* A set of numbers has a least one. *)
LEMMA LeastNumber ==
    ASSUME NEW T \in SUBSET Nat, T # {}
    PROVE  \E m \in T : \A k \in T : m <= k
<1>1. \A R : IsWellFoundedOn(R, Nat)
                 => \E m \in T : \A k \in T : <<k, m>> \notin R
  BY WFMin
<1>2. PICK m \in T : \A k \in T : <<k, m>> \notin OpToRel(<, Nat)
  BY <1>1, NatLessThanWellFounded
<1>3. \A k \in T : ~(k < m)
  BY <1>2 DEF OpToRel
<1> QED BY <1>3

(* Induction: a set of numbers that holds 0 and with a number the next one *)
(* holds all of them.                                                      *)
LEMMA AllNumbers ==
    ASSUME NEW T, 0 \in T, \A n \in Nat : n \in T => n + 1 \in T
    PROVE  \A n \in Nat : n \in T
<1> DEFINE U == {n \in Nat : n \notin T}
<1>1. SUFFICES ASSUME U # {} PROVE FALSE
  OBVIOUS
<1>2. PICK m \in U : \A k \in U : m <= k
  BY <1>1, LeastNumber
<1>3. m \in Nat /\ m # 0 /\ m - 1 \in Nat /\ m - 1 \notin U
  BY <1>2
<1>4. m - 1 \in T
  BY <1>3
<1>5. (m - 1) + 1 \in T
  BY <1>3, <1>4
<1> QED BY <1>3, <1>5

(* A function can be applied any number of times. *)
LEMMA Iterates ==
    ASSUME NEW S, NEW a \in S, NEW G \in [S -> S]
    PROVE  \E f \in [Nat -> S] : f[0] = a /\ \A n \in Nat : f[n + 1] = G[f[n]]
<1> DEFINE Run(g, n) == /\ g \in [0..n -> S] /\ g[0] = a
                        /\ \A i \in 1..n : g[i] = G[g[i - 1]]
           T == {n \in Nat : \E g : Run(g, n)}
<1>1. 0 \in T
  <2>1. Run([i \in 0..0 |-> a], 0)
    OBVIOUS
  <2> QED BY <2>1
<1>2. ASSUME NEW n \in Nat, n \in T PROVE n + 1 \in T
  <2>1. PICK g : Run(g, n)
    BY <1>2
  <2> DEFINE h == [i \in 0..(n + 1) |-> IF i <= n THEN g[i] ELSE G[g[n]]]
  <2>2. Run(h, n + 1)
    <3>1. h \in [0..(n + 1) -> S] /\ h[0] = a
      BY <2>1
    <3>2. ASSUME NEW i \in 1..(n + 1) PROVE h[i] = G[h[i - 1]]
      <4>1. CASE i = n + 1
        BY <4>1
      <4>2. CASE i \in 1..n
        BY <2>1, <4>2
      <4> QED BY <4>1, <4>2
    <3> QED BY <3>1, <3>2
  <2> QED BY <2>2
<1>3. \A n \in Nat : \E g : Run(g, n)
  <2> HIDE DEF Run
  <2>1. \A n \in Nat : n \in T
    <3> HIDE DEF T
    <3> QED BY <1>1, <1>2, AllNumbers
  <2> QED BY <2>1
<1>4. ASSUME NEW n \in Nat, NEW p \in Nat, NEW g, NEW h, Run(g, n), Run(h, p),
             NEW k \in Nat, k <= n, k <= p
      PROVE  g[k] = h[k]
  <2> DEFINE V == {i \in Nat : i <= n /\ i <= p => g[i] = h[i]}
  <2>1. 0 \in V
    BY <1>4
  <2>2. ASSUME NEW i \in Nat, i \in V PROVE i + 1 \in V
    <3>1. SUFFICES ASSUME i + 1 <= n, i + 1 <= p PROVE g[i + 1] = h[i + 1]
      OBVIOUS
    <3>2. g[i] = h[i] /\ i + 1 \in 1..n /\ i + 1 \in 1..p /\ (i + 1) - 1 = i
      BY <2>2, <3>1
    <3> QED BY <1>4, <3>2
  <2>3. \A i \in Nat : i \in V
    <3> HIDE DEF V
    <3> QED BY <2>1, <2>2, AllNumbers
  <2> QED BY <1>4, <2>3
<1> DEFINE one(n) == CHOOSE g : Run(g, n)
           f == [n \in Nat |-> one(n)[n]]
<1>5. \A n \in Nat : Run(one(n), n)
  <2> HIDE DEF Run
  <2> QED BY <1>3
<1>6. f \in [Nat -> S] /\ f[0] = a
  <2> HIDE DEF one
  <2> QED BY <1>5
<1>7. ASSUME NEW n \in Nat PROVE f[n + 1] = G[f[n]]
  <2> HIDE DEF one
  <2>1. Run(one(n), n) /\ Run(one(n + 1), n + 1)
    BY <1>5
  <2>2. one(n + 1)[n + 1] = G[one(n + 1)[(n + 1) - 1]]
    BY <2>1
  <2>3. one(n + 1)[n] = one(n)[n]
    <3> HIDE DEF Run
    <3> QED BY <1>4, <2>1
  <2> QED BY <2>2, <2>3
<1> QED BY <1>6, <1>7

(* Quotient and remainder. *)
LEMMA DivMod ==
    ASSUME NEW x \in Nat, NEW d \in Nat \ {0}
    PROVE  /\ x \div d \in Nat /\ x % d \in 0..d - 1
           /\ x = (x \div d) * d + (x % d)
OBVIOUS

(* A larger number has a larger multiple. *)
LEMMA Times ==
    ASSUME NEW a \in Int, NEW b \in Int, NEW d \in Nat, a <= b
    PROVE  a * d <= b * d
OBVIOUS

(* Quotient and remainder are the only ones. *)
LEMMA DivUnique ==
    ASSUME NEW x \in Nat, NEW d \in Nat \ {0}, NEW q \in Int,
           NEW r \in 0..d - 1,
           x = q * d + r
    PROVE  x \div d = q /\ x % d = r
<1> DEFINE p == x \div d
           s == x % d
<1>1. p \in Int /\ s \in 0..d - 1 /\ x = p * d + s
  BY DivMod
<1> HIDE DEF p, s
<1>2. CASE p = q
  BY <1>1, <1>2 DEF p, s
<1>3. CASE p < q
  <2>1. (p + 1) * d <= q * d
    BY <1>1, <1>3, Times
  <2>2. (p + 1) * d = p * d + d
    BY <1>1
  <2> QED BY <1>1, <2>1, <2>2
<1>4. CASE q < p
  <2>1. (q + 1) * d <= p * d
    BY <1>1, <1>4, Times
  <2>2. (q + 1) * d = q * d + d
    BY <1>1
  <2> QED BY <1>1, <2>1, <2>2
<1> QED BY <1>1, <1>2, <1>3, <1>4

(* The next number is the next of the block, or the first of the next block. *)
LEMMA Advance ==
    ASSUME NEW x \in Nat, NEW d \in Nat \ {0}
    PROVE  /\ x % d # d - 1 =>
                  (x + 1) % d = (x % d) + 1 /\ (x + 1) \div d = x \div d
           /\ x % d = d - 1 =>
                  (x + 1) % d = 0 /\ (x + 1) \div d = x \div d + 1
<1> DEFINE q == x \div d
           r == x % d
<1>1. q \in Nat /\ r \in 0..d - 1 /\ x = q * d + r
  BY DivMod
<1> HIDE DEF q, r
<1>2. CASE r # d - 1
  <2>1. r + 1 \in 0..d - 1 /\ x + 1 = q * d + (r + 1)
    BY <1>1, <1>2
  <2>2. (x + 1) \div d = q /\ (x + 1) % d = r + 1
    BY <1>1, <2>1, DivUnique
  <2> QED BY <1>2, <2>2 DEF q, r
<1>3. CASE r = d - 1
  <2>1. x + 1 = (q + 1) * d + 0
    <3>1. (q + 1) * d = q * d + d
      BY <1>1
    <3> QED BY <1>1, <1>3, <3>1
  <2>2. (x + 1) \div d = q + 1 /\ (x + 1) % d = 0
    BY <1>1, <2>1, DivUnique
  <2> QED BY <1>1, <1>3, <2>2 DEF q, r
<1> QED BY <1>2, <1>3 DEF r

(* A larger number is in no earlier block. *)
LEMMA DivGrows ==
    ASSUME NEW x \in Nat, NEW y \in Nat, NEW d \in Nat \ {0}, x <= y
    PROVE  x \div d <= y \div d
<1> DEFINE p == x \div d
           q == y \div d
<1>1. /\ p \in Nat /\ q \in Nat /\ x = p * d + (x % d) /\ x % d \in 0..d - 1
      /\ y = q * d + (y % d) /\ y % d \in 0..d - 1
  BY DivMod
<1> HIDE DEF p, q
<1>2. CASE q < p
  <2>1. (q + 1) * d <= p * d
    BY <1>1, <1>2, Times
  <2>2. (q + 1) * d = q * d + d
    BY <1>1
  <2> QED BY <1>1, <2>1, <2>2
<1> QED BY <1>1, <1>2 DEF p, q

----------------------------------------------------------------------------
(* The loader's log.                                                       *)

(* A sector of the table, and the state of a walk along it. *)
FatBuf == [0..FatEntries - 1 -> Int]
WalkState == [cluster : Int, ok : BOOLEAN, tag : Int, buf : FatBuf]

(* The values of the boot log. *)
LogType ==
    /\ fat \in Fats
    /\ sectors \in [Log!DataSectors -> [0..SectorSize - 1 -> Int]]
    /\ log_ready \in BOOLEAN
    /\ log_tried \in BOOLEAN
    /\ log_pos \in 0..Limit
    /\ log_sector \in [0..SectorSize - 1 -> Int]
    /\ log_sector_index \in Log!SectorsUsed \cup {Log!None}
    /\ log_fat_lba \in Int
    /\ log_fat_sector \in FatBuf
    /\ torn \in BOOLEAN

(* The cached sector of the table is the one on the card. *)
CacheIsTrue(tag, buf) == Log!CacheIsTrue(tag, buf)

(* A walk leaves it so, unless it ended in a read that failed half-way. *)
Kept(w, bad) == w.ok \/ ~Log!Partial(bad) => CacheIsTrue(w.tag, w.buf)

(* The buffer holds the text since the last full sector. *)
BufferHolds ==
    /\ ~log_tried => ~log_ready
    /\ ~log_ready => log_pos = 0 /\ log_sector_index = Log!None
    /\ log_sector_index = Log!None => log_pos % SectorSize = 0
    /\ log_sector_index # Log!None =>
           /\ log_pos % SectorSize # 0
           /\ log_sector_index = log_pos \div SectorSize
           /\ \A i \in 0..SectorSize - 1 :
                  i < log_pos % SectorSize =>
                      log_sector[i] = log_sector_index * SectorSize + i + 1

(* What holds until a torn read has mixed two sectors in the cache. *)
LogClean ==
    /\ CacheIsTrue(log_fat_lba, log_fat_sector)
    /\ Log!OnlyLogSectors
    /\ Log!FlushedTextIsOnCard

LogInv == LogType /\ BufferHolds /\ (~torn => LogClean)

(* The clusters of the file, one after the other. *)
LEMMA ClusterUnfolds ==
    ASSUME Log!LogAssumption, fat \in Fats
    PROVE  /\ Log!NthCluster \in [Nat -> Int]
           /\ Log!NthCluster[0] = LogStart
           /\ \A n \in Nat : Log!NthCluster[n + 1] =
                  IF /\ Log!NthCluster[n] \in Log!Clusters
                     /\ fat[Log!NthCluster[n]] \in Log!Clusters
                  THEN fat[Log!NthCluster[n]] ELSE Log!None
<1> DEFINE After(c) ==
      IF c \in Log!Clusters /\ fat[c] \in Log!Clusters THEN fat[c] ELSE Log!None
           G == [c \in Int |-> After(c)]
           Def(f) == [n \in Nat |-> IF n = 0 THEN LogStart ELSE After(f[n - 1])]
<1>1. LogStart \in Int /\ G \in [Int -> Int]
  BY DEF Log!LogAssumption, Log!Clusters, Log!None
<1>2. PICK f \in [Nat -> Int] :
        f[0] = LogStart /\ \A n \in Nat : f[n + 1] = G[f[n]]
  <2> DEFINE St == Int
  <2>1. LogStart \in St /\ G \in [St -> St]
    BY <1>1
  <2>2. \E f \in [Nat -> St] :
          f[0] = LogStart /\ \A n \in Nat : f[n + 1] = G[f[n]]
    <3> HIDE DEF G, St
    <3> QED BY <2>1, Iterates
  <2> QED BY <2>2
<1>3. f = Def(f)
  <2>1. ASSUME NEW n \in Nat PROVE f[n] = Def(f)[n]
    <3>1. CASE n = 0
      BY <1>2, <3>1
    <3>2. CASE n # 0
      <4>1. n - 1 \in Nat /\ (n - 1) + 1 = n
        BY <3>2
      <4>2. f[n] = G[f[n - 1]] /\ f[n - 1] \in Int
        BY <1>2, <4>1
      <4> QED BY <3>2, <4>2
    <3> QED BY <3>1, <3>2
  <2> QED BY <1>2, <2>1
<1>4. Log!NthCluster = CHOOSE g : g = Def(g)
  BY DEF Log!NthCluster
<1>5. Log!NthCluster = Def(Log!NthCluster)
  <2> HIDE DEF Def
  <2> QED BY <1>3, <1>4
<1>6. /\ Log!NthCluster[0] = LogStart
      /\ \A n \in Nat : Log!NthCluster[n + 1] = After(Log!NthCluster[n])
  <2>1. Log!NthCluster[0] = LogStart
    BY <1>5
  <2>2. ASSUME NEW n \in Nat
        PROVE  Log!NthCluster[n + 1] = After(Log!NthCluster[n])
    <3>1. n + 1 \in Nat /\ n + 1 # 0 /\ (n + 1) - 1 = n
      OBVIOUS
    <3> HIDE DEF After
    <3> QED BY <1>5, <3>1
  <2> QED BY <2>1, <2>2
<1>7. \A n \in Nat : Log!NthCluster[n] \in Int
  <2> DEFINE T == {n \in Nat : Log!NthCluster[n] \in Int}
  <2>1. 0 \in T /\ \A n \in Nat : n \in T => n + 1 \in T
    BY <1>6 DEF Log!LogAssumption, Log!Clusters, Log!None
  <2>2. \A n \in Nat : n \in T
    <3> HIDE DEF T
    <3> QED BY <2>1, AllNumbers
  <2> QED BY <2>2
<1>8. Log!NthCluster \in [Nat -> Int]
  <2> HIDE DEF After
  <2> QED BY <1>5, <1>7
<1> QED BY <1>6, <1>8

(* A sector of the table as it is read. *)
LEMMA TableSector ==
    ASSUME Log!LogAssumption, fat \in Fats, NEW c \in Log!Clusters
    PROVE  /\ Log!FatSectorOf(c) \in Nat
           /\ Log!ReadFat(Log!FatSectorOf(c)) \in FatBuf
           /\ c % FatEntries \in 0..FatEntries - 1
           /\ Log!ReadFat(Log!FatSectorOf(c))[c % FatEntries] = fat[c]
           /\ fat[c] \in Nat
<1>1. c \in Nat /\ FatEntries \in Nat \ {0}
  BY DEF Log!LogAssumption, Log!Clusters
<1>2. /\ c \div FatEntries \in Nat /\ c % FatEntries \in 0..FatEntries - 1
      /\ c = (c \div FatEntries) * FatEntries + (c % FatEntries)
  BY <1>1, DivMod
<1>3. \A i \in 0..FatEntries - 1 :
          fat[(c \div FatEntries) * FatEntries + i] \in Nat
  BY DEF Log!LogAssumption, Log!Clusters
<1> QED BY <1>2, <1>3 DEF Log!FatSectorOf, Log!ReadFat, FatBuf

(* What a failing read leaves in the buffer. *)
LEMMA TornBuffer ==
    ASSUME Log!LogAssumption, NEW bad \in Log!Failures, NEW k \in DOMAIN bad,
           NEW buf \in FatBuf, Log!ReadFat(k) \in FatBuf
    PROVE  /\ Log!Transferred(buf, k, bad[k]) \in FatBuf
           /\ ~Log!Partial(bad) => Log!Transferred(buf, k, bad[k]) = buf
<1>1. bad[k] \in 0..FatEntries /\ FatEntries \in Nat
  <2>1. PICK K : bad \in [K -> 0..FatEntries]
    <3> DEFINE Domains == {{}} \cup {{Log!FatSectorOf(c)} : c \in Log!Clusters}
    <3>1. bad \in UNION {[K -> 0..FatEntries] : K \in Domains}
      BY DEF Log!Failures
    <3> HIDE DEF Domains
    <3> QED BY <3>1
  <2>2. bad[k] \in 0..FatEntries
    BY <2>1
  <2> QED BY <2>2 DEF Log!LogAssumption
<1>2. Log!Transferred(buf, k, bad[k]) \in FatBuf
  BY <1>1 DEF Log!Transferred, FatBuf
<1>3. ASSUME ~Log!Partial(bad) PROVE Log!Transferred(buf, k, bad[k]) = buf
  <2>1. bad[k] = 0
    BY <1>1, <1>3 DEF Log!Partial
  <2>2. \A i \in 0..FatEntries - 1 : Log!Transferred(buf, k, bad[k])[i] = buf[i]
    BY <2>1, <1>1 DEF Log!Transferred
  <2> DEFINE t == Log!Transferred(buf, k, bad[k])
  <2>3. /\ t \in [0..FatEntries - 1 -> Int] /\ buf \in [0..FatEntries - 1 -> Int]
        /\ \A i \in 0..FatEntries - 1 : t[i] = buf[i]
    BY <1>2, <2>2 DEF FatBuf
  <2> HIDE DEF t
  <2>4. t = buf
    <3>1. /\ t = [i \in 0..FatEntries - 1 |-> t[i]]
          /\ buf = [i \in 0..FatEntries - 1 |-> buf[i]]
      BY <2>3
    <3> QED BY <2>3, <3>1, Zenon
  <2> QED BY <2>4 DEF t
<1> QED BY <1>2, <1>3

(* One link. *)
LEMMA OneLink ==
    ASSUME Log!LogAssumption, fat \in Fats, NEW w \in WalkState,
           NEW bad \in Log!Failures
    PROVE  LET v == Log!FatNext(w, bad)
           IN  /\ v \in WalkState
               /\ Kept(w, bad) =>
                   /\ Kept(v, bad)
                   /\ v.ok => /\ w.ok
                              /\ w.cluster \in Log!Clusters
                              /\ v.cluster = fat[w.cluster]
                   /\ w.ok /\ DOMAIN bad = {} /\ w.cluster \in Log!Clusters
                          /\ fat[w.cluster] \in Log!Clusters => v.ok
<1> DEFINE k == Log!FatSectorOf(w.cluster)
           l == Log!Loaded(w, k, bad)
<1>1. CASE ~w.ok \/ w.cluster \notin Log!Clusters
  <2>1. Log!FatNext(w, bad) = w \/ Log!FatNext(w, bad) = [w EXCEPT !.ok = FALSE]
    BY <1>1 DEF Log!FatNext
  <2>2. ~w.ok => Log!FatNext(w, bad) = w
    BY DEF Log!FatNext
  <2>3. w.ok => Log!FatNext(w, bad) = [w EXCEPT !.ok = FALSE]
    BY <1>1 DEF Log!FatNext
  <2> QED BY <1>1, <2>1, <2>2, <2>3 DEF WalkState, Kept
<1>2. CASE w.ok /\ w.cluster \in Log!Clusters
  <2>1. /\ k \in Nat /\ Log!ReadFat(k) \in FatBuf
        /\ w.cluster % FatEntries \in 0..FatEntries - 1
        /\ Log!ReadFat(k)[w.cluster % FatEntries] = fat[w.cluster]
        /\ fat[w.cluster] \in Nat
    BY <1>2, TableSector
  <2>2. w.tag = k /\ Kept(w, bad) => w.buf = Log!ReadFat(k)
    BY <1>2, <2>1 DEF Kept, CacheIsTrue, Log!CacheIsTrue, Log!None
  <2> DEFINE rest == Log!Transferred(w.buf, k, bad[k])
             read == [w EXCEPT !.tag = k, !.buf = Log!ReadFat(k)]
             failed == [w EXCEPT !.ok = FALSE, !.buf = rest]
  <2>3. k \in DOMAIN bad =>
            rest \in FatBuf /\ (~Log!Partial(bad) => rest = w.buf)
    <3>1. w.buf \in FatBuf
      BY DEF WalkState
    <3> HIDE DEF k
    <3> QED BY <2>1, <3>1, TornBuffer
  <2>4. read \in WalkState /\ read.tag = k /\ read.buf = Log!ReadFat(k)
        /\ read.ok = w.ok /\ read.cluster = w.cluster
    <3> DEFINE s == Log!ReadFat(k)
    <3>1. k \in Int /\ s \in FatBuf
      BY <2>1
    <3> HIDE DEF k, s
    <3>2. /\ [w EXCEPT !.tag = k, !.buf = s] \in WalkState
          /\ [w EXCEPT !.tag = k, !.buf = s].tag = k
          /\ [w EXCEPT !.tag = k, !.buf = s].buf = s
          /\ [w EXCEPT !.tag = k, !.buf = s].ok = w.ok
          /\ [w EXCEPT !.tag = k, !.buf = s].cluster = w.cluster
      BY <3>1 DEF WalkState
    <3> QED BY <3>2 DEF s
  <2>5. k \in DOMAIN bad =>
            failed \in WalkState /\ failed.tag = w.tag /\ failed.buf = rest
            /\ failed.ok = FALSE
    <3> HIDE DEF k, rest
    <3> QED BY <2>3 DEF WalkState
  <2> HIDE DEF k, rest
  <2>6. \/ l = failed /\ k \in DOMAIN bad
        \/ l \in {w, read} /\ l.tag = k /\ l.buf = w.buf /\ w.tag = k
        \/ l = read
    BY DEF Log!Loaded, rest
  <2>7. CASE l = failed /\ k \in DOMAIN bad
    <3>1. Log!FatNext(w, bad) = failed
      BY <1>2, <2>5, <2>7 DEF Log!FatNext, k
    <3>2. Kept(w, bad) => Kept(failed, bad)
      BY <1>2, <2>3, <2>5, <2>7 DEF Kept
    <3> QED BY <2>5, <2>7, <3>1, <3>2
  <2>8. CASE l \in {w, read} /\ (l = read \/ w.tag = k)
    <3>1. l \in WalkState /\ l.ok /\ l.cluster = w.cluster
      BY <1>2, <2>4, <2>8
    <3>2. Kept(w, bad) => l.tag = k /\ l.buf = Log!ReadFat(k)
      BY <2>2, <2>4, <2>8
    <3>3. Kept(w, bad) => /\ CacheIsTrue(l.tag, l.buf)
                          /\ l.buf[w.cluster % FatEntries] = fat[w.cluster]
      BY <2>1, <3>2 DEF CacheIsTrue, Log!CacheIsTrue
    <3> DEFINE value == l.buf[w.cluster % FatEntries]
    <3>4. value \in Int
      BY <2>1, <3>1 DEF WalkState, FatBuf
    <3>5. Log!FatNext(w, bad) =
            IF value >= Log!Eoc THEN [l EXCEPT !.ok = FALSE]
            ELSE [l EXCEPT !.cluster = value]
      BY <1>2, <3>1 DEF Log!FatNext, k
    <3> HIDE DEF l, value
    <3>6. CASE value >= Log!Eoc
      <4>1. Log!FatNext(w, bad) = [l EXCEPT !.ok = FALSE]
        BY <3>5, <3>6
      <4>2. value \notin Log!Clusters
        BY <3>4, <3>6 DEF Log!Eoc, Log!Clusters, Log!LogAssumption
      <4> QED BY <3>1, <3>3, <4>1, <4>2 DEF WalkState, Kept, value
    <3>7. CASE ~(value >= Log!Eoc)
      <4>1. Log!FatNext(w, bad) = [l EXCEPT !.cluster = value]
        BY <3>5, <3>7
      <4> QED BY <1>2, <3>1, <3>3, <3>4, <4>1 DEF WalkState, Kept, value
    <3> QED BY <3>6, <3>7
  <2> QED BY <2>6, <2>7, <2>8
<1> QED BY <1>1, <1>2

(* The walk link by link. *)
LEMMA LinksUnfold ==
    ASSUME Log!LogAssumption, LogType, NEW bad \in Log!Failures
    PROVE  /\ \A n \in Nat : /\ Log!Links(bad)[n] \in WalkState
                             /\ CacheIsTrue(log_fat_lba, log_fat_sector)
                                    => Kept(Log!Links(bad)[n], bad)
                             /\ Log!Links(bad)[n + 1] =
                                    Log!FatNext(Log!Links(bad)[n], bad)
           /\ Log!Links(bad)[0].ok /\ Log!Links(bad)[0].cluster = LogStart
<1> DEFINE first == [cluster |-> LogStart, ok |-> TRUE, tag |-> log_fat_lba,
                     buf |-> log_fat_sector]
           true == CacheIsTrue(log_fat_lba, log_fat_sector)
           S == {w \in WalkState : true => Kept(w, bad)}
           G == [w \in S |-> Log!FatNext(w, bad)]
           Def(f) == [n \in Nat |-> IF n = 0 THEN first
                                    ELSE Log!FatNext(f[n - 1], bad)]
<1>1. first \in S
  <2>1. /\ LogStart \in Int /\ log_fat_lba \in Int /\ log_fat_sector \in FatBuf
        /\ TRUE \in BOOLEAN
    BY DEF Log!LogAssumption, LogType
  <2>2. first \in WalkState
    BY <2>1, Zenon DEF WalkState
  <2>3. first.tag = log_fat_lba /\ first.buf = log_fat_sector
    OBVIOUS
  <2> QED BY <2>2, <2>3 DEF Kept
<1>2. G \in [S -> S]
  <2>1. ASSUME NEW w \in S PROVE Log!FatNext(w, bad) \in S
    BY OneLink DEF LogType
  <2> QED BY <2>1
<1>3. first.ok /\ first.cluster = LogStart
  OBVIOUS
<1> HIDE DEF first, true, S
<1>4. PICK f \in [Nat -> S] : f[0] = first /\ \A n \in Nat : f[n + 1] = G[f[n]]
  <2> HIDE DEF G
  <2> QED BY <1>1, <1>2, Iterates
<1>5. f = Def(f)
  <2>1. ASSUME NEW n \in Nat PROVE f[n] = Def(f)[n]
    <3>1. CASE n = 0
      BY <1>4, <3>1
    <3>2. CASE n # 0
      <4>1. n - 1 \in Nat /\ (n - 1) + 1 = n
        BY <3>2
      <4>2. f[n] = G[f[n - 1]] /\ f[n - 1] \in S
        BY <1>4, <4>1
      <4> QED BY <3>2, <4>2
    <3> QED BY <3>1, <3>2
  <2>2. f = [n \in Nat |-> f[n]]
    BY <1>4
  <2> QED BY <2>1, <2>2
<1>6. Log!Links(bad) = CHOOSE g : g = Def(g)
  BY DEF Log!Links, first
<1>7. Log!Links(bad) = Def(Log!Links(bad))
  <2> HIDE DEF Def
  <2> QED BY <1>5, <1>6
<1>8. /\ Log!Links(bad)[0] = first
      /\ \A n \in Nat :
             Log!Links(bad)[n + 1] = Log!FatNext(Log!Links(bad)[n], bad)
  <2>1. Log!Links(bad)[0] = first
    BY <1>7
  <2>2. ASSUME NEW n \in Nat
        PROVE  Log!Links(bad)[n + 1] = Log!FatNext(Log!Links(bad)[n], bad)
    <3>1. n + 1 \in Nat /\ n + 1 # 0 /\ (n + 1) - 1 = n
      OBVIOUS
    <3> QED BY <1>7, <3>1
  <2> QED BY <2>1, <2>2
<1>9. \A n \in Nat : Log!Links(bad)[n] \in S
  <2> DEFINE T == {n \in Nat : Log!Links(bad)[n] \in S}
  <2>1. 0 \in T /\ \A n \in Nat : n \in T => n + 1 \in T
    BY <1>1, <1>2, <1>8
  <2>2. \A n \in Nat : n \in T
    <3> HIDE DEF T
    <3> QED BY <2>1, AllNumbers
  <2> QED BY <2>2
<1> QED BY <1>3, <1>8, <1>9 DEF S, true

(* A walk, whatever the cache held. *)
LEMMA WalkTypes ==
    ASSUME Log!LogAssumption, LogType, NEW bad \in Log!Failures, NEW k \in Nat
    PROVE  Log!Walk(k, bad) \in WalkState
<1> DEFINE w == Log!Links(bad)[k \div ClusterSize]
           ok == w.ok /\ w.cluster \in Log!Clusters
<1>1. w \in WalkState
  <2>1. k \div ClusterSize \in Nat
    BY DivMod DEF Log!LogAssumption
  <2> QED BY <2>1, LinksUnfold
<1>2. Log!Walk(k, bad) = [w EXCEPT !.ok = ok]
  BY DEF Log!Walk
<1>3. ok \in BOOLEAN
  OBVIOUS
<1> HIDE DEF w, ok
<1> QED BY <1>1, <1>2, <1>3 DEF WalkState

(* The walk finds a sector of the file, or fails; without an error it finds *)
(* every sector the file has. *)
LEMMA WalkFinds ==
    ASSUME Log!LogAssumption, LogType, CacheIsTrue(log_fat_lba, log_fat_sector),
           NEW bad \in Log!Failures, NEW k \in Nat
    PROVE  LET w == Log!Walk(k, bad)
           IN  /\ w.ok \/ ~Log!Partial(bad) => CacheIsTrue(w.tag, w.buf)
               /\ w.ok =>
                      Log!FileHas(k) /\ Log!LogFileLba(w, k) = Log!FileSector(k)
               /\ Log!FileHas(k) /\ DOMAIN bad = {} => w.ok
<1> DEFINE L == Log!Links(bad)
           T == {n \in Nat : /\ L[n].ok /\ L[n].cluster \in Log!Clusters =>
                                    L[n].cluster = Log!NthCluster[n]
                             /\ DOMAIN bad = {}
                                /\ Log!NthCluster[n] \in Log!Clusters =>
                                    L[n].ok /\ L[n].cluster = Log!NthCluster[n]}
<1>1. 0 \in T
  BY LinksUnfold, ClusterUnfolds DEF LogType
<1>2. ASSUME NEW n \in Nat, n \in T PROVE n + 1 \in T
  <2>1. /\ L[n] \in WalkState /\ Kept(L[n], bad)
        /\ L[n + 1] = Log!FatNext(L[n], bad)
    BY LinksUnfold
  <2> DEFINE w == L[n]
             v == L[n + 1]
  <2>2. /\ v.ok =>
               w.ok /\ w.cluster \in Log!Clusters /\ v.cluster = fat[w.cluster]
        /\ w.ok /\ DOMAIN bad = {} /\ w.cluster \in Log!Clusters
               /\ fat[w.cluster] \in Log!Clusters => v.ok
    <3> HIDE DEF L
    <3> QED BY <2>1, OneLink DEF LogType
  <2>3. Log!NthCluster[n + 1] =
            IF /\ Log!NthCluster[n] \in Log!Clusters
               /\ fat[Log!NthCluster[n]] \in Log!Clusters
            THEN fat[Log!NthCluster[n]] ELSE Log!None
    BY ClusterUnfolds DEF LogType
  <2>4. Log!None \notin Log!Clusters
    BY DEF Log!None, Log!Clusters
  <2> HIDE DEF L
  <2> QED BY <1>2, <2>2, <2>3, <2>4
<1>3. \A n \in Nat : n \in T
  <2> HIDE DEF T
  <2> QED BY <1>1, <1>2, AllNumbers
<1> DEFINE n == k \div ClusterSize
<1>4. n \in Nat
  BY DivMod DEF Log!LogAssumption
<1>5. L[n] \in WalkState /\ Kept(L[n], bad) /\ n \in T
  <2> HIDE DEF n, T
  <2> QED BY <1>3, <1>4, LinksUnfold
<1> DEFINE ok == L[n].ok /\ L[n].cluster \in Log!Clusters
<1>6. Log!Walk(k, bad) = [L[n] EXCEPT !.ok = ok]
  BY DEF Log!Walk
<1>7. /\ Log!Walk(k, bad).tag = L[n].tag /\ Log!Walk(k, bad).buf = L[n].buf
      /\ Log!Walk(k, bad).cluster = L[n].cluster
      /\ Log!Walk(k, bad).ok = ok
  <2> HIDE DEF L, n, ok
  <2> QED BY <1>5, <1>6 DEF WalkState
<1>8. ok \/ ~Log!Partial(bad) => CacheIsTrue(L[n].tag, L[n].buf)
  BY <1>5 DEF Kept
<1>9. /\ ok =>
             /\ Log!NthCluster[n] \in Log!Clusters
             /\ L[n].cluster = Log!NthCluster[n]
      /\ DOMAIN bad = {} /\ Log!NthCluster[n] \in Log!Clusters => ok
  <2> HIDE DEF L, n
  <2> QED BY <1>5
<1> HIDE DEF L, ok
<1> QED BY <1>7, <1>8, <1>9
        DEF Log!FileHas, Log!FileSector, Log!LogFileLba

(* The table does not change, and what the file is depends on nothing else. *)
LEMMA SameFile ==
    ASSUME fat' = fat
    PROVE  /\ \A k : Log!FileHas(k)' = Log!FileHas(k)
           /\ \A k : Log!FileSector(k)' = Log!FileSector(k)
           /\ \A t : Log!ReadFat(t)' = Log!ReadFat(t)
           /\ Log!OneToOne' = Log!OneToOne
<1>1. Log!NthCluster' = Log!NthCluster
  BY DEF Log!NthCluster
<1>2. \A k : Log!FileHas(k)' = Log!FileHas(k)
  BY <1>1 DEF Log!FileHas
<1>3. \A k : Log!FileSector(k)' = Log!FileSector(k)
  BY <1>1 DEF Log!FileSector
<1>4. \A t : Log!ReadFat(t)' = Log!ReadFat(t)
  BY DEF Log!ReadFat
<1>5. Log!OneToOne' = Log!OneToOne
  BY <1>1 DEF Log!OneToOne, Log!FileHas, Log!FileSector
<1> QED BY <1>2, <1>3, <1>4, <1>5

(* A sector of the file is one of the card's. *)
LEMMA SectorInRange ==
    ASSUME Log!LogAssumption, fat \in Fats, NEW k \in Nat, Log!FileHas(k)
    PROVE  Log!FileSector(k) \in Log!DataSectors
<1> DEFINE c == Log!NthCluster[k \div ClusterSize]
           r == k % ClusterSize
<1>1. c \in 2..FatLength - 1 /\ r \in 0..ClusterSize - 1
  BY DivMod DEF Log!LogAssumption, Log!FileHas, Log!Clusters
<1>2. Log!FileSector(k) = (c - 2) * ClusterSize + r
  BY DEF Log!FileSector
<1> HIDE DEF c, r
<1>3. ClusterSize \in Nat \ {0} /\ FatLength \in Nat
  BY DEF Log!LogAssumption
<1>4. (c - 2) \in Nat /\ (c - 2) + 1 <= FatLength - 2
  BY <1>1, <1>3
<1>5. ((c - 2) + 1) * ClusterSize <= (FatLength - 2) * ClusterSize
  BY <1>3, <1>4, Times
<1>6. ((c - 2) + 1) * ClusterSize = (c - 2) * ClusterSize + ClusterSize
  BY <1>3, <1>4
<1>7. (c - 2) * ClusterSize \in Nat /\ (FatLength - 2) * ClusterSize \in Int
  BY <1>3, <1>4
<1> QED BY <1>1, <1>2, <1>3, <1>5, <1>6, <1>7 DEF Log!DataSectors

(* The walk of a flush, and what becomes of the card. *)
LEMMA FlushUnfolds ==
    ASSUME NEW buffer, Log!FlushCurrent(buffer)
    PROVE  \E bad \in Log!Failures, fails \in BOOLEAN :
        LET w == Log!Walk(log_sector_index, bad)
            wrong == DOMAIN bad # {} \/ fails
        IN  /\ log_fat_lba' = w.tag
            /\ log_fat_sector' = w.buf
            /\ sectors' = IF w.ok /\ ~fails
                  THEN [sectors EXCEPT
                            ![Log!LogFileLba(w, log_sector_index)] = buffer]
                  ELSE sectors
            /\ missed' = IF wrong THEN missed \cup {log_sector_index}
                         ELSE missed \ {log_sector_index}
            /\ torn' = (torn \/ (Log!Partial(bad)
                                  /\ ~Log!CacheIsTrue(w.tag, w.buf)))
BY DEF Log!FlushCurrent

(* A flush keeps the types, torn or not. *)
LEMMA FlushTypes ==
    ASSUME Log!LogAssumption, LogType, log_sector_index # Log!None,
           NEW buffer \in [0..SectorSize - 1 -> Int], Log!FlushCurrent(buffer)
    PROVE  /\ log_fat_lba' \in Int /\ log_fat_sector' \in FatBuf
           /\ sectors' \in [Log!DataSectors -> [0..SectorSize - 1 -> Int]]
           /\ torn' \in BOOLEAN
           /\ ~torn' => ~torn
<1> DEFINE x == log_sector_index
<1>1. x \in Nat
  BY DEF LogType, Log!SectorsUsed
<1>2. PICK bad \in Log!Failures, fails \in BOOLEAN :
        LET w == Log!Walk(x, bad)
        IN  /\ log_fat_lba' = w.tag
            /\ log_fat_sector' = w.buf
            /\ sectors' = IF w.ok /\ ~fails
                  THEN [sectors EXCEPT ![Log!LogFileLba(w, x)] = buffer]
                  ELSE sectors
            /\ torn' = (torn \/ (Log!Partial(bad)
                                  /\ ~Log!CacheIsTrue(w.tag, w.buf)))
  BY FlushUnfolds
<1> DEFINE w == Log!Walk(x, bad)
<1>3. w.tag \in Int /\ w.buf \in FatBuf
  BY <1>1, WalkTypes DEF WalkState
<1> DEFINE lba == Log!LogFileLba(w, x)
<1> HIDE DEF x, w, lba
<1>4. sectors' = sectors \/ sectors' = [sectors EXCEPT ![lba] = buffer]
  BY <1>2 DEF w, lba
<1>5. sectors \in [Log!DataSectors -> [0..SectorSize - 1 -> Int]]
  BY DEF LogType
<1>6. sectors' \in [Log!DataSectors -> [0..SectorSize - 1 -> Int]]
  BY <1>4, <1>5
<1>7. torn' \in BOOLEAN /\ (~torn' => ~torn)
  BY <1>2, Zenon DEF LogType
<1> QED BY <1>2, <1>3, <1>6, <1>7 DEF w

(* What a flush changes: at most the sector of the card that is the open    *)
(* sector of the file, which holds the buffer when nothing went wrong.      *)
LEMMA FlushWrites ==
    ASSUME Log!LogAssumption, LogType, CacheIsTrue(log_fat_lba, log_fat_sector),
           fat' = fat, log_sector_index # Log!None, ~torn',
           NEW buffer \in [0..SectorSize - 1 -> Int], Log!FlushCurrent(buffer)
    PROVE  /\ CacheIsTrue(log_fat_lba, log_fat_sector)'
           /\ \A s \in Log!DataSectors :
                  \/ sectors'[s] = sectors[s]
                  \/ Log!FileHas(log_sector_index)
                     /\ s = Log!FileSector(log_sector_index)
           /\ log_sector_index \notin missed' /\ Log!FileHas(log_sector_index)
                  => sectors'[Log!FileSector(log_sector_index)] = buffer
           /\ \A k : k # log_sector_index => (k \in missed' <=> k \in missed)
<1> DEFINE x == log_sector_index
<1>1. x \in Nat
  BY DEF LogType, Log!SectorsUsed
<1>2. PICK bad \in Log!Failures, fails \in BOOLEAN :
        LET w == Log!Walk(x, bad)
            wrong == DOMAIN bad # {} \/ fails
        IN  /\ log_fat_lba' = w.tag
            /\ log_fat_sector' = w.buf
            /\ sectors' = IF w.ok /\ ~fails
                  THEN [sectors EXCEPT ![Log!LogFileLba(w, x)] = buffer]
                  ELSE sectors
            /\ missed' = IF wrong THEN missed \cup {x} ELSE missed \ {x}
            /\ torn' = (torn \/ (Log!Partial(bad)
                                  /\ ~Log!CacheIsTrue(w.tag, w.buf)))
  BY FlushUnfolds
<1> DEFINE w == Log!Walk(x, bad)
<1>3. /\ CacheIsTrue(w.tag, w.buf)
      /\ w.ok => Log!FileHas(x) /\ Log!LogFileLba(w, x) = Log!FileSector(x)
      /\ Log!FileHas(x) /\ DOMAIN bad = {} => w.ok
  BY <1>1, <1>2, WalkFinds DEF CacheIsTrue
<1>4. Log!FileHas(x) => Log!FileSector(x) \in Log!DataSectors
  BY <1>1, SectorInRange DEF LogType
<1> DEFINE lba == Log!LogFileLba(w, x)
<1> HIDE DEF x, w
<1>5. CacheIsTrue(log_fat_lba, log_fat_sector)'
  <2>1. log_fat_lba' = w.tag /\ log_fat_sector' = w.buf
    BY <1>2 DEF w
  <2>2. Log!ReadFat(log_fat_lba)' = Log!ReadFat(log_fat_lba')
    BY DEF Log!ReadFat
  <2> QED BY <1>3, <2>1, <2>2 DEF CacheIsTrue, Log!CacheIsTrue
<1>6. \/ sectors' = sectors
      \/ Log!FileHas(x)
         /\ sectors' = [sectors EXCEPT ![Log!FileSector(x)] = buffer]
  BY <1>2, <1>3 DEF w
<1>7. x \notin missed' /\ Log!FileHas(x) =>
          sectors' = [sectors EXCEPT ![Log!FileSector(x)] = buffer]
  BY <1>2, <1>3 DEF w
<1>8. sectors \in [Log!DataSectors -> [0..SectorSize - 1 -> Int]]
  BY DEF LogType
<1>9. \A s \in Log!DataSectors :
          sectors'[s] = sectors[s] \/ (Log!FileHas(x) /\ s = Log!FileSector(x))
  BY <1>4, <1>6, <1>8
<1>10. x \notin missed' /\ Log!FileHas(x) =>
         sectors'[Log!FileSector(x)] = buffer
  BY <1>4, <1>7, <1>8
<1>11. \A k : k # x => (k \in missed' <=> k \in missed)
  BY <1>2
<1> QED BY <1>5, <1>9, <1>10, <1>11 DEF x

(* At the start there is no text and nothing was written. *)
LEMMA LogStarts ==
    ASSUME Log!LogAssumption, Log!Init
    PROVE  LogInv
<1>1. 0 \div SectorSize = 0 /\ 0 % SectorSize = 0
  BY DivUnique DEF Log!LogAssumption
<1>2. LogType
  <2>1. log_ready \in BOOLEAN /\ log_tried \in BOOLEAN /\ torn \in BOOLEAN
    BY Zenon DEF Log!Init
  <2>2. sectors \in [Log!DataSectors -> [0..SectorSize - 1 -> Int]]
    BY DEF Log!Init, Log!Old
  <2> QED BY <2>1, <2>2
          DEF Log!Init, LogType, Log!LogAssumption, Log!Blank, Log!None, FatBuf
<1>3. CacheIsTrue(log_fat_lba, log_fat_sector) /\ BufferHolds
  BY <1>1 DEF Log!Init, CacheIsTrue, Log!CacheIsTrue, BufferHolds
<1>4. Log!OnlyLogSectors
  BY DEF Log!Init, Log!OnlyLogSectors
<1>5. Log!FlushedTextIsOnCard
  BY <1>1 DEF Log!Init, Log!FlushedTextIsOnCard
<1> QED BY <1>2, <1>3, <1>4, <1>5 DEF LogInv, LogClean

(* bootlog_init finds an empty log, and empties the cache. *)
LEMMA InitStep ==
    ASSUME Log!LogAssumption, LogInv,
           NEW usable \in BOOLEAN, Log!BootlogInit(usable)
    PROVE  LogInv'
<1>1. 0 \div SectorSize = 0 /\ 0 % SectorSize = 0
  BY DivUnique DEF Log!LogAssumption
<1>2. fat' = fat /\ sectors' = sectors /\ missed' = missed
      /\ torn' = torn
  BY DEF Log!BootlogInit
<1>3. LogType'
  <2>1. log_ready' \in BOOLEAN /\ log_tried' \in BOOLEAN
    BY Zenon DEF Log!BootlogInit
  <2> QED BY <2>1
          DEF LogInv, LogType, Log!BootlogInit, Log!None, Log!LogAssumption,
            Log!SectorsUsed
<1>4. CacheIsTrue(log_fat_lba, log_fat_sector)' /\ BufferHolds'
  BY <1>1 DEF Log!BootlogInit, CacheIsTrue, Log!CacheIsTrue, BufferHolds,
    Log!None
<1>5. ~torn => Log!OnlyLogSectors'
  BY <1>2, SameFile DEF LogInv, LogClean, Log!OnlyLogSectors, Log!SectorsUsed
<1>6. Log!FlushedTextIsOnCard'
  BY <1>1 DEF Log!BootlogInit, Log!FlushedTextIsOnCard
<1> QED BY <1>2, <1>3, <1>4, <1>5, <1>6 DEF LogInv, LogClean

(* A flush along a whole cache keeps other files, and the text of every     *)
(* other full sector. *)
LEMMA FlushKeeps ==
    ASSUME Log!LogAssumption, LogInv, fat' = fat, log_sector_index # Log!None,
           ~torn', NEW buffer \in [0..SectorSize - 1 -> Int], Log!FlushCurrent(buffer)
    PROVE  /\ Log!OnlyLogSectors'
           /\ Log!OneToOne =>
                \A k \in 0..log_pos \div SectorSize - 1 :
                    k \notin missed' /\ Log!FileHas(k) =>
                        \A i \in 0..SectorSize - 1 :
                            sectors'[Log!FileSector(k)][i] =
                              k * SectorSize + i + 1
<1> DEFINE x == log_sector_index
<1>0. LogClean
  BY FlushTypes DEF LogInv
<1>1. x \in Log!SectorsUsed /\ x = log_pos \div SectorSize
  BY DEF LogInv, LogType, BufferHolds
<1>2. /\ \A s \in Log!DataSectors :
             \/ sectors'[s] = sectors[s]
             \/ Log!FileHas(x) /\ s = Log!FileSector(x)
      /\ \A k : k # x => (k \in missed' <=> k \in missed)
  BY <1>0, FlushWrites DEF LogInv, LogClean
<1>3. Log!OnlyLogSectors'
  <2>1. SUFFICES
          ASSUME NEW s \in Log!DataSectors,
                 \A k \in Log!SectorsUsed :
                     Log!FileHas(k) => Log!FileSector(k) # s
          PROVE  \A i \in 0..SectorSize - 1 : sectors'[s][i] = Log!Old
    BY SameFile DEF Log!OnlyLogSectors
  <2>2. sectors'[s] = sectors[s]
    BY <1>1, <1>2, <2>1
  <2> QED BY <1>0, <2>1, <2>2 DEF LogClean, Log!OnlyLogSectors
<1>4. ASSUME Log!OneToOne, NEW k \in 0..log_pos \div SectorSize - 1,
             k \notin missed', Log!FileHas(k), NEW i \in 0..SectorSize - 1
      PROVE  sectors'[Log!FileSector(k)][i] = k * SectorSize + i + 1
  <2>1. log_pos \div SectorSize \in Nat
    BY DivMod DEF LogInv, LogType, Log!LogAssumption
  <2>2. x \in Nat /\ k \in Nat /\ k < x /\ k \in Log!SectorsUsed
    <3> DEFINE top == (Limit - 1) \div SectorSize
               q == log_pos \div SectorSize
    <3>1. top \in Int
      BY DEF Log!LogAssumption
    <3>2. x \in 0..top /\ x = q /\ k \in 0..q - 1 /\ q \in Nat
      BY <1>1, <2>1 DEF Log!SectorsUsed
    <3>3. Log!SectorsUsed = 0..top
      BY DEF Log!SectorsUsed
    <3> HIDE DEF x, top, q
    <3> QED BY <3>1, <3>2, <3>3
  <2>3. Log!FileSector(k) \in Log!DataSectors
    BY <1>4, <2>2, SectorInRange DEF LogInv, LogType
  <2>4. k # x
    BY <2>2
  <2>5. ~(Log!FileHas(x) /\ Log!FileSector(k) = Log!FileSector(x))
    BY <1>1, <1>4, <2>2, <2>4 DEF Log!OneToOne
  <2>6. sectors'[Log!FileSector(k)] = sectors[Log!FileSector(k)]
        /\ k \notin missed
    BY <1>2, <1>4, <2>3, <2>4, <2>5
  <2> QED BY <1>0, <1>4, <2>6 DEF LogClean, Log!FlushedTextIsOnCard
<1> QED BY <1>3, <1>4

(* bootlog_flush writes the open sector, which is not yet full. *)
LEMMA FlushStep ==
    ASSUME Log!LogAssumption, LogInv, Log!BootlogFlush
    PROVE  LogInv'
<1> DEFINE off == log_pos % SectorSize
           buffer == [log_sector EXCEPT ![off] = 0]
<1>1. /\ fat' = fat /\ log_sector_index # Log!None
      /\ log_sector' = buffer /\ Log!FlushCurrent(buffer)
      /\ log_ready' = log_ready /\ log_tried' = log_tried
      /\ log_pos' = log_pos /\ log_sector_index' = log_sector_index
  BY DEF Log!BootlogFlush
<1>2. off \in 0..SectorSize - 1
  BY DivMod DEF LogInv, LogType, Log!LogAssumption
<1>3. log_sector \in [0..SectorSize - 1 -> Int]
  BY DEF LogInv, LogType
<1>4. buffer \in [0..SectorSize - 1 -> Int]
  BY <1>2, <1>3
<1>5. \A i \in 0..SectorSize - 1 : i < off => buffer[i] = log_sector[i]
  BY <1>2, <1>3
<1> HIDE DEF buffer
<1>6. /\ log_fat_lba' \in Int /\ log_fat_sector' \in FatBuf
      /\ sectors' \in [Log!DataSectors -> [0..SectorSize - 1 -> Int]]
      /\ torn' \in BOOLEAN
  BY <1>1, <1>4, FlushTypes DEF LogInv
<1>7. LogType'
  BY <1>1, <1>4, <1>6 DEF LogInv, LogType, Log!SectorsUsed
<1>8. BufferHolds'
  BY <1>1, <1>5 DEF LogInv, BufferHolds
<1>9. ASSUME ~torn' PROVE LogClean'
  <2>0. CacheIsTrue(log_fat_lba, log_fat_sector)'
    <3>1. LogClean
      BY <1>1, <1>4, <1>9, FlushTypes DEF LogInv
    <3> QED BY <1>1, <1>4, <1>9, <3>1, FlushWrites DEF LogInv, LogClean
  <2>1. /\ Log!OneToOne' = Log!OneToOne
        /\ \A k : Log!FileHas(k)' = Log!FileHas(k)
        /\ \A k : Log!FileSector(k)' = Log!FileSector(k)
    BY <1>1, SameFile
  <2>2. Log!OnlyLogSectors'
    BY <1>1, <1>4, <1>9, FlushKeeps
  <2>3. Log!OneToOne =>
          \A k \in 0..log_pos \div SectorSize - 1 :
            k \notin missed' /\ Log!FileHas(k) =>
                \A i \in 0..SectorSize - 1 :
                    sectors'[Log!FileSector(k)][i] = k * SectorSize + i + 1
    BY <1>1, <1>4, <1>9, FlushKeeps
  <2>4. Log!FlushedTextIsOnCard'
    BY <1>1, <2>1, <2>3 DEF Log!FlushedTextIsOnCard
  <2> QED BY <2>0, <2>2, <2>4 DEF LogClean
<1> QED BY <1>7, <1>8, <1>9 DEF LogInv

(* bootlog_putc adds a character to the buffer, and writes a full sector. *)
LEMMA PutcStep ==
    ASSUME Log!LogAssumption, LogInv, Log!BootlogPutc
    PROVE  LogInv'
<1> DEFINE off == log_pos % SectorSize
           q == log_pos \div SectorSize
           put == [Log!Fresh(off) EXCEPT ![off] = log_pos + 1]
<1>1. /\ log_pos \in Nat /\ log_pos < Limit /\ Limit \in Nat
      /\ SectorSize \in Nat \ {0, 1} /\ log_ready
      /\ fat' = fat /\ log_ready' = log_ready /\ log_tried' = log_tried
      /\ log_pos' = log_pos + 1
  BY DEF Log!BootlogPutc, LogInv, LogType, Log!LogAssumption
<1>2. /\ off \in 0..SectorSize - 1 /\ q \in Nat
      /\ log_pos = q * SectorSize + off
  BY <1>1, DivMod
<1>3. q \in Log!SectorsUsed
  <2>1. Limit - 1 \in Nat /\ log_pos <= Limit - 1
    BY <1>1
  <2>2. q <= (Limit - 1) \div SectorSize
    BY <1>1, <2>1, DivGrows
  <2>3. (Limit - 1) \div SectorSize \in Nat
    BY <1>1, <2>1, DivMod
  <2> HIDE DEF q
  <2> QED BY <1>2, <2>2, <2>3 DEF Log!SectorsUsed
<1>4. /\ off # SectorSize - 1 =>
             log_pos' % SectorSize = off + 1 /\ log_pos' \div SectorSize = q
      /\ off = SectorSize - 1 =>
             log_pos' % SectorSize = 0 /\ log_pos' \div SectorSize = q + 1
  BY <1>1, Advance
<1>5. Log!Fresh(off) \in [0..SectorSize - 1 -> Int]
  BY DEF Log!Fresh, Log!Blank, LogInv, LogType
<1>6. log_sector_index # Log!None =>
          log_sector_index = q /\ Log!Fresh(off) = log_sector
  BY DEF LogInv, BufferHolds, Log!Fresh
<1>7. log_sector_index = Log!None => off = 0
  BY DEF LogInv, BufferHolds
<1>8. \A i \in 0..SectorSize - 1 :
          i < off => Log!Fresh(off)[i] = q * SectorSize + i + 1
  <2>1. log_sector_index # Log!None =>
            \A i \in 0..SectorSize - 1 :
                i < off => log_sector[i] = log_sector_index * SectorSize + i + 1
    BY DEF LogInv, BufferHolds
  <2> HIDE DEF off, q
  <2> QED BY <1>2, <1>6, <1>7, <2>1
<1>9. /\ put \in [0..SectorSize - 1 -> Int]
      /\ \A i \in 0..SectorSize - 1 :
             i <= off => put[i] = q * SectorSize + i + 1
  <2> DEFINE f == Log!Fresh(off)
  <2>1. put = [f EXCEPT ![off] = log_pos + 1]
    OBVIOUS
  <2>2. /\ f \in [0..SectorSize - 1 -> Int]
        /\ \A i \in 0..SectorSize - 1 : i < off => f[i] = q * SectorSize + i + 1
    BY <1>5, <1>8
  <2> HIDE DEF f, off, q, put
  <2>3. put \in [0..SectorSize - 1 -> Int]
    BY <1>1, <1>2, <2>1, <2>2
  <2>4. ASSUME NEW i \in 0..SectorSize - 1, i <= off
        PROVE  put[i] = q * SectorSize + i + 1
    <3>1. CASE i = off
      BY <1>1, <1>2, <2>1, <2>2, <3>1
    <3>2. CASE i < off
      BY <1>1, <1>2, <2>1, <2>2, <3>2
    <3> QED BY <1>2, <2>4, <3>1, <3>2
  <2> QED BY <2>3, <2>4
<1>10. /\ \A k : Log!FileHas(k)' = Log!FileHas(k)
       /\ \A k : Log!FileSector(k)' = Log!FileSector(k)
       /\ \A t : Log!ReadFat(t)' = Log!ReadFat(t)
       /\ Log!OneToOne' = Log!OneToOne
  BY <1>1, SameFile
<1>11. CASE off # SectorSize - 1
  <2>1. /\ log_sector' = [put EXCEPT ![off + 1] = 0]
        /\ log_sector_index' = q /\ Log!NoFlush
    BY <1>11 DEF Log!BootlogPutc
  <2>2. sectors' = sectors /\ missed' = missed /\ torn' = torn
        /\ log_fat_lba' = log_fat_lba /\ log_fat_sector' = log_fat_sector
    BY <2>1 DEF Log!NoFlush
  <2>3. log_pos' % SectorSize = off + 1 /\ log_pos' \div SectorSize = q
    BY <1>4, <1>11
  <2> HIDE DEF off, q, put
  <2>4. /\ log_sector' \in [0..SectorSize - 1 -> Int]
        /\ \A i \in 0..SectorSize - 1 :
               i < off + 1 => log_sector'[i] = q * SectorSize + i + 1
    BY <1>1, <1>2, <1>9, <1>11, <2>1
  <2>5. LogType'
    BY <1>1, <1>3, <2>1, <2>2, <2>4 DEF LogInv, LogType, Log!SectorsUsed
  <2>6. ~torn => CacheIsTrue(log_fat_lba, log_fat_sector)'
    <3>1. Log!ReadFat(log_fat_lba)' = Log!ReadFat(log_fat_lba)
      BY <1>1, <2>2 DEF Log!ReadFat
    <3> QED BY <2>2, <3>1 DEF LogInv, LogClean, CacheIsTrue, Log!CacheIsTrue
  <2>7. BufferHolds'
    <3>1. q # Log!None /\ off + 1 # 0
      BY <1>2 DEF Log!None
    <3> QED BY <1>1, <2>1, <2>3, <2>4, <3>1 DEF LogInv, BufferHolds
  <2>8. ~torn => Log!OnlyLogSectors'
    BY <1>10, <2>2 DEF LogInv, LogClean, Log!OnlyLogSectors, Log!SectorsUsed
  <2>9. ~torn => Log!FlushedTextIsOnCard'
    BY <1>10, <2>2, <2>3 DEF LogInv, LogClean, Log!FlushedTextIsOnCard, q
  <2> QED BY <2>2, <2>5, <2>6, <2>7, <2>8, <2>9 DEF LogInv, LogClean
<1>12. CASE off = SectorSize - 1
  <2>1. /\ log_sector' = put /\ log_sector_index # Log!None
        /\ log_sector_index' = Log!None /\ Log!FlushCurrent(put)
    BY <1>12 DEF Log!BootlogPutc
  <2>2. log_pos' % SectorSize = 0 /\ log_pos' \div SectorSize = q + 1
    BY <1>4, <1>12
  <2>3. log_sector_index = q
    BY <1>6, <2>1
  <2> HIDE DEF put
  <2>4. /\ log_fat_lba' \in Int /\ log_fat_sector' \in FatBuf
        /\ sectors' \in [Log!DataSectors -> [0..SectorSize - 1 -> Int]]
        /\ torn' \in BOOLEAN
        /\ ~torn' => ~torn
    BY <1>1, <1>9, <2>1, FlushTypes DEF LogInv
  <2>5. LogType'
    BY <1>1, <1>9, <2>1, <2>4 DEF LogInv, LogType, Log!SectorsUsed
  <2>6. BufferHolds'
    BY <1>1, <2>1, <2>2 DEF LogInv, BufferHolds
  <2>7. ~torn' =>
          /\ Log!OnlyLogSectors'
          /\ CacheIsTrue(log_fat_lba, log_fat_sector)'
          /\ q \notin missed' /\ Log!FileHas(q) =>
                 sectors'[Log!FileSector(q)] = put
    BY <1>1, <1>9, <2>1, <2>3, <2>4, FlushKeeps, FlushWrites DEF LogInv, LogClean
  <2>8. ~torn' /\ Log!OneToOne =>
          \A k \in 0..q - 1 :
            k \notin missed' /\ Log!FileHas(k) =>
                \A i \in 0..SectorSize - 1 :
                    sectors'[Log!FileSector(k)][i] = k * SectorSize + i + 1
    BY <1>1, <1>9, <2>1, FlushKeeps
  <2> HIDE DEF off, q
  <2>9. ASSUME ~torn', Log!OneToOne, NEW k \in 0..q, k \notin missed', Log!FileHas(k),
               NEW i \in 0..SectorSize - 1
        PROVE  sectors'[Log!FileSector(k)][i] = k * SectorSize + i + 1
    <3>1. CASE k = q
      <4>1. sectors'[Log!FileSector(k)] = put /\ i <= off
        BY <1>1, <1>12, <2>7, <2>9, <3>1
      <4> QED BY <1>9, <3>1, <4>1
    <3>2. CASE k \in 0..q - 1
      BY <2>8, <2>9, <3>2
    <3> QED BY <1>2, <2>9, <3>1, <3>2
  <2>10. ~torn' => Log!FlushedTextIsOnCard'
    <3>1. 0..log_pos' \div SectorSize - 1 = 0..q
      BY <1>2, <2>2
    <3> QED BY <1>10, <2>9, <3>1 DEF Log!FlushedTextIsOnCard
  <2> QED BY <2>5, <2>6, <2>7, <2>10 DEF LogInv, LogClean
<1> QED BY <1>11, <1>12

(* The invariant of the boot log is inductive. *)
LEMMA LogInductive ==
    ASSUME Log!LogAssumption, LogInv, [Log!Next]_(Log!vars)
    PROVE  LogInv'
<1>1. CASE \E usable \in BOOLEAN : Log!BootlogInit(usable)
  BY <1>1, InitStep
<1>2. CASE Log!BootlogPutc
  BY <1>2, PutcStep
<1>3. CASE Log!BootlogFlush
  BY <1>3, FlushStep
<1>4. CASE UNCHANGED Log!vars
  <2>1. fat' = fat /\ sectors' = sectors /\ log_pos' = log_pos
        /\ missed' = missed /\ torn' = torn
        /\ log_fat_lba' = log_fat_lba /\ log_fat_sector' = log_fat_sector
    BY <1>4 DEF Log!vars
  <2>2. /\ \A k : Log!FileHas(k)' = Log!FileHas(k)
        /\ \A k : Log!FileSector(k)' = Log!FileSector(k)
        /\ Log!OneToOne' = Log!OneToOne
    BY <2>1, SameFile
  <2>3. ~torn => Log!OnlyLogSectors' /\ Log!FlushedTextIsOnCard'
    BY <2>1, <2>2
       DEF LogInv, LogClean, Log!OnlyLogSectors, Log!FlushedTextIsOnCard, Log!SectorsUsed
  <2>4. ~torn => CacheIsTrue(log_fat_lba, log_fat_sector)'
    BY <2>1 DEF LogInv, LogClean, CacheIsTrue, Log!CacheIsTrue, Log!ReadFat
  <2>5. LogType' /\ BufferHolds'
    BY <1>4 DEF LogInv, Log!vars, LogType, BufferHolds, Log!SectorsUsed
  <2> QED BY <2>1, <2>3, <2>4, <2>5 DEF LogInv, LogClean
<1> QED BY <1>1, <1>2, <1>3, <1>4 DEF Log!Next

LogPart == part = "bootlog" => LogInv

(* For every size of sector, cluster and table, every table and every      *)
(* failure of a write, and of a read wherever it stops: until a read that  *)
(* stops half-way has mixed two sectors of the table in the cache, the     *)
(* loader's log writes no sector that the table does not give to log.txt,  *)
(* and the text behind the write position is on the card but where the     *)
(* last flush of its sector failed.                                        *)
THEOREM LogIsFaithful == Spec => []BootLogIsFaithful
<1>1. Init => LogPart
  BY StorageAssumption, PartStarts, LogStarts DEF LogPart
<1>2. LogPart /\ [Next]_vars => LogPart'
  <2> SUFFICES ASSUME LogPart, [Next]_vars, part' = "bootlog" PROVE LogInv'
    BY DEF LogPart
  <2>1. LogInv /\ [Log!Next]_(Log!vars)
    BY PartSteps DEF LogPart
  <2> QED BY <2>1, StorageAssumption, LogInductive
<1>3. LogPart => BootLogIsFaithful
  BY DEF LogPart, BootLogIsFaithful, LogInv, LogClean, Log!LogIsFaithfulUntorn
<1> QED BY <1>1, <1>2, <1>3, PTL DEF Spec

----------------------------------------------------------------------------
(* The relocation of the kernel by the loader.                             *)

(* What a view of the memory is, the payload, and the lines of the image. *)
Memory == [Loader!Addresses -> Int]
Payload == Blob .. Loader!PayloadEnd - 1
ImageLines == Loader!LoadRange \cup Loader!DtbRange
Accepted == Loader!ScanAccepts /\ Loader!DtbDest + DtbSize <= RamTop

(* The words record k is loaded to. *)
Cells(k) == image[k].addr .. image[k].addr + image[k].mem - 1

(* Record k as it is loaded, and its part of the payload. *)
RecordIn(view, k) ==
    \A i \in 0..image[k].mem - 1 :
        view[image[k].addr + i] =
            IF i < image[k].file THEN Blob + image[k].off + i ELSE 0
SourceIn(view, k) ==
    \A i \in 0..image[k].file - 1 :
        view[Blob + image[k].off + i] = Blob + image[k].off + i

(* The values of the loader. *)
LoaderType ==
    /\ loader_pc \in {"scan", "panic", "sweep", "copy_dtb", "copy", "flush",
                      "verify", "verify_dtb", "invalidate", "jump"}
    /\ image \in Images
    /\ DOMAIN dirty \subseteq Loader!Addresses
    /\ dirty \in [DOMAIN dirty -> Int]
    /\ loader_pc \notin {"scan", "panic"} => Accepted

(* The calls up to the flush. *)
Early == {"scan", "panic", "sweep", "copy_dtb", "copy", "flush"}

(* Before the copy the payload is whole, during it what is not yet moved. *)
Moving ==
    /\ loader_pc \in Early => ram \in Memory
    /\ loader_pc \in {"scan", "sweep", "copy_dtb"} =>
           \A a \in Payload : Loader!Cached[a] = a
    /\ loader_pc = "copy" =>
           /\ at \in 1..Len(image)
           /\ Loader!DtbIn(Loader!Cached)
           /\ \A k \in DOMAIN image : k > at => RecordIn(Loader!Cached, k)
           /\ \A k \in DOMAIN image : k <= at => SourceIn(Loader!Cached, k)
    /\ Loader!CopyIsWhole

(* A payload apart from the load window stays in RAM, and from the flush on *)
(* RAM holds the kernel and no line of it is cached. *)
Apart ==
    Accepted /\ ~Loader!Overlaps =>
        /\ ram \in Memory
        /\ \A a \in Payload : ram[a] = a /\ a \notin DOMAIN dirty
        /\ loader_pc \notin Early =>
               /\ Loader!KernelIn(ram) /\ Loader!DtbIn(ram)
               /\ ImageLines \cap DOMAIN dirty = {}
               /\ ImageLines \cap icache = {}
        /\ loader_pc = "verify" => at \in 1..Len(image)

LoaderInv == LoaderType /\ Moving /\ Apart

(* Steps that differ by their number can be taken one after the other. *)
StepsOn(S, len) == [1..len -> [S -> S]]
LEMMA StepsRun ==
    ASSUME NEW S, NEW a \in S, NEW len \in Nat, NEW G \in StepsOn(S, len)
    PROVE  \E f \in [0..len -> S] :
               f[0] = a /\ \A n \in 1..len : f[n] = G[n][f[n - 1]]
<1> USE DEF StepsOn
<1> DEFINE Run(g, n) == /\ g \in [0..n -> S] /\ g[0] = a
                        /\ \A i \in 1..n : g[i] = G[i][g[i - 1]]
           T == {n \in Nat : n <= len => \E g : Run(g, n)}
<1>1. 0 \in T
  <2>1. Run([i \in 0..0 |-> a], 0)
    OBVIOUS
  <2> QED BY <2>1
<1>2. ASSUME NEW n \in Nat, n \in T PROVE n + 1 \in T
  <2>1. SUFFICES ASSUME n + 1 <= len PROVE \E g : Run(g, n + 1)
    OBVIOUS
  <2>2. PICK g : Run(g, n)
    BY <1>2, <2>1
  <2> DEFINE h == [i \in 0..(n + 1) |-> IF i <= n THEN g[i] ELSE G[n + 1][g[n]]]
  <2>3. n + 1 \in 1..len /\ g[n] \in S /\ G[n + 1] \in [S -> S]
    BY <2>1, <2>2
  <2>4. h \in [0..(n + 1) -> S] /\ h[0] = a
    BY <2>2, <2>3
  <2>5. ASSUME NEW i \in 1..(n + 1) PROVE h[i] = G[i][h[i - 1]]
    <3>1. CASE i = n + 1
      BY <3>1
    <3>2. CASE i \in 1..n
      BY <2>2, <3>2
    <3> QED BY <3>1, <3>2
  <2>6. Run(h, n + 1)
    BY <2>4, <2>5
  <2> QED BY <2>6
<1>3. \A n \in Nat : n \in T
  <2> HIDE DEF T
  <2> QED BY <1>1, <1>2, AllNumbers
<1>4. PICK g : Run(g, len)
  BY <1>3
<1> QED BY <1>4

(* An order of a copy within memory that reads no word it has written. *)
SafeOrder(dst, src, order, len) ==
    /\ order \in [1..len -> 0..len - 1]
    /\ \A i \in 0..len - 1 :
           dst + i \in Loader!Addresses /\ src + i \in Loader!Addresses
    /\ \A n, p \in 1..len : p < n => dst + order[p] # src + order[n]
    /\ \A i \in 0..len - 1 : \E p \in 1..len : order[p] = i

(* A copy in such an order is a copy of what was there. *)
LEMMA MoveCopies ==
    ASSUME NEW m \in Memory, NEW dst \in Nat, NEW src \in Nat, NEW len \in Nat,
           NEW order, SafeOrder(dst, src, order, len)
    PROVE  Loader!Move(m, dst, src, order, len) =
               [a \in Loader!Addresses |-> IF a \in dst .. dst + len - 1
                                    THEN m[src + (a - dst)] ELSE m[a]]
<1> USE DEF SafeOrder
<1> DEFINE Step(f, n) == [f EXCEPT ![dst + order[n]] = f[src + order[n]]]
           Def(g) == [n \in 0..len |-> IF n = 0 THEN m ELSE Step(g[n - 1], n)]
           G == [n \in 1..len |-> [f \in Memory |-> Step(f, n)]]
           moved == CHOOSE g : g = Def(g)
<1>1. ASSUME NEW n \in 1..len, NEW f \in Memory
      PROVE  /\ Step(f, n) \in Memory
             /\ \A a \in Loader!Addresses :
                    Step(f, n)[a] = IF a = dst + order[n] THEN f[src + order[n]]
                                    ELSE f[a]
  <2>1. order[n] \in 0..len - 1
    OBVIOUS
  <2>2. dst + order[n] \in Loader!Addresses
        /\ src + order[n] \in Loader!Addresses
    BY <2>1
  <2> QED BY <2>2 DEF Memory
<1>2. G \in StepsOn(Memory, len)
  <2> HIDE DEF Step
  <2> QED BY <1>1 DEF StepsOn
<1>3. PICK h \in [0..len -> Memory] :
          h[0] = m /\ \A n \in 1..len : h[n] = G[n][h[n - 1]]
  <2> HIDE DEF G
  <2> QED BY <1>2, StepsRun
<1>4. h = Def(h)
  <2> HIDE DEF Step
  <2>1. ASSUME NEW n \in 0..len PROVE h[n] = Def(h)[n]
    <3>1. CASE n = 0
      BY <1>3, <3>1
    <3>2. CASE n # 0
      <4>1. n \in 1..len /\ n - 1 \in 0..len
        BY <3>2
      <4>2. h[n] = G[n][h[n - 1]] /\ h[n - 1] \in Memory
        BY <1>3, <4>1
      <4>3. G[n][h[n - 1]] = Step(h[n - 1], n)
        BY <4>1, <4>2
      <4> QED BY <3>2, <4>2, <4>3
    <3> QED BY <3>1, <3>2
  <2>2. h = [n \in 0..len |-> h[n]]
    BY <1>3
  <2> QED BY <2>1, <2>2
<1>5. moved = Def(moved)
  <2> HIDE DEF Def
  <2> QED BY <1>4
<1>6. Loader!Move(m, dst, src, order, len) = moved[len]
  BY DEF Loader!Move
<1> HIDE DEF moved
<1>7. moved[0] = m /\ \A n \in 1..len : moved[n] = Step(moved[n - 1], n)
  <2> HIDE DEF Step
  <2>1. moved[0] = m
    BY <1>5
  <2>2. ASSUME NEW n \in 1..len PROVE moved[n] = Step(moved[n - 1], n)
    <3>1. n \in 0..len /\ n # 0
      OBVIOUS
    <3> QED BY <1>5, <3>1
  <2> QED BY <2>1, <2>2
<1> HIDE DEF Step
<1> DEFINE Done(n) == {dst + order[p] : p \in 1..n}
           Good(f, n) == /\ f \in Memory
                         /\ \A a \in Loader!Addresses :
                                f[a] = IF a \in Done(n) THEN m[src + (a - dst)]
                                       ELSE m[a]
           T == {n \in Nat : n <= len => Good(moved[n], n)}
<1>8. 0 \in T
  <2>1. Done(0) = {}
    OBVIOUS
  <2> QED BY <1>7, <2>1
<1>9. ASSUME NEW n \in Nat, n \in T PROVE n + 1 \in T
  <2>1. SUFFICES ASSUME n + 1 <= len PROVE Good(moved[n + 1], n + 1)
    OBVIOUS
  <2> DEFINE f == moved[n]
             o == order[n + 1]
  <2>2. Good(f, n)
    BY <1>9, <2>1
  <2>3. n + 1 \in 1..len /\ (n + 1) - 1 = n /\ n \in 0..len
    BY <2>1
  <2>4. moved[n + 1] = Step(f, n + 1)
    BY <1>7, <2>3
  <2>5. o \in 0..len - 1 /\ dst + o \in Loader!Addresses
        /\ src + o \in Loader!Addresses
    BY <2>3
  <2>6. /\ Step(f, n + 1) \in Memory
        /\ \A a \in Loader!Addresses :
              Step(f, n + 1)[a] = IF a = dst + o THEN f[src + o] ELSE f[a]
    BY <1>1, <2>2, <2>3
  <2>7. src + o \notin Done(n)
    <3>1. SUFFICES ASSUME NEW p \in 1..n, src + o = dst + order[p] PROVE FALSE
      OBVIOUS
    <3>2. p \in 1..len /\ p < n + 1
      BY <2>3
    <3> QED BY <2>3, <3>1, <3>2
  <2>8. f[src + o] = m[src + o]
    BY <2>2, <2>5, <2>7
  <2>9. Done(n + 1) = Done(n) \cup {dst + o}
    <3>1. 1..(n + 1) = 1..n \cup {n + 1}
      OBVIOUS
    <3> QED BY <3>1
  <2>10. src + ((dst + o) - dst) = src + o
    BY <2>5
  <2> HIDE DEF f, o, Done
  <2> QED BY <2>2, <2>4, <2>6, <2>8, <2>9, <2>10
<1>10. \A n \in Nat : n \in T
  <2> HIDE DEF T
  <2> QED BY <1>8, <1>9, AllNumbers
<1>11. Good(moved[len], len)
  BY <1>10
<1>12. ASSUME NEW a \in Loader!Addresses
       PROVE  a \in Done(len) <=> a \in dst .. dst + len - 1
  <2>0. a \in Int
    BY DEF Loader!Addresses
  <2>1. ASSUME a \in Done(len) PROVE a \in dst .. dst + len - 1
    <3>1. PICK p \in 1..len : a = dst + order[p]
      BY <2>1
    <3>2. order[p] \in 0..len - 1
      OBVIOUS
    <3> QED BY <3>1, <3>2
  <2>2. ASSUME a \in dst .. dst + len - 1 PROVE a \in Done(len)
    <3>1. a - dst \in 0..len - 1
      BY <2>0, <2>2
    <3>2. PICK p \in 1..len : order[p] = a - dst
      BY <3>1
    <3>3. a = dst + order[p]
      BY <2>0, <3>2
    <3> QED BY <3>3
  <2> QED BY <2>1, <2>2
<1> DEFINE f == moved[len]
<1>13. f \in Memory /\ \A a \in Loader!Addresses : f[a] =
           IF a \in dst .. dst + len - 1 THEN m[src + (a - dst)] ELSE m[a]
  <2> HIDE DEF Done
  <2> QED BY <1>11, <1>12
<1> HIDE DEF f
<1>14. f = [a \in Loader!Addresses |-> f[a]]
  BY <1>13 DEF Memory
<1> QED BY <1>6, <1>13, <1>14 DEF f

(* A copy between two ranges of the RAM. *)
Fits(dst, src, len) ==
    /\ dst \in Nat \ {0} /\ src \in Nat \ {0} /\ len \in Nat /\ RamTop \in Nat
    /\ dst + len <= RamTop /\ src + len <= RamTop

(* copy_forward moves the words unless it overwrites some before they are    *)
(* read, copy_overlap always does.                                           *)
LEMMA CopyIsMove ==
    ASSUME NEW m \in Memory, NEW dst, NEW src, NEW len, Fits(dst, src, len)
    PROVE  LET new == [a \in Loader!Addresses |-> IF a \in dst .. dst + len - 1
                                           THEN m[src + (a - dst)] ELSE m[a]]
           IN  /\ dst <= src \/ dst >= src + len =>
                      /\ Loader!CopyForward(m, dst, src, len) = new
                      /\ Loader!VerifyRepairRange(m, dst, src, len) = new
               /\ Loader!CopyOverlap(m, dst, src, len) = new
<1> USE DEF Fits
<1> DEFINE new == [a \in Loader!Addresses |-> IF a \in dst .. dst + len - 1
                                       THEN m[src + (a - dst)] ELSE m[a]]
<1>1. \A i \in 0..len - 1 :
          dst + i \in Loader!Addresses /\ src + i \in Loader!Addresses
  BY DEF Loader!Addresses
<1>2. ASSUME dst <= src \/ dst >= src + len
      PROVE  Loader!Move(m, dst, src, Loader!Up(len), len) = new
  <2>1. Loader!Up(len) \in [1..len -> 0..len - 1]
    BY DEF Loader!Up
  <2>2. \A n, p \in 1..len : p < n =>
            dst + Loader!Up(len)[p] # src + Loader!Up(len)[n]
    BY <1>2 DEF Loader!Up
  <2>3. ASSUME NEW i \in 0..len - 1
        PROVE  \E p \in 1..len : Loader!Up(len)[p] = i
    <3>1. i + 1 \in 1..len /\ Loader!Up(len)[i + 1] = i
      BY DEF Loader!Up
    <3> QED BY <3>1
  <2>4. SafeOrder(dst, src, Loader!Up(len), len)
    BY <1>1, <2>1, <2>2, <2>3 DEF SafeOrder
  <2> QED BY <2>4, MoveCopies
<1>3. ASSUME src < dst
      PROVE  Loader!Move(m, dst, src, Loader!Down(len), len) = new
  <2>1. Loader!Down(len) \in [1..len -> 0..len - 1]
    BY DEF Loader!Down
  <2>2. \A n, p \in 1..len : p < n =>
            dst + Loader!Down(len)[p] # src + Loader!Down(len)[n]
    BY <1>3 DEF Loader!Down
  <2>3. ASSUME NEW i \in 0..len - 1
        PROVE  \E p \in 1..len : Loader!Down(len)[p] = i
    <3>1. len - i \in 1..len /\ Loader!Down(len)[len - i] = i
      BY DEF Loader!Down
    <3> QED BY <3>1
  <2>4. SafeOrder(dst, src, Loader!Down(len), len)
    BY <1>1, <2>1, <2>2, <2>3 DEF SafeOrder
  <2> QED BY <2>4, MoveCopies
<1> HIDE DEF new
<1>4. dst <= src \/ dst >= src + len =>
          /\ Loader!CopyForward(m, dst, src, len) = new
          /\ Loader!VerifyRepairRange(m, dst, src, len) = new
  BY <1>2 DEF Loader!CopyForward, Loader!VerifyRepairRange
<1>5. Loader!CopyOverlap(m, dst, src, len) = new
  BY <1>3, <1>4 DEF Loader!CopyOverlap
<1> QED BY <1>4, <1>5 DEF new

(* The load window holds every record. *)
LEMMA WindowBounds ==
    ASSUME Loader!LoaderAssumption, image \in Images, Loader!ScanAccepts
    PROVE  /\ Loader!LoadMin \in Nat /\ Loader!LoadMax \in Nat
           /\ \A k \in DOMAIN image :
                  /\ Loader!LoadMin <= image[k].addr
                  /\ image[k].addr + image[k].mem <= Loader!LoadMax
<1> DEFINE A == {image[i].addr : i \in DOMAIN image} \cup {RamTop}
           B == {image[i].addr + image[i].mem : i \in DOMAIN image} \cup {0}
<1>1. \A k \in DOMAIN image : /\ image[k].addr \in Nat /\ image[k].mem \in Nat
                              /\ image[k].addr + image[k].mem <= RamTop
  <2>1. image \in Seq(Loader!Records)
    BY DEF Loader!LoaderAssumption
  <2>2. \A k \in DOMAIN image : image[k] \in Loader!Records
    BY <2>1
  <2>3. \A k \in DOMAIN image : image[k].addr + image[k].mem <= RamTop
    BY DEF Loader!ScanAccepts, Loader!RecordValid
  <2> QED BY <2>2, <2>3 DEF Loader!Records
<1>2. RamTop \in Nat
  BY DEF Loader!LoaderAssumption
<1>3. A \in SUBSET Nat /\ RamTop \in A
  BY <1>1, <1>2
<1>4. \E m \in A : \A k \in A : m <= k
  <2> HIDE DEF A
  <2> QED BY <1>3, LeastNumber
<1>5. Loader!LoadMin \in A /\ \A k \in A : Loader!LoadMin <= k
  <2>1. Loader!LoadMin = CHOOSE m \in A : \A k \in A : m <= k
    BY DEF Loader!LoadMin, Loader!Min
  <2> HIDE DEF A
  <2> QED BY <1>4, <2>1
<1>6. 0 \in B /\ \A b \in B : b \in Nat /\ b <= RamTop
  BY <1>1, <1>2
<1>7. \E m \in B : \A k \in B : m >= k
  <2> DEFINE C == {RamTop - b : b \in B}
  <2> HIDE DEF B
  <2>1. C \in SUBSET Nat /\ C # {}
    BY <1>2, <1>6
  <2>2. PICK c \in C : \A d \in C : c <= d
    <3> HIDE DEF C
    <3> QED BY <2>1, LeastNumber
  <2>3. PICK m \in B : c = RamTop - m
    BY <2>2
  <2>4. ASSUME NEW k \in B PROVE m >= k
    <3>1. c <= RamTop - k
      BY <2>2
    <3> QED BY <1>2, <1>6, <2>3, <3>1
  <2> QED BY <2>4
<1>8. Loader!LoadMax \in B /\ \A k \in B : Loader!LoadMax >= k
  <2>1. Loader!LoadMax = CHOOSE m \in B : \A k \in B : m >= k
    BY DEF Loader!LoadMax, Loader!Max
  <2> HIDE DEF B
  <2> QED BY <1>7, <2>1
<1>9. ASSUME NEW k \in DOMAIN image
      PROVE  image[k].addr \in A /\ image[k].addr + image[k].mem \in B
  OBVIOUS
<1>10. Loader!LoadMin \in Nat /\ Loader!LoadMax \in Nat
  <2> HIDE DEF A, B
  <2> QED BY <1>3, <1>5, <1>6, <1>8
<1>11. ASSUME NEW k \in DOMAIN image
       PROVE  Loader!LoadMin <= image[k].addr
              /\ image[k].addr + image[k].mem <= Loader!LoadMax
  <2>1. image[k].addr + image[k].mem \in Nat
    BY <1>1
  <2> HIDE DEF A, B
  <2> QED BY <1>5, <1>8, <1>9, <1>10, <2>1
<1> QED BY <1>10, <1>11

(* Where an accepted image lies. *)
LEMMA Layout ==
    ASSUME Loader!LoaderAssumption, image \in Images, Accepted
    PROVE  /\ Len(image) \in Nat \ {0} /\ DOMAIN image = 1..Len(image)
           /\ Loader!LoadMin \in Nat /\ Loader!LoadMax \in Nat
           /\ Loader!DtbDest \in Nat
           /\ RamTop \in Nat /\ Blob \in Nat \ {0} /\ Loader!Dtb \in Nat
           /\ DtbSize \in Nat
           /\ Loader!PayloadEnd \in Nat /\ Blob <= Loader!Dtb
           /\ Loader!PayloadEnd = Loader!Dtb + DtbSize
           /\ Loader!PayloadEnd < RamTop
           /\ Loader!PayloadEnd <= Loader!DtbDest
           /\ Loader!LoadMax <= Loader!DtbDest
           /\ Loader!DtbDest + DtbSize <= RamTop
           /\ \A k \in DOMAIN image :
                  /\ image[k].off \in Nat /\ image[k].file \in Nat
                  /\ image[k].mem \in Nat /\ image[k].addr \in Nat \ {0}
                  /\ image[k].file <= image[k].mem
                  /\ Blob + image[k].off + image[k].file <= Loader!Dtb
                  /\ Blob + image[k].off <= image[k].addr
                  /\ Loader!LoadMin <= image[k].addr
                  /\ image[k].addr + image[k].mem <= Loader!LoadMax
                  /\ image[k].addr + image[k].mem <= RamTop
           /\ \A j, k \in DOMAIN image : j < k =>
                  /\ image[j].off + image[j].file <= image[k].off
                  /\ image[j].addr + image[j].mem <= image[k].addr
<1>1. /\ image \in Seq(Loader!Records)
      /\ \A k \in DOMAIN image : Blob + image[k].off <= image[k].addr
      /\ \A j, k \in DOMAIN image : j < k =>
             /\ image[j].off + image[j].file <= image[k].off
             /\ image[j].addr + image[j].mem <= image[k].addr
  BY DEF Loader!LoaderAssumption
<1>2. /\ RamTop \in Nat /\ Blob \in Nat \ {0} /\ BlobSize \in Nat
      /\ DtbSize \in Nat
      /\ Blob + BlobSize + DtbSize < RamTop
  BY DEF Loader!LoaderAssumption
<1>3. image # <<>> /\ \A k \in DOMAIN image : Loader!RecordValid(image[k])
  BY DEF Accepted, Loader!ScanAccepts
<1>4. Len(image) \in Nat \ {0} /\ DOMAIN image = 1..Len(image)
  BY <1>1, <1>3
<1>5. /\ Loader!LoadMin \in Nat /\ Loader!LoadMax \in Nat
      /\ \A k \in DOMAIN image :
             /\ Loader!LoadMin <= image[k].addr
             /\ image[k].addr + image[k].mem <= Loader!LoadMax
  BY WindowBounds DEF Accepted
<1>6. ASSUME NEW k \in DOMAIN image
      PROVE  /\ image[k].off \in Nat /\ image[k].file \in Nat
             /\ image[k].mem \in Nat /\ image[k].addr \in Nat
             /\ Blob + image[k].off <= image[k].addr
             /\ image[k].addr \in Nat \ {0}
             /\ image[k].file <= image[k].mem
             /\ Blob + image[k].off + image[k].file <= Loader!Dtb
             /\ image[k].addr + image[k].mem <= RamTop
  <2>1. /\ image[k].off \in Nat /\ image[k].file \in Nat
        /\ image[k].mem \in Nat /\ image[k].addr \in Nat
    <3>1. image[k] \in Loader!Records
      BY <1>1
    <3> QED BY <3>1 DEF Loader!Records
  <2>2. Loader!RecordValid(image[k]) /\ Blob + image[k].off <= image[k].addr
    BY <1>1, <1>3
  <2> QED BY <1>2, <2>1, <2>2
          DEF Loader!RecordValid, Loader!BlobRangeValid, Loader!Dtb
<1>7. /\ Loader!Dtb \in Nat /\ Blob <= Loader!Dtb
      /\ Loader!PayloadEnd = Loader!Dtb + DtbSize
      /\ Loader!PayloadEnd \in Nat /\ Loader!PayloadEnd < RamTop
  BY <1>2 DEF Loader!Dtb, Loader!PayloadEnd
<1>8. Loader!DtbDest \in Nat /\ Loader!PayloadEnd <= Loader!DtbDest
      /\ Loader!LoadMax <= Loader!DtbDest
  BY <1>5, <1>7 DEF Loader!DtbDest
<1>9. Loader!DtbDest + DtbSize <= RamTop
  BY DEF Accepted
<1> QED BY <1>1, <1>2, <1>4, <1>5, <1>6, <1>7, <1>8, <1>9

(* One record of copy_linux_elf loads the record and touches no other word. *)
LEMMA RecordCopied ==
    ASSUME Loader!LoaderAssumption, image \in Images, Accepted,
           NEW v \in Memory,
           NEW k \in DOMAIN image, SourceIn(v, k)
    PROVE  LET new == Loader!CopyRecord(v, image[k])
           IN  /\ new \in Memory
               /\ RecordIn(new, k)
               /\ \A a \in Loader!Addresses :
                      a \notin Cells(k) => new[a] = v[a]
<1> DEFINE r == image[k]
           dst == r.addr
           src == Blob + r.off
           mid == Loader!CopyOverlap(v, dst, src, r.file)
           new == Loader!CopyRecord(v, r)
<1>1. /\ r.off \in Nat /\ r.file \in Nat /\ r.mem \in Nat /\ dst \in Nat \ {0}
      /\ r.file <= r.mem /\ src \in Nat \ {0} /\ dst + r.mem <= RamTop
      /\ src + r.file <= RamTop /\ RamTop \in Nat
  <2>1. /\ r.off \in Nat /\ r.file \in Nat /\ r.mem \in Nat /\ dst \in Nat \ {0}
        /\ r.file <= r.mem /\ dst + r.mem <= RamTop
        /\ Blob + r.off + r.file <= Loader!Dtb
    BY Layout
  <2>2. Blob \in Nat \ {0} /\ Loader!Dtb \in Nat
        /\ Loader!Dtb + DtbSize < RamTop
        /\ DtbSize \in Nat /\ RamTop \in Nat
    BY Layout
  <2> QED BY <2>1, <2>2
<1>2. \A i \in 0..r.file - 1 : v[src + i] = src + i
  BY DEF SourceIn
<1> HIDE DEF r, dst, src
<1>3. mid = [a \in Loader!Addresses |-> IF a \in dst .. dst + r.file - 1
                                THEN v[src + (a - dst)] ELSE v[a]]
  <2>1. Fits(dst, src, r.file)
    BY <1>1 DEF Fits
  <2> QED BY <2>1, CopyIsMove
<1>4. new = [a \in DOMAIN mid |->
                IF a \in dst + r.file .. dst + r.file + (r.mem - r.file) - 1
                THEN 0 ELSE mid[a]]
  BY DEF Loader!CopyRecord, Loader!ZeroBytes, dst, src
<1>5. /\ mid \in Memory
      /\ \A a \in Loader!Addresses : mid[a] = IF a \in dst .. dst + r.file - 1
                                       THEN v[src + (a - dst)] ELSE v[a]
  <2>1. ASSUME NEW a \in Loader!Addresses, a \in dst .. dst + r.file - 1
        PROVE  v[src + (a - dst)] \in Int
    BY <1>1, <1>2, <2>1
  <2>2. \A a \in Loader!Addresses : v[a] \in Int
    BY DEF Memory
  <2> HIDE DEF mid
  <2> QED BY <1>3, <2>1, <2>2 DEF Memory
<1> HIDE DEF mid, new
<1>6. /\ new \in Memory
      /\ \A a \in Loader!Addresses : new[a] =
            IF a \in dst + r.file .. dst + r.mem - 1 THEN 0
            ELSE IF a \in dst .. dst + r.file - 1 THEN v[src + (a - dst)]
            ELSE v[a]
  <2>1. DOMAIN mid = Loader!Addresses
    BY <1>5 DEF Memory
  <2>2. dst + r.file + (r.mem - r.file) - 1 = dst + r.mem - 1
    BY <1>1
  <2>3. new = [a \in Loader!Addresses |->
                   IF a \in dst + r.file .. dst + r.mem - 1
                   THEN 0 ELSE mid[a]]
    BY <1>4, <2>1, <2>2
  <2> QED BY <1>5, <2>3 DEF Memory
<1>7. ASSUME NEW i \in 0..r.mem - 1
      PROVE  new[dst + i] = IF i < r.file THEN src + i ELSE 0
  <2>1. dst + i \in Loader!Addresses /\ (dst + i) - dst = i
    BY <1>1 DEF Loader!Addresses
  <2>2. CASE i < r.file
    <3>1. dst + i \notin dst + r.file .. dst + r.mem - 1
          /\ dst + i \in dst .. dst + r.file - 1 /\ i \in 0..r.file - 1
      BY <1>1, <2>2
    <3> QED BY <1>2, <1>6, <2>1, <2>2, <3>1
  <2>3. CASE ~(i < r.file)
    <3>1. dst + i \in dst + r.file .. dst + r.mem - 1
      BY <1>1, <2>3
    <3> QED BY <1>6, <2>1, <2>3, <3>1
  <2> QED BY <2>2, <2>3
<1>8. RecordIn(new, k)
  BY <1>7 DEF RecordIn, r, dst, src
<1>9. \A a \in Loader!Addresses : a \notin dst .. dst + r.mem - 1 =>
          new[a] = v[a]
  BY <1>1, <1>6 DEF Loader!Addresses
<1>10. Cells(k) = dst .. dst + r.mem - 1
  BY DEF Cells, r, dst
<1> QED BY <1>6, <1>8, <1>9, <1>10 DEF new, r

(* Verifying a loaded record against its payload changes nothing. *)
LEMMA RecordVerified ==
    ASSUME Loader!LoaderAssumption, image \in Images, Accepted,
           NEW v \in Memory,
           NEW k \in DOMAIN image, SourceIn(v, k), RecordIn(v, k),
           image[k].addr >= Blob + image[k].off + image[k].file
    PROVE  Loader!VerifyRecord(v, image[k]) = v
<1> DEFINE r == image[k]
           dst == r.addr
           src == Blob + r.off
           mid == Loader!VerifyRepairRange(v, dst, src, r.file)
<1>1. /\ r.off \in Nat /\ r.file \in Nat /\ r.mem \in Nat /\ dst \in Nat \ {0}
      /\ r.file <= r.mem /\ src \in Nat \ {0} /\ dst + r.mem <= RamTop
      /\ src + r.file <= RamTop /\ RamTop \in Nat
  <2>1. /\ r.off \in Nat /\ r.file \in Nat /\ r.mem \in Nat /\ dst \in Nat \ {0}
        /\ r.file <= r.mem /\ dst + r.mem <= RamTop
        /\ Blob + r.off + r.file <= Loader!Dtb
    BY Layout
  <2>2. Blob \in Nat \ {0} /\ Loader!Dtb \in Nat
        /\ Loader!Dtb + DtbSize < RamTop
        /\ DtbSize \in Nat /\ RamTop \in Nat
    BY Layout
  <2> QED BY <2>1, <2>2
<1>2. /\ \A i \in 0..r.file - 1 : v[src + i] = src + i
      /\ \A i \in 0..r.mem - 1 :
             v[dst + i] = IF i < r.file THEN src + i ELSE 0
      /\ dst >= src + r.file
  BY DEF SourceIn, RecordIn
<1>3. Loader!VerifyRecord(v, r) =
          [a \in DOMAIN mid |->
              IF a \in dst + r.file .. dst + r.file + (r.mem - r.file) - 1
              THEN 0 ELSE mid[a]]
  BY DEF Loader!VerifyRecord, Loader!ZeroBytes
<1> HIDE DEF r, dst, src
<1>4. mid = [a \in Loader!Addresses |-> IF a \in dst .. dst + r.file - 1
                                THEN v[src + (a - dst)] ELSE v[a]]
  <2>1. Fits(dst, src, r.file)
    BY <1>1 DEF Fits
  <2> QED BY <1>2, <2>1, CopyIsMove
<1> HIDE DEF mid
<1>5. ASSUME NEW a \in Loader!Addresses PROVE mid[a] = v[a]
  <2>1. CASE a \in dst .. dst + r.file - 1
    <3> DEFINE i == a - dst
    <3>1. i \in 0..r.file - 1 /\ i \in 0..r.mem - 1 /\ i < r.file /\ dst + i = a
      BY <1>1, <2>1
    <3> HIDE DEF i
    <3>2. v[src + i] = src + i /\ v[dst + i] = src + i
      BY <1>2, <3>1
    <3> QED BY <1>4, <2>1, <3>1, <3>2 DEF i
  <2> QED BY <1>4, <2>1
<1>6. mid = v
  BY <1>4, <1>5 DEF Memory
<1>7. ASSUME NEW a \in Loader!Addresses,
             a \in dst + r.file .. dst + r.file + (r.mem - r.file) - 1
      PROVE  v[a] = 0
  <2> DEFINE i == a - dst
  <2>1. i \in 0..r.mem - 1 /\ ~(i < r.file) /\ dst + i = a
    BY <1>1, <1>7
  <2> HIDE DEF i
  <2> QED BY <1>2, <2>1
<1>8. DOMAIN v = Loader!Addresses
  BY DEF Memory
<1> QED BY <1>3, <1>6, <1>7, <1>8 DEF r, Memory

(* The window and its relation to the payload are the image's. *)
LEMMA SameWindow ==
    ASSUME image' = image
    PROVE  /\ Accepted' = Accepted /\ Loader!Overlaps' = Loader!Overlaps
           /\ ImageLines' = ImageLines
           /\ Loader!LoadRange' = Loader!LoadRange
           /\ Loader!DtbDest' = Loader!DtbDest
<1>1. Loader!LoadMin' = Loader!LoadMin /\ Loader!LoadMax' = Loader!LoadMax
  BY DEF Loader!LoadMin, Loader!LoadMax
<1>2. Loader!DtbDest' = Loader!DtbDest
  BY <1>1 DEF Loader!DtbDest
<1>3. Loader!LoadRange' = Loader!LoadRange /\ Loader!DtbRange' = Loader!DtbRange
  BY <1>1, <1>2 DEF Loader!LoadRange, Loader!DtbRange
<1>4. Loader!ScanAccepts' = Loader!ScanAccepts
  BY DEF Loader!ScanAccepts
<1> QED BY <1>2, <1>3, <1>4 DEF Accepted, Loader!Overlaps, ImageLines

(* What the processor sees. *)
LEMMA View ==
    ASSUME LoaderType, ram \in Memory
    PROVE  /\ Loader!Cached \in Memory
           /\ \A a \in Loader!Addresses :
                  Loader!Cached[a] = IF a \in DOMAIN dirty THEN dirty[a]
                                     ELSE ram[a]
BY DEF LoaderType, Loader!Cached, Memory

(* Cached stores are seen, and dirty no line whose word stays as it was. *)
LEMMA StoredIsSeen ==
    ASSUME LoaderType, ram \in Memory, NEW v \in Memory,
           dirty' = Loader!Stored(v), ram' = ram
    PROVE  /\ Loader!Cached' = v
           /\ DOMAIN dirty' \subseteq Loader!Addresses
           /\ dirty' \in [DOMAIN dirty' -> Int]
           /\ \A a \in Loader!Addresses :
                  a \in DOMAIN dirty' =>
                      a \in DOMAIN dirty \/ v[a] # Loader!Cached[a]
<1> DEFINE changed ==
               DOMAIN dirty
                   \cup {a \in Loader!Addresses : v[a] # Loader!Cached[a]}
<1>1. dirty' = [a \in changed |-> v[a]]
  BY DEF Loader!Stored
<1>2. changed \subseteq Loader!Addresses
  BY DEF LoaderType
<1>3. \A a \in Loader!Addresses : v[a] \in Int
  BY DEF Memory
<1>4. /\ DOMAIN dirty' = changed
      /\ \A a \in changed : dirty'[a] = v[a]
  BY <1>1
<1>5. \A a \in Loader!Addresses : a \notin changed => ram[a] = v[a]
  BY View
<1> HIDE DEF changed
<1>6. \A a \in Loader!Addresses :
          (IF a \in DOMAIN dirty' THEN dirty'[a] ELSE ram'[a]) = v[a]
  BY <1>2, <1>4, <1>5
<1>7. Loader!Cached' = [a \in Loader!Addresses |->
                    IF a \in DOMAIN dirty' THEN dirty'[a] ELSE ram'[a]]
  BY DEF Loader!Cached
<1>8. Loader!Cached' = v
  BY <1>6, <1>7 DEF Memory
<1>9. DOMAIN dirty' \subseteq Loader!Addresses
      /\ dirty' \in [DOMAIN dirty' -> Int]
  BY <1>1, <1>2, <1>3, <1>4
<1>10. \A a \in Loader!Addresses :
          a \in DOMAIN dirty' => a \in DOMAIN dirty \/ v[a] # Loader!Cached[a]
  BY <1>4 DEF changed
<1> QED BY <1>8, <1>9, <1>10

(* A part of the dirty lines. *)
LEMMA OnlyPart ==
    ASSUME NEW f, NEW S, f \in [DOMAIN f -> Int]
    PROVE  /\ DOMAIN Loader!Only(f, S) = DOMAIN f \cap S
           /\ \A a \in DOMAIN f \cap S : Loader!Only(f, S)[a] = f[a]
           /\ Loader!Only(f, S) \in [DOMAIN Loader!Only(f, S) -> Int]
BY DEF Loader!Only

(* The loader starts with a whole payload. *)
LEMMA LoaderStarts ==
    ASSUME Loader!LoaderAssumption, Loader!Init
    PROVE  LoaderInv
<1>1. PICK old \in {{}, Loader!PayloadEnd .. RamTop - 1,
                     {Loader!PayloadEnd, RamTop - 1}} :
          dirty = [a \in old |-> Loader!Stale]
  BY DEF Loader!Init
<1>2. /\ Blob \in Nat \ {0} /\ Loader!PayloadEnd \in Nat
      /\ Loader!PayloadEnd < RamTop
      /\ RamTop \in Nat /\ Blob <= Loader!PayloadEnd
  BY DEF Loader!LoaderAssumption, Loader!PayloadEnd, Loader!Dtb
<1>3. \A a \in old : a \in Loader!Addresses /\ a \notin Payload
  BY <1>2 DEF Loader!Addresses, Payload
<1>4. DOMAIN dirty = old /\ dirty \in [DOMAIN dirty -> Int]
  BY <1>1 DEF Loader!Stale
<1>5. Payload \subseteq Loader!Addresses
  BY <1>2 DEF Payload, Loader!Addresses
<1>6. ram = [a \in Loader!Addresses |-> a] /\ loader_pc = "scan"
      /\ image \in Images
  BY DEF Loader!Init
<1>7. ram \in Memory
  BY <1>6 DEF Memory, Loader!Addresses
<1>8. LoaderType
  BY <1>3, <1>4, <1>6 DEF LoaderType
<1>9. \A a \in Payload : ram[a] = a /\ a \notin DOMAIN dirty
  BY <1>3, <1>4, <1>5, <1>6
<1>10. \A a \in Payload : Loader!Cached[a] = a
  BY <1>5, <1>7, <1>8, <1>9, View
<1>11. Moving
  BY <1>6, <1>7, <1>10 DEF Moving, Loader!CopyIsWhole
<1>12. Apart
  BY <1>6, <1>7, <1>9 DEF Apart, Early
<1> QED BY <1>8, <1>11, <1>12 DEF LoaderInv

(* The payload is memory. *)
LEMMA PayloadIsMemory ==
    ASSUME Loader!LoaderAssumption
    PROVE  Payload \subseteq Loader!Addresses
BY DEF Loader!LoaderAssumption, Payload, Loader!Addresses, Loader!PayloadEnd,
       Loader!Dtb

(* Steps that leave the image and what the processor sees. *)
LEMMA ScanSteps ==
    ASSUME Loader!LoaderAssumption, LoaderInv, Loader!Refuse \/ Loader!Scan
           \/ Loader!Sweep
    PROVE  LoaderInv'
<1>1. image' = image /\ icache' = icache /\ at' = at
      /\ loader_pc \in {"scan", "sweep"}
  BY DEF Loader!Refuse, Loader!Scan, Loader!Sweep
<1>2. /\ loader_pc' \in {"panic", "sweep", "copy_dtb"}
      /\ loader_pc' # "panic" => Accepted
  BY DEF Loader!Refuse, Loader!Scan, Loader!Sweep, Loader!Goto, Accepted,
         LoaderInv, LoaderType
<1>3. Accepted' = Accepted /\ Loader!Overlaps' = Loader!Overlaps
      /\ ImageLines' = ImageLines
  BY <1>1, SameWindow
<1>4. ram \in Memory /\ \A a \in Payload : Loader!Cached[a] = a
  BY <1>1 DEF LoaderInv, Moving, Early
<1>5. LoaderType /\ Loader!Cached \in Memory
      /\ \A a \in Loader!Addresses :
            Loader!Cached[a] = IF a \in DOMAIN dirty THEN dirty[a] ELSE ram[a]
  BY <1>4, View DEF LoaderInv
<1>6. /\ ram' \in Memory /\ Loader!Cached' = Loader!Cached
      /\ DOMAIN dirty' \subseteq DOMAIN dirty
      /\ dirty' \in [DOMAIN dirty' -> Int]
      /\ \A a \in Loader!Addresses : a \notin DOMAIN dirty => ram'[a] = ram[a]
  <2>1. CASE Loader!Refuse \/ Loader!Scan
    <3>1. ram' = ram /\ dirty' = dirty
      BY <2>1 DEF Loader!Refuse, Loader!Scan
    <3>2. Loader!Cached' = Loader!Cached
      BY <3>1 DEF Loader!Cached
    <3> QED BY <1>4, <1>5, <3>1, <3>2 DEF LoaderType
  <2>2. CASE Loader!Sweep
    <3>1. PICK stay \in {{}, DOMAIN dirty} :
            /\ ram' =
                   [a \in Loader!Addresses |->
                       IF a \in stay THEN ram[a] ELSE Loader!Cached[a]]
            /\ dirty' = Loader!Only(dirty, stay)
      BY <2>2 DEF Loader!Sweep
    <3>2. /\ DOMAIN dirty' = stay /\ stay \subseteq DOMAIN dirty
          /\ \A a \in stay : dirty'[a] = dirty[a]
          /\ dirty' \in [DOMAIN dirty' -> Int]
      <4>1. dirty \in [DOMAIN dirty -> Int] /\ stay \subseteq DOMAIN dirty
        BY <1>5 DEF LoaderType
      <4>2. DOMAIN dirty \cap stay = stay
        BY <4>1
      <4> QED BY <3>1, <4>1, <4>2, OnlyPart
    <3>3. ram' \in Memory
      BY <1>4, <1>5, <3>1 DEF Memory
    <3>4. \A a \in Loader!Addresses :
            (IF a \in DOMAIN dirty' THEN dirty'[a] ELSE ram'[a]) =
                Loader!Cached[a]
      BY <1>5, <3>1, <3>2
    <3>5. Loader!Cached' = [a \in Loader!Addresses |->
                        IF a \in DOMAIN dirty' THEN dirty'[a] ELSE ram'[a]]
      BY DEF Loader!Cached
    <3>6. Loader!Cached' = Loader!Cached
      <4>1. Loader!Cached = [a \in Loader!Addresses |-> Loader!Cached[a]]
        BY <1>5 DEF Memory
      <4> QED BY <3>4, <3>5, <4>1
    <3>7. \A a \in Loader!Addresses : a \notin DOMAIN dirty => ram'[a] = ram[a]
      BY <1>5, <3>1
    <3> QED BY <3>2, <3>3, <3>6, <3>7
  <2> QED BY <2>1, <2>2
<1>7. LoaderType'
  BY <1>1, <1>2, <1>3, <1>5, <1>6 DEF LoaderType
<1>8. Moving'
  BY <1>2, <1>4, <1>6 DEF Moving, Loader!CopyIsWhole, Payload
<1>9. Apart'
  <2>1. SUFFICES ASSUME Accepted, ~Loader!Overlaps
                 PROVE  /\ \A a \in Payload :
                               ram'[a] = a /\ a \notin DOMAIN dirty'
                        /\ loader_pc' \in Early /\ loader_pc' # "verify"
    BY <1>3, <1>6 DEF Apart, Payload
  <2>2. \A a \in Payload : ram[a] = a /\ a \notin DOMAIN dirty
    BY <2>1 DEF LoaderInv, Apart
  <2> QED BY <1>2, <1>6, <2>2, PayloadIsMemory DEF Early
<1> QED BY <1>7, <1>8, <1>9 DEF LoaderInv

(* The device tree goes above the payload and the kernel. *)
LEMMA CopyDtbStep ==
    ASSUME Loader!LoaderAssumption, LoaderInv, Loader!CopyDtb
    PROVE  LoaderInv'
<1> DEFINE new ==
               Loader!CopyForward(Loader!Cached, Loader!DtbDest, Loader!Dtb,
                                  DtbSize)
<1>1. /\ loader_pc = "copy_dtb" /\ dirty' = Loader!Stored(new)
      /\ loader_pc' = "copy"
      /\ at' = Len(image) /\ image' = image /\ ram' = ram /\ icache' = icache
  BY DEF Loader!CopyDtb, Loader!Goto
<1>2. LoaderType /\ Accepted /\ image \in Images /\ ram \in Memory
      /\ \A a \in Payload : Loader!Cached[a] = a
  BY <1>1 DEF LoaderInv, LoaderType, Moving, Early
<1>3. Accepted' = Accepted /\ Loader!Overlaps' = Loader!Overlaps
      /\ ImageLines' = ImageLines
      /\ Loader!DtbDest' = Loader!DtbDest
  BY <1>1, SameWindow
<1>4. Loader!Cached \in Memory
  BY <1>2, View
<1>5. /\ Blob \in Nat \ {0} /\ Loader!Dtb \in Nat \ {0} /\ DtbSize \in Nat
      /\ Loader!DtbDest \in Nat \ {0} /\ RamTop \in Nat /\ Blob <= Loader!Dtb
      /\ Loader!PayloadEnd = Loader!Dtb + DtbSize /\ Loader!PayloadEnd < RamTop
      /\ Loader!PayloadEnd <= Loader!DtbDest
      /\ Loader!DtbDest + DtbSize <= RamTop
  BY <1>2, Layout
<1>6. new = [a \in Loader!Addresses |->
                 IF a \in Loader!DtbDest .. Loader!DtbDest + DtbSize - 1
                 THEN Loader!Cached[Loader!Dtb + (a - Loader!DtbDest)]
                 ELSE Loader!Cached[a]]
  <2>1. Fits(Loader!DtbDest, Loader!Dtb, DtbSize)
    BY <1>5 DEF Fits
  <2>2. Loader!DtbDest >= Loader!Dtb + DtbSize
    BY <1>5
  <2> QED BY <1>4, <2>1, <2>2, CopyIsMove
<1> HIDE DEF new
<1>7. /\ \A a \in Loader!Addresses : a < Loader!DtbDest =>
             new[a] = Loader!Cached[a]
      /\ \A i \in 0..DtbSize - 1 : new[Loader!DtbDest + i] = Loader!Dtb + i
      /\ new \in Memory
  <2>1. ASSUME NEW i \in 0..DtbSize - 1
        PROVE  /\ Loader!DtbDest + i \in Loader!Addresses
               /\ Loader!DtbDest + i \in
                      Loader!DtbDest .. Loader!DtbDest + DtbSize - 1
               /\ (Loader!DtbDest + i) - Loader!DtbDest = i
               /\ Loader!Dtb + i \in Payload
    BY <1>5 DEF Loader!Addresses, Payload
  <2>2. ASSUME NEW i \in 0..DtbSize - 1
        PROVE  new[Loader!DtbDest + i] = Loader!Dtb + i
    <3>1. new[Loader!DtbDest + i] = Loader!Cached[Loader!Dtb + i]
      BY <1>6, <2>1
    <3> QED BY <1>2, <2>1, <3>1
  <2>3. ASSUME NEW a \in Loader!Addresses,
               a \in Loader!DtbDest .. Loader!DtbDest + DtbSize - 1
        PROVE  new[a] \in Int
    <3> DEFINE i == a - Loader!DtbDest
    <3>1. i \in 0..DtbSize - 1 /\ Loader!DtbDest + i = a
      BY <1>5, <2>3
    <3>2. new[Loader!DtbDest + i] = Loader!Dtb + i
      BY <2>2, <3>1
    <3> QED BY <1>5, <3>1, <3>2
  <2>4. \A a \in Loader!Addresses :
            a \notin Loader!DtbDest .. Loader!DtbDest + DtbSize - 1
            => new[a] = Loader!Cached[a]
    BY <1>6
  <2>5. \A a \in Loader!Addresses : new[a] \in Int
    BY <1>4, <2>3, <2>4 DEF Memory
  <2>6. new \in Memory
    BY <1>6, <2>5 DEF Memory
  <2>7. \A a \in Loader!Addresses : a < Loader!DtbDest =>
            new[a] = Loader!Cached[a]
    BY <1>5, <2>4 DEF Loader!Addresses
  <2> QED BY <2>2, <2>6, <2>7
<1>8. \A a \in Payload : a \in Loader!Addresses /\ new[a] = Loader!Cached[a]
  <2>1. \A a \in Payload : a < Loader!DtbDest /\ a \in Loader!Addresses
    BY <1>5 DEF Payload, Loader!Addresses
  <2> QED BY <1>7, <2>1
<1>9. /\ Loader!Cached' = new
      /\ DOMAIN dirty' \subseteq Loader!Addresses
      /\ dirty' \in [DOMAIN dirty' -> Int]
      /\ \A a \in Loader!Addresses :
            a \in DOMAIN dirty' =>
                a \in DOMAIN dirty \/ new[a] # Loader!Cached[a]
  BY <1>1, <1>2, <1>7, StoredIsSeen
<1>10. LoaderType'
  BY <1>1, <1>2, <1>3, <1>9 DEF LoaderType
<1>11. Moving'
  <2>1. Len(image) \in Nat \ {0} /\ DOMAIN image = 1..Len(image)
    BY <1>2, Layout
  <2>2. Loader!DtbIn(Loader!Cached)'
    BY <1>3, <1>7, <1>9 DEF Loader!DtbIn
  <2>3. ASSUME NEW k \in DOMAIN image, NEW i \in 0..image[k].file - 1
        PROVE  Blob + image[k].off + i \in Payload
    <3>1. /\ image[k].off \in Nat /\ image[k].file \in Nat
          /\ Blob + image[k].off + image[k].file <= Loader!Dtb
      BY <1>2, Layout
    <3> QED BY <1>5, <3>1 DEF Payload
  <2>4. ASSUME NEW k \in DOMAIN image PROVE SourceIn(new, k)
    BY <1>2, <1>8, <2>3 DEF SourceIn
  <2>5. \A k \in DOMAIN image : SourceIn(Loader!Cached, k)'
    BY <1>1, <1>9, <2>4 DEF SourceIn
  <2>6. \A k \in DOMAIN image : ~(k > at')
    BY <1>1, <2>1
  <2> QED BY <1>1, <1>2, <2>1, <2>2, <2>5, <2>6 DEF Moving, Loader!CopyIsWhole
<1>12. Apart'
  <2>1. SUFFICES ASSUME Accepted, ~Loader!Overlaps
                 PROVE  \A a \in Payload : ram'[a] = a /\ a \notin DOMAIN dirty'
    BY <1>1, <1>2, <1>3 DEF Apart, Payload, Early
  <2>2. \A a \in Payload : ram[a] = a /\ a \notin DOMAIN dirty
    BY <2>1 DEF LoaderInv, Apart
  <2> QED BY <1>1, <1>8, <1>9, <2>2
<1> QED BY <1>10, <1>11, <1>12 DEF LoaderInv

(* Records are walked backwards: a record overwrites no source of an earlier *)
(* one, and no record or device tree that is already in place.               *)
LEMMA CopyElfStep ==
    ASSUME Loader!LoaderAssumption, LoaderInv, Loader!CopyElf
    PROVE  LoaderInv'
<1> DEFINE new == Loader!CopyRecord(Loader!Cached, image[at])
<1>1. /\ loader_pc = "copy" /\ dirty' = Loader!Stored(new) /\ at' = at - 1
      /\ loader_pc' = IF at = 1 THEN "flush" ELSE "copy"
      /\ image' = image /\ ram' = ram /\ icache' = icache
  BY DEF Loader!CopyElf, Loader!Goto, Loader!NextToCopy
<1>2. /\ LoaderType /\ Accepted /\ image \in Images /\ ram \in Memory
      /\ at \in 1..Len(image)
      /\ \A i \in 0..DtbSize - 1 :
             Loader!Cached[Loader!DtbDest + i] = Loader!Dtb + i
      /\ \A k \in DOMAIN image : k > at => RecordIn(Loader!Cached, k)
      /\ \A k \in DOMAIN image : k <= at => SourceIn(Loader!Cached, k)
  BY <1>1 DEF LoaderInv, LoaderType, Moving, Early, Loader!DtbIn
<1>3. Accepted' = Accepted /\ Loader!Overlaps' = Loader!Overlaps
      /\ ImageLines' = ImageLines
      /\ Loader!DtbDest' = Loader!DtbDest
  BY <1>1, SameWindow
<1>4. Loader!Cached \in Memory
  BY <1>2, View
<1>5. Len(image) \in Nat \ {0} /\ DOMAIN image = 1..Len(image)
  BY <1>2, Layout
<1>6. at \in DOMAIN image /\ at \in Nat /\ SourceIn(Loader!Cached, at)
  BY <1>2, <1>5
<1> DEFINE lo == image[at].addr
           hi == image[at].addr + image[at].mem
<1>7. /\ new \in Memory
      /\ RecordIn(new, at)
      /\ \A a \in Loader!Addresses : a \notin Cells(at) =>
             new[a] = Loader!Cached[a]
  BY <1>2, <1>4, <1>6, RecordCopied
<1>8. /\ lo \in Nat \ {0} /\ hi \in Nat /\ hi <= Loader!LoadMax
      /\ Loader!LoadMin <= lo
      /\ hi <= Loader!DtbDest /\ hi = lo + image[at].mem
      /\ image[at].mem \in Nat
      /\ Blob + image[at].off <= lo /\ image[at].off \in Nat
      /\ Loader!LoadMin \in Nat /\ Loader!LoadMax \in Nat
  <2>1. /\ image[at].addr \in Nat \ {0} /\ image[at].mem \in Nat
        /\ image[at].addr + image[at].mem <= Loader!LoadMax
        /\ Loader!LoadMin <= image[at].addr
        /\ Blob + image[at].off <= image[at].addr /\ image[at].off \in Nat
    BY <1>2, <1>6, Layout
  <2>2. Loader!LoadMax \in Nat /\ Loader!LoadMin \in Nat
        /\ Loader!DtbDest \in Nat
        /\ Loader!LoadMax <= Loader!DtbDest
    BY <1>2, Layout
  <2> QED BY <2>1, <2>2
<1> HIDE DEF new
<1>9. \A a \in Loader!Addresses : a < lo \/ a >= hi => new[a] = Loader!Cached[a]
  <2>1. Cells(at) = lo .. hi - 1
    BY <1>8 DEF Cells
  <2> HIDE DEF lo, hi
  <2> QED BY <1>7, <1>8, <2>1 DEF Loader!Addresses
<1>10. /\ Loader!Cached' = new
       /\ DOMAIN dirty' \subseteq Loader!Addresses
       /\ dirty' \in [DOMAIN dirty' -> Int]
       /\ \A a \in Loader!Addresses :
             a \in DOMAIN dirty' =>
                 a \in DOMAIN dirty \/ new[a] # Loader!Cached[a]
  BY <1>1, <1>2, <1>7, StoredIsSeen
<1>11. \A i \in 0..DtbSize - 1 : new[Loader!DtbDest + i] = Loader!Dtb + i
  <2>1. /\ Loader!DtbDest \in Nat /\ DtbSize \in Nat
        /\ Loader!DtbDest + DtbSize <= RamTop
        /\ RamTop \in Nat /\ Blob \in Nat \ {0}
        /\ Loader!PayloadEnd <= Loader!DtbDest
        /\ Loader!PayloadEnd = Loader!Dtb + DtbSize /\ Blob <= Loader!Dtb
        /\ Loader!Dtb \in Nat
    BY <1>2, Layout
  <2>2. ASSUME NEW i \in 0..DtbSize - 1
        PROVE  Loader!DtbDest + i \in Loader!Addresses
               /\ Loader!DtbDest + i >= hi
    <3> HIDE DEF lo, hi
    <3> QED BY <1>8, <2>1 DEF Loader!Addresses
  <2> HIDE DEF lo, hi
  <2> QED BY <1>2, <1>9, <2>2
<1>12. ASSUME NEW k \in DOMAIN image, k >= at PROVE RecordIn(new, k)
  <2>1. CASE k = at
    BY <1>7, <2>1
  <2>2. CASE k > at
    <3>1. /\ image[k].addr \in Nat \ {0} /\ image[k].mem \in Nat
          /\ image[k].addr + image[k].mem <= RamTop /\ hi <= image[k].addr
          /\ RamTop \in Nat
      BY <1>2, <1>6, <2>2, Layout
    <3>2. ASSUME NEW i \in 0..image[k].mem - 1
          PROVE  image[k].addr + i \in Loader!Addresses
                 /\ image[k].addr + i >= hi
      <4> HIDE DEF lo, hi
      <4> QED BY <1>8, <3>1 DEF Loader!Addresses
    <3>3. RecordIn(Loader!Cached, k)
      BY <1>2, <2>2
    <3> HIDE DEF lo, hi
    <3> QED BY <1>9, <3>2, <3>3 DEF RecordIn
  <2>3. k \in Nat
    BY <1>5
  <2> QED BY <1>6, <1>12, <2>1, <2>2, <2>3
<1>13. ASSUME NEW j \in DOMAIN image, j < at PROVE SourceIn(new, j)
  <2>1. /\ image[j].off \in Nat /\ image[j].file \in Nat
        /\ image[j].off + image[j].file <= image[at].off
        /\ Blob + image[j].off + image[j].file <= Loader!Dtb
    BY <1>2, <1>6, <1>13, Layout
  <2>2. Blob \in Nat \ {0} /\ Loader!Dtb + DtbSize < RamTop /\ RamTop \in Nat
        /\ Loader!Dtb \in Nat
        /\ DtbSize \in Nat
    BY <1>2, Layout
  <2>3. ASSUME NEW i \in 0..image[j].file - 1
        PROVE  /\ Blob + image[j].off + i \in Loader!Addresses
               /\ Blob + image[j].off + i < lo
    <3> HIDE DEF lo, hi
    <3> QED BY <1>8, <2>1, <2>2 DEF Loader!Addresses
  <2>4. SourceIn(Loader!Cached, j)
    BY <1>2, <1>5, <1>6, <1>13
  <2> HIDE DEF lo, hi
  <2> QED BY <1>9, <2>3, <2>4 DEF SourceIn
<1>14. LoaderType'
  BY <1>1, <1>2, <1>3, <1>10 DEF LoaderType
<1>15. Moving'
  <2>1. Loader!DtbIn(Loader!Cached)'
    BY <1>3, <1>10, <1>11 DEF Loader!DtbIn
  <2>2. \A k \in DOMAIN image : k >= at => RecordIn(Loader!Cached, k)'
    BY <1>1, <1>10, <1>12 DEF RecordIn
  <2>3. \A k \in DOMAIN image : k < at => SourceIn(Loader!Cached, k)'
    BY <1>1, <1>10, <1>13 DEF SourceIn
  <2>4. CASE at = 1
    <3>1. \A k \in DOMAIN image : RecordIn(Loader!Cached, k)'
      BY <1>5, <2>2, <2>4
    <3>2. Loader!KernelIn(Loader!Cached)'
      BY <1>1, <3>1 DEF Loader!KernelIn, RecordIn
    <3> QED BY <1>1, <1>2, <2>1, <2>4, <3>2 DEF Moving, Loader!CopyIsWhole
  <2>5. CASE at # 1
    <3>1. at - 1 \in 1..Len(image)
      BY <1>2, <1>5, <2>5
    <3>2. \A k \in DOMAIN image :
              (k > at - 1 => k >= at) /\ (k <= at - 1 => k < at)
      BY <1>5, <1>6
    <3> QED BY <1>1, <1>2, <2>1, <2>2, <2>3, <2>5, <3>1, <3>2
            DEF Moving, Loader!CopyIsWhole
  <2> QED BY <2>4, <2>5
<1>16. Apart'
  <2>1. SUFFICES ASSUME Accepted, ~Loader!Overlaps
                 PROVE  \A a \in Payload : ram'[a] = a /\ a \notin DOMAIN dirty'
    BY <1>1, <1>2, <1>3 DEF Apart, Payload, Early
  <2>2. \A a \in Payload : ram[a] = a /\ a \notin DOMAIN dirty
    BY <2>1 DEF LoaderInv, Apart
  <2>3. ASSUME NEW a \in Payload
        PROVE  a \in Loader!Addresses /\ (a < lo \/ a >= hi)
    <3>1. a \notin Loader!LoadMin .. Loader!LoadMax - 1
      BY <2>1 DEF Loader!Overlaps, Loader!LoadRange, Payload
    <3>2. a \in Loader!Addresses
      BY PayloadIsMemory
    <3> HIDE DEF lo, hi
    <3> QED BY <1>8, <3>1, <3>2 DEF Loader!Addresses
  <2> HIDE DEF lo, hi
  <2> QED BY <1>1, <1>9, <1>10, <2>2, <2>3
<1> QED BY <1>14, <1>15, <1>16 DEF LoaderInv

(* The image lies in the lines that are flushed. *)
LEMMA InWindow ==
    ASSUME Loader!LoaderAssumption, image \in Images, Accepted
    PROVE  /\ \A k \in DOMAIN image : \A i \in 0..image[k].mem - 1 :
                  image[k].addr + i \in Loader!Addresses
                  /\ image[k].addr + i \in ImageLines
           /\ \A i \in 0..DtbSize - 1 :
                  Loader!DtbDest + i \in Loader!Addresses
                  /\ Loader!DtbDest + i \in ImageLines
<1>1. /\ Loader!LoadMin \in Nat /\ Loader!LoadMax \in Nat
      /\ Loader!DtbDest \in Nat \ {0}
      /\ DtbSize \in Nat /\ RamTop \in Nat /\ Loader!DtbDest + DtbSize <= RamTop
  BY Layout
<1>2. ASSUME NEW k \in DOMAIN image, NEW i \in 0..image[k].mem - 1
      PROVE  image[k].addr + i \in Loader!Addresses
             /\ image[k].addr + i \in ImageLines
  <2>1. /\ image[k].addr \in Nat \ {0} /\ image[k].mem \in Nat
        /\ Loader!LoadMin <= image[k].addr
        /\ image[k].addr + image[k].mem <= Loader!LoadMax
        /\ image[k].addr + image[k].mem <= RamTop
    BY Layout
  <2> QED BY <1>1, <2>1 DEF Loader!Addresses, ImageLines, Loader!LoadRange
<1>3. ASSUME NEW i \in 0..DtbSize - 1
      PROVE  Loader!DtbDest + i \in Loader!Addresses
             /\ Loader!DtbDest + i \in ImageLines
  BY <1>1 DEF Loader!Addresses, ImageLines, Loader!DtbRange
<1> QED BY <1>2, <1>3

(* The flush brings what the processor sees of the image into RAM. *)
LEMMA FlushImageStep ==
    ASSUME Loader!LoaderAssumption, LoaderInv, Loader!Flush
    PROVE  LoaderInv'
<1>1. /\ loader_pc = "flush" /\ loader_pc' = "verify" /\ at' = 1
      /\ image' = image
      /\ ram' =
             [a \in Loader!Addresses |->
                 IF a \in ImageLines THEN Loader!Cached[a] ELSE ram[a]]
      /\ dirty' = Loader!Only(dirty, Loader!Addresses \ ImageLines)
      /\ icache' = icache \ ImageLines
  BY DEF Loader!Flush, Loader!Goto, ImageLines
<1>2. /\ LoaderType /\ Accepted /\ image \in Images /\ ram \in Memory
      /\ Loader!KernelIn(Loader!Cached) /\ Loader!DtbIn(Loader!Cached)
  BY <1>1 DEF LoaderInv, LoaderType, Moving, Early, Loader!CopyIsWhole
<1>3. Accepted' = Accepted /\ Loader!Overlaps' = Loader!Overlaps
      /\ ImageLines' = ImageLines
      /\ Loader!DtbDest' = Loader!DtbDest
  BY <1>1, SameWindow
<1>4. /\ Loader!Cached \in Memory
      /\ \A a \in Loader!Addresses :
            Loader!Cached[a] = IF a \in DOMAIN dirty THEN dirty[a] ELSE ram[a]
  BY <1>2, View
<1>5. /\ DOMAIN dirty' = DOMAIN dirty \cap (Loader!Addresses \ ImageLines)
      /\ dirty' \in [DOMAIN dirty' -> Int]
      /\ DOMAIN dirty \subseteq Loader!Addresses
  BY <1>1, <1>2, OnlyPart DEF LoaderType
<1>6. /\ DOMAIN dirty' \subseteq Loader!Addresses
      /\ DOMAIN dirty' \subseteq DOMAIN dirty
      /\ ImageLines \cap DOMAIN dirty' = {}
      /\ ImageLines \cap icache' = {}
  BY <1>1, <1>5
<1>7. LoaderType'
  BY <1>1, <1>2, <1>3, <1>5, <1>6 DEF LoaderType
<1>8. Moving'
  BY <1>1 DEF Moving, Loader!CopyIsWhole, Early
<1>9. Apart'
  <2>1. ram' \in Memory
    BY <1>1, <1>2, <1>4 DEF Memory
  <2>2. Len(image) \in Nat \ {0}
    BY <1>2, Layout
  <2>3. \A k \in DOMAIN image : \A i \in 0..image[k].mem - 1 :
            image[k].addr + i \in Loader!Addresses
            /\ image[k].addr + i \in ImageLines
    BY <1>2, InWindow
  <2>4. Loader!KernelIn(ram)'
    BY <1>1, <1>2, <2>3 DEF Loader!KernelIn
  <2>5. \A i \in 0..DtbSize - 1 :
            Loader!DtbDest + i \in Loader!Addresses
            /\ Loader!DtbDest + i \in ImageLines
    BY <1>2, InWindow
  <2>6. Loader!DtbIn(ram)'
    BY <1>1, <1>2, <1>3, <2>5 DEF Loader!DtbIn
  <2>7. 1 \in 1..Len(image)
    BY <2>2
  <2>8. SUFFICES ASSUME Accepted, ~Loader!Overlaps
                 PROVE  \A a \in Payload : ram'[a] = a /\ a \notin DOMAIN dirty'
    BY <1>1, <1>3, <1>6, <2>1, <2>4, <2>6, <2>7 DEF Apart, Payload
  <2>9. \A a \in Payload : ram[a] = a /\ a \notin DOMAIN dirty
    BY <2>8 DEF LoaderInv, Apart
  <2> QED BY <1>1, <1>4, <1>6, <2>9, PayloadIsMemory
<1> QED BY <1>7, <1>8, <1>9 DEF LoaderInv

(* In RAM an image apart from its payload is what the comparison wants. *)
LEMMA VerifySteps ==
    ASSUME Loader!LoaderAssumption, LoaderInv, Loader!VerifyElf
           \/ Loader!VerifyDtb
    PROVE  LoaderInv'
<1>1. /\ loader_pc \in {"verify", "verify_dtb"}
      /\ loader_pc' \in {"verify", "verify_dtb", "invalidate"}
      /\ image' = image /\ dirty' = dirty /\ icache' = icache
  BY DEF Loader!VerifyElf, Loader!VerifyDtb, Loader!Goto
<1>2. LoaderType /\ Accepted /\ image \in Images
  BY <1>1 DEF LoaderInv, LoaderType
<1>3. Accepted' = Accepted /\ Loader!Overlaps' = Loader!Overlaps
      /\ ImageLines' = ImageLines
      /\ Loader!DtbDest' = Loader!DtbDest
  BY <1>1, SameWindow
<1>4. LoaderType'
  BY <1>1, <1>2, <1>3 DEF LoaderType
<1>5. Moving'
  BY <1>1 DEF Moving, Loader!CopyIsWhole, Early
<1>6. Apart'
  <2>1. SUFFICES ASSUME ~Loader!Overlaps
                 PROVE  ram' = ram
                        /\ (loader_pc' = "verify" => at' \in 1..Len(image))
    <3>1. ASSUME ~Loader!Overlaps
          PROVE  /\ ram \in Memory
                 /\ \A a \in Payload : ram[a] = a /\ a \notin DOMAIN dirty
                 /\ Loader!KernelIn(ram) /\ Loader!DtbIn(ram)
                 /\ ImageLines \cap DOMAIN dirty = {}
                 /\ ImageLines \cap icache = {}
      BY <1>1, <1>2, <3>1 DEF LoaderInv, Apart, Early
    <3>2. ASSUME ~Loader!Overlaps, ram' = ram
          PROVE  Loader!KernelIn(ram)' /\ Loader!DtbIn(ram)'
      BY <1>1, <1>3, <3>1, <3>2 DEF Loader!KernelIn, Loader!DtbIn
    <3> QED BY <1>1, <1>3, <2>1, <3>1, <3>2 DEF Apart, Payload, Early
  <2>2. /\ ram \in Memory /\ \A a \in Payload : ram[a] = a
        /\ Loader!KernelIn(ram)
           /\ \A i \in 0..DtbSize - 1 : ram[Loader!DtbDest + i] = Loader!Dtb + i
        /\ loader_pc = "verify" => at \in 1..Len(image)
    BY <1>1, <1>2, <2>1 DEF LoaderInv, Apart, Early, Loader!DtbIn
  <2>3. /\ Len(image) \in Nat \ {0} /\ DOMAIN image = 1..Len(image)
        /\ Loader!LoadMin \in Nat /\ Loader!LoadMax \in Nat
        /\ Loader!DtbDest \in Nat \ {0}
        /\ RamTop \in Nat /\ Blob \in Nat \ {0} /\ Loader!Dtb \in Nat \ {0}
        /\ DtbSize \in Nat
        /\ Loader!PayloadEnd = Loader!Dtb + DtbSize
        /\ Loader!PayloadEnd < RamTop
        /\ Loader!PayloadEnd <= Loader!DtbDest
        /\ Loader!DtbDest + DtbSize <= RamTop /\ Blob <= Loader!Dtb
    BY <1>2, Layout
  <2>4. CASE Loader!VerifyElf
    <3>1. /\ loader_pc = "verify" /\ ram' = Loader!VerifyRecord(ram, image[at])
          /\ at' = at + 1
          /\ loader_pc' = IF at = Len(image) THEN "verify_dtb" ELSE "verify"
      BY <2>4 DEF Loader!VerifyElf, Loader!Goto
    <3>2. at \in DOMAIN image
      BY <2>2, <2>3, <3>1
    <3> DEFINE dst == image[at].addr
               off == image[at].off
               src == Blob + off
               len == image[at].file
               mem == image[at].mem
    <3>3. /\ src \in Nat /\ len \in Nat /\ mem \in Nat /\ dst \in Nat \ {0}
          /\ len <= mem /\ src + len <= Loader!Dtb /\ src <= dst /\ Blob <= src
          /\ Loader!LoadMin <= dst /\ dst + mem <= Loader!LoadMax
      <4>1. /\ off \in Nat /\ len \in Nat /\ mem \in Nat
            /\ dst \in Nat \ {0} /\ len <= mem /\ Blob + off + len <= Loader!Dtb
            /\ Blob + off <= dst /\ Loader!LoadMin <= dst
            /\ dst + mem <= Loader!LoadMax
        BY <1>2, <3>2, Layout
      <4> HIDE DEF dst, off, len, mem
      <4> QED BY <2>3, <4>1
    <3>4. \A a \in Loader!LoadMin .. Loader!LoadMax - 1 :
              a \notin Blob .. Loader!PayloadEnd - 1
      BY <2>1 DEF Loader!Overlaps, Loader!LoadRange
    <3>5. dst >= src + len
      <4> HIDE DEF dst, src, len, mem
      <4>1. SUFFICES ASSUME dst < src + len PROVE FALSE
        BY <3>3
      <4>2. dst \in Loader!LoadMin .. Loader!LoadMax - 1
        BY <2>3, <3>3, <4>1
      <4>3. dst \in Blob .. Loader!PayloadEnd - 1
        BY <2>3, <3>3, <4>1
      <4> QED BY <3>4, <4>2, <4>3
    <3>6. SourceIn(ram, at)
      <4>1. ASSUME NEW i \in 0..len - 1 PROVE src + i \in Payload
        <5> HIDE DEF dst, src, len, mem
        <5> QED BY <2>3, <3>3 DEF Payload
      <4> QED BY <2>2, <4>1 DEF SourceIn
    <3>7. RecordIn(ram, at)
      BY <2>2, <3>2 DEF Loader!KernelIn, RecordIn
    <3>8. ram' = ram
      BY <1>2, <2>2, <3>1, <3>2, <3>5, <3>6, <3>7, RecordVerified
    <3>9. at # Len(image) => at + 1 \in 1..Len(image)
      BY <2>3, <3>2
    <3> QED BY <3>1, <3>8, <3>9
  <2>5. CASE Loader!VerifyDtb
    <3>1. ram' =
              Loader!VerifyRepairRange(ram, Loader!DtbDest, Loader!Dtb, DtbSize)
              /\ loader_pc' # "verify"
      BY <2>5 DEF Loader!VerifyDtb, Loader!Goto
    <3>2. Fits(Loader!DtbDest, Loader!Dtb, DtbSize)
          /\ Loader!DtbDest >= Loader!Dtb + DtbSize
      BY <2>3 DEF Fits
    <3>3. ram' = [a \in Loader!Addresses |->
                      IF a \in Loader!DtbDest .. Loader!DtbDest + DtbSize - 1
                      THEN ram[Loader!Dtb + (a - Loader!DtbDest)] ELSE ram[a]]
      BY <2>2, <3>1, <3>2, CopyIsMove
    <3>4. ASSUME NEW a \in Loader!Addresses,
                 a \in Loader!DtbDest .. Loader!DtbDest + DtbSize - 1
          PROVE  ram[Loader!Dtb + (a - Loader!DtbDest)] = ram[a]
      <4> DEFINE i == a - Loader!DtbDest
      <4>1. i \in 0..DtbSize - 1 /\ Loader!DtbDest + i = a
            /\ Loader!Dtb + i \in Payload
        BY <2>3, <3>4 DEF Payload
      <4> HIDE DEF i
      <4>2. ram[Loader!Dtb + i] = Loader!Dtb + i
            /\ ram[Loader!DtbDest + i] = Loader!Dtb + i
        BY <2>2, <4>1
      <4> QED BY <4>1, <4>2 DEF i
    <3>5. ram' = ram
      BY <2>2, <3>3, <3>4 DEF Memory
    <3> QED BY <3>1, <3>5
  <2> QED BY <2>4, <2>5
<1> QED BY <1>4, <1>5, <1>6 DEF LoaderInv

(* The caches forget what is left of the image. *)
LEMMA InvalidateStep ==
    ASSUME Loader!LoaderAssumption, LoaderInv, Loader!Invalidate
    PROVE  LoaderInv'
<1>1. /\ loader_pc = "invalidate" /\ loader_pc' = "jump" /\ image' = image
      /\ ram' = ram
      /\ dirty' = Loader!Only(dirty, Loader!Addresses \ ImageLines)
      /\ icache' = {}
  BY DEF Loader!Invalidate, Loader!Goto, ImageLines
<1>2. LoaderType /\ Accepted
  BY <1>1 DEF LoaderInv, LoaderType
<1>3. Accepted' = Accepted /\ Loader!Overlaps' = Loader!Overlaps
      /\ ImageLines' = ImageLines
      /\ Loader!DtbDest' = Loader!DtbDest
  BY <1>1, SameWindow
<1>4. /\ DOMAIN dirty' \subseteq DOMAIN dirty
      /\ dirty' \in [DOMAIN dirty' -> Int]
      /\ DOMAIN dirty \subseteq Loader!Addresses
  BY <1>1, <1>2, OnlyPart DEF LoaderType
<1>5. LoaderType'
  BY <1>1, <1>2, <1>3, <1>4 DEF LoaderType
<1>6. Moving'
  BY <1>1 DEF Moving, Loader!CopyIsWhole, Early
<1>7. Apart'
  <2>1. ASSUME ~Loader!Overlaps
        PROVE  /\ ram \in Memory
               /\ \A a \in Payload : ram[a] = a /\ a \notin DOMAIN dirty
               /\ Loader!KernelIn(ram) /\ Loader!DtbIn(ram)
               /\ ImageLines \cap DOMAIN dirty = {}
    BY <1>1, <1>2, <2>1 DEF LoaderInv, Apart, Early
  <2>2. ASSUME ~Loader!Overlaps
        PROVE  Loader!KernelIn(ram)' /\ Loader!DtbIn(ram)'
    BY <1>1, <1>3, <2>1, <2>2 DEF Loader!KernelIn, Loader!DtbIn
  <2>3. ASSUME ~Loader!Overlaps PROVE \A a \in Payload : a \notin DOMAIN dirty'
    BY <1>4, <2>1, <2>3
  <2>4. ASSUME ~Loader!Overlaps
        PROVE  ImageLines \cap DOMAIN dirty' = {} /\ ImageLines \cap icache' = {}
    BY <1>1, <1>4, <2>1, <2>4
  <2> QED BY <1>1, <1>3, <2>1, <2>2, <2>3, <2>4 DEF Apart, Payload
<1> QED BY <1>5, <1>6, <1>7 DEF LoaderInv

(* A line written back is none of the payload, nor of the image in RAM. *)
LEMMA EvictStep ==
    ASSUME Loader!LoaderAssumption, LoaderInv, Loader!Evict
    PROVE  LoaderInv'
<1>1. /\ loader_pc \notin {"scan", "panic", "jump"} /\ loader_pc' = loader_pc
      /\ image' = image
      /\ at' = at /\ icache' = icache
  BY DEF Loader!Evict
<1>2. PICK x \in DOMAIN dirty : /\ ram' = [ram EXCEPT ![x] = dirty[x]]
                               /\ dirty' =
                                      Loader!Only(dirty, Loader!Addresses \ {x})
  BY DEF Loader!Evict
<1>3. LoaderType /\ Accepted /\ image \in Images
  BY <1>1 DEF LoaderInv, LoaderType
<1>4. Accepted' = Accepted /\ Loader!Overlaps' = Loader!Overlaps
      /\ ImageLines' = ImageLines
      /\ Loader!DtbDest' = Loader!DtbDest
  BY <1>1, SameWindow
<1>5. /\ DOMAIN dirty \subseteq Loader!Addresses
      /\ dirty \in [DOMAIN dirty -> Int]
      /\ DOMAIN dirty' = DOMAIN dirty \cap (Loader!Addresses \ {x})
      /\ \A a \in DOMAIN dirty \cap (Loader!Addresses \ {x}) :
             dirty'[a] = dirty[a]
      /\ dirty' \in [DOMAIN dirty' -> Int]
  BY <1>2, <1>3, OnlyPart DEF LoaderType
<1>6. x \in Loader!Addresses /\ DOMAIN dirty' \subseteq DOMAIN dirty
      /\ DOMAIN dirty' = DOMAIN dirty \ {x} /\ dirty[x] \in Int
  BY <1>5
<1>7. LoaderType'
  BY <1>1, <1>3, <1>4, <1>5, <1>6 DEF LoaderType
<1>8. ram \in Memory => /\ ram' \in Memory
                        /\ \A a \in Loader!Addresses :
                               ram'[a] = IF a = x THEN dirty[x] ELSE ram[a]
  BY <1>2, <1>6 DEF Memory
<1>9. ram \in Memory => Loader!Cached' = Loader!Cached
  <2>1. SUFFICES ASSUME ram \in Memory PROVE Loader!Cached' = Loader!Cached
    OBVIOUS
  <2>2. \A a \in Loader!Addresses :
          (IF a \in DOMAIN dirty' THEN dirty'[a] ELSE ram'[a]) =
              IF a \in DOMAIN dirty THEN dirty[a] ELSE ram[a]
    BY <1>5, <1>6, <1>8, <2>1
  <2> QED BY <2>2 DEF Loader!Cached
<1>10. Moving'
  <2>1. CASE loader_pc \in Early
    <3>1. ram \in Memory /\ ram' \in Memory /\ Loader!Cached' = Loader!Cached
      BY <1>8, <1>9, <2>1 DEF LoaderInv, Moving
    <3>2. Loader!DtbIn(Loader!Cached) => Loader!DtbIn(Loader!Cached)'
      BY <1>4, <3>1 DEF Loader!DtbIn
    <3>3. Loader!KernelIn(Loader!Cached) => Loader!KernelIn(Loader!Cached)'
      BY <1>1, <3>1 DEF Loader!KernelIn
    <3>4. \A k \in DOMAIN image : RecordIn(Loader!Cached, k) =>
              RecordIn(Loader!Cached, k)'
      BY <1>1, <3>1 DEF RecordIn
    <3>5. \A k \in DOMAIN image : SourceIn(Loader!Cached, k) =>
              SourceIn(Loader!Cached, k)'
      BY <1>1, <3>1 DEF SourceIn
    <3> QED BY <1>1, <3>1, <3>2, <3>3, <3>4, <3>5
            DEF LoaderInv, Moving, Loader!CopyIsWhole, Payload
  <2>2. CASE loader_pc \notin Early
    BY <1>1, <2>2 DEF Moving, Loader!CopyIsWhole, Early
  <2> QED BY <2>1, <2>2
<1>11. Apart'
  <2>1. CASE Loader!Overlaps
    BY <1>4, <2>1 DEF Apart
  <2>2. CASE ~Loader!Overlaps
    <3>1. /\ ram \in Memory
          /\ \A a \in Payload : ram[a] = a /\ a \notin DOMAIN dirty
          /\ loader_pc \notin Early =>
                 /\ Loader!KernelIn(ram) /\ Loader!DtbIn(ram)
                 /\ ImageLines \cap DOMAIN dirty = {}
                 /\ ImageLines \cap icache = {}
          /\ loader_pc = "verify" => at \in 1..Len(image)
      BY <1>3, <2>2 DEF LoaderInv, Apart
    <3>2. /\ ram' \in Memory
          /\ \A a \in Loader!Addresses : a # x => ram'[a] = ram[a]
      BY <1>8, <3>1
    <3>3. \A a \in Payload : ram'[a] = a /\ a \notin DOMAIN dirty'
      BY <1>6, <3>1, <3>2, PayloadIsMemory
    <3>4. loader_pc \notin Early => ImageLines \cap DOMAIN dirty' = {}
      BY <1>6, <3>1
    <3>5. ASSUME loader_pc \notin Early
          PROVE  Loader!KernelIn(ram)' /\ Loader!DtbIn(ram)'
      <4>1. x \notin ImageLines
        BY <3>1, <3>5
      <4>2. ASSUME NEW k \in DOMAIN image, NEW i \in 0..image[k].mem - 1
            PROVE  image[k].addr + i \in Loader!Addresses
                   /\ image[k].addr + i \in ImageLines
        BY <1>3, InWindow
      <4>3. Loader!KernelIn(ram)'
        BY <1>1, <3>1, <3>2, <3>5, <4>1, <4>2 DEF Loader!KernelIn
      <4>4. ASSUME NEW i \in 0..DtbSize - 1
            PROVE  Loader!DtbDest + i \in Loader!Addresses
                   /\ Loader!DtbDest + i \in ImageLines
        BY <1>3, InWindow
      <4>5. Loader!DtbIn(ram)'
        BY <1>4, <3>1, <3>2, <3>5, <4>1, <4>4 DEF Loader!DtbIn
      <4> QED BY <4>3, <4>5
    <3> QED BY <1>1, <1>4, <3>1, <3>2, <3>3, <3>4, <3>5 DEF Apart, Payload
  <2> QED BY <2>1, <2>2
<1> QED BY <1>7, <1>10, <1>11 DEF LoaderInv

(* The invariant of the loader is inductive. *)
LEMMA LoaderInductive ==
    ASSUME Loader!LoaderAssumption, LoaderInv, [Loader!Next]_(Loader!vars)
    PROVE  LoaderInv'
<1>1. CASE UNCHANGED Loader!vars
  <2>1. /\ loader_pc' = loader_pc /\ image' = image /\ at' = at /\ ram' = ram
        /\ dirty' = dirty
        /\ icache' = icache
    BY <1>1 DEF Loader!vars
  <2>2. Accepted' = Accepted /\ Loader!Overlaps' = Loader!Overlaps
        /\ ImageLines' = ImageLines
        /\ Loader!DtbDest' = Loader!DtbDest
    BY <2>1, SameWindow
  <2>3. Loader!Cached' = Loader!Cached
    BY <2>1 DEF Loader!Cached
  <2>4. LoaderType'
    BY <2>1, <2>2 DEF LoaderInv, LoaderType
  <2>5. Moving'
    <3>1. Loader!DtbIn(Loader!Cached) => Loader!DtbIn(Loader!Cached)'
      BY <2>2, <2>3 DEF Loader!DtbIn
    <3>2. Loader!KernelIn(Loader!Cached) => Loader!KernelIn(Loader!Cached)'
      BY <2>1, <2>3 DEF Loader!KernelIn
    <3>3. \A k \in DOMAIN image : RecordIn(Loader!Cached, k) =>
              RecordIn(Loader!Cached, k)'
      BY <2>1, <2>3 DEF RecordIn
    <3>4. \A k \in DOMAIN image : SourceIn(Loader!Cached, k) =>
              SourceIn(Loader!Cached, k)'
      BY <2>1, <2>3 DEF SourceIn
    <3> QED BY <2>1, <2>3, <3>1, <3>2, <3>3, <3>4
            DEF LoaderInv, Moving, Loader!CopyIsWhole, Payload
  <2>6. Apart'
    <3>1. Loader!DtbIn(ram) => Loader!DtbIn(ram)'
      BY <2>1, <2>2 DEF Loader!DtbIn
    <3>2. Loader!KernelIn(ram) => Loader!KernelIn(ram)'
      BY <2>1 DEF Loader!KernelIn
    <3> QED BY <2>1, <2>2, <3>1, <3>2 DEF LoaderInv, Apart, Payload
  <2> QED BY <2>4, <2>5, <2>6 DEF LoaderInv
<1> QED BY <1>1, ScanSteps, CopyDtbStep, CopyElfStep, FlushImageStep,
           VerifySteps, 
           InvalidateStep, EvictStep DEF Loader!Next

(* The invariant is what the loader promises. *)
LEMMA LoaderInvGives ==
    ASSUME Loader!LoaderAssumption, LoaderInv
    PROVE  Loader!CopyIsWhole /\ Loader!ApartJumpFindsImage
<1>1. Loader!CopyIsWhole
  BY DEF LoaderInv, Moving
<1>2. ASSUME ~Loader!Overlaps, loader_pc = "jump"
      PROVE  /\ Loader!KernelIn(ram) /\ Loader!DtbIn(ram)
             /\ Loader!Loaded \cap (DOMAIN dirty \cup icache) = {}
  <2>1. Accepted /\ image \in Images
    BY <1>2 DEF LoaderInv, LoaderType
  <2>2. /\ Loader!KernelIn(ram) /\ Loader!DtbIn(ram)
        /\ ImageLines \cap DOMAIN dirty = {} /\ ImageLines \cap icache = {}
    BY <1>2, <2>1 DEF LoaderInv, Apart, Early
  <2>3. Loader!Loaded \subseteq ImageLines
    <3>1. ASSUME NEW k \in DOMAIN image,
                 NEW a \in image[k].addr .. image[k].addr + image[k].mem - 1
          PROVE  a \in ImageLines
      <4>1. /\ image[k].addr \in Nat /\ image[k].mem \in Nat
            /\ Loader!LoadMin <= image[k].addr /\ Loader!LoadMin \in Nat
            /\ Loader!LoadMax \in Nat
            /\ image[k].addr + image[k].mem <= Loader!LoadMax
        BY <2>1, Layout
      <4> QED BY <4>1 DEF ImageLines, Loader!LoadRange
    <3>2. Loader!DtbRange \subseteq ImageLines
      BY DEF ImageLines
    <3> QED BY <3>1, <3>2 DEF Loader!Loaded
  <2> QED BY <2>2, <2>3
<1> QED BY <1>1, <1>2 DEF Loader!ApartJumpFindsImage, Loader!JumpFindsImage

LoaderPart == part = "loader" => LoaderInv

(* For every payload, size of memory and program headers whose records     *)
(* ascend and load above their place in the payload: walking the records   *)
(* backwards overwrites no word that is still to be moved, and a kernel    *)
(* apart from its payload is entered with RAM and caches agreeing on it.   *)
THEOREM ImageIsKept == Spec => []LoaderKeepsImage
<1>1. Init => LoaderPart
  BY StorageAssumption, PartStarts, LoaderStarts DEF LoaderPart
<1>2. LoaderPart /\ [Next]_vars => LoaderPart'
  <2> SUFFICES ASSUME LoaderPart, [Next]_vars, part' = "loader" PROVE LoaderInv'
    BY DEF LoaderPart
  <2>1. LoaderInv /\ [Loader!Next]_(Loader!vars)
    BY PartSteps DEF LoaderPart
  <2> QED BY <2>1, StorageAssumption, LoaderInductive
<1>3. LoaderPart => LoaderKeepsImage
  BY StorageAssumption, LoaderInvGives DEF LoaderPart, LoaderKeepsImage
<1> QED BY <1>1, <1>2, <1>3, PTL DEF Spec
=============================================================================
