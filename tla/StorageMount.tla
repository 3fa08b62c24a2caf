---------------------------- MODULE StorageMount ----------------------------
(***************************************************************************)
(* The mount service: a loop that polls for a card, probes its volumes on  *)
(* temporary mountpoints, moves the best one to /mnt/sd ("sd") and the     *)
(* others to /mnt/sd2, /mnt/sd3, ..., and publishes the result.  The card  *)
(* may be pulled, put back or exchanged between any two calls.             *)
(*                                                                         *)
(* A card is [id, floppy, score]: what the sysfs identity tells of it,     *)
(* whether its first sector looks like a FAT boot sector, and the score of *)
(* each volume that holds a file system.  A mount is [vol, session], the   *)
(* session being the insertion the block device belongs to; a mount whose  *)
(* session is over is dead, though its root directory can still be looked  *)
(* up.                                                                     *)
(***************************************************************************)
EXTENDS Integers, Sequences, FiniteSets, SequencesExt

CONSTANTS Cards,       \* cards that may be put in
          Hasty,       \* the card is also pulled and put in during a scan
          MaxSessions, \* insertions in a behaviour
          MaxFaults    \* umount or move calls that fail in a behaviour

VARIABLES card, session,     \* the card in the slot, or NoCard, and its session
          identities,        \* identity of the card of each session
          pc, mounted, identity, last_identity,
          candidates,        \* devices still to be probed
          whole_disk,        \* the whole disk is probed first (superfloppy)
          vols,              \* volumes mounted for probing
          next_move,         \* volume to be relocated next
          probes,            \* mounts on the temporary mountpoints
          public,            \* stacks of mounts on /mnt/sd, /mnt/sd2, ...
          marker,            \* published roots, the primary first; or <<>>
          generation, faults

vars == <<card, session, identities, pc, mounted, identity, last_identity,
          candidates, whole_disk, vols, next_move, probes, public, marker,
          generation, faults>>
slot == <<card, session, identities>>

(* A volume that can be mounted has a score. *)
CardsAssumption ==
    \A c \in Cards : /\ c.floppy \in BOOLEAN
                     /\ \A dev \in DOMAIN c.score : c.score[dev] \in Int

NoCard == [id |-> "none", floppy |-> FALSE, score |-> <<>>]
Unknown == "unknown"
Slots == 1..3   \* /mnt/sd, /mnt/sd2, /mnt/sd3

Inserted == card # NoCard
Mountable(dev) == Inserted /\ dev \in DOMAIN card.score
CurrentIdentity == IF Inserted THEN card.id ELSE Unknown

(* collect_candidates: the partitions in order, then the whole disk, which
   carries no file system on a partitioned card. *)
Scan == <<"p1", "p2", "whole">>
-----------------------------------------------------------------------------
Init ==
    /\ card = NoCard
    /\ session = 0
    /\ identities = <<>>
    /\ pc = "poll"
    /\ mounted = FALSE
    /\ identity = Unknown
    /\ last_identity = Unknown
    /\ candidates = <<>>
    /\ whole_disk = FALSE
    /\ vols = <<>>
    /\ next_move = 1
    /\ probes = {}
    /\ public = [s \in Slots |-> <<>>]
    /\ marker = <<>>
    /\ generation = 0
    /\ faults = 0

(* The user *)
Insert ==
    /\ ~Inserted
    /\ Hasty \/ pc = "poll"
    /\ session < MaxSessions
    /\ session' = session + 1
    /\ \E c \in Cards : card' = c /\ identities' = Append(identities, c.id)
    /\ UNCHANGED <<pc, mounted, identity, last_identity, candidates, whole_disk,
                   vols, next_move, probes, public, marker, generation, faults>>

Pull ==
    /\ Inserted
    /\ Hasty \/ pc = "poll"
    /\ card' = NoCard
    /\ UNCHANGED <<session, identities, pc, mounted, identity, last_identity,
                   candidates, whole_disk, vols, next_move, probes, public,
                   marker, generation, faults>>
-----------------------------------------------------------------------------
(* umount of the topmost mount, which fails where files are open. *)
Unmounted(stack, busy) == IF busy \/ stack = <<>> THEN stack ELSE Front(stack)

(* Slip: leftover probe mounts are not cleared. *)
UnmountPublic(stacks, busy) ==
    /\ public' = [s \in Slots |-> Unmounted(stacks[s], s \in busy)]
    /\ probes' = probes
    /\ marker' = <<>>

(* unmount_all_volumes: every public mountpoint loses its topmost mount, except
   the ones that are in use, and the published files are removed. *)
UnmountAll(stacks, busy) ==
    /\ public' = [s \in Slots |-> Unmounted(stacks[s], s \in busy)]
    /\ probes' = {}
    /\ marker' = <<>>

Busy == {b \in {{}, {1}} : b # {} => faults < MaxFaults /\ public[1] # <<>>}
Charged(fault) == faults' = IF fault THEN faults + 1 ELSE faults

(* Slip: only a card that cannot be read is told from the last one. *)
CardChangedBlind(now) == now = Unknown

(* ensure_known_nodes creates /dev/mmcblk0 whether or not there is a card, so
   card_present never fails, and /mnt/sd and the marker answer as long as the
   service does not take them away: what is left is the identity. *)
CardChanged(now) ==
    now # Unknown /\ last_identity # Unknown /\ now # last_identity

(* One turn of the loop up to mount_all_volumes. *)
PollStays ==
    /\ pc = "poll"
    /\ mounted
    /\ ~CardChanged(CurrentIdentity)
    /\ identity' = CurrentIdentity
    /\ UNCHANGED <<slot, pc, mounted, last_identity, candidates, whole_disk, vols,
                   next_move, probes, public, marker, generation, faults>>

PollMounts ==
    /\ pc = "poll"
    /\ mounted => CardChanged(CurrentIdentity)
    /\ identity' = CurrentIdentity
    /\ mounted' = FALSE
    /\ \E busy \in Busy :
           IF mounted THEN UnmountAll(public, busy) /\ Charged(busy # {})
           ELSE UNCHANGED <<public, probes, marker, faults>>
    /\ pc' = "start"
    /\ UNCHANGED <<slot, last_identity, candidates, whole_disk, vols, next_move,
                   generation>>

(* mount_all_volumes up to its first probe; the boot sector may be unreadable. *)
MountAllStart ==
    /\ pc = "start"
    /\ \E floppy \in {FALSE, card.floppy} :
           /\ whole_disk' = floppy
           /\ candidates' = IF floppy THEN <<"whole">> ELSE Scan
    /\ vols' = <<>>
    /\ pc' = "probe"
    /\ UNCHANGED <<slot, mounted, identity, last_identity, next_move, probes,
                   public, marker, generation, faults>>

(* The score of a volume; a lone candidate is not scored, and an earlier one
   wins a tie. *)
Score(dev) ==
    (IF whole_disk THEN 1 ELSE card.score[dev]) + Len(candidates)

Probe ==
    /\ pc = "probe"
    /\ candidates # <<>>
    /\ candidates' = Tail(candidates)
    /\ LET dev == Head(candidates)
           mount == [vol |-> dev, session |-> session]
       IN  IF Mountable(dev)
           THEN /\ vols' = Append(vols, [mount |-> mount, score |-> Score(dev),
                                         at |-> 0])
                /\ probes' = probes \cup {mount}
           ELSE UNCHANGED <<vols, probes>>
    /\ UNCHANGED <<slot, pc, mounted, identity, last_identity, whole_disk,
                   next_move, public, marker, generation, faults>>

(* Nothing on the whole disk: the partitions are scanned after all. *)
ProbeAgain ==
    /\ pc = "probe"
    /\ candidates = <<>>
    /\ vols = <<>>
    /\ whole_disk
    /\ whole_disk' = FALSE
    /\ candidates' = Scan
    /\ UNCHANGED <<slot, pc, mounted, identity, last_identity, vols, next_move,
                   probes, public, marker, generation, faults>>

NothingFound ==
    /\ pc = "probe"
    /\ candidates = <<>>
    /\ vols = <<>>
    /\ ~whole_disk
    /\ pc' = "poll"
    /\ UNCHANGED <<slot, mounted, identity, last_identity, candidates, whole_disk,
                   vols, next_move, probes, public, marker, generation, faults>>

ProbesDone ==
    /\ pc = "probe"
    /\ candidates = <<>>
    /\ vols # <<>>
    /\ next_move' = 1
    /\ pc' = "relocate"
    /\ UNCHANGED <<slot, mounted, identity, last_identity, candidates, whole_disk,
                   vols, probes, public, marker, generation, faults>>

(* The first volume with the highest score. *)
Primary ==
    CHOOSE p \in DOMAIN vols :
        \A i \in DOMAIN vols : \/ vols[p].score > vols[i].score
                               \/ vols[p].score = vols[i].score /\ p <= i

Destination(i) == IF i = Primary THEN 1 ELSE IF i < Primary THEN i + 1 ELSE i

(* umount(dest), then the probe mount is moved there, or taken down and the
   device mounted once more; both can fail when the card is gone. *)
Moved(i, busy, moves) ==
    LET d == Destination(i)
        top == IF moves THEN <<vols[i].mount>>
               ELSE IF Mountable(vols[i].mount.vol)
               THEN <<[vol |-> vols[i].mount.vol, session |-> session]>>
               ELSE <<>>
    IN  [stack |-> Unmounted(public[d], busy) \o top, ok |-> top # <<>>]

(* Slip: a primary that cannot be moved is dropped like any other volume. *)
GivesUpNever(i, ok) == FALSE

GivesUp(i, ok) == ~ok /\ i = Primary

Relocate ==
    /\ pc = "relocate"
    /\ next_move <= Len(vols)
    /\ \E busy \in {b \in BOOLEAN : b => faults < MaxFaults /\ public[Destination(next_move)] # <<>>},
          moves \in {m \in BOOLEAN : m \/ faults < MaxFaults} :
           LET i == next_move
               m == Moved(i, busy, moves)
           IN  /\ Charged(busy \/ ~moves)
               /\ ~GivesUp(i, m.ok)
               /\ public' = [public EXCEPT ![Destination(i)] = m.stack]
               /\ probes' = probes \ {vols[i].mount}
               /\ vols' = [vols EXCEPT ![i].at = IF m.ok THEN Destination(i) ELSE 0,
                                       ![i].mount = IF m.ok THEN Last(m.stack) ELSE @]
    /\ next_move' = next_move + 1
    /\ UNCHANGED <<slot, pc, mounted, identity, last_identity, candidates,
                   whole_disk, marker, generation>>

(* The primary cannot be moved: everything is undone and tried again later. *)
RelocateGivesUp ==
    /\ pc = "relocate"
    /\ next_move <= Len(vols)
    /\ faults < MaxFaults
    /\ GivesUp(next_move, Moved(next_move, FALSE, FALSE).ok)
    /\ Charged(TRUE)
    /\ UnmountAll([public EXCEPT ![1] = Unmounted(@, FALSE)], {})
    /\ pc' = "poll"
    /\ UNCHANGED <<slot, mounted, identity, last_identity, candidates, whole_disk,
                   vols, next_move, generation>>

Root(v) == [at |-> v.at, vol |-> v.mount.vol]

(* The line of an extra volume, when it has been moved. *)
Extra(i) ==
    IF i \in DOMAIN vols /\ i # Primary /\ vols[i].at # 0
    THEN <<Root(vols[i])>> ELSE <<>>

(* publish_results, and the rest of the loop's turn. *)
Publish ==
    /\ pc = "relocate"
    /\ next_move > Len(vols)
    /\ marker' = <<Root(vols[Primary])>> \o Extra(1) \o Extra(2) \o Extra(3)
    /\ generation' = generation + 1
    /\ mounted' = TRUE
    /\ last_identity' = identity
    /\ pc' = "poll"
    /\ UNCHANGED <<slot, identity, candidates, whole_disk, vols, next_move, probes,
                   public, faults>>

Service ==
    \/ PollMounts \/ MountAllStart \/ Probe \/ ProbeAgain \/ NothingFound
    \/ ProbesDone \/ Relocate \/ RelocateGivesUp \/ Publish

Next == Insert \/ Pull \/ PollStays \/ Service

(* The service's loop never stops. *)
Fairness == WF_vars(Service)

Spec == Init /\ [][Next]_vars /\ Fairness
-----------------------------------------------------------------------------
Visible(s) == IF public[s] = <<>> THEN [vol |-> "none", session |-> 0]
              ELSE Last(public[s])

(* What is published can be used: the first root is /mnt/sd, every root shows
   the volume the map names for it, and no volume is at two of them. *)
PublishedIsMounted ==
    marker # <<>> =>
        /\ marker[1].at = 1
        /\ \A i \in DOMAIN marker : Visible(marker[i].at).vol = marker[i].vol
        /\ \A i, j \in DOMAIN marker : marker[i].vol = marker[j].vol => i = j

(* Between two polls no volume is left on a temporary mountpoint, whichever
   probe, move or second mount failed and whenever the card was pulled: the next
   scan would mount a volume a second time. *)
NoProbeLeft == pc = "poll" => probes = {}

(* What /mnt/sd shows is this card, or the service never knew which card it
   mounted: read_card_identity failed, and without an identity no exchange is
   noticed. *)
Serves(c) ==
    \/ last_identity = Unknown /\ mounted
    \/ marker # <<>> /\ identities[Visible(1).session] = c.id

(* What /mnt/sd shows belongs to the current insertion. *)
ServesSession == Visible(1).session = session

(* A card that stays in the slot ends up at /mnt/sd, at least when it can be
   told from the card before it. *)
SwappedCardIsMounted == \A c \in Cards : <>[](card = c) => <>[]Serves(c)

(* A card that stays in the slot is mounted, also when it is the same card put
   back. *)
ReinsertedCardIsMounted == <>[]Inserted => <>[]ServesSession
=============================================================================
