---------------------------- MODULE DiskSelection ----------------------------
(***************************************************************************)
(* Which disks a machine is installed on.  init lists the block devices of *)
(* the machine, the phone-home handler of server.py validates the list,    *)
(* filters and sorts it, chooses one disk or two and names them in the     *)
(* storage section of user-data; the early command of the RAID profile     *)
(* looks for a pair of its own before the installer starts.                *)
(***************************************************************************)
EXTENDS Naturals, Sequences, FiniteSets, SequencesExt

CONSTANTS
    Names,      \* names of block devices, in the order of /sys/block/*
    Kind,       \* what each name stands for; "disk" is a disk to install on
    Substrings, \* which of "sr", "md", "dm", "c" occur in each name
    Sizes,      \* sizes in sectors of 512 bytes
    SortsAfter  \* <<s, r>>: s in bytes, as text, sorts after r in bytes

NameSet == ToSet(Names)

\* what init passes over
Skipped == {"loop", "ram"}

ASSUME DiskAssumption ==
    /\ Names \in Seq(STRING)
    /\ IsInjective(Names)
    /\ Kind \in [NameSet -> {"disk", "path", "mapper", "md", "optical", "loop", "ram"}]
    /\ Substrings \in [NameSet -> SUBSET {"sr", "md", "dm", "c"}]
    /\ Sizes \subseteq Nat
    /\ SortsAfter \subseteq Sizes \X Sizes

\* What the filter of the handler takes for granted about the kernel's names:
\* those of paths, mappers, arrays and optical drives contain one of the
\* substrings.
ASSUME KernelNames ==
    \A d \in NameSet : Kind[d] \in Skipped \cup {"disk"} \/ Substrings[d] # {}

VARIABLES
    size,  \* the machine: its block devices and their sizes
    rm,    \* the disks that lsblk calls removable (RM = 1)
    raid,  \* the raid flag of job.json
    pc,    \* what happens next
    next,  \* the position in Names that init has reached
    uuids, \* DISKS_JSON
    pick,  \* d0_dev and d1_dev; <<>> while they have no value
    pair   \* sys0 and sys1 of the early command; <<>> without one

vars == <<size, rm, raid, pc, next, uuids, pick, pair>>

Init ==
    /\ \E devices \in SUBSET NameSet : size \in [devices -> Sizes]
    /\ rm \in SUBSET {d \in DOMAIN size : Kind[d] = "disk"}
    /\ raid \in BOOLEAN
    /\ pc = "inventory"
    /\ next = 1
    /\ uuids = <<>>
    /\ pick = <<>>
    /\ pair = <<>>

-----------------------------------------------------------------------------

\* SIZE_MB, which rounds down
MB(sectors) == sectors \div 2048

\* One round of the loop over /sys/block/*.
Inventory ==
    /\ pc = "inventory"
    /\ next <= Len(Names)
    /\ LET d == Names[next] IN
       uuids' = IF d \in DOMAIN size /\ Kind[d] \notin Skipped
                THEN Append(uuids, [dev |-> d, size_mb |-> MB(size[d])])
                ELSE uuids
    /\ next' = next + 1
    /\ UNCHANGED <<size, rm, raid, pc, pick, pair>>

\* The list does not validate: DiskInfo wants size_mb > 0.  400, nothing is
\* rendered, and the machine ends in a shell.
Refuse ==
    /\ pc = "inventory"
    /\ next > Len(Names)
    /\ \E d \in ToSet(uuids) : d.size_mb = 0
    /\ pc' = "shell"
    /\ UNCHANGED <<size, rm, raid, next, uuids, pick, pair>>

\* A variant of Valid that does not look for "c".
ValidPaths(d) ==
    /\ Substrings[d.dev] \cap {"sr", "md", "dm"} = {}
    /\ d.size_mb > 1024

\* valid_disks
Valid(d) ==
    /\ Substrings[d.dev] = {}
    /\ d.size_mb > 1024

\* The members of K, in the order of s.
Filtered(s, K) == FoldLeft(LAMBDA kept, d : IF d \in K THEN Append(kept, d) ELSE kept, <<>>, s)

valid_disks == Filtered(uuids, {d \in ToSet(uuids) : Valid(d)})

\* A variant of Inserted that puts the largest first.
InsertedDown(done, d) ==
    LET smaller == {i \in DOMAIN done : done[i].size_mb < d.size_mb}
    IN  InsertAt(done, IF smaller = {} THEN Len(done) + 1 ELSE Min(smaller), d)

\* d goes before the first that is larger, behind all of its own size.
Inserted(done, d) ==
    LET larger == {i \in DOMAIN done : done[i].size_mb > d.size_mb}
    IN  InsertAt(done, IF larger = {} THEN Len(done) + 1 ELSE Min(larger), d)

\* sorted(..., key = size_mb), which is stable
Sorted(s) == FoldLeft(LAMBDA done, d : Inserted(done, d), <<>>, s)

\* d0_dev and d1_dev.  Without a valid disk only the serials get a value.
Choice(hw) ==
    IF Len(hw) >= 2 /\ raid THEN <<hw[1].dev, hw[2].dev>>
    ELSE IF Len(hw) >= 1 THEN <<hw[1].dev, hw[1].dev>>
    ELSE <<>>

\* The profile with two disks is rendered when there are two.
Raided == pick # <<>> /\ pick[1] # pick[2]

Choose ==
    /\ pc = "inventory"
    /\ next > Len(Names)
    /\ \A d \in ToSet(uuids) : d.size_mb > 0
    /\ pick' = Choice(Sorted(valid_disks))
    /\ pc' = "render"
    /\ UNCHANGED <<size, rm, raid, next, uuids, pair>>

\* The substitutions name d0_dev and d1_dev: without a value, 500.
RenderFails ==
    /\ pc = "render"
    /\ pick = <<>>
    /\ pc' = "shell"
    /\ UNCHANGED <<size, rm, raid, next, uuids, pick, pair>>

Render ==
    /\ pc = "render"
    /\ pick # <<>>
    /\ pc' = IF Raided THEN "early" ELSE "install"
    /\ UNCHANGED <<size, rm, raid, next, uuids, pick, pair>>

-----------------------------------------------------------------------------

\* The disks of one size that lsblk lists, in its order; removable ones do not
\* count.
OfSize(s) == Filtered(Names, {d \in DOMAIN size \ rm : Kind[d] = "disk" /\ size[d] = s})

\* A variant of Pairs with an off-by-one.
PairsOver == {s \in Sizes : Len(OfSize(s)) > 2}

\* Sizes that occur twice.  awk compares them as text.
Pairs == {s \in Sizes : Len(OfSize(s)) >= 2}

EarlyCommand ==
    /\ pc = "early"
    /\ IF Pairs = {}
       THEN pc' = "poweroff" /\ UNCHANGED pair
       ELSE /\ pc' = "install"
            /\ \E s \in Pairs :
                 /\ \A r \in Pairs \ {s} : <<s, r>> \in SortsAfter
                 /\ pair' = SubSeq(OfSize(s), 1, 2)
    /\ UNCHANGED <<size, rm, raid, next, uuids, pick>>

Done == pc \in {"shell", "poweroff", "install"} /\ UNCHANGED vars

Next == Inventory \/ Refuse \/ Choose \/ RenderFails \/ Render \/ EarlyCommand \/ Done

Spec == Init /\ [][Next]_vars

-----------------------------------------------------------------------------
(* Properties *)

\* The disks of the machine that an installation may use.
Usable == {d \in DOMAIN size : Kind[d] = "disk" /\ MB(size[d]) > 1024}

\* Only a disk is ever chosen, never a path to one, an optical drive or a
\* device on top of other disks: what the substrings that the filter looks for
\* mean, for names as the kernel gives them.
PicksDisks == ToSet(pick) \subseteq Usable

\* Among the disks that pass the filter the chosen ones are the smallest, and
\* two are chosen only when the raid flag of job.json asks for them, and then
\* whenever there are two.  (README.md says that RAID is selected "automatically
\* if multiple disks are present"; without the flag it is not.)
PicksSmallest ==
    LET valid == {d \in ToSet(uuids) : Valid(d)}
        chosen == {d \in valid : d.dev \in ToSet(pick)}
    IN  pick # <<>> =>
          /\ \A d \in chosen, e \in valid \ chosen : d.size_mb <= e.size_mb
          /\ Cardinality(chosen) = IF raid /\ Cardinality(valid) >= 2 THEN 2 ELSE 1

\* The choice of the server and the early command fit as far as this: a machine
\* is powered off for want of two equal disks only when the server has chosen
\* two that differ, or a removable one, which the server does not tell from the
\* others.  They look at different lists, through different filters, and one of
\* them rounds.
PoweroffExplained ==
    pc = "poweroff" => size[pick[1]] # size[pick[2]] \/ ToSet(pick) \cap rm # {}

\* docs/Astro Overview.md: "Default selection is smallest single drive /
\* smallest two same-size drives for RAID".
DefaultSelection ==
    /\ pick # <<>> /\ ~raid => \A d \in Usable : MB(size[pick[1]]) <= MB(size[d])
    /\ Raided => MB(size[pick[1]]) = MB(size[pick[2]])
=============================================================================
