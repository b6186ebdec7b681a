----------------------------- MODULE MCDiskPlan -----------------------------
(* Controllers with four or five drives, some with a volume already, and    *)
(* requests for up to three volumes of every kind of the seven steps.       *)
EXTENDS DiskPlan

MCDisks == 1..5

Table(capacity, ssd, bad) ==
    [d \in MCDisks |-> [capacity |-> capacity[d], media |-> IF d \in ssd THEN "ssd" ELSE "hdd",
                        good |-> d \notin bad]]
Volume(disks, level, size) ==
    [disks |-> disks, level |-> level, span |-> 1, size |-> size, for |-> 0]

MCHardware ==
    {[drives |-> Table(<<2, 2, 2, 3, 3>>, {4, 5}, {}), volumes |-> <<>>],
     [drives |-> Table(<<4, 3, 3, 3, 2>>, {5}, {1, 2}),
      volumes |-> <<Volume({1, 2}, "RAID1", 1)>>],
     [drives |-> Table(<<4, 2, 2, 2, 2>>, {}, {1, 5}),
      volumes |-> <<Volume({1}, "RAID0", 1), Volume({1}, "RAID0", 1)>>]}

LD(level, size, share, disks, count, media) ==
    [level |-> level, size |-> size, share |-> share, disks |-> disks, count |-> count,
     media |-> media]

Kinds ==
    {LD("RAID1", 2, FALSE, {3, 4}, AutoCount, "any"), LD("RAID0", MAX_CAPACITY, FALSE, {3}, AutoCount, "any"),
     LD("RAID0", 3, FALSE, {}, AutoCount, "any"), LD("RAID5", 3, FALSE, {}, 3, "hdd"),
     LD("RAID0", 1, TRUE, {1}, AutoCount, "any"), LD("RAID1", 1, TRUE, {2, 3}, AutoCount, "any"),
     LD("RAID0", MAX_CAPACITY, TRUE, {1}, AutoCount, "any"),
     LD("RAID0", 1, TRUE, {}, AutoCount, "any"), LD("RAID1", 1, TRUE, {}, 2, "any"),
     LD("RAID0", MAX_CAPACITY, TRUE, {}, AutoCount, "any"), LD("RAID1", MAX_CAPACITY, TRUE, {}, AutoCount, "any"),
     LD("RAID0", 1, TRUE, {}, 2, "ssd"), LD("RAID0", 1, FALSE, {}, 2, "any"),
     LD("RAID0", 1, TRUE, {}, 0, "any"),
     LD("RAID0", MAX_CAPACITY, FALSE, {}, AutoCount, "ssd")}
MCRequests == UNION {[1..n -> Kinds] : n \in 1..3}
=============================================================================
