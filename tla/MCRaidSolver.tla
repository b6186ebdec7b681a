---------------------------- MODULE MCRaidSolver ----------------------------
(* Requests for RaidSolver: every combination of three sizes of disk, for    *)
(* four disks of two media types or six of one, and a machine without disks. *)
EXTENDS RaidSolver

Sizes == {2, 3, 5}
Ordered(n) == {f \in [1..n -> Sizes] : \A i, j \in 1..n : i < j => f[i] >= f[j]}
Table(f, m) == [i \in DOMAIN f |-> [capacity |-> f[i], media |-> IF i % m = 0 THEN "ssd" ELSE "hdd"]]
MCHardware ==
    {<<>>} \cup {Table(f, 2) : f \in Ordered(4)} \cup {Table(f, 7) : f \in Ordered(6)}
MCLevels == DOMAIN RAID_SETTINGS
MCTargets == {-1, 0, 3, 4, 7}
MCCounts == {AutoCount, 0, 3, 4, 6}
=============================================================================
