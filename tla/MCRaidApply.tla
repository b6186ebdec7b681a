---------------------------- MODULE MCRaidApply ----------------------------
(* Two controllers of the same name, with two drives each; requests that    *)
(* are fine for one of them and wrong for the other, in the hint, the level,*)
(* the mode or the number of disks.                                         *)
EXTENDS RaidApply, TLC

CONSTANTS c1, c2

MCControllers == <<c1, c2>>
MCManageable == {{c1, c2}, {c1}}
MCOld == c1 :> {1} @@ c2 :> {}
MCNames == c1 :> {"1", "RAID card"} @@ c2 :> {"2", "RAID card"}
MCLevels == c1 :> {"0", "5"} @@ c2 :> {"0"}

Disk(hint, level) == [hint |-> hint, level |-> level, few |-> FALSE]
TooFew(hint, level) == [hint |-> hint, level |-> level, few |-> TRUE]
MCRequests ==
    {<<Disk("1", "0"), Disk("RAID card", "5")>>,
     <<Disk("1", "0"), Disk("2", "0"), Disk("2", "0")>>,
     <<Disk("RAID card", "5"), Disk("2", "JBOD")>>,
     <<Disk("1", "0"), Disk("2", "JBOD"), Disk("2", "0")>>,
     <<Disk("1", "0"), Disk("2", "5")>>,
     <<Disk("1", "0"), Disk(NoHint, "0")>>,
     <<Disk("1", "0"), Disk("3", "0")>>,
     <<Disk("1", "0"), TooFew("2", "0")>>}

=============================================================================
