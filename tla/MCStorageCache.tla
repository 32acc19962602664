--------------------------- MODULE MCStorageCache ---------------------------
(* Small instances of StorageCache for TLC.                                *)
EXTENDS StorageCache, TLC

CONSTANTS f1, f2

(* Versions are only ever compared with each other.                        *)
VersionSymmetry == Permutations(Version)

(* One file of one sector and one of two: replacing one with the other     *)
(* moves everything that follows it.                                       *)
MCFileSectors == [f \in File |-> IF f = f1 THEN 1 ELSE 2]

(* Any file in any slot.                                                   *)
AnyFile == [e \in 0 .. MaxSlots - 1 |-> File \cup {NoFile}]

(* A board with a cache volume, with or without slots, with or without the *)
(* data check; and one with no cache volume, which checks nothing.         *)
AnyBoot ==
  [roles : {Role, {"LinearCache"}}, skip : BOOLEAN]
    \cup [roles : {{"FatFsDrive0"}}, skip : {FALSE}]
FullCheck == [roles : {Role}, skip : {FALSE}]

MCJunk == [kind |-> "junk"]
=============================================================================
