------------------------- MODULE MCStorageCacheMoved -------------------------
(***************************************************************************)
(* Five slots.  The first file may be replaced by a larger one, and the    *)
(* second by a copy of the fourth.  The third and the fifth have no archive*)
(* attribute, so that they are written again at every boot.                *)
(***************************************************************************)
EXTENDS StorageCache

CONSTANTS small, large, copied, third, fifth

MovedSlotFiles ==
  [e \in 0 .. 4 |->
     CASE e = 0 -> {small, large}
       [] e = 1 -> {small, copied}
       [] e = 2 -> {third}
       [] e = 3 -> {copied}
       [] e = 4 -> {fifth}]

MovedFileSectors == [f \in File |-> IF f = large THEN 3 ELSE 1]

MovedBoots == [roles : {Role}, skip : {FALSE}]

MovedJunk == [kind |-> "junk"]

=============================================================================
