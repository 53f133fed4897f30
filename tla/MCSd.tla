-------------------------------- MODULE MCSd --------------------------------
(***************************************************************************)
(* Instances of SdSystem for TLC: sectors of two bytes, slots of two, one  *)
(* and two sectors, and two versions of each file.  Some end in mid-sector,*)
(* version 2 of Image does not fit its slot, and version 2 of DTB is an    *)
(* empty file.                                                             *)
(***************************************************************************)
EXTENDS SdSystem

Slots == [Image |-> 2, DTB |-> 1, initrd |-> 2]
TwoSizes == [Image |-> <<3, 5>>, DTB |-> <<1, 0>>, initrd |-> <<2, 3>>]
\* Files as they usually are.
UsualSizes == [Image |-> <<3, 2>>, DTB |-> <<1, 2>>, initrd |-> <<2, 3>>]
=============================================================================
