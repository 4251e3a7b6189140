------------------------------ MODULE Firmware ------------------------------
(***************************************************************************)
(* What a firmware update promises the owner of the device: at any moment  *)
(* the device holds a program it can run or a stored update from which the *)
(* boot loader can make one.  A step that does damage says so in harmed,   *)
(* and promises nothing from then on.  Fota implements it.                 *)
(***************************************************************************)
VARIABLES
    image,      \* the program in flash: "old", "new", or "none" that is whole
    stored,     \* a complete update is on the card
    harmed      \* something happened that the update is not made for

vars == <<image, stored, harmed>>

Init == image = "old" /\ stored = FALSE /\ harmed = FALSE

\* A running program downloads an update, or gives up the one it has.
Store == image # "none" /\ stored' = TRUE /\ UNCHANGED image
Drop == image # "none" /\ stored' = FALSE /\ UNCHANGED image

\* The boot loader replaces the program, which takes time.
Begin == stored /\ image' = "none" /\ UNCHANGED stored
Finish == stored /\ image = "none" /\ image' = "new" /\ UNCHANGED stored

Harm == harmed' = TRUE

Next ==
    \/ harmed = FALSE /\ harmed' = FALSE /\ (Store \/ Drop \/ Begin \/ Finish)
    \/ Harm

Spec == Init /\ [][Next]_vars
=============================================================================
