----------------------------- MODULE MCAciSetup -----------------------------
(* AciSetup for TLC, with the setup messages of services.h, of which the    *)
(* .cfg gives the number.                                                   *)
EXTENDS AciSetup, Services

(* What the chip has accepted of a setup has no gap, and when that is all  *)
(* of it, the chip has the pipes that the program is compiled for: the two *)
(* tables of services.h, and its count of messages, agree.                 *)
SetupIsConsistent ==
    /\ \A i \in 1..accepted : Continues(i)
    /\ accepted = NumMessages => EndsWithChecksum /\ PipesAgree

=============================================================================
