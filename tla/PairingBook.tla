----------------------------- MODULE PairingBook -----------------------------
(***************************************************************************)
(* What the list of paired devices promises its user, however many scans   *)
(* run, answers come late and runs of the program follow each other: the   *)
(* devices in the book are the ones the user asked for last.  "A pairing   *)
(* is forgotten for good -- only pairing again brings the device back"     *)
(* (state.rs:966).  Peers implements it as long as nothing damaged what is *)
(* stored.                                                                 *)
(***************************************************************************)
CONSTANT Fp     \* the devices, by the fingerprint that identifies them

VARIABLES
    asked,  \* the devices that the user paired and did not forget since
    book,   \* the devices that are paired
    intact  \* nothing that was stored is damaged or lost

vars == <<asked, book, intact>>

\* A run that finds a list stored by an earlier one starts with it.
Init ==
    /\ asked \in SUBSET Fp
    /\ book = asked
    /\ intact = TRUE

Pair(fp) ==
    /\ asked' = asked \cup {fp}
    /\ book' = book \cup {fp}
    /\ UNCHANGED intact

Forget(fp) ==
    /\ asked' = asked \ {fp}
    /\ book' = book \ {fp}
    /\ UNCHANGED intact

\* What is stored is damaged: from here on the next run may find anything.
Lose ==
    /\ intact' = FALSE
    /\ book' \in SUBSET Fp
    /\ UNCHANGED asked

Next ==
    \/ \E fp \in Fp : Pair(fp) \/ Forget(fp)
    \/ Lose

Spec == Init /\ [][Next]_vars

=============================================================================
