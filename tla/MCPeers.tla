------------------------------- MODULE MCPeers -------------------------------
(* Instances of Peers for TLC. *)
EXTENDS Peers, TLC

\* This device and what stands for no value are not interchanged.
Symmetry == Permutations(Fp \ {Self}) \cup Permutations(Addr)

\* Bounds: no save fails and the program does not end; or it ends only while the
\* file is written.
SavesEnd == Init /\ [][Next /\ ~ProgramRestarts /\ \A c \in Call : ~WriteFails(c)]_vars
EndsInSave == Init /\ [][Next /\ (ProgramRestarts => \E c \in Call : At(c, "writing"))]_vars

=============================================================================
