--------------------------- MODULE MCUploadServer ---------------------------
(* Instances of UploadServer for TLC. *)
EXTENDS UploadServer, TLC

CONSTANT MaxCalls   \* bound: prepare-upload and upload calls that are ever made

Calls == Cardinality({p \in Prep : prep[p] # "new"}) + Cardinality({u \in Up : up[u] # "new"})
BoundedCalls == Calls <= MaxCalls

\* Calls and files are interchangeable.
Symmetry == Permutations(Prep) \cup Permutations(Up) \cup Permutations(File)

=============================================================================
