---------------------------- MODULE MCLifecycle ----------------------------
(* Instances of Lifecycle for TLC. *)
EXTENDS Lifecycle

\* Bound: PINs are tried while no restart is under way.
TriedAtRest == failures' # failures /\ listener' = listener => Settled

\* Bound: every port is free, but for those that this program holds.
PortsFree ==
    \A r \in Restart : call[r] = "bind" /\ call'[r] = "refused" => PortTaken(config[r].port)

=============================================================================
