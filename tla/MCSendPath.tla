----------------------------- MODULE MCSendPath -----------------------------
(* Instances of SendPath for TLC. *)
EXTENDS SendPath, TLC

\* Bound: the watchdog and the receiving user take the mutex only when a session
\* is there for them; that they also hold it for nothing is in the runs of
\* UploadServer alone.
BusyReceiver ==
    /\ ctl["watchdog"] = "holding" => Stale
    /\ ctl["cancel_session"] = "holding" => slot.kind # "none"

\* Bound: the watchdog and the receiving user report the end of a session, which
\* no sender sees, before anything else happens.
ReportedAtOnce ==
    \A c \in Ctl \ {"cancel"} : ctl[c] = "report" => ctl'[c] = "idle"

\* Bound: the peer falls silent in the body of a reply only.  A call it leaves
\* without a reply is to the invariants what one is whose reply is never read.
SilentInBodies == \A c \in Prep \cup Up : reply[c] # "silent"

Symmetry == Permutations(Prep) \cup Permutations(Up) \cup Permutations(File)

=============================================================================
