------------------------------ MODULE Sessions ------------------------------
(***************************************************************************)
(* What the receiving server promises of the sessions other devices open,  *)
(* whatever calls overlap and whichever of them the runtime runs first:    *)
(* "one upload session; the protocol allows only one at a time"            *)
(* (server.rs:354).  A session may begin once, after the user said yes and *)
(* with the files the user kept, and one that began ends once, complete    *)
(* with its last file or else cancelled or timed out.  UploadServer        *)
(* implements it.                                                          *)
(***************************************************************************)
EXTENDS Sequences

CONSTANTS
    Session,    \* the sessions that other devices ask for
    File,       \* the files each offers
    Teller      \* whoever ends sessions, and then says so

VARIABLES
    phase,      \* how far each session is: gone never began, over began and ended
    said,       \* what the user said to each
    kept,       \* the files of each that the user said yes to
    left,       \* the files of the active session that are still to come
    owed,       \* the ends that nobody was told of yet
    told,       \* the ends that were told of each session
    disturbed   \* a session was cancelled before it began

vars == <<phase, said, kept, left, owed, told, disturbed>>

Init ==
    /\ phase = [s \in Session |-> "idle"]
    /\ said = [s \in Session |-> "nothing"]
    /\ kept = [s \in Session |-> {}]
    /\ left = {}
    /\ owed = {}
    /\ told = [s \in Session |-> <<>>]
    /\ disturbed = FALSE

Reaches(s, to) == phase' = [phase EXCEPT ![s] = to]

\* One sender at a time is asked about, and none while files come in; only a
\* cancellation lets the next one ask before the last one has gone.
Ask(s) ==
    /\ phase[s] = "idle"
    /\ \A r \in Session : phase[r] # "active"
    /\ disturbed \/ \A r \in Session : phase[r] # "asked"
    /\ Reaches(s, "asked")
    /\ UNCHANGED <<said, kept, left, owed, told, disturbed>>

TurnAway(s) ==
    /\ phase[s] = "idle"
    /\ Reaches(s, "gone")
    /\ UNCHANGED <<said, kept, left, owed, told, disturbed>>

\* The user answers once, perhaps after the session is gone.
Answer(s) ==
    /\ said[s] = "nothing"
    /\ phase[s] # "idle"
    /\ \/ said' = [said EXCEPT ![s] = "no"] /\ UNCHANGED kept
       \/ said' = [said EXCEPT ![s] = "yes"]
          /\ \E S \in SUBSET File : kept' = [kept EXCEPT ![s] = S]
    /\ UNCHANGED <<phase, left, owed, told, disturbed>>

GiveUp(s) ==
    /\ phase[s] = "asked"
    /\ Reaches(s, "gone")
    /\ UNCHANGED <<said, kept, left, owed, told, disturbed>>

\* What the user said yes to takes effect.  A session that is still active then
\* is over, and nobody is told: only after a cancellation.
Begin(s) ==
    /\ phase[s] = "asked"
    /\ said[s] = "yes"
    /\ disturbed \/ \A r \in Session : phase[r] # "active"
    /\ phase' = [r \in Session |->
                    IF r = s THEN IF kept[s] = {} THEN "gone" ELSE "active"
                    ELSE IF phase[r] = "active" THEN "over" ELSE phase[r]]
    /\ left' = kept[s]
    /\ UNCHANGED <<said, kept, owed, told, disturbed>>

\* Somebody ends s and owes the others a word about it.
Owes(s, outcome) == \E t \in Teller : owed' = owed \cup {<<t, s, outcome>>}

\* A file is settled, and the session is complete with the last one.
Settle(s) ==
    /\ \E f \in kept[s] : left' = left \ {f}
    /\ IF left' = {}
       THEN Reaches(s, "over") /\ Owes(s, "completed")
       ELSE UNCHANGED <<phase, owed>>

\* A file has to come once more.
PutBack(s) ==
    /\ \E f \in kept[s] : left' = left \cup {f}
    /\ UNCHANGED <<phase, owed>>

End(s) ==
    /\ Reaches(s, "over")
    /\ left' = {}
    /\ Owes(s, "cancelled") \/ Owes(s, "timedOut")

\* The session that receives its files.
Receive(s) ==
    /\ phase[s] = "active"
    /\ Settle(s) \/ PutBack(s) \/ End(s)
    /\ UNCHANGED <<said, kept, told, disturbed>>

\* A session that did not begin is cancelled; whoever serves it may not know yet.
Withdraw(s) ==
    /\ phase[s] \in {"asked", "gone"}
    /\ disturbed' = TRUE
    /\ UNCHANGED <<phase, said, kept, left, told>>
    /\ Owes(s, "cancelled")

Tell(s) ==
    /\ \E e \in owed :
          /\ e[2] = s
          /\ owed' = owed \ {e}
          /\ told' = [told EXCEPT ![s] = Append(@, e[3])]
    /\ UNCHANGED <<phase, said, kept, left, disturbed>>

Next == \E s \in Session :
    \/ Ask(s) \/ TurnAway(s) \/ Answer(s) \/ GiveUp(s) \/ Begin(s)
    \/ Receive(s) \/ Withdraw(s) \/ Tell(s)

Spec == Init /\ [][Next]_vars

=============================================================================
