--------------------------- MODULE MCDestination ----------------------------
(* Instances of Destination for TLC, with the destinations that FileName makes *)
(* of what the senders ask for.                                                *)
EXTENDS Destination, FileName, TLC

CONSTANTS u1, u2, u3, u4

MCChar == {".", " ", "_", "a", "(1)", "?", "tab", "wide", "nul"}
MCWidth == [c \in MCChar |-> IF c = "wide" THEN 2 ELSE 1]
MCReserved == {<<"nul">>}
MCUntitled == <<"a">>

\* Three senders ask for the file that is there already, each in its own way, and
\* one for the name that a second file of that name gets.
MCAsked ==
    [u \in Up |-> CASE u = u1 -> << <<"a">> >>
                    [] u = u2 -> << <<".", ".">>, <<"a", ".">> >>
                    [] u = u3 -> << <<>>, <<"tab", "a", " ">> >>
                    [] u = u4 -> << <<"a", "(1)">> >>]
MCNameOf == [u \in Up |-> sanitize_relative_path(MCAsked[u])]
MCName == {MCNameOf[u] : u \in Up}

\* The name of the fourth is the first variant of the others'.
MCPath == MCName \X (0..LastSuffix)
MCVariant ==
    [name \in MCName |-> [k \in 0..LastSuffix |->
        IF name = MCNameOf[u1] /\ k = 1 THEN <<MCNameOf[u4], 0>> ELSE <<name, k>>]]
MCKept == {<<MCNameOf[u1], 0>>}

\* Files are received and names are tried, each from the same start.
MCInit == Init /\ NameInit
MCNext ==
    \/ Next /\ UNCHANGED offered
    \/ NameNext /\ UNCHANGED vars
MCSpec == MCInit /\ [][MCNext]_<<vars, offered>>
Apart == NameInit' \/ Init'
Symmetry == Permutations({u1, u2, u3} \cap Up)

=============================================================================
