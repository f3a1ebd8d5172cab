------------------------------ MODULE FileName ------------------------------
(***************************************************************************)
(* The name under which a received file is stored: what fs_util.rs makes   *)
(* of the name that its sender gave, before unique_path looks for a free   *)
(* one (Destination).                                                      *)
(*                                                                         *)
(* A component of a name is a sequence of characters, and a character is   *)
(* what the code asks of it: a dot, a space, one that it replaces.  The    *)
(* two cases of a letter are one character, as they are where the code     *)
(* compares them.  A file name is the sequence of components that its      *)
(* separators, which both slashes are, split it into.                      *)
(*                                                                         *)
(* The state is the file name itself, which a sender makes of anything,    *)
(* character by character, so that the properties are about every one.     *)
(***************************************************************************)
EXTENDS Naturals, Sequences, FiniteSetsExt

CONSTANTS
    Char,
    Dot, Space, Underscore,
    White,     \* what trim removes at both ends of a component
    Forbidden, \* FORBIDDEN and the control characters
    Width,     \* bytes of a character
    MaxBytes,  \* MAX_COMPONENT_BYTES
    Reserved,  \* RESERVED
    Untitled,  \* "untitled"
    MaxLength  \* bound: characters and separators of a file name

VARIABLE offered

\* The bytes of the first n characters, for each n.
BytesUpTo(name) ==
    LET total[n \in 0..Len(name)] ==
            IF n = 0 THEN 0 ELSE total[n - 1] + Width[name[n]]
    IN total

Bytes(name) == BytesUpTo(name)[Len(name)]

ASSUME CharAssumption ==
    /\ {Dot, Space, Underscore} \subseteq Char \ Forbidden
    /\ Underscore \notin {Dot, Space} /\ Dot # Space
    /\ White \subseteq Char /\ Space \in White
    /\ Untitled \in Seq(Char \ (Forbidden \cup {Dot, Space})) /\ Untitled # <<>>
    /\ Reserved \subseteq Seq(Char)

\* Even when the last character that fits is cut off with the rest, what is left
\* is longer than every device name.
ASSUME WidthAssumption ==
    /\ Width \in [Char -> 1..4]
    /\ MaxBytes \in Nat /\ MaxLength \in Nat
    /\ \A device \in Reserved \cup {Untitled}, c \in Char :
           Bytes(device) + Width[Underscore] + Width[c] <= MaxBytes
    /\ \A device \in Reserved : Untitled # device /\ <<Underscore>> \o device \notin Reserved

-----------------------------------------------------------------------------
(* One component *)

\* The last character that is not one of those, or 0.
LastOther(name, dropped) == Max({0} \cup {i \in DOMAIN name : name[i] \notin dropped})

trim_end_matches(name, dropped) == SubSeq(name, 1, LastOther(name, dropped))

trim(name) ==
    LET other == {i \in DOMAIN name : name[i] \notin White}
    IN IF other = {} THEN <<>> ELSE SubSeq(name, Min(other), Max(other))

Replaced(name) ==
    [i \in DOMAIN name |-> IF name[i] \in Forbidden THEN Underscore ELSE name[i]]

\* Sensitivity variants: a leading dot and the name of a device are kept, and a
\* name is cut to one character less.
LeadingDotKept(name) == name
DeviceKept(name) == name

Underscored(name) ==
    IF name # <<>> /\ name[1] = Dot THEN [name EXCEPT ![1] = Underscore] ELSE name

Titled(name) == IF name = <<>> THEN Untitled ELSE name

NotADevice(name) == IF name \in Reserved THEN <<Underscore>> \o name ELSE name

Fitting(name) == {n \in DOMAIN name : Bytes(SubSeq(name, 1, n)) <= MaxBytes}

OneLess(name) == SubSeq(name, 1, Max({0} \cup {n - 1 : n \in Fitting(name)}))

\* The longest prefix of whole characters that fits.
truncate_bytes(name) == SubSeq(name, 1, Max({0} \cup Fitting(name)))

\* The name before it is cut.
Uncut(name) ==
    NotADevice(Titled(Underscored(trim_end_matches(Replaced(name), {Dot, Space}))))

sanitize_component(name) == truncate_bytes(Uncut(name))

\* It does not end in what Windows drops.
Plain(name) == name = <<>> \/ name[Len(name)] \notin {Dot, Space}

-----------------------------------------------------------------------------
(* A file name *)

Skipped == {<<>>, <<Dot>>, <<Dot, Dot>>}

\* One turn of the loop: it goes on at a dropped element and pushes any other.
Turn(pushed, element, dropped) ==
    IF element \in dropped THEN pushed ELSE Append(pushed, element)

\* What is pushed after the first n turns, for each n.
PushedAfter(seq, dropped) ==
    LET pushed[n \in 0..Len(seq)] ==
            IF n = 0 THEN <<>> ELSE Turn(pushed[n - 1], seq[n], dropped)
    IN pushed

Without(seq, dropped) == PushedAfter(seq, dropped)[Len(seq)]

sanitize_relative_path(file_name) ==
    LET raws == Without([i \in DOMAIN file_name |-> trim(file_name[i])], Skipped)
        components == Without([i \in DOMAIN raws |-> sanitize_component(raws[i])], {<<>>})
    IN IF components = <<>> THEN <<Untitled>> ELSE components

-----------------------------------------------------------------------------
(* What a sender can ask for *)

Length == Len(offered) - 1 + MapThenSumSet(LAMBDA i : Len(offered[i]), DOMAIN offered)

NameInit == offered = << <<>> >>

Character(c) == offered' = [offered EXCEPT ![Len(offered)] = Append(@, c)]
Separator == offered' = Append(offered, <<>>)

NameNext ==
    /\ Length < MaxLength
    /\ Separator \/ \E c \in Char : Character(c)

NameSpec == NameInit /\ [][NameNext]_offered

-----------------------------------------------------------------------------
(* Properties *)

\* "every component is sanitized and the final path is proven to stay inside the
\* download directory" (fs_util.rs:4): none, of any characters, becomes the
\* directory itself, its parent or a hidden file, or keeps a character that means
\* something else to a file system.
StaysInside ==
    \A i \in DOMAIN offered :
        LET component == sanitize_component(trim(offered[i]))
        IN /\ component # <<>> => component[1] # Dot
           /\ \A k \in DOMAIN component : component[k] \in Char \ Forbidden

\* "Trailing dots/spaces and reserved device names are defused", and a name is
\* never empty (fs_util.rs:33-34): a path has at least one component, none of
\* them empty, longer than the limit or the bare name of a device, and none that
\* did not have to be cut ends in a dot or a space.
Defused ==
    LET path == sanitize_relative_path(offered)
    IN /\ path # <<>>
       /\ \A i \in DOMAIN path :
              path[i] # <<>> /\ Bytes(path[i]) <= MaxBytes /\ path[i] \notin Reserved
       /\ \A i \in DOMAIN offered :
              Bytes(Uncut(trim(offered[i]))) <= MaxBytes
                  => Plain(sanitize_component(trim(offered[i])))

Harmless(name) ==
    /\ name = trim(name) /\ name # <<>> /\ Plain(name) /\ name[1] # Dot
    /\ name \notin Reserved /\ Bytes(name) <= MaxBytes
    /\ \A i \in DOMAIN name : name[i] \notin Forbidden

\* A file name in which there is nothing to defuse keeps every folder and every
\* character.
HarmlessKept ==
    (\A i \in DOMAIN offered : Harmless(offered[i]))
        => sanitize_relative_path(offered) = offered

\* What the comments say and the code does not keep.

\* The name up to its first dot.
Stem(name) == SubSeq(name, 1, Min({i \in DOMAIN name : name[i] = Dot} \cup {Len(name) + 1}) - 1)

\* "Device names Windows refuses as file names, with or without an extension"
\* (fs_util.rs:20) are defused (fs_util.rs:34).
DevicesDefused ==
    LET path == sanitize_relative_path(offered)
    IN \A i \in DOMAIN path : Stem(path[i]) \notin Reserved

\* "Trailing dots/spaces ... are defused" (fs_util.rs:33), also where a name is cut.
TrailingDefused ==
    LET path == sanitize_relative_path(offered) IN \A i \in DOMAIN path : Plain(path[i])

=============================================================================
