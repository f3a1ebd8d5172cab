-------------------------- MODULE DestinationProofs --------------------------
(* Proofs about Destination and FileName, for any number of uploads and for   *)
(* names of any characters and any length.                                    *)
EXTENDS Destination, FileName, FiniteSetTheorems, SequenceTheorems, WellFoundedInduction, TLAPS

(* Numbers, chosen and counted *)

\* What Min and Max choose of a set of numbers that is bounded and not empty: among
\* the sets of the members below each member one is smallest.
LEMMA MinOf ==
    ASSUME NEW k \in Nat, NEW S \in SUBSET (0..k), S # {}
    PROVE Min(S) \in S /\ \A y \in S : Min(S) <= y
<1> DEFINE Below(x) == {y \in S : y <= x}
           Family == {Below(x) : x \in S}
           R == StrictSubsetOrdering(S)
<1>1. IsWellFoundedOn(R, SUBSET S)
    <2>1. IsFiniteSet(S)
        <3>1. IsFiniteSet(0..k)
            BY FS_Interval
        <3> QED
            BY <3>1, FS_Subset
    <2> QED
        BY <2>1, FS_StrictSubsetOrderingWellFounded, FS_FiniteSubsetsOfFinite
<1>2. PICK A \in Family : \A B \in Family : <<B, A>> \notin R
    <2>1. Family \subseteq SUBSET S /\ Family # {}
        OBVIOUS
    <2> HIDE DEF Family, R
    <2> QED
        BY <1>1, <2>1, WFMin
<1>3. PICK x \in S : A = Below(x)
    OBVIOUS
<1>4. \A y \in S : x <= y
    <2> SUFFICES ASSUME NEW y \in S, y < x PROVE FALSE
        OBVIOUS
    <2>1. Below(y) \subseteq A
        <3> SUFFICES ASSUME NEW z \in S, z <= y PROVE z <= x
            BY <1>3
        <3> z \in Nat /\ y \in Nat /\ x \in Nat
            OBVIOUS
        <3> QED
            OBVIOUS
    <2>2. x \notin Below(y) /\ x \in A
        BY <1>3
    <2>3. <<Below(y), A>> \in R
        BY <1>3, <2>1, <2>2 DEF StrictSubsetOrdering
    <2> QED
        BY <1>2, <2>3
<1> QED
    BY <1>4 DEF Min

LEMMA MaxOf ==
    ASSUME NEW k \in Nat, NEW S \in SUBSET (0..k), S # {}
    PROVE Max(S) \in S /\ \A y \in S : Max(S) >= y
<1> DEFINE T == {k - x : x \in S}
<1>1. T \in SUBSET (0..k) /\ T # {}
    <2>1. \A x \in S : x \in Int /\ 0 <= x /\ x <= k
        OBVIOUS
    <2>2. \A x \in S : k - x \in 0..k
        BY <2>1
    <2> QED
        BY <2>2
<1>2. Min(T) \in T /\ \A y \in T : Min(T) <= y
    <2> HIDE DEF T
    <2> QED
        BY <1>1, MinOf
<1>3. PICK m \in S : Min(T) = k - m
    BY <1>2
<1>4. \A y \in S : m >= y
    <2> SUFFICES ASSUME NEW y \in S PROVE m >= y
        OBVIOUS
    <2>1. k - m <= k - y
        BY <1>2, <1>3
    <2> QED
        BY <2>1
<1> QED
    BY <1>4 DEF Max

\* The library's induction takes an operator; that no set of numbers without a least
\* member exists takes none, and says the same of a set.
LEMMA Less == IsWellFoundedOn({ss \in Nat \X Nat : ss[1] < ss[2]}, Nat)
  BY NatLessThanWellFounded DEF OpToRel

LEMMA SetInduction ==
  ASSUME NEW S, 0 \in S, \A n \in Nat : n \in S => n + 1 \in S
  PROVE  Nat \subseteq S
  <1> DEFINE R == {ss \in Nat \X Nat : ss[1] < ss[2]}
             T == Nat \ S
  <1> SUFFICES ASSUME T # {} PROVE FALSE
    OBVIOUS
  <1>1. IsWellFoundedOn(R, Nat)
    BY Less
  <1>2. \E x \in T : \A y \in T : ~(<<y, x>> \in R)
    <2> HIDE DEF R
    <2>1. T \subseteq Nat
      OBVIOUS
    <2> HIDE DEF T
    <2> QED BY <1>1, <2>1, WFMin
  <1>3. PICK x \in T : \A y \in T : ~(<<y, x>> \in R)
    BY <1>2
  <1>4. x # 0 /\ x \in Nat
    OBVIOUS
  <1>5. x - 1 \in Nat /\ x - 1 < x /\ (x - 1) + 1 = x
    BY <1>4
  <1>6. <<x - 1, x>> \in R
    BY <1>4, <1>5
  <1> QED
    BY <1>3, <1>4, <1>5, <1>6

\* A recursive function is the one that satisfies its equation, if any does: here
\* is one, and what its values have in common.
Iterates(g, n, first, next) == g[0] = first /\ \A k \in 1..n : g[k] = next[k][g[k - 1]]

LEMMA RecursionExists ==
    ASSUME NEW top \in Nat, NEW T, NEW first \in T, NEW next \in [1..top -> [T -> T]]
    PROVE \E g \in [0..top -> T] : Iterates(g, top, first, next)
<1> USE DEF Iterates
<1> DEFINE Good(n, g) == g \in [0..n -> T] /\ Iterates(g, n, first, next)
           S == {n \in Nat : n <= top => \E g : Good(n, g)}
<1>1. 0 \in S
    <2>1. Good(0, [k \in 0..0 |-> first])
        OBVIOUS
    <2> QED
        BY <2>1
<1>2. ASSUME NEW n \in Nat, n \in S PROVE n + 1 \in S
    <2>1. ASSUME n + 1 <= top PROVE \E g : Good(n + 1, g)
        <3>1. PICK g : Good(n, g)
            BY <1>2, <2>1
        <3> DEFINE h == [k \in 0..(n + 1) |-> IF k = n + 1 THEN next[n + 1][g[n]] ELSE g[k]]
        <3>2. next[n + 1][g[n]] \in T
            BY <2>1, <3>1
        <3>3. h \in [0..(n + 1) -> T] /\ h[0] = first /\ h[n + 1] = next[n + 1][g[n]]
            BY <3>1, <3>2
        <3>4. \A k \in 0..n : h[k] = g[k]
            OBVIOUS
        <3>5. ASSUME NEW k \in 1..(n + 1) PROVE h[k] = next[k][h[k - 1]]
            <4>1. k - 1 \in 0..n /\ h[k - 1] = g[k - 1]
                BY <3>4
            <4>2. CASE k = n + 1
                BY <3>3, <4>1, <4>2
            <4>3. CASE k # n + 1
                <5>1. k \in 1..n
                    BY <4>3
                <5> HIDE DEF h
                <5> QED
                    BY <5>1, <4>1, <3>1, <3>4
            <4> QED
                BY <4>2, <4>3
        <3>6. Good(n + 1, h)
            <4> HIDE DEF h
            <4> QED
                BY <3>3, <3>5
        <3> QED
            BY <3>6
    <2> QED
        BY <2>1
<1>3. Nat \subseteq S
    <2> HIDE DEF S
    <2> QED
        BY <1>1, <1>2, SetInduction
<1> QED
    BY <1>3

LEMMA RecursionStays ==
    ASSUME NEW top \in Nat, NEW T, NEW f, f[0] \in T,
           \A k \in 1..top : f[k - 1] \in T => f[k] \in T
    PROVE \A k \in 0..top : f[k] \in T
<1> DEFINE S == {n \in Nat : n <= top => f[n] \in T}
<1>1. 0 \in S
    OBVIOUS
<1>2. ASSUME NEW n \in Nat, n \in S PROVE n + 1 \in S
    <2>1. ASSUME n + 1 <= top PROVE f[n + 1] \in T
        <3>1. n + 1 \in 1..top /\ (n + 1) - 1 = n /\ f[n] \in T
            BY <1>2, <2>1
        <3> QED
            BY <3>1
    <2> QED
        BY <2>1
<1>3. Nat \subseteq S
    <2> HIDE DEF S
    <2> QED
        BY <1>1, <1>2, SetInduction
<1> QED
    BY <1>3

-----------------------------------------------------------------------------
(* The loops of fs_util.rs: bytes that are counted, elements that are skipped *)

LEMMA BytesUpToDef ==
    ASSUME NEW name \in Seq(Char)
    PROVE  /\ BytesUpTo(name) \in [0..Len(name) -> Nat]
           /\ BytesUpTo(name)[0] = 0
           /\ \A n \in 1..Len(name) :
                  BytesUpTo(name)[n] = BytesUpTo(name)[n - 1] + Width[name[n]]
<1> DEFINE top == Len(name)
           Eq(g) == g = [n \in 0..top |-> IF n = 0 THEN 0 ELSE g[n - 1] + Width[name[n]]]
<1>1. top \in Nat /\ \A k \in 1..top : Width[name[k]] \in Nat
    <2>1. \A k \in 1..top : name[k] \in Char
        BY ElementOfSeq
    <2> QED
        BY <2>1, WidthAssumption, LenProperties
<1>2. PICK g \in [0..top -> Nat] :
          g[0] = 0 /\ \A k \in 1..top : g[k] = g[k - 1] + Width[name[k]]
    <2> DEFINE N == Nat
               zero == 0
               next == [k \in 1..top |-> [x \in N |-> x + Width[name[k]]]]
    <2>1. top \in Nat /\ zero \in N /\ next \in [1..top -> [N -> N]]
        BY <1>1
    <2> HIDE DEF next, top, N, zero
    <2>2. PICK g \in [0..top -> N] : Iterates(g, top, zero, next)
        BY <2>1, RecursionExists
    <2>3. g \in [0..top -> Nat] /\ g[0] = 0
        BY <2>2 DEF N, zero, Iterates
    <2>4. ASSUME NEW k \in 1..top PROVE g[k] = g[k - 1] + Width[name[k]]
        <3>1. g[k - 1] \in Nat
            BY <2>1, <2>3
        <3>2. next[k][g[k - 1]] = g[k - 1] + Width[name[k]]
            BY <3>1 DEF next, N
        <3> QED
            BY <2>2, <3>2 DEF Iterates
    <2> QED
        BY <2>3, <2>4
<1>3. Eq(g)
    BY <1>1, <1>2
<1>4. Eq(BytesUpTo(name))
    <2>1. BytesUpTo(name) = CHOOSE h : Eq(h)
        BY DEF BytesUpTo
    <2> HIDE DEF Eq
    <2> QED
        BY <1>3, <2>1
<1> DEFINE b == BytesUpTo(name)
<1>5. Eq(b)
    BY <1>4
<1> HIDE DEF b
<1>6. b[0] = 0 /\ DOMAIN b = 0..top
    BY <1>1, <1>5
<1>7. \A n \in 1..top : b[n] = b[n - 1] + Width[name[n]]
    BY <1>1, <1>5
<1>8. \A n \in 0..top : b[n] \in Nat
    <2>1. \A n \in 1..top : b[n - 1] \in Nat => b[n] \in Nat
        BY <1>1, <1>7
    <2>2. top \in Nat /\ b[0] \in Nat
        BY <1>1, <1>6
    <2> HIDE DEF top
    <2> QED
        BY <2>1, <2>2, RecursionStays, Zenon
<1>9. b = [n \in 0..top |-> b[n]]
    BY <1>5
<1> QED
    BY <1>6, <1>7, <1>8, <1>9 DEF b

LEMMA BytesType == ASSUME NEW name \in Seq(Char) PROVE Bytes(name) \in Nat
<1>1. Len(name) \in 0..Len(name)
    BY LenProperties
<1> QED
    BY <1>1, BytesUpToDef DEF Bytes

LEMMA BytesEmpty == Bytes(<<>>) = 0
<1>1. <<>> \in Seq(Char) /\ Len(<<>>) = 0
    OBVIOUS
<1> QED
    BY <1>1, BytesUpToDef DEF Bytes

LEMMA BytesAppend ==
    ASSUME NEW name \in Seq(Char), NEW c \in Char
    PROVE Bytes(Append(name, c)) = Bytes(name) + Width[c]
<1> DEFINE longer == Append(name, c)
           top == Len(name)
           b == BytesUpTo(name)
           d == BytesUpTo(longer)
           S == {n \in Nat : n <= top => d[n] = b[n]}
<1>1. /\ top \in Nat /\ longer \in Seq(Char) /\ Len(longer) = top + 1
      /\ \A k \in 1..top : longer[k] = name[k]
      /\ longer[top + 1] = c
    BY AppendProperties, LenProperties
<1> HIDE DEF longer
<1>2. b[0] = 0 /\ \A n \in 1..top : b[n] = b[n - 1] + Width[name[n]]
    BY BytesUpToDef
<1>3. d[0] = 0 /\ \A n \in 1..(top + 1) : d[n] = d[n - 1] + Width[longer[n]]
    BY <1>1, BytesUpToDef
<1>4. Bytes(name) = b[top] /\ Bytes(longer) = d[top + 1]
    BY <1>1 DEF Bytes
<1> HIDE DEF b, d, top
<1>5. 0 \in S
    BY <1>2, <1>3
<1>6. ASSUME NEW n \in Nat, n \in S PROVE n + 1 \in S
    <2>1. ASSUME n + 1 <= top PROVE d[n + 1] = b[n + 1]
        <3>1. n + 1 \in 1..top /\ n + 1 \in 1..(top + 1) /\ (n + 1) - 1 = n /\ d[n] = b[n]
            BY <1>1, <1>6, <2>1
        <3> QED
            BY <1>1, <1>2, <1>3, <3>1
    <2> QED
        BY <2>1
<1>7. Nat \subseteq S
    <2> HIDE DEF S
    <2> QED
        BY <1>5, <1>6, SetInduction
<1>8. d[top] = b[top]
    BY <1>1, <1>7
<1>9. d[top + 1] = d[top] + Width[c]
    <2>1. top + 1 \in 1..(top + 1) /\ (top + 1) - 1 = top
        BY <1>1
    <2> QED
        BY <1>1, <1>3, <2>1
<1> QED
    BY <1>4, <1>8, <1>9 DEF longer

LEMMA PushedAfterDef ==
    ASSUME NEW T, NEW dropped, NEW seq \in Seq(T)
    PROVE  /\ \A n \in 0..Len(seq) : PushedAfter(seq, dropped)[n] \in Seq(T \ dropped)
           /\ PushedAfter(seq, dropped)[0] = <<>>
           /\ \A n \in 1..Len(seq) :
                  PushedAfter(seq, dropped)[n] =
                      Turn(PushedAfter(seq, dropped)[n - 1], seq[n], dropped)
<1> DEFINE top == Len(seq)
           Eq(g) == g = [n \in 0..top |-> IF n = 0 THEN <<>> ELSE Turn(g[n - 1], seq[n], dropped)]
           b == PushedAfter(seq, dropped)
           Q == Seq(T \ dropped)
<1>1. top \in Nat /\ \A k \in 1..top : seq[k] \in T
    BY ElementOfSeq, LenProperties
<1>2. ASSUME NEW k \in 1..top, NEW x \in Q
      PROVE Turn(x, seq[k], dropped) \in Q
    BY <1>1, AppendProperties DEF Turn
<1>3. <<>> \in Q
    OBVIOUS
<1>4. PICK g \in [0..top -> Q] :
          g[0] = <<>> /\ \A k \in 1..top : g[k] = Turn(g[k - 1], seq[k], dropped)
    <2> DEFINE empty == <<>>
               next == [k \in 1..top |-> [x \in Q |-> Turn(x, seq[k], dropped)]]
    <2>1. top \in Nat /\ empty \in Q /\ next \in [1..top -> [Q -> Q]]
        <3> HIDE DEF top, Q
        <3> QED
            BY <1>1, <1>2, <1>3
    <2> HIDE DEF next, top, Q, empty
    <2>2. PICK g \in [0..top -> Q] : Iterates(g, top, empty, next)
        BY <2>1, RecursionExists
    <2>3. g \in [0..top -> Q] /\ g[0] = <<>>
        BY <2>2 DEF empty, Iterates
    <2>4. ASSUME NEW k \in 1..top PROVE g[k] = Turn(g[k - 1], seq[k], dropped)
        <3>1. g[k - 1] \in Q
            BY <2>1, <2>3
        <3>2. next[k][g[k - 1]] = Turn(g[k - 1], seq[k], dropped)
            BY <3>1 DEF next
        <3> QED
            BY <2>2, <3>2 DEF Iterates
    <2> QED
        BY <2>3, <2>4
<1>5. Eq(g)
    <2> HIDE DEF Q
    <2> QED
        BY <1>1, <1>4
<1>6. Eq(b)
    <2>1. b = CHOOSE h : Eq(h)
        BY DEF PushedAfter
    <2> HIDE DEF Eq, b
    <2> QED
        BY <1>5, <2>1
<1> HIDE DEF b
<1>7. b[0] = <<>>
    BY <1>1, <1>6
<1>8. \A n \in 1..top : b[n] = Turn(b[n - 1], seq[n], dropped)
    BY <1>1, <1>6
<1>9. \A n \in 0..top : b[n] \in Q
    <2>1. \A n \in 1..top : b[n - 1] \in Q => b[n] \in Q
        <3> HIDE DEF top, Q
        <3> QED
            BY <1>2, <1>8
    <2>2. top \in Nat /\ b[0] \in Q
        BY <1>1, <1>3, <1>7
    <2> HIDE DEF top, Q
    <2> QED
        BY <2>1, <2>2, RecursionStays, Zenon
<1> QED
    BY <1>7, <1>8, <1>9 DEF b

LEMMA WithoutType ==
    ASSUME NEW T, NEW dropped, NEW seq \in Seq(T)
    PROVE Without(seq, dropped) \in Seq(T \ dropped)
<1>1. Len(seq) \in 0..Len(seq)
    BY LenProperties
<1> QED
    BY <1>1, PushedAfterDef DEF Without

LEMMA WithoutNothing ==
    ASSUME NEW T, NEW dropped, NEW seq \in Seq(T), \A i \in DOMAIN seq : seq[i] \notin dropped
    PROVE Without(seq, dropped) = seq
<1> DEFINE top == Len(seq)
           b == PushedAfter(seq, dropped)
           S == {n \in Nat : n <= top => b[n] = SubSeq(seq, 1, n)}
<1>1. top \in Nat /\ DOMAIN seq = 1..top /\ \A k \in 1..top : seq[k] \in T
    BY ElementOfSeq, LenProperties
<1>2. b[0] = <<>> /\ \A n \in 1..top : b[n] = Turn(b[n - 1], seq[n], dropped)
    BY PushedAfterDef
<1> HIDE DEF b
<1>3. 0 \in S
    <2>1. SubSeq(seq, 1, 0) = <<>>
        BY SubSeqEmpty
    <2> QED
        BY <1>2, <2>1
<1>4. ASSUME NEW n \in Nat, n \in S PROVE n + 1 \in S
    <2>1. ASSUME n + 1 <= top PROVE b[n + 1] = SubSeq(seq, 1, n + 1)
        <3>1. n + 1 \in 1..top /\ (n + 1) - 1 = n /\ b[n] = SubSeq(seq, 1, n)
            BY <1>1, <1>4, <2>1
        <3>2. b[n + 1] = Append(b[n], seq[n + 1])
            BY <1>1, <3>1, <1>2 DEF Turn
        <3>3. SubSeq(seq, 1, n + 1) = Append(SubSeq(seq, 1, n), seq[n + 1])
            BY <1>1, <3>1
        <3> QED
            BY <3>1, <3>2, <3>3
    <2> QED
        BY <2>1
<1>5. Nat \subseteq S
    <2> HIDE DEF S
    <2> QED
        BY <1>3, <1>4, SetInduction
<1>6. b[top] = SubSeq(seq, 1, top)
    BY <1>1, <1>5
<1> QED
    BY <1>1, <1>6, SubSeqFull DEF Without, b

-----------------------------------------------------------------------------
(* What is left of a name at each step of sanitize_component *)

Allowed == Char \ Forbidden

\* Allowed characters, and nothing that hides or climbs.
Inside(name) == name \in Seq(Allowed) /\ (name # <<>> => name[1] # Dot)

LEMMA PrefixOf ==
    ASSUME NEW S, NEW name \in Seq(S), NEW n \in 0..Len(name)
    PROVE SubSeq(name, 1, n) \in Seq(S) /\ (n # 0 => SubSeq(name, 1, n)[1] = name[1])
BY SubSeqProperties

LEMMA TrimType ==
    ASSUME NEW name \in Seq(Char)
    PROVE trim(name) \in Seq(Char)
<1> DEFINE other == {i \in DOMAIN name : name[i] \notin White}
<1>1. CASE other = {}
    BY <1>1 DEF trim
<1>2. CASE other # {}
    <2>1. other \in SUBSET (0..Len(name)) /\ other \subseteq 1..Len(name) /\ Len(name) \in Nat
        BY LenProperties
    <2>2. Min(other) \in other /\ Max(other) \in other
        <3> HIDE DEF other
        <3> QED
            BY <1>2, <2>1, MinOf, MaxOf
    <2>3. SubSeq(name, Min(other), Max(other)) \in Seq(Char)
        <3>1. Min(other) \in 1..Len(name) /\ Max(other) \in 1..Len(name)
            BY <2>1, <2>2
        <3> HIDE DEF other
        <3> QED
            BY <2>1, <3>1, SubSeqProperties
    <2> QED
        BY <1>2, <2>3 DEF trim
<1> QED
    BY <1>1, <1>2

LEMMA ReplacedAllowed ==
    ASSUME NEW name \in Seq(Char)
    PROVE Replaced(name) \in Seq(Allowed)
<1>1. Len(name) \in Nat /\ DOMAIN name = 1..Len(name)
    BY LenProperties
<1>2. \A i \in 1..Len(name) : name[i] \in Char
    BY ElementOfSeq
<1>3. Underscore \in Allowed
    BY CharAssumption DEF Allowed
<1>4. Replaced(name) \in [1..Len(name) -> Allowed]
    BY <1>1, <1>2, <1>3 DEF Replaced, Allowed
<1> QED
    BY <1>1, <1>4, SeqDef

LEMMA TrimmedAllowed ==
    ASSUME NEW name \in Seq(Allowed)
    PROVE trim_end_matches(name, {Dot, Space}) \in Seq(Allowed)
<1> DEFINE S == {0} \cup {i \in DOMAIN name : name[i] \notin {Dot, Space}}
<1>1. Max(S) \in S /\ S \subseteq 0..Len(name)
    <2>1. Len(name) \in Nat /\ DOMAIN name = 1..Len(name)
        BY LenProperties
    <2>2. S \in SUBSET (0..Len(name)) /\ S # {}
        BY <2>1
    <2> HIDE DEF S
    <2> QED
        BY <2>1, <2>2, MaxOf
<1> QED
    BY <1>1, PrefixOf DEF trim_end_matches, LastOther

LEMMA UnderscoredInside ==
    ASSUME NEW name \in Seq(Allowed)
    PROVE Inside(Underscored(name))
<1>1. Underscore \in Allowed
    BY CharAssumption DEF Allowed
<1>2. CASE name # <<>> /\ name[1] = Dot
    <2>1. 1 \in 1..Len(name)
        BY <1>2
    <2>2. [name EXCEPT ![1] = Underscore] \in Seq(Allowed)
        BY <1>1, <2>1, ExceptSeq
    <2>3. [name EXCEPT ![1] = Underscore][1] = Underscore
        BY <2>1, LenProperties
    <2> QED
        BY <1>2, <2>2, <2>3, CharAssumption DEF Underscored, Inside
<1>3. CASE ~(name # <<>> /\ name[1] = Dot)
    BY <1>3 DEF Underscored, Inside
<1> QED
    BY <1>2, <1>3

LEMMA TitledInside ==
    ASSUME NEW name, Inside(name)
    PROVE Inside(Titled(name))
<1>1. Untitled \in Seq(Allowed)
    <2> DEFINE Middle == Char \ (Forbidden \cup {Dot, Space})
    <2>1. Untitled \in Seq(Middle) /\ Middle \subseteq Allowed
        BY CharAssumption DEF Allowed
    <2> HIDE DEF Middle
    <2> QED
        BY <2>1, SeqMonotonic
<1>2. Untitled[1] # Dot
    <2>1. Untitled \in Seq(Char \ (Forbidden \cup {Dot, Space})) /\ Untitled # <<>>
        BY CharAssumption
    <2>2. 1 \in 1..Len(Untitled)
        BY <2>1, EmptySeq
    <2>3. Untitled[1] \in Char \ (Forbidden \cup {Dot, Space})
        BY <2>1, <2>2, ElementOfSeq
    <2> QED
        BY <2>3
<1> QED
    BY <1>1, <1>2 DEF Titled, Inside

LEMMA NotADeviceInside ==
    ASSUME NEW name, Inside(name)
    PROVE Inside(NotADevice(name))
<1>1. Underscore \in Allowed
    BY CharAssumption DEF Allowed
<1>2. <<Underscore>> \in Seq(Allowed)
    <2> <<Underscore>> \in [1..1 -> Allowed]
        BY <1>1
    <2> QED
        BY SeqDef
<1>3. <<Underscore>> \o name \in Seq(Allowed) /\ (<<Underscore>> \o name)[1] = Underscore
    <2> DEFINE under == <<Underscore>>
    <2>1. Len(under) = 1 /\ under[1] = Underscore /\ 1 \in 1..Len(under) /\ name \in Seq(Allowed)
        BY DEF Inside
    <2>2. under \in Seq(Allowed)
        BY <1>2
    <2> HIDE DEF under
    <2>3. under \o name \in Seq(Allowed) /\ (under \o name)[1] = Underscore
        BY <2>1, <2>2, ConcatProperties
    <2> QED
        BY <2>3 DEF under
<1> QED
    BY <1>3, CharAssumption DEF NotADevice, Inside

LEMMA TruncatedInside ==
    ASSUME NEW name, Inside(name)
    PROVE Inside(truncate_bytes(name))
<1> DEFINE S == {0} \cup Fitting(name)
<1>1. Max(S) \in S /\ S \subseteq 0..Len(name)
    <2>1. S \in SUBSET (0..Len(name)) /\ S # {} /\ Len(name) \in Nat
        BY DEF Fitting, Inside
    <2> HIDE DEF S
    <2> QED
        BY <2>1, MaxOf
<1>2. Max(S) = 0 => SubSeq(name, 1, Max(S)) = <<>>
    BY SubSeqEmpty DEF Inside
<1>3. Max(S) # 0 => name # <<>>
    BY <1>1 DEF Inside
<1> QED
    BY <1>1, <1>2, <1>3, PrefixOf DEF truncate_bytes, Inside

LEMMA AllowedChar == ASSUME NEW name, Inside(name) PROVE name \in Seq(Char)
BY SeqMonotonic DEF Inside, Allowed

LEMMA UncutInside == ASSUME NEW name \in Seq(Char) PROVE Inside(Uncut(name))
<1>1. trim_end_matches(Replaced(name), {Dot, Space}) \in Seq(Allowed)
    BY ReplacedAllowed, TrimmedAllowed
<1> QED
    BY <1>1, UnderscoredInside, TitledInside, NotADeviceInside DEF Uncut

\* sanitize_component, of any characters: never a path that leaves the directory.
THEOREM ComponentInside ==
    ASSUME NEW name \in Seq(Char)
    PROVE Inside(sanitize_component(trim(name)))
BY TrimType, UncutInside, TruncatedInside DEF sanitize_component

-----------------------------------------------------------------------------
(* What is defused *)

\* The longest prefix that fits: the whole when it fits, and otherwise at most one
\* character short of the limit.
LEMMA TruncatedFits ==
    ASSUME NEW name \in Seq(Char)
    PROVE LET cut == truncate_bytes(name)
          IN /\ cut \in Seq(Char) /\ Bytes(cut) <= MaxBytes
             /\ Bytes(name) <= MaxBytes => cut = name
             /\ Bytes(name) > MaxBytes => \E c \in Char : Bytes(cut) + Width[c] > MaxBytes
<1> DEFINE top == Len(name)
           S == {0} \cup Fitting(name)
           m == Max(S)
           cut == SubSeq(name, 1, m)
<1>1. top \in Nat /\ DOMAIN name = 1..top /\ \A k \in 1..top : name[k] \in Char
    BY ElementOfSeq, LenProperties
<1>2. \A n \in 1..top : n \in Fitting(name) <=> Bytes(SubSeq(name, 1, n)) <= MaxBytes
    BY <1>1 DEF Fitting
<1>3. m \in 0..top /\ (m # 0 => m \in Fitting(name)) /\ \A n \in Fitting(name) : m >= n
    <2>1. S \in SUBSET (0..top) /\ S # {}
        BY <1>1 DEF Fitting
    <2>2. m \in S /\ \A n \in S : m >= n
        <3> HIDE DEF S
        <3> QED
            BY <1>1, <2>1, MaxOf
    <2> HIDE DEF m
    <2> QED
        BY <2>1, <2>2
<1>4. truncate_bytes(name) = cut
    BY DEF truncate_bytes
<1>5. SubSeq(name, 1, top) = name
    BY SubSeqFull
<1>6. Bytes(SubSeq(name, 1, top)) = Bytes(name)
    BY <1>5, Zenon
<1>7. MaxBytes \in Nat /\ Bytes(name) \in Nat
    BY BytesType, WidthAssumption
<1> HIDE DEF m, top
<1>8. cut \in Seq(Char)
    BY <1>1, <1>3, PrefixOf
<1>9. Bytes(cut) <= MaxBytes
    <2>1. CASE m = 0
        <3>1. cut = <<>>
            BY <2>1, SubSeqEmpty
        <3>2. Bytes(cut) = 0
            BY <3>1, BytesEmpty, Zenon
        <3> QED
            BY <3>2, WidthAssumption
    <2>2. CASE m # 0
        <3>1. m \in 1..top /\ m \in Fitting(name)
            BY <1>1, <1>3, <2>2
        <3> QED
            BY <1>2, <3>1
    <2> QED
        BY <2>1, <2>2
<1>10. ASSUME Bytes(name) <= MaxBytes PROVE cut = name
    <2>1. top # 0 => top \in Fitting(name)
        BY <1>1, <1>2, <1>10, <1>6
    <2>2. m = top
        BY <1>1, <1>3, <2>1
    <2> QED
        BY <1>5, <2>2
<1>11. ASSUME Bytes(name) > MaxBytes PROVE \E c \in Char : Bytes(cut) + Width[c] > MaxBytes
    <2>1. m # top
        BY <1>9, <1>11, <1>6, <1>7
    <2>2. m \in Nat /\ m + 1 \in 1..top /\ ~(m >= m + 1)
        BY <1>1, <1>3, <2>1
    <2>3. m + 1 \notin Fitting(name)
        BY <1>3, <2>2
    <2> DEFINE next == SubSeq(name, 1, m + 1)
    <2>4. next = Append(cut, name[m + 1])
        BY <1>1, <2>2
    <2>5. name[m + 1] \in Char
        BY <1>1, <2>2
    <2>6. Bytes(next) = Bytes(cut) + Width[name[m + 1]]
        <3> HIDE DEF cut, next
        <3> QED
            BY <1>8, <2>4, <2>5, BytesAppend
    <2>7. next \in Seq(Char)
        <3> HIDE DEF cut, next
        <3> QED
            BY <1>8, <2>4, <2>5, AppendProperties
    <2>8. Bytes(next) > MaxBytes
        <3>1. ~(Bytes(next) <= MaxBytes)
            BY <1>2, <2>2, <2>3
        <3>2. Bytes(next) \in Nat
            <4> HIDE DEF next
            <4> QED
                BY <2>7, BytesType
        <3> QED
            BY <1>7, <3>1, <3>2
    <2> QED
        BY <2>5, <2>6, <2>8
<1> QED
    BY <1>4, <1>8, <1>9, <1>10, <1>11

LEMMA TrimmedPlain ==
    ASSUME NEW name \in Seq(Char)
    PROVE /\ Plain(trim_end_matches(name, {Dot, Space}))
          /\ Plain(name) => trim_end_matches(name, {Dot, Space}) = name
<1> DEFINE top == Len(name)
           other == {i \in DOMAIN name : name[i] \notin {Dot, Space}}
           m == Max({0} \cup other)
           kept == SubSeq(name, 1, m)
<1>1. top \in Nat /\ DOMAIN name = 1..top /\ \A k \in 1..top : name[k] \in Char
    BY ElementOfSeq, LenProperties
<1>2. m \in 0..top /\ (m # 0 => m \in other) /\ \A n \in other : m >= n
    <2> DEFINE S == {0} \cup other
    <2>1. S \in SUBSET (0..top) /\ S # {}
        BY <1>1
    <2>2. Max(S) \in S /\ \A n \in S : Max(S) >= n
        <3> HIDE DEF S
        <3> QED
            BY <1>1, <2>1, MaxOf
    <2> QED
        BY <2>1, <2>2
<1>3. trim_end_matches(name, {Dot, Space}) = kept
    BY DEF trim_end_matches, LastOther
<1> HIDE DEF m, top
<1>4. Plain(kept)
    <2>1. CASE m = 0
        <3>1. kept = <<>>
            BY <2>1, SubSeqEmpty
        <3> HIDE DEF kept
        <3> QED
            BY <3>1 DEF Plain
    <2>2. CASE m # 0
        <3>1. Len(kept) = m /\ kept[m] = name[m]
            BY <1>1, <1>2, <2>2, SubSeqProperties
        <3>2. name[m] \notin {Dot, Space}
            BY <1>2, <2>2
        <3> HIDE DEF kept
        <3> QED
            BY <3>1, <3>2 DEF Plain
    <2> QED
        BY <2>1, <2>2
<1>5. ASSUME Plain(name) PROVE kept = name
    <2>1. top # 0 => top \in other
        BY <1>1, <1>5 DEF Plain, top
    <2>2. m = top
        BY <1>1, <1>2, <2>1
    <2> QED
        BY <2>2, SubSeqFull DEF top
<1> QED
    <2> HIDE DEF kept
    <2> QED
        BY <1>3, <1>4, <1>5

LEMMA UnderscoredPlain ==
    ASSUME NEW name \in Seq(Char), Plain(name)
    PROVE Plain(Underscored(name))
<1>1. CASE name # <<>> /\ name[1] = Dot
    <2> DEFINE under == [name EXCEPT ![1] = Underscore]
    <2>1. /\ Len(name) \in 1..Len(name) /\ Len(under) = Len(name)
          /\ under[Len(name)] \in {Underscore, name[Len(name)]}
        BY <1>1, LenProperties
    <2>2. name[Len(name)] \notin {Dot, Space} /\ Underscore \notin {Dot, Space}
        BY <1>1, CharAssumption DEF Plain
    <2>3. Underscored(name) = under
        BY <1>1 DEF Underscored
    <2> HIDE DEF under
    <2> QED
        BY <2>1, <2>2, <2>3 DEF Plain
<1>2. CASE ~(name # <<>> /\ name[1] = Dot)
    BY <1>2 DEF Underscored
<1> QED
    BY <1>1, <1>2

LEMMA TitledPlain ==
    ASSUME NEW name \in Seq(Char), Plain(name)
    PROVE Plain(Titled(name)) /\ Titled(name) # <<>>
<1>1. Untitled \in Seq(Char \ (Forbidden \cup {Dot, Space})) /\ Untitled # <<>>
    BY CharAssumption
<1>2. Len(Untitled) \in 1..Len(Untitled)
    BY <1>1, LenProperties, EmptySeq
<1>3. Untitled[Len(Untitled)] \notin {Dot, Space}
    BY <1>1, <1>2, ElementOfSeq
<1> QED
    BY <1>1, <1>3 DEF Titled, Plain

LEMMA NotADevicePlain ==
    ASSUME NEW name \in Seq(Char), Plain(name), name # <<>>
    PROVE LET safe == NotADevice(name)
          IN Plain(safe) /\ safe # <<>> /\ safe \notin Reserved
<1>1. CASE name \in Reserved
    <2> DEFINE under == <<Underscore>>
               safe == under \o name
    <2>1. under \in Seq(Char) /\ Len(under) = 1
        BY CharAssumption
    <2>2. Len(name) \in Nat /\ Len(name) # 0
        BY LenProperties, EmptySeq
    <2> HIDE DEF under
    <2>3. Len(safe) = 1 + Len(name) /\ safe[1 + Len(name)] = name[Len(name)]
        BY <2>1, <2>2, ConcatProperties
    <2>4. safe \notin Reserved
        BY <1>1, WidthAssumption DEF under
    <2>5. NotADevice(name) = safe
        BY <1>1 DEF NotADevice, under
    <2>6. name[Len(name)] \notin {Dot, Space}
        BY DEF Plain
    <2>7. safe # <<>>
        BY <2>2, <2>3
    <2>8. Plain(safe)
        <3> HIDE DEF safe
        <3> QED
            BY <2>2, <2>3, <2>6 DEF Plain
    <2> QED
        BY <2>4, <2>5, <2>7, <2>8, Zenon
<1>2. CASE name \notin Reserved
    BY <1>2 DEF NotADevice
<1> QED
    BY <1>1, <1>2

LEMMA UncutPlain ==
    ASSUME NEW name \in Seq(Char)
    PROVE Plain(Uncut(name)) /\ Uncut(name) # <<>> /\ Uncut(name) \notin Reserved
<1> DEFINE trimmed == trim_end_matches(Replaced(name), {Dot, Space})
<1>1. trimmed \in Seq(Allowed) /\ Allowed \subseteq Char
    BY ReplacedAllowed, TrimmedAllowed DEF Allowed
<1>2. Replaced(name) \in Seq(Char) /\ trimmed \in Seq(Char)
    <2> HIDE DEF trimmed
    <2> QED
        BY <1>1, ReplacedAllowed, SeqMonotonic
<1>3. Plain(trimmed)
    BY <1>2, TrimmedPlain
<1>4. Uncut(name) = NotADevice(Titled(Underscored(trimmed)))
    BY DEF Uncut
<1> HIDE DEF trimmed
<1>5. Inside(Underscored(trimmed)) /\ Plain(Underscored(trimmed))
    BY <1>1, <1>2, <1>3, UnderscoredInside, UnderscoredPlain
<1> DEFINE titled == Titled(Underscored(trimmed))
<1>6. Inside(titled) /\ Plain(titled) /\ titled # <<>>
    BY <1>5, AllowedChar, TitledInside, TitledPlain
<1> HIDE DEF titled
<1>7. titled \in Seq(Char)
    BY <1>6, AllowedChar
<1> QED
    BY <1>4, <1>6, <1>7, NotADevicePlain DEF titled

LEMMA UntitledName == Untitled \in Seq(Char)
<1> DEFINE Middle == Char \ (Forbidden \cup {Dot, Space})
<1>1. Untitled \in Seq(Middle) /\ Middle \subseteq Char
    BY CharAssumption
<1> HIDE DEF Middle
<1> QED
    BY <1>1, SeqMonotonic

\* sanitize_component, of any characters: a cut leaves more than any device name has.
LEMMA ComponentDefused ==
    ASSUME NEW name \in Seq(Char)
    PROVE LET component == sanitize_component(name)
          IN /\ component \in Seq(Char) /\ component # <<>>
             /\ component \notin Reserved
             /\ Bytes(component) <= MaxBytes
             /\ Bytes(Uncut(name)) <= MaxBytes => Plain(component)
<1> DEFINE whole == Uncut(name)
           cut == truncate_bytes(whole)
<1>1. whole \in Seq(Char) /\ Plain(whole) /\ whole # <<>> /\ whole \notin Reserved
    BY UncutInside, UncutPlain, AllowedChar
<1>2. sanitize_component(name) = cut
    BY DEF sanitize_component
<1> HIDE DEF whole
<1>3. /\ cut \in Seq(Char) /\ Bytes(cut) <= MaxBytes
      /\ Bytes(whole) <= MaxBytes => cut = whole
      /\ Bytes(whole) > MaxBytes => \E c \in Char : Bytes(cut) + Width[c] > MaxBytes
    BY <1>1, TruncatedFits
<1> HIDE DEF cut
<1>4. Bytes(cut) \in Nat /\ Bytes(whole) \in Nat /\ MaxBytes \in Nat
    BY <1>1, <1>3, BytesType, WidthAssumption
<1>5. CASE Bytes(whole) <= MaxBytes
    BY <1>1, <1>2, <1>3, <1>5 DEF whole
<1>6. CASE Bytes(whole) > MaxBytes
    <2>1. PICK c \in Char : Bytes(cut) + Width[c] > MaxBytes
        BY <1>3, <1>6
    <2>2. Width[c] \in Nat /\ Width[Underscore] \in Nat /\ Width[Underscore] > 0
        BY WidthAssumption, CharAssumption
    <2>3. ASSUME NEW device \in Reserved \cup {Untitled} PROVE Bytes(device) < Bytes(cut)
        <3>1. Bytes(device) + Width[Underscore] + Width[c] <= MaxBytes
            BY WidthAssumption
        <3>2. device \in Seq(Char)
            BY UntitledName, CharAssumption
        <3> QED
            BY <1>4, <2>1, <2>2, <3>1, <3>2, BytesType
    <2>4. cut \notin Reserved
        BY <1>4, <2>3
    <2>5. cut # <<>>
        <3>1. Bytes(Untitled) \in Nat /\ Bytes(Untitled) < Bytes(cut)
            BY <2>3, UntitledName, BytesType
        <3>2. Bytes(cut) # 0
            BY <3>1
        <3> QED
            BY <3>2, BytesEmpty, Zenon
    <2> QED
        BY <1>2, <1>3, <1>4, <1>6, <2>4, <2>5 DEF whole
<1> QED
    BY <1>4, <1>5, <1>6

DefusedNames == {name \in Seq(Char) :
                  name # <<>> /\ name \notin Reserved /\ Bytes(name) <= MaxBytes}

LEMMA UntitledDefused == Untitled \in DefusedNames
<1>1. Untitled \notin Reserved /\ Untitled # <<>>
    BY WidthAssumption, CharAssumption
<1>2. Bytes(Untitled) <= MaxBytes
    <2>1. /\ Bytes(Untitled) + Width[Underscore] + Width[Underscore] <= MaxBytes
          /\ Width[Underscore] \in Nat /\ MaxBytes \in Nat
        BY WidthAssumption, CharAssumption
    <2> QED
        BY <2>1, UntitledName, BytesType
<1> QED
    BY <1>1, <1>2, UntitledName DEF DefusedNames

\* sanitize_relative_path, of any components: a path, no component of which is
\* empty, longer than the limit or the bare name of a device.
THEOREM PathDefused ==
    ASSUME NEW file_name \in Seq(Seq(Char))
    PROVE LET path == sanitize_relative_path(file_name)
          IN path \in Seq(DefusedNames) /\ path # <<>>
<1> DEFINE trimmed == [i \in DOMAIN file_name |-> trim(file_name[i])]
           raws == Without(trimmed, Skipped)
           sanitized == [i \in DOMAIN raws |-> sanitize_component(raws[i])]
           components == Without(sanitized, {<<>>})
<1>1. trimmed \in Seq(Seq(Char))
    <2>1. Len(file_name) \in Nat /\ DOMAIN file_name = 1..Len(file_name)
        BY LenProperties
    <2>2. \A i \in 1..Len(file_name) : trim(file_name[i]) \in Seq(Char)
        BY ElementOfSeq, TrimType
    <2> QED
        BY <2>1, <2>2, SeqDef
<1> HIDE DEF trimmed
<1>2. raws \in Seq(Seq(Char))
    <2> DEFINE Names == Seq(Char)
    <2>1. raws \in Seq(Names \ Skipped)
        <3> HIDE DEF Names
        <3> QED
            BY <1>1, WithoutType DEF Names
    <2> QED
        BY <2>1, SeqMonotonic
<1> HIDE DEF raws
<1>3. sanitized \in Seq(DefusedNames)
    <2>1. Len(raws) \in Nat /\ DOMAIN raws = 1..Len(raws)
        BY <1>2, LenProperties
    <2>2. \A i \in 1..Len(raws) : sanitize_component(raws[i]) \in DefusedNames
        BY <1>2, ElementOfSeq, ComponentDefused DEF DefusedNames
    <2> QED
        BY <2>1, <2>2, SeqDef
<1> HIDE DEF sanitized
<1>4. components \in Seq(DefusedNames)
    <2>1. components \in Seq(DefusedNames \ {<<>>})
        BY <1>3, WithoutType
    <2> QED
        BY <2>1, SeqMonotonic
<1> HIDE DEF components
<1>5. <<Untitled>> \in Seq(DefusedNames) /\ <<Untitled>> # <<>>
    <2> <<Untitled>> \in [1..1 -> DefusedNames]
        BY UntitledDefused
    <2> QED
        BY SeqDef
<1>6. sanitize_relative_path(file_name) = IF components = <<>> THEN <<Untitled>> ELSE components
    BY DEF sanitize_relative_path, components, sanitized, raws, trimmed
<1> QED
    BY <1>4, <1>5, <1>6, Zenon

-----------------------------------------------------------------------------
(* The names that senders give *)

LEMMA NameType == NameSpec => [](offered \in Seq(Seq(Char)) /\ offered # <<>>)
<1> DEFINE Type == offered \in Seq(Seq(Char)) /\ offered # <<>>
<1>1. NameInit => Type
    BY DEF NameInit
<1>2. Type /\ [NameNext]_offered => Type'
    <2> SUFFICES ASSUME Type, NameNext PROVE Type'
        OBVIOUS
    <2>1. CASE Separator
        BY <2>1 DEF Separator
    <2>2. ASSUME NEW c \in Char, Character(c) PROVE Type'
        <3>1. Len(offered) \in DOMAIN offered
            OBVIOUS
        <3>2. Append(offered[Len(offered)], c) \in Seq(Char)
            BY <3>1, AppendProperties
        <3> QED
            BY <2>2, <3>1, <3>2, ExceptSeq DEF Character
    <2> QED
        BY <2>1, <2>2 DEF NameNext
<1> QED
    BY <1>1, <1>2, PTL DEF NameSpec

\* A file name of any components, each of any characters and any length, stays
\* below the download directory (sanitize_relative_path).
THEOREM StaysInsideHolds == NameSpec => []StaysInside
<1>1. offered \in Seq(Seq(Char)) => StaysInside
    <2> SUFFICES ASSUME offered \in Seq(Seq(Char)), NEW i \in DOMAIN offered
                 PROVE LET component == sanitize_component(trim(offered[i]))
                       IN /\ component # <<>> => component[1] # Dot
                          /\ \A k \in DOMAIN component : component[k] \in Char \ Forbidden
        BY DEF StaysInside
    <2>1. offered[i] \in Seq(Char)
        OBVIOUS
    <2>2. Inside(sanitize_component(trim(offered[i])))
        BY <2>1, ComponentInside
    <2> QED
        BY <2>2 DEF Inside, Allowed
<1> QED
    BY <1>1, NameType, PTL

\* For names of any characters and any length, with any reserved names and any
\* limit: the path has no component that is empty, too long or the bare name of a
\* device, and only a name that was cut ends in what Windows drops
\* (sanitize_component, sanitize_relative_path, truncate_bytes).
THEOREM DefusedHolds == NameSpec => []Defused
<1>1. offered \in Seq(Seq(Char)) => Defused
    <2> SUFFICES ASSUME offered \in Seq(Seq(Char)) PROVE Defused
        OBVIOUS
    <2> DEFINE path == sanitize_relative_path(offered)
    <2>1. path \in Seq(DefusedNames) /\ path # <<>>
        BY PathDefused
    <2>2. \A i \in DOMAIN path : path[i] \in DefusedNames
        <3> HIDE DEF path
        <3> QED
            BY <2>1, ElementOfSeq, LenProperties
    <2>3. ASSUME NEW i \in DOMAIN offered, Bytes(Uncut(trim(offered[i]))) <= MaxBytes
          PROVE Plain(sanitize_component(trim(offered[i])))
        <3>1. trim(offered[i]) \in Seq(Char)
            BY TrimType
        <3> QED
            BY <2>3, <3>1, ComponentDefused
    <2> QED
        <3> HIDE DEF path
        <3>1. \A i \in DOMAIN path :
                  path[i] # <<>> /\ Bytes(path[i]) <= MaxBytes /\ path[i] \notin Reserved
            BY <2>2 DEF DefusedNames
        <3> QED
            BY <2>1, <2>3, <3>1 DEF Defused, path
<1> QED
    BY <1>1, NameType, PTL

LEMMA HarmlessComponent ==
    ASSUME NEW name \in Seq(Char), Harmless(name)
    PROVE trim(name) = name /\ sanitize_component(name) = name /\ name \notin Skipped \cup {<<>>}
<1>1. /\ name = trim(name) /\ name # <<>> /\ Plain(name) /\ name[1] # Dot
      /\ name \notin Reserved /\ Bytes(name) <= MaxBytes
      /\ \A i \in DOMAIN name : name[i] \notin Forbidden
    BY DEF Harmless
<1>2. Replaced(name) = name
    <2>1. DOMAIN name = 1..Len(name) /\ name = [i \in 1..Len(name) |-> name[i]]
        BY LenProperties
    <2> QED
        BY <1>1, <2>1 DEF Replaced
<1>3. trim_end_matches(name, {Dot, Space}) = name
    BY <1>1, TrimmedPlain
<1>4. Underscored(name) = name /\ Titled(name) = name /\ NotADevice(name) = name
    BY <1>1 DEF Underscored, Titled, NotADevice
<1>5. Uncut(name) = name
    BY <1>2, <1>3, <1>4, Zenon DEF Uncut
<1>6. truncate_bytes(name) = name
    BY <1>1, TruncatedFits
<1>7. sanitize_component(name) = name
    BY <1>5, <1>6, Zenon DEF sanitize_component
<1>8. name \notin Skipped
    BY <1>1 DEF Skipped
<1> QED
    BY <1>1, <1>7, <1>8

\* A file name that needs no change, of any depth and length, gets none: no folder
\* is dropped and no character replaced, trimmed or cut.
THEOREM HarmlessKeptHolds == NameSpec => []HarmlessKept
<1>1. offered \in Seq(Seq(Char)) /\ offered # <<>> => HarmlessKept
    <2> SUFFICES ASSUME offered \in Seq(Seq(Char)), offered # <<>>,
                        \A i \in DOMAIN offered : Harmless(offered[i])
                 PROVE sanitize_relative_path(offered) = offered
        BY DEF HarmlessKept
    <2>1. \A i \in DOMAIN offered :
              /\ trim(offered[i]) = offered[i] /\ sanitize_component(offered[i]) = offered[i]
              /\ offered[i] \notin Skipped \cup {<<>>}
        BY HarmlessComponent
    <2>2. offered = [i \in DOMAIN offered |-> offered[i]]
        BY LenProperties
    <2>3. [i \in DOMAIN offered |-> trim(offered[i])] = offered
        BY <2>1, <2>2
    <2>4. [i \in DOMAIN offered |-> sanitize_component(offered[i])] = offered
        BY <2>1, <2>2
    <2>5. Without(offered, Skipped) = offered /\ Without(offered, {<<>>}) = offered
        BY <2>1, WithoutNothing
    <2> DEFINE raws == Without([i \in DOMAIN offered |-> trim(offered[i])], Skipped)
               components == Without([i \in DOMAIN raws |-> sanitize_component(raws[i])], {<<>>})
    <2>6. raws = offered
        BY <2>3, <2>5, Zenon
    <2>7. components = offered
        <3> HIDE DEF raws
        <3> QED
            BY <2>4, <2>5, <2>6, Zenon
    <2>8. sanitize_relative_path(offered) = IF components = <<>> THEN <<Untitled>> ELSE components
        BY DEF sanitize_relative_path
    <2> HIDE DEF raws, components
    <2> QED
        BY <2>7, <2>8
<1> QED
    BY <1>1, NameType, PTL

-----------------------------------------------------------------------------
(* The files on disk *)

LEMMA FreeVariant ==
    ASSUME NEW n \in Name
    PROVE /\ UniquePath(n) \in Path
          /\ Free(n) # {} => ~Exists(UniquePath(n))
<1>1. LastSuffix \in Nat /\ Free(n) \in SUBSET (0..LastSuffix)
    BY DestinationAssumption DEF Free
<1>2. CASE Free(n) = {}
    <2>1. Variant[n][0] \in Path
        BY <1>1, DestinationAssumption
    <2> QED
        BY <1>2, <2>1 DEF UniquePath
<1>3. CASE Free(n) # {}
    <2>1. Min(Free(n)) \in Free(n)
        BY <1>1, <1>3, MinOf
    <2>2. Variant[n][Min(Free(n))] \in Path
        BY <1>1, <2>1, DestinationAssumption
    <2>3. ~Exists(Variant[n][Min(Free(n))])
        BY <2>1 DEF Free
    <2> QED
        BY <1>3, <2>2, <2>3 DEF UniquePath
<1> QED
    BY <1>2, <1>3

LEMMA DiskTypeInit == Init => TypeOK
BY DestinationAssumption DEF Init, TypeOK, States

LEMMA DiskTypeStep == TypeOK /\ [Next]_vars => TypeOK'
<1> SUFFICES ASSUME TypeOK, [Next]_vars PROVE TypeOK'
    OBVIOUS
<1> USE DestinationAssumption DEF TypeOK, States, Step
<1>1. ASSUME NEW u \in Up, Resolve(u) PROVE TypeOK'
    <2>1. UniquePath(NameOf[u]) \in Path
        BY FreeVariant
    <2> QED
        BY <1>1, <2>1 DEF Resolve
<1>2. ASSUME NEW u \in Up, NoDirectory(u) \/ OpenFails(u) \/ BodyFails(u) PROVE TypeOK'
    BY <1>2 DEF NoDirectory, OpenFails, BodyFails
<1>3. ASSUME NEW u \in Up, Open(u) PROVE TypeOK'
    BY <1>3 DEF Open
<1>4. ASSUME NEW u \in Up, Write(u) \/ Store(u) PROVE TypeOK'
    <2>1. Written(u) \in [Path -> SUBSET (Up \cup {Owner})]
        BY DEF Written
    <2> QED
        BY <1>4, <2>1 DEF Write, Store
<1>5. ASSUME NEW u \in Up, Remove(u) PROVE TypeOK'
    BY <1>5 DEF Remove
<1>6. ASSUME NEW u \in Up, RemoveFails(u) \/ Lost(u) PROVE TypeOK'
    BY <1>6 DEF RemoveFails, Lost
<1>7. CASE UNCHANGED vars
    BY <1>7 DEF vars
<1> QED
    BY <1>1, <1>2, <1>3, <1>4, <1>5, <1>6, <1>7 DEF Next

\* The types of the uploads and the disk; with it, that an upload has a path of
\* its own from its resolution on.
THEOREM DiskTypeCorrect == Spec => []TypeOK
    BY DiskTypeInit, DiskTypeStep, PTL DEF Spec

\* An upload that will still create or remove a path where it has no file.
Holds(u) == pc[u] \in {"resolved", "removing"} /\ ~linked[u]
\* An upload that has its file at its path.
Has(u) == pc[u] \in {"writing", "stored"} \/ (pc[u] = "removing" /\ linked[u])

\* While no two uploads held one path and none ran out of suffixes: a held path
\* is held by one upload and names nothing; the file of an upload is the whole of
\* what its path holds.
HeldAlone == \A u, v \in Up : Holds(u) /\ Holds(v) /\ where[u] = where[v] => u = v
HeldEmpty == \A u \in Up : Holds(u) => disk[where[u]] = {}
OwnFile == \A u \in Up : Has(u) => linked[u] /\ disk[where[u]] = {u}
Unopened == \A u \in Up : pc[u] \in {"new", "resolved"} => ~linked[u]

Tidy == HeldAlone /\ HeldEmpty /\ OwnFile /\ Unopened
TidyInv == Undisturbed => Tidy

LEMMA TidyInit == Init => Tidy
BY DestinationAssumption
   DEF Init, Tidy, HeldAlone, HeldEmpty, OwnFile, Unopened, Holds, Has

LEMMA TidyStep ==
    ASSUME TypeOK, Tidy, Undisturbed', Next
    PROVE Tidy'
<1> USE DestinationAssumption DEF TypeOK, States, Step, Holds, Has
<1>1. ASSUME NEW u \in Up, Resolve(u) PROVE Tidy'
    <2> DEFINE x == UniquePath(NameOf[u])
    <2>1. x \in Path /\ disk[x] = {} /\ Holding(x) = {}
        <3>1. Free(NameOf[u]) # {} /\ Holding(x) = {}
            BY <1>1 DEF Resolve, Undisturbed
        <3> QED
            BY <3>1, FreeVariant DEF Exists
    <2> HIDE DEF x
    <2>2. /\ pc[u] = "new" /\ pc' = [pc EXCEPT ![u] = "resolved"]
          /\ where' = [where EXCEPT ![u] = x]
          /\ UNCHANGED <<disk, linked>>
        BY <1>1 DEF Resolve, x
    <2>3. HeldAlone'
        BY <2>1, <2>2 DEF Tidy, HeldAlone, Holding
    <2>4. HeldEmpty'
        BY <2>1, <2>2 DEF Tidy, HeldEmpty
    <2>5. OwnFile' /\ Unopened'
        BY <2>2 DEF Tidy, OwnFile, Unopened
    <2> QED
        BY <2>3, <2>4, <2>5 DEF Tidy
<1>2. ASSUME NEW u \in Up, NoDirectory(u) PROVE Tidy'
    BY <1>2 DEF NoDirectory, Tidy, HeldAlone, HeldEmpty, OwnFile, Unopened
<1>3. ASSUME NEW u \in Up, Open(u) PROVE Tidy'
    <2>1. Holds(u) /\ disk[where[u]] = {} /\ where[u] \in Path
        BY <1>3 DEF Open, Tidy, Unopened, HeldEmpty
    <2>2. HeldAlone' /\ Unopened'
        BY <1>3 DEF Open, Tidy, HeldAlone, Unopened
    <2>3. HeldEmpty'
        BY <1>3, <2>1 DEF Open, Tidy, HeldEmpty, HeldAlone
    <2>4. OwnFile'
        <3>1. ASSUME NEW v \in Up, v # u, Has(v)
              PROVE linked[v] /\ disk[where[v]] = {v} /\ where[v] # where[u]
            <4>1. linked[v] /\ disk[where[v]] = {v}
                BY <3>1 DEF Tidy, OwnFile
            <4> QED
                BY <2>1, <4>1
        <3>2. \A v \in Up : v # u /\ Has(v)' => Has(v)
            BY <1>3 DEF Open
        <3>3. where' = where /\ linked' = [linked EXCEPT ![u] = TRUE]
              /\ disk' = [disk EXCEPT ![where[u]] = {u}]
            BY <1>3 DEF Open
        <3>4. \A v \in Up : where[v] # None => where[v] \in Path
            OBVIOUS
        <3>5. ASSUME NEW v \in Up, Has(v)' PROVE (linked[v] /\ disk[where[v]] = {v})'
            <4>1. CASE v = u
                BY <2>1, <3>3, <4>1
            <4>2. CASE v # u
                <5>1. Has(v)
                    BY <3>2, <3>5, <4>2
                <5>2. linked[v] /\ disk[where[v]] = {v} /\ where[v] # where[u]
                    BY <3>1, <4>2, <5>1
                <5>3. where[v] \in Path
                    BY <3>4, <5>1
                <5> QED
                    BY <2>1, <3>3, <4>2, <5>2, <5>3
            <4> QED
                BY <4>1, <4>2
        <3> QED
            BY <3>5 DEF OwnFile
    <2> QED
        BY <2>2, <2>3, <2>4 DEF Tidy
<1>4. ASSUME NEW u \in Up, OpenFails(u) PROVE Tidy'
    BY <1>4 DEF OpenFails, Tidy, HeldAlone, HeldEmpty, OwnFile, Unopened
<1>5. ASSUME NEW u \in Up, Write(u) \/ Store(u) PROVE Tidy'
    <2>1. disk' = disk
        <3>1. pc[u] = "writing" /\ where[u] \in Path
            BY <1>5 DEF Write, Store
        <3>2. disk[where[u]] = {u}
            BY <3>1 DEF Tidy, OwnFile
        <3>3. Written(u) = disk
            BY <3>1, <3>2 DEF Written
        <3> QED
            BY <1>5, <3>3 DEF Write, Store
    <2>2. /\ UNCHANGED <<disk, where, linked>> /\ pc[u] = "writing"
          /\ pc' = pc \/ pc' = [pc EXCEPT ![u] = "stored"]
        BY <1>5, <2>1 DEF Write, Store
    <2>3. HeldAlone' /\ HeldEmpty'
        BY <2>2 DEF Tidy, HeldAlone, HeldEmpty
    <2>4. OwnFile' /\ Unopened'
        BY <2>2 DEF Tidy, OwnFile, Unopened
    <2> QED
        BY <2>3, <2>4 DEF Tidy
<1>6. ASSUME NEW u \in Up, BodyFails(u) PROVE Tidy'
    BY <1>6 DEF BodyFails, Tidy, HeldAlone, HeldEmpty, OwnFile, Unopened
<1>7. ASSUME NEW u \in Up, Remove(u) PROVE Tidy'
    <2>1. pc[u] = "removing" /\ where[u] \in Path /\ disk[where[u]] \subseteq {u}
        BY <1>7 DEF Remove, Tidy, HeldEmpty, OwnFile
    <2>2. /\ pc' = [pc EXCEPT ![u] = "failed"] /\ where' = where
          /\ disk' = [disk EXCEPT ![where[u]] = {}]
          /\ linked' = [v \in Up |-> linked[v] /\ where[v] # where[u]]
        BY <1>7 DEF Remove, RemovedPath
    <2>3. \A v \in Up : v # u /\ Has(v) => where[v] # where[u]
        BY <2>1 DEF Tidy, OwnFile
    <2>4. ASSUME NEW v \in Up, Holds(v)' PROVE v # u /\ Holds(v)
        <3>1. v # u /\ pc[v] \in {"resolved", "removing"}
            BY <2>1, <2>2, <2>4
        <3>2. ~(linked[v] /\ where[v] # where[u])
            BY <2>2, <2>4
        <3>3. CASE linked[v]
            BY <2>3, <3>1, <3>2, <3>3 DEF Tidy, Unopened
        <3> QED
            BY <3>1, <3>3
    <2>5. HeldAlone'
        BY <2>2, <2>4 DEF Tidy, HeldAlone
    <2>6. HeldEmpty'
        BY <2>1, <2>2, <2>4 DEF Tidy, HeldEmpty
    <2>7. OwnFile' /\ Unopened'
        BY <2>1, <2>2, <2>3 DEF Tidy, OwnFile, Unopened
    <2> QED
        BY <2>5, <2>6, <2>7 DEF Tidy
<1>8. ASSUME NEW u \in Up, RemoveFails(u) \/ Lost(u) PROVE Tidy'
    <2>1. /\ UNCHANGED <<disk, where, linked>>
          /\ \E to \in {"unremoved", "lost"} : pc' = [pc EXCEPT ![u] = to]
        BY <1>8 DEF RemoveFails, Lost
    <2>2. HeldAlone' /\ HeldEmpty'
        BY <2>1 DEF Tidy, HeldAlone, HeldEmpty
    <2>3. OwnFile' /\ Unopened'
        BY <2>1 DEF Tidy, OwnFile, Unopened
    <2> QED
        BY <2>2, <2>3 DEF Tidy
<1> QED
    BY <1>1, <1>2, <1>3, <1>4, <1>5, <1>6, <1>7, <1>8 DEF Next

LEMMA DisturbedStays == TypeOK /\ Next /\ Undisturbed' => Undisturbed
BY DEF Next, Undisturbed, TypeOK, Resolve, NoDirectory, Open, OpenFails, Write, Store, BodyFails,
       Remove, RemoveFails, Lost

\* While no two uploads hold one path and none ran out of suffixes, each path is
\* of one upload at a time.
THEOREM TidyHolds == Spec => [](TypeOK /\ TidyInv)
<1>1. Init => TypeOK /\ TidyInv
    BY DiskTypeInit, TidyInit DEF TidyInv
<1>2. TypeOK /\ TidyInv /\ [Next]_vars => (TypeOK /\ TidyInv)'
    <2> SUFFICES ASSUME TypeOK, TidyInv, [Next]_vars PROVE (TypeOK /\ TidyInv)'
        OBVIOUS
    <2>1. TypeOK'
        BY DiskTypeStep
    <2>2. CASE Next
        BY <2>1, <2>2, TidyStep, DisturbedStays DEF TidyInv
    <2>3. CASE UNCHANGED vars
        BY <2>1, <2>3 DEF vars, TidyInv, Undisturbed, Tidy, HeldAlone, HeldEmpty, OwnFile, Unopened,
                     Holds, Has
    <2> QED
        BY <2>2, <2>3
<1> QED
    BY <1>1, <1>2, PTL DEF Spec

\* A stored file is whole and nobody else's, for any number of uploads of which no
\* two hold one path at a time and each finds a number free.
THEOREM StoredIntactHolds == Spec => []StoredIntact
<1>1. TypeOK /\ TidyInv => StoredIntact
    BY DEF TidyInv, Tidy, OwnFile, Has, StoredIntact
<1> QED
    BY <1>1, TidyHolds, PTL

-----------------------------------------------------------------------------
(* What was there before, and what a failure leaves *)

\* As long as every upload finds a free number: what was there is there, and no
\* upload has its path, held with others or not.
OwnersFiles == \A x \in Kept : disk[x] = {Owner}
KeptAlone == ~exhausted => OwnersFiles /\ \A u \in Up : where[u] \notin Kept

LEMMA KeptAloneStep == TypeOK /\ KeptAlone /\ [Next]_vars => KeptAlone'
<1> SUFFICES ASSUME TypeOK, KeptAlone, [Next]_vars, ~exhausted'
             PROVE  OwnersFiles' /\ \A u \in Up : where'[u] \notin Kept
    BY DEF KeptAlone
<1> USE DestinationAssumption DEF TypeOK, Step
<1>1. ~exhausted
    BY DEF Next, vars, Resolve, NoDirectory, Open, OpenFails, Write, Store, BodyFails, Remove,
           RemoveFails, Lost
<1>2. OwnersFiles /\ \A u \in Up : where[u] \notin Kept
    BY <1>1 DEF KeptAlone
<1>3. ASSUME NEW u \in Up, Resolve(u)
      PROVE  OwnersFiles' /\ \A v \in Up : where'[v] \notin Kept
    <2> DEFINE x == UniquePath(NameOf[u])
    <2>1. x \notin Kept
        <3>1. ~Exists(x)
            BY <1>3, FreeVariant DEF Resolve
        <3> QED
            BY <3>1, <1>2 DEF Exists, OwnersFiles
    <2> HIDE DEF x
    <2>2. where' = [where EXCEPT ![u] = x] /\ disk' = disk
        BY <1>3 DEF Resolve, x
    <2> QED
        BY <1>2, <2>1, <2>2 DEF OwnersFiles
<1>4. ASSUME NEW u \in Up, Open(u) \/ Write(u) \/ Store(u) \/ Remove(u)
      PROVE  OwnersFiles' /\ \A v \in Up : where'[v] \notin Kept
    BY <1>2, <1>4 DEF Open, Write, Store, Remove, Written, RemovedPath, OwnersFiles
<1>5. ASSUME NEW u \in Up, NoDirectory(u) \/ OpenFails(u) \/ BodyFails(u) \/ RemoveFails(u) \/ Lost(u)
      PROVE  OwnersFiles' /\ \A v \in Up : where'[v] \notin Kept
    BY <1>2, <1>5 DEF NoDirectory, OpenFails, BodyFails, RemoveFails, Lost, OwnersFiles
<1>6. CASE UNCHANGED vars
    BY <1>2, <1>6 DEF vars, OwnersFiles
<1> QED
    BY <1>3, <1>4, <1>5, <1>6 DEF Next

\* What was in the directory before is never touched, also by uploads that race for
\* one path: only by one that found every number taken.
THEOREM KeptUntouchedHolds == Spec => []KeptUntouched
<1>1. Init => KeptAlone
    BY DestinationAssumption DEF Init, KeptAlone, OwnersFiles
<1>2. KeptAlone => KeptUntouched
    BY DEF KeptAlone, OwnersFiles, KeptUntouched
<1> QED
    BY <1>1, <1>2, KeptAloneStep, DiskTypeCorrect, PTL DEF Spec

\* Bytes of an upload lie at its own path only, and not once it has failed and
\* removed that path, whoever else holds it.
OwnPlace == \A u \in Up, x \in Path :
    u \in disk[x] => /\ where[u] = x
                     /\ pc[u] \in {"writing", "removing", "stored", "unremoved", "lost"}

LEMMA OwnPlaceStep == TypeOK /\ OwnPlace /\ [Next]_vars => OwnPlace'
<1> SUFFICES ASSUME TypeOK, OwnPlace, [Next]_vars PROVE OwnPlace'
    OBVIOUS
<1> USE DestinationAssumption DEF TypeOK, Step, OwnPlace
<1>1. ASSUME NEW u \in Up, Resolve(u) PROVE OwnPlace'
    <2> DEFINE x == UniquePath(NameOf[u])
    <2> HIDE DEF x
    <2>1. /\ pc[u] = "new" /\ pc' = [pc EXCEPT ![u] = "resolved"]
          /\ where' = [where EXCEPT ![u] = x] /\ disk' = disk
        BY <1>1 DEF Resolve, x
    <2> QED
        BY <2>1
<1>2. ASSUME NEW u \in Up, Open(u) PROVE OwnPlace'
    BY <1>2 DEF Open
<1>3. ASSUME NEW u \in Up, Write(u) \/ Store(u) PROVE OwnPlace'
    <2>1. /\ pc[u] = "writing" /\ where[u] \in Path /\ where' = where
          /\ pc' = pc \/ pc' = [pc EXCEPT ![u] = "stored"]
          /\ disk' = disk \/ disk' = [disk EXCEPT ![where[u]] = @ \cup {u}]
        BY <1>3 DEF Write, Store, Written
    <2> QED
        BY <2>1
<1>4. ASSUME NEW u \in Up, Remove(u) PROVE OwnPlace'
    BY <1>4 DEF Remove, RemovedPath
<1>5. ASSUME NEW u \in Up, NoDirectory(u) \/ OpenFails(u) PROVE OwnPlace'
    BY <1>5 DEF NoDirectory, OpenFails
<1>6. ASSUME NEW u \in Up, BodyFails(u) \/ RemoveFails(u) PROVE OwnPlace'
    BY <1>6 DEF BodyFails, RemoveFails
<1>7. ASSUME NEW u \in Up, Lost(u) PROVE OwnPlace'
    BY <1>7 DEF Lost
<1>8. CASE UNCHANGED vars
    BY <1>8 DEF vars
<1> QED
    BY <1>1, <1>2, <1>3, <1>4, <1>5, <1>6, <1>7, <1>8 DEF Next

\* Nothing is left of an upload that failed, for any number of uploads in whatever
\* order they hold, create and remove the same paths: only one whose removal failed
\* too leaves its bytes behind.
THEOREM NothingLeftHolds == Spec => []NothingLeft
<1>1. Init => OwnPlace
    BY DestinationAssumption DEF Init, OwnPlace
<1>2. OwnPlace => NothingLeft
    BY DEF OwnPlace, NothingLeft
<1> QED
    BY <1>1, <1>2, OwnPlaceStep, DiskTypeCorrect, PTL DEF Spec

=============================================================================
