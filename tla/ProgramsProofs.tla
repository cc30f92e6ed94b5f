--------------------------- MODULE ProgramsProofs ---------------------------
(***************************************************************************)
(* Theorems about Programs for any command line, any machine it starts on, *)
(* and any sizes of the fields.                                            *)
(***************************************************************************)
EXTENDS Programs, TLAPS, SequenceTheorems, WellFoundedInduction

----------------------------------------------------------------------------
(* Names as sequences of characters *)

\* A nonempty set of numbers has its minimum.
LEMMA MinOf ==
  ASSUME NEW S \in SUBSET Nat, S # {}
  PROVE  Min(S) \in S /\ \A y \in S : Min(S) <= y
<1> DEFINE R == OpToRel(<, Nat)
<1>1. IsWellFoundedOn(R, Nat)
  BY NatLessThanWellFounded
<1>2. \A x, y \in Nat : <<y, x>> \in R <=> y < x
  BY DEF OpToRel
<1> HIDE DEF R
<1>3. PICK x \in S : \A y \in S : <<y, x>> \notin R
  BY <1>1, WFMin
<1>4. \A y \in S : x <= y
  <2> TAKE y \in S
  <2>1. x \in Nat /\ y \in Nat
    OBVIOUS
  <2>2. ~(y < x)
    BY <1>2, <1>3, <2>1
  <2> QED
    BY <2>1, <2>2
<1> QED
  BY <1>4 DEF Min

\* Where a pattern occurs, character by character.
LEMMA OccursAt ==
  ASSUME NEW pattern \in Seq(Characters), NEW name \in Seq(Characters), NEW i \in Nat
  PROVE  i \in Occurrences(pattern, name) <=>
           /\ i # 0 /\ i + Len(pattern) <= Len(name) + 1
           /\ \A k \in 1..Len(pattern) : name[i + k - 1] = pattern[k]
<1> DEFINE m == Len(pattern)
           part == SubSeq(name, i, i + m - 1)
<1>1. m \in Nat /\ Len(name) \in Nat /\ \A k \in 1..Len(name) : name[k] \in Characters
  BY LenProperties, ElementOfSeq
<1>2. i \in 1..(Len(name) + 1 - m) <=> i # 0 /\ i + m <= Len(name) + 1
  BY <1>1
<1>3. ASSUME i # 0, i + m <= Len(name) + 1
      PROVE  part = pattern <=> \A k \in 1..m : name[i + k - 1] = pattern[k]
  <2>1. \A k \in i..(i + m - 1) : name[k] \in Characters
    BY <1>1, <1>3
  <2>2. i \in Int /\ i + m - 1 \in Int
    BY <1>1
  <2> HIDE DEF m
  <2>3. /\ part \in Seq(Characters)
        /\ Len(part) = IF i <= i + m - 1 THEN (i + m - 1) - i + 1 ELSE 0
        /\ \A k \in 1..((i + m - 1) - i + 1) : part[k] = name[i + k - 1]
    BY <2>1, <2>2, SubSeqProperties
  <2> HIDE DEF part
  <2>4. Len(part) = m /\ \A k \in 1..m : part[k] = name[i + k - 1]
    BY <1>1, <2>3
  <2>5. (\A k \in 1..m : part[k] = pattern[k]) => part = pattern
    BY <2>3, <2>4, SeqEqual DEF m
  <2> QED
    BY <2>4, <2>5
<1> QED
  BY <1>2, <1>3 DEF Occurrences

\* The part of a name between two places.
LEMMA PartIs ==
  ASSUME NEW name \in Seq(Characters), NEW i \in Nat \ {0}, NEW j \in Nat, j <= Len(name)
  PROVE  /\ SubSeq(name, i, j) \in Seq(Characters)
         /\ Len(SubSeq(name, i, j)) = IF i <= j THEN j - i + 1 ELSE 0
         /\ \A k \in 1..(j - i + 1) : SubSeq(name, i, j)[k] = name[i + k - 1]
<1>1. \A k \in i..j : name[k] \in Characters
  BY LenProperties, ElementOfSeq
<1> QED
  BY <1>1, SubSeqProperties

\* One sequence after another.
LEMMA ConcatAt ==
  ASSUME NEW s \in Seq(Characters), NEW t \in Seq(Characters)
  PROVE  /\ s \o t \in Seq(Characters) /\ Len(s \o t) = Len(s) + Len(t)
         /\ \A k \in 1..Len(s) : (s \o t)[k] = s[k]
         /\ \A k \in 1..Len(t) : (s \o t)[Len(s) + k] = t[k]
<1> DEFINE l == Len(s)
<1>1. l \in Nat /\ Len(t) \in Nat
  BY LenProperties
<1>2. /\ s \o t \in Seq(Characters)
      /\ Len(s \o t) = Len(s) + Len(t)
      /\ \A i \in 1 .. Len(s) + Len(t) : (s \o t)[i] = IF i <= Len(s) THEN s[i] ELSE t[i - Len(s)]
  BY ConcatProperties
<1> DEFINE st == s \o t
<1> HIDE DEF st
<1>3. \A i \in 1 .. l + Len(t) : st[i] = IF i <= l THEN s[i] ELSE t[i - l]
  BY <1>2 DEF st
<1>4. \A k \in 1..l : st[k] = s[k]
  BY <1>1, <1>3
<1>5. ASSUME NEW k \in 1..Len(t) PROVE st[l + k] = t[k]
  <2>1. l + k \in 1..l + Len(t) /\ ~(l + k <= l) /\ (l + k) - l = k
    BY <1>1
  <2> QED
    BY <1>3, <2>1
<1> QED
  BY <1>1, <1>2, <1>4, <1>5 DEF st, l

\* A direct queue's name, character by character.
LEMMA DirectAt ==
  ASSUME NEW a \in Seq(Characters), NEW b \in Seq(Characters)
  PROVE  LET q == get_direct_queue(a, b)
             n == Len(DirectPrefix)
             m == Len(Separator)
         IN  /\ q \in Seq(Characters) /\ n \in Nat /\ m \in Nat \ {0} /\ Len(a) \in Nat /\ Len(b) \in Nat
             /\ Len(q) = n + Len(a) + m + Len(b)
             /\ \A k \in 1..n : q[k] = DirectPrefix[k]
             /\ \A k \in 1..Len(a) : q[n + k] = a[k]
             /\ \A k \in 1..m : q[n + Len(a) + k] = Separator[k]
             /\ \A k \in 1..Len(b) : q[n + Len(a) + m + k] = b[k]
<1> DEFINE n == Len(DirectPrefix)
           m == Len(Separator)
           s1 == DirectPrefix \o a
           s2 == s1 \o Separator
           q == s2 \o b
<1>0. q = get_direct_queue(a, b)
  BY DEF get_direct_queue
<1>1. DirectPrefix \in Seq(Characters) /\ Separator \in Seq(Characters) /\ Separator # <<>>
  BY PrefixesDiffer
<1>2. n \in Nat /\ m \in Nat \ {0} /\ Len(a) \in Nat /\ Len(b) \in Nat
  BY <1>1, LenProperties, EmptySeq
<1>3. /\ s1 \in Seq(Characters) /\ Len(s1) = n + Len(a)
      /\ \A k \in 1..n : s1[k] = DirectPrefix[k]
      /\ \A k \in 1..Len(a) : s1[n + k] = a[k]
  BY <1>1, ConcatAt
<1> HIDE DEF s1
<1>4. /\ s2 \in Seq(Characters) /\ Len(s2) = n + Len(a) + m
      /\ \A k \in 1..n + Len(a) : s2[k] = s1[k]
      /\ \A k \in 1..m : s2[n + Len(a) + k] = Separator[k]
  <2>1. /\ s2 \in Seq(Characters) /\ Len(s2) = Len(s1) + m
        /\ \A k \in 1..Len(s1) : s2[k] = s1[k]
        /\ \A k \in 1..m : s2[Len(s1) + k] = Separator[k]
    BY <1>1, <1>3, ConcatAt
  <2> QED
    BY <1>3, <2>1
<1> HIDE DEF s2
<1>5. /\ q \in Seq(Characters) /\ Len(q) = n + Len(a) + m + Len(b)
      /\ \A k \in 1..n + Len(a) + m : q[k] = s2[k]
      /\ \A k \in 1..Len(b) : q[n + Len(a) + m + k] = b[k]
  <2>1. /\ q \in Seq(Characters) /\ Len(q) = Len(s2) + Len(b)
        /\ \A k \in 1..Len(s2) : q[k] = s2[k]
        /\ \A k \in 1..Len(b) : q[Len(s2) + k] = b[k]
    BY <1>4, ConcatAt
  <2> QED
    BY <1>4, <2>1
<1> HIDE DEF n, m, q
<1>6. \A k \in 1..n : q[k] = DirectPrefix[k]
  BY <1>2, <1>3, <1>4, <1>5
<1>7. \A k \in 1..Len(a) : q[n + k] = a[k]
  <2> TAKE k \in 1..Len(a)
  <2>1. n + k \in 1..n + Len(a) /\ n + k \in 1..n + Len(a) + m
    BY <1>2
  <2> QED
    BY <1>3, <1>4, <1>5, <2>1
<1>8. \A k \in 1..m : q[n + Len(a) + k] = Separator[k]
  <2> TAKE k \in 1..m
  <2>1. n + Len(a) + k \in 1..n + Len(a) + m
    BY <1>2
  <2> QED
    BY <1>4, <1>5, <2>1
<1> QED
  BY <1>0, <1>2, <1>5, <1>6, <1>7, <1>8 DEF n, m

\* What parse_direct_queue makes of the name between a and b: it splits it at
\* the first separator, which is a place from the end of a or an earlier one.
LEMMA DirectSplit ==
  ASSUME NEW a \in Seq(Characters), NEW b \in Seq(Characters)
  PROVE  LET q == get_direct_queue(a, b)
             n == Len(DirectPrefix)
             m == Len(Separator)
         IN  \E i \in Nat : \E left, right \in Seq(Characters) :
               /\ i > n /\ i + m <= Len(q) + 1 /\ i <= n + Len(a) + 1
               /\ \A k \in 1..m : q[i + k - 1] = Separator[k]
               /\ Clean(a) <=> i = n + Len(a) + 1
               /\ Len(left) = i - 1 - n /\ \A k \in 1..(i - 1 - n) : left[k] = q[n + k]
               /\ Len(right) = Len(q) + 1 - (i + m)
               /\ \A k \in 1..(Len(q) + 1 - (i + m)) : right[k] = q[i + m + k - 1]
               /\ parse_direct_queue(q) =
                    IF <<>> \in {left, right} THEN NoName ELSE <<left, right>>
<1> DEFINE q == get_direct_queue(a, b)
           n == Len(DirectPrefix)
           m == Len(Separator)
           la == Len(a)
           found == {i \in Occurrences(Separator, q) : i > n}
           first == Min(found)
           left == SubSeq(q, n + 1, first - 1)
           right == SubSeq(q, first + m, Len(q))
           c == a \o Separator
<1>0. DirectPrefix \in Seq(Characters) /\ Separator \in Seq(Characters)
  BY PrefixesDiffer
<1>1. /\ q \in Seq(Characters) /\ n \in Nat /\ m \in Nat \ {0} /\ la \in Nat
      /\ Len(q) \in Nat /\ n + la + m <= Len(q)
      /\ \A k \in 1..n : q[k] = DirectPrefix[k]
      /\ \A k \in 1..la : q[n + k] = a[k]
      /\ \A k \in 1..m : q[n + la + k] = Separator[k]
  <2>1. /\ q \in Seq(Characters) /\ n \in Nat /\ m \in Nat \ {0} /\ la \in Nat /\ Len(b) \in Nat
        /\ Len(q) = n + la + m + Len(b)
        /\ \A k \in 1..n : q[k] = DirectPrefix[k]
        /\ \A k \in 1..la : q[n + k] = a[k]
        /\ \A k \in 1..m : q[n + la + k] = Separator[k]
    BY DirectAt
  <2> HIDE DEF q, n, m, la
  <2>2. Len(q) \in Nat /\ n + la + m <= Len(q)
    BY <2>1
  <2> QED
    BY <2>1, <2>2
<1>2. /\ c \in Seq(Characters) /\ Len(c) = la + m
      /\ \A k \in 1..la : c[k] = a[k]
      /\ \A k \in 1..m : c[la + k] = Separator[k]
  BY <1>0, ConcatAt
<1>3. parse_direct_queue(q) =
        IF 1 \notin Occurrences(DirectPrefix, q) \/ found = {} \/ <<>> \in {left, right}
        THEN NoName ELSE <<left, right>>
  BY DEF parse_direct_queue
<1>4. Clean(a) <=> Occurrences(Separator, c) = {la + 1}
  BY DEF Clean
<1>5. \A i \in Nat : i \in Occurrences(Separator, q) <=>
        i # 0 /\ i + m <= Len(q) + 1 /\ \A k \in 1..m : q[i + k - 1] = Separator[k]
  BY <1>0, <1>1, OccursAt
<1>6. \A i \in Nat : i \in Occurrences(Separator, c) <=>
        i # 0 /\ i + m <= Len(c) + 1 /\ \A k \in 1..m : c[i + k - 1] = Separator[k]
  BY <1>0, <1>2, OccursAt
<1>7. Occurrences(Separator, q) \subseteq Nat /\ Occurrences(Separator, c) \subseteq Nat
  BY <1>1, <1>2 DEF Occurrences
<1> HIDE DEF q
<1>8. 1 \in Occurrences(DirectPrefix, q)
  <2>1. 1 + n <= Len(q) + 1 /\ \A k \in 1..n : q[1 + k - 1] = DirectPrefix[k]
    BY <1>1
  <2>2. 1 \in Nat /\ 1 # 0 /\ q \in Seq(Characters) /\ DirectPrefix \in Seq(Characters)
    BY <1>0, <1>1
  <2> QED
    BY <2>1, <2>2, OccursAt
<1> HIDE DEF n, m, la, c
<1>9. n + la + 1 \in found
  <2>1. \A k \in 1..m : q[(n + la + 1) + k - 1] = Separator[k]
    BY <1>1
  <2>2. n + la + 1 \in Nat /\ n + la + 1 # 0 /\ (n + la + 1) + m <= Len(q) + 1 /\ n + la + 1 > n
    BY <1>1
  <2>3. n + la + 1 \in Occurrences(Separator, q)
    BY <1>5, <2>1, <2>2
  <2> QED
    BY <2>2, <2>3
<1>10. first \in found /\ \A i \in found : first <= i
  BY <1>7, <1>9, MinOf
<1> HIDE DEF first
<1>11. /\ first \in Nat /\ first > n /\ first + m <= Len(q) + 1 /\ first <= n + la + 1
       /\ \A k \in 1..m : q[first + k - 1] = Separator[k]
  BY <1>5, <1>7, <1>9, <1>10
\* The places where the separator is in a's name and in the queue's.
<1>12. ASSUME NEW i \in 1..(la + 1)
       PROVE  i \in Occurrences(Separator, c) <=> n + i \in found
  <2>1. \A j \in 1..(la + m) : c[j] = q[n + j]
    <3> TAKE j \in 1..(la + m)
    <3>1. CASE j <= la
      <4>1. j \in 1..la
        BY <1>1, <3>1
      <4> QED
        BY <1>1, <1>2, <4>1
    <3>2. CASE ~(j <= la)
      <4>1. j - la \in 1..m /\ la + (j - la) = j /\ n + la + (j - la) = n + j
        BY <1>1, <3>2
      <4>2. c[la + (j - la)] = Separator[j - la] /\ q[n + la + (j - la)] = Separator[j - la]
        BY <1>1, <1>2, <4>1
      <4> QED
        BY <4>1, <4>2
    <3> QED
      BY <3>1, <3>2
  <2>2. ASSUME NEW k \in 1..m PROVE c[i + k - 1] = q[(n + i) + k - 1]
    <3>1. i + k - 1 \in 1..(la + m) /\ n + (i + k - 1) = (n + i) + k - 1
      BY <1>1
    <3> QED
      BY <2>1, <3>1
  <2>3. i \in Nat /\ i # 0 /\ i + m <= Len(c) + 1
    BY <1>1, <1>2
  <2>4. n + i \in Nat /\ n + i # 0 /\ (n + i) + m <= Len(q) + 1 /\ n + i > n
    BY <1>1
  <2>5. i \in Occurrences(Separator, c) <=> \A k \in 1..m : c[i + k - 1] = Separator[k]
    BY <1>6, <2>3
  <2>6. n + i \in found <=> \A k \in 1..m : q[(n + i) + k - 1] = Separator[k]
    BY <1>5, <2>4
  <2> QED
    BY <2>2, <2>5, <2>6
<1>13. \A i \in Occurrences(Separator, c) : i \in 1..(la + 1)
  BY <1>1, <1>2, <1>6, <1>7
<1>14. la + 1 \in Occurrences(Separator, c)
  <2>1. la + 1 \in 1..(la + 1) /\ n + (la + 1) = n + la + 1
    BY <1>1
  <2> QED
    BY <1>9, <1>12, <2>1
<1>15. Clean(a) <=> first = n + la + 1
  <2>1. ASSUME Clean(a) PROVE first = n + la + 1
    <3>1. first - n \in 1..(la + 1) /\ n + (first - n) = first
      BY <1>1, <1>11
    <3>2. first - n \in Occurrences(Separator, c)
      BY <1>10, <1>12, <3>1
    <3>3. first - n = la + 1
      BY <1>4, <2>1, <3>2
    <3> QED
      BY <1>1, <3>1, <3>3
  <2>2. ASSUME first = n + la + 1 PROVE Clean(a)
    <3>1. ASSUME NEW i \in Occurrences(Separator, c) PROVE i = la + 1
      <4>1. i \in 1..(la + 1) /\ n + i \in found
        BY <1>12, <1>13
      <4>2. n + la + 1 <= n + i
        BY <1>10, <2>2, <4>1
      <4> QED
        BY <1>1, <4>1, <4>2
    <3> QED
      BY <1>4, <1>14, <3>1
  <2> QED
    BY <2>1, <2>2
<1>16. /\ left \in Seq(Characters) /\ Len(left) = first - 1 - n
       /\ \A k \in 1..(first - 1 - n) : left[k] = q[n + k]
  <2>1. /\ n + 1 \in Nat \ {0} /\ first - 1 \in Nat /\ first - 1 <= Len(q)
        /\ (first - 1) - (n + 1) + 1 = first - 1 - n
    BY <1>1, <1>11
  <2>2. /\ left \in Seq(Characters)
        /\ Len(left) = IF n + 1 <= first - 1 THEN (first - 1) - (n + 1) + 1 ELSE 0
        /\ \A k \in 1..((first - 1) - (n + 1) + 1) : left[k] = q[(n + 1) + k - 1]
    BY <1>1, <2>1, PartIs, SMTT(30)
  <2> HIDE DEF left
  <2>3. \A k \in 1..(first - 1 - n) : (n + 1) + k - 1 = n + k
    BY <1>1, <1>11
  <2> QED
    BY <1>1, <1>11, <2>1, <2>2, <2>3, SMTT(30)
<1>17. /\ right \in Seq(Characters) /\ Len(right) = Len(q) + 1 - (first + m)
       /\ \A k \in 1..(Len(q) + 1 - (first + m)) : right[k] = q[first + m + k - 1]
  <2>1. /\ first + m \in Nat \ {0} /\ Len(q) \in Nat /\ Len(q) <= Len(q)
        /\ Len(q) - (first + m) + 1 = Len(q) + 1 - (first + m)
    BY <1>1, <1>11
  <2>2. /\ right \in Seq(Characters)
        /\ Len(right) = IF first + m <= Len(q) THEN Len(q) - (first + m) + 1 ELSE 0
        /\ \A k \in 1..(Len(q) - (first + m) + 1) : right[k] = q[(first + m) + k - 1]
    BY <1>1, <2>1, PartIs, SMTT(30)
  <2> HIDE DEF right
  <2>3. Len(right) = Len(q) + 1 - (first + m)
    <3>1. CASE first + m <= Len(q)
      BY <2>1, <2>2, <3>1
    <3>2. CASE ~(first + m <= Len(q))
      <4>1. Len(q) + 1 - (first + m) = 0
        <5>1. Len(q) \in Nat /\ first \in Nat /\ m \in Nat /\ first + m <= Len(q) + 1
          BY <1>1, <1>11
        <5> QED
          BY <3>2, <5>1
      <4> QED
        BY <2>2, <3>2, <4>1
    <3> QED
      BY <3>1, <3>2
  <2>4. \A k \in 1..(Len(q) + 1 - (first + m)) : right[k] = q[first + m + k - 1]
    BY <2>1, <2>2
  <2> QED
    BY <2>2, <2>3, <2>4
<1>18. parse_direct_queue(q) =
         IF <<>> \in {left, right} THEN NoName ELSE <<left, right>>
  BY <1>3, <1>8, <1>9
<1> HIDE DEF left, right
<1> QED
  BY <1>11, <1>15, <1>16, <1>17, <1>18 DEF q, n, m, la

LEMMA RoundTrip ==
  ASSUME NEW a \in Seq(Characters), NEW b \in Seq(Characters)
  PROVE  LET q == get_direct_queue(a, b)
             ends == parse_direct_queue(q)
         IN  /\ ends = <<a, b>> <=> <<>> \notin {a, b} /\ Clean(a)
             /\ ends # NoName => get_direct_queue(ends[1], ends[2]) = q
<1> DEFINE q == get_direct_queue(a, b)
           n == Len(DirectPrefix)
           m == Len(Separator)
<1>1. PICK i \in Nat : \E left, right \in Seq(Characters) :
               /\ i > n /\ i + m <= Len(q) + 1 /\ i <= n + Len(a) + 1
               /\ \A k \in 1..m : q[i + k - 1] = Separator[k]
               /\ Clean(a) <=> i = n + Len(a) + 1
               /\ Len(left) = i - 1 - n /\ \A k \in 1..(i - 1 - n) : left[k] = q[n + k]
               /\ Len(right) = Len(q) + 1 - (i + m)
               /\ \A k \in 1..(Len(q) + 1 - (i + m)) : right[k] = q[i + m + k - 1]
               /\ parse_direct_queue(q) =
                    IF <<>> \in {left, right} THEN NoName ELSE <<left, right>>
  BY DirectSplit
<1>2. PICK left \in Seq(Characters), right \in Seq(Characters) :
               /\ i > n /\ i + m <= Len(q) + 1 /\ i <= n + Len(a) + 1
               /\ \A k \in 1..m : q[i + k - 1] = Separator[k]
               /\ Clean(a) <=> i = n + Len(a) + 1
               /\ Len(left) = i - 1 - n /\ \A k \in 1..(i - 1 - n) : left[k] = q[n + k]
               /\ Len(right) = Len(q) + 1 - (i + m)
               /\ \A k \in 1..(Len(q) + 1 - (i + m)) : right[k] = q[i + m + k - 1]
               /\ parse_direct_queue(q) =
                    IF <<>> \in {left, right} THEN NoName ELSE <<left, right>>
  BY <1>1
<1>3. /\ q \in Seq(Characters) /\ n \in Nat /\ m \in Nat \ {0} /\ Len(a) \in Nat /\ Len(b) \in Nat
      /\ Len(q) = n + Len(a) + m + Len(b)
      /\ \A k \in 1..n : q[k] = DirectPrefix[k]
      /\ \A k \in 1..Len(a) : q[n + k] = a[k]
      /\ \A k \in 1..Len(b) : q[n + Len(a) + m + k] = b[k]
  BY DirectAt
<1> DEFINE again == get_direct_queue(left, right)
<1>4. /\ again \in Seq(Characters)
      /\ Len(again) = n + Len(left) + m + Len(right)
      /\ \A k \in 1..n : again[k] = DirectPrefix[k]
      /\ \A k \in 1..Len(left) : again[n + k] = left[k]
      /\ \A k \in 1..m : again[n + Len(left) + k] = Separator[k]
      /\ \A k \in 1..Len(right) : again[n + Len(left) + m + k] = right[k]
  BY DirectAt
<1> HIDE DEF q, n, m, again
<1>5. again = q
  <2>1. Len(again) = Len(q)
    <3>1. Len(left) = i - 1 - n /\ Len(right) = Len(q) + 1 - (i + m) /\ Len(q) \in Nat
      BY <1>2, <1>3
    <3>2. Len(again) = n + (i - 1 - n) + m + (Len(q) + 1 - (i + m))
      BY <1>4, <3>1
    <3>3. i \in Nat /\ n \in Nat /\ m \in Nat
      BY <1>3
    <3> QED
      BY <3>1, <3>2, <3>3
  <2>2. ASSUME NEW j \in 1..Len(again) PROVE again[j] = q[j]
    <3>0. j \in Nat /\ j <= Len(q) /\ j # 0 /\ Len(q) \in Nat
      BY <1>3, <2>1
    <3>1. CASE j <= n
      BY <1>3, <1>4, <3>0, <3>1
    <3>2. CASE n < j /\ j < i
      <4>1. j - n \in 1..(i - 1 - n) /\ n + (j - n) = j
        BY <1>3, <3>0, <3>2
      <4>2. again[n + (j - n)] = left[j - n] /\ left[j - n] = q[n + (j - n)]
        BY <1>2, <1>4, <4>1
      <4> QED
        BY <4>1, <4>2
    <3>3. CASE i <= j /\ j < i + m
      <4>1. j - i + 1 \in 1..m /\ n + (i - 1 - n) + (j - i + 1) = j /\ i + (j - i + 1) - 1 = j
        BY <1>3, <3>0, <3>3
      <4>2. again[n + (i - 1 - n) + (j - i + 1)] = Separator[j - i + 1]
            /\ q[i + (j - i + 1) - 1] = Separator[j - i + 1]
        BY <1>2, <1>4, <4>1
      <4> QED
        BY <4>1, <4>2
    <3>4. CASE i + m <= j
      <4> DEFINE k == j - (i + m) + 1
      <4>1. k \in 1..(Len(q) + 1 - (i + m)) /\ n + (i - 1 - n) + m + k = j /\ i + m + k - 1 = j
        BY <1>3, <3>0, <3>4
      <4> HIDE DEF k
      <4>2. again[n + (i - 1 - n) + m + k] = right[k] /\ right[k] = q[i + m + k - 1]
        BY <1>2, <1>4, <4>1
      <4> QED
        BY <4>1, <4>2
    <3> QED
      BY <1>3, <3>0, <3>1, <3>2, <3>3, <3>4
  <2> QED
    BY <1>3, <1>4, <2>1, <2>2, SeqEqual
<1>6. ASSUME i = n + Len(a) + 1 PROVE left = a /\ right = b
  <2>0. /\ Len(left) = i - 1 - n /\ Len(right) = Len(q) + 1 - (i + m)
        /\ n \in Nat /\ m \in Nat /\ Len(a) \in Nat /\ Len(b) \in Nat
        /\ Len(q) = n + Len(a) + m + Len(b)
    BY <1>2, <1>3
  <2>1. Len(left) = Len(a)
    BY <1>6, <2>0
  <2>2. Len(right) = Len(b)
    BY <1>6, <2>0
  <2>4. \A k \in 1..Len(left) : left[k] = a[k]
    <3>1. \A k \in 1..Len(left) : left[k] = q[n + k]
      BY <1>2, <2>0
    <3> QED
      BY <1>3, <2>1, <3>1
  <2>3. ASSUME NEW k \in 1..Len(right) PROVE right[k] = b[k]
    <3>1. i + m + k - 1 = n + Len(a) + m + k
      BY <1>3, <1>6, <2>2
    <3> QED
      BY <1>2, <1>3, <2>2, <3>1
  <2> QED
    BY <2>1, <2>2, <2>3, <2>4, SeqEqual
<1>7. ASSUME i # n + Len(a) + 1 PROVE left # a
  <2>1. Len(left) = i - 1 - n /\ i \in Nat /\ n \in Nat /\ Len(a) \in Nat
    BY <1>2, <1>3
  <2>2. Len(left) # Len(a)
    BY <1>7, <2>1
  <2> QED
    BY <2>2
<1>8. parse_direct_queue(q) = <<a, b>> <=> <<>> \notin {a, b} /\ Clean(a)
  <2>1. NoName # <<a, b>> /\ (<<left, right>> = <<a, b>> <=> left = a /\ right = b)
    BY DEF NoName
  <2>2. CASE i = n + Len(a) + 1
    BY <1>2, <1>6, <2>1, <2>2
  <2>3. CASE i # n + Len(a) + 1
    BY <1>2, <1>7, <2>1, <2>3
  <2> QED
    BY <2>2, <2>3
<1>9. ASSUME parse_direct_queue(q) # NoName
      PROVE  parse_direct_queue(q) = <<left, right>>
  BY <1>2, <1>9
<1>10. parse_direct_queue(q) # NoName =>
         get_direct_queue(parse_direct_queue(q)[1], parse_direct_queue(q)[2]) = q
  BY <1>5, <1>9 DEF again
<1> QED
  BY <1>8, <1>10 DEF q

\* A direct queue is no inbox, and an inbox leads back to its owner.
LEMMA DirectIsNoInbox ==
  ASSUME NEW a \in Seq(Characters), NEW b \in Seq(Characters)
  PROVE  parse_inbox_queue(get_direct_queue(a, b)) = NoName
<1> DEFINE q == get_direct_queue(a, b)
<1>1. InboxPrefix \in Seq(Characters) /\ Len(DirectPrefix) \in Nat /\ Len(InboxPrefix) \in Nat
  BY PrefixesDiffer, LenProperties
<1>2. q \in Seq(Characters) /\ \A k \in 1..Len(DirectPrefix) : q[k] = DirectPrefix[k]
  BY DirectAt
<1> HIDE DEF q
<1>3. PICK i \in 1..Len(DirectPrefix) :
        i \in 1..Len(InboxPrefix) /\ DirectPrefix[i] # InboxPrefix[i]
  BY PrefixesDiffer
<1>4. 1 \notin Occurrences(InboxPrefix, q)
  <2>1. SUFFICES ASSUME 1 \in Occurrences(InboxPrefix, q) PROVE FALSE
    OBVIOUS
  <2>2. \A k \in 1..Len(InboxPrefix) : q[1 + k - 1] = InboxPrefix[k]
    BY <1>1, <1>2, <2>1, OccursAt
  <2>3. 1 + i - 1 = i
    BY <1>1
  <2> QED
    BY <1>2, <1>3, <2>2, <2>3
<1> QED
  BY <1>4 DEF parse_inbox_queue, q

LEMMA InboxRoundTrip ==
  ASSUME NEW a \in Seq(Characters), a # <<>>
  PROVE  parse_inbox_queue(get_inbox_queue(a)) = <<a>>
<1> DEFINE q == InboxPrefix \o a
           n == Len(InboxPrefix)
           owner == SubSeq(q, n + 1, Len(q))
<1>1. InboxPrefix \in Seq(Characters)
  BY PrefixesDiffer
<1>2. /\ q \in Seq(Characters) /\ Len(q) = n + Len(a) /\ n \in Nat /\ Len(a) \in Nat
      /\ \A k \in 1..n : q[k] = InboxPrefix[k]
      /\ \A k \in 1..Len(a) : q[n + k] = a[k]
  BY <1>1, ConcatAt, LenProperties
<1>3. parse_inbox_queue(q) =
        IF 1 \notin Occurrences(InboxPrefix, q) \/ owner = <<>> THEN NoName ELSE <<owner>>
  BY DEF parse_inbox_queue
<1> HIDE DEF q
<1>4. 1 \in Occurrences(InboxPrefix, q)
  <2>1. 1 + n <= Len(q) + 1 /\ \A k \in 1..n : q[1 + k - 1] = InboxPrefix[k]
    BY <1>2
  <2> QED
    BY <1>1, <1>2, <2>1, OccursAt
<1>5. owner = a
  <2> HIDE DEF n
  <2>1. n + 1 \in Nat \ {0} /\ Len(q) \in Nat /\ Len(q) <= Len(q) /\ Len(q) - (n + 1) + 1 = Len(a)
    BY <1>2
  <2>2. /\ owner \in Seq(Characters)
        /\ Len(owner) = IF n + 1 <= Len(q) THEN Len(q) - (n + 1) + 1 ELSE 0
        /\ \A k \in 1..(Len(q) - (n + 1) + 1) : owner[k] = q[(n + 1) + k - 1]
    BY <1>2, <2>1, PartIs
  <2> HIDE DEF owner
  <2>3. Len(owner) = Len(a)
    BY <1>2, <2>1, <2>2
  <2>4. ASSUME NEW k \in 1..Len(owner) PROVE owner[k] = a[k]
    <3>1. (n + 1) + k - 1 = n + k /\ k \in 1..Len(a) /\ k \in 1..(Len(q) - (n + 1) + 1)
      BY <1>2, <2>1, <2>3
    <3> QED
      BY <1>2, <2>2, <3>1
  <2> QED
    BY <2>2, <2>3, <2>4, SeqEqual
<1> QED
  BY <1>3, <1>4, <1>5 DEF get_inbox_queue, q

----------------------------------------------------------------------------
(* The way of a program *)

\* Which programs come to which point.
Phased ==
  /\ at \in {"prepare", "create", "open"} => program \in Daemons
  /\ at = "create" => program = "supervisor"
  /\ at = "open" => program \in Services
  /\ at \in {"prepare", "create", "open", "serving"} => locked

\* A service's queues are those of its main function, once they are opened.
Wired ==
  /\ at \in {"open", "serving"} /\ program \in Services => receiver = ReceivesFrom
  /\ at = "serving" /\ program \in Workers => senders = SendsTo

\* The PDF parser's command line, and what it prints.
Printed ==
  /\ program = "pdf" /\ args # <<>> => \E p \in Paths : args = <<p>>
  /\ at = "printed" => program = "pdf" /\ args # <<>> /\ output = <<Opened>>

\* The ends that were given, and those found.
Resolved ==
  /\ program = "resolver" => args \in EndNames \X EndNames
  /\ at = "resolved" =>
       program = "resolver" /\ output = parse_direct_queue(get_direct_queue(args[1], args[2]))

PInv == TypeOK /\ Phased /\ Wired /\ Printed /\ Resolved

LEMMA InitP == Init => PInv
<1> SUFFICES ASSUME Init PROVE PInv
  OBVIOUS
<1>1. at \in {"initialize", "main"} /\ program \in Program /\ held \in BOOLEAN /\ locked = FALSE
  BY DEF Init
<1>2. config \in Configs
  BY DEF Init, Configs
<1>3. program = "pdf" /\ args # <<>> => \E p \in Paths : args = <<p>>
  BY DEF Init
<1>4. program = "resolver" => args \in EndNames \X EndNames
  BY DEF Init
<1> QED
  BY <1>1, <1>2, <1>3, <1>4 DEF PInv, TypeOK, Phased, Wired, Printed, Resolved, Phases

LEMMA StepP == PInv /\ [Next]_vars => PInv'
<1> SUFFICES ASSUME PInv, [Next]_vars PROVE PInv'
  OBVIOUS
<1> USE DEF Keeps, machine, Become
<1>0. TypeOK /\ Phased /\ Wired /\ Printed /\ Resolved
  BY DEF PInv
<1> DEFINE Same == UNCHANGED <<program, args, held, config, disk>>
\* A step that stays on the command line, or leaves for a point where nothing
\* is claimed.
<1>1. ASSUME Same, UNCHANGED locked,
             at' \in {"commands", "store", "notify", "check", "main", "usage", "rejected",
                      "sent", "aborted", "failed"}
      PROVE  PInv'
  <2>1. TypeOK'
    BY <1>0, <1>1 DEF TypeOK, Phases, Final
  <2>2. Phased' /\ Wired' /\ Printed' /\ Resolved'
    BY <1>0, <1>1 DEF Phased, Wired, Printed, Resolved
  <2> QED
    BY <2>1, <2>2 DEF PInv
<1>2. CASE initialize \/ set_options_description \/ Store \/ Notify \/ HelpOrVersion
  BY <1>1, <1>2 DEF initialize, set_options_description, Store, Notify, HelpOrVersion
<1>3. CASE parse_command_line
  BY <1>1, <1>3 DEF parse_command_line
<1>4. CASE CreateAndLock
  <2>1. Same /\ locked' = ~held /\ at' = IF held THEN "locked_out" ELSE "prepare"
    BY <1>4 DEF CreateAndLock
  <2>2. program \in Daemons
    BY <1>4 DEF CreateAndLock
  <2>3. TypeOK'
    BY <1>0, <2>1, Zenon DEF TypeOK, Phases, Final
  <2>4. at' \in {"locked_out", "prepare"} /\ (at' = "prepare" => locked')
    BY <2>1, Zenon
  <2>5. Phased'
    BY <2>1, <2>2, <2>4 DEF Phased
  <2>6. Wired' /\ Printed' /\ Resolved'
    BY <1>0, <2>1, <2>4 DEF Wired, Printed, Resolved
  <2> QED
    BY <2>3, <2>5, <2>6 DEF PInv
<1>5. CASE load
  <2>1. CASE at' = "aborted"
    BY <1>1, <1>5, <2>1 DEF load
  <2>2. CASE at' = "create"
    BY <1>0, <1>5, <2>2 DEF load, PInv, TypeOK, Phased, Wired, Printed, Resolved, Phases, Final
  <2> QED
    BY <1>5, <2>1, <2>2 DEF load
<1>6. CASE CreateQueues
  <2>1. Same /\ UNCHANGED locked /\ at' = "serving" /\ program = "supervisor" /\ locked
    BY <1>0, <1>6 DEF CreateQueues, Phased
  <2>2. program \notin Workers
    BY <2>1 DEF Workers, Services
  <2> QED
    BY <1>0, <2>1, <2>2 DEF PInv, TypeOK, Phased, Wired, Printed, Resolved, Phases, Final, Workers
<1>7. CASE OpenReceiver
  <2>1. CASE at' = "failed"
    BY <1>1, <1>7, <2>1 DEF OpenReceiver
  <2>2. CASE at' = "open"
    <3>1. Same /\ UNCHANGED locked /\ receiver' = ReceivesFrom /\ program \in Services /\ locked
      BY <1>0, <1>7, <2>2 DEF OpenReceiver, Phased
    <3>2. ReceivesFrom' = ReceivesFrom
      BY <3>1 DEF ReceivesFrom
    <3> QED
      BY <1>0, <2>2, <3>1, <3>2
      DEF PInv, TypeOK, Phased, Wired, Printed, Resolved, Phases, Final, Daemons, Workers
  <2> QED
    BY <1>7, <2>1, <2>2 DEF OpenReceiver
<1>8. CASE OpenSenders
  <2>1. CASE at' \in {"failed", "aborted"}
    BY <1>1, <1>8, <2>1 DEF OpenSenders
  <2>2. CASE at' = "serving"
    <3>1. Same /\ UNCHANGED <<locked, receiver>> /\ senders' = SendsTo /\ locked
      BY <1>0, <1>8, <2>2 DEF OpenSenders, Phased
    <3>2. program \in Services => receiver = ReceivesFrom
      BY <1>0, <1>8 DEF OpenSenders, Wired, Services
    <3>3. ReceivesFrom' = ReceivesFrom /\ SendsTo' = SendsTo
      BY <3>1 DEF ReceivesFrom, SendsTo
    <3> QED
      BY <1>0, <2>2, <3>1, <3>2, <3>3 DEF PInv, TypeOK, Phased, Wired, Printed, Resolved, Phases, Final
  <2> QED
    BY <1>8, <2>1, <2>2 DEF OpenSenders
<1>9. CASE ParsePdf
  <2>1. CASE at' # "printed"
    BY <1>1, <1>9, <2>1 DEF ParsePdf
  <2>2. CASE at' = "printed"
    <3>1. Same /\ UNCHANGED locked /\ program = "pdf" /\ args # <<>> /\ output' = <<Opened>>
      BY <1>9, <2>2 DEF ParsePdf
    <3>2. Opened' = Opened
      BY <3>1 DEF Opened
    <3>3. program \notin Workers
      BY <3>1 DEF Workers, Services
    <3> QED
      BY <1>0, <2>2, <3>1, <3>2, <3>3 DEF PInv, TypeOK, Phased, Wired, Printed, Resolved, Phases, Final
  <2> QED
    BY <2>1, <2>2
<1>10. CASE UNCHANGED vars
  <2>1. ReceivesFrom' = ReceivesFrom /\ SendsTo' = SendsTo /\ Opened' = Opened
    BY <1>10 DEF vars, ReceivesFrom, SendsTo, Opened
  <2> QED
    BY <1>0, <1>10, <2>1 DEF vars, PInv, TypeOK, Phased, Wired, Printed, Resolved
<1>11. CASE Resolve
  <2>1. /\ Same /\ UNCHANGED locked /\ program = "resolver" /\ at' = "resolved"
        /\ output' = parse_direct_queue(get_direct_queue(args[1], args[2]))
    BY <1>11 DEF Resolve
  <2>2. program \notin Workers
    BY <2>1 DEF Workers, Services
  <2> QED
    BY <1>0, <2>1, <2>2 DEF PInv, TypeOK, Phased, Wired, Printed, Resolved, Phases, Final
<1> QED
  BY <1>2, <1>3, <1>4, <1>5, <1>6, <1>7, <1>8, <1>9, <1>10, <1>11 DEF Next, Ended

----------------------------------------------------------------------------
(* What the invariant says of the queues and of what is printed *)

LEMMA WorkersResolve ==
  ASSUME NEW w \in Workers
  PROVE  /\ parse_direct_queue(DirectQueue(w)) = <<Spell("qm"), Spell(w)>>
         /\ parse_inbox_queue(InboxQueue) = <<Spell("qm")>>
<1>1. "qm" \in Workers
  BY DEF Workers, Services
<1>2. \A v \in Workers : Spell(v) \in Seq(Characters) /\ Spell(v) # <<>> /\ Clean(Spell(v))
  BY WorkersFit
<1>3. Spell("qm") \in Seq(Characters) /\ Spell("qm") # <<>> /\ Clean(Spell("qm"))
  BY <1>1, <1>2
<1>4. Spell(w) \in Seq(Characters) /\ Spell(w) # <<>>
  BY <1>2
<1> DEFINE a == Spell("qm")
           b == Spell(w)
<1>5. DirectQueue(w) = get_direct_queue(a, b) /\ InboxQueue = get_inbox_queue(a)
  BY DEF DirectQueue, InboxQueue
<1> HIDE DEF a, b
<1>6. a \in Seq(Characters) /\ b \in Seq(Characters) /\ <<>> \notin {a, b} /\ Clean(a)
  BY <1>3, <1>4 DEF a, b
<1>7. parse_direct_queue(get_direct_queue(a, b)) = <<a, b>>
  BY <1>6, RoundTrip
<1>8. parse_inbox_queue(get_inbox_queue(a)) = <<a>>
  BY <1>6, InboxRoundTrip
<1> QED
  BY <1>5, <1>7, <1>8 DEF a, b

LEMMA PInvWires == PInv => WiredTogether
<1> SUFFICES ASSUME PInv, at = "serving", program \in Workers
             PROVE  /\ program \in Services => receiver = binary_to_queue[program]
                    /\ program \in {"detect", "parse"} =>
                         parse_direct_queue(receiver) = <<Spell("qm"), Spell(program)>>
                    /\ program = "qm" => parse_inbox_queue(receiver) = <<Spell("qm")>>
                    /\ \A d \in DOMAIN senders : senders[d] = binary_to_queue[d]
  BY DEF WiredTogether
<1>1. (program \in Services => receiver = ReceivesFrom) /\ senders = SendsTo
  BY DEF PInv, Wired
<1>2. ASSUME program \in Services
      PROVE  receiver = IF program = "qm" THEN InboxQueue ELSE DirectQueue(program)
  <2>1. program = "qm" \/ program = "detect" \/ program = "parse"
    BY <1>2 DEF Services
  <2> QED
    BY <1>1, <1>2, <2>1 DEF ReceivesFrom
<1>3. \A s \in Services :
        binary_to_queue[s] = IF s = "qm" THEN InboxQueue ELSE DirectQueue(s)
  BY DEF binary_to_queue
<1>4. program \in {"detect", "parse"} =>
        parse_direct_queue(receiver) = <<Spell("qm"), Spell(program)>>
  <2>1. ASSUME program \in {"detect", "parse"} PROVE receiver = DirectQueue(program)
    BY <1>2, <2>1 DEF Services
  <2> QED
    BY <2>1, WorkersResolve
<1>5. program = "qm" => parse_inbox_queue(receiver) = <<Spell("qm")>>
  <2>1. ASSUME program = "qm" PROVE receiver = InboxQueue
    BY <1>2, <2>1 DEF Services
  <2> QED
    BY <2>1, WorkersResolve
<1>6. \A d \in DOMAIN senders : senders[d] = binary_to_queue[d]
  <2>1. CASE program = "qm"
    BY <1>1, <1>3, <2>1 DEF SendsTo, Services
  <2>2. CASE program # "qm"
    BY <1>1, <1>3, <2>2 DEF SendsTo, Services
  <2> QED
    BY <2>1, <2>2
<1> QED
  BY <1>2, <1>3, <1>4, <1>5, <1>6

LEMMA PInvResolves == PInv => NamesRoundTrip
<1> SUFFICES ASSUME PInv, at = "resolved" PROVE NamesRoundTrip
  BY DEF NamesRoundTrip
<1>1. args \in EndNames \X EndNames
      /\ output = parse_direct_queue(get_direct_queue(args[1], args[2]))
  BY DEF PInv, Resolved
<1> DEFINE a == args[1]
           b == args[2]
<1>2. a \in Seq(Characters) /\ b \in Seq(Characters) /\ args = <<a, b>>
  BY <1>1, ProgramsAssumption
<1> HIDE DEF a, b
<1>3. /\ parse_direct_queue(get_direct_queue(a, b)) = <<a, b>> <=> <<>> \notin {a, b} /\ Clean(a)
      /\ parse_direct_queue(get_direct_queue(a, b)) # NoName =>
           get_direct_queue(parse_direct_queue(get_direct_queue(a, b))[1],
                            parse_direct_queue(get_direct_queue(a, b))[2]) = get_direct_queue(a, b)
  BY <1>2, RoundTrip
<1>4. parse_inbox_queue(get_direct_queue(a, b)) = NoName
  BY <1>2, DirectIsNoInbox
<1>5. output = parse_direct_queue(get_direct_queue(a, b))
  BY <1>1 DEF a, b
<1> QED
  BY <1>2, <1>3, <1>4, <1>5 DEF NamesRoundTrip, a, b

\* A string in a field of the given size: whole if it fits, else its first part.
LEMMA FieldCuts ==
  ASSUME NEW size \in Nat \ {0}, NEW string \in Seq(Characters)
  PROVE  /\ Len(Field(size, string)) < size
         /\ Field(size, string) = SubSeq(string, 1, Len(Field(size, string)))
         /\ Len(string) < size => Field(size, string) = string
<1>1. Len(string) \in Nat
  OBVIOUS
<1>2. CASE Len(string) < size
  <2>1. Field(size, string) = SubSeq(string, 1, Len(string))
    BY <1>2 DEF Field
  <2>2. SubSeq(string, 1, Len(string)) = string
    OBVIOUS
  <2> QED
    BY <1>2, <2>1, <2>2
<1>3. CASE ~(Len(string) < size)
  <2>1. Field(size, string) = SubSeq(string, 1, size - 1)
    BY <1>3 DEF Field
  <2>2. size - 1 \in 0..Len(string)
    BY <1>1, <1>3
  <2>3. Len(SubSeq(string, 1, size - 1)) = size - 1
    BY <2>2
  <2> QED
    BY <1>3, <2>1, <2>3
<1> QED
  BY <1>2, <1>3

LEMMA PInvPrints == PInv => PrintsNamed
<1> SUFFICES ASSUME PInv, at = "printed"
             PROVE  /\ Len(args[1]) < MaxPathSize => output = <<args[1]>>
                    /\ output[1] = SubSeq(args[1], 1, Len(output[1]))
                    /\ Len(output[1]) < MaxPathSize
  BY DEF PrintsNamed
<1>1. output = <<Opened>> /\ \E p \in Paths : args = <<p>>
  BY DEF PInv, Printed
<1>2. args[1] \in Seq(Characters) /\ MaxPathSize \in Nat \ {0}
  BY <1>1, ProgramsAssumption, NamesAssumption
<1>3. Opened = Field(MaxPathSize, args[1])
  BY DEF Opened, to_file_job, from_file_job
<1>4. output[1] = Field(MaxPathSize, args[1])
  BY <1>1, <1>3
<1> QED
  BY <1>1, <1>2, <1>3, <1>4, FieldCuts

----------------------------------------------------------------------------
(* The service that a command names *)

CommandLine == {"initialize", "commands", "store", "notify", "check"}

\* The value of the option, when there is one, is what the user typed, ...
Typed ==
  /\ at \in CommandLine => args \in CommandLines
  /\ "service" \in DOMAIN options => options["service"] = "value"
  /\ "service" \in DOMAIN vm => vm["service"] \in Seq(Characters)

\* ... and the message holds as much of it as fits.
Sent ==
  at = "sent" /\ "service" \in DOMAIN vm =>
    message.service_name = Field(ServiceNameMaxLen, vm["service"])

SInv == Typed /\ Sent

LEMMA InitS == Init => SInv
<1> SUFFICES ASSUME Init PROVE SInv
  OBVIOUS
<1>1. at = IF program \in Daemons \union {"fika"} THEN "initialize" ELSE "main"
  BY DEF Init
<1>2. at = "initialize" => args \in CommandLines
  BY <1>1 DEF Init, Daemons, Workers, Services
<1>3. at \in {"initialize", "main"} /\ options = <<>> /\ vm = <<>>
  BY <1>1 DEF Init
<1>4. "service" \notin DOMAIN <<>>
  <2>1. <<>> \in Seq({}) /\ Len(<<>>) = 0
    OBVIOUS
  <2> QED
    BY <2>1
<1> QED
  BY <1>2, <1>3, <1>4 DEF SInv, Typed, Sent, CommandLine

\* An argument that is an option with a value is in the right place.
LEMMA ServiceValue ==
  ASSUME args \in CommandLines, Storable, "service" \in Given, options["service"] = "value"
  PROVE  ValueOf("service") \in Seq(Characters)
<1>1. PICK n \in 0..MaxArgs : args \in [1..n -> Arguments]
  BY DEF CommandLines
<1>2. \E i \in DOMAIN args : args[i].option = "service"
  BY DEF Given
<1> DEFINE i == CHOOSE i \in DOMAIN args : args[i].option = "service"
<1>3. i \in DOMAIN args /\ args[i].option = "service"
  BY <1>2
<1>4. ValueOf("service") = args[i].value
  BY DEF ValueOf
<1> HIDE DEF i
<1>5. args[i] \in Arguments /\ args[i].value # NoValue
  BY <1>1, <1>3 DEF Storable
<1> QED
  BY <1>3, <1>4, <1>5, ProgramsAssumption

LEMMA StepS == SInv /\ [Next]_vars => SInv'
<1> SUFFICES ASSUME SInv, [Next]_vars PROVE SInv'
  OBVIOUS
<1> USE DEF Keeps, machine, Become
<1>0. Typed /\ Sent
  BY DEF SInv
<1>1. CASE initialize
  <2>1. /\ options' = [o \in Flags |-> Kind(o)] /\ at' \in CommandLine
        /\ UNCHANGED <<args, vm>> /\ args \in CommandLines
    BY <1>0, <1>1 DEF initialize, Typed, CommandLine
  <2>2. "service" \notin Flags
    BY DEF Flags
  <2>3. CommandLines' = CommandLines /\ at' # "sent"
    BY <2>1 DEF CommandLine, CommandLines
  <2> QED
    BY <1>0, <2>1, <2>2, <2>3 DEF SInv, Typed, Sent
<1>2. CASE set_options_description
  <2>1. /\ options' = [o \in DOMAIN options \union command_description |-> Kind(o)]
        /\ at' = "store" /\ UNCHANGED <<args, vm>> /\ args \in CommandLines
    BY <1>0, <1>2 DEF set_options_description, Typed, CommandLine
  <2>2. Kind("service") = "value"
    BY DEF Kind
  <2>3. "service" \in DOMAIN options' => options'["service"] = "value"
    BY <2>1, <2>2
  <2> QED
    BY <1>0, <2>1, <2>3 DEF SInv, Typed, Sent, CommandLine
<1>3. CASE Store
  <2>1. args \in CommandLines /\ UNCHANGED <<args, options>> /\ at' \in {"notify", "usage"}
    BY <1>0, <1>3 DEF Store, Typed, CommandLine
  <2>2. ASSUME "service" \in DOMAIN vm' PROVE vm'["service"] \in Seq(Characters)
    <3>1. CASE ~Storable
      BY <1>0, <1>3, <2>2, <3>1 DEF Store, Typed
    <3>2. CASE Storable
      <4> DEFINE kept == Given \union {s \in DOMAIN options : options[s] = "switch"}
      <4>1. vm' = [o \in kept |-> IF options[o] = "switch" THEN o \in Given ELSE ValueOf(o)]
        BY <1>3, <3>2 DEF Store
      <4>2. "service" \in kept
        BY <2>2, <4>1
      <4>3. "service" \in DOMAIN options /\ options["service"] = "value"
        BY <1>0, <3>2, <4>2 DEF Storable, Typed
      <4>4. "service" \in Given
        BY <4>2, <4>3
      <4>5. vm'["service"] = ValueOf("service")
        BY <4>1, <4>2, <4>3
      <4> QED
        BY <2>1, <3>2, <4>3, <4>4, <4>5, ServiceValue
    <3> QED
      BY <3>1, <3>2
  <2> QED
    BY <1>0, <2>1, <2>2 DEF SInv, Typed, Sent
<1>4. CASE Notify \/ HelpOrVersion
  <2>1. /\ args \in CommandLines /\ UNCHANGED <<args, options, vm>>
        /\ at' \in {"usage", "check", "main"}
    BY <1>0, <1>4 DEF Notify, HelpOrVersion, Typed, CommandLine
  <2> QED
    BY <1>0, <2>1 DEF SInv, Typed, Sent
<1>5. CASE parse_command_line
  <2>1. UNCHANGED <<args, options, vm>> /\ at' \in {"sent", "rejected"}
    BY <1>5 DEF parse_command_line
  <2>2. ASSUME at' = "sent", "service" \in DOMAIN vm
        PROVE  message'.service_name = Field(ServiceNameMaxLen, vm["service"])
    BY <1>5, <2>2 DEF parse_command_line, CommandMessage
  <2> QED
    BY <1>0, <2>1, <2>2 DEF SInv, Typed, Sent, CommandLine
<1>6. CASE CreateAndLock \/ load \/ CreateQueues \/ OpenReceiver \/ OpenSenders \/ ParsePdf \/ Resolve
  <2>1. /\ UNCHANGED <<args, options, vm>>
        /\ at' \in {"locked_out", "prepare", "create", "aborted", "serving", "open", "failed",
                    "usage", "printed", "resolved"}
    BY <1>6 DEF CreateAndLock, load, CreateQueues, OpenReceiver, OpenSenders, ParsePdf, Resolve
  <2> QED
    BY <1>0, <2>1 DEF SInv, Typed, Sent, CommandLine
<1>7. CASE UNCHANGED vars
  BY <1>0, <1>7 DEF vars, SInv, Typed, Sent, CommandLines
<1> QED
  BY <1>1, <1>2, <1>3, <1>4, <1>5, <1>6, <1>7 DEF Next, Ended

\* The field of a message holds a worker's name only if it is whole, and it is
\* empty only if no service was named.
LEMMA FieldAddresses ==
  ASSUME NEW service \in Seq(Characters)
  PROVE  Addressed(Field(ServiceNameMaxLen, service)) \subseteq Addressed(service)
<1> DEFINE n == ServiceNameMaxLen
           field == Field(n, service)
<1>1. n \in Nat \ {0} /\ Len(service) \in Nat
  BY NamesAssumption
<1>2. CASE Len(service) < n
  BY <1>1, <1>2, FieldCuts
<1>3. CASE ~(Len(service) < n)
  <2>1. field = SubSeq(service, 1, n - 1) /\ n - 1 \in 0..Len(service)
    BY <1>1, <1>3 DEF Field
  <2>2. Len(field) = n - 1
    BY <2>1
  <2> HIDE DEF n, field
  <2>3. ASSUME NEW w \in Workers PROVE field \notin {<<>>, Spell(w)}
    <3>1. Spell(w) \in Seq(Characters) /\ Len(Spell(w)) < n - 1
      BY WorkersFit DEF n
    <3>2. Len(Spell(w)) \in Nat
      BY <3>1, LenProperties
    <3>3. Len(field) # 0 /\ Len(field) # Len(Spell(w))
      BY <1>1, <2>2, <3>1, <3>2
    <3> QED
      BY <3>3
  <2>4. Addressed(field) = {}
    BY <2>3 DEF Addressed
  <2> QED
    BY <2>4 DEF field, n
<1> QED
  BY <1>2, <1>3

LEMMA SInvReaches == SInv => ReachesOnlyNamed
<1> SUFFICES ASSUME SInv, at = "sent", "service" \in DOMAIN vm
             PROVE  Addressed(message.service_name) \subseteq Addressed(vm["service"])
  BY DEF ReachesOnlyNamed
<1>1. vm["service"] \in Seq(Characters)
      /\ message.service_name = Field(ServiceNameMaxLen, vm["service"])
  BY DEF SInv, Typed, Sent
<1> QED
  BY <1>1, FieldAddresses

----------------------------------------------------------------------------
(* Theorems *)

\* A command for a named service reaches that service or none, however long
\* the name and whatever its characters (commands.h:50, supervisor.cpp:71), as
\* no worker's name fills the field.
THEOREM ReachesOnlyNamedAlways == Spec => []ReachesOnlyNamed
BY InitS, StepS, SInvReaches, PTL DEF Spec

LEMMA PInvAlways == Spec => []PInv
BY InitP, StepP, PTL DEF Spec

\* Whatever its command line, no program serves, or gets near it, without the
\* lock on its pid file (main.cpp of the supervisor and of the workers).
THEOREM TypeOKAlways == Spec => []TypeOK
<1>1. PInv => TypeOK
  BY DEF PInv
<1> QED
  BY <1>1, PInvAlways, PTL

\* A service that has started receives where the supervisor sends its stop
\* jobs and sends where its destinations receive, on any machine: the names
\* that the mains spell out one by one agree.  That a name resolves to its
\* ends follows from WorkersFit and RoundTrip.
THEOREM WiredTogetherAlways == Spec => []WiredTogether
BY PInvAlways, PInvWires, PTL

\* The PDF parser prints the document that was named if its path fits the
\* record, and else one that the first characters of the path name, for any
\* path and any size of the record's field (file_job.cpp:38).
THEOREM PrintsNamedAlways == Spec => []PrintsNamed
BY PInvAlways, PInvPrints, PTL

\* A supervisor beside another, with a wrong command line or without its
\* configuration leaves the queues alone (supervisor/main.cpp:48-82): they
\* change only under the lock.
THEOREM OnlyOwnerResetsAlways == Spec => OnlyOwnerResets
<1>1. PInv /\ [Next]_vars => [queues' # queues => locked /\ locked']_vars
  <2> SUFFICES ASSUME PInv, [Next]_vars, queues' # queues PROVE locked /\ locked'
    OBVIOUS
  <2>1. CreateQueues
    BY DEF vars, Next, Keeps, initialize, set_options_description, Store, Notify, HelpOrVersion,
           parse_command_line, CreateAndLock, load, OpenReceiver, OpenSenders, ParsePdf,
           Resolve, Ended
  <2> QED
    BY <2>1 DEF CreateQueues, Keeps, PInv, Phased
<1> QED
  BY <1>1, PInvAlways, PTL DEF Spec, OnlyOwnerResets

\* The name of a direct queue leads back to its two ends exactly when both have
\* a name and the sender's does not hold the separator or end across it, for
\* names of any characters and any length; what is found is spelled the same
\* again, and is never an inbox (qn_rslv.cpp:32).
THEOREM NamesRoundTripAlways == Spec => []NamesRoundTrip
BY PInvAlways, PInvResolves, PTL
=============================================================================
