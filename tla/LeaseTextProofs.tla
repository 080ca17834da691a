--------------------------- MODULE LeaseTextProofs ---------------------------
(***************************************************************************)
(* What is loaded is what was saved, for any number of clients, whatever   *)
(* they call themselves and whatever line an administrator adds.           *)
(***************************************************************************)
EXTENDS LeaseText, SequenceTheorems, FiniteSetTheorems, WellFoundedInduction, TLAPS

-----------------------------------------------------------------------------
(***************************************************************************)
(* Positions.                                                              *)
(***************************************************************************)
LEMMA Least ==
    ASSUME NEW P, P \subseteq Nat, P # {}
    PROVE  Ext!Min(P) \in P /\ \A n \in P : Ext!Min(P) <= n
<1>1. PICK m \in P : \A k \in P : ~(<<k, m>> \in OpToRel(<, Nat))
  BY NatLessThanWellFounded, WFMin
<1>2. ASSUME NEW k \in P PROVE m <= k
  <2>1. k < m => <<k, m>> \in OpToRel(<, Nat)
    BY DEF OpToRel
  <2>2. ~(k < m)
    BY <1>1, <2>1, Zenon
  <2> QED
    BY <2>2
<1> QED
  BY <1>2 DEF Ext!Min

LEMMA LeastIsThat ==
    ASSUME NEW P, P \subseteq Nat, NEW m \in P, \A n \in P : m <= n
    PROVE  Ext!Min(P) = m
<1>1. Ext!Min(P) \in P /\ Ext!Min(P) <= m
  BY Least
<1>2. m <= Ext!Min(P) /\ Ext!Min(P) \in Nat /\ m \in Nat
  BY <1>1
<1> QED
  BY <1>1, <1>2

LEMMA Greatest ==
    ASSUME NEW n \in Nat, NEW P, P \subseteq 1 .. n, P # {}
    PROVE  Ext!Max(P) \in P /\ \A k \in P : k <= Ext!Max(P)
<1> DEFINE mirror == {n - k : k \in P}
<1>1. mirror \subseteq Nat
  BY \A k \in P : k \in 1 .. n
<1>2. mirror # {}
  OBVIOUS
<1> HIDE DEF mirror
<1>3. PICK m \in mirror : \A k \in mirror : m <= k
  BY <1>1, <1>2, Least
<1>4. PICK top \in P : m = n - top
  BY DEF mirror
<1>5. ASSUME NEW k \in P PROVE top >= k
  <2>1. n - k \in mirror
    BY DEF mirror
  <2>2. n - top <= n - k /\ k \in 1 .. n /\ top \in 1 .. n
    BY <1>3, <1>4, <2>1
  <2> QED
    BY <2>2
<1> QED
  BY <1>5 DEF Ext!Max

LEMMA GreatestIsThat ==
    ASSUME NEW n \in Nat, NEW P, P \subseteq 1 .. n, NEW m \in P, \A k \in P : k <= m
    PROVE  Ext!Max(P) = m
<1>1. Ext!Max(P) \in P /\ m <= Ext!Max(P)
  BY Greatest
<1>2. Ext!Max(P) <= m /\ Ext!Max(P) \in 1 .. n /\ m \in 1 .. n
  BY <1>1
<1> QED
  BY <1>1, <1>2

(* A set of positions that is closed under the next one.                   *)
LEMMA Upward ==
    ASSUME NEW n \in Nat, NEW P, 1 \in P, \A k \in 1 .. n - 1 : k \in P => k + 1 \in P
    PROVE  1 .. n \subseteq P
<1> DEFINE bad == (1 .. n) \ P
<1>1. SUFFICES ASSUME bad # {} PROVE FALSE
  OBVIOUS
<1>0. bad \subseteq Nat
  OBVIOUS
<1>2. PICK m \in bad : \A k \in bad : m <= k
  <2> HIDE DEF bad
  <2> QED
    BY <1>0, <1>1, Least
<1>3. m - 1 \in 1 .. n - 1 /\ m - 1 \in P
  BY <1>2
<1> QED
  BY <1>2, <1>3

-----------------------------------------------------------------------------
(***************************************************************************)
(* Finding and skipping.                                                   *)
(***************************************************************************)
FoundAt(s, from, c, f) ==
    /\ f \in from .. Len(s) + 1
    /\ f = Len(s) + 1 \/ s[f] = c
    /\ \A k \in from .. f - 1 : s[k] # c

SkippedTo(s, from, c, f) ==
    /\ f \in from .. Len(s) + 1
    /\ f = Len(s) + 1 \/ s[f] # c
    /\ \A k \in from .. f - 1 : s[k] = c

LEMMA Found ==
    ASSUME NEW S, NEW s \in Seq(S), NEW from \in 1 .. Len(s) + 1, NEW c
    PROVE  FoundAt(s, from, c, Find(s, from, c))
<1> DEFINE P == {i \in from .. Len(s) + 1 : i = Len(s) + 1 \/ s[i] = c}
<1>1. P \subseteq Nat /\ Len(s) + 1 \in P
  OBVIOUS
<1>2. Ext!Min(P) \in P /\ \A n \in P : Ext!Min(P) <= n
  <2> HIDE DEF P
  <2> QED
    BY <1>1, Least
<1>3. Find(s, from, c) = Ext!Min(P)
  BY DEF Find
<1> DEFINE f == Ext!Min(P)
<1>4. f \in from .. Len(s) + 1 /\ (f = Len(s) + 1 \/ s[f] = c)
  BY <1>2
<1>5. \A k \in from .. Len(s) : s[k] = c => f <= k
  BY <1>2
<1> HIDE DEF f
<1>6. \A k \in from .. f - 1 : s[k] # c
  BY <1>4, <1>5
<1> QED
  BY <1>3, <1>4, <1>6 DEF FoundAt, f

LEMMA FoundThere ==
    ASSUME NEW S, NEW s \in Seq(S), NEW from \in 1 .. Len(s) + 1, NEW c, NEW f,
           FoundAt(s, from, c, f)
    PROVE  Find(s, from, c) = f
<1>1. FoundAt(s, from, c, Find(s, from, c))
  BY Found
<1> QED
  BY <1>1 DEF FoundAt

LEMMA SkippedThere ==
    ASSUME NEW S, NEW s \in Seq(S), NEW from \in 1 .. Len(s) + 1, NEW c, NEW f,
           SkippedTo(s, from, c, f)
    PROVE  Skip(s, from, c) = f
<1> DEFINE P == {i \in from .. Len(s) + 1 : i = Len(s) + 1 \/ s[i] # c}
<1>1. P \subseteq Nat /\ f \in P /\ \A n \in P : f <= n
  BY DEF SkippedTo
<1>2. Ext!Min(P) = f
  <2> HIDE DEF P
  <2> QED
    BY <1>1, LeastIsThat
<1> QED
  BY <1>2 DEF Skip

LEMMA Skips ==
    ASSUME NEW S, NEW s \in Seq(S), NEW from \in 1 .. Len(s) + 1, NEW c
    PROVE  SkippedTo(s, from, c, Skip(s, from, c))
<1> DEFINE P == {i \in from .. Len(s) + 1 : i = Len(s) + 1 \/ s[i] # c}
<1>1. P \subseteq Nat /\ Len(s) + 1 \in P
  OBVIOUS
<1>2. Ext!Min(P) \in P /\ \A n \in P : Ext!Min(P) <= n
  <2> HIDE DEF P
  <2> QED
    BY <1>1, Least
<1>3. Skip(s, from, c) = Ext!Min(P)
  BY DEF Skip
<1> DEFINE f == Ext!Min(P)
<1>4. f \in from .. Len(s) + 1 /\ (f = Len(s) + 1 \/ s[f] # c)
  BY <1>2
<1>5. \A k \in from .. Len(s) : s[k] # c => f <= k
  BY <1>2
<1> HIDE DEF f
<1>6. \A k \in from .. f - 1 : s[k] = c
  BY <1>4, <1>5
<1> QED
  BY <1>3, <1>4, <1>6 DEF SkippedTo, f

-----------------------------------------------------------------------------
(***************************************************************************)
(* Lines.                                                                  *)
(***************************************************************************)
Whole(s) == s = <<>> \/ s[Len(s)] = NewLine

(* The text, character by character, with one line more at its end.        *)
LEMMA Joined ==
    ASSUME NEW S, NEW s \in Seq(S), NEW line \in Seq(S), NewLine \in S
    PROVE  LET t == s \o line \o <<NewLine>>
           IN  /\ t \in Seq(S) /\ Len(t) = Len(s) + Len(line) + 1
               /\ \A k \in 1 .. Len(s) : t[k] = s[k]
               /\ \A k \in 1 .. Len(line) : t[Len(s) + k] = line[k]
               /\ t[Len(t)] = NewLine
<1>1. s \o line \in Seq(S) /\ <<NewLine>> \in Seq(S) /\ Len(<<NewLine>>) = 1
  OBVIOUS
<1> QED
  BY <1>1, ConcatProperties

(* The same part of two texts that agree there.                            *)
LEMMA SamePart ==
    ASSUME NEW S, NEW s \in Seq(S), NEW t \in Seq(S), NEW m \in Int, NEW n \in Int, NEW d \in Int,
           1 <= m, n <= Len(s), \A k \in m .. n : s[k] = t[k + d]
    PROVE  SubSeq(s, m, n) = SubSeq(t, m + d, n + d)
<1>1. \A k \in m .. n : s[k] \in S
  BY ElementOfSeq
<1>2. \A k \in m + d .. n + d : t[k] \in S
  <2>1. ASSUME NEW k \in m + d .. n + d PROVE t[k] \in S
    <3>1. k - d \in m .. n /\ (k - d) + d = k
      OBVIOUS
    <3> QED
      BY <1>1, <3>1
  <2> QED
    BY <2>1
<1>3. m + d \in Int /\ n + d \in Int
  OBVIOUS
<1> DEFINE a == SubSeq(s, m, n)  b == SubSeq(t, m + d, n + d)
<1>4. /\ a \in Seq(S) /\ Len(a) = IF m <= n THEN n - m + 1 ELSE 0
      /\ \A i \in 1 .. n - m + 1 : a[i] = s[m + i - 1]
  <2>1. m \in Int /\ n \in Int
    OBVIOUS
  <2> QED
    BY ONLY <1>1, <2>1, SubSeqProperties
<1>5. /\ b \in Seq(S) /\ Len(b) = IF m + d <= n + d THEN (n + d) - (m + d) + 1 ELSE 0
      /\ \A i \in 1 .. (n + d) - (m + d) + 1 : b[i] = t[m + d + i - 1]
  BY <1>2, <1>3, SubSeqProperties
<1> HIDE DEF a, b
<1>6. Len(a) = Len(b)
  BY <1>4, <1>5
<1>7. ASSUME NEW i \in 1 .. Len(a) PROVE a[i] = b[i]
  <2>1. i \in 1 .. n - m + 1 /\ i \in 1 .. (n + d) - (m + d) + 1 /\ m + i - 1 \in m .. n
    BY <1>4
  <2>2. (m + i - 1) + d = m + d + i - 1
    BY <2>1
  <2> QED
    BY <1>4, <1>5, <2>1, <2>2
<1>8. a = b
  BY <1>4, <1>5, <1>6, <1>7, SeqEqual
<1> QED
  BY <1>8 DEF a, b

(* A line behind a whole text is a line of its own, and changes no other.  *)
LEMMA LineAppended ==
    ASSUME NEW S, NEW s \in Seq(S), NEW line \in Seq(S), NewLine \in S,
           Whole(s), Lacks(line, NewLine)
    PROVE  LET t == s \o line \o <<NewLine>>
           IN  /\ LineStarts(t) = LineStarts(s) \cup {Len(s) + 1}
               /\ Line(t, Len(s) + 1) = line
               /\ \A i \in LineStarts(s) : Line(t, i) = Line(s, i)
<1> DEFINE t == s \o line \o <<NewLine>>  n == Len(s)  l == Len(line)
<1>1. /\ t \in Seq(S) /\ Len(t) = n + l + 1
      /\ \A k \in 1 .. n : t[k] = s[k]
      /\ \A k \in 1 .. l : t[n + k] = line[k]
      /\ t[n + l + 1] = NewLine
  BY Joined
<1>2. n \in Nat /\ l \in Nat /\ (n = 0 \/ s[n] = NewLine) /\ \A k \in 1 .. l : line[k] # NewLine
  BY EmptySeq, LenProperties DEF Whole, Lacks
<1>n. n = Len(s) /\ l = Len(line)
  OBVIOUS
<1> HIDE DEF t, n, l
<1>3. LineStarts(t) = LineStarts(s) \cup {n + 1}
  <2>1. ASSUME NEW i \in 1 .. n PROVE i \in LineStarts(t) <=> i \in LineStarts(s)
    <3>1. i # 1 => t[i - 1] = s[i - 1]
      BY <1>1, <1>2
    <3> QED
      BY <1>1, <1>2, <1>n, <3>1 DEF LineStarts
  <2>2. n + 1 \in LineStarts(t)
    BY <1>1, <1>2 DEF LineStarts
  <2>3. ASSUME NEW i \in n + 2 .. n + l + 1 PROVE i \notin LineStarts(t)
    <3>1. PICK k \in 1 .. l : n + k = i - 1
      <4>1. i - 1 - n \in 1 .. l /\ n + (i - 1 - n) = i - 1
        <5>1. n \in Nat /\ l \in Nat
          BY <1>2
        <5> QED
          BY <5>1
      <4> QED
        BY <4>1
    <3>2. t[n + k] # NewLine
      BY <1>1, <1>2
    <3>3. t[i - 1] # NewLine
      BY <3>1, <3>2
    <3> QED
      BY <1>2, <3>3 DEF LineStarts
  <2>4. LineStarts(t) \subseteq 1 .. n + l + 1 /\ LineStarts(s) \subseteq 1 .. n
    BY <1>1, <1>n DEF LineStarts
  <2> QED
    BY <1>2, <2>1, <2>2, <2>3, <2>4
<1>4. Line(t, n + 1) = line
  <2>1. ASSUME NEW k \in n + 1 .. n + l PROVE t[k] # NewLine
    <3>1. PICK i \in 1 .. l : n + i = k
      <4>1. k - n \in 1 .. l /\ n + (k - n) = k
        BY <1>2
      <4> QED
        BY <4>1
    <3>2. t[n + i] = line[i] /\ line[i] # NewLine
      BY <1>1, <1>2
    <3> QED
      BY <3>1, <3>2
  <2>2. FoundAt(t, n + 1, NewLine, n + l + 1)
    BY <1>1, <1>2, <2>1 DEF FoundAt
  <2>3. n + 1 \in 1 .. Len(t) + 1
    BY <1>1, <1>2
  <2>4. Find(t, n + 1, NewLine) = n + l + 1
    BY <1>1, <2>2, <2>3, FoundThere
  <2>5. SubSeq(line, 1, l) = SubSeq(t, 1 + n, l + n)
    <3>1. \A k \in 1 .. l : line[k] = t[k + n]
      BY <1>1, <1>2
    <3>2. 1 <= 1 /\ l <= Len(line) /\ 1 \in Int /\ l \in Int /\ n \in Int
      BY <1>2, <1>n
    <3> QED
      BY <1>1, <3>1, <3>2, SamePart
  <2>6. SubSeq(line, 1, l) = line
    BY <1>n, SubSeqFull
  <2>7. (n + l + 1) - 1 = l + n /\ n + 1 = 1 + n
    BY <1>2
  <2> QED
    BY <2>4, <2>5, <2>6, <2>7 DEF Line
<1>5. ASSUME NEW i \in LineStarts(s) PROVE Line(t, i) = Line(s, i)
  <2>1. i \in 1 .. n
    BY <1>n DEF LineStarts
  <2> DEFINE f == Find(s, i, NewLine)
  <2>2. FoundAt(s, i, NewLine, f)
    BY <1>n, <1>2, <2>1, Found
  <2> HIDE DEF f
  <2>3. f \in i .. n /\ s[f] = NewLine
    BY <1>n, <1>2, <2>1, <2>2 DEF FoundAt
  <2>4. FoundAt(t, i, NewLine, f)
    <3>1. \A k \in i .. f - 1 : k \in 1 .. n /\ s[k] # NewLine
      BY <1>2, <2>1, <2>2, <2>3 DEF FoundAt
    <3>2. \A k \in i .. f - 1 : t[k] # NewLine
      BY <1>1, <3>1
    <3>3. f \in 1 .. n
      BY <1>2, <2>1, <2>3
    <3>4. t[f] = NewLine /\ f \in i .. Len(t) + 1
      BY <1>1, <1>2, <2>3, <3>3
    <3> QED
      BY <3>2, <3>4 DEF FoundAt
  <2>5. i \in 1 .. Len(t) + 1
    BY <1>1, <1>2, <2>1
  <2>6. Find(t, i, NewLine) = f
    BY <1>1, <2>4, <2>5, FoundThere
  <2>7. SubSeq(s, i, f - 1) = SubSeq(t, i + 0, (f - 1) + 0)
    <3>1. \A k \in i .. f - 1 : s[k] = t[k + 0]
      BY <1>1, <1>2, <2>1, <2>3
    <3>2. 1 <= i /\ f - 1 <= Len(s) /\ i \in Int /\ f - 1 \in Int /\ 0 \in Int
      BY <1>2, <1>n, <2>1, <2>3
    <3> QED
      BY <1>1, <3>1, <3>2, SamePart
  <2>8. i + 0 = i /\ (f - 1) + 0 = f - 1
    BY <2>1, <2>3
  <2> QED
    BY <2>6, <2>7, <2>8 DEF Line, f
<1> QED
  BY <1>3, <1>4, <1>5 DEF t, n

(* A line before a text moves the others and changes none.                 *)
LEMMA LinePrepended ==
    ASSUME NEW S, NEW s \in Seq(S), NEW line \in Seq(S), NewLine \in S, Lacks(line, NewLine)
    PROVE  LET t == line \o <<NewLine>> \o s
               d == Len(line) + 1
           IN  /\ LineStarts(t) = {1} \cup {i + d : i \in LineStarts(s)}
               /\ Line(t, 1) = line
               /\ \A i \in LineStarts(s) : Line(t, i + d) = Line(s, i)
<1> DEFINE t == line \o <<NewLine>> \o s  n == Len(s)  l == Len(line)  d == l + 1
<1>0. /\ <<NewLine>> \in Seq(S) /\ Len(<<NewLine>>) = 1 /\ <<NewLine>>[1] = NewLine
      /\ n \in Nat /\ l \in Nat
  OBVIOUS
<1> DEFINE first == line \o <<NewLine>>
<1>a. /\ first \in Seq(S) /\ Len(first) = d
      /\ \A k \in 1 .. l : first[k] = line[k]
      /\ first[d] = NewLine
  BY <1>0, ConcatProperties
<1>b. /\ t \in Seq(S) /\ Len(t) = d + n
      /\ \A k \in 1 .. d : t[k] = first[k]
      /\ \A k \in 1 .. n : t[d + k] = s[k]
  <2> HIDE DEF first
  <2>1. (first \o s) \in Seq(S) /\ Len(first \o s) = Len(first) + Len(s)
        /\ \A i \in 1 .. Len(first) + Len(s) :
              (first \o s)[i] = IF i <= Len(first) THEN first[i] ELSE s[i - Len(first)]
    BY <1>a, ConcatProperties
  <2>2. t = first \o s
    BY DEF first
  <2> HIDE DEF t
  <2>3. \A k \in 1 .. n : d + k \in 1 .. d + n /\ ~(d + k <= d) /\ (d + k) - d = k
    BY <1>0
  <2> QED
    BY <1>0, <1>a, <2>1, <2>2, <2>3
<1>1. /\ t \in Seq(S) /\ Len(t) = n + d
      /\ \A k \in 1 .. l : t[k] = line[k]
      /\ t[d] = NewLine
      /\ \A k \in 1 .. n : t[k + d] = s[k]
  <2> HIDE DEF t, first
  <2> QED
    BY <1>0, <1>a, <1>b
<1>2. n \in Nat /\ l \in Nat /\ d = l + 1 /\ \A k \in 1 .. l : line[k] # NewLine
  BY LenProperties DEF Lacks
<1>n. n = Len(s) /\ l = Len(line)
  OBVIOUS
<1> HIDE DEF t, n, l, d, first
<1>3. LineStarts(t) = {1} \cup {i + d : i \in LineStarts(s)}
  <2>1. ASSUME NEW i \in 1 .. n PROVE i + d \in LineStarts(t) <=> i \in LineStarts(s)
    <3>1. i # 1 => t[(i + d) - 1] = s[i - 1]
      <4>1. i # 1 => i - 1 \in 1 .. n /\ (i - 1) + d = (i + d) - 1
        BY <1>2
      <4> QED
        BY <1>1, <4>1
    <3>2. i = 1 => t[(i + d) - 1] = NewLine
      BY <1>1, <1>2
    <3>3. i + d \in 1 .. n + d /\ i + d # 1
      BY <1>2
    <3> QED
      BY <1>1, <1>2, <1>n, <3>1, <3>2, <3>3 DEF LineStarts
  <2>2. 1 \in LineStarts(t)
    BY <1>1, <1>2 DEF LineStarts
  <2>3. ASSUME NEW i \in 2 .. d PROVE i \notin LineStarts(t)
    <3>1. t[i - 1] # NewLine
      BY <1>1, <1>2
    <3> QED
      BY <1>2, <3>1 DEF LineStarts
  <2>4. LineStarts(t) \subseteq 1 .. n + d /\ LineStarts(s) \subseteq 1 .. n
    BY <1>1, <1>n DEF LineStarts
  <2>5. ASSUME NEW j \in LineStarts(t), j # 1 PROVE \E i \in LineStarts(s) : j = i + d
    <3>1. j - d \in 1 .. n /\ (j - d) + d = j
      BY <1>2, <2>3, <2>4, <2>5
    <3> QED
      BY <2>1, <2>5, <3>1
  <2>6. \A i \in LineStarts(s) : i + d \in LineStarts(t)
    BY <2>1, <2>4
  <2> QED
    BY <2>2, <2>5, <2>6
<1>4. Line(t, 1) = line
  <2>1. FoundAt(t, 1, NewLine, d)
    BY <1>1, <1>2 DEF FoundAt
  <2>2. Find(t, 1, NewLine) = d
    BY <1>1, <1>2, <2>1, FoundThere
  <2>3. SubSeq(line, 1, l) = SubSeq(t, 1 + 0, l + 0)
    <3>1. \A k \in 1 .. l : line[k] = t[k + 0]
      BY <1>1, <1>2
    <3> QED
      BY <1>1, <1>2, <1>n, <3>1, SamePart
  <2>4. SubSeq(line, 1, l) = line
    BY <1>n, SubSeqFull
  <2>5. 1 + 0 = 1 /\ l + 0 = d - 1
    BY <1>2
  <2> QED
    BY <2>2, <2>3, <2>4, <2>5 DEF Line
<1>5. ASSUME NEW i \in LineStarts(s) PROVE Line(t, i + d) = Line(s, i)
  <2>1. i \in 1 .. n
    BY <1>n DEF LineStarts
  <2> DEFINE f == Find(s, i, NewLine)
  <2>2. FoundAt(s, i, NewLine, f)
    BY <1>n, <1>2, <2>1, Found
  <2> HIDE DEF f
  <2>3. f \in i .. n + 1 /\ (f = n + 1 \/ s[f] = NewLine) /\ \A k \in i .. f - 1 : s[k] # NewLine
    BY <1>n, <2>2 DEF FoundAt
  <2>4. FoundAt(t, i + d, NewLine, f + d)
    <3>1. f + d \in i + d .. (n + d) + 1
      BY <1>2, <2>1, <2>3
    <3>2. f + d = (n + d) + 1 \/ t[f + d] = NewLine
      <4>1. f # n + 1 => f \in 1 .. n
        BY <1>2, <2>1, <2>3
      <4>2. f \in 1 .. n => t[f + d] = s[f]
        BY <1>1
      <4>3. f = n + 1 => f + d = (n + d) + 1
        BY <1>2
      <4> QED
        BY <2>3, <4>1, <4>2, <4>3
    <3>3. ASSUME NEW k \in i + d .. (f + d) - 1 PROVE t[k] # NewLine
      <4>1. k - d \in i .. f - 1 /\ k - d \in 1 .. n /\ (k - d) + d = k
        BY <1>2, <2>1, <2>3
      <4> QED
        BY <1>1, <2>3, <4>1
    <3> QED
      BY <1>1, <3>1, <3>2, <3>3 DEF FoundAt
  <2>5. i + d \in 1 .. Len(t) + 1
    BY <1>1, <1>2, <2>1
  <2>6. Find(t, i + d, NewLine) = f + d
    BY <1>1, <2>4, <2>5, FoundThere
  <2>7. SubSeq(s, i, f - 1) = SubSeq(t, i + d, (f - 1) + d)
    <3>1. \A k \in i .. f - 1 : s[k] = t[k + d]
      BY <1>1, <1>2, <2>1, <2>3
    <3>2. 1 <= i /\ f - 1 <= Len(s) /\ i \in Int /\ f - 1 \in Int /\ d \in Int
      BY <1>2, <1>n, <2>1, <2>3
    <3>3. t \in Seq(S)
      BY <1>1
    <3>4. PICK last \in Int : last = f - 1
      BY <3>2
    <3>5. last <= Len(s) /\ \A k \in i .. last : s[k] = t[k + d]
      BY <3>1, <3>2, <3>4
    <3>6. SubSeq(s, i, last) = SubSeq(t, i + d, last + d)
      BY ONLY s \in Seq(S), <3>2, <3>3, <3>5, SamePart
    <3> QED
      BY <3>4, <3>6
  <2>8. (f - 1) + d = (f + d) - 1
    BY <1>2, <2>1, <2>3
  <2> QED
    BY <2>6, <2>7, <2>8 DEF Line, f
<1> QED
  BY <1>3, <1>4, <1>5 DEF t, d, l

-----------------------------------------------------------------------------
(***************************************************************************)
(* Loading one line more.                                                  *)
(***************************************************************************)
LEMMA LoadedIsMap ==
    ASSUME NEW at
    PROVE  /\ \A mac : mac \in DOMAIN Loaded(at) <=> LinesOf(at, mac) # {}
           /\ \A mac \in DOMAIN Loaded(at) :
                 Loaded(at)[mac] = parse_line(at[Ext!Max(LinesOf(at, mac))])
           /\ Loaded(at) = [mac \in DOMAIN Loaded(at) |-> Loaded(at)[mac]]
<1> DEFINE M == {MacOf(at[i]) : i \in {j \in DOMAIN at : IsLease(at[j])}}
<1>1. Loaded(at) = [mac \in M |-> parse_line(at[Ext!Max(LinesOf(at, mac))])]
  BY DEF Loaded
<1>2. ASSUME NEW mac PROVE mac \in M <=> LinesOf(at, mac) # {}
  <2>1. mac \in M <=> \E i \in DOMAIN at : IsLease(at[i]) /\ MacOf(at[i]) = mac
    OBVIOUS
  <2>2. LinesOf(at, mac) # {} <=> \E i \in DOMAIN at : IsLease(at[i]) /\ MacOf(at[i]) = mac
    BY DEF LinesOf
  <2> QED
    BY <2>1, <2>2
<1> HIDE DEF M
<1> QED
  BY <1>1, <1>2

(* The map that loaded2 is, in terms of loaded: with one entry replaced or *)
(* added, or as it was.                                                    *)
LEMMA LaterLine ==
    ASSUME NEW n \in Nat, NEW at, NEW at2, DOMAIN at \subseteq 1 .. n,
           DOMAIN at2 = DOMAIN at \cup {n + 1}, \A i \in DOMAIN at : at2[i] = at[i]
    PROVE  Loaded(at2) = IF IsLease(at2[n + 1])
                         THEN Put(Loaded(at), MacOf(at2[n + 1]), parse_line(at2[n + 1]))
                         ELSE Loaded(at)
<1> DEFINE new == at2[n + 1]  m == MacOf(new)
<1>1. \A mac : LinesOf(at, mac) \subseteq DOMAIN at
  BY DEF LinesOf
<1>2. n + 1 \notin DOMAIN at
  OBVIOUS
<1>3. ASSUME NEW mac
      PROVE  LinesOf(at2, mac) = IF IsLease(new) /\ mac = m THEN LinesOf(at, mac) \cup {n + 1}
                                 ELSE LinesOf(at, mac)
  BY <1>2 DEF LinesOf
<1>4. ASSUME NEW mac, LinesOf(at, mac) # {}
      PROVE  /\ Ext!Max(LinesOf(at, mac)) \in DOMAIN at
             /\ at2[Ext!Max(LinesOf(at, mac))] = at[Ext!Max(LinesOf(at, mac))]
  BY <1>1, <1>4, Greatest
<1>5. LinesOf(at2, m) = LinesOf(at, m) \cup {n + 1} => Ext!Max(LinesOf(at2, m)) = n + 1
  <2>1. LinesOf(at, m) \cup {n + 1} \subseteq 1 .. n + 1
    BY <1>1
  <2>2. \A k \in LinesOf(at, m) \cup {n + 1} : k <= n + 1
    BY <1>1
  <2>3. Ext!Max(LinesOf(at, m) \cup {n + 1}) = n + 1
    BY <2>1, <2>2, GreatestIsThat
  <2> QED
    BY <2>3
<1>6. \A mac : mac \in DOMAIN Loaded(at) <=> LinesOf(at, mac) # {}
  BY LoadedIsMap
<1>7. \A mac : mac \in DOMAIN Loaded(at2) <=> LinesOf(at2, mac) # {}
  BY LoadedIsMap
<1>8. /\ \A mac \in DOMAIN Loaded(at) :
            Loaded(at)[mac] = parse_line(at[Ext!Max(LinesOf(at, mac))])
      /\ \A mac \in DOMAIN Loaded(at2) :
            Loaded(at2)[mac] = parse_line(at2[Ext!Max(LinesOf(at2, mac))])
      /\ Loaded(at) = [mac \in DOMAIN Loaded(at) |-> Loaded(at)[mac]]
      /\ Loaded(at2) = [mac \in DOMAIN Loaded(at2) |-> Loaded(at2)[mac]]
  BY LoadedIsMap
<1>9. CASE ~IsLease(new)
  <2>1. DOMAIN Loaded(at2) = DOMAIN Loaded(at)
    BY <1>3, <1>6, <1>7, <1>9
  <2>2. \A mac \in DOMAIN Loaded(at) : Loaded(at2)[mac] = Loaded(at)[mac]
    BY <1>3, <1>4, <1>6, <1>8, <1>9, <2>1
  <2>3. Loaded(at2) = Loaded(at)
    BY <1>8, <2>1, <2>2
  <2> QED
    BY <1>9, <2>3
<1>10. CASE IsLease(new)
  <2> DEFINE put == Put(Loaded(at), m, parse_line(new))
  <2>1. DOMAIN Loaded(at2) = DOMAIN Loaded(at) \cup {m}
    BY <1>3, <1>6, <1>7, <1>10
  <2>2. ASSUME NEW mac \in DOMAIN Loaded(at), mac # m PROVE Loaded(at2)[mac] = Loaded(at)[mac]
    BY <1>3, <1>4, <1>6, <1>8, <1>10, <2>1, <2>2
  <2>3. Loaded(at2)[m] = parse_line(new)
    BY <1>3, <1>5, <1>8, <1>10, <2>1
  <2>4. put = [mac \in DOMAIN Loaded(at) \cup {m} |->
                  IF mac = m THEN parse_line(new) ELSE Loaded(at)[mac]]
    BY DEF Put
  <2> HIDE DEF put, m, new
  <2>5. \A mac \in DOMAIN Loaded(at2) :
            Loaded(at2)[mac] = IF mac = m THEN parse_line(new) ELSE Loaded(at)[mac]
    BY <2>1, <2>2, <2>3
  <2>6. Loaded(at2) = put
    BY <1>8, <2>1, <2>4, <2>5
  <2> QED
    BY <1>10, <2>6 DEF put, m, new
<1> QED
  BY <1>9, <1>10

Moved(P, d) == {i + d : i \in P}

IsMovedBy(at, at2, d) ==
    DOMAIN at2 = {1} \cup Moved(DOMAIN at, d) /\ \A i \in DOMAIN at : at2[i + d] = at[i]

LEMMA EarlierLine ==
    ASSUME NEW n \in Nat, NEW d \in Nat \ {0}, NEW at, NEW at2, DOMAIN at \subseteq 1 .. n,
           IsMovedBy(at, at2, d)
    PROVE  Loaded(at2) = IF IsLease(at2[1]) /\ MacOf(at2[1]) \notin DOMAIN Loaded(at)
                         THEN Put(Loaded(at), MacOf(at2[1]), parse_line(at2[1]))
                         ELSE Loaded(at)
<1> DEFINE new == at2[1]  m == MacOf(new)
<1> USE DEF Moved, IsMovedBy
<1>1. \A mac : LinesOf(at, mac) \subseteq DOMAIN at
  BY DEF LinesOf
<1>2. \A i \in DOMAIN at : i + d # 1 /\ i \in Nat
  OBVIOUS
<1>3. ASSUME NEW mac
      PROVE  LinesOf(at2, mac) = IF IsLease(new) /\ mac = m THEN Moved(LinesOf(at, mac), d) \cup {1}
                                 ELSE Moved(LinesOf(at, mac), d)
  <2>1. \A i \in DOMAIN at : i + d \in LinesOf(at2, mac) <=> i \in LinesOf(at, mac)
    BY DEF LinesOf
  <2>2. 1 \in LinesOf(at2, mac) <=> IsLease(new) /\ mac = m
    BY DEF LinesOf
  <2>3. LinesOf(at2, mac) \subseteq {1} \cup Moved(DOMAIN at, d)
    BY DEF LinesOf
  <2> HIDE DEF new, m
  <2>4. 1 \notin Moved(LinesOf(at, mac), d)
    BY <1>1, <1>2
  <2> QED
    BY <1>1, <2>1, <2>2, <2>3, <2>4
<1>4. ASSUME NEW mac, LinesOf(at, mac) # {}, NEW more \in {{}, {1}},
             LinesOf(at2, mac) = Moved(LinesOf(at, mac), d) \cup more
      PROVE  at2[Ext!Max(LinesOf(at2, mac))] = at[Ext!Max(LinesOf(at, mac))]
  <2> DEFINE top == Ext!Max(LinesOf(at, mac))
  <2>1. top \in LinesOf(at, mac) /\ \A k \in LinesOf(at, mac) : k <= top
    BY <1>1, <1>4, Greatest
  <2> HIDE DEF top
  <2>2. top \in DOMAIN at /\ top \in 1 .. n
    BY <1>1, <2>1
  <2> DEFINE P == LinesOf(at2, mac)
  <2>3. top + d \in P
    BY <1>4, <2>1
  <2>4. ASSUME NEW k \in P PROVE k <= top + d /\ k \in 1 .. n + d
    <3>1. k = 1 \/ \E i \in LinesOf(at, mac) : k = i + d
      BY <1>4
    <3>2. \A i \in LinesOf(at, mac) : i \in 1 .. n
      BY <1>1
    <3> QED
      BY <2>1, <2>2, <3>1, <3>2
  <2> HIDE DEF P
  <2>5. n + d \in Nat /\ P \subseteq 1 .. n + d /\ \A k \in P : k <= top + d
    BY <2>4
  <2>6. Ext!Max(P) = top + d
    BY <2>3, <2>5, GreatestIsThat
  <2> QED
    BY <2>2, <2>6 DEF P, top
<1>5. LinesOf(at, m) = {} /\ LinesOf(at2, m) = Moved(LinesOf(at, m), d) \cup {1}
        => Ext!Max(LinesOf(at2, m)) = 1
  <2>1. Ext!Max({1}) = 1
    <3>1. {1} \subseteq 1 .. 1 /\ \A k \in {1} : k <= 1
      OBVIOUS
    <3> QED
      BY <3>1, GreatestIsThat
  <2>2. Moved({}, d) \cup {1} = {1}
    OBVIOUS
  <2> QED
    BY <2>1, <2>2
<1>6. \A mac : mac \in DOMAIN Loaded(at) <=> LinesOf(at, mac) # {}
  BY LoadedIsMap
<1>7. \A mac : mac \in DOMAIN Loaded(at2) <=> LinesOf(at2, mac) # {}
  BY LoadedIsMap
<1>8. /\ \A mac \in DOMAIN Loaded(at) :
            Loaded(at)[mac] = parse_line(at[Ext!Max(LinesOf(at, mac))])
      /\ \A mac \in DOMAIN Loaded(at2) :
            Loaded(at2)[mac] = parse_line(at2[Ext!Max(LinesOf(at2, mac))])
      /\ Loaded(at) = [mac \in DOMAIN Loaded(at) |-> Loaded(at)[mac]]
      /\ Loaded(at2) = [mac \in DOMAIN Loaded(at2) |-> Loaded(at2)[mac]]
  BY LoadedIsMap
<1>9. \A mac \in DOMAIN Loaded(at) :
          mac \in DOMAIN Loaded(at2) /\ Loaded(at2)[mac] = Loaded(at)[mac]
  <2>1. TAKE mac \in DOMAIN Loaded(at)
  <2>2. LinesOf(at, mac) # {}
    BY <1>6
  <2>3. PICK more \in {{}, {1}} : LinesOf(at2, mac) = Moved(LinesOf(at, mac), d) \cup more
    BY <1>3
  <2>4. LinesOf(at2, mac) # {}
    BY <2>2, <2>3
  <2>5. at2[Ext!Max(LinesOf(at2, mac))] = at[Ext!Max(LinesOf(at, mac))]
    BY <1>4, <2>2, <2>3
  <2> QED
    BY <1>7, <1>8, <2>4, <2>5
<1>10. CASE ~(IsLease(new) /\ m \notin DOMAIN Loaded(at))
  <2>1. \A mac : mac \in DOMAIN Loaded(at2) => mac \in DOMAIN Loaded(at)
    BY <1>3, <1>6, <1>7, <1>10
  <2>2. DOMAIN Loaded(at2) = DOMAIN Loaded(at)
    BY <1>9, <2>1
  <2>3. Loaded(at2) = Loaded(at)
    BY <1>8, <1>9, <2>2
  <2> QED
    BY <1>10, <2>3
<1>11. CASE IsLease(new) /\ m \notin DOMAIN Loaded(at)
  <2> DEFINE put == Put(Loaded(at), m, parse_line(new))
  <2>1. LinesOf(at, m) = {} /\ LinesOf(at2, m) = Moved(LinesOf(at, m), d) \cup {1}
    BY <1>3, <1>6, <1>11
  <2>0. LinesOf(at2, m) # {}
    BY <2>1
  <2>2. DOMAIN Loaded(at2) = DOMAIN Loaded(at) \cup {m}
    <3>1. ASSUME NEW mac \in DOMAIN Loaded(at2), mac # m PROVE mac \in DOMAIN Loaded(at)
      <4>1. LinesOf(at2, mac) = Moved(LinesOf(at, mac), d) /\ LinesOf(at2, mac) # {}
        BY <1>3, <1>7, <3>1
      <4>2. LinesOf(at, mac) # {}
        BY <4>1
      <4> QED
        BY <1>6, <4>2
    <3> HIDE DEF m
    <3> QED
      BY <1>7, <1>9, <2>0, <3>1
  <2>3. Loaded(at2)[m] = parse_line(new)
    BY <1>5, <1>8, <2>1, <2>2
  <2>4. put = [mac \in DOMAIN Loaded(at) \cup {m} |->
                  IF mac = m THEN parse_line(new) ELSE Loaded(at)[mac]]
    BY DEF Put
  <2> HIDE DEF put, m, new
  <2>5. \A mac \in DOMAIN Loaded(at2) :
            Loaded(at2)[mac] = IF mac = m THEN parse_line(new) ELSE Loaded(at)[mac]
    BY <1>9, <2>2, <2>3
  <2>6. Loaded(at2) = put
    BY <1>8, <2>2, <2>4, <2>5
  <2> QED
    BY <1>11, <2>6 DEF put, m, new
<1> QED
  BY <1>10, <1>11

LEMMA LoadsAppended ==
    ASSUME NEW S, NEW s \in Seq(S), NEW line \in Seq(S), NewLine \in S,
           Whole(s), Lacks(line, NewLine)
    PROVE  load(s \o line \o <<NewLine>>)
             = IF IsLease(Fields(line))
               THEN Put(load(s), MacOf(Fields(line)), parse_line(Fields(line)))
               ELSE load(s)
<1> DEFINE t == s \o line \o <<NewLine>>  n == Len(s)  at == FieldsAt(s)  at2 == FieldsAt(t)
<1>1. /\ LineStarts(t) = LineStarts(s) \cup {n + 1}
      /\ Line(t, n + 1) = line
      /\ \A i \in LineStarts(s) : Line(t, i) = Line(s, i)
  BY LineAppended
<1>2. LineStarts(s) \subseteq 1 .. n /\ n \in Nat
  BY DEF LineStarts
<1> HIDE DEF t, n
<1>3. /\ DOMAIN at = LineStarts(s) /\ DOMAIN at2 = LineStarts(s) \cup {n + 1}
      /\ at2[n + 1] = Fields(line)
      /\ \A i \in DOMAIN at : at2[i] = at[i]
  BY <1>1 DEF FieldsAt
<1> HIDE DEF at, at2
<1>4. Loaded(at2) = IF IsLease(at2[n + 1])
                    THEN Put(Loaded(at), MacOf(at2[n + 1]), parse_line(at2[n + 1]))
                    ELSE Loaded(at)
  <2>1. DOMAIN at \subseteq 1 .. n
    BY <1>2, <1>3
  <2>2. DOMAIN at2 = DOMAIN at \cup {n + 1}
    BY <1>3
  <2> QED
    BY <1>2, <1>3, <2>1, <2>2, LaterLine, Zenon
<1>5. load(t) = Loaded(at2) /\ load(s) = Loaded(at)
  BY DEF load, at, at2
<1> QED
  BY <1>3, <1>4, <1>5 DEF t

LEMMA LoadsPrepended ==
    ASSUME NEW S, NEW s \in Seq(S), NEW line \in Seq(S), NewLine \in S, Lacks(line, NewLine)
    PROVE  load(line \o <<NewLine>> \o s)
             = IF IsLease(Fields(line)) /\ MacOf(Fields(line)) \notin DOMAIN load(s)
               THEN Put(load(s), MacOf(Fields(line)), parse_line(Fields(line)))
               ELSE load(s)
<1> DEFINE t == line \o <<NewLine>> \o s  n == Len(s)  d == Len(line) + 1
           at == FieldsAt(s)  at2 == FieldsAt(t)
<1>1. /\ LineStarts(t) = {1} \cup {i + d : i \in LineStarts(s)}
      /\ Line(t, 1) = line
      /\ \A i \in LineStarts(s) : Line(t, i + d) = Line(s, i)
  BY LinePrepended
<1>2. LineStarts(s) \subseteq 1 .. n /\ n \in Nat /\ d \in Nat \ {0}
  BY DEF LineStarts
<1> HIDE DEF t, n, d
<1>3. /\ DOMAIN at = LineStarts(s) /\ IsMovedBy(at, at2, d)
      /\ at2[1] = Fields(line)
  BY <1>1 DEF FieldsAt, Moved, IsMovedBy
<1> HIDE DEF at, at2
<1>4. Loaded(at2) = IF IsLease(at2[1]) /\ MacOf(at2[1]) \notin DOMAIN Loaded(at)
                    THEN Put(Loaded(at), MacOf(at2[1]), parse_line(at2[1]))
                    ELSE Loaded(at)
  <2>1. DOMAIN at \subseteq 1 .. n
    BY <1>2, <1>3
  <2> QED
    BY <1>2, <1>3, <2>1, EarlierLine
<1>5. load(t) = Loaded(at2) /\ load(s) = Loaded(at)
  BY DEF load, at, at2
<1> QED
  BY <1>3, <1>4, <1>5 DEF t

-----------------------------------------------------------------------------
(***************************************************************************)
(* Flattening: the text so far, piece by piece.                            *)
(***************************************************************************)
Piece(pieces, u, i) == IF i = 1 THEN pieces[i] ELSE u[i - 1] \o pieces[i]

LEMMA Flattened ==
    ASSUME NEW pieces, NEW n \in Nat \ {0}, Len(pieces) = n
    PROVE  \E u : /\ u[1] = pieces[1]
                  /\ \A i \in 2 .. n : u[i] = u[i - 1] \o pieces[i]
                  /\ Ext!FlattenSeq(pieces) = u[n]
<1> DEFINE IsPart(u, k) == u = [i \in 1 .. k |-> Piece(pieces, u, i)]
           P == {k \in 1 .. n : \E u : IsPart(u, k)}
<1>1. 1 \in P
  <2> DEFINE u == [i \in 1 .. 1 |-> pieces[i]]
  <2>1. \A i \in 1 .. 1 : Piece(pieces, u, i) = pieces[i]
    BY DEF Piece
  <2>2. IsPart(u, 1)
    BY <2>1
  <2> QED
    BY <2>2
<1>2. ASSUME NEW k \in 1 .. n - 1, k \in P PROVE k + 1 \in P
  <2>1. PICK u : IsPart(u, k)
    BY <1>2
  <2> DEFINE v == [i \in 1 .. k + 1 |-> Piece(pieces, u, i)]
  <2>2. \A i \in 1 .. k : u[i] = Piece(pieces, u, i)
    BY <2>1
  <2>3. \A i \in 1 .. k : v[i] = u[i]
    BY <2>2
  <2> HIDE DEF v
  <2>4. \A i \in 1 .. k + 1 : Piece(pieces, v, i) = Piece(pieces, u, i)
    BY <2>3 DEF Piece
  <2>5. v = [i \in 1 .. k + 1 |-> Piece(pieces, v, i)]
    BY <2>4 DEF v
  <2> QED
    BY <2>5
<1>3. n \in P
  <2> HIDE DEF P
  <2>1. 1 .. n \subseteq P
    BY <1>1, <1>2, Upward
  <2> QED
    BY <2>1
<1>4. PICK w : IsPart(w, n)
  BY <1>3
<1> DEFINE u == CHOOSE f : IsPart(f, n)
<1>5. IsPart(u, n)
  BY <1>4, Zenon
<1>6. Ext!FlattenSeq(pieces) = u[n]
  BY Zenon DEF Ext!FlattenSeq, Piece
<1> HIDE DEF u
<1>7. \A i \in 1 .. n : u[i] = Piece(pieces, u, i)
  BY <1>5
<1>8. u[1] = pieces[1]
  BY <1>7 DEF Piece
<1>9. ASSUME NEW i \in 2 .. n PROVE u[i] = u[i - 1] \o pieces[i]
  <2>1. i \in 1 .. n /\ i # 1
    OBVIOUS
  <2> QED
    BY <1>7, <2>1 DEF Piece
<1> QED
  BY <1>6, <1>8, <1>9

LEMMA FlattenedNothing ==
    ASSUME NEW S, NEW pieces \in Seq(S), Len(pieces) = 0
    PROVE  Ext!FlattenSeq(pieces) = <<>>
<1>1. Ext!FlattenSeq(pieces) = pieces
  BY Zenon DEF Ext!FlattenSeq
<1>2. pieces = <<>>
  BY EmptySeq
<1> QED
  BY <1>1, <1>2

LEMMA FlattenedIsTyped ==
    ASSUME NEW S, NEW pieces \in Seq(Seq(S))
    PROVE  Ext!FlattenSeq(pieces) \in Seq(S)
<1> DEFINE n == Len(pieces)
<1>1. n \in Nat /\ \A i \in 1 .. n : pieces[i] \in Seq(S)
  BY ElementOfSeq
<1>2. CASE n = 0
  <2>1. Ext!FlattenSeq(pieces) = <<>>
    BY <1>2, FlattenedNothing
  <2>2. <<>> \in Seq(S)
    BY EmptySeq
  <2> QED
    BY <2>1, <2>2
<1>3. CASE n # 0
  <2> HIDE DEF n
  <2>0. \E u : /\ u[1] = pieces[1]
               /\ \A i \in 2 .. n : u[i] = u[i - 1] \o pieces[i]
               /\ Ext!FlattenSeq(pieces) = u[n]
    <3>1. n \in Nat \ {0} /\ Len(pieces) = n
      BY <1>1, <1>3 DEF n
    <3> QED
      BY <3>1, Flattened, Zenon
  <2>1. PICK u : /\ u[1] = pieces[1]
                 /\ \A i \in 2 .. n : u[i] = u[i - 1] \o pieces[i]
                 /\ Ext!FlattenSeq(pieces) = u[n]
    BY <2>0
  <2> DEFINE P == {i \in 1 .. n : u[i] \in Seq(S)}
  <2>2. 1 \in P
    BY <1>1, <1>3, <2>1
  <2>3. ASSUME NEW k \in 1 .. n - 1, k \in P PROVE k + 1 \in P
    <3>1. k + 1 \in 2 .. n /\ (k + 1) - 1 = k
      BY <1>1
    <3>2. u[k + 1] = u[k] \o pieces[k + 1]
      BY <2>1, <3>1
    <3>3. u[k] \in Seq(S) /\ pieces[k + 1] \in Seq(S)
      BY <1>1, <2>3, <3>1
    <3>4. u[k + 1] \in Seq(S)
      BY <3>2, <3>3, ConcatProperties
    <3> QED
      BY <1>1, <3>1, <3>4
  <2>4. 1 .. n \subseteq P
    <3> HIDE DEF P
    <3> QED
      BY <1>1, <2>2, <2>3, Upward
  <2>5. u[n] \in Seq(S)
    BY <1>1, <1>3, <2>4
  <2> QED
    BY <2>1, <2>5
<1> QED
  BY <1>2, <1>3

-----------------------------------------------------------------------------
(***************************************************************************)
(* Names.                                                                  *)
(***************************************************************************)
IsWord(s) == s \in Seq(Chars) /\ Lacks(s, Space) /\ Lacks(s, NewLine)

(* Whatever the client sends, its name is one word.                        *)
LEMMA NameIsWord ==
    ASSUME NEW raw \in Seq(Chars)
    PROVE  IsWord(hostname(raw))
<1> DEFINE kinds == {"letter", "-", "mac", "ip", "number"}
           Kept == {c \in Chars : c.kind \in kinds}
           pieces == [i \in DOMAIN raw |->
                         IF raw[i].kind \in kinds THEN <<WithoutColons(raw[i])>> ELSE <<>>]
<1>1. \A i \in 1 .. Len(raw) : raw[i] \in Chars
  BY ElementOfSeq
<1>2. DOMAIN raw = 1 .. Len(raw) /\ Len(raw) \in Nat
  BY LenProperties
<1>3. ASSUME NEW i \in 1 .. Len(raw) PROVE pieces[i] \in Seq(Kept)
  <2>1. raw[i].kind \in kinds => WithoutColons(raw[i]) \in Kept
    <3>1. Char("letter") \in Kept
      BY DEF Chars, Char, Character
    <3> QED
      BY <1>1, <3>1 DEF WithoutColons
  <2> HIDE DEF Kept, kinds
  <2>2. <<>> \in Seq(Kept) /\ \A c \in Kept : <<c>> \in Seq(Kept)
    OBVIOUS
  <2> QED
    BY <1>2, <2>1, <2>2
<1>4. pieces \in Seq(Seq(Kept))
  <2>1. pieces = [i \in 1 .. Len(raw) |-> pieces[i]]
    BY <1>2
  <2> HIDE DEF pieces, Kept
  <2>2. pieces \in [1 .. Len(raw) -> Seq(Kept)]
    BY <1>3, <2>1
  <2> QED
    BY <1>2, <2>2, SeqDef
<1>5. hostname(raw) = Ext!FlattenSeq(pieces)
  BY DEF hostname, Filtered
<1>6. hostname(raw) \in Seq(Kept)
  <2> HIDE DEF pieces, Kept
  <2> QED
    BY <1>4, <1>5, FlattenedIsTyped
<1>7. Kept \subseteq Chars /\ Space \notin Kept /\ NewLine \notin Kept
  BY DEF Space, NewLine, Char, Character
<1> HIDE DEF Kept
<1>8. hostname(raw) \in Seq(Chars)
  BY <1>6, <1>7, SeqMonotonic
<1>9. \A i \in DOMAIN hostname(raw) : hostname(raw)[i] \in Kept
  BY <1>6, ElementOfSeq, LenProperties
<1> QED
  BY <1>7, <1>8, <1>9 DEF IsWord, Lacks

-----------------------------------------------------------------------------
(***************************************************************************)
(* Fields.                                                                 *)
(***************************************************************************)
LEMMA FieldThere ==
    ASSUME NEW S, NEW line \in Seq(S), NEW from \in 1 .. Len(line) + 1, NEW start, NEW end,
           SkippedTo(line, from, Space, start), FoundAt(line, start, Space, end)
    PROVE  After(line, from) = end /\ Field(line, from) = SubSeq(line, start, end - 1)
<1>1. Skip(line, from, Space) = start
  BY SkippedThere
<1>2. start \in 1 .. Len(line) + 1
  BY LenProperties DEF SkippedTo
<1>3. Find(line, start, Space) = end
  BY <1>2, FoundThere
<1> QED
  BY <1>1, <1>3 DEF After, Field

(* Where the fields of a formatted lease are.                              *)
LEMMA FormatLaidOut ==
    ASSUME NEW S, NEW m \in S, NEW ip \in S, NEW until \in S, NEW name \in Seq(S), Space \in S
    PROVE  LET line == <<m, Space, ip, Space>> \o name \o <<Space, until>>
               h == Len(name)
           IN  /\ line \in Seq(S) /\ Len(line) = h + 6
               /\ line[1] = m /\ line[2] = Space /\ line[3] = ip /\ line[4] = Space
               /\ \A k \in 1 .. h : line[k + 4] = name[k]
               /\ line[h + 5] = Space /\ line[h + 6] = until
<1> DEFINE head == <<m, Space, ip, Space>>  first == head \o name  tail == <<Space, until>>
           h == Len(name)
<1>1. /\ head \in Seq(S) /\ Len(head) = 4
      /\ head[1] = m /\ head[2] = Space /\ head[3] = ip /\ head[4] = Space
  OBVIOUS
<1>2. tail \in Seq(S) /\ Len(tail) = 2 /\ tail[1] = Space /\ tail[2] = until
  OBVIOUS
<1>3. h \in Nat
  BY LenProperties
<1> HIDE DEF head, tail
<1>4. /\ first \in Seq(S) /\ Len(first) = 4 + Len(name)
      /\ \A i \in 1 .. 4 + Len(name) : first[i] = IF i <= 4 THEN head[i] ELSE name[i - 4]
  <2>1. /\ head \o name \in Seq(S) /\ Len(head \o name) = Len(head) + Len(name)
        /\ \A i \in 1 .. Len(head) + Len(name) :
              (head \o name)[i] = IF i <= Len(head) THEN head[i] ELSE name[i - Len(head)]
    BY <1>1, ConcatProperties
  <2> QED
    BY <1>1, <2>1
<1> HIDE DEF first
<1>5. /\ first \o tail \in Seq(S) /\ Len(first \o tail) = (4 + h) + 2
      /\ \A i \in 1 .. (4 + h) + 2 :
            (first \o tail)[i] = IF i <= 4 + h THEN first[i] ELSE tail[i - (4 + h)]
  <2>1. /\ first \o tail \in Seq(S) /\ Len(first \o tail) = Len(first) + Len(tail)
        /\ \A i \in 1 .. Len(first) + Len(tail) :
              (first \o tail)[i] = IF i <= Len(first) THEN first[i] ELSE tail[i - Len(first)]
    BY <1>2, <1>4, ConcatProperties
  <2> QED
    BY <1>2, <1>4, <2>1
<1>n. h = Len(name)
  OBVIOUS
<1> HIDE DEF h
<1> DEFINE line == first \o tail
<1> HIDE DEF line
<1>6. \A i \in 1 .. 4 : line[i] = head[i]
  BY <1>3, <1>4, <1>5, <1>n DEF line
<1>7. ASSUME NEW k \in 1 .. h PROVE line[k + 4] = name[k]
  <2>1. k + 4 \in 1 .. (4 + h) + 2 /\ k + 4 <= 4 + h /\ k + 4 \in 1 .. 4 + h /\ ~(k + 4 <= 4)
        /\ (k + 4) - 4 = k
    BY <1>3
  <2>2. line[k + 4] = first[k + 4]
    BY <1>5, <2>1 DEF line
  <2>3. first[k + 4] = name[k]
    BY <1>4, <1>n, <2>1
  <2> QED
    BY <2>2, <2>3
<1>8. line[h + 5] = tail[1] /\ line[h + 6] = tail[2]
  <2>1. /\ h + 5 \in 1 .. (4 + h) + 2 /\ ~(h + 5 <= 4 + h) /\ (h + 5) - (4 + h) = 1
        /\ h + 6 \in 1 .. (4 + h) + 2 /\ ~(h + 6 <= 4 + h) /\ (h + 6) - (4 + h) = 2
    BY <1>3
  <2> QED
    BY <1>5, <2>1 DEF line
<1>9. line \in Seq(S) /\ Len(line) = h + 6
  BY <1>3, <1>5 DEF line
<1> QED
  BY <1>1, <1>2, <1>6, <1>7, <1>8, <1>9 DEF line, first, h, head, tail

LEMMA OneCharacter ==
    ASSUME NEW S, NEW s \in Seq(S), NEW k \in 1 .. Len(s)
    PROVE  SubSeq(s, k, k) = <<s[k]>>
<1>1. s[k] \in S /\ k \in Nat /\ Len(s) \in Nat
  BY ElementOfSeq
<1>2. <<s[k]>> \in Seq(S) /\ Len(<<s[k]>>) = 1 /\ <<s[k]>>[1] = s[k]
  BY <1>1
<1>3. SubSeq(<<s[k]>>, 1, 1) = SubSeq(s, 1 + (k - 1), 1 + (k - 1))
  <2>1. \A i \in 1 .. 1 : <<s[k]>>[i] = s[i + (k - 1)]
    BY <1>1
  <2>2. 1 <= Len(<<s[k]>>) /\ k - 1 \in Int /\ 1 \in Int
    BY <1>1, <1>2
  <2> QED
    BY <1>2, <2>1, <2>2, SamePart
<1>4. SubSeq(<<s[k]>>, 1, 1) = <<s[k]>>
  BY <1>2, SubSeqFull
<1>5. 1 + (k - 1) = k
  BY <1>1
<1> QED
  BY <1>3, <1>4, <1>5

LEMMA FieldsOfFormat ==
    ASSUME NEW S, NEW m \in S, NEW ip \in S, NEW until \in S, NEW name \in Seq(S), Space \in S,
           m # Space, ip # Space, until # Space, Lacks(name, Space), name # <<>>
    PROVE  Fields(<<m, Space, ip, Space>> \o name \o <<Space, until>>)
             = << <<m>>, <<ip>>, name, <<until>> >>
<1> DEFINE line == <<m, Space, ip, Space>> \o name \o <<Space, until>>  h == Len(name)
<1>1. /\ line \in Seq(S) /\ Len(line) = h + 6
      /\ line[1] = m /\ line[2] = Space /\ line[3] = ip /\ line[4] = Space
      /\ \A k \in 1 .. h : line[k + 4] = name[k]
      /\ line[h + 5] = Space /\ line[h + 6] = until
  BY FormatLaidOut
<1>2. h \in Nat \ {0} /\ \A k \in 1 .. h : name[k] # Space
  BY EmptySeq, LenProperties DEF Lacks
<1>n. h = Len(name)
  OBVIOUS
<1> HIDE DEF line, h
<1>0. line \in Seq(S)
  BY <1>1
<1>3. After(line, 1) = 2 /\ Field(line, 1) = <<m>>
  <2>1. SkippedTo(line, 1, Space, 1) /\ FoundAt(line, 1, Space, 2)
    BY <1>1, <1>2 DEF SkippedTo, FoundAt
  <2>2. 1 \in 1 .. Len(line) + 1 /\ 1 \in 1 .. Len(line) /\ 2 - 1 = 1
    BY <1>1, <1>2
  <2>3. After(line, 1) = 2 /\ Field(line, 1) = SubSeq(line, 1, 2 - 1)
    BY <1>0, <2>1, <2>2, FieldThere, Zenon
  <2>4. SubSeq(line, 1, 1) = <<line[1]>>
    BY <1>1, <2>2, OneCharacter
  <2> QED
    BY <1>1, <2>2, <2>3, <2>4
<1>4. After(line, 2) = 4 /\ Field(line, 2) = <<ip>>
  <2>1. SkippedTo(line, 2, Space, 3) /\ FoundAt(line, 3, Space, 4)
    BY <1>1, <1>2 DEF SkippedTo, FoundAt
  <2>2. 2 \in 1 .. Len(line) + 1 /\ 3 \in 1 .. Len(line) /\ 4 - 1 = 3
    BY <1>1, <1>2
  <2>3. After(line, 2) = 4 /\ Field(line, 2) = SubSeq(line, 3, 4 - 1)
    BY <1>0, <2>1, <2>2, FieldThere, Zenon
  <2>4. SubSeq(line, 3, 3) = <<line[3]>>
    BY <1>1, <2>2, OneCharacter
  <2> QED
    BY <1>1, <2>2, <2>3, <2>4
<1>5. After(line, 4) = h + 5 /\ Field(line, 4) = name
  <2>1. ASSUME NEW k \in 5 .. (h + 5) - 1 PROVE line[k] # Space
    <3>1. k - 4 \in 1 .. h /\ (k - 4) + 4 = k
      BY <1>2
    <3> QED
      BY <1>1, <1>2, <3>1
  <2>2. SkippedTo(line, 4, Space, 5)
    <3>1. 5 \in 4 .. (h + 6) + 1 /\ 5 \in 5 .. (h + 5) - 1 /\ \A k \in 4 .. 5 - 1 : k = 4
      BY <1>2
    <3>2. line[5] # Space
      BY <2>1, <3>1
    <3> QED
      BY <1>1, <3>1, <3>2 DEF SkippedTo
  <2>3. FoundAt(line, 5, Space, h + 5)
    <3>1. h + 5 \in 5 .. (h + 6) + 1
      BY <1>2
    <3> QED
      BY <1>1, <2>1, <3>1 DEF FoundAt
  <2>4. 4 \in 1 .. Len(line) + 1
    BY <1>1, <1>2
  <2>5. After(line, 4) = h + 5 /\ Field(line, 4) = SubSeq(line, 5, (h + 5) - 1)
    BY <1>0, <2>2, <2>3, <2>4, FieldThere, Zenon
  <2>6. SubSeq(name, 1, h) = SubSeq(line, 1 + 4, h + 4)
    <3>1. \A k \in 1 .. h : name[k] = line[k + 4]
      BY <1>1
    <3> QED
      BY <1>1, <1>2, <1>n, <3>1, SamePart
  <2>7. SubSeq(name, 1, h) = name
    BY <1>n, SubSeqFull
  <2>8. 1 + 4 = 5 /\ h + 4 = (h + 5) - 1
    BY <1>2
  <2> QED
    BY <2>5, <2>6, <2>7, <2>8
<1>6. Field(line, h + 5) = <<until>>
  <2>1. SkippedTo(line, h + 5, Space, h + 6)
    <3>1. h + 6 \in h + 5 .. (h + 6) + 1 /\ \A k \in h + 5 .. (h + 6) - 1 : k = h + 5
      BY <1>2
    <3> QED
      BY <1>1, <3>1 DEF SkippedTo
  <2>2. FoundAt(line, h + 6, Space, h + 7)
    <3>1. /\ h + 7 \in h + 6 .. (h + 6) + 1 /\ h + 7 = (h + 6) + 1
          /\ \A k \in h + 6 .. (h + 7) - 1 : k = h + 6
      BY <1>2
    <3> QED
      BY <1>1, <3>1 DEF FoundAt
  <2>3. h + 5 \in 1 .. Len(line) + 1 /\ h + 6 \in 1 .. Len(line) /\ (h + 7) - 1 = h + 6
    BY <1>1, <1>2
  <2>4. Field(line, h + 5) = SubSeq(line, h + 6, (h + 7) - 1)
    BY <1>0, <2>1, <2>2, <2>3, FieldThere, Zenon
  <2>5. SubSeq(line, h + 6, h + 6) = <<line[h + 6]>>
    BY <1>1, <2>3, OneCharacter
  <2> QED
    BY <1>1, <2>3, <2>4, <2>5
<1>7. Fields(line) = << <<m>>, <<ip>>, name, <<until>> >>
  BY <1>3, <1>4, <1>5, <1>6, Zenon DEF Fields
<1> QED
  BY <1>7 DEF line

LEMMA CharsByKind ==
    ASSUME NEW c \in Chars
    PROVE  /\ c.kind = "mac" => c.value \in Mac
           /\ c.kind = "ip" => c.value \in Ip
           /\ c.kind = "number" => c.value \in Time
<1>1. CASE c \in {Char(kind) : kind \in {"space", "newline", "#", "-", "letter", "odd"}}
  BY <1>1 DEF Char, Character
<1>2. CASE c \in {Character("mac", mac) : mac \in Mac}
  BY <1>2 DEF Character
<1>3. CASE c \in {Dotted(ip) : ip \in Ip}
  BY <1>3 DEF Dotted, Character
<1>4. CASE c \in {Number(n) : n \in Time}
  BY <1>4 DEF Number, Character
<1> QED
  BY <1>1, <1>2, <1>3, <1>4 DEF Chars

LEMMA CharsAreDistinct ==
    /\ Space \in Chars /\ NewLine \in Chars /\ Dash \in Chars
    /\ Space # NewLine /\ Dash # Space /\ Dash # NewLine /\ Comment # Space
    /\ \A value : /\ Character("mac", value) \notin {Space, NewLine, Comment}
                  /\ Dotted(value) \notin {Space, NewLine}
                  /\ Number(value) \notin {Space, NewLine}
<1>1. Space \in Chars /\ NewLine \in Chars /\ Dash \in Chars
  BY DEF Chars, Space, NewLine, Dash
<1>2. Space # NewLine /\ Dash # Space /\ Dash # NewLine /\ Comment # Space
  BY DEF Space, NewLine, Dash, Comment, Char, Character
<1>3. ASSUME NEW value
      PROVE  /\ Character("mac", value) \notin {Space, NewLine, Comment}
             /\ Dotted(value) \notin {Space, NewLine}
             /\ Number(value) \notin {Space, NewLine}
  BY DEF Space, NewLine, Comment, Dotted, Number, Char, Character
<1> QED
  BY <1>1, <1>2, <1>3

LEMMA FieldIsWord ==
    ASSUME NEW line \in Seq(Chars), Lacks(line, NewLine), NEW from \in 1 .. Len(line) + 1
    PROVE  After(line, from) \in 1 .. Len(line) + 1 /\ IsWord(Field(line, from))
<1> DEFINE start == Skip(line, from, Space)  end == Find(line, start, Space)
<1>1. Len(line) \in Nat /\ \A k \in 1 .. Len(line) : line[k] \in Chars /\ line[k] # NewLine
  BY ElementOfSeq, LenProperties DEF Lacks
<1>2. start \in 1 .. Len(line) + 1
  <2>1. SkippedTo(line, from, Space, start)
    BY Skips
  <2> HIDE DEF start
  <2> QED
    BY <1>1, <2>1 DEF SkippedTo
<1>3. FoundAt(line, start, Space, end)
  <2> HIDE DEF start
  <2> QED
    BY <1>2, Found
<1>4. After(line, from) = end /\ Field(line, from) = SubSeq(line, start, end - 1)
  BY DEF After, Field
<1> HIDE DEF start, end
<1>5. /\ end \in 1 .. Len(line) + 1
      /\ \A k \in start .. end - 1 : k \in 1 .. Len(line) /\ line[k] # Space
  BY <1>1, <1>2, <1>3 DEF FoundAt
<1> DEFINE Plain == {c \in Chars : c # Space /\ c # NewLine}
<1>6. \A k \in start .. end - 1 : line[k] \in Plain
  BY <1>1, <1>5
<1> HIDE DEF Plain
<1>7. start \in Int /\ end - 1 \in Int
  BY <1>1, <1>2, <1>5
<1>8. Field(line, from) \in Seq(Plain)
  BY <1>4, <1>6, <1>7, SubSeqProperties
<1>9. Plain \subseteq Chars /\ Space \notin Plain /\ NewLine \notin Plain
  BY DEF Plain
<1>10. Field(line, from) \in Seq(Chars)
  BY <1>8, <1>9, SeqMonotonic
<1>11. \A k \in DOMAIN Field(line, from) : Field(line, from)[k] \in Plain
  BY <1>8, ElementOfSeq, LenProperties
<1> QED
  BY <1>4, <1>5, <1>9, <1>10, <1>11 DEF IsWord, Lacks

(* Whatever line is read as a lease, it is one the server can store.       *)
LEMMA ReadLeaseIsNamed ==
    ASSUME NEW line \in Seq(Chars), Lacks(line, NewLine), IsLease(Fields(line))
    PROVE  MacOf(Fields(line)) \in Mac /\ NamedLease(parse_line(Fields(line)))
<1> DEFINE second == After(line, 1)  third == After(line, second)  fourth == After(line, third)
<1>1. 1 \in 1 .. Len(line) + 1
  BY LenProperties
<1>2. second \in 1 .. Len(line) + 1 /\ IsWord(Field(line, 1))
  BY <1>1, FieldIsWord
<1>3. third \in 1 .. Len(line) + 1 /\ IsWord(Field(line, second))
  <2> HIDE DEF second
  <2> QED
    BY <1>2, FieldIsWord
<1>4. fourth \in 1 .. Len(line) + 1 /\ IsWord(Field(line, third))
  <2> HIDE DEF third
  <2> QED
    BY <1>3, FieldIsWord
<1>5. IsWord(Field(line, fourth))
  <2> HIDE DEF fourth
  <2> QED
    BY <1>4, FieldIsWord
<1> DEFINE fields == Fields(line)
<1>6. /\ fields[1] = Field(line, 1) /\ fields[2] = Field(line, second)
      /\ fields[3] = Field(line, third) /\ fields[4] = Field(line, fourth)
  BY DEF Fields
<1> HIDE DEF fields, second, third, fourth
<1>7. Is(fields[1], "mac") /\ Is(fields[2], "ip") /\ Is(fields[4], "number")
  BY DEF IsLease, WellFormed, fields
<1>8. fields[1][1] \in Chars /\ fields[2][1] \in Chars /\ fields[4][1] \in Chars
  <2>1. \A s \in Seq(Chars) : Len(s) = 1 => s[1] \in Chars
    BY ElementOfSeq
  <2> QED
    BY <1>2, <1>3, <1>5, <1>6, <1>7, <2>1 DEF IsWord, Is
<1>9. /\ fields[1][1].value \in Mac /\ fields[2][1].value \in Ip
      /\ fields[4][1].value \in Time
  BY <1>7, <1>8, CharsByKind DEF Is
<1>10. IsWord(read_hostname(fields[3]))
  <2>1. IsWord(None)
    BY EmptySeq DEF IsWord, None, Lacks
  <2> QED
    BY <1>4, <1>6, <2>1 DEF read_hostname
<1>11. NamedLease(parse_line(fields))
  BY <1>9, <1>10 DEF NamedLease, parse_line, IsWord
<1> QED
  BY <1>9, <1>11 DEF MacOf, fields

(* A formatted lease is one line, and is read as itself.                   *)
LEMMA FormatIsRead ==
    ASSUME NEW mac \in Mac, NEW lease, NamedLease(lease)
    PROVE  LET line == format(mac, lease)
               fields == Fields(line)
           IN  /\ line \in Seq(Chars) /\ Lacks(line, NewLine)
               /\ IsLease(fields) /\ MacOf(fields) = mac /\ parse_line(fields) = AsRead(lease)
<1> DEFINE m == Character("mac", mac)  ip == Dotted(lease.ip)  until == Number(lease.expires_at)
           name == hostname_str(lease)  line == format(mac, lease)  fields == Fields(line)
<1>1. m \in Chars /\ ip \in Chars /\ until \in Chars
  BY DEF NamedLease, Chars
<1>2. /\ m \notin {Space, NewLine, Comment} /\ ip \notin {Space, NewLine}
      /\ until \notin {Space, NewLine} /\ Space \in Chars /\ Space # NewLine
  BY CharsAreDistinct
<1>3. IsWord(name) /\ name # <<>> /\ read_hostname(name) = read_hostname(lease.hostname)
  <2>1. IsWord(<<Dash>>) /\ <<Dash>> # <<>>
    <3>1. <<Dash>> \in Seq(Chars) /\ <<Dash>> # <<>> /\ \A i \in DOMAIN <<Dash>> : <<Dash>>[i] = Dash
      BY CharsAreDistinct
    <3> QED
      BY <3>1, CharsAreDistinct DEF IsWord, Lacks
  <2>2. IsWord(lease.hostname)
    BY DEF NamedLease, IsWord
  <2> QED
    BY <2>1, <2>2 DEF hostname_str, read_hostname, None
<1>4. line = <<m, Space, ip, Space>> \o name \o <<Space, until>>
  BY DEF format
<1>5. fields[1] = <<m>> /\ fields[2] = <<ip>> /\ fields[3] = name /\ fields[4] = <<until>>
  <2> HIDE DEF m, ip, until, name
  <2>1. Fields(line) = << <<m>>, <<ip>>, name, <<until>> >>
    <3> HIDE DEF line
    <3> QED
      BY <1>1, <1>2, <1>3, <1>4, FieldsOfFormat DEF IsWord
  <2> QED
    BY <2>1
<1>6. line \in Seq(Chars) /\ Lacks(line, NewLine)
  <2> DEFINE h == Len(name)
  <2> HIDE DEF m, ip, until, name, line
  <2>1. /\ line \in Seq(Chars) /\ Len(line) = h + 6
        /\ line[1] = m /\ line[2] = Space /\ line[3] = ip /\ line[4] = Space
        /\ \A k \in 1 .. h : line[k + 4] = name[k]
        /\ line[h + 5] = Space /\ line[h + 6] = until
    BY <1>1, <1>2, <1>3, <1>4, FormatLaidOut DEF IsWord
  <2>2. h \in Nat /\ \A k \in 1 .. h : name[k] # NewLine
    BY <1>3, LenProperties DEF IsWord, Lacks
  <2> HIDE DEF h
  <2>3. ASSUME NEW k \in 1 .. h + 6 PROVE line[k] # NewLine
    <3>1. CASE k \in 1 .. 4
      BY <1>2, <2>1, <3>1
    <3>2. CASE k \in 5 .. h + 4
      <4>1. k - 4 \in 1 .. h /\ (k - 4) + 4 = k
        BY <2>2, <3>2
      <4> QED
        BY <2>1, <2>2, <4>1
    <3>3. CASE k = h + 5 \/ k = h + 6
      BY <1>2, <2>1, <3>3
    <3> QED
      BY <2>2, <3>1, <3>2, <3>3
  <2> QED
    BY <2>1, <2>3, LenProperties DEF Lacks
<1>7. IsLease(fields)
  <2> HIDE DEF fields, name
  <2>1. Len(<<m>>) = 1 /\ <<m>>[1] = m /\ Len(<<ip>>) = 1 /\ Len(<<until>>) = 1
    OBVIOUS
  <2>2. ~Skipped(fields)
    BY <1>2, <1>5 DEF Skipped
  <2>3. WellFormed(fields)
    BY <1>3, <1>5 DEF WellFormed, Is, Dotted, Number, Character
  <2> QED
    BY <2>2, <2>3 DEF IsLease
<1>8. MacOf(fields) = mac
  <2> HIDE DEF fields
  <2> QED
    BY <1>5 DEF MacOf, Character
<1>9. parse_line(fields) = AsRead(lease)
  <2> HIDE DEF fields, name
  <2>1. parse_line(fields) = [ip |-> lease.ip, hostname |-> read_hostname(name),
                              expires_at |-> lease.expires_at]
    BY <1>5 DEF parse_line, Dotted, Number, Character
  <2>2. AsRead(lease) = [ip |-> lease.ip, hostname |-> read_hostname(lease.hostname),
                         expires_at |-> lease.expires_at]
    BY DEF AsRead, NamedLease
  <2> QED
    BY <1>3, <2>1, <2>2
<1> QED
  BY <1>6, <1>7, <1>8, <1>9

-----------------------------------------------------------------------------
(***************************************************************************)
(* Files.                                                                  *)
(***************************************************************************)
ReadBack(leases, macs) == [mac \in macs |-> AsRead(leases[mac])]

LEMMA EmptyFileLoads ==
    load(<<>>) = NoEntries
<1>1. LineStarts(<<>>) = {}
  BY DEF LineStarts
<1>2. DOMAIN FieldsAt(<<>>) = {}
  BY <1>1 DEF FieldsAt
<1>3. DOMAIN Loaded(FieldsAt(<<>>)) = {}
  BY <1>2, LoadedIsMap DEF LinesOf
<1>4. Loaded(FieldsAt(<<>>)) = [mac \in {} |-> 0]
  BY <1>3, LoadedIsMap
<1> QED
  BY <1>4 DEF load, NoEntries

(* One lease more in the file.                                             *)
LEMMA LeaseAppended ==
    ASSUME NEW leases, NEW macs, NEW s \in Seq(Chars), Whole(s), load(s) = ReadBack(leases, macs),
           NEW mac \in Mac, NamedLease(leases[mac])
    PROVE  LET t == s \o (format(mac, leases[mac]) \o <<NewLine>>)
           IN  t \in Seq(Chars) /\ Whole(t) /\ load(t) = ReadBack(leases, macs \cup {mac})
<1> DEFINE line == format(mac, leases[mac])  fields == Fields(line)
           t == s \o (line \o <<NewLine>>)
<1>1. /\ line \in Seq(Chars) /\ Lacks(line, NewLine)
      /\ IsLease(fields) /\ MacOf(fields) = mac /\ parse_line(fields) = AsRead(leases[mac])
  BY FormatIsRead
<1>2. NewLine \in Chars /\ <<NewLine>> \in Seq(Chars)
  BY CharsAreDistinct
<1> HIDE DEF line
<1>3. t = s \o line \o <<NewLine>>
  BY <1>1, <1>2, ConcatAssociative
<1>4. t \in Seq(Chars) /\ Whole(t)
  <2>1. /\ s \o line \o <<NewLine>> \in Seq(Chars)
        /\ (s \o line \o <<NewLine>>)[Len(s \o line \o <<NewLine>>)] = NewLine
    BY <1>1, <1>2, Joined
  <2> QED
    BY <1>3, <2>1 DEF Whole
<1>5. load(t) = IF IsLease(fields) THEN Put(load(s), MacOf(fields), parse_line(fields)) ELSE load(s)
  BY <1>1, <1>2, <1>3, LoadsAppended
<1>6. load(t) = Put(ReadBack(leases, macs), mac, AsRead(leases[mac]))
  <2> HIDE DEF t, fields
  <2> QED
    BY <1>1, <1>5
<1>7. Put(ReadBack(leases, macs), mac, AsRead(leases[mac])) = ReadBack(leases, macs \cup {mac})
  BY DEF Put, ReadBack
<1> QED
  BY <1>4, <1>6, <1>7 DEF line

(* A saved file is loaded lease by lease.                                  *)
LEMMA SavedIsRead ==
    ASSUME NEW leases, IsNamedMap(leases), NEW order \in Orders(leases), IsFiniteSet(Mac)
    PROVE  LET s == SavedText(leases, order)
           IN  /\ s \in Seq(Chars) /\ Whole(s)
               /\ load(s) = ReadBack(leases, DOMAIN leases)
<1> DEFINE n == Cardinality(DOMAIN leases)
           line(i) == format(order[i], leases[order[i]]) \o <<NewLine>>
           pieces == [i \in DOMAIN order |-> line(i)]
<1>1. DOMAIN leases \subseteq Mac /\ \A mac \in DOMAIN leases : NamedLease(leases[mac])
  BY DEF IsNamedMap, IsMap
<1>2. n \in Nat
  BY <1>1, FS_Subset, FS_CardinalityType
<1>3. /\ order \in [1 .. n -> DOMAIN leases]
      /\ \A mac \in DOMAIN leases : \E i \in 1 .. n : order[i] = mac
  BY DEF Orders, Bijection, Injection, Surjection
<1>4. SavedText(leases, order) = Ext!FlattenSeq(pieces)
  BY DEF SavedText
<1> HIDE DEF n
<1>5. DOMAIN order = 1 .. n /\ \A i \in 1 .. n : order[i] \in DOMAIN leases
  BY <1>3
<1>6. DOMAIN pieces = 1 .. n /\ \A i \in 1 .. n : pieces[i] = line(i)
  BY <1>5
<1>7. pieces = [i \in 1 .. n |-> pieces[i]] /\ Len(pieces) = n
  BY <1>2, <1>5
<1> HIDE DEF pieces
<1>8. CASE n = 0
  <2>1. pieces \in Seq({}) /\ Len(pieces) = 0
    BY <1>7, <1>8, EmptySeq
  <2>2. SavedText(leases, order) = <<>>
    BY <1>4, <2>1, FlattenedNothing
  <2>3. DOMAIN leases = {}
    BY <1>3, <1>8
  <2>4. ReadBack(leases, DOMAIN leases) = NoEntries
    BY <2>3 DEF ReadBack, NoEntries
  <2> QED
    BY <2>2, <2>4, EmptyFileLoads, EmptySeq DEF Whole
<1>9. CASE n # 0
  <2>0. \E u : /\ u[1] = pieces[1]
               /\ \A i \in 2 .. n : u[i] = u[i - 1] \o pieces[i]
               /\ Ext!FlattenSeq(pieces) = u[n]
    <3>1. n \in Nat \ {0} /\ Len(pieces) = n
      BY <1>2, <1>7, <1>9
    <3> QED
      BY <3>1, Flattened, Zenon
  <2>1. PICK u : /\ u[1] = pieces[1]
                 /\ \A i \in 2 .. n : u[i] = u[i - 1] \o pieces[i]
                 /\ Ext!FlattenSeq(pieces) = u[n]
    BY <2>0
  <2> DEFINE IsRead(k) == /\ u[k] \in Seq(Chars) /\ Whole(u[k])
                          /\ load(u[k]) = ReadBack(leases, {order[i] : i \in 1 .. k})
             P == {k \in 1 .. n : IsRead(k)}
  <2>2. IsRead(1)
    <3>0. 1 \in 1 .. n
      BY <1>2, <1>9
    <3>1. order[1] \in Mac /\ NamedLease(leases[order[1]]) /\ u[1] = line(1)
      BY <1>1, <1>5, <1>6, <2>1, <3>0, Zenon
    <3>2. <<>> \in Seq(Chars) /\ Whole(<<>>) /\ load(<<>>) = ReadBack(leases, {})
      BY EmptyFileLoads, EmptySeq DEF Whole, ReadBack, NoEntries
    <3> DEFINE t == <<>> \o line(1)
    <3>3. t \in Seq(Chars) /\ Whole(t) /\ load(t) = ReadBack(leases, {} \cup {order[1]})
      <4>1. PICK empty, none, mac : empty = <<>> /\ none = {} /\ mac = order[1]
        OBVIOUS
      <4>2. empty \in Seq(Chars) /\ Whole(empty) /\ load(empty) = ReadBack(leases, none)
        BY <3>2, <4>1
      <4>3. mac \in Mac /\ NamedLease(leases[mac])
        BY <3>1, <4>1
      <4>4. LET after == empty \o (format(mac, leases[mac]) \o <<NewLine>>)
            IN  /\ after \in Seq(Chars) /\ Whole(after)
                /\ load(after) = ReadBack(leases, none \cup {mac})
        BY <4>2, <4>3, LeaseAppended
      <4> QED
        BY <4>1, <4>4
    <3>4. t = line(1)
      <4>1. line(1) \in Seq(Chars)
        <5>1. format(order[1], leases[order[1]]) \in Seq(Chars) /\ <<NewLine>> \in Seq(Chars)
          BY <3>1, FormatIsRead, CharsAreDistinct
        <5> QED
          BY <5>1, ConcatProperties
      <4> QED
        BY <4>1, ConcatEmptySeq
    <3>5. {} \cup {order[1]} = {order[i] : i \in 1 .. 1}
      OBVIOUS
    <3> QED
      BY <3>1, <3>3, <3>4, <3>5
  <2>3. ASSUME NEW k \in 1 .. n - 1, IsRead(k) PROVE IsRead(k + 1)
    <3>1. k + 1 \in 2 .. n /\ k + 1 \in 1 .. n /\ (k + 1) - 1 = k
      BY <1>2
    <3>2. order[k + 1] \in Mac /\ NamedLease(leases[order[k + 1]])
      BY <1>1, <1>5, <3>1
    <3>3. u[k + 1] = u[k] \o line(k + 1)
      BY <1>6, <2>1, <3>1
    <3> DEFINE macs == {order[i] : i \in 1 .. k}  t == u[k] \o line(k + 1)
    <3>4. t \in Seq(Chars) /\ Whole(t) /\ load(t) = ReadBack(leases, macs \cup {order[k + 1]})
      <4> HIDE DEF macs
      <4>1. u[k] \in Seq(Chars) /\ Whole(u[k]) /\ load(u[k]) = ReadBack(leases, macs)
        BY <2>3 DEF macs
      <4> QED
        BY <3>2, <4>1, LeaseAppended
    <3>5. macs \cup {order[k + 1]} = {order[i] : i \in 1 .. k + 1}
      <4>1. \A i \in 1 .. k + 1 : i \in 1 .. k \/ i = k + 1
        BY <1>2
      <4>2. \A i \in 1 .. k : i \in 1 .. k + 1
        BY <1>2
      <4>3. k + 1 \in 1 .. k + 1
        BY <1>2
      <4> QED
        BY <4>1, <4>2, <4>3, Zenon
    <3> QED
      BY <3>3, <3>4, <3>5
  <2>4. IsRead(n)
    <3> HIDE DEF IsRead
    <3>1. 1 \in P
      BY <1>2, <1>9, <2>2
    <3>2. \A k \in 1 .. n - 1 : k \in P => k + 1 \in P
      BY <1>2, <2>3
    <3> HIDE DEF P
    <3>3. 1 .. n \subseteq P
      BY <1>2, <3>1, <3>2, Upward
    <3> QED
      BY <1>2, <1>9, <3>3 DEF P
  <2>5. {order[i] : i \in 1 .. n} = DOMAIN leases
    BY <1>3, <1>5
  <2> QED
    BY <1>4, <2>1, <2>4, <2>5
<1> QED
  BY <1>2, <1>8, <1>9

-----------------------------------------------------------------------------
(***************************************************************************)
(* The maps that the store and the file hold.                              *)
(***************************************************************************)
LEMMA PutIsNamed ==
    ASSUME NEW leases, IsNamedMap(leases), NEW mac \in Mac, NEW lease, NamedLease(lease)
    PROVE  IsNamedMap(Put(leases, mac, lease))
<1> DEFINE put == Put(leases, mac, lease)
<1>1. /\ DOMAIN put = DOMAIN leases \cup {mac} /\ put = [k \in DOMAIN put |-> put[k]]
      /\ \A k \in DOMAIN put : put[k] = IF k = mac THEN lease ELSE leases[k]
  BY DEF Put
<1> HIDE DEF put
<1>2. DOMAIN put \subseteq Mac /\ \A k \in DOMAIN put : NamedLease(put[k])
  BY <1>1 DEF IsNamedMap, IsMap
<1>3. IsNamedMap(put)
  BY <1>1, <1>2 DEF IsNamedMap, IsMap
<1> QED
  BY <1>3 DEF put

LEMMA RemoveIsNamed ==
    ASSUME NEW leases, IsNamedMap(leases), NEW mac
    PROVE  IsNamedMap(Remove(leases, mac))
<1> DEFINE rest == Remove(leases, mac)
<1>1. /\ DOMAIN rest = DOMAIN leases \ {mac} /\ rest = [k \in DOMAIN rest |-> rest[k]]
      /\ \A k \in DOMAIN rest : rest[k] = leases[k]
  BY DEF Remove, Restrict
<1> HIDE DEF rest
<1>2. DOMAIN rest \subseteq Mac /\ \A k \in DOMAIN rest : NamedLease(rest[k])
  BY <1>1 DEF IsNamedMap, IsMap
<1>3. IsNamedMap(rest)
  BY <1>1, <1>2 DEF IsNamedMap, IsMap
<1> QED
  BY <1>3 DEF rest

LEMMA ReadBackIsNamed ==
    ASSUME NEW leases, IsNamedMap(leases)
    PROVE  IsNamedMap(ReadBack(leases, DOMAIN leases))
<1> DEFINE back == ReadBack(leases, DOMAIN leases)
<1>1. /\ DOMAIN back = DOMAIN leases /\ back = [k \in DOMAIN back |-> back[k]]
      /\ \A k \in DOMAIN back : back[k] = AsRead(leases[k])
  BY DEF ReadBack
<1> HIDE DEF back
<1>2. ASSUME NEW lease, NamedLease(lease) PROVE NamedLease(AsRead(lease))
  <2>1. IsWord(lease.hostname) /\ IsWord(None)
    BY <1>2, EmptySeq DEF NamedLease, IsWord, None, Lacks
  <2>2. IsWord(read_hostname(lease.hostname))
    BY <2>1 DEF read_hostname
  <2>3. AsRead(lease) = [ip |-> lease.ip, hostname |-> read_hostname(lease.hostname),
                         expires_at |-> lease.expires_at]
    BY <1>2 DEF AsRead, NamedLease
  <2> QED
    BY <1>2, <2>2, <2>3 DEF NamedLease, IsWord
<1>3. DOMAIN back \subseteq Mac /\ \A k \in DOMAIN back : NamedLease(back[k])
  BY <1>1, <1>2 DEF IsNamedMap, IsMap
<1>4. IsNamedMap(back)
  BY <1>1, <1>3 DEF IsNamedMap, IsMap
<1> QED
  BY <1>4 DEF back

-----------------------------------------------------------------------------
(***************************************************************************)
(* The two properties support each other: the file must be typed for a     *)
(* load to be, and what is loaded is typed because it was recorded.        *)
(***************************************************************************)
TextInv == TypeOK /\ LoadsWhatWasSaved

LEMMA TextStarts ==
    Init => TextInv
<1> SUFFICES ASSUME Init PROVE TextInv
  OBVIOUS
<1>1. IsNamedMap(NoEntries)
  BY DEF IsNamedMap, IsMap, NoEntries
<1>2. <<>> \in Seq(Chars)
  BY EmptySeq
<1> QED
  BY <1>1, <1>2, EmptyFileLoads DEF Init, TextInv, TypeOK, LoadsWhatWasSaved

LEMMA TextKept ==
    TextInv /\ [Next]_vars => TextInv'
<1> SUFFICES ASSUME TextInv, [Next]_vars PROVE TextInv'
  OBVIOUS
<1>1. /\ IsNamedMap(by_mac) /\ IsNamedMap(recorded) /\ text \in Seq(Chars) /\ Whole(text)
      /\ edited \in BOOLEAN /\ load(text) = recorded
  BY DEF TextInv, TypeOK, LoadsWhatWasSaved, Whole
<1>2. SUFFICES /\ IsNamedMap(by_mac') /\ IsNamedMap(recorded') /\ text' \in Seq(Chars)
               /\ Whole(text') /\ edited' \in BOOLEAN /\ load(text') = recorded'
  BY DEF TextInv, TypeOK, LoadsWhatWasSaved, Whole
<1>3. ASSUME NEW mac \in Mac, NEW ip \in Ip, NEW raw \in Hostnames \cup {None}, NEW until \in Time,
             Ack(mac, ip, raw, until)
      PROVE  IsNamedMap(by_mac')
  <2>1. raw \in Seq(Chars)
    BY TextConstants, EmptySeq DEF None
  <2>2. NamedLease([ip |-> ip, hostname |-> hostname(raw), expires_at |-> until])
    BY <2>1, NameIsWord DEF NamedLease, IsWord
  <2> QED
    BY <1>1, <1>3, <2>2, PutIsNamed DEF Ack, Insert
<1>4. ASSUME NEW mac \in Mac, Forget(mac) PROVE IsNamedMap(by_mac')
  BY <1>1, <1>4, RemoveIsNamed DEF Forget
<1>5. CASE save
  <2>1. PICK order \in Orders(by_mac) : text' = SavedText(by_mac, order)
    BY <1>5 DEF save
  <2>2. /\ recorded' = ReadBack(by_mac, DOMAIN by_mac) /\ edited' = FALSE
        /\ UNCHANGED by_mac
    BY <1>5 DEF save, ReadBack
  <2>3. /\ text' \in Seq(Chars) /\ Whole(text')
        /\ load(text') = ReadBack(by_mac, DOMAIN by_mac)
    BY <1>1, <2>1, SavedIsRead, TextConstants
  <2> QED
    BY <1>1, <2>2, <2>3, ReadBackIsNamed
<1>6. CASE Restart
  BY <1>1, <1>6 DEF Restart
<1>7. ASSUME NEW line \in Edits, Edit(line)
      PROVE  /\ IsNamedMap(recorded') /\ text' \in Seq(Chars) /\ Whole(text')
             /\ load(text') = recorded'
  <2> DEFINE fields == Fields(line)  entry == Put(recorded, MacOf(fields), parse_line(fields))
  <2>1. line \in Seq(Chars) /\ Lacks(line, NewLine) /\ NewLine \in Chars
    BY TextConstants, CharsAreDistinct
  <2>2. ASSUME IsLease(fields) PROVE IsNamedMap(entry)
    BY <1>1, <2>1, <2>2, ReadLeaseIsNamed, PutIsNamed
  <2> HIDE DEF entry, fields
  <2>3. CASE /\ text' = text \o line \o <<NewLine>>
             /\ recorded' = IF IsLease(fields) THEN entry ELSE recorded
    <3>1. text' \in Seq(Chars) /\ Whole(text')
      BY <1>1, <2>1, <2>3, Joined DEF Whole
    <3>2. load(text') = recorded'
      BY <1>1, <2>1, <2>3, LoadsAppended DEF entry, fields
    <3> QED
      BY <1>1, <2>2, <2>3, <3>1, <3>2
  <2>4. CASE /\ text' = line \o <<NewLine>> \o text
             /\ recorded' = IF IsLease(fields) /\ MacOf(fields) \notin DOMAIN recorded
                            THEN entry ELSE recorded
    <3>1. text' \in Seq(Chars) /\ Whole(text')
      <4> DEFINE first == <<>> \o line \o <<NewLine>>
      <4>1. first \in Seq(Chars) /\ first[Len(first)] = NewLine /\ Len(first) \in Nat \ {0}
        <5>1. <<>> \in Seq(Chars) /\ Len(<<>>) = 0 /\ Len(line) \in Nat
          BY <2>1, EmptySeq, LenProperties
        <5>2. /\ first \in Seq(Chars) /\ Len(first) = Len(<<>>) + Len(line) + 1
              /\ first[Len(first)] = NewLine
          BY <2>1, <5>1, Joined
        <5> QED
          BY <5>1, <5>2
      <4>2. text' = first \o text
        BY <2>1, <2>4, ConcatEmptySeq
      <4> HIDE DEF first
      <4>3. /\ text' \in Seq(Chars) /\ Len(text') = Len(first) + Len(text)
            /\ \A i \in 1 .. Len(first) + Len(text) :
                  text'[i] = IF i <= Len(first) THEN first[i] ELSE text[i - Len(first)]
        BY <1>1, <4>1, <4>2, ConcatProperties
      <4>4. CASE text = <<>>
        BY <4>1, <4>2, <4>4, ConcatEmptySeq DEF Whole
      <4>5. CASE text # <<>>
        <5>1. Len(text) \in Nat \ {0} /\ text[Len(text)] = NewLine
          BY <1>1, <4>5, EmptySeq, LenProperties DEF Whole
        <5>2. /\ Len(text') \in 1 .. Len(first) + Len(text) /\ ~(Len(text') <= Len(first))
              /\ Len(text') - Len(first) = Len(text)
          BY <4>1, <4>3, <5>1
        <5>3. text'[Len(text')] = text[Len(text)]
          BY <4>3, <5>2
        <5> QED
          BY <4>3, <5>1, <5>3 DEF Whole
      <4> QED
        BY <4>4, <4>5
    <3>2. load(text') = recorded'
      BY <1>1, <2>1, <2>4, LoadsPrepended DEF entry, fields
    <3> QED
      BY <1>1, <2>2, <2>4, <3>1, <3>2
  <2> QED
    BY <1>7, <2>3, <2>4, Zenon DEF Edit, entry, fields
<1>8. CASE UNCHANGED vars
  BY <1>1, <1>8 DEF vars
<1> QED
  <2>1. CASE \E mac \in Mac, ip \in Ip, raw \in Hostnames \cup {None}, until \in Time :
                Ack(mac, ip, raw, until)
    <3>1. UNCHANGED <<text, recorded, edited>>
      BY <2>1 DEF Ack
    <3> QED
      BY <1>1, <1>3, <2>1, <3>1
  <2>2. CASE \E mac \in Mac : Forget(mac)
    <3>1. UNCHANGED <<text, recorded, edited>>
      BY <2>2 DEF Forget
    <3> QED
      BY <1>1, <1>4, <2>2, <3>1
  <2>3. CASE \E line \in Edits : Edit(line)
    <3>1. UNCHANGED by_mac /\ edited' = TRUE
      BY <2>3 DEF Edit
    <3> QED
      BY <1>1, <1>7, <2>3, <3>1
  <2> QED
    BY <1>5, <1>6, <1>8, <2>1, <2>2, <2>3 DEF Next

LEMMA TextAlways ==
    Spec => []TextInv
  BY TextStarts, TextKept, PTL DEF Spec

(***************************************************************************)
(* Whatever clients put into option 12, every name that the store holds,   *)
(* saves and loads is one word, and the file consists of whole lines       *)
(* (Options::hostname, LeaseStore::save): for every set of clients that is *)
(* finite, and every set of names and of lines.                            *)
(***************************************************************************)
THEOREM NamesAreWords ==
    Spec => []TypeOK
<1>1. TextInv => TypeOK
  BY DEF TextInv
<1> QED
  BY <1>1, TextAlways, PTL

(***************************************************************************)
(* What is loaded is what was saved, lease by lease and field by field,    *)
(* changed only by the lease that an administrator's line names            *)
(* (LeaseStore::save, LeaseStore::load, parse_line).  The argument goes    *)
(* along the file: a formatted lease is one line that reads as itself      *)
(* (FormatIsRead), and a line at either end of a text changes no other     *)
(* (LoadsAppended, LoadsPrepended).                                        *)
(***************************************************************************)
THEOREM FileLoadsAsSaved ==
    Spec => []LoadsWhatWasSaved
<1>1. TextInv => LoadsWhatWasSaved
  BY DEF TextInv
<1> QED
  BY <1>1, TextAlways, PTL

=============================================================================
