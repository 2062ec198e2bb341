----------------------------- MODULE Login_proof ----------------------------
(***************************************************************************)
(* Nothing is lost or mistaken between the configuration of a client and   *)
(* the verdict on its login: for strings, fields and sequence numbers of   *)
(* any length, in any base, and for any request of another client.         *)
(***************************************************************************)
EXTENDS Login, SequenceTheorems, WellFoundedInduction, TLAPS

-----------------------------------------------------------------------------
\* Least elements and induction on the naturals, for sets instead of predicates.

\* A set of naturals that is not empty has a least element.
LEMMA Least ==
  ASSUME NEW T, T \subseteq Nat, T # {}
  PROVE  \E n \in T : \A m \in T : n <= m
<1>1. PICK n \in T : \A m \in T : ~(<<m, n>> \in OpToRel(<, Nat))
  BY NatLessThanWellFounded, WFMin, Zenon
<1>2. ASSUME NEW m \in T
      PROVE  n <= m
  <2>1. m \in Nat /\ n \in Nat
    OBVIOUS
  <2>2. ~(m < n)
    BY <1>1, <2>1 DEF OpToRel
  <2> QED BY <2>1, <2>2
<1> QED BY <1>2

\* A set of naturals that is not empty and bounded has a greatest element.
LEMMA Greatest ==
  ASSUME NEW b \in Nat, NEW T, T \subseteq 0..b, T # {}
  PROVE  \E n \in T : \A m \in T : n >= m
<1> DEFINE R == {b - m : m \in T}
<1>1. R \subseteq Nat /\ R # {}
  OBVIOUS
<1>2. PICK r \in R : \A m \in R : r <= m
  <2> HIDE DEF R
  <2> QED BY <1>1, Least
<1>3. PICK n \in T : r = b - n
  OBVIOUS
<1>4. ASSUME NEW m \in T
      PROVE  n >= m
  <2>1. b - m \in R
    OBVIOUS
  <2>2. b - n <= b - m
    BY <1>2, <1>3, <2>1
  <2> QED BY <2>2
<1> QED BY <1>4

\* A set that has 0 and with each natural the next one has them all.
LEMMA Induction ==
  ASSUME NEW T, 0 \in T, \A n \in Nat : n \in T => n + 1 \in T
  PROVE  \A n \in Nat : n \in T
<1> DEFINE R == {n \in Nat : n \notin T}
<1> SUFFICES ASSUME R # {} PROVE FALSE
  OBVIOUS
<1>1. PICK n \in R : \A m \in R : n <= m
  <2>1. R \subseteq Nat
    OBVIOUS
  <2> HIDE DEF R
  <2> QED BY <2>1, Least
<1>2. n \in Nat \ {0} /\ n - 1 \in Nat
  OBVIOUS
<1>3. n - 1 \in T
  BY <1>1, <1>2
<1>4. (n - 1) + 1 = n
  BY <1>2
<1> QED BY <1>2, <1>3, <1>4

-----------------------------------------------------------------------------
\* Strings.

\* A string of letters and digits that fits.
Name(s, length) ==
  s \in Seq(Chars) /\ Len(s) <= length /\ \A i \in 1..Len(s) : isalnum(s[i])

\* The names are what validation lets through.
LEMMA ValidIsName ==
  ASSUME NEW s \in Seq(Chars), NEW length \in Nat
  PROVE  (validate(s, length) = "none") <=> Name(s, length)
<1>1. Len(s) \in Nat
  OBVIOUS
<1> QED BY <1>1 DEF validate, Name

\* What the first element that fails a test is found to be.
LEMMA FirstOf ==
  ASSUME NEW n \in Nat, NEW T, T \subseteq 1..n, T # {}
  PROVE  Min(T) \in T /\ \A i \in 1..(Min(T) - 1) : i \notin T
<1>1. \E m \in T : \A i \in T : m <= i
  <2>1. T \subseteq Nat
    OBVIOUS
  <2> QED BY <2>1, Least
<1> DEFINE m == Min(T)
<1>2. m \in T /\ \A i \in T : m <= i
  BY <1>1 DEF Min
<1> HIDE DEF m
<1>3. ASSUME NEW i \in 1..(m - 1)
      PROVE  i \notin T
  BY <1>2
<1> QED BY <1>2, <1>3 DEF m

\* What the last one is found to be, or 0.
LEMMA LastOf ==
  ASSUME NEW n \in Nat, NEW T, T \subseteq 1..n, NEW m, m = IF T # {} THEN Max(T) ELSE 0
  PROVE  m \in 0..n /\ (m > 0 => m \in T) /\ \A i \in (m + 1)..n : i \notin T
<1>1. CASE T = {}
  <2>1. m = 0
    BY <1>1
  <2> QED BY <1>1, <2>1
<1>2. CASE T # {}
  <2>1. \E k \in T : \A i \in T : k >= i
    <3>1. T \subseteq 0..n
      OBVIOUS
    <3> QED BY <1>2, <3>1, Greatest
  <2>2. m \in T /\ \A i \in T : m >= i
    BY <1>2, <2>1 DEF Max
  <2>3. ASSUME NEW i \in (m + 1)..n
        PROVE  i \notin T
    BY <2>2
  <2> QED BY <2>2, <2>3
<1> QED BY <1>1, <1>2

\* An alphanumeric prefix ends where the string does, or before a character
\* that is neither a letter nor a digit.
LEMMA PrefixEnds ==
  ASSUME NEW s \in Seq(Chars)
  PROVE  \E n \in 0..Len(s) :
           /\ alphanumeric_prefix(s) = SubSeq(s, 1, n)
           /\ \A i \in 1..n : isalnum(s[i])
           /\ n < Len(s) => ~isalnum(s[n + 1])
<1> DEFINE T == {i \in 1..Len(s) : ~isalnum(s[i])}
<1>1. Len(s) \in Nat
  OBVIOUS
<1>2. CASE T = {}
  <2>1. alphanumeric_prefix(s) = s
    BY <1>2 DEF alphanumeric_prefix, SelectInSeq
  <2>2. SubSeq(s, 1, Len(s)) = s
    OBVIOUS
  <2>3. \A i \in 1..Len(s) : isalnum(s[i])
    BY <1>2
  <2>4. Len(s) \in 0..Len(s) /\ ~(Len(s) < Len(s))
    BY <1>1
  <2> QED BY <2>1, <2>2, <2>3, <2>4
<1>3. CASE T # {}
  <2> DEFINE m == Min(T)
  <2>1. m \in T /\ \A i \in 1..(m - 1) : i \notin T
    <3>1. T \subseteq 1..Len(s)
      OBVIOUS
    <3> HIDE DEF T
    <3> QED BY <1>1, <1>3, <3>1, FirstOf
  <2>2. alphanumeric_prefix(s) = IF m = 0 THEN s ELSE SubSeq(s, 1, m - 1)
    BY <1>3 DEF alphanumeric_prefix, SelectInSeq
  <2> HIDE DEF m
  <2>3. m \in 1..Len(s) /\ ~isalnum(s[m])
    BY <2>1
  <2>4. m - 1 \in 0..Len(s) /\ (m - 1) + 1 = m /\ m # 0
    BY <1>1, <2>3
  <2>5. ASSUME NEW i \in 1..(m - 1)
        PROVE  isalnum(s[i])
    <3>1. i \in 1..Len(s)
      BY <1>1, <2>3
    <3> QED BY <2>1, <3>1
  <2> QED BY <2>2, <2>3, <2>4, <2>5
<1> QED BY <1>2, <1>3

\* An alphanumeric suffix begins where the string does, or behind a character
\* that is neither a letter nor a digit.
LEMMA SuffixBegins ==
  ASSUME NEW s \in Seq(Chars)
  PROVE  \E n \in 0..Len(s) :
           /\ alphanumeric_suffix(s) = SubSeq(s, n + 1, Len(s))
           /\ \A i \in (n + 1)..Len(s) : isalnum(s[i])
           /\ n > 0 => ~isalnum(s[n])
<1> DEFINE T == {i \in 1..Len(s) : ~isalnum(s[i])}
           m == IF T # {} THEN Max(T) ELSE 0
<1>1. Len(s) \in Nat /\ T \subseteq 1..Len(s)
  OBVIOUS
<1>2. alphanumeric_suffix(s) = SubSeq(s, m + 1, Len(s))
  BY DEF alphanumeric_suffix, SelectLastInSeq
<1>3. m \in 0..Len(s) /\ (m > 0 => m \in T) /\ \A i \in (m + 1)..Len(s) : i \notin T
  <2> HIDE DEF T
  <2> QED BY <1>1, LastOf
<1> HIDE DEF m
<1>4. ASSUME NEW i \in (m + 1)..Len(s)
      PROVE  isalnum(s[i])
  <2>1. i \in 1..Len(s)
    BY <1>1, <1>3
  <2> QED BY <1>3, <2>1
<1> QED BY <1>2, <1>3, <1>4

\* A digit suffix begins where the field does, or behind a character that is
\* not a digit.
LEMMA DigitsBegin ==
  ASSUME NEW s \in Seq(Chars)
  PROVE  \E n \in 0..Len(s) :
           /\ digit_suffix(s) = SubSeq(s, n + 1, Len(s))
           /\ \A i \in (n + 1)..Len(s) : isdigit(s[i])
           /\ n > 0 => ~isdigit(s[n])
<1> DEFINE T == {i \in 1..Len(s) : ~isdigit(s[i])}
           m == IF T # {} THEN Max(T) ELSE 0
<1>1. Len(s) \in Nat /\ T \subseteq 1..Len(s)
  OBVIOUS
<1>2. digit_suffix(s) = SubSeq(s, m + 1, Len(s))
  BY DEF digit_suffix, SelectLastInSeq
<1>3. m \in 0..Len(s) /\ (m > 0 => m \in T) /\ \A i \in (m + 1)..Len(s) : i \notin T
  <2> HIDE DEF T
  <2> QED BY <1>1, LastOf
<1> HIDE DEF m
<1>4. ASSUME NEW i \in (m + 1)..Len(s)
      PROVE  isdigit(s[i])
  <2>1. i \in 1..Len(s)
    BY <1>1, <1>3
  <2> QED BY <1>3, <2>1
<1> QED BY <1>2, <1>3, <1>4

-----------------------------------------------------------------------------
\* Fields of strings.

LEMMA Spaces ==
  ASSUME NEW n \in Nat
  PROVE  /\ padding(n) \in Seq(Chars) /\ Len(padding(n)) = n
         /\ \A i \in 1..n : ~isalnum(padding(n)[i]) /\ ~isdigit(padding(n)[i])
<1>1. Space \in Chars /\ ~isalnum(Space) /\ ~isdigit(Space)
  BY LoginAssumption DEF Space, Chars, Letter, Other, isalnum, isdigit
<1>2. padding(n) \in [1..n -> Chars]
  BY <1>1 DEF padding
<1>3. padding(n) \in Seq(Chars)
  BY <1>2, IsASeq
<1>4. Len(padding(n)) = n
  BY <1>2, <1>3, LenProperties DEF padding
<1>5. \A i \in 1..n : padding(n)[i] = Space
  BY DEF padding
<1> QED BY <1>1, <1>3, <1>4, <1>5

\* What is unpacked from a field is a name.
LEMMA PrefixIsName ==
  ASSUME NEW s \in Seq(Chars)
  PROVE  Name(alphanumeric_prefix(s), Len(s))
<1>1. PICK n \in 0..Len(s) :
        alphanumeric_prefix(s) = SubSeq(s, 1, n) /\ \A i \in 1..n : isalnum(s[i])
  BY PrefixEnds
<1> DEFINE t == SubSeq(s, 1, n)
<1>2. t \in Seq(Chars) /\ Len(t) = n /\ \A i \in 1..n : t[i] = s[i]
  OBVIOUS
<1> QED BY <1>1, <1>2 DEF Name

LEMMA SuffixIsName ==
  ASSUME NEW s \in Seq(Chars)
  PROVE  Name(alphanumeric_suffix(s), Len(s))
<1>1. PICK n \in 0..Len(s) :
        alphanumeric_suffix(s) = SubSeq(s, n + 1, Len(s))
        /\ \A i \in (n + 1)..Len(s) : isalnum(s[i])
  BY SuffixBegins
<1> DEFINE t == SubSeq(s, n + 1, Len(s))
<1>2. t \in Seq(Chars) /\ Len(t) = Len(s) - n /\ \A i \in 1..(Len(s) - n) : t[i] = s[n + i]
  OBVIOUS
<1>3. ASSUME NEW i \in 1..Len(t)
      PROVE  isalnum(t[i])
  <2>1. n + i \in (n + 1)..Len(s) /\ t[i] = s[n + i]
    BY <1>2
  <2> QED BY <1>1, <2>1
<1> HIDE DEF t
<1>4. Len(t) <= Len(s)
  BY <1>2
<1>5. Name(t, Len(s))
  BY <1>2, <1>3, <1>4 DEF Name
<1> QED BY <1>1, <1>5 DEF t

\* Padding is not taken for a part of a name.
LEMMA PrefixOfPadded ==
  ASSUME NEW length \in Nat, NEW t, Name(t, length), NEW m \in Nat
  PROVE  alphanumeric_prefix(t \o padding(m)) = t
<1> DEFINE p == padding(m)
           s == t \o p
<1>1. t \in Seq(Chars) /\ Len(t) \in Nat /\ \A i \in 1..Len(t) : isalnum(t[i])
  BY DEF Name
<1>2. p \in Seq(Chars) /\ Len(p) = m /\ \A i \in 1..m : ~isalnum(p[i])
  BY Spaces
<1> HIDE DEF p
<1>3. /\ s \in Seq(Chars) /\ Len(s) = Len(t) + m
      /\ \A i \in 1..Len(t) : s[i] = t[i]
      /\ \A i \in 1..m : s[Len(t) + i] = p[i]
      /\ SubSeq(s, 1, Len(t)) = t
  BY <1>1, <1>2
<1> HIDE DEF s
<1>4. PICK n \in 0..Len(s) :
        /\ alphanumeric_prefix(s) = SubSeq(s, 1, n)
        /\ \A i \in 1..n : isalnum(s[i])
        /\ n < Len(s) => ~isalnum(s[n + 1])
  BY <1>3, PrefixEnds
<1>5. ~(n < Len(t))
  <2> SUFFICES ASSUME n < Len(t) PROVE FALSE
    OBVIOUS
  <2>1. n + 1 \in 1..Len(t) /\ n < Len(s)
    BY <1>1, <1>3
  <2> QED BY <1>1, <1>3, <1>4, <2>1
<1>6. ~(n > Len(t))
  <2> SUFFICES ASSUME n > Len(t) PROVE FALSE
    OBVIOUS
  <2>1. 1 \in 1..m /\ Len(t) + 1 \in 1..n
    BY <1>1, <1>3
  <2> QED BY <1>2, <1>3, <1>4, <2>1
<1>7. n = Len(t)
  BY <1>1, <1>3, <1>5, <1>6
<1>8. alphanumeric_prefix(s) = t
  BY <1>3, <1>4, <1>7
<1> QED BY <1>8 DEF s, p

LEMMA SuffixOfPadded ==
  ASSUME NEW length \in Nat, NEW t, Name(t, length), NEW m \in Nat
  PROVE  alphanumeric_suffix(padding(m) \o t) = t
<1> DEFINE p == padding(m)
           s == p \o t
<1>1. t \in Seq(Chars) /\ Len(t) \in Nat /\ \A i \in 1..Len(t) : isalnum(t[i])
  BY DEF Name
<1>2. p \in Seq(Chars) /\ Len(p) = m /\ \A i \in 1..m : ~isalnum(p[i])
  BY Spaces
<1> HIDE DEF p
<1>3. /\ s \in Seq(Chars) /\ Len(s) = m + Len(t)
      /\ \A i \in 1..m : s[i] = p[i]
      /\ \A i \in 1..Len(t) : s[m + i] = t[i]
      /\ SubSeq(s, m + 1, Len(s)) = t
  BY <1>1, <1>2
<1> HIDE DEF s
<1>4. PICK n \in 0..Len(s) :
        /\ alphanumeric_suffix(s) = SubSeq(s, n + 1, Len(s))
        /\ \A i \in (n + 1)..Len(s) : isalnum(s[i])
        /\ n > 0 => ~isalnum(s[n])
  BY <1>3, SuffixBegins
<1>5. ~(n < m)
  <2> SUFFICES ASSUME n < m PROVE FALSE
    OBVIOUS
  <2>1. m \in 1..m /\ m \in (n + 1)..Len(s)
    BY <1>1, <1>3
  <2> QED BY <1>2, <1>3, <1>4, <2>1
<1>6. ~(n > m)
  <2> SUFFICES ASSUME n > m PROVE FALSE
    OBVIOUS
  <2>1. n - m \in 1..Len(t) /\ n = m + (n - m) /\ n > 0
    BY <1>1, <1>3
  <2> QED BY <1>1, <1>3, <1>4, <2>1
<1>7. n = m
  BY <1>1, <1>3, <1>5, <1>6
<1>8. alphanumeric_suffix(s) = t
  BY <1>3, <1>4, <1>7
<1> QED BY <1>8 DEF s, p

\* What is written to a field has its length, what is read from it is a name,
\* and it is the string exactly if that was a name.
LEMMA RightPadded ==
  ASSUME NEW s \in Seq(Chars), NEW length \in Nat
  PROVE  LET f == pack_right_padded(s, length)
             t == unpack_right_padded(f)
         IN  /\ f \in Seq(Chars) /\ Len(f) = length
             /\ Name(t, length) /\ (t = s <=> Name(s, length))
<1> DEFINE c == truncated(s, length)
           t == alphanumeric_prefix(c)
           f == t \o padding(length - Len(t))
<1>1. Len(s) \in Nat
  OBVIOUS
<1>2. c \in Seq(Chars) /\ Len(c) <= length /\ Len(c) \in Nat
  BY <1>1 DEF truncated
<1>3. Name(t, Len(c))
  <2> HIDE DEF c
  <2> QED BY <1>2, PrefixIsName
<1>4. Name(t, length) /\ t \in Seq(Chars) /\ Len(t) \in Nat /\ length - Len(t) \in Nat
  <2> HIDE DEF t, c
  <2> QED BY <1>2, <1>3 DEF Name
<1>5. f \in Seq(Chars) /\ Len(f) = length
  <2> HIDE DEF t, c
  <2>1. /\ padding(length - Len(t)) \in Seq(Chars)
        /\ Len(padding(length - Len(t))) = length - Len(t)
    BY <1>4, Spaces
  <2> QED BY <1>4, <2>1
<1>6. alphanumeric_prefix(f) = t
  <2> HIDE DEF t, c
  <2> QED BY <1>4, PrefixOfPadded
<1>7. ASSUME Name(s, length)
      PROVE  t = s
  <2>1. c = s /\ \A i \in 1..Len(s) : isalnum(s[i])
    BY <1>1, <1>7 DEF Name, truncated
  <2>2. PICK n \in 0..Len(s) :
          alphanumeric_prefix(s) = SubSeq(s, 1, n) /\ (n < Len(s) => ~isalnum(s[n + 1]))
    BY PrefixEnds
  <2>3. n = Len(s)
    BY <1>1, <2>1, <2>2
  <2>4. SubSeq(s, 1, Len(s)) = s
    OBVIOUS
  <2> QED BY <2>1, <2>2, <2>3, <2>4
<1>8. pack_right_padded(s, length) = f
  BY DEF pack_right_padded
<1> HIDE DEF f, t, c
<1> QED BY <1>4, <1>5, <1>6, <1>7, <1>8 DEF unpack_right_padded

LEMMA LeftPadded ==
  ASSUME NEW s \in Seq(Chars), NEW length \in Nat
  PROVE  LET f == pack_left_padded(s, length)
             t == unpack_left_padded(f)
         IN  /\ f \in Seq(Chars) /\ Len(f) = length
             /\ Name(t, length) /\ (t = s <=> Name(s, length))
<1> DEFINE c == truncated(s, length)
           t == alphanumeric_suffix(c)
           f == padding(length - Len(t)) \o t
<1>1. Len(s) \in Nat
  OBVIOUS
<1>2. c \in Seq(Chars) /\ Len(c) <= length /\ Len(c) \in Nat
  BY <1>1 DEF truncated
<1>3. Name(t, Len(c))
  <2> HIDE DEF c
  <2> QED BY <1>2, SuffixIsName
<1>4. Name(t, length) /\ t \in Seq(Chars) /\ Len(t) \in Nat /\ length - Len(t) \in Nat
  <2> HIDE DEF t, c
  <2> QED BY <1>2, <1>3 DEF Name
<1>5. f \in Seq(Chars) /\ Len(f) = length
  <2> HIDE DEF t, c
  <2>1. /\ padding(length - Len(t)) \in Seq(Chars)
        /\ Len(padding(length - Len(t))) = length - Len(t)
    BY <1>4, Spaces
  <2> QED BY <1>4, <2>1
<1>6. alphanumeric_suffix(f) = t
  <2> HIDE DEF t, c
  <2> QED BY <1>4, SuffixOfPadded
<1>7. ASSUME Name(s, length)
      PROVE  t = s
  <2>1. c = s /\ \A i \in 1..Len(s) : isalnum(s[i])
    BY <1>1, <1>7 DEF Name, truncated
  <2>2. PICK n \in 0..Len(s) :
          alphanumeric_suffix(s) = SubSeq(s, n + 1, Len(s)) /\ (n > 0 => ~isalnum(s[n]))
    BY SuffixBegins
  <2>3. n = 0
    BY <1>1, <2>1, <2>2
  <2>4. SubSeq(s, 0 + 1, Len(s)) = s
    OBVIOUS
  <2> QED BY <2>1, <2>2, <2>3, <2>4
<1>8. pack_left_padded(s, length) = f
  BY DEF pack_left_padded
<1> HIDE DEF f, t, c
<1> QED BY <1>4, <1>5, <1>6, <1>7, <1>8 DEF unpack_left_padded

-----------------------------------------------------------------------------
\* Recursion up to n.

\* g begins with s0, and each of its values is what step makes of the index and
\* the value before it.
Steps(g, n, S, s0, step) ==
  g \in [0..n -> S] /\ g[0] = s0 /\ \A k \in 1..n : g[k] = step[<<k, g[k - 1]>>]

\* There is such a function.
LEMMA StepsExist ==
  ASSUME NEW n \in Nat, NEW S, NEW s0 \in S, NEW step \in [(1..n) \X S -> S]
  PROVE  \E g : Steps(g, n, S, s0, step)
<1> DEFINE T == {i \in Nat : i <= n => \E g : Steps(g, i, S, s0, step)}
<1>1. 0 \in T
  <2> DEFINE g == [k \in 0..0 |-> s0]
  <2>1. Steps(g, 0, S, s0, step)
    BY DEF Steps
  <2> QED BY <2>1
<1>2. ASSUME NEW i \in Nat, i \in T
      PROVE  i + 1 \in T
  <2> SUFFICES ASSUME i + 1 <= n PROVE \E h : Steps(h, i + 1, S, s0, step)
    OBVIOUS
  <2>1. PICK g : Steps(g, i, S, s0, step)
    BY <1>2
  <2>2. /\ g \in [0..i -> S] /\ g[0] = s0 /\ g[i] \in S
        /\ \A k \in 1..i : g[k] = step[<<k, g[k - 1]>>]
    BY <2>1 DEF Steps
  <2>3. step[<<i + 1, g[i]>>] \in S
    <3>1. <<i + 1, g[i]>> \in (1..n) \X S
      BY <2>2
    <3> QED BY <3>1
  <2> DEFINE h == [k \in 0..(i + 1) |-> IF k <= i THEN g[k] ELSE step[<<i + 1, g[i]>>]]
  <2>4. h \in [0..(i + 1) -> S] /\ h[0] = s0 /\ h[i + 1] = step[<<i + 1, g[i]>>]
        /\ \A k \in 0..i : h[k] = g[k]
    BY <2>2, <2>3
  <2> HIDE DEF h
  <2>5. ASSUME NEW k \in 1..(i + 1)
        PROVE  h[k] = step[<<k, h[k - 1]>>]
    <3>1. CASE k = i + 1
      <4>1. k - 1 = i /\ i \in 0..i
        BY <3>1
      <4> QED BY <2>4, <3>1, <4>1
    <3>2. CASE k # i + 1
      <4>1. k \in 1..i /\ k \in 0..i /\ k - 1 \in 0..i
        BY <3>2
      <4>2. g[k] = step[<<k, g[k - 1]>>]
        BY <2>2, <4>1
      <4> QED BY <2>4, <4>1, <4>2
    <3> QED BY <3>1, <3>2
  <2>6. Steps(h, i + 1, S, s0, step)
    BY <2>4, <2>5 DEF Steps
  <2> QED BY <2>6
<1> HIDE DEF T
<1>3. n \in T
  BY <1>1, <1>2, Induction
<1> QED BY <1>3 DEF T

\* Whatever satisfies the recursion is such a function.
LEMMA StepsHold ==
  ASSUME NEW n \in Nat, NEW S, NEW s0 \in S, NEW step \in [(1..n) \X S -> S],
         NEW f, f = [k \in 0..n |-> f[k]], f[0] = s0,
         \A k \in 1..n : f[k - 1] \in S => f[k] = step[<<k, f[k - 1]>>]
  PROVE  Steps(f, n, S, s0, step)
<1> DEFINE T == {k \in Nat : k <= n => f[k] \in S}
<1>1. 0 \in T
  OBVIOUS
<1>2. ASSUME NEW k \in Nat, k \in T
      PROVE  k + 1 \in T
  <2> SUFFICES ASSUME k + 1 <= n PROVE f[k + 1] \in S
    OBVIOUS
  <2>1. k + 1 \in 1..n /\ (k + 1) - 1 = k /\ f[k] \in S
    BY <1>2
  <2>2. f[k + 1] = step[<<k + 1, f[k]>>]
    BY <2>1
  <2>3. <<k + 1, f[k]>> \in (1..n) \X S
    BY <2>1
  <2> QED BY <2>2, <2>3
<1> HIDE DEF T
<1>3. \A k \in Nat : k \in T
  BY <1>1, <1>2, Induction
<1>4. \A k \in 0..n : f[k] \in S
  BY <1>3 DEF T
<1>5. \A k \in 1..n : k - 1 \in 0..n
  OBVIOUS
<1>6. f \in [0..n -> S]
  BY <1>4
<1>7. \A k \in 1..n : f[k] = step[<<k, f[k - 1]>>]
  BY <1>4, <1>5
<1> QED BY <1>6, <1>7 DEF Steps

\* The powers of the base.
LEMMA Powers ==
  /\ base \in Nat /\ base > 1 /\ sequence_number_length \in Nat
  /\ sequence_number_length > 0
  /\ power \in [0..sequence_number_length -> Nat \ {0}] /\ power[0] = 1
  /\ \A n \in 1..sequence_number_length : power[n] = base * power[n - 1]
<1> DEFINE L == sequence_number_length
           S == Nat \ {0}
           step == [p \in (1..L) \X S |-> base * p[2]]
           Eq(f) == f = [n \in 0..L |-> IF n = 0 THEN 1 ELSE base * f[n - 1]]
<1>1. base \in Nat /\ base > 1 /\ L \in Nat /\ L > 0 /\ 1 \in S
  BY LoginAssumption
<1>2. step \in [(1..L) \X S -> S]
  <2>1. ASSUME NEW p \in (1..L) \X S
        PROVE  base * p[2] \in S
    <3>1. p[2] \in Nat /\ p[2] # 0
      OBVIOUS
    <3> QED BY <1>1, <3>1
  <2> QED BY <2>1
<1>3. ASSUME NEW n \in 1..L, NEW x \in S
      PROVE  step[<<n, x>>] = base * x
  <2>1. <<n, x>> \in (1..L) \X S
    OBVIOUS
  <2> QED BY <2>1
<1>4. \A n \in 1..L : n \in 0..L /\ n # 0 /\ n - 1 \in 0..L
  BY <1>1
<1> HIDE DEF step, S
<1>5. \E f : Eq(f)
  <2>1. PICK g : Steps(g, L, S, 1, step)
    BY <1>1, <1>2, StepsExist
  <2>2. /\ g \in [0..L -> S] /\ g[0] = 1
        /\ \A n \in 1..L : g[n] = base * g[n - 1]
    BY <1>3, <1>4, <2>1 DEF Steps
  <2>3. \A n \in 0..L : g[n] = IF n = 0 THEN 1 ELSE base * g[n - 1]
    <3>1. \A n \in 0..L : n = 0 \/ n \in 1..L
      BY <1>1
    <3> QED BY <2>2, <3>1
  <2>4. Eq(g)
    BY <2>2, <2>3
  <2> QED BY <2>4
<1>6. Eq(power)
  <2>1. power = CHOOSE f : Eq(f)
    BY DEF power
  <2> HIDE DEF Eq
  <2> QED BY <1>5, <2>1
<1>7. Steps(power, L, S, 1, step)
  <2>1. 0 \in 0..L
    BY <1>1
  <2>2. power = [n \in 0..L |-> power[n]] /\ power[0] = 1
    BY <1>6, <2>1
  <2>3. \A n \in 1..L : power[n] = base * power[n - 1]
    BY <1>4, <1>6
  <2>4. \A n \in 1..L : power[n - 1] \in S => power[n] = step[<<n, power[n - 1]>>]
    BY <1>3, <2>3
  <2> HIDE DEF Eq
  <2> QED BY <1>1, <1>2, <2>2, <2>4, StepsHold
<1> QED BY <1>1, <1>3, <1>4, <1>7 DEF Steps, S

-----------------------------------------------------------------------------
\* Division.

LEMMA Division ==
  ASSUME NEW a \in Nat, NEW m \in Nat, m > 0
  PROVE  a \div m \in Nat /\ a % m \in 0..(m - 1) /\ a = m * (a \div m) + (a % m)
OBVIOUS

LEMMA DivisionUnique ==
  ASSUME NEW m \in Nat, m > 0, NEW q \in Nat, NEW r \in 0..(m - 1)
  PROVE  (m * q + r) \div m = q /\ (m * q + r) % m = r
<1> DEFINE a == m * q + r
<1>1. a \in Nat /\ m * q \in Nat
  OBVIOUS
<1>2. a \div m \in Nat /\ a % m \in 0..(m - 1) /\ a = m * (a \div m) + (a % m)
  <2> HIDE DEF a
  <2> QED BY <1>1, Division
<1> DEFINE p == a \div m
           s == a % m
<1> SUFFICES p = q /\ s = r
  OBVIOUS
<1>3. p \in Nat /\ s \in 0..(m - 1) /\ m * q + r = m * p + s
  BY <1>2
<1> HIDE DEF p, s, a
<1>4. m * (q - p) = s - r
  BY <1>3
<1>5. ~(q > p)
  <2> SUFFICES ASSUME q > p PROVE FALSE
    OBVIOUS
  <2>1. m * (q - p) >= m
    BY <1>3
  <2> QED BY <1>3, <1>4, <2>1
<1>6. ~(q < p)
  <2> SUFFICES ASSUME q < p PROVE FALSE
    OBVIOUS
  <2>1. m * (q - p) <= -m
    BY <1>3
  <2> QED BY <1>3, <1>4, <2>1
<1>7. p = q
  BY <1>3, <1>5, <1>6
<1> QED BY <1>3, <1>7

\* The remainder of a number of the form m * k + y is that of y.
LEMMA RemainderOf ==
  ASSUME NEW m \in Nat, m > 0, NEW k \in Nat, NEW y \in Nat
  PROVE  (m * k + y) % m = y % m
<1> DEFINE q == y \div m
           r == y % m
<1>1. q \in Nat /\ r \in 0..(m - 1) /\ y = m * q + r
  BY Division
<1> HIDE DEF q, r
<1>2. m * k + y = m * (k + q) + r /\ k + q \in Nat
  BY <1>1
<1>3. (m * (k + q) + r) % m = r
  BY <1>1, <1>2, DivisionUnique
<1> QED BY <1>2, <1>3 DEF r

\* Dividing twice is dividing by the product.
LEMMA DivideTwice ==
  ASSUME NEW i \in Nat, NEW p \in Nat, p > 0, NEW b \in Nat, b > 0
  PROVE  (i \div p) \div b = i \div (b * p)
<1> DEFINE q == i \div p
           r == i % p
           c == q \div b
           d == q % b
<1>1. q \in Nat /\ r \in 0..(p - 1) /\ i = p * q + r
  BY Division
<1>2. c \in Nat /\ d \in 0..(b - 1) /\ q = b * c + d
  <2> HIDE DEF q
  <2> QED BY <1>1, Division
<1> HIDE DEF q, r, c, d
<1> DEFINE e == p * d + r
<1>3. i = (b * p) * c + e
  <2>1. p * q = p * (b * c) + p * d
    BY <1>2
  <2>2. p * (b * c) = (b * p) * c
    BY <1>2
  <2> QED BY <1>1, <1>2, <2>1, <2>2
<1>4. e \in 0..(b * p - 1)
  <2>1. p * d \in Nat /\ p * d <= p * (b - 1)
    BY <1>2
  <2>2. p * (b - 1) = b * p - p
    OBVIOUS
  <2> QED BY <1>1, <2>1, <2>2
<1>5. b * p \in Nat /\ b * p > 0
  OBVIOUS
<1> HIDE DEF e
<1>6. i \div (b * p) = c
  <2> DEFINE m == b * p
  <2>1. m \in Nat /\ m > 0 /\ e \in 0..(m - 1) /\ i = m * c + e
    BY <1>3, <1>4, <1>5
  <2> HIDE DEF m
  <2>2. i \div m = c
    BY <1>2, <2>1, DivisionUnique
  <2> QED BY <2>2 DEF m
<1> QED BY <1>6 DEF q, c

-----------------------------------------------------------------------------
\* Sequence numbers.

Digits == 0..(base - 1)

\* The loop over the digits.
LEMMA Integer ==
  ASSUME NEW digits \in Seq(Digits)
  PROVE  \E i : /\ i \in [0..Len(digits) -> 0..(max - 1)] /\ i[0] = 0
                /\ \A k \in 1..Len(digits) : i[k] = (i[k - 1] * base + digits[k]) % max
                /\ integer(digits) = i[Len(digits)]
<1> DEFINE n == Len(digits)
           S == 0..(max - 1)
           step == [p \in (1..n) \X S |-> (p[2] * base + digits[p[1]]) % max]
           Eq(f) == f = [k \in 0..n |-> IF k = 0 THEN 0 ELSE (f[k - 1] * base + digits[k]) % max]
           i == CHOOSE f : Eq(f)
<1>1. n \in Nat /\ base \in Nat /\ max \in Nat /\ max > 0 /\ 0 \in S /\ S \subseteq Nat
  BY LoginAssumption
<1>2. step \in [(1..n) \X S -> S]
  <2>1. ASSUME NEW p \in (1..n) \X S
        PROVE  (p[2] * base + digits[p[1]]) % max \in S
    <3>1. p[2] \in Nat /\ digits[p[1]] \in Nat
      BY <1>1, ElementOfSeq DEF Digits
    <3>2. p[2] * base + digits[p[1]] \in Nat
      BY <1>1, <3>1
    <3> QED BY <1>1, <3>2, Division
  <2> QED BY <2>1
<1>3. ASSUME NEW k \in 1..n, NEW x \in S
      PROVE  step[<<k, x>>] = (x * base + digits[k]) % max
  <2>1. <<k, x>> \in (1..n) \X S
    OBVIOUS
  <2> QED BY <2>1
<1>4. \A k \in 1..n : k \in 0..n /\ k # 0 /\ k - 1 \in 0..n
  BY <1>1
<1> HIDE DEF step, S, n
<1>5. \E f : Eq(f)
  <2>1. PICK g : Steps(g, n, S, 0, step)
    BY <1>1, <1>2, StepsExist
  <2>2. /\ g \in [0..n -> S] /\ g[0] = 0
        /\ \A k \in 1..n : g[k] = (g[k - 1] * base + digits[k]) % max
    BY <1>3, <1>4, <2>1 DEF Steps
  <2>3. \A k \in 0..n : g[k] = IF k = 0 THEN 0 ELSE (g[k - 1] * base + digits[k]) % max
    <3>1. \A k \in 0..n : k = 0 \/ k \in 1..n
      BY <1>1
    <3> QED BY <2>2, <3>1
  <2>4. Eq(g)
    BY <2>2, <2>3
  <2> QED BY <2>4
<1>6. integer(digits) = i[n]
  BY DEF integer, n
<1>7. Eq(i)
  <2> HIDE DEF Eq
  <2> QED BY <1>5
<1> HIDE DEF i
<1>8. Steps(i, n, S, 0, step)
  <2>1. 0 \in 0..n
    BY <1>1
  <2>2. i = [k \in 0..n |-> i[k]] /\ i[0] = 0
    BY <1>7, <2>1
  <2>3. \A k \in 1..n : i[k] = (i[k - 1] * base + digits[k]) % max
    BY <1>4, <1>7
  <2>4. \A k \in 1..n : i[k - 1] \in S => i[k] = step[<<k, i[k - 1]>>]
    BY <1>3, <2>3
  <2> HIDE DEF Eq
  <2> QED BY <1>1, <1>2, <2>2, <2>4, StepsHold
<1>9. i \in [0..n -> S] /\ i[0] = 0 /\ \A k \in 1..n : i[k] = (i[k - 1] * base + digits[k]) % max
  BY <1>3, <1>4, <1>8 DEF Steps
<1> QED BY <1>6, <1>9 DEF n, S

\* The sum of what the digits count.
LEMMA Denoted ==
  ASSUME NEW field \in Seq(Chars), Len(field) = sequence_number_length
  PROVE  LET n == Len(field)
         IN  \E sum : /\ sum \in [0..n -> Nat] /\ sum[0] = 0
                      /\ \A k \in 1..n :
                           sum[k] = sum[k - 1] +
                                    IF \A j \in (n - k + 1)..n : isdigit(field[j])
                                    THEN field[n - k + 1] * power[k - 1] ELSE 0
                      /\ denoted(field) = sum[n]
<1> DEFINE n == Len(field)
           E(k) == IF \A j \in (n - k + 1)..n : isdigit(field[j])
                   THEN field[n - k + 1] * power[k - 1] ELSE 0
           step == [p \in (1..n) \X Nat |-> p[2] + E(p[1])]
           Eq(f) == f = [k \in 0..n |-> IF k = 0 THEN 0 ELSE f[k - 1] + E(k)]
           sum == CHOOSE f : Eq(f)
<1>1. n \in Nat /\ n = sequence_number_length
  OBVIOUS
<1>2. ASSUME NEW k \in 1..n
      PROVE  E(k) \in Nat
  <2>1. n - k + 1 \in 1..n /\ k - 1 \in 0..n
    BY <1>1
  <2>2. field[n - k + 1] \in Nat /\ power[k - 1] \in Nat
    BY <1>1, <2>1, ElementOfSeq, Powers DEF Chars, Other
  <2>3. field[n - k + 1] * power[k - 1] \in Nat
    BY <2>2
  <2> QED BY <2>3
<1> HIDE DEF E
<1>3. step \in [(1..n) \X Nat -> Nat]
  <2>1. ASSUME NEW p \in (1..n) \X Nat
        PROVE  p[2] + E(p[1]) \in Nat
    <3>1. p[2] \in Nat /\ p[1] \in 1..n
      OBVIOUS
    <3> QED BY <1>2, <3>1
  <2> QED BY <2>1
<1>4. ASSUME NEW k \in 1..n, NEW x \in Nat
      PROVE  step[<<k, x>>] = x + E(k)
  <2>1. <<k, x>> \in (1..n) \X Nat
    OBVIOUS
  <2> QED BY <2>1
<1>5. \A k \in 1..n : k \in 0..n /\ k # 0 /\ k - 1 \in 0..n
  BY <1>1
<1> HIDE DEF step, n
<1>6. \E f : Eq(f)
  <2>1. PICK g : Steps(g, n, Nat, 0, step)
    BY <1>1, <1>3, StepsExist
  <2>2. g \in [0..n -> Nat] /\ g[0] = 0 /\ \A k \in 1..n : g[k] = g[k - 1] + E(k)
    BY <1>4, <1>5, <2>1 DEF Steps
  <2>3. \A k \in 0..n : g[k] = IF k = 0 THEN 0 ELSE g[k - 1] + E(k)
    <3>1. \A k \in 0..n : k = 0 \/ k \in 1..n
      BY <1>1
    <3> QED BY <2>2, <3>1
  <2>4. Eq(g)
    BY <2>2, <2>3
  <2> QED BY <2>4
<1>7. denoted(field) = sum[n]
  BY DEF denoted, n, E
<1>8. Eq(sum)
  <2> HIDE DEF Eq
  <2> QED BY <1>6
<1> HIDE DEF sum
<1>9. Steps(sum, n, Nat, 0, step)
  <2>1. 0 \in 0..n
    BY <1>1
  <2>2. sum = [k \in 0..n |-> sum[k]] /\ sum[0] = 0
    BY <1>8, <2>1
  <2>3. \A k \in 1..n : sum[k] = sum[k - 1] + E(k)
    BY <1>5, <1>8
  <2>4. \A k \in 1..n : sum[k - 1] \in Nat => sum[k] = step[<<k, sum[k - 1]>>]
    BY <1>4, <2>3
  <2> HIDE DEF Eq
  <2> QED BY <1>1, <1>3, <2>2, <2>4, StepsHold
<1>10. sum \in [0..n -> Nat] /\ sum[0] = 0 /\ \A k \in 1..n : sum[k] = sum[k - 1] + E(k)
  BY <1>4, <1>5, <1>9 DEF Steps
<1> QED BY <1>7, <1>10 DEF n, E

\* Reading the digits without wrapping, and what the last k of them count.
LEMMA ReadAndSum ==
  ASSUME NEW m \in 0..sequence_number_length, NEW d \in [1..m -> Nat],
         NEW h \in [0..m -> Nat], h[0] = 0,
         \A k \in 1..m : h[k] = h[k - 1] * base + d[k],
         NEW s \in [0..m -> Nat], s[0] = 0,
         \A k \in 1..m : s[k] = s[k - 1] + d[m - k + 1] * power[k - 1]
  PROVE  h[m] = s[m]
<1> DEFINE T == {k \in Nat : k <= m => h[m] = h[m - k] * power[k] + s[k]}
<1>1. m \in Nat /\ sequence_number_length \in Nat /\ base \in Nat /\ m <= sequence_number_length
  BY Powers
<1>2. 0 \in T
  <2>1. power[0] = 1 /\ m - 0 = m /\ h[m] \in Nat
    BY <1>1, Powers
  <2>2. h[m] = h[m] * 1 + 0
    BY <2>1
  <2> QED BY <2>1, <2>2
<1>3. ASSUME NEW k \in Nat, k \in T
      PROVE  k + 1 \in T
  <2> SUFFICES ASSUME k + 1 <= m
               PROVE  h[m] = h[m - (k + 1)] * power[k + 1] + s[k + 1]
    OBVIOUS
  <2> DEFINE x == h[m - (k + 1)]
             c == d[m - k]
             p == power[k]
             t == s[k]
  <2>1. h[m] = h[m - k] * p + t
    BY <1>1, <1>3
  <2>2. /\ m - k \in 1..m /\ (m - k) - 1 = m - (k + 1) /\ m - (k + 1) \in 0..m
        /\ k + 1 \in 1..m /\ (k + 1) - 1 = k /\ m - (k + 1) + 1 = m - k /\ k \in 0..m
        /\ k \in 0..sequence_number_length /\ k + 1 \in 1..sequence_number_length
    BY <1>1
  <2>3. h[m - k] = x * base + c
    BY <2>2
  <2>4. s[k + 1] = t + c * p
    BY <2>2
  <2>5. power[k + 1] = base * p /\ p \in Nat
    BY <2>2, Powers
  <2>6. x \in Nat /\ c \in Nat /\ t \in Nat
    BY <2>2
  <2> HIDE DEF x, c, p, t
  <2>7. (x * base + c) * p = x * (base * p) + c * p
    <3>1. (x * base) * p = x * (base * p)
      BY <1>1, <2>5, <2>6
    <3>2. (x * base + c) * p = (x * base) * p + c * p
      BY <1>1, <2>5, <2>6
    <3> QED BY <3>1, <3>2
  <2>8. x * (base * p) \in Nat /\ c * p \in Nat
    <3> DEFINE q == base * p
    <3>1. q \in Nat
      BY <1>1, <2>5
    <3> HIDE DEF q
    <3>2. x * q \in Nat /\ c * p \in Nat
      BY <2>5, <2>6, <3>1
    <3> QED BY <3>2 DEF q
  <2>9. h[m] = x * (base * p) + (t + c * p)
    BY <2>1, <2>3, <2>6, <2>7, <2>8
  <2> QED BY <2>4, <2>5, <2>9 DEF x
<1> HIDE DEF T
<1>4. m \in T
  BY <1>1, <1>2, <1>3, Induction
<1>5. h[m] = h[m - m] * power[m] + s[m]
  BY <1>1, <1>4 DEF T
<1>6. m - m = 0 /\ power[m] \in Nat /\ s[m] \in Nat
  BY <1>1, Powers
<1>7. 0 * power[m] + s[m] = s[m]
  BY <1>6
<1> QED BY <1>5, <1>6, <1>7

\* What is read from a field, whatever it holds, is what its last digits denote,
\* reduced to the range of integers.
LEMMA ReadNumber ==
  ASSUME NEW field \in Seq(Chars), Len(field) = sequence_number_length
  PROVE  /\ unpack_sequence_number(field) \in 0..(max - 1)
         /\ unpack_sequence_number(field) = denoted(field) % max
<1> DEFINE L == sequence_number_length
           d == digit_suffix(field)
<1>1. L \in Nat /\ base \in Nat /\ max \in Nat /\ max > 0
  BY LoginAssumption
<1>2. PICK n \in 0..L : /\ d = SubSeq(field, n + 1, L)
                        /\ \A i \in (n + 1)..L : isdigit(field[i])
                        /\ n > 0 => ~isdigit(field[n])
  BY DigitsBegin
<1> DEFINE m == L - n
<1>3. m \in 0..L /\ n + m = L /\ n \in Nat
  BY <1>1
<1>4. d \in Seq(Chars) /\ Len(d) = m /\ \A k \in 1..m : d[k] = field[n + k]
  BY <1>1, <1>2
<1>5. \A k \in 1..m : d[k] \in Digits /\ isdigit(d[k])
  <2>1. ASSUME NEW k \in 1..m
        PROVE  d[k] \in Digits /\ isdigit(d[k])
    <3>1. n + k \in (n + 1)..L /\ k \in 1..Len(d)
      BY <1>1, <1>3, <1>4
    <3>2. isdigit(d[k]) /\ d[k] \in Chars
      BY <1>2, <1>4, <3>1, ElementOfSeq
    <3> QED BY <1>1, <3>2 DEF isdigit, Digits, Chars, Other
  <2> QED BY <2>1
<1>6. d \in [1..m -> Nat] /\ d \in Seq(Digits)
  <2>1. d \in [1..m -> Digits]
    BY <1>4, <1>5
  <2>2. Digits \subseteq Nat
    BY <1>1 DEF Digits
  <2>3. d \in Seq(Digits)
    BY <1>1, <1>3, <2>1, IsASeq
  <2> QED BY <2>1, <2>2, <2>3
<1> HIDE DEF d, m
<1>7. PICK g : /\ g \in [0..m -> 0..(max - 1)] /\ g[0] = 0
               /\ \A k \in 1..m : g[k] = (g[k - 1] * base + d[k]) % max
               /\ integer(d) = g[m]
  BY <1>4, <1>6, Integer
<1>8. PICK h : /\ h \in [0..m -> Nat] /\ h[0] = 0
               /\ \A k \in 1..m : h[k] = h[k - 1] * base + d[k]
  <2> DEFINE step == [p \in (1..m) \X Nat |-> p[2] * base + d[p[1]]]
  <2>1. step \in [(1..m) \X Nat -> Nat]
    <3>1. ASSUME NEW p \in (1..m) \X Nat
          PROVE  p[2] * base + d[p[1]] \in Nat
      <4>1. p[2] \in Nat /\ d[p[1]] \in Nat
        BY <1>6
      <4>2. p[2] * base \in Nat
        BY <1>1, <4>1
      <4> QED BY <4>1, <4>2
    <3> QED BY <3>1
  <2>2. \A k \in 1..m, x \in Nat : step[<<k, x>>] = x * base + d[k]
    OBVIOUS
  <2> HIDE DEF step
  <2>3. PICK h : Steps(h, m, Nat, 0, step)
    <3>1. m \in Nat /\ 0 \in Nat
      BY <1>1, <1>3
    <3> QED BY <2>1, <3>1, StepsExist
  <2>4. \A k \in 1..m : k - 1 \in 0..m
    BY <1>3
  <2>5. /\ h \in [0..m -> Nat] /\ h[0] = 0
        /\ \A k \in 1..m : h[k] = step[<<k, h[k - 1]>>]
    BY <2>3 DEF Steps
  <2>6. \A k \in 1..m : h[k] = h[k - 1] * base + d[k]
    <3>1. \A k \in 1..m : h[k - 1] \in Nat
      BY <2>4, <2>5
    <3> QED BY <2>2, <2>5, <3>1
  <2> QED BY <2>5, <2>6
<1>9. PICK s : /\ s \in [0..L -> Nat] /\ s[0] = 0
               /\ \A k \in 1..L :
                    s[k] = s[k - 1] + IF \A j \in (L - k + 1)..L : isdigit(field[j])
                                      THEN field[L - k + 1] * power[k - 1] ELSE 0
               /\ denoted(field) = s[L]
  BY Denoted
<1>10. h[m] = s[m]
  <2> DEFINE t == [k \in 0..m |-> s[k]]
  <2>1. 0 \in 0..m /\ m \in 0..m /\ \A k \in 0..m : k \in 0..L
    BY <1>1, <1>3
  <2>2. t \in [0..m -> Nat] /\ t[0] = 0 /\ t[m] = s[m]
    BY <1>9, <2>1
  <2>3. ASSUME NEW k \in 1..m
        PROVE  t[k] = t[k - 1] + d[m - k + 1] * power[k - 1]
    <3>1. /\ k \in 1..L /\ k \in 0..m /\ k - 1 \in 0..m
          /\ m - k + 1 \in 1..m /\ n + (m - k + 1) = L - k + 1
      BY <1>1, <1>3
    <3>2. \A j \in (L - k + 1)..L : j \in (n + 1)..L
      BY <1>1, <1>3
    <3>3. s[k] = s[k - 1] + field[L - k + 1] * power[k - 1]
      BY <1>2, <1>9, <3>1, <3>2
    <3>4. d[m - k + 1] = field[L - k + 1]
      BY <1>4, <3>1
    <3> QED BY <3>1, <3>3, <3>4
  <2> HIDE DEF t
  <2>4. h[m] = t[m]
    BY <1>3, <1>6, <1>8, <2>2, <2>3, ReadAndSum
  <2> QED BY <2>2, <2>4
<1>11. s[L] = s[m]
  <2> DEFINE T == {k \in Nat : m + k <= L => s[m + k] = s[m]}
  <2>1. 0 \in T
    BY <1>3
  <2>2. ASSUME NEW k \in Nat, k \in T
        PROVE  k + 1 \in T
    <3> SUFFICES ASSUME m + (k + 1) <= L PROVE s[m + (k + 1)] = s[m]
      OBVIOUS
    <3>1. s[m + k] = s[m]
      BY <1>1, <1>3, <2>2
    <3> DEFINE q == m + (k + 1)
    <3>2. /\ q \in 1..L /\ q - 1 = m + k /\ n > 0 /\ n \in (L - q + 1)..L /\ q - 1 \in 0..L
      BY <1>1, <1>3
    <3> HIDE DEF q
    <3>3. s[q] = s[q - 1] + 0 /\ s[q - 1] \in Nat
      BY <1>2, <1>9, <3>2
    <3>4. s[q] = s[q - 1]
      BY <3>3
    <3> QED BY <3>1, <3>2, <3>4 DEF q
  <2> HIDE DEF T
  <2>3. n \in T
    BY <1>3, <2>1, <2>2, Induction
  <2>4. m + n = L
    BY <1>1, <1>3
  <2> QED BY <1>1, <2>3, <2>4 DEF T
<1>12. g[m] = h[m] % max
  <2> DEFINE T == {k \in Nat : k <= m => g[k] = h[k] % max}
  <2>1. 0 \in T
    <3>1. (max * 0 + 0) % max = 0
      BY <1>1, DivisionUnique
    <3>2. max * 0 + 0 = 0
      BY <1>1
    <3> QED BY <1>7, <1>8, <3>1, <3>2
  <2>2. ASSUME NEW k \in Nat, k \in T
        PROVE  k + 1 \in T
    <3> SUFFICES ASSUME k + 1 <= m PROVE g[k + 1] = h[k + 1] % max
      OBVIOUS
    <3>1. k + 1 \in 1..m /\ (k + 1) - 1 = k /\ k \in 0..m /\ g[k] = h[k] % max
      BY <1>3, <2>2
    <3> DEFINE x == h[k]
               r == x % max
               q == x \div max
               c == d[k + 1]
               y == r * base + c
    <3>2. g[k + 1] = (r * base + c) % max /\ h[k + 1] = x * base + c
      BY <1>7, <1>8, <3>1
    <3>3. x \in Nat /\ c \in Nat
      BY <1>6, <1>8, <3>1
    <3>4. q \in Nat /\ r \in 0..(max - 1) /\ x = max * q + r
      <4> HIDE DEF x
      <4> QED BY <1>1, <3>3, Division
    <3> HIDE DEF x, c, q, r
    <3>5. r * base + c \in Nat /\ q * base \in Nat
      BY <1>1, <3>3, <3>4
    <3>6. x * base + c = max * (q * base) + (r * base + c)
      <4>1. x * base = (max * q) * base + r * base
        BY <1>1, <3>4
      <4>2. (max * q) * base = max * (q * base)
        BY <1>1, <3>4
      <4>3. r * base \in Nat /\ max * (q * base) \in Nat
        BY <1>1, <3>4, <3>5
      <4> QED BY <3>3, <4>1, <4>2, <4>3
    <3> DEFINE z == q * base
    <3>7. z \in Nat /\ y \in Nat /\ x * base + c = max * z + y
      BY <3>5, <3>6
    <3> HIDE DEF y, z
    <3>8. (max * z + y) % max = y % max
      BY <1>1, <3>7, RemainderOf
    <3> QED BY <3>2, <3>7, <3>8 DEF y
  <2> HIDE DEF T
  <2>3. m \in T
    BY <1>3, <2>1, <2>2, Induction
  <2> QED BY <1>3, <2>3 DEF T
<1>13. g[m] \in 0..(max - 1)
  BY <1>3, <1>7
<1>14. unpack_sequence_number(field) = g[m]
  BY <1>7 DEF unpack_sequence_number, d
<1> QED BY <1>9, <1>10, <1>11, <1>12, <1>13, <1>14

\* Padding is not taken for digits.
LEMMA DigitsOfPadded ==
  ASSUME NEW t \in Seq(Digits), NEW m \in Nat
  PROVE  /\ padding(m) \o t \in Seq(Chars) /\ Len(padding(m) \o t) = m + Len(t)
         /\ digit_suffix(padding(m) \o t) = t
<1> DEFINE p == padding(m)
           s == p \o t
<1>1. t \in Seq(Chars) /\ Len(t) \in Nat /\ \A i \in 1..Len(t) : isdigit(t[i])
  <2>1. base \in Nat
    BY LoginAssumption
  <2>2. Digits \subseteq Chars /\ \A c \in Digits : isdigit(c)
    BY <2>1 DEF Digits, Chars, Other, isdigit
  <2>3. t \in Seq(Chars)
    BY <2>2, SeqMonotonic
  <2>4. \A i \in 1..Len(t) : t[i] \in Digits
    BY ElementOfSeq
  <2> QED BY <2>2, <2>3, <2>4
<1>2. p \in Seq(Chars) /\ Len(p) = m /\ \A i \in 1..m : ~isdigit(p[i])
  BY Spaces
<1> HIDE DEF p
<1>3. /\ s \in Seq(Chars) /\ Len(s) = m + Len(t)
      /\ \A i \in 1..m : s[i] = p[i]
      /\ \A i \in 1..Len(t) : s[m + i] = t[i]
      /\ SubSeq(s, m + 1, Len(s)) = t
  BY <1>1, <1>2
<1> HIDE DEF s
<1>4. PICK n \in 0..Len(s) :
        /\ digit_suffix(s) = SubSeq(s, n + 1, Len(s))
        /\ \A i \in (n + 1)..Len(s) : isdigit(s[i])
        /\ n > 0 => ~isdigit(s[n])
  BY <1>3, DigitsBegin
<1>5. ~(n < m)
  <2> SUFFICES ASSUME n < m PROVE FALSE
    OBVIOUS
  <2>1. m \in 1..m /\ m \in (n + 1)..Len(s)
    BY <1>1, <1>3
  <2> QED BY <1>2, <1>3, <1>4, <2>1
<1>6. ~(n > m)
  <2> SUFFICES ASSUME n > m PROVE FALSE
    OBVIOUS
  <2>1. n - m \in 1..Len(t) /\ n = m + (n - m) /\ n > 0
    BY <1>1, <1>3
  <2> QED BY <1>1, <1>3, <1>4, <2>1
<1>7. n = m
  BY <1>1, <1>3, <1>5, <1>6
<1>8. digit_suffix(s) = t
  BY <1>3, <1>4, <1>7
<1> QED BY <1>3, <1>8 DEF s, p

\* The number of digits of an integer.
LEMMA NumberOfDigits ==
  ASSUME NEW i \in 0..(max - 1)
  PROVE  number_of_digits(i) \in 1..sequence_number_length /\ i < power[number_of_digits(i)]
<1> DEFINE L == sequence_number_length
           T == {n \in 1..L : i < power[n]}
           Is(n) == i < power[n] /\ (n = 1 \/ i >= power[n - 1])
<1>1. L \in Nat /\ L > 0 /\ max \in Nat /\ max <= power[L] /\ L \in 0..L /\ L \in 1..L
  BY LoginAssumption
<1>2. \A n \in 0..L : power[n] \in Nat
  BY Powers
<1>3. L \in T
  BY <1>1, <1>2
<1>4. PICK n \in T : \A k \in T : n <= k
  <2>1. T \subseteq Nat /\ T # {}
    BY <1>3
  <2> HIDE DEF T
  <2> QED BY <2>1, Least
<1>5. n \in 1..L /\ Is(n)
  <2> SUFFICES ASSUME n # 1 PROVE i >= power[n - 1]
    OBVIOUS
  <2>1. n - 1 \in 1..L /\ n - 1 \in 0..L /\ ~(n <= n - 1)
    BY <1>1
  <2>2. n - 1 \notin T
    <3> HIDE DEF T
    <3> QED BY <1>4, <2>1
  <2> QED BY <1>2, <2>1, <2>2
<1>6. number_of_digits(i) = CHOOSE k \in 1..L : Is(k)
  BY DEF number_of_digits
<1>7. number_of_digits(i) \in 1..L /\ Is(number_of_digits(i))
  <2> HIDE DEF Is
  <2> QED BY <1>5, <1>6
<1> QED BY <1>7

\* What is written to a field is read from it.
LEMMA WrittenNumber ==
  ASSUME NEW i \in 0..(max - 1)
  PROVE  LET f == pack_sequence_number(i)
         IN  /\ f \in Seq(Chars) /\ Len(f) = sequence_number_length
             /\ unpack_sequence_number(f) = i
<1> DEFINE L == sequence_number_length
           n == number_of_digits(i)
           d == [k \in 1..n |-> (i \div power[n - k]) % base]
           f == padding(L - n) \o d
<1>1. L \in Nat /\ base \in Nat /\ base > 0 /\ max \in Nat /\ max > 0 /\ i \in Nat
  BY LoginAssumption
<1>2. n \in 1..L /\ i < power[n]
  BY NumberOfDigits
<1> HIDE DEF n
<1>3. \A k \in 0..n : n - k \in 0..L /\ power[n - k] \in Nat /\ power[n - k] > 0
  <2>1. \A k \in 0..n : n - k \in 0..L
    BY <1>1, <1>2
  <2> QED BY <2>1, Powers
<1>4. \A k \in 0..n : i \div power[n - k] \in Nat
  BY <1>1, <1>3, Division
<1>5. d \in Seq(Digits) /\ Len(d) = n
  <2>1. ASSUME NEW k \in 1..n
        PROVE  (i \div power[n - k]) % base \in Digits
    <3>1. k \in 0..n
      BY <1>1, <1>2
    <3>2. i \div power[n - k] \in Nat
      BY <1>4, <3>1
    <3> QED BY <1>1, <3>2, Division DEF Digits
  <2>2. d \in [1..n -> Digits]
    BY <2>1
  <2>3. n \in Nat
    BY <1>1, <1>2
  <2>4. d \in Seq(Digits) /\ DOMAIN d = 1..n
    BY <2>2, <2>3, IsASeq
  <2> HIDE DEF d
  <2> QED BY <2>3, <2>4, LenProperties
<1>6. f \in Seq(Chars) /\ Len(f) = L /\ digit_suffix(f) = d
  <2>1. L - n \in Nat /\ (L - n) + n = L
    BY <1>1, <1>2
  <2> HIDE DEF d
  <2> QED BY <1>5, <2>1, DigitsOfPadded
<1>7. \A k \in 1..n : d[k] = (i \div power[n - k]) % base
  OBVIOUS
<1> HIDE DEF d
<1>8. PICK g : /\ g \in [0..n -> 0..(max - 1)] /\ g[0] = 0
               /\ \A k \in 1..n : g[k] = (g[k - 1] * base + d[k]) % max
               /\ integer(d) = g[n]
  BY <1>5, Integer
<1> DEFINE T == {k \in Nat : k <= n => g[k] = i \div power[n - k]}
<1>9. 0 \in T
  <2> DEFINE p == power[n]
  <2>1. n - 0 = n /\ p \in Nat /\ p > 0 /\ i \in 0..(p - 1)
    <3>1. n - 0 = n /\ 0 \in 0..n
      BY <1>1, <1>2
    <3>2. p \in Nat /\ p > 0
      BY <1>3, <3>1
    <3> QED BY <1>1, <1>2, <3>1, <3>2
  <2> HIDE DEF p
  <2>2. (p * 0 + i) \div p = 0
    BY <2>1, DivisionUnique
  <2>3. p * 0 + i = i
    BY <1>1, <2>1
  <2> QED BY <1>8, <2>1, <2>2, <2>3 DEF p
<1>10. ASSUME NEW k \in Nat, k \in T
       PROVE  k + 1 \in T
  <2> SUFFICES ASSUME k + 1 <= n PROVE g[k + 1] = i \div power[n - (k + 1)]
    OBVIOUS
  <2> DEFINE p == power[n - (k + 1)]
             x == i \div p
  <2>1. /\ k + 1 \in 1..n /\ (k + 1) - 1 = k /\ k + 1 \in 0..n /\ k \in 0..n
        /\ n - k \in 1..L /\ (n - k) - 1 = n - (k + 1)
    BY <1>1, <1>2
  <2>2. p \in Nat /\ p > 0 /\ power[n - k] = base * p
    BY <1>3, <2>1, Powers
  <2>3. g[k] = i \div (base * p)
    BY <1>10, <2>1, <2>2
  <2>4. g[k + 1] = (g[k] * base + d[k + 1]) % max
    BY <1>8, <2>1
  <2>5. d[k + 1] = x % base
    BY <1>7, <2>1
  <2> HIDE DEF p
  <2>6. g[k] = x \div base
    BY <1>1, <2>2, <2>3, DivideTwice
  <2>7. x \in Nat /\ x <= i
    <3>1. x \in Nat /\ i % p \in 0..(p - 1) /\ i = p * x + (i % p)
      BY <1>1, <2>2, Division
    <3> DEFINE r == i % p
    <3> HIDE DEF x, r
    <3>2. p * x >= x
      BY <2>2, <3>1 DEF r
    <3>3. x \in Nat /\ r \in Nat /\ p * x \in Nat /\ i = p * x + r
      BY <2>2, <3>1 DEF r
    <3> QED BY <3>2, <3>3
  <2> HIDE DEF x
  <2>8. g[k] * base + d[k + 1] = x
    <3>1. x = base * (x \div base) + (x % base) /\ x \div base \in Nat
      BY <1>1, <2>7, Division
    <3>2. base * (x \div base) = (x \div base) * base
      BY <1>1, <3>1
    <3> QED BY <2>5, <2>6, <3>1, <3>2
  <2>9. x % max = x
    <3>1. (max * 0 + x) % max = x
      BY <1>1, <2>7, DivisionUnique
    <3> QED BY <1>1, <2>7, <3>1
  <2> QED BY <2>4, <2>8, <2>9 DEF x, p
<1> HIDE DEF T
<1>11. n \in T
  BY <1>1, <1>2, <1>9, <1>10, Induction
<1>12. g[n] = i
  <2>1. n - n = 0 /\ n <= n /\ power[0] = 1 /\ n \in Nat
    BY <1>1, <1>2, Powers
  <2>2. g[n] = i \div 1
    BY <1>11, <2>1 DEF T
  <2>3. (1 * i + 0) \div 1 = i
    BY <1>1, DivisionUnique
  <2>4. 1 * i + 0 = i
    BY <1>1
  <2> QED BY <2>2, <2>3, <2>4
<1>13. pack_sequence_number(i) = f
  BY DEF pack_sequence_number, n, d
<1>14. unpack_sequence_number(f) = i
  BY <1>6, <1>8, <1>12 DEF unpack_sequence_number
<1> HIDE DEF f
<1> QED BY <1>6, <1>13, <1>14

-----------------------------------------------------------------------------
\* The login packets.

\* What an application may be configured with, and what is read from a request.
Logins ==
  {p \in [username : Seq(Chars), password : Seq(Chars), session : Seq(Chars), next : 0..(max - 1)] :
     /\ Name(p.username, username_length) /\ Name(p.password, password_length)
     /\ Name(p.session, session_length)}

request_length == username_length + password_length + session_length + sequence_number_length

LEMMA Lengths ==
  /\ username_length \in Nat /\ password_length \in Nat /\ session_length \in Nat
  /\ sequence_number_length \in Nat
BY LoginAssumption

\* What is appended cuts nothing of what was there, and is found behind it.
LEMMA TwoParts ==
  ASSUME NEW a \in Seq(Chars), NEW b \in Seq(Chars)
  PROVE  /\ a \o b \in Seq(Chars) /\ Len(a \o b) = Len(a) + Len(b)
         /\ \A m \in 1..(Len(a) + 1), n \in 0..Len(a) : SubSeq(a \o b, m, n) = SubSeq(a, m, n)
         /\ SubSeq(a \o b, Len(a) + 1, Len(a) + Len(b)) = b
<1> DEFINE s == a \o b
<1>1. /\ s \in Seq(Chars) /\ Len(s) = Len(a) + Len(b)
      /\ \A k \in 1..Len(a) : s[k] = a[k]
  OBVIOUS
<1>2. SubSeq(s, Len(a) + 1, Len(a) + Len(b)) = b
  OBVIOUS
<1> HIDE DEF s
<1>3. ASSUME NEW m \in 1..(Len(a) + 1), NEW n \in 0..Len(a)
      PROVE  SubSeq(s, m, n) = SubSeq(a, m, n)
  BY <1>1
<1> QED BY <1>1, <1>2, <1>3 DEF s

\* Four fields one behind the other, each to be found at its place.
Laid(s, a, b, c, d) ==
  LET i == Len(a)
      j == i + Len(b)
      k == j + Len(c)
      l == k + Len(d)
  IN  /\ s \in Seq(Chars) /\ Len(s) = l
      /\ SubSeq(s, 1, i) = a /\ SubSeq(s, i + 1, j) = b
      /\ SubSeq(s, j + 1, k) = c /\ SubSeq(s, k + 1, l) = d

LEMMA Layout ==
  ASSUME NEW a \in Seq(Chars), NEW b \in Seq(Chars), NEW c \in Seq(Chars), NEW d \in Seq(Chars)
  PROVE  Laid(((a \o b) \o c) \o d, a, b, c, d)
<1> DEFINE s == ((a \o b) \o c) \o d
           i == Len(a)
           j == i + Len(b)
           k == j + Len(c)
           l == k + Len(d)
           ab == a \o b
           abc == ab \o c
<1>1. /\ i \in Nat /\ j \in Nat /\ k \in Nat /\ l \in Nat
      /\ Len(b) \in Nat /\ Len(c) \in Nat /\ Len(d) \in Nat
  OBVIOUS
<1>2. ab \in Seq(Chars) /\ Len(ab) = j /\ SubSeq(ab, 1, i) = a /\ SubSeq(ab, i + 1, j) = b
  OBVIOUS
<1> HIDE DEF ab
<1>3. /\ abc \in Seq(Chars) /\ Len(abc) = k
      /\ SubSeq(abc, 1, i) = SubSeq(ab, 1, i) /\ SubSeq(abc, i + 1, j) = SubSeq(ab, i + 1, j)
      /\ SubSeq(abc, j + 1, k) = c
  <2>1. 1 \in 1..(j + 1) /\ i \in 0..j /\ i + 1 \in 1..(j + 1) /\ j \in 0..j
    BY <1>1
  <2>2. /\ abc \in Seq(Chars) /\ Len(abc) = Len(ab) + Len(c)
        /\ \A m \in 1..(Len(ab) + 1), n \in 0..Len(ab) : SubSeq(abc, m, n) = SubSeq(ab, m, n)
        /\ SubSeq(abc, Len(ab) + 1, Len(ab) + Len(c)) = c
    BY <1>2, TwoParts
  <2> HIDE DEF i, j, abc
  <2> QED BY <1>2, <2>1, <2>2
<1> HIDE DEF abc, s
<1>4. /\ s = abc \o d
      /\ s \in Seq(Chars) /\ Len(s) = l
      /\ SubSeq(s, 1, i) = SubSeq(abc, 1, i) /\ SubSeq(s, i + 1, j) = SubSeq(abc, i + 1, j)
      /\ SubSeq(s, j + 1, k) = SubSeq(abc, j + 1, k) /\ SubSeq(s, k + 1, l) = d
  <2>1. /\ 1 \in 1..(k + 1) /\ i \in 0..k /\ i + 1 \in 1..(k + 1) /\ j \in 0..k
        /\ j + 1 \in 1..(k + 1) /\ k \in 0..k
    BY <1>1
  <2>2. s = abc \o d
    BY DEF s, abc, ab
  <2>3. /\ s \in Seq(Chars) /\ Len(s) = Len(abc) + Len(d)
        /\ \A m \in 1..(Len(abc) + 1), n \in 0..Len(abc) : SubSeq(s, m, n) = SubSeq(abc, m, n)
        /\ SubSeq(s, Len(abc) + 1, Len(abc) + Len(d)) = d
    <3> DEFINE t == abc \o d
    <3>1. /\ t \in Seq(Chars) /\ Len(t) = Len(abc) + Len(d)
          /\ \A m \in 1..(Len(abc) + 1), n \in 0..Len(abc) : SubSeq(t, m, n) = SubSeq(abc, m, n)
          /\ SubSeq(t, Len(abc) + 1, Len(abc) + Len(d)) = d
      BY <1>3, TwoParts
    <3>2. s = t
      BY <2>2
    <3> HIDE DEF t
    <3> QED BY <3>1, <3>2
  <2> HIDE DEF i, j, k
  <2> QED BY <1>3, <2>1, <2>2, <2>3
<1>5. Laid(s, a, b, c, d)
  BY <1>2, <1>3, <1>4 DEF Laid
<1> QED BY <1>5 DEF s

\* What is read from a request, whatever it holds.
LEMMA RequestRead ==
  ASSUME NEW q \in Seq(Chars), Len(q) = request_length
  PROVE  /\ read_request(q) \in Logins
         /\ read_request(q).next
              = denoted(SubSeq(q, Len(q) - sequence_number_length + 1, Len(q))) % max
<1> DEFINE i == username_length
           j == i + password_length
           k == j + session_length
           a == SubSeq(q, 1, i)
           b == SubSeq(q, i + 1, j)
           c == SubSeq(q, j + 1, k)
           d == SubSeq(q, k + 1, Len(q))
<1>1. /\ i \in Nat /\ j \in Nat /\ k \in Nat /\ Len(q) = k + sequence_number_length
      /\ i <= j /\ j <= k /\ k <= Len(q) /\ k = Len(q) - sequence_number_length
      /\ Len(q) \in Nat
  BY Lengths DEF request_length
<1>2. /\ a \in Seq(Chars) /\ Len(a) = username_length
      /\ b \in Seq(Chars) /\ Len(b) = password_length
      /\ c \in Seq(Chars) /\ Len(c) = session_length
      /\ d \in Seq(Chars) /\ Len(d) = sequence_number_length
  BY <1>1, Lengths
<1>3. read_request(q) = [username |-> alphanumeric_prefix(a), password |-> alphanumeric_prefix(b),
                         session |-> alphanumeric_suffix(c), next |-> unpack_sequence_number(d)]
  BY DEF read_request, unpack_right_padded, unpack_left_padded
<1>4. d = SubSeq(q, Len(q) - sequence_number_length + 1, Len(q))
  BY <1>1
<1> HIDE DEF a, b, c, d, i, j, k
<1>5. /\ Name(alphanumeric_prefix(a), username_length)
      /\ Name(alphanumeric_prefix(b), password_length)
      /\ Name(alphanumeric_suffix(c), session_length)
  BY <1>2, PrefixIsName, SuffixIsName
<1>6. unpack_sequence_number(d) \in 0..(max - 1) /\ unpack_sequence_number(d) = denoted(d) % max
  BY <1>2, ReadNumber
<1>7. /\ alphanumeric_prefix(a) \in Seq(Chars) /\ alphanumeric_prefix(b) \in Seq(Chars)
      /\ alphanumeric_suffix(c) \in Seq(Chars)
  BY <1>5 DEF Name
<1> QED BY <1>3, <1>4, <1>5, <1>6, <1>7 DEF Logins

\* What is read from the request of a client of the library is what it was
\* configured with.
LEMMA RequestCarries ==
  ASSUME NEW p \in Logins
  PROVE  /\ write_request(p) \in Seq(Chars) /\ Len(write_request(p)) = request_length
         /\ read_request(write_request(p)) = p
<1> DEFINE a == pack_right_padded(p.username, username_length)
           b == pack_right_padded(p.password, password_length)
           c == pack_left_padded(p.session, session_length)
           d == pack_sequence_number(p.next)
           s == ((a \o b) \o c) \o d
<1>1. /\ p = [username |-> p.username, password |-> p.password, session |-> p.session, next |-> p.next]
      /\ p.username \in Seq(Chars) /\ p.password \in Seq(Chars) /\ p.session \in Seq(Chars)
      /\ p.next \in 0..(max - 1)
      /\ Name(p.username, username_length) /\ Name(p.password, password_length)
      /\ Name(p.session, session_length)
  BY DEF Logins
<1>2. /\ a \in Seq(Chars) /\ Len(a) = username_length /\ unpack_right_padded(a) = p.username
      /\ b \in Seq(Chars) /\ Len(b) = password_length /\ unpack_right_padded(b) = p.password
  BY <1>1, Lengths, RightPadded
<1>3. c \in Seq(Chars) /\ Len(c) = session_length /\ unpack_left_padded(c) = p.session
  BY <1>1, Lengths, LeftPadded
<1>4. d \in Seq(Chars) /\ Len(d) = sequence_number_length /\ unpack_sequence_number(d) = p.next
  BY <1>1, WrittenNumber
<1>5. write_request(p) = s
  BY DEF write_request
<1> HIDE DEF a, b, c, d
<1>6. LET i == username_length
          j == i + password_length
          k == j + session_length
          l == k + sequence_number_length
      IN  /\ s \in Seq(Chars) /\ Len(s) = l
          /\ SubSeq(s, 1, i) = a /\ SubSeq(s, i + 1, j) = b
          /\ SubSeq(s, j + 1, k) = c /\ SubSeq(s, k + 1, l) = d
  <2> DEFINE i == Len(a)
             j == i + Len(b)
             k == j + Len(c)
             l == k + Len(d)
  <2>1. Laid(s, a, b, c, d)
    BY <1>2, <1>3, <1>4, Layout
  <2> HIDE DEF s
  <2>2. /\ s \in Seq(Chars) /\ Len(s) = l
        /\ SubSeq(s, 1, i) = a /\ SubSeq(s, i + 1, j) = b
        /\ SubSeq(s, j + 1, k) = c /\ SubSeq(s, k + 1, l) = d
    BY <2>1 DEF Laid
  <2>3. /\ i = username_length /\ j = username_length + password_length
        /\ k = username_length + password_length + session_length
        /\ l = username_length + password_length + session_length + sequence_number_length
    BY <1>2, <1>3, <1>4
  <2> HIDE DEF s, i, j, k, l
  <2> QED BY <2>2, <2>3
<1> HIDE DEF s
<1>7. read_request(s) = [username |-> unpack_right_padded(a), password |-> unpack_right_padded(b),
                         session |-> unpack_left_padded(c), next |-> unpack_sequence_number(d)]
  BY <1>6 DEF read_request
<1> QED BY <1>1, <1>2, <1>3, <1>4, <1>5, <1>6, <1>7 DEF request_length

\* What a client reads from the acceptance of a server of the library.
LEMMA AcceptanceCarries ==
  ASSUME NEW s, Name(s, session_length), NEW n \in 0..(max - 1)
  PROVE  read_accepted(write_accepted(s, n)) = [session |-> s, next |-> n]
<1> DEFINE c == pack_left_padded(s, session_length)
           d == pack_sequence_number(n)
           q == c \o d
<1>1. s \in Seq(Chars)
  BY DEF Name
<1>2. c \in Seq(Chars) /\ Len(c) = session_length /\ unpack_left_padded(c) = s
  BY <1>1, Lengths, LeftPadded
<1>3. d \in Seq(Chars) /\ Len(d) = sequence_number_length /\ unpack_sequence_number(d) = n
  BY WrittenNumber
<1>4. write_accepted(s, n) = q
  BY DEF write_accepted
<1> HIDE DEF c, d
<1>5. SubSeq(q, 1, session_length) = c /\ SubSeq(q, session_length + 1, Len(q)) = d
  BY <1>2, <1>3, Lengths
<1> HIDE DEF q
<1> QED BY <1>2, <1>3, <1>4, <1>5 DEF read_accepted

-----------------------------------------------------------------------------
\* The inductive invariant: what is configured are names, and each stage has
\* made of what was there before what it should.

LoginType ==
  /\ stage \in {"username", "password", "session", "request", "response", "outcome", "end"}
  /\ library \in [client : BOOLEAN, server : BOOLEAN]
  /\ client \in Logins /\ server \in Logins

OfferedInv ==
  offered.field # "none" =>
    /\ offered.field \in {"username", "password", "session"} /\ offered.string \in Seq(Chars)
    /\ offered.error = validate(offered.string, length_of(offered.field))

RequestInv ==
  stage \in {"response", "outcome", "end"} =>
    /\ request \in Seq(Chars) /\ Len(request) = request_length
    /\ library.client => request = write_request(client)

ResponseTo(p) ==
  IF login_verdict(p) = "none" THEN <<"A", write_accepted(server.session, response_next(p))>>
  ELSE <<"J", write_rejected(login_verdict(p))>>

ResponseInv ==
  /\ library.server /\ stage \in {"outcome", "end"} =>
       read = read_request(request) /\ response = ResponseTo(read)
  /\ library.client /\ stage = "end" => outcome = outcome_of(response[1], response[2])

LoginInv == LoginType /\ OfferedInv /\ RequestInv /\ ResponseInv

\* The names a server is configured with are those the setters let through.
LEMMA ConfiguredServer ==
  ASSUME NEW p \in Servers, IsPort(p.username, p.password), IsSession(p.session)
  PROVE  p \in Logins
<1>1. /\ p \in [username : Strings, password : Strings, session : Strings, next : Numbers]
      /\ Strings \subseteq Seq(Chars) /\ Numbers \subseteq 0..(max - 1)
  BY LoginAssumption
<1>2. p.username \in Seq(Chars) /\ p.password \in Seq(Chars) /\ p.session \in Seq(Chars)
  BY <1>1
<1>3. /\ Name(p.username, username_length) /\ Name(p.password, password_length)
      /\ Name(p.session, session_length)
  BY <1>2, Lengths, ValidIsName DEF IsPort, IsSession
<1> QED BY <1>1, <1>2, <1>3 DEF Logins

\* 1 is an integer.
LEMMA One == 1 \in 0..(max - 1)
<1>1. /\ sequence_number_length - 1 \in 0..sequence_number_length
      /\ power[sequence_number_length - 1] < max /\ max \in Nat
  BY LoginAssumption
<1>2. power[sequence_number_length - 1] \in Nat /\ power[sequence_number_length - 1] > 0
  BY <1>1, Powers
<1> QED BY <1>1, <1>2

LEMMA EmptyName ==
  ASSUME NEW length \in Nat
  PROVE  <<>> \in Seq(Chars) /\ Name(<<>>, length)
BY DEF Name

LEMMA InitLogin ==
  ASSUME Init
  PROVE  LoginInv
<1>1. client \in Logins
  <2>1. <<>> \in Seq(Chars) /\ \A length \in Nat : Name(<<>>, length)
    BY EmptyName
  <2>2. client = [username |-> <<>>, password |-> <<>>, session |-> <<>>, next |-> 1]
    BY DEF Init
  <2> QED BY <2>1, <2>2, One, Lengths DEF Logins
<1>2. server \in Logins
  BY ConfiguredServer DEF Init
<1>3. LoginType
  BY <1>1, <1>2 DEF Init, LoginType
<1>4. OfferedInv /\ RequestInv /\ ResponseInv
  BY DEF Init, NotOffered, OfferedInv, RequestInv, ResponseInv
<1> QED BY <1>3, <1>4 DEF LoginInv

\* A setter.
LEMMA SetLogin ==
  ASSUME LoginInv, NEW field \in {"username", "password", "session"},
         NEW then \in {"password", "session", "request"}, Set(field, then)
  PROVE  LoginInv'
<1>1. PICK s \in Strings :
        /\ offered' = [field |-> field, string |-> s, error |-> validate(s, length_of(field))]
        /\ client' = IF validate(s, length_of(field)) = "none"
                     THEN [client EXCEPT ![field] = s] ELSE client
  BY DEF Set
<1>2. /\ stage' = then /\ UNCHANGED <<server, library, request, read, response, outcome>>
  BY DEF Set
<1>3. s \in Seq(Chars) /\ length_of(field) \in Nat
  BY LoginAssumption, Lengths DEF length_of
<1>4. client' \in Logins
  <2>1. client \in Logins
    BY DEF LoginInv, LoginType
  <2>2. CASE validate(s, length_of(field)) = "none"
    <3>1. Name(s, length_of(field))
      BY <1>3, <2>2, ValidIsName
    <3>2. client' = [client EXCEPT ![field] = s]
      BY <1>1, <2>2
    <3>3. CASE field = "username"
      BY <1>3, <2>1, <3>1, <3>2, <3>3 DEF Logins, length_of
    <3>4. CASE field = "password"
      BY <1>3, <2>1, <3>1, <3>2, <3>4 DEF Logins, length_of
    <3>5. CASE field = "session"
      BY <1>3, <2>1, <3>1, <3>2, <3>5 DEF Logins, length_of
    <3> QED BY <3>3, <3>4, <3>5
  <2>3. CASE validate(s, length_of(field)) # "none"
    BY <1>1, <2>1, <2>3
  <2> QED BY <2>2, <2>3
<1>5. LoginType'
  BY <1>2, <1>4 DEF LoginInv, LoginType
<1>6. OfferedInv'
  BY <1>1, <1>3 DEF OfferedInv, length_of
<1>7. RequestInv' /\ ResponseInv'
  BY <1>2 DEF RequestInv, ResponseInv
<1> QED BY <1>5, <1>6, <1>7 DEF LoginInv

\* The login request.
LEMMA RequestLogin ==
  ASSUME LoginInv, Request
  PROVE  LoginInv'
<1>1. /\ stage' = "response" /\ offered' = NotOffered
      /\ UNCHANGED <<server, library, read, response, outcome>>
  BY DEF Request
<1>2. client \in Logins
  BY DEF LoginInv, LoginType
<1>3. /\ client' \in Logins /\ request' \in Seq(Chars) /\ Len(request') = request_length
      /\ library.client => request' = write_request(client')
  <2>1. CASE library.client /\ (\E n \in Numbers : client' = [client EXCEPT !.next = n])
             /\ request' = write_request(client')
    <3>1. PICK n \in Numbers : client' = [client EXCEPT !.next = n]
      BY <2>1
    <3>2. n \in 0..(max - 1)
      BY LoginAssumption
    <3>3. client' \in Logins
      BY <1>2, <3>1, <3>2 DEF Logins
    <3> QED BY <2>1, <3>3, RequestCarries
  <2>2. CASE ~library.client /\ request' \in ForeignRequests /\ UNCHANGED client
    BY <1>2, <2>2, LoginAssumption DEF request_length
  <2> QED BY <2>1, <2>2 DEF Request
<1>4. LoginType'
  BY <1>1, <1>3 DEF LoginInv, LoginType
<1>5. OfferedInv' /\ ResponseInv'
  BY <1>1 DEF OfferedInv, NotOffered, ResponseInv
<1>6. RequestInv'
  BY <1>1, <1>3 DEF RequestInv
<1> QED BY <1>4, <1>5, <1>6 DEF LoginInv

\* The response of the library's server, and of another.
LEMMA RespondLogin ==
  ASSUME LoginInv, Respond
  PROVE  LoginInv'
<1>1. /\ stage = "response" /\ library.server
      /\ read' = read_request(request)
      /\ stage' = IF library.client THEN "outcome" ELSE "end"
      /\ UNCHANGED <<offered, client, server, library, request, outcome>>
  BY DEF Respond
<1>2. response' = ResponseTo(read)'
  <2>1. /\ login_verdict(read') = login_verdict(read)'
        /\ response_next(read') = response_next(read)'
    BY <1>1 DEF login_verdict, response_next
  <2>2. response' = IF login_verdict(read') = "none"
                    THEN <<"A", write_accepted(server.session, response_next(read'))>>
                    ELSE <<"J", write_rejected(login_verdict(read'))>>
    BY DEF Respond
  <2> QED BY <1>1, <2>1, <2>2 DEF ResponseTo
<1>3. LoginType' /\ OfferedInv' /\ RequestInv'
  BY <1>1 DEF LoginInv, LoginType, OfferedInv, RequestInv
<1>4. ResponseInv'
  BY <1>1, <1>2 DEF ResponseInv
<1> QED BY <1>3, <1>4 DEF LoginInv

LEMMA ForeignRespondLogin ==
  ASSUME LoginInv, ForeignRespond
  PROVE  LoginInv'
<1>1. /\ stage = "response" /\ ~library.server /\ stage' = "outcome"
      /\ UNCHANGED <<offered, client, server, library, request, read, outcome>>
  BY DEF ForeignRespond
<1>2. LoginType' /\ OfferedInv' /\ RequestInv'
  BY <1>1 DEF LoginInv, LoginType, OfferedInv, RequestInv
<1>3. ResponseInv'
  BY <1>1 DEF ResponseInv
<1> QED BY <1>2, <1>3 DEF LoginInv

\* What the client makes of it.
LEMMA FinishLogin ==
  ASSUME LoginInv, Finish
  PROVE  LoginInv'
<1>1. /\ stage = "outcome" /\ library.client /\ stage' = "end"
      /\ outcome' = outcome_of(response[1], response[2])
      /\ UNCHANGED <<offered, client, server, library, request, read, response>>
  BY DEF Finish
<1>2. LoginType' /\ OfferedInv' /\ RequestInv'
  BY <1>1 DEF LoginInv, LoginType, OfferedInv, RequestInv
<1>3. ResponseInv'
  <2>1. outcome_of(response[1], response[2])' = outcome_of(response[1], response[2])
    BY <1>1 DEF outcome_of, on_login_success
  <2>2. ResponseTo(read)' = ResponseTo(read)
    BY <1>1 DEF ResponseTo, login_verdict, response_next
  <2> QED BY <1>1, <2>1, <2>2 DEF LoginInv, ResponseInv
<1> QED BY <1>2, <1>3 DEF LoginInv

LEMMA NextLogin ==
  ASSUME LoginInv, [Next]_vars
  PROVE  LoginInv'
<1>1. CASE Set("username", "password")
  BY <1>1, SetLogin
<1>2. CASE Set("password", "session")
  BY <1>2, SetLogin
<1>3. CASE Set("session", "request")
  BY <1>3, SetLogin
<1>4. CASE Request
  BY <1>4, RequestLogin
<1>5. CASE Respond
  BY <1>5, RespondLogin
<1>6. CASE ForeignRespond
  BY <1>6, ForeignRespondLogin
<1>7. CASE Finish
  BY <1>7, FinishLogin
<1>8. CASE UNCHANGED vars
  BY <1>8 DEF vars, LoginInv, LoginType, OfferedInv, RequestInv, ResponseInv, ResponseTo,
              login_verdict, response_next, outcome_of, on_login_success
<1> QED BY <1>1, <1>2, <1>3, <1>4, <1>5, <1>6, <1>7, <1>8 DEF Next

LEMMA LoginHolds == Spec => []LoginInv
<1>1. Init => LoginInv
  BY InitLogin
<1>2. LoginInv /\ [Next]_vars => LoginInv'
  BY NextLogin
<1> QED BY <1>1, <1>2, PTL DEF Spec

-----------------------------------------------------------------------------
\* The theorems.

\* validate_username(), validate_password() and validate_session() let through
\* exactly the strings that packing and unpacking leave as they are.
THEOREM ValidMeansCarried == Spec => []ValidIffCarried
<1>1. ASSUME LoginInv
      PROVE  ValidIffCarried
  <2> SUFFICES ASSUME offered.field # "none"
               PROVE  LET s == offered.string
                          carried == IF offered.field = "session"
                                     THEN unpack_left_padded(pack_left_padded(s, session_length))
                                     ELSE unpack_right_padded(
                                            pack_right_padded(s, length_of(offered.field)))
                      IN  (offered.error = "none") = (carried = s)
    BY DEF ValidIffCarried
  <2> DEFINE s == offered.string
             length == length_of(offered.field)
  <2>1. /\ offered.field \in {"username", "password", "session"} /\ s \in Seq(Chars)
        /\ offered.error = validate(s, length)
    BY <1>1 DEF LoginInv, OfferedInv
  <2>2. length \in Nat /\ (offered.field = "session" => length = session_length)
    BY <2>1, Lengths DEF length_of
  <2> HIDE DEF s, length
  <2>3. (offered.error = "none") <=> Name(s, length)
    BY <2>1, <2>2, ValidIsName
  <2>4. (unpack_left_padded(pack_left_padded(s, length)) = s) <=> Name(s, length)
    BY <2>1, <2>2, LeftPadded
  <2>5. (unpack_right_padded(pack_right_padded(s, length)) = s) <=> Name(s, length)
    BY <2>1, <2>2, RightPadded
  <2>6. CASE offered.field = "session"
    <3>1. (offered.error = "none") = (unpack_left_padded(pack_left_padded(s, session_length)) = s)
      BY <2>2, <2>3, <2>4, <2>6
    <3> QED BY <2>6, <3>1 DEF s
  <2>7. CASE offered.field # "session"
    <3>1. (offered.error = "none") = (unpack_right_padded(pack_right_padded(s, length)) = s)
      BY <2>3, <2>5
    <3> QED BY <2>7, <3>1 DEF s, length
  <2> QED BY <2>6, <2>7
<1> QED BY <1>1, LoginHolds, PTL

\* What Tcp_connection::process_login_request() hands to the acceptor and the
\* port is what the client was configured with; they accept it exactly if it
\* agrees with the port, and the client is told so, with their reason.
THEOREM AcceptedMeansAgreed == Spec => []AcceptedIffAgreed
<1>1. ASSUME LoginInv
      PROVE  AcceptedIffAgreed
  <2> SUFFICES ASSUME library.client, library.server, stage \in {"outcome", "end"}
               PROVE  /\ read = client
                      /\ (response[1] = "A") = /\ client.username = server.username
                                               /\ client.password = server.password
                                               /\ client.session \in {<<>>, server.session}
                      /\ stage = "end" =>
                           outcome = IF login_verdict(client) # "none" THEN login_verdict(client)
                                     ELSE IF response_next(client) = 0 THEN "invalid_field_value"
                                     ELSE IF client.next > server.next
                                     THEN "sequence_number_too_low"
                                     ELSE "logged_in"
    BY DEF AcceptedIffAgreed
  <2> DEFINE v == login_verdict(client)
             n == response_next(client)
  <2>1. client \in Logins /\ server \in Logins
    BY <1>1 DEF LoginInv, LoginType
  <2>2. read = client
    BY <1>1, <2>1, RequestCarries DEF LoginInv, RequestInv, ResponseInv
  <2>3. response = IF v = "none" THEN <<"A", write_accepted(server.session, n)>>
                   ELSE <<"J", write_rejected(v)>>
    BY <1>1, <2>2 DEF LoginInv, ResponseInv, ResponseTo
  <2>4. /\ v \in {"none", "not_authorized", "session_not_available"}
        /\ (v = "none") = /\ client.username = server.username
                          /\ client.password = server.password
                          /\ client.session \in {<<>>, server.session}
    BY DEF login_verdict
  <2>5. (response[1] = "A") = (v = "none")
    BY <2>3
  <2>6. ASSUME stage = "end"
        PROVE  outcome = IF v # "none" THEN v ELSE IF n = 0 THEN "invalid_field_value"
                         ELSE IF client.next > server.next THEN "sequence_number_too_low"
                         ELSE "logged_in"
    <3>1. outcome = outcome_of(response[1], response[2])
      BY <1>1, <2>6 DEF LoginInv, ResponseInv
    <3>2. CASE v # "none"
      <4> HIDE DEF v
      <4>1. outcome = convert(write_rejected(v))
        <5>1. response = <<"J", write_rejected(v)>>
          BY <2>3, <3>2
        <5>2. response[1] = "J" /\ response[2] = write_rejected(v)
          BY <5>1
        <5> QED BY <3>1, <5>2 DEF outcome_of
      <4>2. convert(write_rejected(v)) = v
        <5>1. write_rejected(v) = IF v = "not_authorized" THEN "A" ELSE "S"
          BY DEF write_rejected
        <5>2. convert("A") = "not_authorized" /\ convert("S") = "session_not_available"
          BY DEF convert
        <5>3. v = "not_authorized" \/ v = "session_not_available"
          BY <2>4, <3>2
        <5> QED BY <5>1, <5>2, <5>3
      <4> QED BY <3>2, <4>1, <4>2
    <3>3. CASE v = "none"
      <4>1. /\ client.session \in {<<>>, server.session}
            /\ Name(server.session, session_length) /\ n \in 0..(max - 1)
        BY <2>1, <2>4, <3>3 DEF Logins, response_next
      <4>0. /\ (client.next # 0 /\ n < client.next) = (client.next > server.next)
            /\ ~(client.next # 0 /\ n > client.next)
        <5>1. client.next \in Nat /\ server.next \in Nat
          BY <2>1 DEF Logins
        <5> QED BY <5>1 DEF response_next
      <4> HIDE DEF v, n
      <4>2. read_accepted(write_accepted(server.session, n)) = [session |-> server.session, next |-> n]
        BY <4>1, AcceptanceCarries
      <4> DEFINE p == read_accepted(write_accepted(server.session, n))
      <4>3. p.session = server.session /\ p.next = n
        BY <4>2
      <4> HIDE DEF p
      <4>4. outcome = IF p.next = 0 THEN "invalid_field_value" ELSE on_login_success(p)
        <5>1. response = <<"A", write_accepted(server.session, n)>>
          BY <2>3, <3>3
        <5>2. response[1] = "A" /\ response[2] = write_accepted(server.session, n)
          BY <5>1
        <5> QED BY <3>1, <5>2 DEF outcome_of, p
      <4>5. on_login_success(p) = IF client.next > server.next THEN "sequence_number_too_low"
                                  ELSE "logged_in"
        BY <4>0, <4>1, <4>3 DEF on_login_success
      <4> QED BY <3>3, <4>3, <4>4, <4>5
    <3> QED BY <3>2, <3>3
  <2> QED BY <2>2, <2>4, <2>5, <2>6
<1> QED BY <1>1, LoginHolds, PTL

\* Whatever a login request holds, what is read from it are valid names and the
\* integer its last digits denote, and written again it is read as the same.
THEOREM AnythingIsRead == Spec => []ReadsAnything
<1>1. ASSUME LoginInv
      PROVE  ReadsAnything
  <2> SUFFICES ASSUME library.server, stage \in {"outcome", "end"}
               PROVE  /\ validate(read.username, username_length) = "none"
                      /\ validate(read.password, password_length) = "none"
                      /\ validate(read.session, session_length) = "none"
                      /\ read_request(write_request(read)) = read
                      /\ LET n == Len(request)
                             field == SubSeq(request, n - sequence_number_length + 1, n)
                         IN  read.next = denoted(field) % max
    BY DEF ReadsAnything
  <2>1. request \in Seq(Chars) /\ Len(request) = request_length /\ read = read_request(request)
    BY <1>1 DEF LoginInv, RequestInv, ResponseInv
  <2>2. /\ read \in Logins
        /\ read.next = denoted(SubSeq(request, Len(request) - sequence_number_length + 1,
                                      Len(request))) % max
    BY <2>1, RequestRead
  <2>3. read_request(write_request(read)) = read
    BY <2>2, RequestCarries
  <2>4. /\ Name(read.username, username_length) /\ Name(read.password, password_length)
        /\ Name(read.session, session_length)
        /\ read.username \in Seq(Chars) /\ read.password \in Seq(Chars)
        /\ read.session \in Seq(Chars)
    BY <2>2 DEF Logins
  <2>5. /\ validate(read.username, username_length) = "none"
        /\ validate(read.password, password_length) = "none"
        /\ validate(read.session, session_length) = "none"
    BY <2>4, Lengths, ValidIsName
  <2> QED BY <2>2, <2>3, <2>5
<1> QED BY <1>1, LoginHolds, PTL

=============================================================================
