--------------------------- MODULE FileStore_proof --------------------------
(***************************************************************************)
(* What was added to a File_store before anything failed is read back, by  *)
(* any process, after any crash: for messages of any bytes and any length  *)
(* that fits, any number of them, and any file that is torn behind them,   *)
(* as long as no File_store is opened twice, and with the exception that   *)
(* the properties state of one that was opened without reading the file.   *)
(***************************************************************************)
EXTENDS FileStore, SequenceTheorems, WellFoundedInduction, TLAPS

-----------------------------------------------------------------------------
\* Induction and recursion on the naturals, for sets instead of predicates.

\* A set of naturals that is not empty has a least element.
LEMMA Least ==
  ASSUME NEW T, T \subseteq Nat, T # {}
  PROVE  \E n \in T : \A m \in T : n <= m
<1>1. PICK n \in T : \A m \in T : ~(<<m, n>> \in OpToRel(<, Nat))
  BY NatLessThanWellFounded, WFMin, Zenon
<1>2. ASSUME NEW m \in T
      PROVE  n <= m
  <2>1. m \in Nat /\ n \in Nat
    OBVIOUS
  <2>2. ~(m < n)
    BY <1>1, <2>1 DEF OpToRel
  <2> QED BY <2>1, <2>2
<1> QED BY <1>2

\* A set that has 0 and with each natural the next one has them all.
LEMMA Induction ==
  ASSUME NEW T, 0 \in T, \A n \in Nat : n \in T => n + 1 \in T
  PROVE  \A n \in Nat : n \in T
<1> DEFINE R == {n \in Nat : n \notin T}
<1> SUFFICES ASSUME R # {} PROVE FALSE
  OBVIOUS
<1>1. PICK n \in R : \A m \in R : n <= m
  <2>1. R \subseteq Nat
    OBVIOUS
  <2> HIDE DEF R
  <2> QED BY <2>1, Least
<1>2. n \in Nat \ {0} /\ n - 1 \in Nat
  OBVIOUS
<1>3. n - 1 \in T
  BY <1>1, <1>2
<1>4. (n - 1) + 1 = n
  BY <1>2
<1> QED BY <1>2, <1>3, <1>4

\* g is what step makes of s0, up to n times.
Iterates(g, n, S, s0, step) ==
  /\ g \in [0..n -> S] /\ g[0] = s0
  /\ \A k \in 0..(n - 1) : g[k + 1] = step[g[k]]

\* There is such a function for every n.
LEMMA IteratesExist ==
  ASSUME NEW S, NEW s0 \in S, NEW step \in [S -> S], NEW n \in Nat
  PROVE  \E g : Iterates(g, n, S, s0, step)
<1> DEFINE T == {i \in Nat : \E g : Iterates(g, i, S, s0, step)}
<1>1. 0 \in T
  <2> DEFINE g == [k \in 0..0 |-> s0]
  <2>1. Iterates(g, 0, S, s0, step)
    BY DEF Iterates
  <2> QED BY <2>1
<1>2. ASSUME NEW i \in Nat, i \in T
      PROVE  i + 1 \in T
  <2>1. PICK g : Iterates(g, i, S, s0, step)
    BY <1>2
  <2> DEFINE h == [k \in 0..(i + 1) |-> IF k <= i THEN g[k] ELSE step[g[i]]]
  <2>2. g \in [0..i -> S] /\ g[0] = s0 /\ g[i] \in S /\ step[g[i]] \in S
    BY <2>1 DEF Iterates
  <2>3. h \in [0..(i + 1) -> S] /\ h[0] = s0 /\ h[i + 1] = step[g[i]]
        /\ \A k \in 0..i : h[k] = g[k]
    BY <2>2
  <2> HIDE DEF h
  <2>4. ASSUME NEW k \in 0..((i + 1) - 1)
        PROVE  h[k + 1] = step[h[k]]
    <3>1. CASE k = i
      BY <2>3, <3>1
    <3>2. CASE k # i
      <4>1. k \in 0..(i - 1) /\ k + 1 \in 0..i /\ k \in 0..i
        BY <3>2
      <4>2. g[k + 1] = step[g[k]]
        BY <2>1, <4>1 DEF Iterates
      <4> QED BY <2>3, <4>1, <4>2
    <3> QED BY <3>1, <3>2
  <2>5. Iterates(h, i + 1, S, s0, step)
    BY <2>3, <2>4 DEF Iterates
  <2> QED BY <2>5
<1> HIDE DEF T
<1>3. n \in T
  BY <1>1, <1>2, Induction
<1> QED BY <1>3 DEF T

\* Two of them agree as far as both go.
LEMMA IteratesUnique ==
  ASSUME NEW S, NEW s0 \in S, NEW step \in [S -> S], NEW n \in Nat, NEW m \in Nat,
         NEW g, NEW h, Iterates(g, n, S, s0, step), Iterates(h, m, S, s0, step),
         NEW k \in Nat, k <= n, k <= m
  PROVE  g[k] = h[k]
<1> DEFINE T == {i \in Nat : i <= n /\ i <= m => g[i] = h[i]}
<1>1. 0 \in T
  BY DEF Iterates
<1>2. ASSUME NEW i \in Nat, i \in T
      PROVE  i + 1 \in T
  <2> SUFFICES ASSUME i + 1 <= n, i + 1 <= m PROVE g[i + 1] = h[i + 1]
    OBVIOUS
  <2>1. i \in 0..(n - 1) /\ i \in 0..(m - 1) /\ g[i] = h[i]
    BY <1>2
  <2>2. g[i + 1] = step[g[i]] /\ h[i + 1] = step[h[i]]
    BY <2>1 DEF Iterates
  <2> QED BY <2>1, <2>2
<1> HIDE DEF T
<1>3. k \in T
  BY <1>1, <1>2, Induction
<1> QED BY <1>3 DEF T

\* f has s0 at 0, and from then on what step makes of the value before.
Recurs(f, S, s0, step) ==
  f \in [Nat -> S] /\ f[0] = s0 /\ \A n \in Nat : f[n + 1] = step[f[n]]

\* There is such a function.
LEMMA Recursion ==
  ASSUME NEW S, NEW s0 \in S, NEW step \in [S -> S]
  PROVE  \E f : Recurs(f, S, s0, step)
<1> DEFINE G(n) == CHOOSE g : Iterates(g, n, S, s0, step)
           f == [n \in Nat |-> G(n)[n]]
<1>1. \A n \in Nat : Iterates(G(n), n, S, s0, step)
  BY IteratesExist
<1> HIDE DEF G
<1>2. f \in [Nat -> S]
  <2>1. ASSUME NEW n \in Nat
        PROVE  G(n)[n] \in S
    <3>1. G(n) \in [0..n -> S] /\ n \in 0..n
      BY <1>1 DEF Iterates
    <3> QED BY <3>1
  <2> QED BY <2>1
<1>3. f[0] = s0
  BY <1>1 DEF Iterates
<1>4. ASSUME NEW n \in Nat
      PROVE  f[n + 1] = step[f[n]]
  <2>1. Iterates(G(n + 1), n + 1, S, s0, step) /\ n \in 0..((n + 1) - 1)
    BY <1>1
  <2>2. G(n + 1)[n + 1] = step[G(n + 1)[n]]
    BY <2>1 DEF Iterates
  <2>3. Iterates(G(n), n, S, s0, step) /\ n <= n /\ n <= n + 1 /\ n + 1 \in Nat
    BY <1>1
  <2>4. G(n)[n] = G(n + 1)[n]
    BY <2>1, <2>3, IteratesUnique
  <2> QED BY <2>2, <2>4
<1> HIDE DEF f
<1>5. Recurs(f, S, s0, step)
  BY <1>2, <1>3, <1>4 DEF Recurs
<1> QED BY <1>5

-----------------------------------------------------------------------------
\* What is read at a position, and the two functions defined by recursion.

\* A size is a natural, and the next record begins behind it.
LEMMA AfterIsBehind ==
  ASSUME file \in Seq(Bytes), NEW pos \in Nat
  PROVE  /\ size_at(pos) \in Nat /\ after(pos) \in Nat /\ after(pos) >= pos + 2
<1>1. B \in Nat \ {0, 1}
  BY FileStoreAssumption
<1>2. size_at(pos) \in Nat
  <2>1. CASE has_size(pos)
    <3>1. Len(file) \in Nat /\ pos + 1 \in 1..Len(file) /\ pos + 2 \in 1..Len(file)
      BY <2>1 DEF has_size
    <3>2. SubSeq(file, pos + 1, pos + 2)[1] = file[pos + 1]
          /\ SubSeq(file, pos + 1, pos + 2)[2] = file[pos + 2]
      BY <3>1
    <3>3. file[pos + 1] \in Nat /\ file[pos + 2] \in Nat
      BY <3>1, ElementOfSeq, <1>1 DEF Bytes
    <3>4. file[pos + 1] * B \in Nat
      BY <3>3, <1>1
    <3> QED BY <2>1, <3>2, <3>3, <3>4 DEF size_at, ntohs
  <2>2. CASE ~has_size(pos)
    BY <2>2 DEF size_at
  <2> QED BY <2>1, <2>2
<1> QED BY <1>2 DEF after

\* get() reads each message where the one before it ended.
LEMMA ReadPosition ==
  ASSUME file \in Seq(Bytes), NEW first, offsets[first] \in Nat
  PROVE  /\ read_position(first) \in [Nat -> Nat]
         /\ read_position(first)[0] = offsets[first]
         /\ \A k \in Nat : read_position(first)[k + 1] = after(read_position(first)[k])
<1> DEFINE step == [p \in Nat |-> after(p)]
           Eq(f) == f = [k \in Nat |-> IF k = 0 THEN offsets[first] ELSE after(f[k - 1])]
           pos == read_position(first)
<1>1. step \in [Nat -> Nat]
  <2>1. \A p \in Nat : after(p) \in Nat
    BY AfterIsBehind
  <2> QED BY <2>1
<1>2. PICK f \in [Nat -> Nat] :
        f[0] = offsets[first] /\ \A n \in Nat : f[n + 1] = step[f[n]]
  <2> DEFINE s0 == offsets[first]
  <2>1. s0 \in Nat
    OBVIOUS
  <2> HIDE DEF step, s0
  <2>2. \E f : Recurs(f, Nat, s0, step)
    BY <1>1, <2>1, Recursion
  <2> QED BY <2>2 DEF Recurs, s0
<1>3. Eq(f)
  <2>1. ASSUME NEW k \in Nat
        PROVE  f[k] = IF k = 0 THEN offsets[first] ELSE after(f[k - 1])
    <3>1. CASE k = 0
      BY <3>1, <1>2
    <3>2. CASE k # 0
      <4>1. k - 1 \in Nat /\ (k - 1) + 1 = k
        BY <3>2
      <4>2. f[(k - 1) + 1] = step[f[k - 1]] /\ f[k - 1] \in Nat
        BY <4>1, <1>2
      <4>3. step[f[k - 1]] = after(f[k - 1])
        BY <4>2
      <4> QED BY <3>2, <4>1, <4>2, <4>3
    <3> QED BY <3>1, <3>2
  <2>2. f = [k \in Nat |-> f[k]]
    BY <1>2
  <2> QED BY <2>1, <2>2
<1>4. pos = CHOOSE g : Eq(g)
  BY DEF read_position
<1>5. Eq(pos)
  <2> HIDE DEF Eq, pos
  <2> QED BY <1>3, <1>4
<1>6. pos[0] = offsets[first] /\ \A k \in Nat : pos[k + 1] = after(pos[k])
  <2> HIDE DEF pos
  <2>1. \A k \in Nat : pos[k] = IF k = 0 THEN offsets[first] ELSE after(pos[k - 1])
    BY <1>5
  <2>2. ASSUME NEW k \in Nat
        PROVE  pos[k + 1] = after(pos[k])
    <3>1. k + 1 \in Nat /\ k + 1 # 0 /\ (k + 1) - 1 = k
      OBVIOUS
    <3> QED BY <2>1, <3>1
  <2> QED BY <2>1, <2>2
<1>7. pos \in [Nat -> Nat]
  <2> DEFINE T == {k \in Nat : pos[k] \in Nat}
  <2> HIDE DEF pos
  <2>1. \A k \in Nat : k \in T
    <3>1. 0 \in T
      BY <1>6
    <3>2. ASSUME NEW k \in Nat, k \in T
          PROVE  k + 1 \in T
      <4>1. pos[k] \in Nat
        BY <3>2
      <4>2. after(pos[k]) \in Nat
        BY <4>1, AfterIsBehind
      <4>3. pos[k + 1] \in Nat
        BY <1>6, <4>2
      <4> QED BY <4>3
    <3> HIDE DEF T
    <3> QED BY <3>1, <3>2, Induction
  <2>2. pos = [k \in Nat |-> pos[k]]
    BY <1>5
  <2> QED BY <2>1, <2>2
<1> QED BY <1>6, <1>7

\* set_offsets() ends: it notes a position and goes on behind the record there,
\* until no size is left.
LEMMA OffsetsFrom ==
  ASSUME file \in Seq(Bytes)
  PROVE  /\ offsets_from \in [Nat -> Seq(Nat)]
         /\ \A pos \in Nat : has_size(pos) => offsets_from[pos] = <<pos>> \o offsets_from[after(pos)]
         /\ \A pos \in Nat : ~has_size(pos) => offsets_from[pos] = <<>>
<1> DEFINE S == [Nat -> Seq(Nat)]
           none == [pos \in Nat |-> <<>>]
           more(g) == [pos \in Nat |-> IF has_size(pos) THEN <<pos>> \o g[after(pos)] ELSE <<>>]
           step == [g \in S |-> more(g)]
<1>1. none \in S
  BY EmptySeq
<1>2. \A pos \in Nat : after(pos) \in Nat /\ after(pos) >= pos + 2
  BY AfterIsBehind
<1>3. step \in [S -> S]
  <2>1. ASSUME NEW g \in S
        PROVE  more(g) \in S
    <3>1. ASSUME NEW pos \in Nat
          PROVE  /\ <<pos>> \o g[after(pos)] \in Seq(Nat)
                 /\ <<>> \in Seq(Nat)
      <4> DEFINE next == after(pos)
      <4>1. next \in Nat
        BY <1>2
      <4> HIDE DEF next
      <4>2. g[next] \in Seq(Nat)
        BY <4>1
      <4>3. <<pos>> \in Seq(Nat) /\ g[after(pos)] \in Seq(Nat)
        BY <4>2 DEF next
      <4> QED BY <4>3, ConcatProperties
    <3> QED BY <3>1
  <2> QED BY <2>1
<1>4. PICK G : Recurs(G, S, none, step)
  <2> HIDE DEF S, none, step
  <2> QED BY <1>1, <1>3, Recursion
<1>5. ASSUME NEW n \in Nat, NEW pos \in Nat
      PROVE  /\ has_size(pos) => G[n + 1][pos] = <<pos>> \o G[n][after(pos)]
             /\ ~has_size(pos) => G[n + 1][pos] = <<>>
  <2>1. G[n] \in S /\ G[n + 1] = step[G[n]]
    <3> HIDE DEF S, step
    <3> QED BY <1>4 DEF Recurs
  <2>2. G[n + 1] = more(G[n])
    BY <2>1
  <2> QED BY <2>2
<1>6. \A pos \in Nat : G[0][pos] = <<>>
  BY <1>4 DEF Recurs
<1>7. Len(file) \in Nat
  OBVIOUS
<1>8. ASSUME NEW pos \in Nat, NEW n \in Nat, pos + (n + 1) >= Len(file)
       PROVE  after(pos) \in Nat /\ after(pos) + n >= Len(file)
  <2> DEFINE next == after(pos)
  <2>1. next \in Nat /\ next >= pos + 2
    BY <1>2
  <2> HIDE DEF next
  <2>2. next + n >= Len(file)
    BY <1>7, <1>8, <2>1
  <2> QED BY <2>1, <2>2 DEF next
<1>9. \A n \in Nat : \A pos \in Nat : pos + n >= Len(file) => G[n + 1][pos] = G[n][pos]
  <2> DEFINE T == {n \in Nat : \A pos \in Nat : pos + n >= Len(file) => G[n + 1][pos] = G[n][pos]}
  <2>1. 0 \in T
    <3>1. ASSUME NEW pos \in Nat, pos + 0 >= Len(file)
          PROVE  G[0 + 1][pos] = G[0][pos]
      <4>1. ~has_size(pos)
        BY <1>7, <3>1 DEF has_size
      <4> QED BY <1>5, <1>6, <4>1
    <3> QED BY <3>1
  <2>2. ASSUME NEW n \in Nat, n \in T
        PROVE  n + 1 \in T
    <3>1. ASSUME NEW pos \in Nat, pos + (n + 1) >= Len(file)
          PROVE  G[(n + 1) + 1][pos] = G[n + 1][pos]
      <4>1. n + 1 \in Nat
        OBVIOUS
      <4>2. CASE ~has_size(pos)
        BY <1>5, <4>2, <4>1
      <4>3. CASE has_size(pos)
        <5>1. after(pos) \in Nat /\ after(pos) + n >= Len(file)
          BY <1>8, <3>1
        <5>2. G[n + 1][after(pos)] = G[n][after(pos)]
          BY <2>2, <5>1
        <5>3. G[(n + 1) + 1][pos] = <<pos>> \o G[n + 1][after(pos)]
          BY <1>5, <4>3, <4>1
        <5>4. G[n + 1][pos] = <<pos>> \o G[n][after(pos)]
          BY <1>5, <4>3
        <5> QED BY <5>2, <5>3, <5>4
      <4> QED BY <4>2, <4>3
    <3> QED BY <3>1
  <2>3. \A n \in Nat : n \in T
    <3> HIDE DEF T
    <3> QED BY <2>1, <2>2, Induction
  <2> QED BY <2>3
<1> DEFINE f == G[Len(file)]
           Eq(g) == g = more(g)
<1>10. f \in S
  <2> HIDE DEF S, step
  <2> QED BY <1>4, <1>7 DEF Recurs
<1>11. Eq(f)
  <2>1. ASSUME NEW pos \in Nat
        PROVE  f[pos] = IF has_size(pos) THEN <<pos>> \o f[after(pos)] ELSE <<>>
    <3>1. pos + Len(file) >= Len(file)
      BY <1>7
    <3>2. f[pos] = G[Len(file) + 1][pos]
      BY <1>7, <1>9, <3>1
    <3> QED BY <1>5, <1>7, <3>2
  <2>2. f = [pos \in Nat |-> f[pos]]
    BY <1>10
  <2> HIDE DEF f
  <2> QED BY <2>1, <2>2
<1>12. offsets_from = CHOOSE g : Eq(g)
  BY DEF offsets_from
<1>13. Eq(offsets_from)
  <2> HIDE DEF Eq, f
  <2> QED BY <1>11, <1>12
<1> HIDE DEF f

<1> DEFINE o == offsets_from
<1>14. /\ o = [pos \in Nat |-> o[pos]]
       /\ \A pos \in Nat : has_size(pos) => o[pos] = <<pos>> \o o[after(pos)]
       /\ \A pos \in Nat : ~has_size(pos) => o[pos] = <<>>
  <2> HIDE DEF o
  <2>1. o = more(o)
    BY <1>13 DEF o
  <2> QED BY <2>1
<1>15. \A n \in Nat : \A pos \in Nat : pos + n >= Len(file) => o[pos] \in Seq(Nat)
  <2> DEFINE T == {n \in Nat : \A pos \in Nat : pos + n >= Len(file) => o[pos] \in Seq(Nat)}
  <2> HIDE DEF o
  <2>1. 0 \in T
    <3>1. ASSUME NEW pos \in Nat, pos + 0 >= Len(file)
          PROVE  o[pos] \in Seq(Nat)
      <4>1. ~has_size(pos)
        BY <1>7, <3>1 DEF has_size
      <4> QED BY <1>14, <4>1, EmptySeq
    <3> QED BY <3>1
  <2>2. ASSUME NEW n \in Nat, n \in T
        PROVE  n + 1 \in T
    <3>1. ASSUME NEW pos \in Nat, pos + (n + 1) >= Len(file)
          PROVE  o[pos] \in Seq(Nat)
      <4>1. CASE ~has_size(pos)
        BY <1>14, <4>1, EmptySeq
      <4>2. CASE has_size(pos)
        <5>1. after(pos) \in Nat /\ after(pos) + n >= Len(file)
          BY <1>8, <3>1
        <5>2. <<pos>> \in Seq(Nat) /\ o[after(pos)] \in Seq(Nat)
          BY <2>2, <5>1
        <5>3. <<pos>> \o o[after(pos)] \in Seq(Nat)
          BY <5>2, ConcatProperties
        <5> QED BY <1>14, <4>2, <5>3
      <4> QED BY <4>1, <4>2
    <3> QED BY <3>1
  <2>3. \A n \in Nat : n \in T
    <3> HIDE DEF T
    <3> QED BY <2>1, <2>2, Induction
  <2> QED BY <2>3
<1>16. o \in S
  <2> HIDE DEF o
  <2>1. \A pos \in Nat : o[pos] \in Seq(Nat)
    <3>1. \A pos \in Nat : pos + Len(file) >= Len(file)
      BY <1>7
    <3> QED BY <1>7, <1>15, <3>1
  <2> QED BY <1>14, <2>1
<1> QED BY <1>14, <1>16

-----------------------------------------------------------------------------
\* Records.

\* The size of a message fits its two bytes, and the message follows them.
LEMMA RecordFits ==
  ASSUME NEW m \in Messages
  PROVE  /\ m \in Seq(Bytes) /\ record(m) \in Seq(Bytes) /\ Len(record(m)) = 2 + Len(m)
         /\ record(m)[1] * B + record(m)[2] = Len(m)
         /\ \A i \in 1..Len(m) : record(m)[2 + i] = m[i]
<1> DEFINE q == Len(m) \div B
           r == Len(m) % B
<1>1. B \in Nat \ {0, 1} /\ B * B \in Nat /\ m \in Seq(Bytes) /\ Len(m) \in Nat /\ Len(m) < B * B
  BY FileStoreAssumption
<1>2. q \in Nat /\ r \in 0..(B - 1) /\ Len(m) = B * q + r
  BY <1>1
<1>3. q < B
  <2>1. SUFFICES ASSUME q >= B PROVE FALSE
    BY <1>1, <1>2
  <2> HIDE DEF q, r
  <2>2. B * q >= B * B
    BY <1>1, <1>2, <2>1
  <2> QED BY <1>1, <1>2, <2>2
<1>4. htons(Len(m)) = <<q, r>>
  <2>1. q % B = q
    BY <1>1, <1>2, <1>3
  <2> QED BY <2>1 DEF htons
<1> HIDE DEF q, r
<1>5. <<q, r>> \in Seq(Bytes) /\ Len(<<q, r>>) = 2 /\ <<q, r>>[1] = q /\ <<q, r>>[2] = r
  BY <1>1, <1>2, <1>3 DEF Bytes
<1>6. /\ <<q, r>> \o m \in Seq(Bytes) /\ Len(<<q, r>> \o m) = Len(<<q, r>>) + Len(m)
      /\ \A i \in 1..(Len(<<q, r>>) + Len(m)) : (<<q, r>> \o m)[i] =
           IF i <= Len(<<q, r>>) THEN <<q, r>>[i] ELSE m[i - Len(<<q, r>>)]
  BY <1>1, <1>5, ConcatProperties
<1>7. record(m) = <<q, r>> \o m
  BY <1>4 DEF record
<1>8. q * B = B * q
  BY <1>1, <1>2
<1>9. \A i \in 1..(2 + Len(m)) : record(m)[i] = IF i <= 2 THEN <<q, r>>[i] ELSE m[i - 2]
  BY <1>5, <1>6, <1>7
<1>10. record(m)[1] = q /\ record(m)[2] = r
  <2>1. 1 \in 1..(2 + Len(m)) /\ 2 \in 1..(2 + Len(m))
    BY <1>1
  <2> QED BY <1>5, <1>9, <2>1
<1>11. \A i \in 1..Len(m) : record(m)[2 + i] = m[i]
  <2>1. ASSUME NEW i \in 1..Len(m)
        PROVE  record(m)[2 + i] = m[i]
    <3>1. 2 + i \in 1..(2 + Len(m)) /\ ~(2 + i <= 2) /\ (2 + i) - 2 = i
      BY <1>1
    <3> QED BY <1>9, <3>1
  <2> QED BY <2>1
<1>12. record(m) \in Seq(Bytes) /\ Len(record(m)) = 2 + Len(m)
  BY <1>5, <1>6, <1>7
<1> QED BY <1>1, <1>2, <1>8, <1>10, <1>11, <1>12

\* Behind position pos the bytes f hold the record of m.
Holds(f, pos, m) ==
  /\ pos + Len(record(m)) <= Len(f)
  /\ \A i \in 1..Len(record(m)) : f[pos + i] = record(m)[i]

\* Reading a record gives the message, and the position behind the record.
LEMMA ReadRecord ==
  ASSUME file \in Seq(Bytes), NEW pos \in Nat, NEW m \in Messages, Holds(file, pos, m)
  PROVE  /\ has_size(pos) /\ has_message(pos) /\ message_at(pos) = m
         /\ after(pos) = pos + Len(record(m))
<1>1. /\ m \in Seq(Bytes) /\ record(m) \in Seq(Bytes) /\ Len(record(m)) = 2 + Len(m)
      /\ record(m)[1] * B + record(m)[2] = Len(m)
      /\ \A i \in 1..Len(m) : record(m)[2 + i] = m[i]
  BY RecordFits
<1>2. Len(m) \in Nat /\ Len(file) \in Nat /\ pos + 2 + Len(m) <= Len(file)
  BY <1>1 DEF Holds
<1>3. \A i \in 1..(2 + Len(m)) : file[pos + i] = record(m)[i]
  BY <1>1 DEF Holds
<1>4. has_size(pos)
  BY <1>2 DEF has_size
<1>5. size_at(pos) = Len(m)
  <2>1. SubSeq(file, pos + 1, pos + 2)[1] = file[pos + 1]
        /\ SubSeq(file, pos + 1, pos + 2)[2] = file[pos + 2]
    BY <1>2
  <2>2. file[pos + 1] = record(m)[1] /\ file[pos + 2] = record(m)[2]
    BY <1>2, <1>3
  <2>3. ntohs(SubSeq(file, pos + 1, pos + 2)) = record(m)[1] * B + record(m)[2]
    BY <2>1, <2>2 DEF ntohs
  <2> QED BY <1>1, <1>4, <2>3 DEF size_at
<1>6. has_message(pos)
  BY <1>2, <1>4, <1>5 DEF has_message
<1>7. message_at(pos) = m
  <2> DEFINE t == SubSeq(file, pos + 3, pos + 2 + Len(m))
  <2>1. t \in Seq(Bytes) /\ Len(t) = Len(m) /\ \A i \in 1..Len(m) : t[i] = file[pos + 2 + i]
    BY <1>2
  <2>2. ASSUME NEW i \in 1..Len(m)
        PROVE  t[i] = m[i]
    <3>1. 2 + i \in 1..(2 + Len(m)) /\ pos + (2 + i) = pos + 2 + i
      BY <1>2
    <3>2. file[pos + (2 + i)] = record(m)[2 + i]
      BY <1>3, <3>1
    <3> HIDE DEF t
    <3> QED BY <1>1, <2>1, <3>1, <3>2
  <2>3. message_at(pos) = t
    BY <1>5 DEF message_at
  <2> HIDE DEF t
  <2>4. t = m
    BY <1>1, <2>1, <2>2, SeqEqual
  <2> QED BY <2>3, <2>4
<1>8. after(pos) = pos + Len(record(m))
  BY <1>1, <1>2, <1>5 DEF after
<1> QED BY <1>4, <1>6, <1>7, <1>8

\* What is written at the end of the file comes behind what is there.
LEMMA Written ==
  ASSUME file \in Seq(Bytes), NEW part \in Seq(Bytes)
  PROVE  LET f == written(add_position, part)
         IN  /\ f \in Seq(Bytes) /\ Len(f) = Len(file) + Len(part)
             /\ \A i \in 1..Len(file) : f[i] = file[i]
             /\ \A i \in 1..Len(part) : f[Len(file) + i] = part[i]
<1>1. Len(file) \in Nat /\ Len(part) \in Nat
  OBVIOUS
<1>2. SubSeq(file, 1, Len(file)) = file
  BY <1>1
<1>3. SubSeq(file, Len(file) + Len(part) + 1, Len(file)) = <<>>
  <2>1. Len(file) + Len(part) + 1 \in Int /\ Len(file) \in Int /\ Len(file) < Len(file) + Len(part) + 1
    BY <1>1
  <2> QED BY <2>1, SubSeqEmpty
<1>4. /\ file \o part \in Seq(Bytes) /\ Len(file \o part) = Len(file) + Len(part)
      /\ \A i \in 1..(Len(file) + Len(part)) : (file \o part)[i] =
           IF i <= Len(file) THEN file[i] ELSE part[i - Len(file)]
  BY ConcatProperties
<1> DEFINE f == file \o part
<1>5. written(add_position, part) = f
  <2>1. written(add_position, part) = SubSeq(file, 1, Len(file)) \o part \o SubSeq(file, Len(file) + Len(part) + 1, Len(file))
    BY DEF written, add_position
  <2>2. f \in Seq(Bytes)
    BY <1>4
  <2>3. f \o <<>> = f
    <3> HIDE DEF f
    <3> QED BY <2>2, ConcatEmptySeq
  <2> QED BY <1>2, <1>3, <2>1, <2>3
<1> HIDE DEF f
<1>6. /\ f \in Seq(Bytes) /\ Len(f) = Len(file) + Len(part)
      /\ \A i \in 1..(Len(file) + Len(part)) : f[i] =
           IF i <= Len(file) THEN file[i] ELSE part[i - Len(file)]
  BY <1>4 DEF f
<1>7. \A i \in 1..Len(file) : f[i] = file[i]
  BY <1>1, <1>6
<1>8. ASSUME NEW i \in 1..Len(part)
      PROVE  f[Len(file) + i] = part[i]
  <2>1. Len(file) + i \in 1..(Len(file) + Len(part)) /\ ~(Len(file) + i <= Len(file))
        /\ (Len(file) + i) - Len(file) = i
    BY <1>1
  <2> QED BY <1>6, <2>1
<1> QED BY <1>5, <1>6, <1>7, <1>8

-----------------------------------------------------------------------------
\* The log in the file: the records of the messages msgs, one behind the other
\* from the beginning of the bytes f on, and es where they end.

EndOf(es, k) == IF k = 0 THEN 0 ELSE es[k]

LogOf(f, msgs, es) ==
  /\ Len(es) = Len(msgs)
  /\ \A k \in 1..Len(msgs) : /\ Holds(f, EndOf(es, k - 1), msgs[k])
                             /\ EndOf(es, k) = EndOf(es, k - 1) + Len(record(msgs[k]))

\* Every record begins where the one before it ends, so the ends grow.
LEMMA EndsGrow ==
  ASSUME NEW f \in Seq(Bytes), NEW msgs \in Seq(Messages), NEW es \in Seq(Nat), LogOf(f, msgs, es),
         NEW j \in 0..Len(msgs)
  PROVE  /\ EndOf(es, j) \in Nat /\ EndOf(es, j) <= Len(f)
         /\ \A i \in 0..j : EndOf(es, i) \in Nat /\ EndOf(es, i) <= EndOf(es, j)
<1>1. Len(msgs) \in Nat /\ Len(es) = Len(msgs) /\ Len(f) \in Nat
  BY DEF LogOf
<1>2. \A i \in 0..Len(msgs) : EndOf(es, i) \in Nat
  BY <1>1 DEF EndOf
<1>3. ASSUME NEW k \in Nat, k + 1 <= Len(msgs)
      PROVE  EndOf(es, k) <= EndOf(es, k + 1) /\ EndOf(es, k + 1) <= Len(f)
  <2>1. k + 1 \in 1..Len(msgs) /\ (k + 1) - 1 = k
    BY <1>3, <1>1
  <2>2. Holds(f, EndOf(es, k), msgs[k + 1]) /\ EndOf(es, k + 1) = EndOf(es, k) + Len(record(msgs[k + 1]))
    BY <2>1 DEF LogOf
  <2>3. msgs[k + 1] \in Messages
    BY <2>1, ElementOfSeq
  <2>4. Len(record(msgs[k + 1])) \in Nat
    BY <2>3, RecordFits
  <2>5. EndOf(es, k) \in Nat
    BY <1>1, <1>2, <1>3
  <2>6. EndOf(es, k) + Len(record(msgs[k + 1])) <= Len(f)
    BY <2>2 DEF Holds
  <2> QED BY <2>2, <2>4, <2>5, <2>6
<1> DEFINE T == {n \in Nat : n <= Len(msgs) =>
                   /\ EndOf(es, n) <= Len(f)
                   /\ \A i \in 0..n : EndOf(es, i) <= EndOf(es, n)}
<1>4. 0 \in T
  BY <1>1 DEF EndOf
<1>5. ASSUME NEW n \in Nat, n \in T
      PROVE  n + 1 \in T
  <2> SUFFICES ASSUME n + 1 <= Len(msgs)
               PROVE  /\ EndOf(es, n + 1) <= Len(f)
                      /\ \A i \in 0..(n + 1) : EndOf(es, i) <= EndOf(es, n + 1)
    OBVIOUS
  <2>1. EndOf(es, n) <= EndOf(es, n + 1) /\ EndOf(es, n + 1) <= Len(f)
    BY <1>3
  <2>2. EndOf(es, n) \in Nat /\ EndOf(es, n + 1) \in Nat
    BY <1>1, <1>2
  <2>3. ASSUME NEW i \in 0..(n + 1)
        PROVE  EndOf(es, i) <= EndOf(es, n + 1)
    <3>1. CASE i = n + 1
      BY <2>2, <3>1
    <3>2. CASE i # n + 1
      <4>1. i \in 0..n /\ n <= Len(msgs)
        BY <1>1, <3>2
      <4>2. EndOf(es, i) <= EndOf(es, n) /\ EndOf(es, i) \in Nat
        BY <1>1, <1>2, <1>5, <4>1
      <4> QED BY <2>1, <2>2, <4>2
    <3> QED BY <3>1, <3>2
  <2> QED BY <2>1, <2>3
<1>6. j \in T
  <2>1. \A n \in Nat : n \in T
    <3> HIDE DEF T
    <3> QED BY <1>4, <1>5, Induction
  <2> QED BY <1>1, <2>1
<1>7. \A i \in 0..j : i \in 0..Len(msgs)
  BY <1>1
<1> QED BY <1>1, <1>2, <1>6, <1>7

\* A longer file that begins with f holds the same log.
LEMMA LogKept ==
  ASSUME NEW f \in Seq(Bytes), NEW msgs \in Seq(Messages), NEW es \in Seq(Nat), LogOf(f, msgs, es),
         NEW g \in Seq(Bytes), Len(g) >= Len(f), \A i \in 1..Len(f) : g[i] = f[i]
  PROVE  LogOf(g, msgs, es)
<1>1. ASSUME NEW k \in 1..Len(msgs)
      PROVE  Holds(g, EndOf(es, k - 1), msgs[k])
  <2> DEFINE r == record(msgs[k])
             pos == EndOf(es, k - 1)
  <2>1. Len(msgs) \in Nat /\ k - 1 \in 0..Len(msgs)
    OBVIOUS
  <2>2. pos \in Nat
    BY <2>1, EndsGrow
  <2>3. msgs[k] \in Messages
    BY ElementOfSeq
  <2>4. Len(r) \in Nat
    BY <2>3, RecordFits
  <2>5. Holds(f, pos, msgs[k])
    BY DEF LogOf
  <2>6. pos + Len(r) <= Len(f) /\ \A i \in 1..Len(r) : f[pos + i] = r[i]
    BY <2>5 DEF Holds
  <2>7. Len(f) \in Nat /\ Len(g) \in Nat
    OBVIOUS
  <2> HIDE DEF pos, r
  <2>8. \A i \in 1..Len(r) : pos + i \in 1..Len(f)
    BY <2>2, <2>4, <2>6, <2>7
  <2>9. pos + Len(r) <= Len(g) /\ \A i \in 1..Len(r) : g[pos + i] = r[i]
    BY <2>2, <2>4, <2>6, <2>7, <2>8
  <2> QED BY <2>9 DEF Holds, pos, r
<1> QED BY <1>1 DEF LogOf

\* A record written behind the last one continues the log.
LEMMA LogGrows ==
  ASSUME NEW f \in Seq(Bytes), NEW msgs \in Seq(Messages), NEW es \in Seq(Nat), LogOf(f, msgs, es),
         EndOf(es, Len(msgs)) = Len(f),
         NEW m \in Messages, NEW g \in Seq(Bytes), Len(g) = Len(f) + Len(record(m)),
         \A i \in 1..Len(f) : g[i] = f[i],
         \A i \in 1..Len(record(m)) : g[Len(f) + i] = record(m)[i]
  PROVE  /\ LogOf(g, Append(msgs, m), Append(es, Len(g)))
         /\ \A j \in 0..Len(msgs) : EndOf(Append(es, Len(g)), j) = EndOf(es, j)
         /\ EndOf(Append(es, Len(g)), Len(msgs) + 1) = Len(g)
<1> DEFINE bs == Append(msgs, m)
           ds == Append(es, Len(g))
           n == Len(msgs)
<1>1. n \in Nat /\ Len(f) \in Nat /\ Len(g) \in Nat /\ Len(es) = n
  BY DEF LogOf
<1>2. bs \in Seq(Messages) /\ Len(bs) = n + 1 /\ (\A i \in 1..n : bs[i] = msgs[i]) /\ bs[n + 1] = m
  BY AppendProperties
<1>3. ds \in Seq(Nat) /\ Len(ds) = n + 1 /\ (\A i \in 1..n : ds[i] = es[i]) /\ ds[n + 1] = Len(g)
  BY <1>1, AppendProperties
<1>4. Len(record(m)) \in Nat /\ Len(g) >= Len(f)
  <2>1. Len(record(m)) \in Nat
    BY RecordFits
  <2> QED BY <1>1, <2>1
<1>5. LogOf(g, msgs, es)
  BY <1>4, LogKept
<1> HIDE DEF bs, ds
<1>6. \A j \in 0..n : EndOf(ds, j) = EndOf(es, j)
  BY <1>1, <1>3 DEF EndOf
<1>7. EndOf(ds, n + 1) = Len(g)
  BY <1>1, <1>3 DEF EndOf
<1>8. ASSUME NEW k \in 1..(n + 1)
      PROVE  /\ Holds(g, EndOf(ds, k - 1), bs[k])
             /\ EndOf(ds, k) = EndOf(ds, k - 1) + Len(record(bs[k]))
  <2>1. CASE k <= n
    <3>1. k \in 1..n /\ k \in 0..n /\ k - 1 \in 0..n
      BY <1>1, <2>1
    <3>2. EndOf(ds, k) = EndOf(es, k) /\ EndOf(ds, k - 1) = EndOf(es, k - 1) /\ bs[k] = msgs[k]
      BY <1>2, <1>6, <3>1
    <3>3. /\ Holds(g, EndOf(es, k - 1), msgs[k])
          /\ EndOf(es, k) = EndOf(es, k - 1) + Len(record(msgs[k]))
      BY <1>5, <3>1 DEF LogOf
    <3> QED BY <3>2, <3>3
  <2>2. CASE ~(k <= n)
    <3>1. k = n + 1 /\ k - 1 = n /\ n \in 0..n
      BY <1>1, <2>2
    <3>2. EndOf(ds, k - 1) = Len(f)
      BY <1>6, <3>1
    <3>3. bs[k] = m /\ EndOf(ds, k) = Len(g)
      BY <1>2, <1>7, <3>1
    <3>4. Holds(g, Len(f), m)
      BY <1>1 DEF Holds
    <3> QED BY <3>2, <3>3, <3>4
  <2> QED BY <2>1, <2>2
<1>9. LogOf(g, bs, ds)
  BY <1>2, <1>3, <1>8 DEF LogOf
<1> QED BY <1>6, <1>7, <1>9 DEF bs, ds

\* Cut behind its k-th record, wherever the file ends, the log has k records.
LEMMA LogCut ==
  ASSUME NEW f \in Seq(Bytes), NEW msgs \in Seq(Messages), NEW es \in Seq(Nat), LogOf(f, msgs, es),
         NEW k \in 0..Len(msgs), NEW n \in 0..Len(f), EndOf(es, k) <= n
  PROVE  /\ LogOf(SubSeq(f, 1, n), SubSeq(msgs, 1, k), SubSeq(es, 1, k))
         /\ \A j \in 0..k : EndOf(SubSeq(es, 1, k), j) = EndOf(es, j)
<1> DEFINE g == SubSeq(f, 1, n)
           bs == SubSeq(msgs, 1, k)
           ds == SubSeq(es, 1, k)
<1>1. Len(msgs) \in Nat /\ Len(f) \in Nat /\ Len(es) = Len(msgs)
  BY DEF LogOf
<1>2. g \in Seq(Bytes) /\ Len(g) = n /\ \A i \in 1..n : g[i] = f[i]
  BY <1>1
<1>3. bs \in Seq(Messages) /\ Len(bs) = k /\ \A i \in 1..k : bs[i] = msgs[i]
  BY <1>1
<1>4. ds \in Seq(Nat) /\ Len(ds) = k /\ \A i \in 1..k : ds[i] = es[i]
  BY <1>1
<1> HIDE DEF g, bs, ds
<1>5. \A j \in 0..k : EndOf(ds, j) = EndOf(es, j)
  BY <1>1, <1>4 DEF EndOf
<1>6. ASSUME NEW j \in 1..k
      PROVE  /\ Holds(g, EndOf(ds, j - 1), bs[j])
             /\ EndOf(ds, j) = EndOf(ds, j - 1) + Len(record(bs[j]))
  <2>1. j \in 1..Len(msgs) /\ j \in 0..k /\ j - 1 \in 0..k /\ j - 1 \in 0..Len(msgs)
    BY <1>1
  <2>2. EndOf(ds, j) = EndOf(es, j) /\ EndOf(ds, j - 1) = EndOf(es, j - 1) /\ bs[j] = msgs[j]
    BY <1>3, <1>5, <2>1
  <2>3. Holds(f, EndOf(es, j - 1), msgs[j]) /\ EndOf(es, j) = EndOf(es, j - 1) + Len(record(msgs[j]))
    BY <2>1 DEF LogOf
  <2>4. EndOf(es, j) <= EndOf(es, k) /\ EndOf(es, j) \in Nat /\ EndOf(es, k) \in Nat
        /\ EndOf(es, j - 1) \in Nat
    BY <2>1, EndsGrow
  <2> DEFINE r == record(msgs[j])
             pos == EndOf(es, j - 1)
  <2>5. Len(r) \in Nat
    <3>1. msgs[j] \in Messages
      BY <2>1, ElementOfSeq
    <3> QED BY <3>1, RecordFits
  <2>6. \A i \in 1..Len(r) : f[pos + i] = r[i]
    BY <2>3 DEF Holds
  <2>7. pos + Len(r) <= n /\ pos \in Nat
    BY <1>1, <2>3, <2>4
  <2> HIDE DEF r, pos
  <2>8. \A i \in 1..Len(r) : pos + i \in 1..n
    BY <1>1, <2>5, <2>7
  <2>9. pos + Len(r) <= Len(g) /\ \A i \in 1..Len(r) : g[pos + i] = r[i]
    BY <1>2, <2>6, <2>7, <2>8
  <2>10. Holds(g, pos, msgs[j])
    BY <2>9 DEF Holds, r
  <2> QED BY <2>2, <2>3, <2>10 DEF pos
<1>7. LogOf(g, bs, ds)
  BY <1>3, <1>4, <1>6 DEF LogOf
<1> QED BY <1>5, <1>7 DEF g, bs, ds

-----------------------------------------------------------------------------
\* The inductive invariant.

StoreType ==
  /\ file \in Seq(Bytes) /\ synced \in Nat /\ opened \in BOOLEAN /\ offsets \in Seq(Nat)
  /\ added \in Seq(Messages) /\ ends \in Seq(Nat) /\ durable \in Nat /\ damaged \in BOOLEAN
  /\ unread \in BOOLEAN

\* What was added lies at the beginning of the file, and is all there is unless
\* an addition failed.
LogInv ==
  /\ LogOf(file, added, ends)
  /\ ~damaged => EndOf(ends, Len(added)) = Len(file)

\* The offsets of an open File_store begin with those of the messages added,
\* unless it has not read the file.
OffsetsInv ==
  opened /\ ~unread => /\ Len(offsets) >= Len(added)
                       /\ \A k \in 1..Len(added) : offsets[k] = EndOf(ends, k - 1)
                       /\ ~damaged => Len(offsets) = Len(added)

\* What was synced contains the messages that were.
DurableInv ==
  /\ durable <= Len(added) /\ EndOf(ends, durable) <= synced /\ synced <= Len(file)

StoreInv == StoreType /\ LogInv /\ OffsetsInv /\ DurableInv

\* set_offsets() finds the beginnings of the messages added, and nothing else
\* unless an addition failed.
LEMMA FoundInOrder ==
  ASSUME StoreType, LogInv
  PROVE  /\ found \in Seq(Nat) /\ Len(found) >= Len(added)
         /\ \A k \in 1..Len(added) : found[k] = EndOf(ends, k - 1)
         /\ ~damaged => Len(found) = Len(added)
<1> DEFINE from(k) == offsets_from[EndOf(ends, k)]
           Good(i) == /\ Len(found) = i + Len(from(i))
                      /\ \A k \in 1..i : found[k] = EndOf(ends, k - 1)
                      /\ \A k \in 1..Len(from(i)) : found[i + k] = from(i)[k]
           T == {i \in Nat : i <= Len(added) => Good(i)}
<1>1. /\ file \in Seq(Bytes) /\ added \in Seq(Messages) /\ ends \in Seq(Nat)
      /\ LogOf(file, added, ends) /\ Len(added) \in Nat /\ Len(file) \in Nat
  BY DEF StoreType, LogInv
<1>2. /\ offsets_from \in [Nat -> Seq(Nat)]
      /\ \A pos \in Nat : has_size(pos) => offsets_from[pos] = <<pos>> \o offsets_from[after(pos)]
      /\ \A pos \in Nat : ~has_size(pos) => offsets_from[pos] = <<>>
  BY <1>1, OffsetsFrom
<1>3. \A i \in 0..Len(added) : EndOf(ends, i) \in Nat
  BY <1>1, EndsGrow
<1>4. \A i \in 0..Len(added) : from(i) \in Seq(Nat)
  BY <1>2, <1>3
<1>5. found \in Seq(Nat) /\ from(0) = found
  BY <1>2 DEF found, EndOf
<1>6. ASSUME NEW i \in Nat, i + 1 <= Len(added)
      PROVE  from(i) = <<EndOf(ends, i)>> \o from(i + 1)
  <2>1. i \in 0..Len(added) /\ i + 1 \in 1..Len(added) /\ (i + 1) - 1 = i
    BY <1>1, <1>6
  <2>2. EndOf(ends, i) \in Nat
    BY <1>3, <2>1
  <2>3. Holds(file, EndOf(ends, i), added[i + 1])
        /\ EndOf(ends, i + 1) = EndOf(ends, i) + Len(record(added[i + 1]))
    BY <1>1, <2>1 DEF LogOf
  <2>4. added[i + 1] \in Messages
    BY <1>1, <2>1, ElementOfSeq
  <2>5. has_size(EndOf(ends, i)) /\ after(EndOf(ends, i)) = EndOf(ends, i + 1)
    BY <1>1, <2>2, <2>3, <2>4, ReadRecord
  <2> QED BY <1>2, <2>2, <2>5
<1> HIDE DEF from
<1>7. 0 \in T
  <2>1. Len(found) \in Nat
    BY <1>5
  <2> QED BY <1>5, <2>1
<1>8. ASSUME NEW i \in Nat, i \in T
      PROVE  i + 1 \in T
  <2> SUFFICES ASSUME i + 1 <= Len(added) PROVE Good(i + 1)
    OBVIOUS
  <2>1. i <= Len(added) /\ i \in 0..Len(added) /\ i + 1 \in 0..Len(added)
    BY <1>1
  <2>2. Good(i)
    BY <1>8, <2>1
  <2> DEFINE e == EndOf(ends, i)
             n == Len(from(i + 1))
  <2>3. e \in Nat /\ from(i + 1) \in Seq(Nat) /\ n \in Nat
    BY <1>3, <1>4, <2>1
  <2>4. <<e>> \in Seq(Nat) /\ Len(<<e>>) = 1 /\ <<e>>[1] = e
    BY <2>3
  <2>5. from(i) = <<e>> \o from(i + 1)
    BY <1>6
  <2> HIDE DEF e, n
  <2>6. /\ Len(<<e>> \o from(i + 1)) = Len(<<e>>) + Len(from(i + 1))
        /\ \A k \in 1..(Len(<<e>>) + Len(from(i + 1))) : (<<e>> \o from(i + 1))[k] =
             IF k <= Len(<<e>>) THEN <<e>>[k] ELSE from(i + 1)[k - Len(<<e>>)]
    BY <2>3, <2>4, ConcatProperties
  <2>7. Len(from(i)) = 1 + n /\ \A k \in 1..(1 + n) : from(i)[k] = IF k <= 1 THEN <<e>>[k] ELSE from(i + 1)[k - 1]
    BY <2>4, <2>5, <2>6 DEF n
  <2>8. from(i)[1] = e
    <3>1. 1 \in 1..(1 + n)
      BY <2>3
    <3> QED BY <2>4, <2>7, <3>1
  <2>9. ASSUME NEW k \in 1..n
        PROVE  from(i)[1 + k] = from(i + 1)[k]
    <3>1. 1 + k \in 1..(1 + n) /\ ~(1 + k <= 1) /\ (1 + k) - 1 = k
      BY <2>3
    <3> QED BY <2>7, <3>1
  <2>10. Len(found) = (i + 1) + n
    BY <2>2, <2>3, <2>7
  <2>11. ASSUME NEW k \in 1..(i + 1)
         PROVE  found[k] = EndOf(ends, k - 1)
    <3>1. CASE k <= i
      BY <2>2, <3>1
    <3>2. CASE ~(k <= i)
      <4>1. k = i + 1 /\ k - 1 = i /\ 1 \in 1..Len(from(i))
        BY <2>3, <2>7, <3>2
      <4>2. found[i + 1] = from(i)[1]
        BY <2>2, <4>1
      <4> QED BY <2>8, <4>1, <4>2 DEF e
    <3> QED BY <3>1, <3>2
  <2>12. ASSUME NEW k \in 1..n
         PROVE  found[(i + 1) + k] = from(i + 1)[k]
    <3>1. 1 + k \in 1..Len(from(i)) /\ i + (1 + k) = (i + 1) + k
      BY <2>3, <2>7
    <3>2. found[i + (1 + k)] = from(i)[1 + k]
      BY <2>2, <3>1
    <3> QED BY <2>9, <3>1, <3>2
  <2> QED BY <2>10, <2>11, <2>12 DEF n
<1>9. Good(Len(added))
  <2>1. \A n \in Nat : n \in T
    <3> HIDE DEF T
    <3> QED BY <1>7, <1>8, Induction
  <2>2. Len(added) \in T
    BY <1>1, <2>1
  <2>3. Len(added) <= Len(added)
    BY <1>1
  <2> HIDE DEF Good
  <2> QED BY <2>2, <2>3
<1>10. Len(from(Len(added))) \in Nat
  <2>1. Len(added) \in 0..Len(added)
    BY <1>1
  <2> QED BY <1>4, <2>1
<1>11. ASSUME ~damaged
       PROVE  Len(found) = Len(added)
  <2>1. EndOf(ends, Len(added)) = Len(file)
    BY <1>11 DEF LogInv
  <2>2. ~has_size(Len(file))
    BY <1>1 DEF has_size
  <2>3. from(Len(added)) = <<>>
    BY <1>1, <1>2, <2>1, <2>2 DEF from
  <2>4. Len(from(Len(added))) = 0
    BY <2>3
  <2> QED BY <1>1, <1>9, <2>4
<1> QED BY <1>1, <1>5, <1>9, <1>10, <1>11

-----------------------------------------------------------------------------
\* The invariant holds at first, and is kept.

\* The file is empty, and nothing was added.
LEMMA InitInv == Init => StoreInv
<1> SUFFICES ASSUME Init PROVE StoreInv
  OBVIOUS
<1> USE DEF Init
<1>1. StoreType
  <2>1. <<>> \in Seq(Bytes) /\ <<>> \in Seq(Nat) /\ <<>> \in Seq(Messages)
    BY EmptySeq
  <2> QED BY <2>1 DEF StoreType
<1>2. Len(<<>>) = 0
  BY EmptySeq
<1>3. LogInv
  BY <1>2 DEF LogInv, LogOf, EndOf
<1>4. OffsetsInv
  BY DEF OffsetsInv
<1>5. DurableInv
  BY <1>2 DEF DurableInv, EndOf
<1> QED BY <1>1, <1>3, <1>4, <1>5 DEF StoreInv

\* What changes nothing on the disk keeps everything but, perhaps, the offsets.
LEMMA Unwritten ==
  ASSUME StoreInv, UNCHANGED <<file, synced, added, ends, durable, damaged>>,
         opened' \in BOOLEAN, unread' \in BOOLEAN, offsets' \in Seq(Nat), OffsetsInv'
  PROVE  StoreInv'
<1>1. StoreType'
  BY DEF StoreInv, StoreType
<1>2. LogInv'
  BY DEF StoreInv, LogInv
<1>3. DurableInv'
  BY DEF StoreInv, DurableInv
<1> QED BY <1>1, <1>2, <1>3 DEF StoreInv

\* Opening counts what is found, and nothing was counted before.
LEMMA OpenInv ==
  ASSUME StoreInv, ~Reopens, Open \/ OpenUnread \/ OpenFails
  PROVE  StoreInv'
<1>1. /\ found \in Seq(Nat) /\ Len(found) >= Len(added)
      /\ \A k \in 1..Len(added) : found[k] = EndOf(ends, k - 1)
      /\ ~damaged => Len(found) = Len(added)
  BY FoundInOrder DEF StoreInv
<1>2. offsets = <<>> /\ ~opened /\ UNCHANGED <<file, synced, added, ends, durable, damaged>>
  BY DEF Open, OpenUnread, OpenFails, history
<1>3. CASE Open
  <2>1. offsets' = <<>> \o found /\ opened' = TRUE /\ unread' = FALSE
    BY <1>2, <1>3 DEF Open
  <2>2. offsets' = found
    BY <1>1, <2>1, ConcatEmptySeq
  <2>3. OffsetsInv'
    BY <1>1, <1>2, <2>2 DEF OffsetsInv
  <2> QED BY <1>1, <1>2, <2>1, <2>2, <2>3, Unwritten
<1>4. CASE OpenFails
  <2>1. PICK read \in Prefixes(found) : offsets' = <<>> \o read
    BY <1>2, <1>4 DEF OpenFails
  <2>2. opened' = FALSE /\ unread' \in BOOLEAN
    BY <1>2, <1>4 DEF OpenFails, StoreInv, StoreType
  <2>3. PICK l \in 0..Len(found) : read = SubSeq(found, 1, l)
    BY <2>1 DEF Prefixes
  <2>4. read \in Seq(Nat)
    BY <1>1, <2>3
  <2>5. offsets' = read
    BY <2>1, <2>4, ConcatEmptySeq
  <2>6. OffsetsInv'
    BY <2>2 DEF OffsetsInv
  <2> QED BY <1>2, <2>2, <2>4, <2>5, <2>6, Unwritten
<1>5. CASE OpenUnread
  <2>1. offsets' = offsets /\ opened' = TRUE /\ unread' = (offsets # found)
    BY <1>5 DEF OpenUnread
  <2>2. offsets \in Seq(Nat)
    BY DEF StoreInv, StoreType
  <2>3. OffsetsInv'
    <3>1. ~unread' => offsets' = found
      BY <2>1
    <3> QED BY <1>1, <1>2, <3>1 DEF OffsetsInv
  <2> QED BY <1>2, <2>1, <2>2, <2>3, Unwritten
<1> QED BY <1>3, <1>4, <1>5

\* A whole record is added to the log, or to what is behind it.
LEMMA AddInv ==
  ASSUME StoreInv, NEW m \in Messages, Add(m)
  PROVE  StoreInv'
<1> USE DEF StoreInv
<1>1. /\ file \in Seq(Bytes) /\ added \in Seq(Messages) /\ ends \in Seq(Nat) /\ offsets \in Seq(Nat)
      /\ LogOf(file, added, ends) /\ opened /\ damaged \in BOOLEAN /\ synced \in Nat /\ durable \in Nat
      /\ Len(file) \in Nat /\ Len(added) \in Nat /\ Len(offsets) \in Nat /\ Len(ends) = Len(added)
      /\ unread \in BOOLEAN
  BY DEF StoreType, LogInv, LogOf, Add
<1>2. record(m) \in Seq(Bytes) /\ Len(record(m)) \in Nat
  BY RecordFits
<1>3. /\ file' \in Seq(Bytes) /\ Len(file') = Len(file) + Len(record(m))
      /\ \A i \in 1..Len(file) : file'[i] = file[i]
      /\ \A i \in 1..Len(record(m)) : file'[Len(file) + i] = record(m)[i]
  BY <1>1, <1>2, Written DEF Add
<1>4. Len(file') \in Nat /\ Len(file') >= Len(file)
  BY <1>1, <1>2, <1>3
<1>5. UNCHANGED <<synced, opened, durable, damaged, unread>>
  BY DEF Add
<1>6. offsets' = Append(offsets, Len(file))
  BY DEF Add, add_position
<1>7. /\ offsets' \in Seq(Nat) /\ Len(offsets') = Len(offsets) + 1
      /\ \A k \in 1..Len(offsets) : offsets'[k] = offsets[k]
      /\ offsets'[Len(offsets) + 1] = Len(file)
  BY <1>1, <1>6, AppendProperties
<1>8. CASE damaged
  <2>1. UNCHANGED <<added, ends>>
    BY <1>8 DEF Add
  <2>2. LogOf(file', added, ends)
    BY <1>1, <1>3, <1>4, LogKept
  <2>3. StoreType'
    BY <1>1, <1>3, <1>5, <1>7, <2>1 DEF StoreType
  <2>4. LogInv'
    BY <1>5, <1>8, <2>1, <2>2 DEF LogInv
  <2>5. DurableInv'
    BY <1>1, <1>4, <1>5, <2>1 DEF DurableInv
  <2>6. ASSUME ~unread PROVE OffsetsInv'
    <3>1. Len(offsets) >= Len(added) /\ \A k \in 1..Len(added) : offsets[k] = EndOf(ends, k - 1)
      BY <1>1, <2>6 DEF OffsetsInv
    <3>2. ASSUME NEW k \in 1..Len(added)
          PROVE  offsets'[k] = EndOf(ends, k - 1)
      <4>1. k \in 1..Len(offsets)
        BY <1>1, <3>1
      <4> QED BY <1>7, <3>1, <4>1
    <3>3. Len(offsets') >= Len(added)
      BY <1>1, <1>7, <3>1
    <3> QED BY <1>5, <1>8, <2>1, <3>2, <3>3 DEF OffsetsInv
  <2>7. OffsetsInv'
    BY <1>5, <2>6 DEF OffsetsInv
  <2> QED BY <2>3, <2>4, <2>5, <2>7
<1>9. CASE ~damaged
  <2>1. added' = Append(added, m) /\ ends' = Append(ends, Len(file'))
    BY <1>9 DEF Add
  <2>2. EndOf(ends, Len(added)) = Len(file)
    BY <1>9 DEF LogInv
  <2>3. /\ LogOf(file', added', ends')
        /\ \A j \in 0..Len(added) : EndOf(ends', j) = EndOf(ends, j)
        /\ EndOf(ends', Len(added) + 1) = Len(file')
    BY <1>1, <1>3, <2>1, <2>2, LogGrows, ZenonT(30)
  <2>4. added' \in Seq(Messages) /\ Len(added') = Len(added) + 1 /\ ends' \in Seq(Nat)
    BY <1>1, <1>4, <2>1, AppendProperties
  <2>5. StoreType'
    BY <1>1, <1>3, <1>5, <1>7, <2>4 DEF StoreType
  <2>6. LogInv'
    BY <2>3, <2>4 DEF LogInv
  <2>7. DurableInv'
    <3>1. durable <= Len(added) /\ EndOf(ends, durable) <= synced /\ synced <= Len(file)
      BY DEF DurableInv
    <3>2. durable \in 0..Len(added)
      BY <1>1, <3>1
    <3>3. EndOf(ends', durable) <= synced
      BY <2>3, <3>1, <3>2
    <3> QED BY <1>1, <1>4, <1>5, <2>4, <3>1, <3>3 DEF DurableInv
  <2>8. ASSUME ~unread PROVE OffsetsInv'
    <3>1. Len(offsets) = Len(added) /\ \A k \in 1..Len(added) : offsets[k] = EndOf(ends, k - 1)
      BY <1>1, <1>9, <2>8 DEF OffsetsInv
    <3>2. ASSUME NEW k \in 1..Len(added')
          PROVE  offsets'[k] = EndOf(ends', k - 1)
      <4>1. k - 1 \in 0..Len(added)
        BY <1>1, <2>4
      <4>2. EndOf(ends', k - 1) = EndOf(ends, k - 1)
        BY <2>3, <4>1
      <4>3. CASE k <= Len(added)
        <5>1. k \in 1..Len(added) /\ k \in 1..Len(offsets)
          BY <1>1, <3>1, <4>3
        <5> QED BY <1>7, <3>1, <4>2, <5>1
      <4>4. CASE ~(k <= Len(added))
        <5>1. k = Len(added) + 1 /\ k - 1 = Len(added)
          BY <1>1, <2>4, <4>4
        <5> QED BY <1>7, <2>2, <3>1, <4>2, <5>1
      <4> QED BY <4>3, <4>4
    <3>3. Len(offsets') = Len(added') /\ Len(added') \in Nat
      BY <1>1, <1>7, <2>4, <3>1
    <3>4. Len(offsets') >= Len(added')
      BY <3>3
    <3> QED BY <3>2, <3>3, <3>4 DEF OffsetsInv
  <2>9. OffsetsInv'
    BY <1>5, <2>8 DEF OffsetsInv
  <2> QED BY <2>5, <2>6, <2>7, <2>9
<1> QED BY <1>1, <1>8, <1>9

\* Part of a record behind the log changes nothing of it.
LEMMA TornInv ==
  ASSUME StoreInv, NEW m \in Messages, AddFails(m) \/ AddInterrupted(m)
  PROVE  StoreInv'
<1> USE DEF StoreInv
<1>1. /\ file \in Seq(Bytes) /\ added \in Seq(Messages) /\ ends \in Seq(Nat) /\ offsets \in Seq(Nat)
      /\ LogOf(file, added, ends) /\ opened /\ synced \in Nat /\ durable \in Nat
      /\ Len(file) \in Nat /\ Len(added) \in Nat /\ Len(offsets) \in Nat /\ unread \in BOOLEAN
  BY DEF StoreType, LogInv, AddFails, AddInterrupted
<1>2. PICK part \in Prefixes(record(m)) : file' = written(add_position, part)
  BY DEF AddFails, AddInterrupted
<1>3. part \in Seq(Bytes)
  <2>1. PICK l \in 0..Len(record(m)) : part = SubSeq(record(m), 1, l)
    BY <1>2 DEF Prefixes
  <2>2. record(m) \in Seq(Bytes)
    BY RecordFits
  <2> DEFINE r == record(m)
  <2> HIDE DEF r
  <2>3. \A j \in 0..Len(r) : r \in Seq(Bytes) => SubSeq(r, 1, j) \in Seq(Bytes)
    OBVIOUS
  <2> QED BY <2>1, <2>2, <2>3 DEF r
<1>4. /\ file' \in Seq(Bytes) /\ Len(file') = Len(file) + Len(part)
      /\ \A i \in 1..Len(file) : file'[i] = file[i]
  BY <1>1, <1>2, <1>3, Written
<1>5. Len(file') \in Nat /\ Len(file') >= Len(file)
  <2>1. Len(part) \in Nat
    BY <1>3
  <2> QED BY <1>1, <1>4, <2>1
<1>6. UNCHANGED <<synced, durable, added, ends>> /\ damaged' = TRUE
  BY DEF AddFails, AddInterrupted
<1>7. LogOf(file', added, ends)
  BY <1>1, <1>4, <1>5, LogKept
<1>8. LogInv'
  BY <1>6, <1>7 DEF LogInv
<1>9. DurableInv'
  BY <1>1, <1>5, <1>6 DEF DurableInv
<1>10. opened' \in BOOLEAN /\ unread' \in BOOLEAN /\ offsets' \in Seq(Nat) /\ OffsetsInv'
  <2>1. CASE AddFails(m)
    <3>1. offsets' = Append(offsets, Len(file)) /\ opened' = opened /\ unread' = unread
      BY <2>1 DEF AddFails, add_position
    <3>2. /\ offsets' \in Seq(Nat) /\ Len(offsets') = Len(offsets) + 1
          /\ \A k \in 1..Len(offsets) : offsets'[k] = offsets[k]
      BY <1>1, <3>1, AppendProperties
    <3>3. ~unread => /\ Len(offsets) >= Len(added)
                     /\ \A k \in 1..Len(added) : offsets[k] = EndOf(ends, k - 1)
      BY <1>1 DEF OffsetsInv
    <3>4. ASSUME ~unread, NEW k \in 1..Len(added)
          PROVE  offsets'[k] = EndOf(ends, k - 1)
      <4>1. k \in 1..Len(offsets)
        BY <1>1, <3>3, <3>4
      <4> QED BY <3>2, <3>3, <3>4, <4>1
    <3>5. ~unread => Len(offsets') >= Len(added)
      BY <1>1, <3>2, <3>3
    <3>6. OffsetsInv'
      BY <1>6, <3>1, <3>4, <3>5 DEF OffsetsInv
    <3> QED BY <1>1, <3>1, <3>2, <3>6 DEF StoreType
  <2>2. CASE AddInterrupted(m)
    <3>1. opened' = FALSE /\ offsets' = <<>> /\ unread' = FALSE
      BY <2>2 DEF AddInterrupted
    <3>2. OffsetsInv'
      BY <3>1 DEF OffsetsInv
    <3> QED BY <3>1, <3>2, EmptySeq
  <2> QED BY <2>1, <2>2
<1>11. StoreType'
  BY <1>4, <1>6, <1>10 DEF StoreType
<1> QED BY <1>8, <1>9, <1>10, <1>11

\* A loss of power leaves what was synced, and whole records of the rest.
LEMMA PowerLossInv ==
  ASSUME StoreInv, PowerLoss
  PROVE  StoreInv'
<1> USE DEF StoreInv
<1>1. /\ file \in Seq(Bytes) /\ added \in Seq(Messages) /\ ends \in Seq(Nat)
      /\ LogOf(file, added, ends) /\ synced \in Nat /\ durable \in Nat /\ damaged \in BOOLEAN
      /\ Len(file) \in Nat /\ Len(added) \in Nat /\ Len(ends) = Len(added)
  BY DEF StoreType, LogInv, LogOf
<1>2. PICK n \in synced..Len(file), k \in 0..Len(added) :
        /\ end(k) <= n /\ (k < Len(added) => n < end(k + 1))
        /\ file' = SubSeq(file, 1, n)
        /\ added' = SubSeq(added, 1, k) /\ ends' = SubSeq(ends, 1, k)
        /\ damaged' = (damaged \/ n # end(k))
  BY DEF PowerLoss
<1>3. /\ opened' = FALSE /\ offsets' = <<>> /\ unread' = FALSE /\ synced' = synced /\ durable' = durable
  BY DEF PowerLoss
<1>4. n \in Nat /\ n \in 0..Len(file) /\ synced <= n
  BY <1>1
<1>5. end(k) = EndOf(ends, k) /\ (k < Len(added) => end(k + 1) = EndOf(ends, k + 1))
  BY DEF end, EndOf
<1>6. /\ LogOf(file', added', ends')
      /\ \A j \in 0..k : EndOf(ends', j) = EndOf(ends, j)
  <2>1. EndOf(ends, k) <= n
    BY <1>2, <1>5
  <2>2. /\ LogOf(SubSeq(file, 1, n), SubSeq(added, 1, k), SubSeq(ends, 1, k))
        /\ \A j \in 0..k : EndOf(SubSeq(ends, 1, k), j) = EndOf(ends, j)
    BY <1>1, <1>4, <2>1, LogCut
  <2> QED BY <1>2, <2>2
<1>7. Len(file') = n /\ file' \in Seq(Bytes)
  BY <1>1, <1>2, <1>4
<1>8. Len(added') = k /\ added' \in Seq(Messages)
  BY <1>1, <1>2
<1>9. ends' \in Seq(Nat)
  BY <1>1, <1>2
<1>10. StoreType'
  <2>1. damaged' \in BOOLEAN
    BY <1>2
  <2>2. <<>> \in Seq(Nat)
    BY EmptySeq
  <2> QED BY <1>1, <1>3, <1>7, <1>8, <1>9, <2>1, <2>2 DEF StoreType
<1>11. LogInv'
  <2>1. ASSUME ~damaged'
        PROVE  EndOf(ends', Len(added')) = Len(file')
    <3>1. n = end(k)
      BY <1>2, <2>1
    <3>2. k \in 0..k
      BY <1>1
    <3> QED BY <1>5, <1>6, <1>7, <1>8, <3>1, <3>2
  <2> QED BY <1>6, <2>1 DEF LogInv
<1>12. OffsetsInv'
  BY <1>3 DEF OffsetsInv
<1>13. DurableInv'
  <2>1. durable <= Len(added) /\ EndOf(ends, durable) <= synced /\ synced <= Len(file)
    BY DEF DurableInv
  <2>2. durable <= k
    <3> SUFFICES ASSUME ~(durable <= k) PROVE FALSE
      OBVIOUS
    <3>1. k < Len(added) /\ k + 1 \in 0..durable /\ durable \in 0..Len(added)
      BY <1>1, <2>1
    <3>2. EndOf(ends, k + 1) <= EndOf(ends, durable) /\ EndOf(ends, k + 1) \in Nat
          /\ EndOf(ends, durable) \in Nat
      BY <1>1, <3>1, EndsGrow
    <3>3. n < EndOf(ends, k + 1)
      BY <1>2, <1>5, <3>1
    <3> QED BY <1>1, <1>4, <2>1, <3>2, <3>3
  <2>3. EndOf(ends', durable) = EndOf(ends, durable)
    <3>1. durable \in 0..k
      BY <1>1, <2>2
    <3> QED BY <1>6, <3>1
  <2> QED BY <1>3, <1>4, <1>7, <1>8, <2>1, <2>2, <2>3 DEF DurableInv
<1> QED BY <1>10, <1>11, <1>12, <1>13

\* Every step keeps it, as long as no File_store is opened twice.
LEMMA NextInv == StoreInv /\ ~Reopens /\ [Next]_vars => StoreInv'
<1> SUFFICES ASSUME StoreInv, ~Reopens, [Next]_vars PROVE StoreInv'
  OBVIOUS
<1>1. opened \in BOOLEAN /\ unread \in BOOLEAN /\ offsets \in Seq(Nat) /\ OffsetsInv
  BY DEF StoreInv, StoreType
<1>2. CASE Open \/ OpenUnread \/ OpenFails
  BY <1>2, OpenInv
<1>3. CASE Close \/ New
  <2>1. opened' = FALSE /\ unread' = FALSE /\ offsets' \in Seq(Nat)
        /\ UNCHANGED <<file, synced, added, ends, durable, damaged>>
    BY <1>1, <1>3, EmptySeq DEF Close, New, history
  <2>2. OffsetsInv'
    BY <2>1 DEF OffsetsInv
  <2> QED BY <2>1, <2>2, Unwritten
<1>4. CASE Get \/ UNCHANGED vars
  <2>1. UNCHANGED <<file, synced, opened, offsets, added, ends, durable, damaged, unread>>
    BY <1>4 DEF Get, vars, history
  <2>2. OffsetsInv'
    BY <1>1, <2>1 DEF OffsetsInv
  <2> QED BY <1>1, <2>1, <2>2, Unwritten
<1>5. CASE Sync
  <2>1. /\ UNCHANGED <<file, opened, offsets, added, ends, damaged, unread>>
        /\ synced' = Len(file) /\ durable' = Len(added)
    BY <1>5 DEF Sync
  <2>2. /\ file \in Seq(Bytes) /\ added \in Seq(Messages) /\ ends \in Seq(Nat)
        /\ LogOf(file, added, ends) /\ Len(file) \in Nat /\ Len(added) \in Nat
    BY DEF StoreInv, StoreType, LogInv
  <2>3. StoreType'
    BY <2>1, <2>2 DEF StoreInv, StoreType
  <2>4. LogInv'
    BY <2>1 DEF StoreInv, LogInv
  <2>5. OffsetsInv'
    BY <1>1, <2>1 DEF OffsetsInv
  <2>6. DurableInv'
    <3>1. Len(added) \in 0..Len(added)
      BY <2>2
    <3>2. EndOf(ends, Len(added)) <= Len(file)
      BY <2>2, <3>1, EndsGrow
    <3> QED BY <2>1, <2>2, <3>2 DEF DurableInv
  <2> QED BY <2>3, <2>4, <2>5, <2>6 DEF StoreInv
<1>6. CASE PowerLoss
  BY <1>6, PowerLossInv
<1>7. CASE \E m \in Messages : Add(m) \/ AddFails(m) \/ AddInterrupted(m)
  BY <1>7, AddInv, TornInv
<1> QED BY <1>2, <1>3, <1>4, <1>5, <1>6, <1>7 DEF Next

\* So it holds always.
LEMMA Invariance ==
  ASSUME ~Reopens
  PROVE  Spec => []StoreInv
<1>1. StoreInv /\ [Next]_vars => StoreInv'
  BY NextInv
<1> QED BY <1>1, InitInv, PTL DEF Spec

-----------------------------------------------------------------------------
\* The theorems, for a File_store that is not opened twice.

\* The next sequence number of an open File_store is one more than the messages
\* in the file, so a restarted port goes on where the one before it stopped.
THEOREM CountIsRight ==
  ASSUME ~Reopens
  PROVE  Spec => []CountsMessages
<1>1. StoreInv => CountsMessages
  BY DEF StoreInv, OffsetsInv, CountsMessages, next_sequence_number
<1> QED BY <1>1, Invariance, PTL

\* get() stands, before each message, where its record begins.
LEMMA StandsAtRecord ==
  ASSUME StoreInv, opened, ~unread, NEW first \in 1..Len(added), NEW last \in first..Len(added),
         NEW k \in 0..(last - first)
  PROVE  /\ read_position(first)[k] \in Nat
         /\ has_message(read_position(first)[k])
         /\ message_at(read_position(first)[k]) = added[first + k]
<1> DEFINE pos == read_position(first)
           T == {i \in Nat : i <= last - first => pos[i] = EndOf(ends, (first - 1) + i)}
<1>1. /\ file \in Seq(Bytes) /\ added \in Seq(Messages) /\ ends \in Seq(Nat)
      /\ LogOf(file, added, ends) /\ Len(added) \in Nat /\ first \in Nat \ {0} /\ last \in Nat
      /\ first <= last /\ last <= Len(added)
  BY DEF StoreInv, StoreType, LogInv
<1>2. offsets[first] = EndOf(ends, first - 1)
  BY DEF StoreInv, OffsetsInv
<1>3. \A j \in 0..Len(added) : EndOf(ends, j) \in Nat
  BY <1>1, EndsGrow
<1>4. offsets[first] \in Nat
  <2>1. first - 1 \in 0..Len(added)
    BY <1>1
  <2> QED BY <1>2, <1>3, <2>1
<1>5. pos[0] = offsets[first] /\ \A i \in Nat : pos[i + 1] = after(pos[i])
  BY <1>1, <1>4, ReadPosition
<1> HIDE DEF pos
<1>6. ASSUME NEW j \in 1..Len(added)
      PROVE  /\ EndOf(ends, j - 1) \in Nat
             /\ has_message(EndOf(ends, j - 1)) /\ message_at(EndOf(ends, j - 1)) = added[j]
             /\ after(EndOf(ends, j - 1)) = EndOf(ends, j)
  <2>1. j - 1 \in 0..Len(added)
    BY <1>1
  <2>2. EndOf(ends, j - 1) \in Nat
    BY <1>3, <2>1
  <2>3. added[j] \in Messages
    BY <1>1, ElementOfSeq
  <2>4. Holds(file, EndOf(ends, j - 1), added[j])
        /\ EndOf(ends, j) = EndOf(ends, j - 1) + Len(record(added[j]))
    BY <1>1 DEF LogOf
  <2> QED BY <1>1, <2>2, <2>3, <2>4, ReadRecord
<1>7. 0 \in T
  <2>1. (first - 1) + 0 = first - 1
    BY <1>1
  <2> QED BY <1>2, <1>5, <2>1
<1>8. ASSUME NEW i \in Nat, i \in T
      PROVE  i + 1 \in T
  <2> SUFFICES ASSUME i + 1 <= last - first
               PROVE  pos[i + 1] = EndOf(ends, (first - 1) + (i + 1))
    OBVIOUS
  <2> DEFINE j == first + i
  <2>1. j \in 1..Len(added) /\ j - 1 = (first - 1) + i /\ j = (first - 1) + (i + 1) /\ i <= last - first
    BY <1>1
  <2>2. pos[i] = EndOf(ends, j - 1)
    BY <1>8, <2>1
  <2> HIDE DEF j
  <2>3. after(pos[i]) = EndOf(ends, j)
    BY <1>6, <2>1, <2>2
  <2> QED BY <1>5, <2>1, <2>3
<1>9. k \in T
  <2>1. \A i \in Nat : i \in T
    <3> HIDE DEF T
    <3> QED BY <1>7, <1>8, Induction
  <2>2. k \in Nat
    OBVIOUS
  <2> QED BY <2>1, <2>2
<1> DEFINE j == first + k
<1>10. j \in 1..Len(added) /\ j - 1 = (first - 1) + k /\ k <= last - first
  BY <1>1
<1>11. pos[k] = EndOf(ends, j - 1)
  BY <1>9, <1>10
<1> HIDE DEF j
<1>12. pos[k] \in Nat /\ has_message(pos[k]) /\ message_at(pos[k]) = added[j]
  BY <1>6, <1>10, <1>11
<1> QED BY <1>12 DEF pos, j

\* So it answers with what was added.
LEMMA ReadsBack == StoreInv => ReadBack
<1> SUFFICES ASSUME StoreInv, opened, ~unread,
                    NEW first \in 1..Len(added), NEW last \in first..Len(added)
             PROVE  get(first, last) = SubSeq(added, first, last)
  BY DEF ReadBack
<1> DEFINE pos == read_position(first)
           answers == [k \in 1..(last - first + 1) |-> message_at(pos[k - 1])]
<1>1. /\ added \in Seq(Messages) /\ Len(added) \in Nat /\ first \in Nat \ {0} /\ last \in Nat
      /\ first <= last /\ last <= Len(added) /\ Len(offsets) \in Nat
  BY DEF StoreInv, StoreType
<1>2. Len(added) <= Len(offsets)
  BY <1>1 DEF StoreInv, OffsetsInv
<1>3. first \in 1..Len(offsets) /\ last \in first..Len(offsets)
  BY <1>1, <1>2
<1>4. \A k \in 0..(last - first) : has_message(pos[k]) /\ message_at(pos[k]) = added[first + k]
  BY StandsAtRecord
<1>5. get(first, last) = answers
  BY <1>3, <1>4 DEF get
<1> HIDE DEF pos
<1>6. ASSUME NEW k \in 1..(last - first + 1)
      PROVE  message_at(pos[k - 1]) = added[first + k - 1]
  <2>1. k - 1 \in 0..(last - first) /\ first + (k - 1) = first + k - 1
    BY <1>1
  <2>2. message_at(pos[k - 1]) = added[first + (k - 1)]
    BY <1>4, <2>1
  <2> QED BY <2>1, <2>2
<1>7. answers = [k \in 1..(last - first + 1) |-> added[first + k - 1]]
  BY <1>6
<1>8. SubSeq(added, first, last) = [k \in 1..(last - first + 1) |-> added[first + k - 1]]
  BY <1>1
<1> QED BY <1>5, <1>7, <1>8

\* An open File_store reads back every range of the messages that were added
\* before anything failed.
THEOREM ReadsAlways ==
  ASSUME ~Reopens
  PROVE  Spec => []ReadBack
BY Invariance, ReadsBack, PTL

-----------------------------------------------------------------------------
\* What a File_store does is what MessageLog allows.

\* An answer is a record of messages, and nothing else is.
LEMMA AnswerIsNoNoAnswer ==
  ASSUME StoreType, NEW first \in Nat, NEW last \in Nat,
         NEW messages \in {get(first, last), Failure}
  PROVE  [first |-> first, last |-> last, messages |-> messages] # NoAnswer
<1>1. /\ file \in Seq(Bytes) /\ offsets \in Seq(Nat) /\ Len(offsets) \in Nat /\ Len(file) \in Nat
  BY DEF StoreType
<1>2. messages \in Seq(Seq(Bytes)) \cup {Failure}
  <2>1. CASE messages = Failure
    BY <2>1
  <2>2. CASE messages # Failure
    <3> DEFINE pos == read_position(first)
               n == last - first + 1
               answers == [k \in 1..n |-> message_at(pos[k - 1])]
    <3>1. /\ first \in 1..Len(offsets) /\ last \in first..Len(offsets)
          /\ \A k \in 0..(last - first) : has_message(pos[k])
          /\ messages = answers
      BY <2>2 DEF get
    <3>2. offsets[first] \in Nat
      BY <1>1, <3>1, ElementOfSeq
    <3>3. pos \in [Nat -> Nat]
      BY <1>1, <3>2, ReadPosition
    <3> HIDE DEF pos
    <3>4. n \in Nat
      BY <1>1, <3>1
    <3>5. ASSUME NEW k \in 1..n
          PROVE  message_at(pos[k - 1]) \in Seq(Bytes)
      <4> DEFINE p == pos[k - 1]
                 size == size_at(p)
      <4>1. k - 1 \in 0..(last - first) /\ k - 1 \in Nat
        BY <1>1, <3>1
      <4>2. p \in Nat /\ has_message(p)
        BY <3>1, <3>3, <4>1
      <4> HIDE DEF p
      <4>3. size \in Nat
        BY <1>1, <4>2, AfterIsBehind
      <4>4. p + 2 + size <= Len(file)
        BY <4>2 DEF has_message
      <4>5. message_at(p) = SubSeq(file, p + 3, p + 2 + size)
        BY DEF message_at
      <4> HIDE DEF size
      <4>6. SubSeq(file, p + 3, p + 2 + size) \in Seq(Bytes)
        BY <1>1, <4>2, <4>3, <4>4
      <4> QED BY <4>5, <4>6 DEF p
    <3>6. answers \in Seq(Seq(Bytes))
      BY <3>4, <3>5, IsASeq
    <3> QED BY <3>1, <3>6
  <2> QED BY <2>1, <2>2
<1>3. [first |-> first, last |-> last, messages |-> messages]
        \in [first : Nat, last : Nat, messages : Seq(Seq(Bytes)) \cup {Failure}]
  BY <1>2
<1> QED BY <1>3, FileStoreAssumption

\* A range is answered with what was added, or with an error, or reaches beyond
\* what was added before an addition failed.
LEMMA GetImplemented ==
  ASSUME StoreInv, Get
  PROVE  TheLog!Get
<1>1. PICK first \in 0..(Len(offsets) + 1), last \in 0..(Len(offsets) + 1) :
        \E messages \in {get(first, last), Failure} :
          answer' = [first |-> first, last |-> last, messages |-> messages]
  BY DEF Get
<1>2. PICK messages \in {get(first, last), Failure} :
        answer' = [first |-> first, last |-> last, messages |-> messages]
  BY <1>1
<1>3. /\ StoreType /\ Len(offsets) \in Nat /\ Len(added) \in Nat
      /\ first \in Nat /\ last \in Nat
  BY DEF StoreInv, StoreType
<1>4. answer' # NoAnswer
  BY <1>2, <1>3, AnswerIsNoNoAnswer
<1>5. answer'.first = first /\ answer'.last = last /\ answer'.messages = messages
  BY <1>2
<1>6. UNCHANGED <<added, durable, damaged, unread>>
  BY DEF Get, history
<1>7. \/ messages = Failure
      \/ unread
      \/ first \in 1..last /\ last <= Len(added) /\ messages = SubSeq(added, first, last)
      \/ damaged /\ last > Len(added)
  <2> SUFFICES ASSUME messages # Failure, ~unread
               PROVE  \/ first \in 1..last /\ last <= Len(added) /\ messages = SubSeq(added, first, last)
                      \/ damaged /\ last > Len(added)
    OBVIOUS
  <2>1. messages = get(first, last)
    OBVIOUS
  <2>2. opened /\ first \in 1..Len(offsets) /\ last \in first..Len(offsets)
    BY <2>1 DEF get
  <2>3. CASE last <= Len(added)
    <3>1. first \in 1..Len(added) /\ last \in first..Len(added) /\ first \in 1..last
      BY <1>3, <2>2, <2>3
    <3>2. get(first, last) = SubSeq(added, first, last)
      BY <2>2, <3>1, ReadsBack DEF ReadBack
    <3> QED BY <2>1, <2>3, <3>1, <3>2
  <2>4. CASE ~(last <= Len(added))
    <3>1. last > Len(added) /\ Len(offsets) # Len(added)
      BY <1>3, <2>2, <2>4
    <3>2. damaged
      BY <2>2, <3>1 DEF StoreInv, OffsetsInv
    <3> QED BY <3>1, <3>2
  <2> QED BY <2>3, <2>4
<1> QED BY <1>4, <1>5, <1>6, <1>7 DEF TheLog!Get

\* Every step of a File_store is one of the log, or none.
LEMMA StepImplemented ==
  ASSUME StoreInv, [Next]_vars
  PROVE  [TheLog!Next]_(TheLog!vars)
<1> USE DEF TheLog!Next
<1>1. CASE Open \/ OpenUnread \/ OpenFails \/ Close \/ New
  <2>1. unread \in BOOLEAN
    BY DEF StoreInv, StoreType
  <2>2. answer' = NoAnswer /\ UNCHANGED <<added, durable, damaged>> /\ unread' \in BOOLEAN
    BY <1>1, <2>1 DEF Open, OpenUnread, OpenFails, Close, New, history
  <2>3. TheLog!Other
    BY <2>2 DEF TheLog!Other
  <2> QED BY <2>3
<1>2. CASE PowerLoss
  <2>1. PICK n \in synced..Len(file), k \in 0..Len(added) :
          /\ end(k) <= n /\ (k < Len(added) => n < end(k + 1))
          /\ file' = SubSeq(file, 1, n)
          /\ added' = SubSeq(added, 1, k) /\ ends' = SubSeq(ends, 1, k)
          /\ damaged' = (damaged \/ n # end(k))
    BY <1>2 DEF PowerLoss
  <2>2. answer' = NoAnswer /\ durable' = durable /\ unread' = FALSE
    BY <1>2 DEF PowerLoss
  <2>3. Len(added') = k
    BY <2>1 DEF StoreInv, StoreType
  <2>4. durable <= Len(added')
    BY <1>2, <2>2, PowerLossInv DEF StoreInv, DurableInv
  <2>5. k \in durable..Len(added)
    BY <2>3, <2>4 DEF StoreInv, StoreType
  <2>6. damaged' \in {damaged, TRUE}
    <3>1. damaged \in BOOLEAN /\ damaged' \in BOOLEAN
      BY <2>1 DEF StoreInv, StoreType
    <3>2. damaged => damaged'
      BY <2>1
    <3> QED BY <3>1, <3>2
  <2>7. TheLog!PowerLoss
    BY <2>1, <2>2, <2>5, <2>6 DEF TheLog!PowerLoss
  <2> QED BY <2>7
<1>3. CASE Get
  BY <1>3, GetImplemented
<1>4. CASE Sync
  <2>1. TheLog!Sync
    BY <1>4 DEF Sync, TheLog!Sync
  <2> QED BY <2>1
<1>5. ASSUME NEW m \in Messages, Add(m)
      PROVE  TheLog!Next
  <2>1. CASE damaged
    <3>1. TheLog!Other
      BY <1>5, <2>1 DEF Add, TheLog!Other, StoreInv, StoreType
    <3> QED BY <3>1
  <2>2. CASE ~damaged
    <3>1. TheLog!Add(m)
      BY <1>5, <2>2 DEF Add, TheLog!Add
    <3> QED BY <3>1
  <2> QED BY <2>1, <2>2
<1>6. ASSUME NEW m \in Messages, AddFails(m) \/ AddInterrupted(m)
      PROVE  TheLog!Next
  <2>1. TheLog!Damage
    BY <1>6 DEF AddFails, AddInterrupted, TheLog!Damage
  <2> QED BY <2>1
<1>7. CASE UNCHANGED vars
  BY <1>7 DEF vars, TheLog!vars
<1> HIDE DEF TheLog!Next
<1>8. CASE \E m \in Messages : Add(m) \/ AddFails(m) \/ AddInterrupted(m)
  <2>1. PICK m \in Messages : Add(m) \/ AddFails(m) \/ AddInterrupted(m)
    BY <1>8
  <2> QED BY <1>5, <1>6, <2>1
<1> QED BY <1>1, <1>2, <1>3, <1>4, <1>7, <1>8 DEF Next

\* A File_store implements the abstract log: no crash takes what was synced,
\* and no range is answered with anything but its messages or an error.
THEOREM LogImplemented ==
  ASSUME ~Reopens
  PROVE  Spec => ImplementsLog
<1>1. Init => TheLog!Init
  BY DEF Init, TheLog!Init
<1>2. StoreInv /\ [Next]_vars => [TheLog!Next]_(TheLog!vars)
  BY StepImplemented
<1>3. Spec => []StoreInv
  BY Invariance
<1> QED BY <1>1, <1>2, <1>3, PTL DEF Spec, ImplementsLog, TheLog!Spec

=============================================================================
