-------------------------- MODULE ConvolutionProofs --------------------------
(***************************************************************************)
(* Proofs about Convolution, for every shape of the tensors, every width   *)
(* of the tiles, and so any number of blocks and threads, none of which    *)
(* need fit the tensors.                                                   *)
(*                                                                         *)
(* First, that what the CPU's nested loops add is one sequence, of which   *)
(* the unrolled matrices have the terms in their columns (SumOfProducts);  *)
(* and that every element of the output is some thread's (Covers).  IInv   *)
(* is the inductive invariant.  While a kernel runs it is Meeting:         *)
(*   - Placed: what a thread has put in the tiles in this round is there;  *)
(*   - Together: the threads of a block are between the same barriers;     *)
(*   - Summed: a thread's sum has the products of the columns it has been  *)
(*     through, so all of them when it stores;                             *)
(*   - Stored: a thread that is done has stored.                           *)
(* And always, Written: the images before the current one are complete,    *)
(* and what is in the output is the reference's.                           *)
(***************************************************************************)
EXTENDS Convolution, SequenceTheorems, WellFoundedInduction, TLAPS

-----------------------------------------------------------------------------
(* Natural numbers *)

\* A non-empty set of natural numbers has a least element, ...
LEMMA LeastNatural ==
  ASSUME NEW S \in SUBSET Nat, S # {}
  PROVE  \E n \in S : \A m \in S : n <= m
<1> DEFINE R == OpToRel(<, Nat)
<1>1. PICK n \in S : \A m \in S : <<m, n>> \notin R
  <2>1. IsWellFoundedOn(R, Nat)
    BY NatLessThanWellFounded
  <2> HIDE DEF R
  <2> QED BY <2>1, WFMin
<1>2. \A m \in S : ~(m < n)
  BY <1>1 DEF OpToRel
<1> QED BY <1>2

\* ... so what holds of 0 and of every successor holds of all of them.
LEMMA Induction ==
  ASSUME NEW S, 0 \in S, \A n \in Nat : n \in S => n + 1 \in S
  PROVE  Nat \subseteq S
<1> SUFFICES ASSUME Nat \ S # {} PROVE FALSE
  OBVIOUS
<1>1. PICK n \in Nat \ S : \A m \in Nat \ S : n <= m
  BY LeastNatural
<1>2. n # 0 /\ n - 1 \in Nat
  BY <1>1
<1>3. n - 1 \in S
  BY <1>1, <1>2
<1> QED BY <1>1, <1>2, <1>3

LEMMA Times ==
  ASSUME NEW a \in Nat, NEW n \in Nat
  PROVE  a * n \in Nat /\ (a > 0 /\ n > 0 => a * n > 0)
OBVIOUS

\* Quotient and remainder, ...
LEMMA DivMod ==
  ASSUME NEW i \in Nat, NEW n \in Nat \ {0}
  PROVE  i \div n \in Nat /\ i % n \in Nat /\ i % n \in 0 .. n - 1 /\ i = (i \div n) * n + (i % n)
OBVIOUS

\* ... which no other numbers are.
LEMMA Decomposed ==
  ASSUME NEW a \in Nat, NEW n \in Nat \ {0}, NEW r \in 0 .. n - 1
  PROVE  a * n + r \in Nat /\ (a * n + r) \div n = a /\ (a * n + r) % n = r
OBVIOUS

\* Numbers below a product.
LEMMA Below ==
  ASSUME NEW A \in Nat, NEW n \in Nat \ {0}
  PROVE  /\ \A a \in 0 .. A - 1, r \in 0 .. n - 1 : a * n + r \in 0 .. A * n - 1
         /\ \A i \in 0 .. A * n - 1 : i \div n \in 0 .. A - 1 /\ i % n \in 0 .. n - 1
<1>1. ASSUME NEW a \in Nat, NEW r \in 0 .. n - 1
      PROVE  a * n + r \in 0 .. A * n - 1 <=> a < A
  <2>0. (a + 1) * n = a * n + n /\ a * n \in Nat /\ A * n \in Nat
    OBVIOUS
  <2>1. CASE a < A
    <3>1. (a + 1) * n <= A * n
      BY <2>1
    <3> QED BY <2>0, <2>1, <3>1
  <2>2. CASE a >= A
    <3>1. a * n >= A * n
      BY <2>2
    <3> QED BY <2>0, <2>2, <3>1
  <2> QED BY <2>1, <2>2
<1>2. ASSUME NEW i \in 0 .. A * n - 1 PROVE i \div n \in 0 .. A - 1 /\ i % n \in 0 .. n - 1
  <2>1. i \in Nat
    BY Times
  <2>2. i \div n \in Nat /\ i % n \in 0 .. n - 1 /\ i = (i \div n) * n + (i % n)
    BY <2>1, DivMod
  <2> QED BY <1>1, <2>2
<1> QED BY <1>1, <1>2

\* The digits of c in a base n and in the base of its square.
LEMMA Digits ==
  ASSUME NEW c \in Nat, NEW n \in Nat \ {0}
  PROVE  /\ c \div (n * n) = (c \div n) \div n
         /\ (c % (n * n)) \div n = (c \div n) % n
         /\ (c % (n * n)) % n = c % n
<1> DEFINE q == c % n
           a == (c \div n) % n
           b == (c \div n) \div n
           d == c \div n
<1>1. d \in Nat /\ q \in 0 .. n - 1 /\ c = d * n + q
  BY DivMod
<1>2. a \in 0 .. n - 1 /\ b \in Nat /\ d = b * n + a
  BY <1>1, DivMod
<1> HIDE DEF q, a, b, d
<1>3. a * n + q \in 0 .. n * n - 1 /\ (a * n + q) \div n = a /\ (a * n + q) % n = q
  BY <1>1, <1>2, Below, Decomposed
<1>4. c = b * (n * n) + (a * n + q)
  <2>1. d * n = (b * n) * n + a * n
    BY <1>2
  <2>2. (b * n) * n = b * (n * n)
    BY <1>2
  <2> QED BY <1>1, <1>2, <2>1, <2>2
<1>5. n * n \in Nat \ {0}
  BY Times
<1>6. c \div (n * n) = b /\ c % (n * n) = a * n + q
  <2> DEFINE m == n * n
             r == a * n + q
  <2>1. m \in Nat \ {0} /\ r \in 0 .. m - 1 /\ c = b * m + r
    BY <1>3, <1>4, <1>5
  <2> HIDE DEF m, r
  <2>2. c \div m = b /\ c % m = r
    BY <1>2, <2>1, Decomposed
  <2> QED BY <2>2 DEF m, r
<1> QED BY <1>3, <1>6 DEF q, a, b, d

-----------------------------------------------------------------------------
(* The loops of the CPU's forward, as one sequence *)

\* Sequences of one length, one after the other.
Joined(seqs, n, m) == [j \in 1 .. n * m |-> seqs[(j - 1) \div m + 1][((j - 1) % m) + 1]]

OfLength(seqs, n, m, S) == \A i \in 1 .. n : seqs[i] \in [1 .. m -> S]

LEMMA SameFunction ==
  ASSUME NEW D, NEW S, NEW f \in [D -> S], NEW g \in [D -> S], \A j \in D : f[j] = g[j]
  PROVE  f = g
OBVIOUS

LEMMA JoinedNext ==
  ASSUME NEW S, NEW seqs, NEW m \in Nat \ {0}, NEW n \in Nat \ {0}, OfLength(seqs, n, m, S)
  PROVE  /\ Joined(seqs, 1, m) = seqs[1]
         /\ \A i \in 2 .. n : Joined(seqs, i, m) = Joined(seqs, i - 1, m) \o seqs[i]
<1> USE DEF OfLength
<1>1. \A i \in 1 .. n : Joined(seqs, i, m) \in [1 .. i * m -> S]
  <2> SUFFICES ASSUME NEW i \in 1 .. n, NEW j \in 1 .. i * m
               PROVE  seqs[(j - 1) \div m + 1][((j - 1) % m) + 1] \in S
    BY DEF Joined
  <2> DEFINE d == j - 1
  <2>1. d \in 0 .. i * m - 1
    BY Times
  <2> HIDE DEF d
  <2>0. i \in Nat
    OBVIOUS
  <2>2. \A e \in 0 .. i * m - 1 : e \div m \in 0 .. i - 1 /\ e % m \in 0 .. m - 1
    BY ONLY <2>0, m \in Nat \ {0}, Below
  <2>3. d \div m \in 0 .. i - 1 /\ d % m \in 0 .. m - 1
    BY <2>1, <2>2
  <2>4. d \div m + 1 \in 1 .. n /\ (d % m) + 1 \in 1 .. m
    BY <2>3
  <2>5. seqs[d \div m + 1][(d % m) + 1] \in S
    BY <2>4
  <2> QED BY <2>5 DEF d
<1>2. Joined(seqs, 1, m) = seqs[1]
  <2>1. 1 * m = m /\ 0 * m = 0
    OBVIOUS
  <2>2. ASSUME NEW j \in 1 .. m PROVE (j - 1) \div m = 0 /\ (j - 1) % m = j - 1
    <3> DEFINE d == j - 1
    <3>1. d \in 0 .. m - 1 /\ 0 * m + d = d
      OBVIOUS
    <3> HIDE DEF d
    <3>2. d \div m = 0 /\ d % m = d
      BY <3>1, Decomposed
    <3> QED BY <3>2 DEF d
  <2>3. ASSUME NEW j \in 1 .. m PROVE Joined(seqs, 1, m)[j] = seqs[1][j]
    <3>1. (j - 1) \div m + 1 = 1 /\ ((j - 1) % m) + 1 = j
      BY <2>2
    <3> QED BY <2>1, <3>1 DEF Joined
  <2>4. Joined(seqs, 1, m) \in [1 .. m -> S] /\ seqs[1] \in [1 .. m -> S]
    BY <1>1, <2>1
  <2> QED BY <2>3, <2>4
<1>3. ASSUME NEW i \in 2 .. n
      PROVE  Joined(seqs, i, m) = Joined(seqs, i - 1, m) \o seqs[i]
  <2> DEFINE a == Joined(seqs, i - 1, m)
             b == seqs[i]
             k == (i - 1) * m
  <2>1. /\ i - 1 \in 1 .. n /\ i \in 1 .. n /\ k \in Nat /\ i * m = k + m /\ i - 1 \in Nat
    OBVIOUS
  <2>2. a \in Seq(S) /\ b \in Seq(S) /\ Len(a) = k /\ Len(b) = m
    <3>1. a \in [1 .. k -> S] /\ b \in [1 .. m -> S]
      BY <1>1, <2>1
    <3> HIDE DEF a, b, k
    <3> QED BY <2>1, <3>1
  <2>3. /\ a \o b \in Seq(S) /\ Len(a \o b) = k + m
        /\ \A j \in 1 .. k + m : (a \o b)[j] = IF j <= k THEN a[j] ELSE b[j - k]
    <3> HIDE DEF a, b, k
    <3> QED BY <2>2, ConcatProperties
  <2>4. ASSUME NEW j \in 1 .. k + m
        PROVE  Joined(seqs, i, m)[j] = (a \o b)[j]
    <3>1. Joined(seqs, i, m)[j] = seqs[(j - 1) \div m + 1][((j - 1) % m) + 1]
      BY <2>1 DEF Joined
    <3>2. CASE j <= k
      <4>1. j \in 1 .. k
        BY <2>1, <3>2
      <4>2. a[j] = seqs[(j - 1) \div m + 1][((j - 1) % m) + 1]
        BY <4>1 DEF Joined
      <4> QED BY <2>3, <3>1, <3>2, <4>2
    <3>3. CASE j > k
      <4> DEFINE d == j - 1
                 c == i - 1
                 r == d - c * m
      <4>1. r \in 0 .. m - 1 /\ d = c * m + r /\ c \in Nat
        BY <2>1, <3>3
      <4> HIDE DEF d, c, r
      <4>2. d \div m = c /\ d % m = r
        BY <4>1, Decomposed
      <4>3. c + 1 = i /\ r + 1 = j - k
        BY <2>1 DEF c, d, r
      <4>4. Joined(seqs, i, m)[j] = seqs[i][j - k]
        BY <3>1, <4>2, <4>3 DEF d
      <4>5. (a \o b)[j] = b[j - k]
        <5> HIDE DEF a, b, k
        <5> QED BY <2>1, <2>3, <3>3
      <4> QED BY <4>4, <4>5
    <3>4. j \in Nat /\ k \in Nat
      BY <2>1
    <3>5. j <= k \/ j > k
      <4> HIDE DEF k
      <4> QED BY <3>4
    <3> HIDE DEF a, b, k
    <3> QED BY <3>2, <3>3, <3>5
  <2>5. Joined(seqs, i, m) \in [1 .. k + m -> S] /\ a \o b \in [1 .. k + m -> S]
    <3>1. Joined(seqs, i, m) \in [1 .. k + m -> S]
      BY <1>1, <2>1
    <3> HIDE DEF a, b, k
    <3> DEFINE ab == a \o b
    <3>2. ab \in Seq(S) /\ Len(ab) = k + m
      BY <2>3
    <3> HIDE DEF ab
    <3>3. ab \in [1 .. k + m -> S]
      BY <3>2
    <3> QED BY <3>1, <3>3 DEF ab
  <2> HIDE DEF a, b, k
  <2>6. Joined(seqs, i, m) = a \o b
    <3> DEFINE c == Joined(seqs, i, m)
               d == a \o b
               D == 1 .. k + m
    <3>1. c \in [D -> S] /\ d \in [D -> S] /\ \A j \in D : c[j] = d[j]
      BY <2>4, <2>5
    <3> HIDE DEF c, d, D
    <3>2. c = d
      BY <3>1, SameFunction
    <3> QED BY <3>2 DEF c, d
  <2> QED BY <2>6 DEF a, b
<1> QED BY <1>2, <1>3

LEMMA Flattened ==
  ASSUME NEW S, NEW seqs, NEW m \in Nat \ {0}, NEW n \in Nat \ {0}, Len(seqs) = n,
         OfLength(seqs, n, m, S)
  PROVE  FlattenSeq(seqs) = Joined(seqs, n, m)
<1> DEFINE Is(f) == f = [i \in 1 .. n |-> IF i = 1 THEN seqs[i] ELSE f[i - 1] \o seqs[i]]
           g == [i \in 1 .. n |-> Joined(seqs, i, m)]
           flatten == CHOOSE f : Is(f)
<1>0. /\ Joined(seqs, 1, m) = seqs[1]
      /\ \A i \in 2 .. n : Joined(seqs, i, m) = Joined(seqs, i - 1, m) \o seqs[i]
  BY JoinedNext, ZenonT(40)
<1>1. Is(g)
  <2>1. ASSUME NEW i \in 1 .. n
        PROVE  g[i] = IF i = 1 THEN seqs[i] ELSE g[i - 1] \o seqs[i]
    <3>1. CASE i = 1
      BY <1>0, <3>1
    <3>2. CASE i # 1
      <4>1. i \in 2 .. n /\ i - 1 \in 1 .. n
        BY <3>2
      <4>2. Joined(seqs, i, m) = Joined(seqs, i - 1, m) \o seqs[i]
        BY <1>0, <4>1
      <4>3. g[i] = Joined(seqs, i, m) /\ g[i - 1] = Joined(seqs, i - 1, m)
        BY <4>1
      <4> QED BY <3>2, <4>2, <4>3
    <3> QED BY <3>1, <3>2
  <2>2. g = [i \in 1 .. n |-> g[i]]
    OBVIOUS
  <2> HIDE DEF g
  <2> QED BY <2>1, <2>2
<1>2. Is(flatten)
  <2> HIDE DEF g
  <2>1. \E f : Is(f)
    BY <1>1
  <2> HIDE DEF Is
  <2> QED BY <2>1
<1>3. FlattenSeq(seqs) = flatten[n]
  BY DEF FlattenSeq
<1> HIDE DEF flatten
<1>4. \A i \in 1 .. n : flatten[i] = IF i = 1 THEN seqs[i] ELSE flatten[i - 1] \o seqs[i]
  BY <1>2
<1> DEFINE Same == {i \in Nat : i + 1 \in 1 .. n => flatten[i + 1] = Joined(seqs, i + 1, m)}
<1>5. 0 \in Same
  BY <1>0, <1>4
<1>6. ASSUME NEW i \in Nat, i \in Same PROVE i + 1 \in Same
  <2> SUFFICES ASSUME i + 2 \in 1 .. n PROVE flatten[i + 2] = Joined(seqs, i + 2, m)
    OBVIOUS
  <2> DEFINE k == i + 2
  <2>1. k \in 2 .. n /\ k \in 1 .. n /\ k # 1 /\ k - 1 = i + 1 /\ i + 1 \in 1 .. n
    OBVIOUS
  <2>2. flatten[i + 1] = Joined(seqs, i + 1, m)
    BY <1>6, <2>1
  <2> HIDE DEF k
  <2>3. flatten[k] = flatten[k - 1] \o seqs[k] /\ Joined(seqs, k, m) = Joined(seqs, k - 1, m) \o seqs[k]
    BY <1>0, <1>4, <2>1
  <2>4. flatten[k] = Joined(seqs, k, m)
    BY <2>1, <2>2, <2>3
  <2> QED BY <2>4 DEF k
<1> HIDE DEF Same
<1>7. n - 1 \in Same
  BY <1>5, <1>6, Induction
<1> QED BY <1>3, <1>7 DEF Same

-----------------------------------------------------------------------------
(* The tensors *)

LEMMA Dims ==
  ASSUME shape \in Shapes
  PROVE  /\ shape.B \in Nat \ {0} /\ shape.M \in Nat \ {0} /\ shape.C \in Nat \ {0}
         /\ shape.H \in Nat \ {0} /\ shape.W \in Nat \ {0} /\ shape.K \in Nat \ {0}
         /\ H_out \in Nat \ {0} /\ W_out \in Nat \ {0} /\ H_unroll \in Nat \ {0}
         /\ w_base \in Nat \ {0} /\ x_ind \in Nat \ {0} /\ y_ind \in Nat \ {0}
         /\ TILE_WIDTH \in Nat \ {0} /\ shape.K * shape.K \in Nat \ {0}
<1>1. /\ shape.B \in Nat \ {0} /\ shape.M \in Nat \ {0} /\ shape.C \in Nat \ {0}
      /\ shape.H \in Nat \ {0} /\ shape.W \in Nat \ {0} /\ shape.K \in Nat \ {0}
      /\ shape.K <= shape.H /\ shape.K <= shape.W /\ TILE_WIDTH \in Nat \ {0}
  BY ConvolutionAssumption
<1>2. \A a, b \in Nat \ {0} : a * b \in Nat \ {0}
  BY Times
<1>3. H_out \in Nat \ {0} /\ W_out \in Nat \ {0}
  BY <1>1 DEF H_out, W_out
<1>4. H_unroll \in Nat \ {0}
  BY <1>2, <1>3 DEF H_unroll
<1>5. w_base \in Nat \ {0} /\ x_ind \in Nat \ {0} /\ y_ind \in Nat \ {0} /\ shape.K * shape.K \in Nat \ {0}
  BY <1>1, <1>2, <1>4 DEF w_base, x_ind, y_ind
<1> QED BY <1>1, <1>3, <1>4, <1>5

\* What the innermost loop adds for channel c, row p and column q of a filter.
Term(n, m, h, w, c, p, q) ==
  <<n * x_ind + c * shape.H * shape.W + (h + p) * shape.W + w + q,
    m * w_base + c * shape.K * shape.K + p * shape.K + q>>

Terms(n, m, h, w) ==
  LET K == shape.K IN
  [j \in 1 .. shape.C * (K * K) |->
     Term(n, m, h, w, (j - 1) \div (K * K), ((j - 1) % (K * K)) \div K, ((j - 1) % (K * K)) % K)]

LEMMA SumLoops ==
  ASSUME shape \in Shapes, NEW n \in Nat, NEW m \in Nat, NEW h \in Nat, NEW w \in Nat
  PROVE  Sum(n, m, h, w) = Terms(n, m, h, w)
<1> DEFINE K == shape.K
           C == shape.C
           T(c, p, q) == Term(n, m, h, w, c, p, q)
           S == {T(c, p, q) : c, p, q \in Nat}
           one(c, p) == [i \in 1 .. K |-> <<T(c, p, i - 1)>>]
           row(c, p) == [j \in 1 .. K |-> T(c, p, j - 1)]
           rows(c) == [i \in 1 .. K |-> row(c, i - 1)]
           channel(c) == [j \in 1 .. K * K |-> T(c, (j - 1) \div K, (j - 1) % K)]
           channels == [i \in 1 .. C |-> channel(i - 1)]
<1>1. K \in Nat \ {0} /\ C \in Nat \ {0} /\ K * K \in Nat \ {0}
  BY Dims
<1>2. \A c, p, q \in Nat : T(c, p, q) \in S
  OBVIOUS
<1>3. Sum(n, m, h, w) =
        FlattenSeq([i \in 1 .. C |-> FlattenSeq([l \in 1 .. K |-> FlattenSeq(one(i - 1, l - 1))])])
  BY DEF Sum, Loop, Term
<1> HIDE DEF T, S, K, C
<1>4. ASSUME NEW c \in Nat, NEW p \in Nat
      PROVE  FlattenSeq(one(c, p)) = row(c, p) /\ row(c, p) \in [1 .. K -> S]
  <2> DEFINE seqs == one(c, p)
  <2>1. row(c, p) \in [1 .. K -> S]
    BY <1>1, <1>2
  <2>2. Len(seqs) = K /\ OfLength(seqs, K, 1, S)
    <3>1. ASSUME NEW i \in 1 .. K PROVE <<T(c, p, i - 1)>> \in [1 .. 1 -> S]
      <4>1. T(c, p, i - 1) \in S
        BY <1>2
      <4> QED BY <4>1
    <3> QED BY <1>1, <3>1 DEF OfLength
  <2> HIDE DEF seqs
  <2>3. FlattenSeq(seqs) = Joined(seqs, K, 1)
    BY <1>1, <2>2, Flattened
  <2>4. Joined(seqs, K, 1) = row(c, p)
    <3>1. K * 1 = K
      BY <1>1
    <3>2. ASSUME NEW j \in 1 .. K PROVE seqs[(j - 1) \div 1 + 1][((j - 1) % 1) + 1] = T(c, p, j - 1)
      <4>1. (j - 1) \div 1 + 1 = j /\ ((j - 1) % 1) + 1 = 1
        OBVIOUS
      <4> QED BY <4>1 DEF seqs
    <3> QED BY <3>1, <3>2 DEF Joined
  <2> QED BY <2>1, <2>3, <2>4 DEF seqs
<1> HIDE DEF one, row
<1>5. ASSUME NEW c \in Nat
      PROVE  FlattenSeq([l \in 1 .. K |-> FlattenSeq(one(c, l - 1))]) = channel(c)
             /\ channel(c) \in [1 .. K * K -> S]
  <2>1. [l \in 1 .. K |-> FlattenSeq(one(c, l - 1))] = rows(c)
    BY <1>1, <1>4
  <2> DEFINE seqs == rows(c)
  <2>2. Len(seqs) = K /\ OfLength(seqs, K, K, S)
    BY <1>1, <1>4 DEF OfLength
  <2>3. \A a, b \in 0 .. K - 1 : seqs[a + 1][b + 1] = T(c, a, b)
    <3> SUFFICES ASSUME NEW a \in 0 .. K - 1, NEW b \in 0 .. K - 1
                 PROVE  row(c, a + 1 - 1)[b + 1] = T(c, a, b)
      BY <1>1
    <3>1. a + 1 - 1 = a /\ b + 1 - 1 = b /\ b + 1 \in 1 .. K
      BY <1>1
    <3>2. row(c, a)[b + 1] = T(c, a, b + 1 - 1)
      BY <3>1 DEF row
    <3> QED BY <3>1, <3>2
  <2> HIDE DEF seqs
  <2>4. FlattenSeq(seqs) = Joined(seqs, K, K)
    BY <1>1, <2>2, Flattened
  <2>5. ASSUME NEW j \in 1 .. K * K
        PROVE  /\ seqs[(j - 1) \div K + 1][((j - 1) % K) + 1] = T(c, (j - 1) \div K, (j - 1) % K)
               /\ T(c, (j - 1) \div K, (j - 1) % K) \in S
    <3> DEFINE d == j - 1
    <3>1. d \in 0 .. K * K - 1
      BY <1>1
    <3> HIDE DEF d
    <3>2. \A e \in 0 .. K * K - 1 : e \div K \in 0 .. K - 1 /\ e % K \in 0 .. K - 1
      BY <1>1, Below
    <3>3. d \div K \in 0 .. K - 1 /\ d % K \in 0 .. K - 1
      BY <3>1, <3>2
    <3>5. seqs[d \div K + 1][(d % K) + 1] = T(c, d \div K, d % K)
      BY <2>3, <3>3
    <3>6. T(c, d \div K, d % K) \in S
      BY <1>2, <3>3
    <3> QED BY <3>5, <3>6 DEF d
  <2>6. Joined(seqs, K, K) = channel(c) /\ channel(c) \in [1 .. K * K -> S]
    BY <2>5 DEF Joined
  <2> QED BY <2>1, <2>4, <2>6 DEF seqs
<1>6. Sum(n, m, h, w) = FlattenSeq(channels)
  <2>1. [i \in 1 .. C |-> FlattenSeq([l \in 1 .. K |-> FlattenSeq(one(i - 1, l - 1))])] = channels
    <3>1. ASSUME NEW i \in 1 .. C
          PROVE  FlattenSeq([l \in 1 .. K |-> FlattenSeq(one(i - 1, l - 1))]) = channel(i - 1)
      <4>1. i - 1 \in Nat
        BY <1>1
      <4> QED BY <1>5, <4>1
    <3> HIDE DEF channel
    <3> QED BY <3>1
  <2> QED BY <1>3, <2>1
<1> DEFINE L == K * K
           D == 1 .. C * L
<1>7. FlattenSeq(channels) = Joined(channels, C, L)
  <2>1. Len(channels) = C /\ OfLength(channels, C, L, S)
    <3>1. ASSUME NEW i \in 1 .. C PROVE channel(i - 1) \in [1 .. L -> S]
      <4>1. i - 1 \in Nat
        BY <1>1
      <4> QED BY <1>5, <4>1
    <3> HIDE DEF channel, L
    <3> QED BY <1>1, <3>1 DEF OfLength
  <2> HIDE DEF channels, L
  <2> QED BY <1>1, <2>1, Flattened DEF L
<1>8. ASSUME NEW j \in D
      PROVE  channels[(j - 1) \div L + 1][((j - 1) % L) + 1]
               = T((j - 1) \div L, ((j - 1) % L) \div K, ((j - 1) % L) % K)
  <2> DEFINE d == j - 1
             c == d \div L
             r == d % L
  <2>1. L \in Nat \ {0}
    BY <1>1
  <2>2. \A a \in 0 .. C - 1, b \in 0 .. L - 1 : channels[a + 1][b + 1] = T(a, b \div K, b % K)
    <3> SUFFICES ASSUME NEW a \in 0 .. C - 1, NEW b \in 0 .. L - 1
                 PROVE  channel(a + 1 - 1)[b + 1] = T(a, b \div K, b % K)
      BY <1>1
    <3>1. a + 1 - 1 = a /\ b + 1 - 1 = b /\ b + 1 \in 1 .. L
      BY <1>1, <2>1
    <3>2. channel(a)[b + 1] = T(a, (b + 1 - 1) \div K, (b + 1 - 1) % K)
      BY <3>1
    <3> QED BY <3>1, <3>2
  <2> HIDE DEF L, channels
  <2>3. d \in 0 .. C * L - 1
    BY <1>1, <2>1
  <2> HIDE DEF d
  <2>4. \A e \in 0 .. C * L - 1 : e \div L \in 0 .. C - 1 /\ e % L \in 0 .. L - 1
    BY <1>1, <2>1, Below
  <2>5. c \in 0 .. C - 1 /\ r \in 0 .. L - 1
    BY <2>3, <2>4
  <2> HIDE DEF c, r
  <2>7. channels[c + 1][r + 1] = T(c, r \div K, r % K)
    BY <2>2, <2>5
  <2> QED BY <2>7 DEF c, r, d
<1>9. Joined(channels, C, L) =
        [j \in D |-> T((j - 1) \div L, ((j - 1) % L) \div K, ((j - 1) % L) % K)]
  <2> HIDE DEF channels, L
  <2> QED BY <1>8 DEF Joined
<1> QED BY <1>6, <1>7, <1>9 DEF T, K, C, Terms

LEMMA UnrolledNat ==
  ASSUME shape \in Shapes, NEW n \in Nat, NEW c \in Nat, NEW s \in Nat
  PROVE  Unrolled(n, c, s) \in Nat
<1> DEFINE q == c % shape.K
           a == (c \div shape.K) % shape.K
           b == (c \div shape.K) \div shape.K
           h == s \div W_out
           w == s % W_out
<1>1. shape.K \in Nat \ {0} /\ W_out \in Nat \ {0} /\ shape.H \in Nat /\ shape.W \in Nat /\ x_ind \in Nat
  BY Dims
<1>2. q \in Nat /\ c \div shape.K \in Nat /\ h \in Nat /\ w \in Nat
  BY <1>1, DivMod
<1>3. a \in Nat /\ b \in Nat
  BY <1>1, <1>2, DivMod
<1>4. Unrolled(n, c, s) = n * x_ind + b * shape.H * shape.W + (h + a) * shape.W + w + q
  BY DEF Unrolled
<1> HIDE DEF q, a, b, h, w
<1>5. n * x_ind \in Nat /\ b * shape.H * shape.W \in Nat /\ (h + a) * shape.W \in Nat
  BY <1>1, <1>2, <1>3, Times
<1> QED BY <1>2, <1>4, <1>5

\* The products of output (m, s) of image n in the first c columns.
Products(n, m, s, c) == [j \in 1 .. c |-> <<Unrolled(n, j - 1, s), m * w_base + (j - 1)>>]

\* The unrolled matrices have, in the order of their columns, what the loops add.
LEMMA SumOfProducts ==
  ASSUME shape \in Shapes, NEW n \in Nat, NEW m \in Nat, NEW s \in Nat
  PROVE  Sum(n, m, s \div W_out, s % W_out) = Products(n, m, s, w_base)
<1> DEFINE K == shape.K
           h == s \div W_out
           w == s % W_out
<1>1. /\ K \in Nat \ {0} /\ shape.C \in Nat \ {0} /\ K * K \in Nat \ {0}
      /\ w_base \in Nat /\ W_out \in Nat \ {0}
      /\ h \in Nat /\ w \in Nat
  <2>1. W_out \in Nat \ {0}
    BY Dims
  <2>2. h \in Nat /\ w \in Nat
    BY <2>1, DivMod
  <2> QED BY <2>1, <2>2, Dims
<1>2. shape.C * (K * K) = w_base
  BY <1>1 DEF w_base
<1>3. ASSUME NEW c \in Nat
      PROVE  Term(n, m, h, w, c \div (K * K), (c % (K * K)) \div K, (c % (K * K)) % K)
               = <<Unrolled(n, c, s), m * w_base + c>>
  <2> DEFINE q == c % K
             a == (c \div K) % K
             b == (c \div K) \div K
  <2>1. c \div (K * K) = b /\ (c % (K * K)) \div K = a /\ (c % (K * K)) % K = q
    BY <1>1, Digits
  <2>2. q \in Nat /\ a \in Nat /\ b \in Nat /\ b * K * K + a * K + q = c
    <3> DEFINE d == c \div K
    <3>1. d \in Nat /\ q \in Nat /\ c = d * K + q
      BY <1>1, DivMod
    <3>2. a \in Nat /\ b \in Nat /\ d = b * K + a
      BY <1>1, <3>1, DivMod
    <3> HIDE DEF a, b, d, q, K
    <3>3. d * K = b * K * K + a * K
      BY <1>1, <3>2
    <3> QED BY <1>1, <3>1, <3>2, <3>3
  <2>3. m * w_base + b * K * K + a * K + q = m * w_base + c
    <3> DEFINE P == m * w_base
               B == b * K * K
               A == a * K
    <3>1. P \in Nat /\ B \in Nat /\ A \in Nat /\ B + A + q = c /\ q \in Nat
      BY <1>1, <2>2, Times
    <3> HIDE DEF P, B, A, q
    <3>2. P + B + A + q = P + c
      BY <3>1
    <3> QED BY <3>2 DEF P, B, A
  <2>4. Unrolled(n, c, s) = n * x_ind + b * shape.H * shape.W + (h + a) * shape.W + w + q
    BY DEF Unrolled
  <2> HIDE DEF q, a, b, h, w
  <2> QED BY <2>1, <2>3, <2>4 DEF Term
<1> HIDE DEF h, w
<1>4. Sum(n, m, h, w) =
        [j \in 1 .. w_base |->
           Term(n, m, h, w, (j - 1) \div (K * K), ((j - 1) % (K * K)) \div K, ((j - 1) % (K * K)) % K)]
  <2>1. Sum(n, m, h, w) =
          [j \in 1 .. shape.C * (K * K) |->
             Term(n, m, h, w, (j - 1) \div (K * K), ((j - 1) % (K * K)) \div K, ((j - 1) % (K * K)) % K)]
    <3>1. Sum(n, m, h, w) = Terms(n, m, h, w)
      BY <1>1, SumLoops
    <3> QED BY <3>1 DEF Terms
  <2> HIDE DEF K
  <2> QED BY <1>2, <2>1
<1> HIDE DEF K
<1>5. ASSUME NEW j \in 1 .. w_base
      PROVE  Term(n, m, h, w, (j - 1) \div (K * K), ((j - 1) % (K * K)) \div K, ((j - 1) % (K * K)) % K)
               = <<Unrolled(n, j - 1, s), m * w_base + (j - 1)>>
  <2>1. j - 1 \in Nat
    BY <1>1
  <2> QED BY <1>3, <2>1
<1>6. Sum(n, m, h, w) = Products(n, m, s, w_base)
  BY <1>4, <1>5 DEF Products
<1> QED BY <1>6 DEF h, w

-----------------------------------------------------------------------------
(* Blocks, threads and the outputs that are theirs *)

T == TILE_WIDTH

\* n elements are in the tiles that are counted for them, each in one place.
LEMMA TilesOf ==
  ASSUME shape \in Shapes, NEW n \in Nat \ {0}
  PROVE  /\ Tiles(n) \in Nat \ {0} /\ Tiles(n) * T >= n
         /\ \A i \in 0 .. n - 1 :
              i \div T \in 0 .. Tiles(n) - 1 /\ i % T \in 0 .. T - 1 /\ (i \div T) * T + (i % T) = i
<1>1. T \in Nat \ {0}
  BY Dims DEF T
<1> DEFINE k == n + T - 1
           q == k \div T
           r == k % T
<1>2. q \in Nat /\ r \in 0 .. T - 1 /\ k = q * T + r /\ q = Tiles(n)
  <2>1. k \in Nat
    BY <1>1
  <2> QED BY <1>1, <2>1, DivMod DEF Tiles, T
<1>3. q * T \in Nat
  BY <1>1, <1>2
<1>4. q * T >= n
  <2> DEFINE p == q * T
  <2>1. p \in Nat /\ n + T - 1 = p + r
    BY <1>2, <1>3
  <2> HIDE DEF p, q, r
  <2>2. p >= n
    BY <1>1, <1>2, <2>1
  <2> QED BY <2>2 DEF p
<1>5. q # 0
  BY <1>1, <1>2, <1>4
<1> HIDE DEF q, r, k
<1>6. ASSUME NEW i \in 0 .. n - 1
      PROVE  i \div T \in 0 .. q - 1 /\ i % T \in 0 .. T - 1 /\ (i \div T) * T + (i % T) = i
  <2>1. i \in 0 .. q * T - 1
    BY <1>3, <1>4
  <2>2. \A e \in 0 .. q * T - 1 : e \div T \in 0 .. q - 1 /\ e % T \in 0 .. T - 1
    BY <1>1, <1>2, Below
  <2>3. (i \div T) * T + (i % T) = i
    BY <1>1, DivMod
  <2> QED BY <2>1, <2>2, <2>3
<1> QED BY <1>2, <1>4, <1>5, <1>6

LEMMA Threads ==
  ASSUME shape \in Shapes, NEW b \in gridDim, NEW t \in blockDim
  PROVE  /\ b.x \in Nat /\ b.y \in Nat /\ b.z \in Nat /\ t.x \in 0 .. T - 1 /\ t.y \in 0 .. T - 1
         /\ Row(b, t) \in Nat /\ Col(b, t) \in Nat /\ RowOut(b, t) \in Nat /\ ColOut(b, t) \in Nat
         /\ version = "simple" => b.x \in 0 .. shape.B - 1 /\ b.y \in 0 .. shape.M - 1
         /\ version = "fused" => b.z \in 0 .. shape.B - 1
         /\ version \notin {"simple", "fused"} => b.z = 0
<1>1. Tiles(W_out) \in Nat \ {0} /\ Tiles(H_out) \in Nat \ {0} /\ Tiles(H_unroll) \in Nat \ {0}
      /\ Tiles(shape.M) \in Nat \ {0}
  BY TilesOf, Dims
<1>2. Tiles(W_out) * Tiles(H_out) \in Nat /\ shape.B \in Nat /\ shape.M \in Nat
  BY <1>1, Dims, Times
<1>3. /\ b.x \in Nat /\ b.y \in Nat /\ b.z \in Nat
      /\ version = "simple" => b.x \in 0 .. shape.B - 1 /\ b.y \in 0 .. shape.M - 1
      /\ version = "fused" => b.z \in 0 .. shape.B - 1
      /\ version \notin {"simple", "fused"} => b.z = 0
  <2>1. CASE version = "simple"
    BY <1>1, <1>2, <2>1 DEF gridDim
  <2>2. CASE version = "fused"
    BY <1>1, <1>2, <2>2 DEF gridDim
  <2>3. CASE version \notin {"simple", "fused"}
    BY <1>1, <1>2, <2>3 DEF gridDim
  <2> QED BY <2>1, <2>2, <2>3
<1>4. t.x \in 0 .. T - 1 /\ t.y \in 0 .. T - 1 /\ T \in Nat \ {0} /\ t.x \in Nat /\ t.y \in Nat
  BY Dims DEF blockDim, T
<1>5. Row(b, t) \in Nat /\ Col(b, t) \in Nat
  <2>1. b.y * T \in Nat /\ b.x * T \in Nat
    BY <1>3, <1>4
  <2> QED BY <1>4, <2>1 DEF Row, Col, T
<1>6. RowOut(b, t) \in Nat /\ ColOut(b, t) \in Nat
  <2>1. b.z \div Tiles(W_out) \in Nat /\ b.z % Tiles(W_out) \in Nat
    BY <1>1, <1>3, DivMod
  <2>2. (b.z \div Tiles(W_out)) * T \in Nat /\ (b.z % Tiles(W_out)) * T \in Nat
    BY <1>4, <2>1
  <2> QED BY <1>4, <2>2 DEF RowOut, ColOut, T
<1> QED BY <1>3, <1>4, <1>5, <1>6

\* The image, the feature and the place whose output a thread computes.
ImageOf(b) == IF version = "simple" THEN b.x ELSE image + b.z
FeatureOf(b, t) == IF version = "simple" THEN b.y ELSE Row(b, t)
PlaceOf(b, t) == IF version = "simple" THEN RowOut(b, t) * W_out + ColOut(b, t) ELSE Col(b, t)

Element(n, m, s) == n * y_ind + m * H_unroll + s

LEMMA OutputPlace ==
  ASSUME shape \in Shapes, image \in Nat, NEW b \in gridDim, NEW t \in blockDim, Stores(b, t)
  PROVE  /\ ImageOf(b) \in Nat /\ FeatureOf(b, t) \in 0 .. shape.M - 1
         /\ PlaceOf(b, t) \in 0 .. H_unroll - 1
         /\ OutputIndex(b, t) = Element(ImageOf(b), FeatureOf(b, t), PlaceOf(b, t))
<1>1. CASE version = "simple"
  <2>1. RowOut(b, t) \in 0 .. H_out - 1 /\ ColOut(b, t) \in 0 .. W_out - 1
    BY <1>1, Threads, Dims DEF Stores
  <2>2. RowOut(b, t) * W_out + ColOut(b, t) \in 0 .. H_out * W_out - 1
    BY <2>1, Below, Dims
  <2>3. OutputIndex(b, t) = b.x * y_ind + b.y * H_unroll + (RowOut(b, t) * W_out + ColOut(b, t))
    <3> DEFINE P == b.x * y_ind
               Q == b.y * H_unroll
               R == RowOut(b, t) * W_out
    <3>1. P \in Nat /\ Q \in Nat /\ R \in Nat /\ ColOut(b, t) \in Nat
      BY Times, Threads, Dims
    <3>2. OutputIndex(b, t) = P + Q + R + ColOut(b, t)
      BY <1>1 DEF OutputIndex
    <3> HIDE DEF P, Q, R
    <3>3. OutputIndex(b, t) = P + Q + (R + ColOut(b, t))
      BY <3>1, <3>2
    <3> QED BY <3>3 DEF P, Q, R
  <2> QED BY <1>1, <2>2, <2>3, Threads DEF ImageOf, FeatureOf, PlaceOf, Element, H_unroll
<1>2. CASE version # "simple"
  <2>1. Row(b, t) \in 0 .. shape.M - 1 /\ Col(b, t) \in 0 .. H_unroll - 1
    BY <1>2, Threads, Dims DEF Stores
  <2> QED BY <1>2, <2>1, Threads DEF ImageOf, FeatureOf, PlaceOf, Element, OutputIndex
<1> QED BY <1>1, <1>2

LEMMA ReferenceAt ==
  ASSUME shape \in Shapes, NEW n \in Nat, NEW m \in 0 .. shape.M - 1, NEW s \in 0 .. H_unroll - 1
  PROVE  Reference(Element(n, m, s)) = Products(n, m, s, w_base)
<1> DEFINE e == Element(n, m, s)
           M == shape.M
           h == s \div W_out
           w == s % W_out
<1>1. M \in Nat \ {0} /\ H_unroll \in Nat \ {0} /\ W_out \in Nat \ {0} /\ H_out \in Nat \ {0}
      /\ y_ind = M * H_unroll /\ H_unroll = H_out * W_out /\ m \in Nat /\ s \in Nat
  BY Dims DEF y_ind, H_unroll
<1>2. e = (n * M + m) * H_unroll + s /\ n * M + m \in Nat
  <2>1. (n * M + m) * H_unroll = (n * M) * H_unroll + m * H_unroll
    BY <1>1, Times
  <2>2. (n * M) * H_unroll = n * (M * H_unroll)
    BY <1>1
  <2>3. n * M \in Nat
    BY <1>1, Times
  <2> QED BY <1>1, <2>1, <2>2, <2>3 DEF Element
<1>3. e = n * (M * H_unroll) + (m * H_unroll + s)
  <2> DEFINE P == n * (M * H_unroll)
             Q == m * H_unroll
  <2>1. P \in Nat /\ Q \in Nat
    BY <1>1, Times
  <2>2. e = P + Q + s
    BY <1>1 DEF Element
  <2> HIDE DEF P, Q, e
  <2>3. e = P + (Q + s)
    BY <1>1, <2>1, <2>2
  <2> QED BY <2>3 DEF P, Q
<1>4. m * H_unroll + s \in 0 .. M * H_unroll - 1
  BY <1>1, Below
<1> HIDE DEF e, M
<1>5. e \div H_unroll = n * M + m /\ e % H_unroll = s
  <2> DEFINE a == n * M + m
  <2>1. a \in Nat /\ e = a * H_unroll + s
    BY <1>2
  <2> HIDE DEF a
  <2>2. e \div H_unroll = a /\ e % H_unroll = s
    BY <1>1, <2>1, Decomposed
  <2> QED BY <2>2 DEF a
<1>6. (n * M + m) % M = m
  BY <1>1, Decomposed DEF M
<1>7. e \div y_ind = n
  <2> DEFINE N == M * H_unroll
             r == m * H_unroll + s
  <2>1. N \in Nat \ {0} /\ r \in 0 .. N - 1 /\ e = n * N + r
    BY <1>1, <1>3, <1>4, Times
  <2> HIDE DEF N, r
  <2>2. e \div N = n
    BY <2>1, Decomposed
  <2> QED BY <1>1, <2>2 DEF N
<1>8. e % W_out = s % W_out
  <2> DEFINE a == n * M + m
             c == a * H_out + h
  <2>1. h \in Nat /\ w \in 0 .. W_out - 1 /\ s = h * W_out + w /\ a \in Nat
    BY <1>1, <1>2, DivMod
  <2> HIDE DEF a, h, w
  <2>2. c \in Nat /\ a * H_unroll + s = c * W_out + w
    <3>1. c * W_out = (a * H_out) * W_out + h * W_out /\ a * H_out \in Nat
      BY <1>1, <2>1, Times
    <3>2. (a * H_out) * W_out = a * H_unroll
      BY <1>1, <2>1
    <3> DEFINE P == a * H_unroll
               Q == h * W_out
               C == c * W_out
    <3>3. P \in Nat /\ Q \in Nat /\ c \in Nat /\ C = P + Q /\ s = Q + w
      BY <1>1, <2>1, <3>1, <3>2, Times
    <3> HIDE DEF P, Q, C
    <3>4. P + s = C + w
      BY <1>1, <2>1, <3>3
    <3> QED BY <3>3, <3>4 DEF P, C
  <2> HIDE DEF c
  <2>3. e = c * W_out + w
    BY <1>2, <2>2 DEF a
  <2>4. e % W_out = w
    BY <1>1, <2>1, <2>2, <2>3, Decomposed
  <2> QED BY <2>4 DEF w
<1>9. Reference(e) = Sum(n, m, s \div W_out, s % W_out)
  BY <1>5, <1>6, <1>7, <1>8 DEF Reference, M
<1> QED BY <1>1, <1>9, SumOfProducts DEF e

\* Every output of an image that the kernel is launched for is some thread's.
LEMMA Covers ==
  ASSUME version \in Versions, shape \in Shapes, image \in Nat,
         NEW n \in 0 .. shape.B - 1, NEW m \in 0 .. shape.M - 1, NEW s \in 0 .. H_unroll - 1,
         LastImage = 0 => image = 0, LastImage # 0 => n = image
  PROVE  \E b \in gridDim, t \in blockDim : Stores(b, t) /\ OutputIndex(b, t) = Element(n, m, s)
<1>1. /\ T \in Nat \ {0} /\ H_out \in Nat \ {0} /\ W_out \in Nat \ {0} /\ H_unroll \in Nat \ {0}
      /\ shape.M \in Nat \ {0} /\ shape.B \in Nat \ {0}
  BY Dims DEF T
<1>2. CASE version = "simple"
  <2> DEFINE h == s \div W_out
             w == s % W_out
             a == h \div T
             c == w \div T
             P == Tiles(W_out)
             b == [x |-> n, y |-> m, z |-> a * P + c]
             t == [x |-> w % T, y |-> h % T]
  <2>1. h \in 0 .. H_out - 1 /\ w \in 0 .. W_out - 1 /\ h * W_out + w = s
    <3>1. s \in 0 .. H_out * W_out - 1 /\ s \in Nat
      BY <1>1 DEF H_unroll
    <3>2. \A e \in 0 .. H_out * W_out - 1 : e \div W_out \in 0 .. H_out - 1 /\ e % W_out \in 0 .. W_out - 1
      BY <1>1, Below
    <3>3. h * W_out + w = s
      BY <1>1, <3>1, DivMod
    <3> QED BY <3>1, <3>2, <3>3
  <2> HIDE DEF h, w
  <2>2. /\ P \in Nat \ {0} /\ Tiles(H_out) \in Nat \ {0}
        /\ a \in 0 .. Tiles(H_out) - 1 /\ h % T \in 0 .. T - 1 /\ a * T + (h % T) = h
        /\ c \in 0 .. P - 1 /\ w % T \in 0 .. T - 1 /\ c * T + (w % T) = w
    BY <1>1, <2>1, TilesOf
  <2> HIDE DEF a, c, P
  <2>3. a * P + c \in 0 .. Tiles(H_out) * P - 1 /\ Tiles(H_out) * P = P * Tiles(H_out)
    <3>1. \A d \in 0 .. Tiles(H_out) - 1, e \in 0 .. P - 1 : d * P + e \in 0 .. Tiles(H_out) * P - 1
      BY <2>2, Below
    <3> QED BY <2>2, <3>1
  <2>4. b \in gridDim /\ t \in blockDim
    BY <1>2, <2>2, <2>3 DEF gridDim, blockDim, T, P
  <2>5. (a * P + c) \div P = a /\ (a * P + c) % P = c
    <3>1. a \in Nat
      BY <2>2
    <3> QED BY <2>2, <3>1, Decomposed
  <2>6. RowOut(b, t) = h /\ ColOut(b, t) = w
    BY <2>2, <2>5 DEF RowOut, ColOut, T, P
  <2>7. Stores(b, t)
    BY <1>1, <1>2, <2>1, <2>6 DEF Stores
  <2>8. ImageOf(b) = n /\ FeatureOf(b, t) = m /\ PlaceOf(b, t) = s
    BY <1>2, <2>1, <2>6 DEF ImageOf, FeatureOf, PlaceOf
  <2>9. OutputIndex(b, t) = Element(n, m, s)
    BY <2>4, <2>7, <2>8, OutputPlace
  <2> QED BY <2>4, <2>7, <2>9
<1>3. CASE version # "simple"
  <2> DEFINE b == [x |-> s \div T, y |-> m \div T, z |-> n - image]
             t == [x |-> s % T, y |-> m % T]
  <2>1. /\ s \div T \in 0 .. Tiles(H_unroll) - 1 /\ s % T \in 0 .. T - 1 /\ (s \div T) * T + (s % T) = s
        /\ m \div T \in 0 .. Tiles(shape.M) - 1 /\ m % T \in 0 .. T - 1 /\ (m \div T) * T + (m % T) = m
    BY <1>1, TilesOf
  <2>2. n - image \in 0 .. shape.B - 1 /\ (version # "fused" => n - image = 0) /\ image + (n - image) = n
    BY <1>1, <1>3, ConvolutionAssumption DEF LastImage
  <2>3. b \in gridDim /\ t \in blockDim
    BY <1>3, <2>1, <2>2 DEF gridDim, blockDim, T
  <2>4. Row(b, t) = m /\ Col(b, t) = s
    BY <2>1 DEF Row, Col, T
  <2>5. Stores(b, t)
    BY <1>1, <1>3, <2>4 DEF Stores
  <2>6. ImageOf(b) = n /\ FeatureOf(b, t) = m /\ PlaceOf(b, t) = s
    BY <1>3, <2>2, <2>4 DEF ImageOf, FeatureOf, PlaceOf
  <2>7. OutputIndex(b, t) = Element(n, m, s)
    BY <2>3, <2>5, <2>6, OutputPlace
  <2> QED BY <2>3, <2>5, <2>7
<1> QED BY <1>2, <1>3

-----------------------------------------------------------------------------
(* The inductive invariant *)

\* The barriers of a round that a thread at statement j has behind it, one at l has too.
SamePart(j, l) == \A n \in 1 .. Len(Round) : Round[n] = "sync" => (n < j <=> n < l)

Past(thread, statement) == \E j \in 1 .. thread.at - 1 : Round[j] = statement

\* Columns of the matrices whose product a thread has added.
Added(thread) ==
    LET n == thread.i * T + (IF Past(thread, "mac") THEN T ELSE thread.k)
    IN  IF n < w_base THEN n ELSE w_base

Unrolling == [t \in 0 .. w_base * H_unroll - 1 |-> Unrolled(image, t \div H_unroll, t % H_unroll)]

Sums == Seq(Int \X Int)
ThreadStates == [i : 0 .. Rounds + 1, at : Nat \ {0}, k : 0 .. LastK, cValue : Sums]

Typing ==
    /\ version \in Versions /\ shape \in Shapes
    /\ phase \in {"launch", "running", "done"}
    /\ image \in 0 .. LastImage
    /\ phase = "done" => image = LastImage
    /\ LastImage = 0 => X_unroll = <<>>

Running ==
    /\ threads \in [gridDim \X blockDim -> ThreadStates]
    /\ Ads \in [gridDim -> [blockDim -> Int]] /\ Bds \in [gridDim -> [blockDim -> Int]]
    /\ LastImage # 0 => X_unroll = Unrolling

\* Where a thread of block b is, and what it has put in the tiles.
PlacedAt(b, t, thread, a, x) ==
    /\ IF thread.i < Rounds THEN thread.at \in 1 .. Len(Round) ELSE thread.at = 1
    /\ thread.k # 0 => thread.i < Rounds /\ Round[thread.at] = "mac"
    /\ thread.i < Rounds /\ Past(thread, "loadA") => a = LoadA(b, t, thread.i)
    /\ thread.i < Rounds /\ Past(thread, "loadB") => x = LoadB(b, t, thread.i)

\* Until it stores it, a thread's sum has the columns it has been through.
SummedAt(b, t, thread) ==
    version # "simple" /\ Stores(b, t) /\ thread.i <= Rounds =>
        thread.cValue = Products(image + b.z, Row(b, t), Col(b, t), Added(thread))

StoredAt(b, t, thread, y) ==
    Stores(b, t) /\ thread.i > Rounds => OutputIndex(b, t) \in DOMAIN y

\* Threads of a block are between the same two barriers.
TogetherAt(thread, other) ==
    thread.i < Rounds => other.i = thread.i /\ SamePart(thread.at, other.at)

Placed(b, t) == PlacedAt(b, t, threads[<<b, t>>], Ads[b][t], Bds[b][t])
Summed(b, t) == SummedAt(b, t, threads[<<b, t>>])
Stored(b, t) == StoredAt(b, t, threads[<<b, t>>], Y)
Together(b, t, u) == TogetherAt(threads[<<b, t>>], threads[<<b, u>>])

Written ==
    /\ \A e \in InOutput : e < image * y_ind => e \in DOMAIN Y
    /\ \A e \in InOutput \cap DOMAIN Y : Y[e] = Reference(e)
    /\ LastImage = 0 => DOMAIN Y \subseteq InOutput
    /\ phase = "done" /\ LastImage = 0 => InOutput \subseteq DOMAIN Y

Meeting ==
    /\ Running
    /\ \A b \in gridDim, t \in blockDim : Placed(b, t) /\ Summed(b, t) /\ Stored(b, t)
    /\ \A b \in gridDim : \A t, u \in blockDim : Together(b, t, u)

IInv == Typing /\ Written /\ IF phase = "running" THEN Meeting ELSE threads = <<>>

-----------------------------------------------------------------------------
(* What stays, in a call, of the definitions *)

LEMMA Fixed ==
  ASSUME version' = version, shape' = shape
  PROVE  /\ gridDim' = gridDim /\ Round' = Round /\ Rounds' = Rounds /\ LastImage' = LastImage
         /\ H_unroll' = H_unroll /\ w_base' = w_base /\ y_ind' = y_ind /\ W_out' = W_out
         /\ InOutput' = InOutput /\ ThreadStates' = ThreadStates
         /\ \A e : Reference(e)' = Reference(e)
         /\ \A b, t : Stores(b, t)' = Stores(b, t)
         /\ \A j, l : SamePart(j, l)' = SamePart(j, l)
         /\ \A thread : Added(thread)' = Added(thread)
         /\ \A thread, statement : Past(thread, statement)' = Past(thread, statement)
         /\ \A n, c, s : Unrolled(n, c, s)' = Unrolled(n, c, s)
         /\ \A n, m, s, c : Products(n, m, s, c)' = Products(n, m, s, c)
<1>1. H_out' = H_out /\ W_out' = W_out
  BY DEF H_out, W_out
<1>2. H_unroll' = H_unroll /\ w_base' = w_base /\ x_ind' = x_ind
  BY <1>1 DEF H_unroll, w_base, x_ind
<1>3. y_ind' = y_ind
  BY <1>2 DEF y_ind
<1>4. gridDim' = gridDim
  BY <1>1, <1>2 DEF gridDim, Tiles
<1>5. Round' = Round /\ Rounds' = Rounds /\ LastImage' = LastImage
  BY <1>2 DEF Round, Rounds, LastImage, Tiles
<1>6. InOutput' = InOutput /\ ThreadStates' = ThreadStates
  BY <1>3, <1>5 DEF InOutput, ThreadStates
<1>7. \A e : Reference(e)' = Reference(e)
  BY <1>1, <1>2, <1>3 DEF Reference, Sum, Loop
<1>8. \A b, t : Stores(b, t)' = Stores(b, t)
  BY <1>1, <1>2 DEF Stores, RowOut, ColOut, Row, Col, Tiles
<1>9. /\ \A j, l : SamePart(j, l)' = SamePart(j, l)
      /\ \A thread, statement : Past(thread, statement)' = Past(thread, statement)
  BY <1>5 DEF SamePart, Past
<1>10. \A thread : Added(thread)' = Added(thread)
  BY <1>2, <1>5 DEF Added, Past
<1>11. \A n, c, s : Unrolled(n, c, s)' = Unrolled(n, c, s)
  BY <1>1, <1>2 DEF Unrolled
<1>12. \A n, m, s, c : Products(n, m, s, c)' = Products(n, m, s, c)
  BY <1>1, <1>2 DEF Products, Unrolled
<1> QED BY <1>1, <1>2, <1>3, <1>4, <1>5, <1>6, <1>7, <1>8, <1>9, <1>10, <1>11, <1>12

LEMMA FixedLoads ==
  ASSUME version' = version, shape' = shape, X_unroll' = X_unroll
  PROVE  \A b, t, i : LoadA(b, t, i)' = LoadA(b, t, i) /\ LoadB(b, t, i)' = LoadB(b, t, i)
BY Fixed DEF LoadA, LoadB, Row, Col

LEMMA FixedIndex ==
  ASSUME version' = version, shape' = shape, image' = image
  PROVE  \A b, t : OutputIndex(b, t)' = OutputIndex(b, t)
<1>1. H_out' = H_out
  BY DEF H_out
<1> QED BY <1>1, Fixed DEF OutputIndex, RowOut, ColOut, Row, Col, Tiles

\* The parts of the invariant after a step, in the terms of before it.
LEMMA Primes ==
  ASSUME version' = version, shape' = shape, image' = image, X_unroll' = X_unroll,
         NEW b, NEW t
  PROVE  /\ PlacedAt(b, t, threads'[<<b, t>>], Ads'[b][t], Bds'[b][t]) => Placed(b, t)'
         /\ SummedAt(b, t, threads'[<<b, t>>]) => Summed(b, t)'
         /\ StoredAt(b, t, threads'[<<b, t>>], Y') => Stored(b, t)'
         /\ \A u : TogetherAt(threads'[<<b, t>>], threads'[<<b, u>>]) => Together(b, t, u)'
<1> DEFINE n == threads'[<<b, t>>]
           a == Ads'[b][t]
           x == Bds'[b][t]
           y == Y'
<1>0. x_ind' = x_ind
  BY DEF x_ind
<1>1. PlacedAt(b, t, n, a, x) => Placed(b, t)'
  BY Fixed, FixedLoads DEF Placed, PlacedAt, Past, LoadA, LoadB, Row, Col, Unrolled
<1>2. SummedAt(b, t, n) => Summed(b, t)'
  <2>1. Added(threads[<<b, t>>])' = Added(n)
    BY Fixed DEF Added, Past
  <2>2. ASSUME NEW j
        PROVE  <<Unrolled(image + b.z, j - 1, Col(b, t)), Row(b, t) * w_base + (j - 1)>>'
                 = <<Unrolled(image + b.z, j - 1, Col(b, t)), Row(b, t) * w_base + (j - 1)>>
    BY <1>0, Fixed DEF Unrolled, Row, Col
  <2>3. Products(image + b.z, Row(b, t), Col(b, t), Added(threads[<<b, t>>]))'
          = [j \in 1 .. Added(n) |->
               <<Unrolled(image + b.z, j - 1, Col(b, t)), Row(b, t) * w_base + (j - 1)>>']
    BY <2>1 DEF Products
  <2>4. Products(image + b.z, Row(b, t), Col(b, t), Added(threads[<<b, t>>]))'
          = Products(image + b.z, Row(b, t), Col(b, t), Added(n))
    BY <2>2, <2>3 DEF Products
  <2> HIDE DEF n
  <2>5. Stores(b, t)' = Stores(b, t) /\ Rounds' = Rounds
    BY Fixed
  <2> QED BY <2>4, <2>5 DEF Summed, SummedAt, n
<1>3. StoredAt(b, t, n, y) => Stored(b, t)'
  BY Fixed, FixedIndex DEF Stored, StoredAt
<1>4. \A u : TogetherAt(threads'[<<b, t>>], threads'[<<b, u>>]) => Together(b, t, u)'
  BY Fixed DEF Together, TogetherAt, SamePart
<1> QED BY <1>1, <1>2, <1>3, <1>4

-----------------------------------------------------------------------------
(* The statements of a round *)

LEMMA RoundOf ==
  ASSUME version \in Versions, version # "simple"
  PROVE  /\ Len(Round) \in Nat /\ Len(Round) > 0
         /\ \A j \in 1 .. Len(Round) : Round[j] \in {"sync", "loadA", "loadB", "mac"}
         /\ Round[Len(Round)] = "sync"
         /\ \E j \in 1 .. Len(Round) - 1 : Round[j] = "mac"
         /\ \A j, l \in 1 .. Len(Round) : Round[j] = "mac" /\ Round[l] = "mac" => j = l
         /\ \A j, l \in 1 .. Len(Round) : Round[j] = "mac" /\ SamePart(j, l) =>
              /\ Round[l] \notin {"loadA", "loadB"}
              /\ \E n \in 1 .. l - 1 : Round[n] = "loadB"
              /\ version # "constmem" => \E n \in 1 .. l - 1 : Round[n] = "loadA"
<1>1. CASE version = "tiled"
  <2>1. /\ Len(Round) = 7 /\ Round[1] = "sync" /\ Round[2] = "loadA" /\ Round[3] = "sync"
        /\ Round[4] = "loadB" /\ Round[5] = "sync" /\ Round[6] = "mac" /\ Round[7] = "sync"
    BY <1>1 DEF Round
  <2>2. \A j \in 1 .. 7 : j = 1 \/ j = 2 \/ j = 3 \/ j = 4 \/ j = 5 \/ j = 6 \/ j = 7
    OBVIOUS
  <2>3. \A j, l \in 1 .. 7 : Round[j] = "mac" /\ SamePart(j, l) => j = 6 /\ l > 5
    BY <2>1, <2>2 DEF SamePart
  <2>4. \A l \in 1 .. 7 : l > 5 => Round[l] \notin {"loadA", "loadB"} /\ 4 \in 1 .. l - 1 /\ 2 \in 1 .. l - 1
    BY <2>1, <2>2
  <2> QED BY <2>1, <2>2, <2>3, <2>4
<1>2. CASE version = "constmem"
  <2>1. /\ Len(Round) = 4 /\ Round[1] = "loadB" /\ Round[2] = "sync" /\ Round[3] = "mac"
        /\ Round[4] = "sync"
    BY <1>2 DEF Round
  <2>2. \A j \in 1 .. 4 : j = 1 \/ j = 2 \/ j = 3 \/ j = 4
    OBVIOUS
  <2>3. \A j, l \in 1 .. 4 : Round[j] = "mac" /\ SamePart(j, l) => j = 3 /\ l > 2
    BY <2>1, <2>2 DEF SamePart
  <2>4. \A l \in 1 .. 4 : l > 2 => Round[l] \notin {"loadA", "loadB"} /\ 1 \in 1 .. l - 1
    BY <2>1, <2>2
  <2> QED BY <1>2, <2>1, <2>2, <2>3, <2>4
<1>3. CASE version = "fused"
  <2>1. /\ Len(Round) = 5 /\ Round[1] = "loadA" /\ Round[2] = "loadB" /\ Round[3] = "sync"
        /\ Round[4] = "mac" /\ Round[5] = "sync"
    BY <1>3 DEF Round
  <2>2. \A j \in 1 .. 5 : j = 1 \/ j = 2 \/ j = 3 \/ j = 4 \/ j = 5
    OBVIOUS
  <2>3. \A j, l \in 1 .. 5 : Round[j] = "mac" /\ SamePart(j, l) => j = 4 /\ l > 3
    BY <2>1, <2>2 DEF SamePart
  <2>4. \A l \in 1 .. 5 : l > 3 =>
          Round[l] \notin {"loadA", "loadB"} /\ 1 \in 1 .. l - 1 /\ 2 \in 1 .. l - 1
    BY <2>1, <2>2
  <2> QED BY <2>1, <2>2, <2>3, <2>4
<1> QED BY <1>1, <1>2, <1>3, ConvolutionAssumption

\* A thread that passes a statement other than the barrier stays in its part.
LEMMA PartAfter ==
  ASSUME NEW j \in Nat, NEW l \in Nat, Len(Round) \in Nat, Round[j] # "sync"
  PROVE  (SamePart(j, l) => SamePart(j + 1, l)) /\ (SamePart(l, j) => SamePart(l, j + 1))
<1>1. \A n \in 1 .. Len(Round) : n < j + 1 <=> n < j \/ n = j
  OBVIOUS
<1> QED BY <1>1 DEF SamePart

\* Threads that wait at the same part's end wait at the same barrier.
LEMMA SameBarrier ==
  ASSUME Len(Round) \in Nat, NEW j \in 1 .. Len(Round), NEW l \in 1 .. Len(Round),
         SamePart(j, l), Round[j] = "sync", Round[l] = "sync"
  PROVE  j = l
<1>1. ~(j < l) /\ ~(l < j)
  BY DEF SamePart
<1> QED BY <1>1

LEMMA RoundsOf ==
  ASSUME version \in Versions, shape \in Shapes
  PROVE  /\ Rounds \in Nat /\ (version = "simple" <=> Rounds = 0)
         /\ version # "simple" => Rounds * T >= w_base
         /\ w_base \in Nat \ {0} /\ T \in Nat \ {0}
<1>1. w_base \in Nat \ {0} /\ T \in Nat \ {0}
  BY Dims DEF T
<1>2. Tiles(w_base) \in Nat \ {0} /\ Tiles(w_base) * T >= w_base
  BY <1>1, TilesOf
<1> QED BY <1>1, <1>2 DEF Rounds

-----------------------------------------------------------------------------
(* Steps of one thread *)

\* A thread moves, it alone writes its cells of the tiles, and outputs may be added.
LEMMA OneStep ==
  ASSUME IInv, phase = "running",
         UNCHANGED <<version, shape, phase, image, X_unroll>>,
         NEW b \in gridDim, NEW t \in blockDim, NEW new \in ThreadStates, NEW a \in Int, NEW x \in Int,
         threads' = [threads EXCEPT ![<<b, t>>] = new],
         Ads' = [Ads EXCEPT ![b][t] = a], Bds' = [Bds EXCEPT ![b][t] = x],
         Written', DOMAIN Y \subseteq DOMAIN Y',
         PlacedAt(b, t, new, a, x), SummedAt(b, t, new), StoredAt(b, t, new, Y'),
         \A u \in blockDim \ {t} :
           TogetherAt(new, threads[<<b, u>>]) /\ TogetherAt(threads[<<b, u>>], new)
  PROVE  IInv'
<1>1. Typing /\ Meeting /\ Running
  BY DEF IInv, Meeting
<1>2. Typing'
  BY <1>1, Fixed DEF Typing
<1>3. /\ gridDim' = gridDim /\ blockDim' = blockDim
      /\ threads'[<<b, t>>] = new /\ Ads'[b][t] = a /\ Bds'[b][t] = x
      /\ \A c \in gridDim, u \in blockDim : <<c, u>> # <<b, t>> =>
           threads'[<<c, u>>] = threads[<<c, u>>] /\ Ads'[c][u] = Ads[c][u] /\ Bds'[c][u] = Bds[c][u]
  <2>1. gridDim' = gridDim /\ blockDim' = blockDim
    BY Fixed DEF blockDim
  <2>2. threads'[<<b, t>>] = new /\ Ads'[b][t] = a /\ Bds'[b][t] = x
    BY <1>1 DEF Running
  <2>3. ASSUME NEW c \in gridDim, NEW u \in blockDim, <<c, u>> # <<b, t>>
        PROVE  threads'[<<c, u>>] = threads[<<c, u>>] /\ Ads'[c][u] = Ads[c][u] /\ Bds'[c][u] = Bds[c][u]
    <3>1. threads'[<<c, u>>] = threads[<<c, u>>]
      BY <1>1, <2>3 DEF Running
    <3>2. Ads'[c][u] = Ads[c][u] /\ Bds'[c][u] = Bds[c][u]
      BY <1>1, <2>3 DEF Running
    <3> QED BY <3>1, <3>2
  <2> QED BY <2>1, <2>2, <2>3
<1>4. Running'
  <2>1. threads' \in [gridDim \X blockDim -> ThreadStates]
    BY <1>1 DEF Running
  <2>2. Ads' \in [gridDim -> [blockDim -> Int]] /\ Bds' \in [gridDim -> [blockDim -> Int]]
    BY <1>1 DEF Running
  <2>3. LastImage' # 0 => X_unroll' = Unrolling'
    <3>1. Unrolling' = Unrolling
      BY Fixed DEF Unrolling
    <3> QED BY <1>1, <3>1, Fixed DEF Running
  <2> QED BY <1>3, <2>1, <2>2, <2>3, Fixed DEF Running
<1>5. ASSUME NEW c \in gridDim, NEW u \in blockDim
      PROVE  Placed(c, u)' /\ Summed(c, u)' /\ Stored(c, u)'
  <2>1. CASE <<c, u>> = <<b, t>>
    BY <1>3, <2>1, Primes
  <2>2. CASE <<c, u>> # <<b, t>>
    <3>1. PlacedAt(c, u, threads[<<c, u>>], Ads[c][u], Bds[c][u]) /\ SummedAt(c, u, threads[<<c, u>>])
          /\ StoredAt(c, u, threads[<<c, u>>], Y)
      BY <1>1 DEF Meeting, Placed, Summed, Stored
    <3>2. StoredAt(c, u, threads[<<c, u>>], Y')
      BY <3>1 DEF StoredAt
    <3> QED BY <1>3, <2>2, <3>1, <3>2, Primes
  <2> QED BY <2>1, <2>2
<1>6. ASSUME NEW c \in gridDim, NEW u \in blockDim, NEW w \in blockDim
      PROVE  Together(c, u, w)'
  <2>1. TogetherAt(threads[<<c, u>>], threads[<<c, w>>])
    BY <1>1 DEF Meeting, Together
  <2>2. CASE c # b \/ (u # t /\ w # t)
    BY <1>3, <2>1, <2>2, Primes
  <2>3. CASE c = b /\ u = t /\ w = t
    <3>1. TogetherAt(new, new)
      BY DEF TogetherAt, SamePart
    <3> QED BY <1>3, <2>3, <3>1, Primes
  <2>4. CASE c = b /\ u = t /\ w # t
    BY <1>3, <2>4, Primes
  <2>5. CASE c = b /\ u # t /\ w = t
    BY <1>3, <2>5, Primes
  <2> QED BY <2>2, <2>3, <2>4, <2>5
<1>7. Meeting'
  BY <1>3, <1>4, <1>5, <1>6 DEF Meeting
<1> QED BY <1>2, <1>7 DEF IInv

\* What holds of a thread that is at a statement.
LEMMA ThreadAt ==
  ASSUME IInv, phase = "running", NEW b \in gridDim, NEW t \in blockDim
  PROVE  /\ Typing /\ Meeting /\ version \in Versions /\ shape \in Shapes /\ image \in Nat
         /\ threads[<<b, t>>] \in ThreadStates
         /\ Ads[b][t] \in Int /\ Bds[b][t] \in Int
         /\ PlacedAt(b, t, threads[<<b, t>>], Ads[b][t], Bds[b][t])
         /\ SummedAt(b, t, threads[<<b, t>>]) /\ StoredAt(b, t, threads[<<b, t>>], Y)
         /\ \A u \in blockDim :
              TogetherAt(threads[<<b, t>>], threads[<<b, u>>]) /\ TogetherAt(threads[<<b, u>>], threads[<<b, t>>])
         /\ [Ads EXCEPT ![b][t] = Ads[b][t]] = Ads /\ [Bds EXCEPT ![b][t] = Bds[b][t]] = Bds
<1>1. Typing /\ Meeting /\ Running
  BY DEF IInv, Meeting
<1>2. image \in Nat /\ version \in Versions /\ shape \in Shapes
  BY <1>1, Dims DEF Typing, LastImage
<1>3. /\ [Ads EXCEPT ![b][t] = Ads[b][t]] = Ads /\ [Bds EXCEPT ![b][t] = Bds[b][t]] = Bds
      /\ threads[<<b, t>>] \in ThreadStates /\ Ads[b][t] \in Int /\ Bds[b][t] \in Int
  BY <1>1 DEF Running
<1> QED BY <1>1, <1>2, <1>3 DEF Meeting, Placed, Summed, Stored, Together

\* A thread that goes on in its round, with the sum and the tiles it has.
LEMMA GoesOn ==
  ASSUME version \in Versions, shape \in Shapes, NEW thread \in ThreadStates,
         thread.i < Rounds, thread.at \in 1 .. Len(Round), Round[thread.at] # "sync",
         NEW new, new = [thread EXCEPT !.at = @ + 1]
  PROVE  /\ Advanced(thread) = new /\ new \in ThreadStates
         /\ new.i = thread.i /\ new.at = thread.at + 1 /\ new.k = thread.k /\ new.cValue = thread.cValue
         /\ new.at \in 1 .. Len(Round)
         /\ \A s : Past(new, s) <=> Past(thread, s) \/ s = Round[thread.at]
         /\ \A u : TogetherAt(thread, u) => TogetherAt(new, u)
         /\ \A u \in ThreadStates : TogetherAt(u, thread) => TogetherAt(u, new)
<1>1. Rounds \in Nat /\ version # "simple" /\ thread.i \in Nat /\ thread.at \in Nat
  BY RoundsOf DEF ThreadStates
<1>2. Len(Round) \in Nat /\ Round[Len(Round)] = "sync"
  BY <1>1, RoundOf
<1>3. thread.at # Len(Round) /\ thread.at + 1 \in 1 .. Len(Round)
  BY <1>1, <1>2
<1>4. /\ new \in ThreadStates
      /\ new.i = thread.i /\ new.at = thread.at + 1 /\ new.k = thread.k /\ new.cValue = thread.cValue
  BY <1>1 DEF ThreadStates
<1>5. \A s : Past(new, s) <=> Past(thread, s) \/ s = Round[thread.at]
  <2>1. \A j : j \in 1 .. new.at - 1 <=> j \in 1 .. thread.at - 1 \/ j = thread.at
    BY <1>3, <1>4
  <2> QED BY <2>1 DEF Past
<1>6. \A u \in ThreadStates : u.at \in Nat
  BY DEF ThreadStates
<1>7. ASSUME NEW u, TogetherAt(thread, u) PROVE TogetherAt(new, u)
  <2>1. u.i = thread.i /\ SamePart(thread.at, u.at)
    BY <1>7 DEF TogetherAt
  <2>2. SamePart(thread.at + 1, u.at)
    <3>1. \A n \in 1 .. Len(Round) : Round[n] = "sync" => (n < thread.at + 1 <=> n < thread.at)
      BY <1>1, <1>2
    <3> QED BY <2>1, <3>1 DEF SamePart
  <2> QED BY <1>4, <2>1, <2>2 DEF TogetherAt
<1>8. ASSUME NEW u \in ThreadStates, TogetherAt(u, thread) PROVE TogetherAt(u, new)
  <2> SUFFICES ASSUME u.i < Rounds PROVE new.i = u.i /\ SamePart(u.at, new.at)
    BY DEF TogetherAt
  <2>1. thread.i = u.i /\ SamePart(u.at, thread.at)
    BY <1>8 DEF TogetherAt
  <2> QED BY <1>1, <1>2, <1>4, <1>6, <2>1, PartAfter
<1> QED BY <1>3, <1>4, <1>5, <1>7, <1>8 DEF Advanced

\* The tiles hold numbers.
LEMMA LoadsInt ==
  ASSUME IInv, phase = "running", NEW b \in gridDim, NEW t \in blockDim, NEW i \in Nat
  PROVE  LoadA(b, t, i) \in Int /\ LoadB(b, t, i) \in Int
<1>1. Typing /\ Running /\ shape \in Shapes /\ image \in Nat
  BY ThreadAt DEF Meeting
<1>2. /\ b.x \in Nat /\ b.y \in Nat /\ b.z \in Nat /\ t.x \in Nat /\ t.y \in Nat
      /\ Row(b, t) \in Nat /\ Col(b, t) \in Nat
  BY <1>1, Threads, Dims DEF T
<1>3. /\ w_base \in Nat /\ H_unroll \in Nat \ {0} /\ W_out \in Nat \ {0} /\ x_ind \in Nat
      /\ shape.K \in Nat \ {0} /\ shape.H \in Nat /\ shape.W \in Nat /\ TILE_WIDTH \in Nat
  BY <1>1, Dims
<1>4. i * TILE_WIDTH + t.x \in Nat /\ i * TILE_WIDTH + t.y \in Nat
  BY <1>2, <1>3, Times
<1>5. \A n, c, s \in Nat : Unrolled(n, c, s) \in Nat
  BY <1>1, UnrolledNat
<1>6. LoadA(b, t, i) \in Int
  <2>1. w_base * Row(b, t) \in Nat
    BY <1>2, <1>3, Times
  <2> QED BY <1>4, <2>1 DEF LoadA, Zero
<1>7. \A e \in DOMAIN X_unroll : X_unroll[e] \in Int
  <2>1. CASE LastImage = 0
    BY <1>1, <2>1 DEF Typing
  <2>2. CASE LastImage # 0
    <3>1. X_unroll = Unrolling
      BY <1>1, <2>2 DEF Running
    <3>2. ASSUME NEW e \in 0 .. w_base * H_unroll - 1 PROVE Unrolling[e] \in Int
      <4>1. e \in Nat
        OBVIOUS
      <4>2. e \div H_unroll \in Nat /\ e % H_unroll \in Nat
        BY <1>3, <4>1, DivMod
      <4> QED BY <1>1, <1>5, <4>2 DEF Unrolling
    <3> QED BY <3>1, <3>2 DEF Unrolling
  <2> QED BY <2>1, <2>2
<1>8. LoadB(b, t, i) \in Int
  <2> DEFINE c == i * TILE_WIDTH + t.y
             at == c * H_unroll + Col(b, t)
  <2>1. c \in Nat
    BY <1>4
  <2>2. LoadB(b, t, i) = IF c >= w_base THEN Zero
                         ELSE IF version # "fused" THEN IF at \in DOMAIN X_unroll THEN X_unroll[at] ELSE Junk
                         ELSE IF Col(b, t) < H_unroll THEN Unrolled(b.z, c, Col(b, t)) ELSE Zero
    BY DEF LoadB
  <2> HIDE DEF c, at
  <2>3. Unrolled(b.z, c, Col(b, t)) \in Int
    <3>1. Unrolled(b.z, c, Col(b, t)) \in Nat
      BY <1>2, <1>5, <2>1
    <3> QED BY <3>1
  <2>4. Zero \in Int /\ Junk \in Int
    BY DEF Zero, Junk
  <2> QED BY <1>7, <2>2, <2>3, <2>4
<1> QED BY <1>6, <1>8
LEMMA WrittenStays ==
  ASSUME Written, UNCHANGED <<version, shape, phase, image, Y>>
  PROVE  Written'
<1>1. \A e : Reference(e)' = Reference(e)
  BY Fixed
<1>2. InOutput' = InOutput /\ y_ind' = y_ind /\ LastImage' = LastImage
  BY Fixed
<1> QED BY <1>1, <1>2 DEF Written

LEMMA LoadStep ==
  ASSUME IInv, phase = "running", NEW b \in gridDim, NEW t \in blockDim, Load(b, t)
  PROVE  IInv'
<1> DEFINE thread == threads[<<b, t>>]
           new == [thread EXCEPT !.at = @ + 1]
<1>1. /\ version \in Versions /\ shape \in Shapes /\ Written
      /\ thread \in ThreadStates /\ thread.i \in Nat
      /\ Ads[b][t] \in Int /\ Bds[b][t] \in Int
      /\ PlacedAt(b, t, thread, Ads[b][t], Bds[b][t])
      /\ SummedAt(b, t, thread) /\ StoredAt(b, t, thread, Y)
      /\ \A u \in blockDim : TogetherAt(thread, threads[<<b, u>>]) /\ TogetherAt(threads[<<b, u>>], thread)
      /\ [Ads EXCEPT ![b][t] = Ads[b][t]] = Ads /\ [Bds EXCEPT ![b][t] = Bds[b][t]] = Bds
      /\ \A u \in blockDim : threads[<<b, u>>] \in ThreadStates
  BY ThreadAt DEF IInv, ThreadStates
<1>2. /\ UNCHANGED <<version, shape, phase, image, X_unroll, Y>>
      /\ threads' = [threads EXCEPT ![<<b, t>>] = Advanced(thread)]
      /\ thread.i < Rounds /\ Round[thread.at] \in {"loadA", "loadB"}
  BY DEF Load, At
<1> HIDE DEF thread
<1>3. thread.at \in 1 .. Len(Round) /\ thread.k = 0
  BY <1>1, <1>2 DEF PlacedAt
<1>4. /\ Advanced(thread) = new /\ new \in ThreadStates
      /\ new.i = thread.i /\ new.at = thread.at + 1 /\ new.k = thread.k /\ new.cValue = thread.cValue
      /\ new.at \in 1 .. Len(Round)
      /\ \A s : Past(new, s) <=> Past(thread, s) \/ s = Round[thread.at]
      /\ \A u : TogetherAt(thread, u) => TogetherAt(new, u)
      /\ \A u \in ThreadStates : TogetherAt(u, thread) => TogetherAt(u, new)
  BY <1>1, <1>2, <1>3, GoesOn
<1> HIDE DEF new
<1>5. Added(new) = Added(thread)
  BY <1>2, <1>4 DEF Added
<1>6. SummedAt(b, t, new) /\ StoredAt(b, t, new, Y')
  BY <1>1, <1>2, <1>4, <1>5 DEF SummedAt, StoredAt
<1>7. \A u \in blockDim \ {t} : TogetherAt(new, threads[<<b, u>>]) /\ TogetherAt(threads[<<b, u>>], new)
  BY <1>1, <1>4
<1>8. PICK a \in Int, x \in Int :
        /\ Ads' = [Ads EXCEPT ![b][t] = a] /\ Bds' = [Bds EXCEPT ![b][t] = x]
        /\ PlacedAt(b, t, new, a, x)
  <2>1. LoadA(b, t, thread.i) \in Int /\ LoadB(b, t, thread.i) \in Int
    BY <1>1, LoadsInt
  <2>2. CASE Round[thread.at] = "loadA"
    <3>1. Ads' = [Ads EXCEPT ![b][t] = LoadA(b, t, thread.i)] /\ Bds' = Bds
      BY <2>2 DEF Load, At, thread
    <3>2. PlacedAt(b, t, new, LoadA(b, t, thread.i), Bds[b][t])
      BY <1>1, <1>2, <1>3, <1>4, <2>2 DEF PlacedAt
    <3> QED BY <1>1, <2>1, <3>1, <3>2
  <2>3. CASE Round[thread.at] = "loadB"
    <3>1. Bds' = [Bds EXCEPT ![b][t] = LoadB(b, t, thread.i)] /\ Ads' = Ads
      BY <2>3 DEF Load, At, thread
    <3>2. PlacedAt(b, t, new, Ads[b][t], LoadB(b, t, thread.i))
      BY <1>1, <1>2, <1>3, <1>4, <2>3 DEF PlacedAt
    <3> QED BY <1>1, <2>1, <3>1, <3>2
  <2> QED BY <1>2, <2>2, <2>3
<1>9. Written' /\ DOMAIN Y \subseteq DOMAIN Y'
  BY <1>1, <1>2, WrittenStays
<1>10. threads' = [threads EXCEPT ![<<b, t>>] = new]
  BY <1>2, <1>4
<1> QED BY <1>2, <1>4, <1>6, <1>7, <1>8, <1>9, <1>10, OneStep

\* A thread that sums finds in the tiles what the others loaded in its round.
LEMMA TileValues ==
  ASSUME IInv, phase = "running", NEW b \in gridDim, NEW t \in blockDim, At(b, t, "mac"),
         NEW u \in blockDim
  PROVE  /\ version # "constmem" => Ads[b][u] = LoadA(b, u, threads[<<b, t>>].i)
         /\ Bds[b][u] = LoadB(b, u, threads[<<b, t>>].i)
<1> DEFINE thread == threads[<<b, t>>]
           other == threads[<<b, u>>]
<1>1. /\ version \in Versions /\ shape \in Shapes
      /\ PlacedAt(b, t, thread, Ads[b][t], Bds[b][t]) /\ PlacedAt(b, u, other, Ads[b][u], Bds[b][u])
      /\ TogetherAt(thread, other) /\ thread.i \in Nat
  BY ThreadAt DEF ThreadStates
<1>2. thread.i < Rounds /\ Round[thread.at] = "mac"
  BY DEF At
<1> HIDE DEF thread, other
<1>3. other.i = thread.i /\ SamePart(thread.at, other.at)
  BY <1>1, <1>2 DEF TogetherAt
<1>4. thread.at \in 1 .. Len(Round) /\ other.at \in 1 .. Len(Round)
  BY <1>1, <1>2, <1>3 DEF PlacedAt
<1>5. version # "simple"
  BY <1>1, <1>2, RoundsOf
<1>6. Past(other, "loadB") /\ (version # "constmem" => Past(other, "loadA"))
  BY <1>1, <1>2, <1>3, <1>4, <1>5, RoundOf DEF Past
<1> QED BY <1>1, <1>2, <1>3, <1>6 DEF PlacedAt, thread

\* What it adds is the next product of its output, if there is one.
LEMMA ProductIs ==
  ASSUME IInv, phase = "running", NEW b \in gridDim, NEW t \in blockDim, At(b, t, "mac"),
         NEW i, i = threads[<<b, t>>].i, NEW k \in 0 .. LastK, NEW c, c = i * T + k
  PROVE  /\ Product(b, t, i, k) \in Sums
         /\ Stores(b, t) =>
              Product(b, t, i, k) =
                IF c < w_base THEN <<<<Unrolled(image + b.z, c, Col(b, t)), Row(b, t) * w_base + c>>>>
                ELSE <<>>
<1> DEFINE u == [t EXCEPT !.x = k]
           v == [t EXCEPT !.y = k]
           r == Row(b, t)
           s == Col(b, t)
           a == IF version = "constmem" THEN r * w_base + i * TILE_WIDTH + k ELSE Ads[b][u]
           x == Bds[b][v]
<1>1. /\ version \in Versions /\ shape \in Shapes /\ image \in Nat /\ i \in Nat /\ i < Rounds
      /\ Running /\ Typing
  BY ThreadAt DEF ThreadStates, At, Meeting
<1>2. /\ T \in Nat \ {0} /\ w_base \in Nat \ {0} /\ H_unroll \in Nat \ {0} /\ b.x \in Nat /\ b.z \in Nat
      /\ r \in Nat /\ s \in Nat /\ k \in Nat /\ k \in 0 .. T - 1
      /\ version \notin {"simple", "fused"} => b.z = 0
  BY <1>1, Threads, Dims DEF T, LastK
<1>3. c \in Nat /\ i * T \in Nat
  BY <1>1, <1>2, Times
<1>4. u \in blockDim /\ v \in blockDim /\ u.x = k /\ u.y = t.y /\ v.x = t.x /\ v.y = k
  BY <1>2 DEF blockDim, T
<1>5. /\ version # "constmem" => Ads[b][u] = LoadA(b, u, i)
      /\ Bds[b][v] = LoadB(b, v, i)
  BY <1>4, TileValues
<1>6. Row(b, u) = r /\ Col(b, v) = s
  BY <1>4 DEF Row, Col
<1>7. Product(b, t, i, k) = IF c >= w_base \/ Zero \in {a, x} THEN <<>> ELSE <<<<x, a>>>>
  BY DEF Product, T
<1>8. a \in Int /\ x \in Int
  <2>1. r * w_base \in Nat
    BY <1>2, Times
  <2>2. r * w_base + i * TILE_WIDTH + k \in Int
    BY <1>2, <1>3, <2>1 DEF T
  <2>3. Ads[b][u] \in Int /\ Bds[b][v] \in Int
    BY <1>1, <1>4 DEF Running
  <2> QED BY <2>2, <2>3
<1> HIDE DEF a, x, u, v, r, s
<1>9. Product(b, t, i, k) \in Sums
  <2>1. <<x, a>> \in Int \X Int
    BY <1>8
  <2>2. \A p \in Int \X Int : <<p>> \in Seq(Int \X Int)
    OBVIOUS
  <2>3. <<>> \in Seq(Int \X Int)
    OBVIOUS
  <2> QED BY <1>7, <2>1, <2>2, <2>3 DEF Sums
<1>10. ASSUME Stores(b, t), c < w_base
       PROVE  a = r * w_base + c /\ x = Unrolled(image + b.z, c, s)
  <2>1. version # "simple"
    BY <1>1, RoundsOf
  <2>2. r < shape.M /\ s < H_unroll /\ s \in 0 .. H_unroll - 1
    BY <1>2, <1>10, <2>1 DEF Stores, r, s
  <2>3. a = r * w_base + c
    <3>1. CASE version = "constmem"
      <4> DEFINE P == r * w_base
                 Q == i * T
      <4>1. P \in Nat /\ Q \in Nat /\ c = Q + k /\ a = P + Q + k
        BY <1>2, <1>3, <3>1, Times DEF a, T
      <4> HIDE DEF P, Q
      <4>2. a = P + c
        BY <1>2, <4>1
      <4> QED BY <4>2 DEF P
    <3>2. CASE version # "constmem"
      <4>1. a = LoadA(b, u, i)
        BY <1>5, <3>2 DEF a
      <4>2. LoadA(b, u, i) = w_base * r + c
        BY <1>4, <1>6, <1>10, <2>2 DEF LoadA, T
      <4>3. w_base * r = r * w_base
        BY <1>2
      <4> QED BY <4>1, <4>2, <4>3
    <3> QED BY <3>1, <3>2
  <2>4. x = Unrolled(image + b.z, c, s)
    <3> DEFINE at == c * H_unroll + s
    <3>1. x = IF version # "fused" THEN IF at \in DOMAIN X_unroll THEN X_unroll[at] ELSE Junk
              ELSE Unrolled(b.z, c, s)
      <4>1. x = LoadB(b, v, i)
        BY <1>5 DEF x
      <4>2. ~(c >= w_base)
        BY <1>2, <1>3, <1>10
      <4> QED BY <1>4, <1>6, <2>2, <4>1, <4>2 DEF LoadB, T
    <3>2. CASE version = "fused"
      <4>1. image = 0 /\ image + b.z = b.z
        BY <1>1, <1>2, <3>2 DEF Typing, LastImage
      <4> QED BY <3>1, <3>2, <4>1
    <3>3. CASE version # "fused"
      <4>1. LastImage # 0 /\ b.z = 0 /\ image + b.z = image
        BY <1>1, <1>2, <2>1, <3>3, ConvolutionAssumption, Dims DEF LastImage
      <4>2. X_unroll = Unrolling
        BY <1>1, <4>1 DEF Running
      <4>3. at \in 0 .. w_base * H_unroll - 1 /\ at \div H_unroll = c /\ at % H_unroll = s
        <5>1. \A d \in 0 .. w_base - 1, e \in 0 .. H_unroll - 1 : d * H_unroll + e \in 0 .. w_base * H_unroll - 1
          BY <1>2, Below
        <5>2. c \in 0 .. w_base - 1
          BY <1>2, <1>3, <1>10
        <5>3. at \div H_unroll = c /\ at % H_unroll = s
          BY <1>2, <1>3, <2>2, Decomposed
        <5> QED BY <2>2, <5>1, <5>2, <5>3
      <4> HIDE DEF at
      <4>4. at \in DOMAIN X_unroll /\ X_unroll[at] = Unrolled(image, c, s)
        BY <4>2, <4>3 DEF Unrolling
      <4> QED BY <3>1, <3>3, <4>1, <4>4
    <3> QED BY <3>2, <3>3
  <2> QED BY <2>3, <2>4
<1>11. ASSUME Stores(b, t)
       PROVE  Product(b, t, i, k) =
                IF c < w_base THEN <<<<Unrolled(image + b.z, c, s), r * w_base + c>>>> ELSE <<>>
  <2>1. CASE c < w_base
    <3>1. a = r * w_base + c /\ x = Unrolled(image + b.z, c, s)
      BY <1>10, <1>11, <2>1
    <3>2. Unrolled(image + b.z, c, s) \in Nat
      <4>1. image + b.z \in Nat
        BY <1>1, <1>2
      <4> QED BY <1>1, <1>2, <1>3, <4>1, UnrolledNat
    <3>3. r * w_base + c \in Nat
      BY <1>2, <1>3, Times
    <3>4. Zero \notin {a, x}
      BY <3>1, <3>2, <3>3 DEF Zero
    <3>5. ~(c >= w_base)
      BY <1>2, <1>3, <2>1
    <3> QED BY <1>7, <2>1, <3>1, <3>4, <3>5
  <2>2. CASE ~(c < w_base)
    <3>1. c >= w_base
      BY <1>2, <1>3, <2>2
    <3> QED BY <1>7, <2>2, <3>1
  <2> QED BY <2>1, <2>2
<1> QED BY <1>9, <1>11 DEF r, s

LEMMA ProductsNext ==
  ASSUME shape \in Shapes, NEW n \in Nat, NEW m \in Nat, NEW s \in Nat, NEW c \in Nat
  PROVE  Products(n, m, s, c) \o <<<<Unrolled(n, c, s), m * w_base + c>>>> = Products(n, m, s, c + 1)
<1> DEFINE p(j) == <<Unrolled(n, j - 1, s), m * w_base + (j - 1)>>
           S == Int \X Int
           f == Products(n, m, s, c)
           g == <<p(c + 1)>>
           h == Products(n, m, s, c + 1)
<1>1. \A j \in Nat : p(j + 1) \in S
  <2> TAKE j \in Nat
  <2>1. j + 1 - 1 = j
    OBVIOUS
  <2>2. Unrolled(n, j, s) \in Nat
    BY UnrolledNat
  <2>3. m * w_base + j \in Nat
    BY Dims, Times
  <2> QED BY <2>1, <2>2, <2>3
<1>2. \A j \in Nat \ {0} : p(j) \in S
  <2> TAKE j \in Nat \ {0}
  <2>1. j - 1 \in Nat /\ (j - 1) + 1 = j
    OBVIOUS
  <2> QED BY <1>1, <2>1
<1>3. f = [j \in 1 .. c |-> p(j)] /\ h = [j \in 1 .. c + 1 |-> p(j)]
  BY DEF Products
<1>4. g = <<<<Unrolled(n, c, s), m * w_base + c>>>>
  BY DEF g
<1> HIDE DEF p, S, f, g, h
<1>5. f \in Seq(S) /\ Len(f) = c
  BY <1>2, <1>3
<1>6. g \in Seq(S) /\ Len(g) = 1 /\ g[1] = p(c + 1)
  BY <1>2 DEF g
<1>7. /\ f \o g \in Seq(S) /\ Len(f \o g) = c + 1
      /\ \A j \in 1 .. c + 1 : (f \o g)[j] = IF j <= c THEN f[j] ELSE g[j - c]
  <2> DEFINE e == 1
             l == c
  <2>1. e \in Nat /\ l \in Nat /\ Len(f) = l /\ Len(g) = e
    BY <1>5, <1>6
  <2> HIDE DEF e, l
  <2>2. /\ f \o g \in Seq(S) /\ Len(f \o g) = l + e
        /\ \A j \in 1 .. l + e : (f \o g)[j] = IF j <= l THEN f[j] ELSE g[j - l]
    BY <1>5, <1>6, <2>1, ConcatProperties
  <2> QED BY <2>2 DEF e, l
<1> DEFINE fg == f \o g
           D == 1 .. c + 1
<1>8. h \in [D -> S]
  BY <1>2, <1>3
<1>9. \A j \in D : fg[j] = h[j]
  <2> TAKE j \in D
  <2>1. CASE j <= c
    BY <1>3, <1>7, <2>1
  <2>2. CASE j = c + 1
    <3>1. j - c = 1 /\ ~(j <= c)
      BY <2>2
    <3>2. fg[j] = g[1]
      BY <1>7, <3>1
    <3> QED BY <1>3, <1>6, <2>2, <3>2
  <2>3. j <= c \/ j = c + 1
    OBVIOUS
  <2> HIDE DEF D, fg
  <2> QED BY <2>1, <2>2, <2>3
<1>10. fg \in Seq(S) /\ Len(fg) = c + 1
  BY <1>7
<1> HIDE DEF fg
<1>11. fg \in [D -> S]
  BY <1>10
<1> HIDE DEF D
<1>12. fg = h
  BY <1>8, <1>9, <1>11, SameFunction
<1> QED BY <1>4, <1>12 DEF fg, f, h

LEMMA MacStep ==
  ASSUME IInv, phase = "running", NEW b \in gridDim, NEW t \in blockDim, Mac(b, t)
  PROVE  IInv'
<1> DEFINE thread == threads[<<b, t>>]
           product == Product(b, t, thread.i, thread.k)
           added == [thread EXCEPT !.cValue = @ \o product]
           mid == [added EXCEPT !.k = 0]
           c == thread.i * T + thread.k
           n == image + b.z
           m == Row(b, t)
           s == Col(b, t)
<1>1. /\ version \in Versions /\ shape \in Shapes /\ image \in Nat /\ Written
      /\ thread \in ThreadStates
      /\ Ads[b][t] \in Int /\ Bds[b][t] \in Int
      /\ PlacedAt(b, t, thread, Ads[b][t], Bds[b][t])
      /\ SummedAt(b, t, thread) /\ StoredAt(b, t, thread, Y)
      /\ \A u \in blockDim : TogetherAt(thread, threads[<<b, u>>]) /\ TogetherAt(threads[<<b, u>>], thread)
      /\ [Ads EXCEPT ![b][t] = Ads[b][t]] = Ads /\ [Bds EXCEPT ![b][t] = Bds[b][t]] = Bds
      /\ \A u \in blockDim : threads[<<b, u>>] \in ThreadStates
  BY ThreadAt DEF IInv
<1>2. /\ UNCHANGED <<version, shape, phase, image, X_unroll, Ads, Bds, Y>>
      /\ threads' = [threads EXCEPT ![<<b, t>>] =
                       IF thread.k < LastK THEN [added EXCEPT !.k = @ + 1] ELSE Advanced(mid)]
      /\ thread.i < Rounds /\ Round[thread.at] = "mac" /\ At(b, t, "mac")
  BY DEF Mac, At
<1>3. thread.at \in 1 .. Len(Round) /\ version # "simple"
  <2>1. thread.i \in Nat
    BY <1>1 DEF ThreadStates
  <2> HIDE DEF thread
  <2>2. thread.at \in 1 .. Len(Round)
    BY <1>1, <1>2 DEF PlacedAt
  <2>3. version # "simple"
    BY <1>1, <1>2, <2>1, RoundsOf
  <2> QED BY <2>2, <2>3
<1>4. /\ thread.i \in Nat /\ thread.k \in 0 .. LastK /\ thread.k \in Nat /\ thread.cValue \in Sums
      /\ T \in Nat \ {0} /\ LastK = T - 1 /\ w_base \in Nat \ {0} /\ c \in Nat
      /\ n \in Nat /\ m \in Nat /\ s \in Nat
  <2>1. T \in Nat \ {0} /\ w_base \in Nat \ {0} /\ n \in Nat /\ m \in Nat /\ s \in Nat
    BY <1>1, Threads, Dims DEF T
  <2>2. thread.i \in Nat /\ thread.k \in 0 .. LastK /\ thread.cValue \in Sums
    BY <1>1 DEF ThreadStates
  <2>3. LastK = T - 1
    BY DEF LastK, T
  <2>4. thread.i * T \in Nat
    BY <2>1, <2>2, Times
  <2> QED BY <2>1, <2>2, <2>3, <2>4
<1>5. /\ product \in Sums
      /\ Stores(b, t) => product = IF c < w_base THEN <<<<Unrolled(n, c, s), m * w_base + c>>>> ELSE <<>>
  BY <1>2, <1>4, ProductIs, ZenonT(40)
<1>6. ~Past(thread, "mac")
  BY <1>1, <1>2, <1>3, RoundOf DEF Past
<1>7. thread.cValue \o product \in Sums
  BY <1>4, <1>5, ConcatProperties DEF Sums
<1> HIDE DEF product, thread, c, n, m, s
<1>7a. /\ added \in ThreadStates /\ added.i = thread.i /\ added.at = thread.at
      /\ added.k = thread.k /\ added.cValue = thread.cValue \o product
  BY <1>1, <1>7 DEF ThreadStates
<1> HIDE DEF added
<1>8. Added(thread) = IF c < w_base THEN c ELSE w_base
  BY <1>6 DEF Added, c
<1>9. ASSUME Stores(b, t)
      PROVE  thread.cValue \o product = Products(n, m, s, IF c < w_base THEN c + 1 ELSE w_base)
  <2>1. thread.cValue = Products(n, m, s, IF c < w_base THEN c ELSE w_base)
    <3>1. thread.i <= Rounds
      BY <1>1, <1>2, <1>4, RoundsOf
    <3> QED BY <1>1, <1>3, <1>8, <1>9, <3>1 DEF SummedAt, n, m, s
  <2>2. CASE c < w_base
    <3>1. thread.cValue = Products(n, m, s, c)
      BY <2>1, <2>2
    <3>2. product = <<<<Unrolled(n, c, s), m * w_base + c>>>>
      BY <1>5, <1>9, <2>2
    <3>3. Products(n, m, s, c) \o <<<<Unrolled(n, c, s), m * w_base + c>>>> = Products(n, m, s, c + 1)
      BY <1>1, <1>4, ProductsNext
    <3> QED BY <2>2, <3>1, <3>2, <3>3
  <2>3. CASE ~(c < w_base)
    <3>1. product = <<>>
      BY <1>5, <1>9, <2>3
    <3>2. thread.cValue \o <<>> = thread.cValue
      BY <1>4 DEF Sums
    <3> QED BY <2>1, <2>3, <3>1, <3>2
  <2> QED BY <2>2, <2>3
<1>10. PICK new \in ThreadStates :
         /\ threads' = [threads EXCEPT ![<<b, t>>] = new]
         /\ new.i = thread.i /\ new.at \in 1 .. Len(Round) /\ new.cValue = thread.cValue \o product
         /\ new.k # 0 => Round[new.at] = "mac"
         /\ Past(new, "loadA") <=> Past(thread, "loadA")
         /\ Past(new, "loadB") <=> Past(thread, "loadB")
         /\ Added(new) = IF c < w_base THEN c + 1 ELSE w_base
         /\ \A u \in blockDim \ {t} : TogetherAt(new, threads[<<b, u>>]) /\ TogetherAt(threads[<<b, u>>], new)
  <2>1. CASE thread.k < LastK
    <3> DEFINE new == [added EXCEPT !.k = @ + 1]
    <3>1. /\ new \in ThreadStates /\ new.i = thread.i /\ new.at = thread.at /\ new.k = thread.k + 1
          /\ new.cValue = thread.cValue \o product
      <4>1. thread.k + 1 \in 0 .. LastK
        BY <1>4, <2>1
      <4> QED BY <1>7a, <4>1 DEF ThreadStates
    <3> HIDE DEF new
    <3>2. \A st : Past(new, st) <=> Past(thread, st)
      BY <3>1 DEF Past
    <3>3. Added(new) = IF c < w_base THEN c + 1 ELSE w_base
      <4> DEFINE P == thread.i * T
      <4>1. P \in Nat /\ c = P + thread.k
        BY <1>4, Times DEF c
      <4>2. Added(new) = IF P + new.k < w_base THEN P + new.k ELSE w_base
        BY <1>6, <3>1, <3>2 DEF Added
      <4> HIDE DEF P
      <4>3. P + new.k = c + 1
        BY <1>4, <3>1, <4>1
      <4> QED BY <1>4, <4>2, <4>3
    <3>4. \A u \in blockDim : TogetherAt(new, threads[<<b, u>>]) /\ TogetherAt(threads[<<b, u>>], new)
      BY <1>1, <3>1 DEF TogetherAt
    <3>5. threads' = [threads EXCEPT ![<<b, t>>] = new]
      BY <1>2, <2>1 DEF new
    <3>6. Round[new.at] = "mac" /\ new.at \in 1 .. Len(Round)
      BY <1>2, <1>3, <3>1
    <3> QED BY <3>1, <3>2, <3>3, <3>4, <3>5, <3>6
  <2>2. CASE ~(thread.k < LastK)
    <3> DEFINE new == [mid EXCEPT !.at = @ + 1]
    <3>1. /\ mid \in ThreadStates /\ mid.i = thread.i /\ mid.at = thread.at /\ mid.k = 0
          /\ mid.cValue = thread.cValue \o product
      <4>1. 0 \in 0 .. LastK
        BY <1>4
      <4> QED BY <1>7a, <4>1 DEF ThreadStates
    <3> HIDE DEF mid
    <3>2. /\ Advanced(mid) = new /\ new \in ThreadStates
          /\ new.i = mid.i /\ new.at = mid.at + 1 /\ new.k = mid.k /\ new.cValue = mid.cValue
          /\ new.at \in 1 .. Len(Round)
          /\ \A st : Past(new, st) <=> Past(mid, st) \/ st = Round[mid.at]
          /\ \A u : TogetherAt(mid, u) => TogetherAt(new, u)
          /\ \A u \in ThreadStates : TogetherAt(u, mid) => TogetherAt(u, new)
      <4>1. mid.i < Rounds /\ mid.at \in 1 .. Len(Round) /\ Round[mid.at] # "sync"
        BY <1>1, <1>2, <1>3, <3>1
      <4>2. mid \in ThreadStates /\ new = [mid EXCEPT !.at = @ + 1]
        BY <3>1
      <4> HIDE DEF new
      <4> QED BY <1>1, <4>1, <4>2, GoesOn
    <3> HIDE DEF new
    <3>3. \A st : Past(new, st) <=> Past(thread, st) \/ st = "mac"
      BY <1>2, <3>1, <3>2, ZenonT(40) DEF Past
    <3>4. Added(new) = IF c < w_base THEN c + 1 ELSE w_base
      <4> DEFINE P == thread.i * T
      <4>1. P \in Nat /\ c = P + thread.k
        BY <1>4, Times DEF c
      <4>2. Added(new) = IF P + T < w_base THEN P + T ELSE w_base
        BY <3>1, <3>2, <3>3 DEF Added
      <4> HIDE DEF P
      <4>3. P + T = c + 1
        BY <1>4, <2>2, <4>1
      <4> QED BY <1>4, <4>2, <4>3
    <3>5. \A u \in blockDim : TogetherAt(mid, threads[<<b, u>>]) /\ TogetherAt(threads[<<b, u>>], mid)
      BY <1>1, <3>1 DEF TogetherAt
    <3>6. \A u \in blockDim : TogetherAt(new, threads[<<b, u>>]) /\ TogetherAt(threads[<<b, u>>], new)
      BY <1>1, <3>2, <3>5
    <3>7. threads' = [threads EXCEPT ![<<b, t>>] = new]
      BY <1>2, <2>2, <3>2
    <3> QED BY <3>1, <3>2, <3>3, <3>4, <3>6, <3>7
  <2> QED BY <2>1, <2>2
<1>11. PlacedAt(b, t, new, Ads[b][t], Bds[b][t])
  BY <1>1, <1>2, <1>10 DEF PlacedAt
<1>12. SummedAt(b, t, new)
  BY <1>9, <1>10 DEF SummedAt, n, m, s
<1>13. StoredAt(b, t, new, Y')
  BY <1>1, <1>2, <1>10 DEF StoredAt
<1>14. Written' /\ DOMAIN Y \subseteq DOMAIN Y'
  BY <1>1, <1>2, WrittenStays
<1>15. Ads' = [Ads EXCEPT ![b][t] = Ads[b][t]] /\ Bds' = [Bds EXCEPT ![b][t] = Bds[b][t]]
  BY <1>1, <1>2
<1> QED BY <1>1, <1>2, <1>10, <1>11, <1>12, <1>13, <1>14, <1>15, OneStep

\* The outputs of the images below k are the indices below k images.
LEMMA ElementIn ==
  ASSUME shape \in Shapes, NEW k \in Nat, NEW n \in 0 .. k - 1, NEW m \in 0 .. shape.M - 1,
         NEW s \in 0 .. H_unroll - 1
  PROVE  Element(n, m, s) \in 0 .. k * y_ind - 1
<1> DEFINE N == y_ind
           P == n * N
           Q == m * H_unroll
           r == Q + s
<1>1. N \in Nat \ {0} /\ N = shape.M * H_unroll /\ shape.M \in Nat /\ H_unroll \in Nat \ {0}
  BY Dims DEF y_ind
<1>2. r \in 0 .. N - 1
  BY <1>1, Below
<1>3. P \in Nat /\ Q \in Nat /\ s \in Nat
  BY <1>1, Times
<1>4. P + r \in 0 .. k * N - 1
  <2> HIDE DEF N, r
  <2>1. \A a \in 0 .. k - 1, e \in 0 .. N - 1 : a * N + e \in 0 .. k * N - 1
    BY <1>1, Below
  <2> QED BY <1>2, <2>1
<1>5. Element(n, m, s) = P + Q + s
  BY DEF Element
<1> HIDE DEF P, Q, N
<1>6. P + Q + s = P + r
  BY <1>3
<1> QED BY <1>4, <1>5, <1>6 DEF N

\* A thread that stores has the reference's products.
LEMMA StoresReference ==
  ASSUME IInv, phase = "running", NEW b \in gridDim, NEW t \in blockDim, Stores(b, t),
         threads[<<b, t>>].i = Rounds
  PROVE  Output(b, t) = Reference(OutputIndex(b, t))
<1> DEFINE thread == threads[<<b, t>>]
           n == ImageOf(b)
           m == FeatureOf(b, t)
           s == PlaceOf(b, t)
<1>1. /\ version \in Versions /\ shape \in Shapes /\ image \in Nat
      /\ PlacedAt(b, t, thread, Ads[b][t], Bds[b][t]) /\ SummedAt(b, t, thread)
  BY ThreadAt
<1>2. /\ Rounds \in Nat /\ w_base \in Nat \ {0} /\ T \in Nat \ {0}
      /\ version # "simple" => Rounds * T >= w_base
  BY <1>1, RoundsOf
<1>3. /\ n \in Nat /\ m \in 0 .. shape.M - 1 /\ s \in 0 .. H_unroll - 1
      /\ OutputIndex(b, t) = Element(n, m, s)
  BY <1>1, OutputPlace
<1>4. Reference(OutputIndex(b, t)) = Products(n, m, s, w_base)
  BY <1>1, <1>3, ReferenceAt
<1>5. CASE version = "simple"
  <2>1. W_out \in Nat \ {0} /\ RowOut(b, t) \in Nat /\ ColOut(b, t) \in 0 .. W_out - 1
    BY <1>1, <1>5, Threads, Dims DEF Stores
  <2>2. s \div W_out = RowOut(b, t) /\ s % W_out = ColOut(b, t)
    <3>1. s = RowOut(b, t) * W_out + ColOut(b, t)
      BY <1>5 DEF PlaceOf
    <3> HIDE DEF s
    <3> QED BY <2>1, <3>1, Decomposed
  <2>3. n = b.x /\ m = b.y
    BY <1>5 DEF ImageOf, FeatureOf
  <2>4. m \in Nat /\ s \in Nat
    <3> HIDE DEF m, s
    <3> QED BY <1>3
  <2>5. Sum(n, m, s \div W_out, s % W_out) = Products(n, m, s, w_base)
    <3> HIDE DEF n, m, s
    <3> QED BY <1>1, <1>3, <2>4, SumOfProducts
  <2> QED BY <1>4, <1>5, <2>2, <2>3, <2>5 DEF Output
<1>6. CASE version # "simple"
  <2> HIDE DEF thread
  <2>1. thread.at = 1 /\ thread.i = Rounds
    <3>1. thread.i = Rounds
      BY DEF thread
    <3> QED BY <1>1, <1>2, <3>1 DEF PlacedAt
  <2>2. thread.k = 0
    BY <1>1, <1>2, <2>1 DEF PlacedAt
  <2>3. ~Past(thread, "mac")
    BY <2>1 DEF Past
  <2>4. Added(thread) = w_base
    <3> DEFINE e == Rounds * T
    <3>1. e \in Nat /\ e >= w_base
      BY <1>2, <1>6, Times
    <3>2. Added(thread) = IF e + 0 < w_base THEN e + 0 ELSE w_base
      BY <2>1, <2>2, <2>3 DEF Added
    <3> HIDE DEF e
    <3> QED BY <1>2, <3>1, <3>2
  <2>5. n = image + b.z /\ m = Row(b, t) /\ s = Col(b, t)
    BY <1>6 DEF ImageOf, FeatureOf, PlaceOf
  <2>6. thread.i <= Rounds
    BY <1>2, <2>1
  <2>7. thread.cValue = Products(n, m, s, w_base)
    BY <1>1, <1>6, <2>4, <2>5, <2>6 DEF SummedAt
  <2> QED BY <1>4, <1>6, <2>7 DEF Output, thread
<1> QED BY <1>5, <1>6

LEMMA StoreStep ==
  ASSUME IInv, phase = "running", NEW b \in gridDim, NEW t \in blockDim, Store(b, t)
  PROVE  IInv'
<1> DEFINE thread == threads[<<b, t>>]
           new == [thread EXCEPT !.i = @ + 1, !.cValue = <<>>]
           o == OutputIndex(b, t)
<1>1. /\ version \in Versions /\ shape \in Shapes /\ image \in Nat /\ Written /\ Typing
      /\ thread \in ThreadStates
      /\ Ads[b][t] \in Int /\ Bds[b][t] \in Int
      /\ PlacedAt(b, t, thread, Ads[b][t], Bds[b][t])
      /\ \A u \in blockDim : TogetherAt(threads[<<b, u>>], thread)
      /\ [Ads EXCEPT ![b][t] = Ads[b][t]] = Ads /\ [Bds EXCEPT ![b][t] = Bds[b][t]] = Bds
  BY ThreadAt DEF IInv
<1>2. /\ UNCHANGED <<version, shape, phase, image, X_unroll, Ads, Bds>>
      /\ thread.i = Rounds
      /\ Y' = IF ~Stores(b, t) THEN Y
              ELSE [e \in DOMAIN Y \cup {o} |-> IF e = o THEN Output(b, t) ELSE Y[e]]
  BY DEF Store
<1>3. threads' = [threads EXCEPT ![<<b, t>>] = new]
  <2>1. threads' = [threads EXCEPT ![<<b, t>>].i = @ + 1, ![<<b, t>>].cValue = <<>>]
    BY DEF Store
  <2>2. threads \in [gridDim \X blockDim -> ThreadStates]
    BY ThreadAt DEF Meeting, Running
  <2> QED BY <2>1, <2>2
<1>4. Rounds \in Nat
  BY <1>1, RoundsOf
<1> HIDE DEF thread
<1>5. /\ new \in ThreadStates /\ new.i = Rounds + 1 /\ new.at = thread.at /\ new.k = thread.k
      /\ new.cValue = <<>>
  <2>1. <<>> \in Sums
    BY DEF Sums
  <2>2. thread.i + 1 \in 0 .. Rounds + 1
    BY <1>2, <1>4
  <2> QED BY <1>1, <1>2, <2>1, <2>2 DEF ThreadStates
<1> HIDE DEF new
<1>6. ~(new.i < Rounds) /\ ~(thread.i < Rounds) /\ new.i > Rounds /\ ~(new.i <= Rounds)
  BY <1>2, <1>4, <1>5
<1>7. PlacedAt(b, t, new, Ads[b][t], Bds[b][t])
  BY <1>1, <1>5, <1>6 DEF PlacedAt
<1>8. SummedAt(b, t, new)
  BY <1>6 DEF SummedAt
<1>9. StoredAt(b, t, new, Y') /\ DOMAIN Y \subseteq DOMAIN Y'
  BY <1>2 DEF StoredAt
<1>10. \A u \in blockDim : TogetherAt(new, threads[<<b, u>>]) /\ TogetherAt(threads[<<b, u>>], new)
  BY <1>1, <1>2, <1>6 DEF TogetherAt
<1>11. Written'
  <2>1. CASE ~Stores(b, t)
    BY <1>1, <1>2, <2>1, WrittenStays
  <2>2. CASE Stores(b, t)
    <3>1. Y' = [e \in DOMAIN Y \cup {o} |-> IF e = o THEN Output(b, t) ELSE Y[e]]
      BY <1>2, <2>2
    <3>2. Output(b, t) = Reference(o)
      BY <1>2, <2>2, StoresReference DEF thread
    <3>3. LastImage = 0 => o \in InOutput
      <4> SUFFICES ASSUME LastImage = 0 PROVE o \in InOutput
        OBVIOUS
      <4>1. /\ ImageOf(b) \in Nat /\ FeatureOf(b, t) \in 0 .. shape.M - 1
            /\ PlaceOf(b, t) \in 0 .. H_unroll - 1
            /\ o = Element(ImageOf(b), FeatureOf(b, t), PlaceOf(b, t))
        BY <1>1, <2>2, OutputPlace
      <4>2. ImageOf(b) \in 0 .. shape.B - 1
        <5>1. image = 0 /\ version \in {"simple", "fused"}
          BY <1>1, ConvolutionAssumption, Dims DEF Typing, LastImage
        <5>2. b.z \in Nat
          BY <1>1, Threads
        <5> QED BY <1>1, <5>1, <5>2, Threads DEF ImageOf
      <4>3. shape.B \in Nat
        BY <1>1, Dims
      <4> HIDE DEF o
      <4> QED BY <1>1, <4>1, <4>2, <4>3, ElementIn DEF InOutput
    <3>4. InOutput' = InOutput /\ y_ind' = y_ind /\ LastImage' = LastImage
          /\ \A e : Reference(e)' = Reference(e)
      BY <1>2, Fixed
    <3> HIDE DEF o
    <3> QED BY <1>1, <1>2, <3>1, <3>2, <3>3, <3>4 DEF Written
  <2> QED BY <2>1, <2>2
<1>12. Ads' = [Ads EXCEPT ![b][t] = Ads[b][t]] /\ Bds' = [Bds EXCEPT ![b][t] = Bds[b][t]]
  BY <1>1, <1>2
<1> QED BY <1>1, <1>2, <1>3, <1>5, <1>7, <1>8, <1>9, <1>10, <1>11, <1>12, OneStep

\* A thread that crosses a barrier, which may end its round.
LEMMA Crosses ==
  ASSUME version \in Versions, shape \in Shapes, NEW b, NEW t, NEW a, NEW x, NEW y,
         NEW thread \in ThreadStates, thread.i < Rounds, Round[thread.at] = "sync",
         PlacedAt(b, t, thread, a, x), SummedAt(b, t, thread),
         NEW new, new = Advanced(thread)
  PROVE  /\ new \in ThreadStates
         /\ new.i = IF thread.at = Len(Round) THEN thread.i + 1 ELSE thread.i
         /\ new.at = IF thread.at = Len(Round) THEN 1 ELSE thread.at + 1
         /\ PlacedAt(b, t, new, a, x) /\ SummedAt(b, t, new) /\ StoredAt(b, t, new, y)
<1>1. /\ Rounds \in Nat /\ version # "simple" /\ thread.i \in Nat /\ T \in Nat \ {0}
      /\ w_base \in Nat \ {0}
  BY RoundsOf DEF ThreadStates
<1>2. thread.at \in 1 .. Len(Round) /\ thread.k = 0
  BY DEF PlacedAt
<1>3. /\ Len(Round) \in Nat /\ Len(Round) > 0
      /\ \E j \in 1 .. Len(Round) - 1 : Round[j] = "mac"
  BY <1>1, RoundOf
<1>4. CASE thread.at = Len(Round)
  <2>1. new = [thread EXCEPT !.at = 1, !.i = @ + 1]
    BY <1>4 DEF Advanced
  <2>2. /\ new \in ThreadStates /\ new.i = thread.i + 1 /\ new.at = 1 /\ new.k = 0
        /\ new.cValue = thread.cValue
    <3> DEFINE mid == [thread EXCEPT !.at = 1]
    <3>1. /\ mid \in ThreadStates /\ mid.i = thread.i /\ mid.at = 1 /\ mid.k = 0
          /\ mid.cValue = thread.cValue
      BY <1>2 DEF ThreadStates
    <3>2. new = [mid EXCEPT !.i = @ + 1]
      BY <2>1
    <3>3. thread.i + 1 \in 0 .. Rounds + 1
      BY <1>1
    <3> HIDE DEF mid
    <3> QED BY <3>1, <3>2, <3>3 DEF ThreadStates
  <2>3. \A st : ~Past(new, st)
    BY <2>2 DEF Past
  <2>4. PlacedAt(b, t, new, a, x)
    BY <1>3, <2>2, <2>3 DEF PlacedAt
  <2>5. Added(new) = Added(thread)
    <3>1. Past(thread, "mac")
      BY <1>3, <1>4 DEF Past
    <3>2. (thread.i + 1) * T + 0 = thread.i * T + T
      BY <1>1
    <3> DEFINE P == (thread.i + 1) * T + 0
               Q == thread.i * T + T
    <3>3. Added(new) = IF P < w_base THEN P ELSE w_base
      BY <2>2, <2>3 DEF Added
    <3>4. Added(thread) = IF Q < w_base THEN Q ELSE w_base
      BY <3>1 DEF Added
    <3> QED BY <3>2, <3>3, <3>4
  <2>6. SummedAt(b, t, new)
    <3>1. thread.i <= Rounds
      BY <1>1
    <3> QED BY <2>2, <2>5, <3>1 DEF SummedAt
  <2>7. StoredAt(b, t, new, y)
    BY <1>1, <2>2 DEF StoredAt
  <2> QED BY <1>4, <2>2, <2>4, <2>6, <2>7
<1>5. CASE thread.at # Len(Round)
  <2>1. new = [thread EXCEPT !.at = @ + 1]
    BY <1>5 DEF Advanced
  <2>2. /\ new \in ThreadStates /\ new.i = thread.i /\ new.at = thread.at + 1 /\ new.k = 0
        /\ new.cValue = thread.cValue /\ new.at \in 1 .. Len(Round)
    BY <1>1, <1>2, <1>3, <1>5, <2>1, SMTT(30) DEF ThreadStates
  <2>3. \A st : st # "sync" => (Past(new, st) <=> Past(thread, st))
    <3>1. \A j : j \in 1 .. new.at - 1 <=> j \in 1 .. thread.at - 1 \/ j = thread.at
      BY <1>2, <2>2
    <3> QED BY <3>1 DEF Past
  <2>4. PlacedAt(b, t, new, a, x)
    BY <2>2, <2>3 DEF PlacedAt
  <2>5. Added(new) = Added(thread)
    BY <1>2, <2>2, <2>3 DEF Added
  <2>6. SummedAt(b, t, new) /\ StoredAt(b, t, new, y)
    BY <1>1, <2>2, <2>5 DEF SummedAt, StoredAt
  <2> QED BY <1>5, <2>2, <2>4, <2>6
<1> QED BY <1>4, <1>5

LEMMA SyncStep ==
  ASSUME IInv, phase = "running", NEW b \in gridDim, Syncthreads(b)
  PROVE  IInv'
<1>1. Typing /\ Meeting /\ Running /\ Written
  BY DEF IInv, Meeting
<1>2. version \in Versions /\ shape \in Shapes
  BY <1>1 DEF Typing
<1>3. /\ UNCHANGED <<version, shape, phase, image, X_unroll, Ads, Bds, Y>>
      /\ \A t \in blockDim : threads[<<b, t>>].i < Rounds /\ Round[threads[<<b, t>>].at] = "sync"
      /\ threads' = [bt \in DOMAIN threads |->
                        IF bt[1] = b THEN Advanced(threads[bt]) ELSE threads[bt]]
  BY DEF Syncthreads, At
<1>4. Typing' /\ Written'
  BY <1>1, <1>3, Fixed, WrittenStays DEF Typing
<1>5. gridDim' = gridDim /\ blockDim' = blockDim
  BY <1>3, Fixed DEF blockDim
<1>6. /\ DOMAIN threads = gridDim \X blockDim
      /\ \A c \in gridDim, u \in blockDim :
           threads'[<<c, u>>] = IF c = b THEN Advanced(threads[<<c, u>>]) ELSE threads[<<c, u>>]
  BY <1>1, <1>3 DEF Running
<1>7. ASSUME NEW c \in gridDim, NEW u \in blockDim
      PROVE  /\ threads[<<c, u>>] \in ThreadStates
             /\ PlacedAt(c, u, threads[<<c, u>>], Ads[c][u], Bds[c][u])
             /\ SummedAt(c, u, threads[<<c, u>>]) /\ StoredAt(c, u, threads[<<c, u>>], Y)
             /\ \A w \in blockDim : TogetherAt(threads[<<c, u>>], threads[<<c, w>>])
  BY <1>1 DEF Meeting, Running, Placed, Summed, Stored, Together
<1>8. ASSUME NEW t \in blockDim
      PROVE  /\ threads'[<<b, t>>] \in ThreadStates
             /\ threads'[<<b, t>>].i = IF threads[<<b, t>>].at = Len(Round) THEN threads[<<b, t>>].i + 1
                                       ELSE threads[<<b, t>>].i
             /\ threads'[<<b, t>>].at = IF threads[<<b, t>>].at = Len(Round) THEN 1
                                        ELSE threads[<<b, t>>].at + 1
             /\ PlacedAt(b, t, threads'[<<b, t>>], Ads[b][t], Bds[b][t])
             /\ SummedAt(b, t, threads'[<<b, t>>]) /\ StoredAt(b, t, threads'[<<b, t>>], Y)
  <2>1. threads'[<<b, t>>] = Advanced(threads[<<b, t>>])
    BY <1>6
  <2> DEFINE thread == threads[<<b, t>>]
             new == threads'[<<b, t>>]
  <2>2. /\ thread \in ThreadStates /\ thread.i < Rounds /\ Round[thread.at] = "sync"
        /\ PlacedAt(b, t, thread, Ads[b][t], Bds[b][t]) /\ SummedAt(b, t, thread)
        /\ new = Advanced(thread)
    BY <1>3, <1>7, <2>1
  <2> HIDE DEF thread, new
  <2>3. /\ new \in ThreadStates
        /\ new.i = IF thread.at = Len(Round) THEN thread.i + 1 ELSE thread.i
        /\ new.at = IF thread.at = Len(Round) THEN 1 ELSE thread.at + 1
        /\ PlacedAt(b, t, new, Ads[b][t], Bds[b][t]) /\ SummedAt(b, t, new) /\ StoredAt(b, t, new, Y)
    BY <1>2, <2>2, Crosses
  <2> QED BY <2>3 DEF thread, new
<1>9. ASSUME NEW c \in gridDim, NEW u \in blockDim
      PROVE  Placed(c, u)' /\ Summed(c, u)' /\ Stored(c, u)' /\ threads'[<<c, u>>] \in ThreadStates
  <2>1. /\ PlacedAt(c, u, threads'[<<c, u>>], Ads[c][u], Bds[c][u])
        /\ SummedAt(c, u, threads'[<<c, u>>]) /\ StoredAt(c, u, threads'[<<c, u>>], Y)
        /\ threads'[<<c, u>>] \in ThreadStates
    <3>1. CASE c = b
      BY <1>8, <3>1
    <3>2. CASE c # b
      BY <1>6, <1>7, <3>2
    <3> QED BY <3>1, <3>2
  <2> QED BY <1>3, <2>1, Primes
<1>10. ASSUME NEW c \in gridDim, NEW u \in blockDim, NEW w \in blockDim
       PROVE  Together(c, u, w)'
  <2>1. TogetherAt(threads'[<<c, u>>], threads'[<<c, w>>])
    <3>1. TogetherAt(threads[<<c, u>>], threads[<<c, w>>])
      BY <1>7
    <3>2. CASE c = b
      <4> DEFINE thread == threads[<<b, u>>]
                 other == threads[<<b, w>>]
      <4>1. Rounds \in Nat /\ version # "simple" /\ thread.i \in Nat
        BY <1>2, <1>3, <1>7, RoundsOf DEF ThreadStates
      <4>2. thread.at \in 1 .. Len(Round) /\ other.at \in 1 .. Len(Round)
        BY <1>3, <1>7 DEF PlacedAt
      <4>3. Len(Round) \in Nat
        BY <1>2, <4>1, RoundOf
      <4>4. other.i = thread.i /\ SamePart(thread.at, other.at)
        BY <1>3, <3>1, <3>2 DEF TogetherAt
      <4>5. Round[thread.at] = "sync" /\ Round[other.at] = "sync"
        BY <1>3
      <4>6. other.at = thread.at
        <5> HIDE DEF thread, other
        <5> QED BY <4>2, <4>3, <4>4, <4>5, SameBarrier
      <4>7. threads'[<<b, w>>].i = threads'[<<b, u>>].i /\ threads'[<<b, w>>].at = threads'[<<b, u>>].at
        BY <1>8, <4>4, <4>6
      <4> QED BY <3>2, <4>7 DEF TogetherAt, SamePart
    <3>3. CASE c # b
      BY <1>6, <3>1, <3>3
    <3> QED BY <3>2, <3>3
  <2> QED BY <1>3, <2>1, Primes
<1>11. Running'
  <2>1. threads' \in [gridDim \X blockDim -> ThreadStates]
    <3>1. ASSUME NEW bt \in gridDim \X blockDim PROVE threads'[bt] \in ThreadStates
      <4>1. PICK c \in gridDim, u \in blockDim : bt = <<c, u>>
        OBVIOUS
      <4> QED BY <1>9, <4>1
    <3>2. threads' = [bt \in gridDim \X blockDim |-> threads'[bt]]
      <4>1. threads' = [bt \in gridDim \X blockDim |->
                           IF bt[1] = b THEN Advanced(threads[bt]) ELSE threads[bt]]
        BY <1>3, <1>6
      <4> QED BY <4>1
    <3> QED BY <3>1, <3>2
  <2>2. LastImage' # 0 => X_unroll' = Unrolling'
    <3>1. Unrolling' = Unrolling
      BY <1>3, Fixed DEF Unrolling
    <3> QED BY <1>1, <1>3, <3>1, Fixed DEF Running
  <2> QED BY <1>1, <1>3, <1>5, <2>1, <2>2, Fixed DEF Running
<1>12. Meeting'
  BY <1>5, <1>9, <1>10, <1>11 DEF Meeting
<1> QED BY <1>3, <1>4, <1>12 DEF IInv

-----------------------------------------------------------------------------
(* Steps of the host *)

LEMMA LaunchStep ==
  ASSUME IInv, Launch
  PROVE  IInv'
<1> DEFINE start == [i |-> 0, at |-> 1, k |-> 0, cValue |-> <<>>]
<1>1. /\ Typing /\ Written /\ version \in Versions /\ shape \in Shapes /\ image \in Nat
  BY Dims DEF IInv, Typing, LastImage
<1>2. /\ phase = "launch" /\ phase' = "running" /\ UNCHANGED <<version, shape, image, Y>>
      /\ X_unroll' = IF LastImage = 0 THEN X_unroll ELSE Unrolling
      /\ threads' = [bt \in gridDim \X blockDim |-> start]
      /\ Ads' = [b \in gridDim |-> [t \in blockDim |-> Junk]]
      /\ Bds' = [b \in gridDim |-> [t \in blockDim |-> Junk]]
  BY DEF Launch, Rest, Unrolling
<1>3. /\ gridDim' = gridDim /\ blockDim' = blockDim /\ Round' = Round /\ Rounds' = Rounds
      /\ LastImage' = LastImage /\ InOutput' = InOutput /\ y_ind' = y_ind /\ w_base' = w_base
      /\ ThreadStates' = ThreadStates /\ \A e : Reference(e)' = Reference(e)
  BY <1>2, Fixed DEF blockDim
<1>4. Typing' /\ Written'
  BY <1>1, <1>2, <1>3 DEF Typing, Written
<1>5. /\ Rounds \in Nat /\ w_base \in Nat \ {0} /\ T \in Nat \ {0}
      /\ Rounds > 0 => 1 \in 1 .. Len(Round)
  <2>1. Rounds \in Nat /\ (version = "simple" <=> Rounds = 0) /\ w_base \in Nat \ {0} /\ T \in Nat \ {0}
    BY <1>1, RoundsOf
  <2>2. version # "simple" => 1 \in 1 .. Len(Round)
    BY <1>1, RoundOf
  <2> QED BY <2>1, <2>2
<1>6. start \in ThreadStates /\ start.i = 0 /\ start.at = 1 /\ start.k = 0 /\ start.cValue = <<>>
  <2>1. 0 \in 0 .. Rounds + 1 /\ 0 \in 0 .. LastK /\ 1 \in Nat \ {0}
    BY <1>5 DEF LastK, T
  <2>2. <<>> \in Sums
    BY DEF Sums
  <2> QED BY <2>1, <2>2 DEF ThreadStates
<1> HIDE DEF start
<1>7. Running'
  <2>1. threads' \in [gridDim \X blockDim -> ThreadStates]
    BY <1>2, <1>6
  <2>2. Ads' \in [gridDim -> [blockDim -> Int]] /\ Bds' \in [gridDim -> [blockDim -> Int]]
    BY <1>2 DEF Junk
  <2>3. LastImage' # 0 => X_unroll' = Unrolling'
    <3>1. Unrolling' = Unrolling
      BY <1>2, Fixed DEF Unrolling
    <3> QED BY <1>2, <1>3, <3>1
  <2> QED BY <1>3, <2>1, <2>2, <2>3 DEF Running
<1>8. ASSUME NEW b \in gridDim, NEW t \in blockDim
      PROVE  Placed(b, t)' /\ Summed(b, t)' /\ Stored(b, t)'
  <2>1. threads'[<<b, t>>] = start
    BY <1>2
  <2>2. \A st : ~Past(start, st) /\ ~Past(start, st)'
    BY <1>6 DEF Past
  <2>3. Placed(b, t)'
    BY <1>3, <1>5, <1>6, <2>1, <2>2 DEF Placed, PlacedAt, Past
  <2>4. Added(start) = 0
    <3>1. 0 * T + 0 = 0 /\ 0 < w_base
      BY <1>5
    <3> QED BY <1>6, <2>2, <3>1 DEF Added
  <2>5. Added(threads[<<b, t>>])' = 0
    <3>1. Added(threads[<<b, t>>])' = Added(start)
      BY <1>2, <2>1, Fixed DEF Added, Past
    <3> QED BY <2>4, <3>1
  <2>6. Products(image + b.z, Row(b, t), Col(b, t), Added(threads[<<b, t>>]))' = <<>>
    BY <2>5 DEF Products
  <2>7. Summed(b, t)'
    BY <1>6, <2>1, <2>6 DEF Summed, SummedAt
  <2>8. Stored(b, t)'
    BY <1>3, <1>5, <1>6, <2>1 DEF Stored, StoredAt
  <2> QED BY <2>3, <2>7, <2>8
<1>9. ASSUME NEW b \in gridDim, NEW t \in blockDim, NEW u \in blockDim
      PROVE  Together(b, t, u)'
  <2>1. threads'[<<b, t>>] = start /\ threads'[<<b, u>>] = start
    BY <1>2
  <2> QED BY <2>1 DEF Together, TogetherAt, SamePart
<1>10. Meeting'
  BY <1>3, <1>7, <1>8, <1>9 DEF Meeting
<1> QED BY <1>2, <1>4, <1>10 DEF IInv

\* When every thread has stored, the outputs of the kernel's images are written.
LEMMA Complete ==
  ASSUME IInv, phase = "running", \A bt \in DOMAIN threads : threads[bt].i > Rounds,
         NEW e \in InOutput, LastImage # 0 => e \div y_ind = image
  PROVE  e \in DOMAIN Y
<1> DEFINE n == e \div y_ind
           r == e % y_ind
           m == r \div H_unroll
           s == r % H_unroll
<1>1. /\ Typing /\ Meeting /\ Running /\ version \in Versions /\ shape \in Shapes /\ image \in Nat
  BY Dims, SMTT(30) DEF IInv, Typing, LastImage, Meeting
<1>2. /\ y_ind \in Nat \ {0} /\ H_unroll \in Nat \ {0} /\ shape.M \in Nat /\ shape.B \in Nat
      /\ y_ind = shape.M * H_unroll
  BY <1>1, Dims DEF y_ind
<1>3. e \in 0 .. shape.B * y_ind - 1
  BY DEF InOutput
<1>4. n \in 0 .. shape.B - 1 /\ r \in 0 .. y_ind - 1 /\ e = n * y_ind + r
  <2>1. \A i \in 0 .. shape.B * y_ind - 1 : i \div y_ind \in 0 .. shape.B - 1 /\ i % y_ind \in 0 .. y_ind - 1
    BY <1>2, Below
  <2>2. e \in Nat
    BY <1>3
  <2>3. e = n * y_ind + r
    BY <1>2, <2>2, DivMod
  <2> QED BY <1>3, <2>1, <2>3
<1> HIDE DEF n, r
<1>5. m \in 0 .. shape.M - 1 /\ s \in 0 .. H_unroll - 1 /\ r = m * H_unroll + s
  <2>1. \A i \in 0 .. shape.M * H_unroll - 1 : i \div H_unroll \in 0 .. shape.M - 1 /\ i % H_unroll \in 0 .. H_unroll - 1
    BY <1>2, Below
  <2>2. r \in Nat
    BY <1>2, <1>4
  <2>3. r = m * H_unroll + s
    BY <1>2, <2>2, DivMod
  <2> QED BY <1>2, <1>4, <2>1, <2>3
<1> HIDE DEF m, s
<1>6. e = Element(n, m, s)
  <2> DEFINE P == n * y_ind
             Q == m * H_unroll
  <2>1. P \in Nat /\ Q \in Nat /\ s \in Nat /\ e = P + r /\ r = Q + s
    BY <1>2, <1>4, <1>5, Times
  <2>2. Element(n, m, s) = P + Q + s
    BY DEF Element
  <2> HIDE DEF P, Q
  <2>3. P + Q + s = P + r
    BY <2>1
  <2> QED BY <2>1, <2>2, <2>3
<1>7. PICK b \in gridDim, t \in blockDim : Stores(b, t) /\ OutputIndex(b, t) = e
  <2>1. (LastImage = 0 => image = 0) /\ (LastImage # 0 => n = image)
    BY <1>1 DEF Typing, n
  <2> QED BY <1>1, <1>4, <1>5, <1>6, <2>1, Covers
<1>8. threads[<<b, t>>].i > Rounds /\ Stored(b, t)
  BY <1>1 DEF Meeting, Running
<1> QED BY <1>7, <1>8 DEF Stored, StoredAt

LEMMA EndImageStep ==
  ASSUME IInv, EndImage
  PROVE  IInv'
<1>1. /\ Typing /\ Written /\ version \in Versions /\ shape \in Shapes /\ image \in Nat
      /\ LastImage \in Nat /\ image \in 0 .. LastImage
  BY Dims DEF IInv, Typing, LastImage
<1>2. /\ phase = "running" /\ \A bt \in DOMAIN threads : threads[bt].i > Rounds
      /\ phase' = IF image < LastImage THEN "launch" ELSE "done"
      /\ image' = IF image < LastImage THEN image + 1 ELSE image
      /\ threads' = <<>> /\ UNCHANGED <<version, shape, X_unroll, Y>>
  BY DEF EndImage
<1>3. /\ LastImage' = LastImage /\ InOutput' = InOutput /\ y_ind' = y_ind
      /\ \A e : Reference(e)' = Reference(e)
  BY <1>2, Fixed
<1>4. Typing'
  BY <1>1, <1>2, <1>3 DEF Typing
<1>5. ASSUME NEW e \in InOutput, e < image' * y_ind PROVE e \in DOMAIN Y
  <2> DEFINE n == e \div y_ind
             r == e % y_ind
  <2>1. y_ind \in Nat \ {0} /\ shape.B \in Nat
    BY <1>1, Dims
  <2>2. e \in Nat
    BY <2>1, Times DEF InOutput
  <2>3. n \in Nat /\ r \in 0 .. y_ind - 1 /\ e = n * y_ind + r
    BY <2>1, <2>2, DivMod
  <2>4. CASE image' = image
    BY <1>1, <1>5, <2>4 DEF Written
  <2>5. CASE image' # image
    <3> DEFINE k == image + 1
    <3>1. image' = k /\ k \in Nat
      BY <1>1, <1>2, <2>5
    <3>2. n \in 0 .. k - 1
      <4> HIDE DEF k
      <4>1. \A i \in 0 .. k * y_ind - 1 : i \div y_ind \in 0 .. k - 1
        BY <2>1, <3>1, Below
      <4>2. k * y_ind \in Nat
        BY <2>1, <3>1, Times
      <4>3. e \in 0 .. k * y_ind - 1
        BY <1>5, <2>2, <3>1, <4>2
      <4> QED BY <4>1, <4>3
    <3> HIDE DEF n, r
    <3>3. CASE n = image
      BY <1>2, <3>3, Complete DEF n
    <3>4. CASE n # image
      <4>1. n \in 0 .. image - 1
        BY <1>1, <3>2, <3>4
      <4>2. \A a \in 0 .. image - 1, i \in 0 .. y_ind - 1 : a * y_ind + i \in 0 .. image * y_ind - 1
        BY <1>1, <2>1, Below
      <4>3. e \in 0 .. image * y_ind - 1
        BY <2>3, <4>1, <4>2
      <4>4. image * y_ind \in Nat
        BY <1>1, <2>1, Times
      <4>5. e < image * y_ind
        BY <4>3, <4>4
      <4> QED BY <1>1, <4>5 DEF Written
    <3> QED BY <3>3, <3>4
  <2> QED BY <2>4, <2>5
<1>6. LastImage = 0 => InOutput \subseteq DOMAIN Y
  BY <1>2, Complete
<1>7. Written'
  BY <1>1, <1>2, <1>3, <1>5, <1>6 DEF Written
<1>8. phase' # "running"
  BY <1>2
<1> QED BY <1>2, <1>4, <1>7, <1>8 DEF IInv

LEMMA Initially ==
  ASSUME Init
  PROVE  IInv
<1>1. /\ version \in Versions /\ shape \in Shapes /\ phase = "launch" /\ image = 0
      /\ X_unroll = <<>> /\ threads = <<>> /\ Y = <<>>
  BY DEF Init
<1>2. LastImage \in Nat
  BY <1>1, Dims DEF LastImage
<1>3. Typing
  BY <1>1, <1>2 DEF Typing
<1>4. Written
  <2>1. y_ind \in Nat /\ 0 * y_ind = 0
    BY <1>1, Dims
  <2>2. \A e \in InOutput : ~(e < image * y_ind)
    BY <1>1, <2>1 DEF InOutput
  <2>3. DOMAIN Y = {}
    BY <1>1
  <2> QED BY <1>1, <2>2, <2>3 DEF Written
<1> QED BY <1>1, <1>3, <1>4 DEF IInv

LEMMA Stutters ==
  ASSUME IInv, UNCHANGED vars
  PROVE  IInv'
<1>1. UNCHANGED <<version, shape, phase, image, X_unroll, threads, Ads, Bds, Y>>
  BY DEF vars
<1>2. Typing' /\ Written'
  BY <1>1, Fixed, WrittenStays DEF IInv, Typing
<1>3. CASE phase = "running"
  <2>1. Meeting /\ Running
    BY <1>3 DEF IInv, Meeting
  <2>2. gridDim' = gridDim /\ blockDim' = blockDim
    BY <1>1, Fixed DEF blockDim
  <2>3. Running'
    <3>1. Unrolling' = Unrolling
      BY <1>1, Fixed DEF Unrolling
    <3> QED BY <1>1, <2>1, <2>2, <3>1, Fixed DEF Running
  <2>4. ASSUME NEW b \in gridDim, NEW t \in blockDim
        PROVE  Placed(b, t)' /\ Summed(b, t)' /\ Stored(b, t)' /\ \A u \in blockDim : Together(b, t, u)'
    <3>1. /\ PlacedAt(b, t, threads[<<b, t>>], Ads[b][t], Bds[b][t])
          /\ SummedAt(b, t, threads[<<b, t>>]) /\ StoredAt(b, t, threads[<<b, t>>], Y)
          /\ \A u \in blockDim : TogetherAt(threads[<<b, t>>], threads[<<b, u>>])
      BY <2>1 DEF Meeting, Placed, Summed, Stored, Together
    <3> QED BY <1>1, <3>1, Primes
  <2>5. Meeting'
    BY <2>2, <2>3, <2>4 DEF Meeting
  <2> QED BY <1>1, <1>2, <1>3, <2>5 DEF IInv
<1>4. CASE phase # "running"
  BY <1>1, <1>2, <1>4 DEF IInv
<1> QED BY <1>3, <1>4

-----------------------------------------------------------------------------
(* Theorems *)

\* The invariant is inductive.
THEOREM ConvolutionInvariant == Spec => []IInv
<1>1. Init => IInv
  BY Initially
<1>2. IInv /\ [Next]_vars => IInv'
  <2> SUFFICES ASSUME IInv, [Next]_vars PROVE IInv'
    OBVIOUS
  <2>1. CASE Launch
    BY <2>1, LaunchStep
  <2>2. CASE EndImage
    BY <2>2, EndImageStep
  <2>3. ASSUME phase = "running", NEW b \in gridDim, Syncthreads(b) PROVE IInv'
    BY <2>3, SyncStep
  <2>4. ASSUME phase = "running", NEW b \in gridDim, NEW t \in blockDim, Thread(b, t) PROVE IInv'
    <3>1. CASE Load(b, t)
      BY <2>4, <3>1, LoadStep
    <3>2. CASE Mac(b, t)
      BY <2>4, <3>2, MacStep
    <3>3. CASE Store(b, t)
      BY <2>4, <3>3, StoreStep
    <3> QED BY <2>4, <3>1, <3>2, <3>3 DEF Thread
  <2>5. CASE UNCHANGED vars
    BY <2>5, Stutters
  <2> QED BY <2>1, <2>2, <2>3, <2>4, <2>5 DEF Next
<1> QED BY <1>1, <1>2, PTL DEF Spec

\* In every interleaving of the threads of a block, for every width of the tiles:
\* while one is in its loop over the tile, the others of the block are between the
\* same two barriers and have nothing left to load there, so matrixMultiply never
\* reads a cell of the tile that another thread writes.
THEOREM ConvolutionRaceFree == Spec => []RaceFree
<1>1. IInv => RaceFree
  <2> SUFFICES ASSUME IInv, NEW bu \in DOMAIN threads, At(bu[1], bu[2], "mac"),
                      NEW u \in blockDim \ {bu[2]}
               PROVE  ~At(bu[1], u, "loadA") /\ ~At(bu[1], u, "loadB")
    BY DEF RaceFree
  <2>1. phase = "running" /\ Meeting /\ Running
    BY DEF IInv, Meeting
  <2>2. PICK b \in gridDim, t \in blockDim : bu = <<b, t>>
    BY <2>1 DEF Running
  <2> DEFINE thread == threads[<<b, t>>]
             other == threads[<<b, u>>]
  <2>3. /\ version \in Versions /\ shape \in Shapes
        /\ PlacedAt(b, t, thread, Ads[b][t], Bds[b][t]) /\ PlacedAt(b, u, other, Ads[b][u], Bds[b][u])
        /\ TogetherAt(thread, other) /\ thread.i \in Nat
    BY <2>1, ThreadAt DEF ThreadStates
  <2>4. thread.i < Rounds /\ Round[thread.at] = "mac"
    BY <2>2 DEF At
  <2> HIDE DEF thread, other
  <2>5. other.i = thread.i /\ SamePart(thread.at, other.at) /\ version # "simple"
    BY <2>3, <2>4, RoundsOf DEF TogetherAt
  <2>6. thread.at \in 1 .. Len(Round) /\ other.at \in 1 .. Len(Round)
    BY <2>3, <2>4, <2>5 DEF PlacedAt
  <2>7. Round[other.at] \notin {"loadA", "loadB"}
    BY <2>3, <2>4, <2>5, <2>6, RoundOf
  <2> QED BY <2>2, <2>7 DEF At, other
<1> QED BY <1>1, ConvolutionInvariant, PTL

\* For every shape of the tensors and every width of the tiles, whatever the
\* order in which threads and blocks run: when forward returns, every element
\* of the output is the sum of the products that the CPU's loops add, in their
\* order, and the versions that launch all images at once have written
\* nothing else.
THEOREM ConvolutionComputes == Spec => []ComputesConvolution
<1>1. IInv => ComputesConvolution
  <2> SUFFICES ASSUME IInv, phase = "done"
               PROVE  /\ \A e \in InOutput : e \in DOMAIN Y /\ Y[e] = Reference(e)
                      /\ LastImage = 0 => DOMAIN Y = InOutput
    BY DEF ComputesConvolution
  <2>1. Typing /\ Written
    BY DEF IInv
  <2>2. image = LastImage /\ shape \in Shapes
    BY <2>1 DEF Typing
  <2>3. InOutput \subseteq DOMAIN Y
    <3>1. CASE LastImage = 0
      BY <2>1, <3>1 DEF Written
    <3>2. CASE LastImage # 0
      <4>1. image = shape.B
        BY <2>2, <3>2 DEF LastImage
      <4>2. shape.B * y_ind \in Nat
        BY <2>2, Dims, Times
      <4>3. \A e \in InOutput : e < image * y_ind
        BY <4>1, <4>2 DEF InOutput
      <4> QED BY <2>1, <4>3 DEF Written
    <3> QED BY <3>1, <3>2
  <2> QED BY <2>1, <2>3 DEF Written
<1> QED BY <1>1, ConvolutionInvariant, PTL

=============================================================================
