-------------------------- MODULE ObjectStoreProofs --------------------------
(***************************************************************************)
(* Proofs about ObjectStore: an encoding says which object it is of, and   *)
(* no message of jj's has the bytes of what a mount hashes, so that an id  *)
(* stands for one object for ever and jj reads what it wrote.              *)
(***************************************************************************)
EXTENDS ObjectStore, SequenceTheorems, WellFoundedInduction, TLAPS

-----------------------------------------------------------------------------
(* Induction, and the functions that are defined by it.                    *)

\* What holds of 0 and of the successor of whatever it holds of.
LEMMA Induction ==
  ASSUME NEW S, 0 \in S, \A n \in Nat : n \in S => n + 1 \in S
  PROVE  Nat \subseteq S
<1> DEFINE R == {p \in Nat \X Nat : p[1] < p[2]}
<1>1. IsWellFoundedOn(R, Nat)
  BY NatLessThanWellFounded DEF OpToRel
<1> HIDE DEF R
<1>2. SUFFICES ASSUME Nat \ S # {} PROVE FALSE
  OBVIOUS
<1>3. PICK c \in Nat \ S : \A d \in Nat \ S : ~ (<<d, c>> \in R)
  BY <1>1, <1>2, WFMin
<1>4. c # 0 /\ c - 1 \in Nat /\ <<c - 1, c>> \in R
  BY <1>3 DEF R
<1>5. c - 1 \in S
  BY <1>3, <1>4
<1> QED
  BY <1>3, <1>4, <1>5

\* What holds of a number if it holds of all that are less.
LEMMA StrongInduction ==
  ASSUME NEW S, \A n \in Nat : (\A m \in 0..(n - 1) : m \in S) => n \in S
  PROVE  Nat \subseteq S
<1> DEFINE T == {n \in Nat : \A m \in 0..n : m \in S}
<1>1. 0 \in T
  BY 0 \in S
<1>2. \A n \in Nat : n \in T => n + 1 \in T
  <2> SUFFICES ASSUME NEW n \in Nat, n \in T PROVE \A m \in 0..(n + 1) : m \in S
    OBVIOUS
  <2>1. n + 1 \in S
    <3>1. \A m \in 0..((n + 1) - 1) : m \in S
      OBVIOUS
    <3> QED BY <3>1
  <2> QED BY <2>1
<1>3. Nat \subseteq T
  <2> HIDE DEF T
  <2> QED BY <1>1, <1>2, Induction
<1> QED BY <1>3

\* A function on the naturals is given by its value at 0 and by how each value
\* follows from the one before.
Follows(f, V, base, step) ==
  f \in [Nat -> V] /\ f[0] = base /\ \A n \in Nat : f[n + 1] = step[n][f[n]]

LEMMA Recursion ==
  ASSUME NEW V, NEW base \in V, NEW step \in [Nat -> [V -> V]]
  PROVE  \E f : Follows(f, V, base, step)
<1> DEFINE Begins(g, n) ==
      g \in [0..n -> V] /\ g[0] = base /\ \A i \in 0..(n - 1) : g[i + 1] = step[i][g[i]]
<1> DEFINE S == {n \in Nat : \E g : Begins(g, n)}
<1>1. Nat \subseteq S
  <2>1. 0 \in S
    <3>1. Begins([i \in 0..0 |-> base], 0)
      OBVIOUS
    <3> QED BY <3>1
  <2>2. ASSUME NEW n \in Nat, n \in S PROVE n + 1 \in S
    <3>1. PICK g : Begins(g, n)
      BY <2>2
    <3> DEFINE h == [i \in 0..(n + 1) |-> IF i = n + 1 THEN step[n][g[n]] ELSE g[i]]
    <3>2. h \in [0..(n + 1) -> V]
      BY <3>1
    <3>3. h[0] = base
      BY <3>1
    <3>4. ASSUME NEW i \in 0..((n + 1) - 1) PROVE h[i + 1] = step[i][h[i]]
      <4>1. CASE i = n
        BY <3>1, <4>1
      <4>2. CASE i # n
        <5>1. i \in 0..(n - 1) /\ i + 1 \in 0..n /\ i + 1 # n + 1
          BY <4>2
        <5> QED BY <3>1, <4>2, <5>1
      <4> QED BY <4>1, <4>2
    <3> HIDE DEF h
    <3>5. Begins(h, n + 1)
      BY <3>2, <3>3, <3>4
    <3> QED BY <3>5
  <2> HIDE DEF S
  <2> QED BY <2>1, <2>2, Induction
<1>2. ASSUME NEW n \in Nat, NEW g, NEW h, Begins(g, n), Begins(h, n + 1)
      PROVE  \A i \in 0..n : g[i] = h[i]
  <2> DEFINE T == {i \in Nat : i <= n => g[i] = h[i]}
  <2>1. 0 \in T
    BY <1>2
  <2>2. ASSUME NEW i \in Nat, i \in T PROVE i + 1 \in T
    <3>1. SUFFICES ASSUME i + 1 <= n PROVE g[i + 1] = h[i + 1]
      OBVIOUS
    <3>2. i \in 0..(n - 1) /\ i \in 0..((n + 1) - 1) /\ i <= n
      BY <3>1
    <3>3. g[i + 1] = step[i][g[i]] /\ h[i + 1] = step[i][h[i]]
      BY <1>2, <3>2
    <3> QED BY <2>2, <3>2, <3>3
  <2>3. Nat \subseteq T
    <3> HIDE DEF T
    <3> QED BY <2>1, <2>2, Induction
  <2> QED BY <2>3
<1> DEFINE at(n) == CHOOSE g : Begins(g, n)
<1>3. \A n \in Nat : Begins(at(n), n)
  <2> TAKE n \in Nat
  <2>1. \E g : Begins(g, n)
    BY <1>1
  <2> HIDE DEF Begins
  <2> QED BY <2>1
<1> DEFINE f == [n \in Nat |-> at(n)[n]]
<1> HIDE DEF at
<1>4. f \in [Nat -> V]
  BY <1>3
<1>5. f[0] = base
  BY <1>3
<1>6. ASSUME NEW n \in Nat PROVE f[n + 1] = step[n][f[n]]
  <2>1. Begins(at(n), n) /\ Begins(at(n + 1), n + 1)
    BY <1>3
  <2>2. at(n)[n] = at(n + 1)[n]
    <3>1. n \in 0..n
      OBVIOUS
    <3> HIDE DEF Begins
    <3> QED BY <2>1, <3>1, <1>2
  <2>3. at(n + 1)[n + 1] = step[n][at(n + 1)[n]]
    BY <2>1
  <2> QED BY <2>2, <2>3
<1> HIDE DEF f
<1> QED BY <1>4, <1>5, <1>6 DEF Follows

-----------------------------------------------------------------------------
(* The bytes of an integer.                                                *)

\* The weight of a byte is 256 times that of the byte before it.
LEMMA WeightDef ==
  /\ Weight \in [Nat -> Nat]
  /\ Weight[0] = 1
  /\ \A k \in Nat : Weight[k + 1] = 256 * Weight[k]
<1>1. PICK f \in [Nat -> Nat] :
        f[0] = 1 /\ \A n \in Nat : f[n + 1] = [i \in Nat |-> [v \in Nat |-> 256 * v]][n][f[n]]
  <2> DEFINE step == [i \in Nat |-> [v \in Nat |-> 256 * v]]
  <2>1. step \in [Nat -> [Nat -> Nat]] OBVIOUS
  <2> HIDE DEF step
  <2>2. 1 \in Nat
    OBVIOUS
  <2>3. PICK f : Follows(f, Nat, 1, step)
    BY <2>1, <2>2, Recursion
  <2> QED BY <2>3 DEF step, Follows
<1>2. f[0] = 1 /\ \A n \in Nat : f[n + 1] = 256 * f[n]
  BY <1>1
<1>3. \A k \in Nat : f[k] = IF k = 0 THEN 1 ELSE 256 * f[k - 1]
  <2> TAKE k \in Nat
  <2>1. CASE k = 0 BY <1>2, <2>1
  <2>2. CASE k # 0
    <3>1. k - 1 \in Nat /\ (k - 1) + 1 = k BY <2>2
    <3> QED BY <1>2, <3>1
  <2> QED BY <2>1, <2>2
<1>4. f = [k \in Nat |-> IF k = 0 THEN 1 ELSE 256 * f[k - 1]]
  BY <1>1, <1>3
<1>5. Weight = [k \in Nat |-> IF k = 0 THEN 1 ELSE 256 * Weight[k - 1]]
  BY <1>4 DEF Weight
<1>6. \A k \in Nat : Weight[k + 1] = 256 * Weight[k]
  <2> TAKE k \in Nat
  <2> QED BY <1>5
<1>7. Weight[0] = 1 BY <1>5
<1>8. Weight \in [Nat -> Nat]
  <2> DEFINE S == {k \in Nat : Weight[k] \in Nat}
  <2>1. 0 \in S BY <1>7
  <2>2. \A n \in Nat : n \in S => n + 1 \in S BY <1>6
  <2>3. Nat \subseteq S
    <3> HIDE DEF S
    <3> QED BY <2>1, <2>2, Induction
  <2>4. Weight = [k \in Nat |-> Weight[k]] BY <1>5
  <2> QED BY <2>3, <2>4
<1> QED BY <1>6, <1>7, <1>8

LEMMA WeightPositive ==
  ASSUME NEW k \in Nat
  PROVE  Weight[k] \in Nat /\ Weight[k] > 0
<1> DEFINE S == {i \in Nat : Weight[i] > 0}
<1>1. 0 \in S
  BY WeightDef
<1>2. \A n \in Nat : n \in S => n + 1 \in S
  BY WeightDef
<1>3. Nat \subseteq S
  <2> HIDE DEF S
  <2> QED BY <1>1, <1>2, Induction
<1> QED BY <1>3, WeightDef

\* What comes after the first part of a sequence.
LEMMA SecondPart ==
  ASSUME NEW S, NEW a \in Seq(S), NEW x \in Seq(S), NEW i \in 1..Len(x)
  PROVE  (a \o x)[Len(a) + i] = x[i]
<1>1. Len(a) \in Nat /\ Len(x) \in Nat
  BY LenProperties
<1>2. PICK k \in Nat : k = Len(a) + i
  BY <1>1
<1>3. k \in 1..(Len(a) + Len(x)) /\ ~ (k <= Len(a)) /\ k - Len(a) = i
  BY <1>1, <1>2
<1>4. (a \o x)[k] = x[k - Len(a)]
  BY <1>1, <1>3
<1> QED BY <1>2, <1>3, <1>4

\* Two sequences that begin with parts of one length have them in common.
LEMMA Cancel ==
  ASSUME NEW S, NEW a \in Seq(S), NEW b \in Seq(S), NEW x \in Seq(S), NEW y \in Seq(S),
         Len(a) = Len(b), a \o x = b \o y
  PROVE  a = b /\ x = y
<1>1. \A i \in 1..Len(a) : a[i] = b[i]
  <2> TAKE i \in 1..Len(a)
  <2>1. (a \o x)[i] = a[i] /\ (b \o y)[i] = b[i]
    BY ConcatProperties
  <2> QED BY <2>1
<1>2. Len(x) = Len(y)
  <2>1. Len(a \o x) = Len(a) + Len(x) /\ Len(b \o y) = Len(b) + Len(y)
    BY ConcatProperties
  <2> QED BY <2>1, LenProperties
<1>3. \A i \in 1..Len(x) : x[i] = y[i]
  <2> TAKE i \in 1..Len(x)
  <2>1. (a \o x)[Len(a) + i] = x[i]
    BY SecondPart
  <2>2. (b \o y)[Len(b) + i] = y[i]
    BY <1>2, SecondPart
  <2> QED BY <2>1, <2>2
<1> QED BY <1>1, <1>2, <1>3, SeqEqual

LEMMA CancelFirst ==
  ASSUME NEW m \in Nat, NEW n \in Nat, NEW x \in Bytes, NEW y \in Bytes
  PROVE  <<m>> \o x = <<n>> \o y => m = n /\ x = y
<1> SUFFICES ASSUME <<m>> \o x = <<n>> \o y PROVE m = n /\ x = y
  OBVIOUS
<1>1. <<m>> \in Seq(Nat) /\ <<n>> \in Seq(Nat) /\ Len(<<m>>) = Len(<<n>>)
  OBVIOUS
<1>2. <<m>> = <<n>> /\ x = y
  BY <1>1, Cancel DEF Bytes
<1> QED BY <1>2

\* The same, for where the provers would take the sequences apart.
FirstsCancel(m, n, x, y) == <<m>> \o x = <<n>> \o y => m = n /\ x = y

LEMMA CancelFirstAll == \A m, n \in Nat : \A x, y \in Bytes : FirstsCancel(m, n, x, y)
  BY CancelFirst DEF FirstsCancel

LEMMA LittleEndianBytes ==
  ASSUME NEW n \in Nat, NEW w \in Nat
  PROVE  LittleEndian(n, w) \in Bytes /\ Len(LittleEndian(n, w)) = w
<1>1. \A k \in 1..w : (n \div Weight[k - 1]) % 256 \in Nat
  <2> TAKE k \in 1..w
  <2>1. Weight[k - 1] \in Nat /\ Weight[k - 1] > 0
    BY WeightPositive
  <2>2. n \div Weight[k - 1] \in Nat
    BY <2>1
  <2> QED BY <2>2
<1> QED BY <1>1 DEF LittleEndian, Bytes

\* The low byte comes first.
HighBytes(n, w) == LittleEndian(n \div 256, w)

LEMMA LittleEndianFirst ==
  ASSUME NEW n \in Nat, NEW w \in Nat
  PROVE  /\ HighBytes(n, w) \in Bytes
         /\ LittleEndian(n, w + 1) = <<n % 256>> \o HighBytes(n, w)
<1> DEFINE rest == LittleEndian(n \div 256, w)
<1>1. rest \in Seq(Nat) /\ Len(rest) = w
  BY LittleEndianBytes, SMTT(30) DEF Bytes
<1>2. LittleEndian(n, w + 1) \in Seq(Nat) /\ Len(LittleEndian(n, w + 1)) = w + 1
  BY LittleEndianBytes DEF Bytes
<1>3. <<n % 256>> \o rest \in Seq(Nat) /\ Len(<<n % 256>> \o rest) = w + 1
  BY <1>1, ConcatProperties
<1>4. ASSUME NEW k \in 1..(w + 1)
      PROVE  LittleEndian(n, w + 1)[k] = (<<n % 256>> \o rest)[k]
  <2>1. CASE k = 1
    <3>1. LittleEndian(n, w + 1)[1] = n % 256
      <4>1. LittleEndian(n, w + 1)[1] = (n \div Weight[0]) % 256
        BY DEF LittleEndian
      <4>2. n \div Weight[0] = n
        BY WeightDef
      <4> QED BY <4>1, <4>2
    <3> QED BY <1>1, <2>1, <3>1
  <2>2. CASE k # 1
    <3>1. k - 1 \in 1..w /\ k - 2 \in Nat /\ (k - 2) + 1 = k - 1
      BY <2>2
    <3> DEFINE p == Weight[k - 2]
    <3>2. p \in Nat /\ p > 0 /\ Weight[k - 1] = 256 * p
      BY <3>1, WeightPositive, WeightDef
    <3> HIDE DEF p
    <3>3. n \div (256 * p) = (n \div 256) \div p
      BY <3>2
    <3>4. LittleEndian(n, w + 1)[k] = (n \div Weight[k - 1]) % 256
      BY DEF LittleEndian
    <3>5. rest[k - 1] = ((n \div 256) \div p) % 256
      BY <3>1 DEF LittleEndian, p
    <3>6. (<<n % 256>> \o rest)[k] = rest[k - 1]
      BY <1>1, <2>2
    <3> QED BY <3>2, <3>3, <3>4, <3>5, <3>6, ZenonT(40)
  <2> QED BY <2>1, <2>2
<1> HIDE DEF rest
<1>5. LittleEndian(n, w + 1) = <<n % 256>> \o rest
  BY <1>2, <1>3, <1>4, SeqEqual, ZenonT(40)
<1> QED BY <1>1, <1>5 DEF rest, HighBytes, Bytes

LEMMA LittleEndianRest ==
  ASSUME NEW w \in Nat, NEW m \in Nat, NEW n \in Nat
  PROVE  LittleEndian(m, w + 1) = LittleEndian(n, w + 1) =>
           m % 256 = n % 256 /\ LittleEndian(m \div 256, w) = LittleEndian(n \div 256, w)
<1> DEFINE i == m % 256
           j == n % 256
<1>1. i \in Nat /\ j \in Nat
  OBVIOUS
<1>2. HighBytes(m, w) \in Bytes /\ LittleEndian(m, w + 1) = <<i>> \o HighBytes(m, w)
  BY LittleEndianFirst, ZenonT(40)
<1>3. HighBytes(n, w) \in Bytes /\ LittleEndian(n, w + 1) = <<j>> \o HighBytes(n, w)
  BY LittleEndianFirst
<1> HIDE DEF i, j
<1>4. <<i>> \o HighBytes(m, w) = <<j>> \o HighBytes(n, w) => i = j /\ HighBytes(m, w) = HighBytes(n, w)
  <2>1. HighBytes(m, w) \in Bytes /\ HighBytes(n, w) \in Bytes
    BY <1>2, <1>3
  <2>2. FirstsCancel(i, j, HighBytes(m, w), HighBytes(n, w))
    BY <1>1, <2>1, CancelFirstAll
  <2> QED BY <2>2 DEF FirstsCancel
<1> QED BY <1>2, <1>3, <1>4, ZenonT(40) DEF i, j, HighBytes

\* In as many bytes as it needs, a number is known by its bytes.
LEMMA LittleEndianInjective ==
  ASSUME NEW w \in Nat, NEW m \in Nat, NEW n \in Nat, m < Weight[w], n < Weight[w],
         LittleEndian(m, w) = LittleEndian(n, w)
  PROVE  m = n
<1> DEFINE S == {v \in Nat : \A i, j \in Nat :
                   i < Weight[v] /\ j < Weight[v] /\ LittleEndian(i, v) = LittleEndian(j, v) => i = j}
<1>1. 0 \in S
  BY WeightDef
<1>2. ASSUME NEW v \in Nat, v \in S PROVE v + 1 \in S
  <2> SUFFICES ASSUME NEW i \in Nat, NEW j \in Nat, i < Weight[v + 1], j < Weight[v + 1],
                      LittleEndian(i, v + 1) = LittleEndian(j, v + 1)
               PROVE  i = j
    OBVIOUS
  <2>1. i \div 256 \in Nat /\ j \div 256 \in Nat
    OBVIOUS
  <2>4. i % 256 = j % 256 /\ LittleEndian(i \div 256, v) = LittleEndian(j \div 256, v)
    BY LittleEndianRest
  <2>5. i \div 256 < Weight[v] /\ j \div 256 < Weight[v]
    BY WeightDef, WeightPositive
  <2>6. i \div 256 = j \div 256
    BY <1>2, <2>1, <2>4, <2>5
  <2> QED BY <2>4, <2>6
<1>3. Nat \subseteq S
  <2> HIDE DEF S
  <2> QED BY <1>1, <1>2, Induction
<1> QED BY <1>3

-----------------------------------------------------------------------------
(* Varints.                                                                *)

\* Varint is the limit of functions that are right up to ever larger numbers.
Longer(g) ==
  [n \in Nat |-> IF n < 128 THEN <<n>> ELSE <<128 + (n % 128)>> \o g[n \div 128]]

LEMMA LongerType ==
  ASSUME NEW g \in [Nat -> Bytes]
  PROVE  Longer(g) \in [Nat -> Bytes]
<1>1. ASSUME NEW n \in Nat PROVE Longer(g)[n] \in Bytes
  <2>1. n \div 128 \in Nat /\ 128 + (n % 128) \in Nat
    OBVIOUS
  <2>2. <<n>> \in Seq(Nat) /\ <<128 + (n % 128)>> \in Seq(Nat)
    BY <2>1
  <2>3. g[n \div 128] \in Seq(Nat)
    BY <2>1 DEF Bytes
  <2>4. <<128 + (n % 128)>> \o g[n \div 128] \in Seq(Nat)
    BY <2>2, <2>3, ConcatProperties
  <2> QED BY <2>2, <2>4 DEF Longer, Bytes
<1> QED BY <1>1 DEF Longer

LEMMA VarintEquation == Varint \in [Nat -> Bytes] /\ Varint = Longer(Varint)
<1> DEFINE V == [Nat -> Bytes]
           base == [n \in Nat |-> << >>]
           step == [i \in Nat |-> [g \in V |-> Longer(g)]]
<1>1. base \in V
  BY DEF Bytes
<1>2. step \in [Nat -> [V -> V]]
  BY LongerType
<1> HIDE DEF base, V, step
<1>3. PICK f : Follows(f, V, base, step)
  BY <1>1, <1>2, Recursion
<1>4. f \in [Nat -> V] /\ \A i \in Nat : f[i] \in V /\ f[i + 1] = Longer(f[i])
  BY <1>3 DEF Follows, step
<1> DEFINE S == {d \in Nat : \A e \in Nat : e > d => f[e][d] = f[d + 1][d]}
<1>5. ASSUME NEW d \in Nat, \A m \in 0..(d - 1) : m \in S PROVE d \in S
  <2> SUFFICES ASSUME NEW e \in Nat, e > d PROVE f[e][d] = f[d + 1][d]
    OBVIOUS
  <2>1. e - 1 \in Nat /\ (e - 1) + 1 = e
    OBVIOUS
  <2>2. f[e] = Longer(f[e - 1]) /\ f[d + 1] = Longer(f[d])
    BY <1>4, <2>1
  <2>3. CASE d < 128
    BY <2>2, <2>3 DEF Longer
  <2>4. CASE ~ (d < 128)
    <3>1. d \div 128 \in 0..(d - 1) /\ e - 1 > d \div 128 /\ d > d \div 128
      BY <2>4
    <3>2. f[e - 1][d \div 128] = f[(d \div 128) + 1][d \div 128]
      BY <1>5, <2>1, <3>1
    <3>3. f[d][d \div 128] = f[(d \div 128) + 1][d \div 128]
      BY <1>5, <3>1
    <3>4. /\ Longer(f[e - 1])[d] = <<128 + (d % 128)>> \o f[e - 1][d \div 128]
          /\ Longer(f[d])[d] = <<128 + (d % 128)>> \o f[d][d \div 128]
      BY <2>4 DEF Longer
    <3> QED BY <2>2, <3>2, <3>3, <3>4
  <2> QED BY <2>3, <2>4
<1>6. Nat \subseteq S
  <2> HIDE DEF S
  <2> QED BY <1>5, StrongInduction
<1> DEFINE g == [n \in Nat |-> f[n + 1][n]]
<1>7. ASSUME NEW n \in Nat PROVE g[n] = Longer(g)[n]
  <2>1. f[n + 1] = Longer(f[n])
    BY <1>4
  <2>2. CASE n < 128
    BY <2>1, <2>2, ZenonT(40) DEF Longer
  <2>3. CASE ~ (n < 128)
    <3>1. n \div 128 \in Nat /\ n > n \div 128
      BY <2>3
    <3>2. f[n][n \div 128] = g[n \div 128]
      BY <1>6, <3>1
    <3>3. /\ Longer(f[n])[n] = <<128 + (n % 128)>> \o f[n][n \div 128]
          /\ Longer(g)[n] = <<128 + (n % 128)>> \o g[n \div 128]
      BY <2>3 DEF Longer
    <3> QED BY <2>1, <3>2, <3>3, ZenonT(40)
  <2> QED BY <2>2, <2>3
<1>8. g \in [Nat -> Bytes]
  <2>1. \A n \in Nat : f[n + 1][n] \in Bytes
    BY <1>4 DEF V
  <2> QED BY <2>1
<1> HIDE DEF g
<1>9. g = [n \in Nat |-> IF n < 128 THEN <<n>> ELSE <<128 + (n % 128)>> \o g[n \div 128]]
  BY <1>7, <1>8, SMTT(30) DEF Longer
<1>10. Varint = Longer(Varint)
  BY <1>9, ZenonT(40) DEF Varint, Longer
<1>11. \A n \in Nat : Varint[n] \in Bytes
  <2> DEFINE T == {n \in Nat : Varint[n] \in Bytes}
  <2>1. ASSUME NEW n \in Nat, \A m \in 0..(n - 1) : m \in T PROVE n \in T
    <3>1. CASE n < 128
      BY <1>10, <3>1 DEF Longer, Bytes
    <3>2. CASE ~ (n < 128)
      <4>1. n \div 128 \in 0..(n - 1) /\ <<128 + (n % 128)>> \in Seq(Nat)
        BY <3>2
      <4>2. Varint[n \div 128] \in Seq(Nat)
        BY <2>1, <4>1 DEF Bytes
      <4>3. <<128 + (n % 128)>> \o Varint[n \div 128] \in Seq(Nat)
        BY <4>1, <4>2, ConcatProperties
      <4> QED BY <1>10, <3>2, <4>3 DEF Longer, Bytes
    <3> QED BY <3>1, <3>2
  <2>2. Nat \subseteq T
    <3> HIDE DEF T
    <3> QED BY <2>1, StrongInduction
  <2> QED BY <2>2
<1>12. Varint = [n \in Nat |-> Varint[n]]
  BY <1>10 DEF Longer
<1> QED BY <1>10, <1>11, <1>12

\* What comes after the first byte of a number of several.
More(n) == Varint[n \div 128]

LEMMA VarintCases ==
  ASSUME NEW n \in Nat
  PROVE  /\ Varint[n] \in Bytes /\ More(n) \in Bytes
         /\ n < 128 => Varint[n] = <<n>>
         /\ n >= 128 => Varint[n] = <<128 + (n % 128)>> \o More(n)
<1>1. n \div 128 \in Nat
  OBVIOUS
<1>2. Varint[n] = IF n < 128 THEN <<n>> ELSE <<128 + (n % 128)>> \o Varint[n \div 128]
  BY VarintEquation DEF Longer
<1>3. Varint[n] \in Bytes /\ Varint[n \div 128] \in Bytes
  BY <1>1, VarintEquation
<1>4. n < 128 => Varint[n] = <<n>>
  BY <1>2
<1>5. n >= 128 => Varint[n] = <<128 + (n % 128)>> \o Varint[n \div 128]
  BY <1>2
<1> QED BY <1>3, <1>4, <1>5 DEF More

\* The first byte says whether there are more, and begins the number.
FirstByte(n) == IF n < 128 THEN n ELSE 128 + (n % 128)
Rest(n, x) == IF n < 128 THEN x ELSE More(n) \o x

LEMMA VarintFirst ==
  ASSUME NEW n \in Nat, NEW x \in Bytes
  PROVE  /\ FirstByte(n) \in Nat /\ Rest(n, x) \in Bytes
         /\ Varint[n] \o x = <<FirstByte(n)>> \o Rest(n, x)
<1>1. CASE n < 128
  <2>1. FirstByte(n) = n /\ Rest(n, x) = x
    BY <1>1 DEF FirstByte, Rest
  <2>2. Varint[n] \o x = <<n>> \o x
    BY <1>1, VarintCases
  <2>3. FirstByte(n) \in Nat /\ Rest(n, x) \in Bytes
    BY <2>1
  <2>4. Varint[n] \o x = <<FirstByte(n)>> \o Rest(n, x)
    BY <2>1, <2>2
  <2> QED BY <2>3, <2>4
<1>2. CASE n >= 128
  <2> DEFINE b == 128 + (n % 128)
  <2>1. b \in Nat
    OBVIOUS
  <2>2. Varint[n] = <<b>> \o More(n)
    BY <1>2, VarintCases
  <2>3. FirstByte(n) = b /\ Rest(n, x) = More(n) \o x
    BY <1>2 DEF FirstByte, Rest
  <2> HIDE DEF b
  <2>4. More(n) \in Bytes
    BY VarintCases
  <2>5. <<b>> \in Bytes
    BY <2>1 DEF Bytes
  <2>6. More(n) \o x \in Bytes
    BY <2>4, ConcatProperties DEF Bytes
  <2>7. (<<b>> \o More(n)) \o x = <<b>> \o (More(n) \o x)
    BY <2>4, <2>5, ConcatAssociative DEF Bytes
  <2> QED BY <2>1, <2>2, <2>3, <2>6, <2>7
<1>3. n < 128 \/ n >= 128
  OBVIOUS
<1> QED BY <1>1, <1>2, <1>3, Zenon

\* A varint says where it ends.
LEMMA VarintParse ==
  ASSUME NEW m \in Nat, NEW n \in Nat, NEW x \in Bytes, NEW y \in Bytes
  PROVE  Varint[m] \o x = Varint[n] \o y => m = n /\ x = y
<1> DEFINE Parses(k, l, u, v) == Varint[k] \o u = Varint[l] \o v => k = l /\ u = v
           S == {k \in Nat : \A l \in Nat : \A u, v \in Bytes : Parses(k, l, u, v)}
<1>1. ASSUME NEW k \in Nat, \A j \in 0..(k - 1) : j \in S PROVE k \in S
  <2> SUFFICES ASSUME NEW l \in Nat, NEW u \in Bytes, NEW v \in Bytes
               PROVE  Parses(k, l, u, v)
    OBVIOUS
  <2>1. Varint[k] \o u = <<FirstByte(k)>> \o Rest(k, u)
    BY VarintFirst
  <2>2. Varint[l] \o v = <<FirstByte(l)>> \o Rest(l, v)
    BY VarintFirst
  <2>3. /\ FirstByte(k) \in Nat /\ Rest(k, u) \in Bytes
        /\ FirstByte(l) \in Nat /\ Rest(l, v) \in Bytes
    BY VarintFirst
  <2>4. <<FirstByte(k)>> \o Rest(k, u) = <<FirstByte(l)>> \o Rest(l, v)
          => FirstByte(k) = FirstByte(l) /\ Rest(k, u) = Rest(l, v)
    BY <2>3, CancelFirst, ZenonT(40)
  <2>5. FirstByte(k) = FirstByte(l) /\ Rest(k, u) = Rest(l, v) => k = l /\ u = v
    <3>1. CASE k < 128 \/ l < 128
      BY <3>1 DEF FirstByte, Rest
    <3>2. CASE k >= 128 /\ l >= 128
      <4>1. k \div 128 \in 0..(k - 1) /\ l \div 128 \in Nat
        BY <3>2
      <4>2. Parses(k \div 128, l \div 128, u, v)
        <5> HIDE DEF Parses
        <5>1. k \div 128 \in S
          BY <1>1, <4>1
        <5>2. \A i \in S : \A j \in Nat : Parses(i, j, u, v)
          OBVIOUS
        <5> HIDE DEF S
        <5> QED BY <4>1, <5>1, <5>2
      <4>3. k \div 128 = l \div 128 /\ k % 128 = l % 128 => k = l
        BY <4>1
      <4>4. FirstByte(k) = FirstByte(l) => k % 128 = l % 128
        BY <3>2 DEF FirstByte
      <4>5. Rest(k, u) = More(k) \o u /\ Rest(l, v) = More(l) \o v
        BY <3>2 DEF Rest
      <4> QED BY <4>2, <4>3, <4>4, <4>5 DEF More
    <3> QED BY <3>1, <3>2
  <2> QED BY <2>1, <2>2, <2>4, <2>5
<1>2. Nat \subseteq S
  <2> HIDE DEF S
  <2> QED BY <1>1, StrongInduction
<1> QED BY <1>2

LEMMA VarintLength ==
  ASSUME NEW n \in Nat
  PROVE  Varint[n] \in Bytes /\ Len(Varint[n]) \in 1..(n + 1)
<1> DEFINE S == {k \in Nat : Len(Varint[k]) \in 1..(k + 1)}
<1>1. ASSUME NEW k \in Nat, \A j \in 0..(k - 1) : j \in S PROVE k \in S
  <2>1. CASE k < 128
    <3>1. Varint[k] = <<k>>
      BY <2>1, VarintCases
    <3>2. Len(<<k>>) = 1 /\ 1 \in 1..(k + 1)
      OBVIOUS
    <3> QED BY <3>1, <3>2
  <2>2. CASE k >= 128
    <3>1. k \div 128 \in 0..(k - 1)
      BY <2>2
    <3>2. Len(More(k)) \in 1..((k \div 128) + 1)
      BY <1>1, <3>1 DEF More
    <3>3. 128 + (k % 128) \in Nat /\ More(k) \in Seq(Nat)
      <4>1. More(k) \in Bytes
        BY VarintCases
      <4> QED BY <4>1 DEF Bytes
    <3>4. Len(<<128 + (k % 128)>> \o More(k)) = 1 + Len(More(k))
      BY <3>3, ConcatProperties
    <3>5. Len(Varint[k]) = 1 + Len(More(k))
      BY <2>2, <3>4, VarintCases
    <3> QED BY <3>1, <3>2, <3>5
  <2> QED BY <2>1, <2>2
<1>2. Nat \subseteq S
  <2> HIDE DEF S
  <2> QED BY <1>1, StrongInduction
<1> QED BY <1>2, VarintCases

-----------------------------------------------------------------------------
(* Sequences one after the other.                                          *)

\* What a sequence of sequences begins with, joined.
Joins(f, ss) ==
  /\ f \in [Nat -> Bytes] /\ f[0] = << >>
  /\ \A i \in 0..(Len(ss) - 1) : f[i + 1] = f[i] \o ss[i + 1]

LEMMA JoinsExist ==
  ASSUME NEW ss \in Seq(Bytes)
  PROVE  \E f : Joins(f, ss)
<1> DEFINE more(i, v) == IF i < Len(ss) THEN v \o ss[i + 1] ELSE v
           step == [i \in Nat |-> [v \in Bytes |-> more(i, v)]]
<1>1. ASSUME NEW i \in Nat, NEW v \in Bytes PROVE more(i, v) \in Bytes
  <2>1. CASE i < Len(ss)
    <3>1. ss[i + 1] \in Bytes
      BY <2>1
    <3> QED BY <3>1, <2>1, ConcatProperties DEF Bytes
  <2> QED BY <2>1
<1>2. << >> \in Bytes
  BY DEF Bytes
<1> HIDE DEF more
<1>3. step \in [Nat -> [Bytes -> Bytes]]
  BY <1>1
<1> HIDE DEF step
<1>4. PICK f : Follows(f, Bytes, << >>, step)
  BY <1>2, <1>3, Recursion
<1>5. f \in [Nat -> Bytes] /\ f[0] = << >>
  BY <1>4 DEF Follows
<1>6. ASSUME NEW i \in 0..(Len(ss) - 1) PROVE f[i + 1] = f[i] \o ss[i + 1]
  <2>1. i \in Nat /\ i < Len(ss)
    BY LenProperties
  <2>2. f[i + 1] = step[i][f[i]] /\ f[i] \in Bytes
    BY <1>4, <2>1 DEF Follows
  <2> QED BY <2>1, <2>2 DEF step, more
<1> QED BY <1>5, <1>6 DEF Joins

LEMMA FlattenJoins ==
  ASSUME NEW ss \in Seq(Bytes), NEW f, Joins(f, ss)
  PROVE  FlattenSeq(ss) = f[Len(ss)]
<1>1. CASE Len(ss) = 0
  <2>1. ss = << >>
    BY <1>1
  <2> QED BY <1>1, <2>1 DEF FlattenSeq, Joins
<1>2. CASE Len(ss) # 0
  <2> DEFINE L == Len(ss)
             Whole(h) == h = [i \in 1..L |-> IF i = 1 THEN ss[i] ELSE h[i - 1] \o ss[i]]
             flat == CHOOSE h : Whole(h)
  <2>1. L \in Nat /\ L > 0
    BY <1>2, LenProperties
  <2>2. FlattenSeq(ss) = flat[L]
    BY <1>2 DEF FlattenSeq
  <2>3. ASSUME NEW i \in 1..L PROVE f[i] = IF i = 1 THEN ss[i] ELSE f[i - 1] \o ss[i]
    <3>1. i - 1 \in 0..(L - 1) /\ (i - 1) + 1 = i
      BY <2>1
    <3>2. f[i] = f[i - 1] \o ss[i]
      BY <3>1 DEF Joins
    <3>3. ss[i] \in Seq(Nat)
      BY DEF Bytes
    <3>4. << >> \o ss[i] = ss[i]
      BY <3>3, ConcatEmptySeq
    <3>5. f[0] = << >>
      BY DEF Joins
    <3>6. CASE i = 1
      <4>1. i - 1 = 0
        BY <3>6
      <4>2. f[i - 1] = << >>
        BY <3>5, <4>1
      <4> QED BY <3>2, <3>4, <3>6, <4>2
    <3> QED BY <3>2, <3>6
  <2> DEFINE g == [i \in 1..L |-> f[i]]
  <2>4. Whole(g)
    <3>1. \A i \in 1..L : i # 1 => i - 1 \in 1..L
      BY <2>1
    <3>2. \A i \in 1..L : g[i] = IF i = 1 THEN ss[i] ELSE g[i - 1] \o ss[i]
      BY <2>3, <3>1
    <3> QED BY <3>2
  <2>5. Whole(flat)
    <3> HIDE DEF Whole
    <3> QED BY <2>4
  <2> HIDE DEF flat
  <2> DEFINE T == {i \in Nat : i + 1 <= L => flat[i + 1] = f[i + 1]}
  <2>6. 0 \in T
    <3>1. 1 \in 1..L
      BY <2>1
    <3>2. flat[1] = ss[1] /\ f[1] = ss[1]
      BY <2>3, <2>5, <3>1
    <3> QED BY <3>2
  <2>7. ASSUME NEW i \in Nat, i \in T PROVE i + 1 \in T
    <3> SUFFICES ASSUME (i + 1) + 1 <= L PROVE flat[(i + 1) + 1] = f[(i + 1) + 1]
      OBVIOUS
    <3>1. (i + 1) + 1 \in 1..L /\ ((i + 1) + 1) - 1 = i + 1 /\ (i + 1) + 1 # 1
      BY <2>1
    <3>2. flat[i + 1] = f[i + 1]
      BY <2>7, <3>1
    <3>3. flat[(i + 1) + 1] = flat[i + 1] \o ss[(i + 1) + 1]
      BY <2>5, <3>1
    <3>4. f[(i + 1) + 1] = f[i + 1] \o ss[(i + 1) + 1]
      BY <2>3, <3>1
    <3> QED BY <3>2, <3>3, <3>4
  <2>8. Nat \subseteq T
    <3> HIDE DEF T
    <3> QED BY <2>6, <2>7, Induction
  <2>9. flat[(L - 1) + 1] = f[(L - 1) + 1]
    <3>1. L - 1 \in Nat /\ (L - 1) + 1 <= L
      BY <2>1
    <3> QED BY <2>8, <3>1
  <2>10. (L - 1) + 1 = L
    BY <2>1
  <2> QED BY <2>2, <2>9, <2>10
<1> QED BY <1>1, <1>2

\* Neither of two sequences begins the other, unless they are the same.
Delimited(a, b) == \A x, y \in Bytes : a \o x = b \o y => a = b /\ x = y

LEMMA Joined ==
  ASSUME NEW a \in Bytes, NEW b \in Bytes
  PROVE  a \o b \in Bytes
  BY ConcatProperties DEF Bytes

LEMMA Associative ==
  ASSUME NEW a \in Bytes, NEW b \in Bytes, NEW x \in Bytes
  PROVE  (a \o b) \o x = a \o (b \o x)
<1>1. a \in Seq(Nat) /\ b \in Seq(Nat) /\ x \in Seq(Nat)
  BY DEF Bytes
<1> QED BY <1>1, ConcatAssociative, SMTT(30)

\* The same, for where the provers would regroup for ever.
Regroups(a, b, x) == (a \o b) \o x = a \o (b \o x)

LEMMA AssociativeAll == \A a, b, x \in Bytes : Regroups(a, b, x)
  BY Associative, Zenon DEF Regroups

\* Of two parts in a row that are each delimited, so is the whole; the second
\* need only be so where the first do not differ.
LEMMA BothDelimited ==
  ASSUME NEW a \in Bytes, NEW b \in Bytes, NEW c \in Bytes, NEW d \in Bytes
  PROVE  Delimited(a, c) /\ (a = c => Delimited(b, d)) => Delimited(a \o b, c \o d)
<1>1. ASSUME NEW x \in Bytes, NEW y \in Bytes
      PROVE  /\ b \o x \in Bytes /\ (a \o b) \o x = a \o (b \o x)
             /\ d \o y \in Bytes /\ (c \o d) \o y = c \o (d \o y)
  <2>1. b \o x \in Bytes /\ d \o y \in Bytes
    BY Joined
  <2>2. Regroups(a, b, x) /\ Regroups(c, d, y)
    BY AssociativeAll
  <2> QED BY <2>1, <2>2 DEF Regroups
<1> SUFFICES ASSUME Delimited(a, c), a = c => Delimited(b, d), NEW x \in Bytes, NEW y \in Bytes
             PROVE  (a \o b) \o x = (c \o d) \o y => a \o b = c \o d /\ x = y
  BY DEF Delimited
<1>2. a \o (b \o x) = c \o (d \o y) => b \o x = d \o y /\ a = c
  <2>1. b \o x \in Bytes /\ d \o y \in Bytes
    BY <1>1
  <2> QED BY <2>1 DEF Delimited
<1>3. a = c /\ b \o x = d \o y => x = y /\ b = d
  BY DEF Delimited
<1> QED BY <1>1, <1>2, <1>3

LEMMA BothKnown ==
  ASSUME NEW a \in Bytes, NEW b \in Bytes, NEW c \in Bytes, NEW d \in Bytes
  PROVE  Delimited(a, c) /\ a \o b = c \o d => a = c /\ b = d
  BY DEF Delimited

LEMMA JoinsDelimited ==
  ASSUME NEW ss \in Seq(Bytes), NEW tt \in Seq(Bytes), NEW f, NEW g, Joins(f, ss), Joins(g, tt),
         NEW n \in Nat, n <= Len(ss), n <= Len(tt),
         \A k \in 1..n : Delimited(ss[k], tt[k])
  PROVE  /\ Delimited(f[n], g[n])
         /\ f[n] = g[n] => \A k \in 1..n : ss[k] = tt[k]
<1> DEFINE Same(i) == \A k \in 1..i : ss[k] = tt[k]
           Known(i) == Delimited(f[i], g[i]) /\ (f[i] = g[i] => Same(i))
           S == {i \in Nat : i <= n => Known(i)}
<1> HIDE DEF Known
<1>1. 0 \in S
  <2>1. f[0] = << >> /\ g[0] = << >>
    BY DEF Joins
  <2>2. \A u \in Bytes : << >> \o u = u
    BY ConcatEmptySeq DEF Bytes
  <2>3. Known(0)
    BY <2>1, <2>2 DEF Delimited, Known
  <2> QED BY <2>3
<1>2. ASSUME NEW i \in Nat, i \in S PROVE i + 1 \in S
  <2> SUFFICES ASSUME i + 1 <= n PROVE Known(i + 1)
    OBVIOUS
  <2>1. i + 1 \in 1..Len(ss) /\ i + 1 \in 1..Len(tt) /\ i + 1 \in 1..n
    BY LenProperties
  <2> DEFINE a == ss[i + 1]
             b == tt[i + 1]
             p == f[i]
             q == g[i]
  <2>2. a \in Bytes /\ b \in Bytes /\ p \in Bytes /\ q \in Bytes
    BY <2>1 DEF Joins
  <2>3. f[i + 1] = p \o a /\ g[i + 1] = q \o b
    <3>1. i \in 0..(Len(ss) - 1) /\ i \in 0..(Len(tt) - 1)
      BY <2>1, LenProperties
    <3> QED BY <3>1 DEF Joins
  <2>4. Delimited(a, b)
    BY <2>1
  <2>5. Delimited(p, q) /\ (p = q => Same(i))
    BY <1>2, <2>1 DEF Known
  <2>6. Same(i) /\ a = b => Same(i + 1)
    <3>1. \A k \in 1..(i + 1) : k \in 1..i \/ k = i + 1
      OBVIOUS
    <3> QED BY <3>1
  <2> HIDE DEF a, b, p, q, Same, S
  <2>7. Delimited(p \o a, q \o b)
    BY <2>2, <2>4, <2>5, BothDelimited
  <2>8. p \o a = q \o b => p = q /\ a = b
    BY <2>2, <2>5, BothKnown
  <2> QED BY <2>3, <2>5, <2>6, <2>7, <2>8 DEF Known
<1>3. Nat \subseteq S
  <2> HIDE DEF S
  <2> QED BY <1>1, <1>2, Induction
<1>4. Known(n)
  BY <1>3
<1> QED BY <1>4 DEF Known

LEMMA FlattenType ==
  ASSUME NEW ss \in Seq(Bytes)
  PROVE  FlattenSeq(ss) \in Bytes
<1>1. PICK f : Joins(f, ss)
  BY JoinsExist
<1>2. Len(ss) \in Nat /\ f \in [Nat -> Bytes]
  BY <1>1 DEF Joins
<1>3. FlattenSeq(ss) = f[Len(ss)]
  BY <1>1, FlattenJoins
<1> QED BY <1>2, <1>3

\* As many parts, each delimited: so is the whole, which tells the parts.
LEMMA FlattenDelimited ==
  ASSUME NEW ss \in Seq(Bytes), NEW tt \in Seq(Bytes), Len(ss) = Len(tt),
         \A k \in 1..Len(ss) : Delimited(ss[k], tt[k])
  PROVE  /\ Delimited(FlattenSeq(ss), FlattenSeq(tt))
         /\ FlattenSeq(ss) = FlattenSeq(tt) => ss = tt
<1>1. PICK f : Joins(f, ss)
  BY JoinsExist
<1>2. PICK g : Joins(g, tt)
  BY JoinsExist
<1>3. PICK n \in Nat : n = Len(ss) /\ n = Len(tt)
  BY LenProperties
<1>4. FlattenSeq(ss) = f[n]
  BY <1>1, <1>3, FlattenJoins
<1>5. FlattenSeq(tt) = g[n]
  BY <1>2, <1>3, FlattenJoins
<1>6. Delimited(f[n], g[n]) /\ (f[n] = g[n] => \A k \in 1..n : ss[k] = tt[k])
  BY <1>1, <1>2, <1>3, JoinsDelimited
<1>7. (\A k \in 1..n : ss[k] = tt[k]) => ss = tt
  BY <1>3, SeqEqual
<1> QED BY <1>4, <1>5, <1>6, <1>7

\* Bytes one by one are the bytes.
Singles(s) == [k \in DOMAIN s |-> <<s[k]>>]

LEMMA SinglesType ==
  ASSUME NEW s \in Bytes
  PROVE  Singles(s) \in Seq(Bytes) /\ Len(Singles(s)) = Len(s)
         /\ \A k \in 1..Len(s) : Singles(s)[k] = <<s[k]>>
<1>1. DOMAIN s = 1..Len(s) /\ Len(s) \in Nat /\ \A k \in 1..Len(s) : s[k] \in Nat
  BY DEF Bytes
<1>2. \A k \in 1..Len(s) : <<s[k]>> \in Bytes
  BY <1>1 DEF Bytes
<1> QED BY <1>1, <1>2 DEF Singles

LEMMA FlattenSingles ==
  ASSUME NEW s \in Bytes
  PROVE  FlattenSeq(Singles(s)) = s
<1>1. PICK f : Joins(f, Singles(s))
  BY SinglesType, JoinsExist
<1>2. PICK L \in Nat : L = Len(s) /\ L = Len(Singles(s))
  BY SinglesType DEF Bytes
<1> DEFINE Begins(i) == Len(f[i]) = i /\ \A k \in 1..i : f[i][k] = s[k]
           S == {i \in Nat : i <= L => Begins(i)}
<1>3. 0 \in S
  BY <1>1 DEF Joins
<1>4. ASSUME NEW i \in Nat, i \in S PROVE i + 1 \in S
  <2> SUFFICES ASSUME i + 1 <= L PROVE Begins(i + 1)
    OBVIOUS
  <2>1. i \in 0..(L - 1) /\ i + 1 \in 1..L
    OBVIOUS
  <2>2. f[i + 1] = f[i] \o Singles(s)[i + 1] /\ f[i] \in Seq(Nat)
    BY <1>1, <1>2, <2>1 DEF Joins, Bytes
  <2>3. Singles(s)[i + 1] = <<s[i + 1]>> /\ s[i + 1] \in Nat
    BY <1>2, <2>1, SinglesType DEF Bytes
  <2>4. PICK p \in Seq(Nat), n \in Nat : p = f[i] /\ n = s[i + 1]
    BY <2>2, <2>3
  <2>5. Len(p) = i /\ \A k \in 1..i : p[k] = s[k]
    BY <1>4, <2>1, <2>4
  <2>6. f[i + 1] = p \o <<n>>
    BY <2>2, <2>3, <2>4
  <2>7. Len(p \o <<n>>) = i + 1
    BY <2>5
  <2>8. ASSUME NEW k \in 1..(i + 1) PROVE (p \o <<n>>)[k] = s[k]
    <3>1. CASE k = i + 1
      <4>1. <<n>> \in Seq(Nat) /\ 1 \in 1..Len(<<n>>) /\ <<n>>[1] = n
        OBVIOUS
      <4>2. (p \o <<n>>)[Len(p) + 1] = n
        BY <4>1, SecondPart
      <4>3. (p \o <<n>>)[k] = n
        BY <2>5, <3>1, <4>2
      <4> QED BY <2>4, <3>1, <4>3
    <3>2. CASE k # i + 1
      <4>1. k \in 1..i
        BY <3>2
      <4>2. (p \o <<n>>)[k] = p[k]
        BY <2>5, <4>1
      <4> QED BY <2>5, <4>1, <4>2
    <3> QED BY <3>1, <3>2
  <2> QED BY <2>6, <2>7, <2>8
<1>5. Nat \subseteq S
  <2> HIDE DEF S
  <2> QED BY <1>3, <1>4, Induction
<1>6. Begins(L)
  BY <1>5
<1>7. f[L] \in Seq(Nat)
  BY <1>1 DEF Joins, Bytes
<1>8. f[L] = s
  <2>1. Len(f[L]) = Len(s) /\ \A k \in 1..Len(f[L]) : f[L][k] = s[k]
    BY <1>2, <1>6
  <2> QED BY <1>7, <2>1, SeqEqual DEF Bytes
<1>9. FlattenSeq(Singles(s)) = f[L]
  BY <1>1, <1>2, SinglesType, FlattenJoins
<1> QED BY <1>8, <1>9

-----------------------------------------------------------------------------
(* What ContentHash feeds to the hasher.                                   *)

LEMMA Widths ==
  /\ LenBytes \in Nat /\ LenBytes > 1 /\ LenBytes - 1 \in Nat
  /\ Weight[LenBytes] = 256 * Weight[LenBytes - 1]
  /\ Weight[LenBytes - 1] \in Nat /\ Weight[LenBytes - 1] > 0
<1>1. LenBytes \in Nat /\ LenBytes > 1 /\ LenBytes - 1 \in Nat /\ (LenBytes - 1) + 1 = LenBytes
  BY LenBytesAssumption, LengthsAssumption
<1>2. Weight[(LenBytes - 1) + 1] = 256 * Weight[LenBytes - 1]
  BY <1>1, WeightDef
<1> QED BY <1>1, <1>2, WeightPositive

LEMMA LengthType ==
  ASSUME NEW n \in Nat
  PROVE  Length(n) \in Bytes /\ Len(Length(n)) = LenBytes
  BY LittleEndianBytes, Widths DEF Length

\* The length of whatever is short enough is known from its bytes.
LEMMA LengthKnown ==
  ASSUME NEW m \in Nat, NEW n \in Nat,
         m < 128 * Weight[LenBytes - 1], n < 128 * Weight[LenBytes - 1]
  PROVE  /\ Delimited(Length(m), Length(n))
         /\ Length(m) = Length(n) => m = n
<1>1. Length(m) \in Bytes /\ Length(n) \in Bytes /\ Len(Length(m)) = Len(Length(n))
  BY LengthType
<1>2. ASSUME NEW x \in Bytes, NEW y \in Bytes
      PROVE  Length(m) \o x = Length(n) \o y => Length(m) = Length(n) /\ x = y
  BY <1>1, Cancel DEF Bytes
<1>3. m < Weight[LenBytes] /\ n < Weight[LenBytes]
  BY Widths
<1>4. Length(m) = Length(n) => m = n
  BY <1>3, Widths, LittleEndianInjective DEF Length
<1> QED BY <1>2, <1>4 DEF Delimited

\* A slice is delimited if its elements are, and tells them.
LEMMA SliceDelimited ==
  ASSUME NEW ss \in Seq(Bytes), NEW tt \in Seq(Bytes), Short(ss), Short(tt),
         \A k \in (1..Len(ss)) \cap (1..Len(tt)) : Delimited(ss[k], tt[k])
  PROVE  /\ HashSlice(ss) \in Bytes /\ HashSlice(tt) \in Bytes
         /\ Delimited(HashSlice(ss), HashSlice(tt))
         /\ HashSlice(ss) = HashSlice(tt) => ss = tt
<1> DEFINE m == Len(ss)
           n == Len(tt)
           s == FlattenSeq(ss)
           t == FlattenSeq(tt)
<1>1. m \in Nat /\ n \in Nat
  BY LenProperties
<1>2. s \in Bytes /\ t \in Bytes
  BY FlattenType
<1>3. Length(m) \in Bytes /\ Length(n) \in Bytes
  BY <1>1, LengthType
<1>4. Delimited(Length(m), Length(n)) /\ (Length(m) = Length(n) => m = n)
  BY <1>1, LengthKnown DEF Short
<1>5. m = n => Delimited(s, t) /\ (s = t => ss = tt)
  BY FlattenDelimited
<1>6. HashSlice(ss) = Length(m) \o s /\ HashSlice(tt) = Length(n) \o t
  BY DEF HashSlice
<1> HIDE DEF m, n, s, t
<1>7. Length(m) \o s \in Bytes /\ Length(n) \o t \in Bytes
  BY <1>2, <1>3, Joined
<1>8. Length(m) \o s = Length(n) \o t => ss = tt
  BY <1>2, <1>3, <1>4, <1>5, BothKnown
<1>9. Delimited(Length(m) \o s, Length(n) \o t)
  <2>1. Length(m) = Length(n) => Delimited(s, t)
    BY <1>4, <1>5
  <2> QED BY <1>2, <1>3, <1>4, <2>1, BothDelimited
<1> QED BY <1>6, <1>7, <1>8, <1>9

\* A string is its length and its bytes, and is known from them.
LEMMA HashBytesIs ==
  ASSUME NEW s \in Bytes
  PROVE  HashBytes(s) = Length(Len(s)) \o s /\ HashBytes(s) \in Bytes
<1>1. HashBytes(s) = HashSlice(Singles(s))
  BY DEF HashBytes, HashU8, Singles
<1>2. HashSlice(Singles(s)) = Length(Len(s)) \o s
  BY SinglesType, FlattenSingles DEF HashSlice
<1>3. Length(Len(s)) \in Bytes
  BY LengthType DEF Bytes
<1> QED BY <1>1, <1>2, <1>3, Joined

LEMMA HashBytesDelimited ==
  ASSUME NEW s \in Bytes, NEW t \in Bytes, Short(s), Short(t)
  PROVE  /\ Delimited(HashBytes(s), HashBytes(t))
         /\ HashBytes(s) = HashBytes(t) => s = t
<1> DEFINE ss == Singles(s)
           tt == Singles(t)
<1>1. HashBytes(s) = HashSlice(ss) /\ HashBytes(t) = HashSlice(tt)
  BY DEF HashBytes, HashU8, Singles
<1>2. ss \in Seq(Bytes) /\ tt \in Seq(Bytes) /\ Short(ss) /\ Short(tt)
  BY SinglesType DEF Short
<1>3. ASSUME NEW k \in (1..Len(ss)) \cap (1..Len(tt)) PROVE Delimited(ss[k], tt[k])
  <2>0. k \in 1..Len(s) /\ k \in 1..Len(t)
    BY SinglesType
  <2>1. ss[k] = <<s[k]>> /\ tt[k] = <<t[k]>> /\ s[k] \in Nat /\ t[k] \in Nat
    <3>1. ss[k] = <<s[k]>> /\ tt[k] = <<t[k]>>
      BY <2>0, SinglesType
    <3>2. s[k] \in Nat /\ t[k] \in Nat
      BY <2>0 DEF Bytes
    <3> QED BY <3>1, <3>2
  <2>2. ASSUME NEW i \in Nat, NEW j \in Nat PROVE Delimited(<<i>>, <<j>>)
    BY CancelFirst, SMTT(30) DEF Delimited
  <2> QED BY <2>1, <2>2
<1>4. FlattenSeq(ss) = s /\ FlattenSeq(tt) = t
  BY FlattenSingles
<1> HIDE DEF ss, tt
<1>5. Delimited(HashSlice(ss), HashSlice(tt)) /\ (HashSlice(ss) = HashSlice(tt) => ss = tt)
  BY <1>2, <1>3, SliceDelimited
<1> QED BY <1>1, <1>4, <1>5

\* The trees of Store that can be hashed.
StoredValues ==
  [kind : {"File"}, id : Bytes, executable : BOOLEAN] \cup
  [kind : {"SymlinkId", "TreeId"}, id : Bytes]
StoredTrees ==
  {tree \in Seq([name : Bytes, value : StoredValues]) :
     Short(tree) /\ \A k \in DOMAIN tree : Short(tree[k].name) /\ Short(tree[k].value.id)}

\* The bytes of an entry: its tag, its id and, of a file, whether it can be run.
Runs(value) == IF value.kind = "File" THEN HashBool(value.executable) ELSE << >>

LEMMA EntryParts ==
  ASSUME NEW v \in StoredValues
  PROVE  /\ v.id \in Bytes /\ Tag[v.kind] \in Bytes /\ Runs(v) \in Bytes
         /\ HashTreeEntry(v) = (Tag[v.kind] \o HashBytes(v.id)) \o Runs(v)
         /\ HashTreeEntry(v) \in Bytes
<1>1. v.id \in Bytes /\ v.kind \in {"File", "SymlinkId", "TreeId"}
  BY DEF StoredValues
<1>2. Tag[v.kind] \in Bytes
  <2>1. \E m \in Nat : Tag[v.kind] = <<m>>
    BY <1>1 DEF Tag
  <2> QED BY <2>1 DEF Bytes
<1>3. Runs(v) \in Bytes
  BY DEF Runs, HashBool, Bytes
<1>4. HashTreeEntry(v) = (Tag[v.kind] \o HashBytes(v.id)) \o Runs(v)
  BY DEF HashTreeEntry, Runs
<1>5. HashBytes(v.id) \in Bytes
  BY <1>1, HashBytesIs
<1>6. Tag[v.kind] \o HashBytes(v.id) \in Bytes
  BY <1>2, <1>5, Joined
<1>7. (Tag[v.kind] \o HashBytes(v.id)) \o Runs(v) \in Bytes
  BY <1>3, <1>6, Joined
<1> QED BY <1>1, <1>2, <1>3, <1>4, <1>7

LEMMA SingleDelimited ==
  ASSUME NEW m \in Nat, NEW n \in Nat
  PROVE  Delimited(<<m>>, <<n>>)
  BY CancelFirst DEF Delimited

LEMMA TagKnown ==
  ASSUME NEW v \in StoredValues, NEW w \in StoredValues
  PROVE  /\ Delimited(Tag[v.kind], Tag[w.kind])
         /\ Tag[v.kind] = Tag[w.kind] => v.kind = w.kind
<1>1. v.kind \in {"File", "SymlinkId", "TreeId"} /\ w.kind \in {"File", "SymlinkId", "TreeId"}
  BY DEF StoredValues
<1>2. \E m \in Nat : Tag[v.kind] = <<m>>
  BY <1>1 DEF Tag
<1>3. \E n \in Nat : Tag[w.kind] = <<n>>
  BY <1>1 DEF Tag
<1>4. Tag[v.kind] = Tag[w.kind] => v.kind = w.kind
  BY <1>1 DEF Tag
<1> QED BY <1>2, <1>3, <1>4, SingleDelimited

LEMMA RunsKnown ==
  ASSUME NEW v \in StoredValues, NEW w \in StoredValues, v.kind = w.kind
  PROVE  /\ Delimited(Runs(v), Runs(w))
         /\ Runs(v) = Runs(w) /\ v.id = w.id => v = w
<1>1. CASE v.kind = "File"
  <2>1. v.executable \in BOOLEAN /\ w.executable \in BOOLEAN
    BY <1>1 DEF StoredValues
  <2>2. /\ v \in [kind : {"File"}, id : Bytes, executable : BOOLEAN]
        /\ w \in [kind : {"File"}, id : Bytes, executable : BOOLEAN]
    BY <1>1 DEF StoredValues
  <2>3. Runs(v) = HashBool(v.executable) /\ Runs(w) = HashBool(w.executable)
    BY <1>1 DEF Runs
  <2>4. HashBool(v.executable) = HashBool(w.executable) => v.executable = w.executable
    BY <2>1 DEF HashBool
  <2>5. v.id = w.id /\ v.executable = w.executable => v = w
    BY <2>2
  <2>6. Delimited(HashBool(v.executable), HashBool(w.executable))
    <3>1. \E m \in Nat : HashBool(v.executable) = <<m>>
      BY DEF HashBool
    <3>2. \E n \in Nat : HashBool(w.executable) = <<n>>
      BY DEF HashBool
    <3> QED BY <3>1, <3>2, SingleDelimited
  <2> QED BY <2>3, <2>4, <2>5, <2>6
<1>2. CASE v.kind # "File"
  <2>1. /\ v \in [kind : {"SymlinkId", "TreeId"}, id : Bytes]
        /\ w \in [kind : {"SymlinkId", "TreeId"}, id : Bytes]
    BY <1>2 DEF StoredValues
  <2>2. v.id = w.id => v = w
    BY <2>1
  <2>3. Runs(v) = << >> /\ Runs(w) = << >>
    BY <1>2 DEF Runs
  <2>4. \A x \in Bytes : << >> \o x = x
    BY ConcatEmptySeq DEF Bytes
  <2>5. Delimited(<< >>, << >>)
    BY <2>4 DEF Delimited
  <2> QED BY <2>2, <2>3, <2>5
<1> QED BY <1>1, <1>2

LEMMA EntryDelimited ==
  ASSUME NEW v \in StoredValues, NEW w \in StoredValues, Short(v.id), Short(w.id)
  PROVE  /\ Delimited(HashTreeEntry(v), HashTreeEntry(w))
         /\ HashTreeEntry(v) = HashTreeEntry(w) => v = w
<1> DEFINE a == Tag[v.kind]
           b == HashBytes(v.id)
           c == Tag[w.kind]
           d == HashBytes(w.id)
           r == Runs(v)
           s == Runs(w)
<1>1. /\ a \in Bytes /\ b \in Bytes /\ c \in Bytes /\ d \in Bytes /\ r \in Bytes /\ s \in Bytes
      /\ HashTreeEntry(v) = (a \o b) \o r /\ HashTreeEntry(w) = (c \o d) \o s
  BY EntryParts, HashBytesIs
<1>2. Delimited(a, c) /\ (a = c => v.kind = w.kind)
  BY TagKnown
<1>3. Delimited(b, d) /\ (b = d => v.id = w.id)
  BY EntryParts, HashBytesDelimited
<1>4. v.kind = w.kind => Delimited(r, s) /\ (r = s /\ v.id = w.id => v = w)
  BY RunsKnown
<1> HIDE DEF a, b, c, d, r, s
<1>5. a \o b \in Bytes /\ c \o d \in Bytes
  BY <1>1, Joined
<1>6. Delimited(a \o b, c \o d)
  BY <1>1, <1>2, <1>3, BothDelimited
<1>9. a \o b = c \o d => a = c /\ b = d
  BY <1>1, <1>2, BothKnown
<1>7. Delimited((a \o b) \o r, (c \o d) \o s)
  <2>1. a \o b = c \o d => Delimited(r, s)
    BY <1>2, <1>4, <1>9
  <2> QED BY <1>1, <1>5, <1>6, <2>1, BothDelimited
<1>8. (a \o b) \o r = (c \o d) \o s => a \o b = c \o d /\ r = s
  BY <1>1, <1>5, <1>6, BothKnown
<1> QED BY <1>1, <1>2, <1>3, <1>4, <1>7, <1>8, <1>9

\* A tree is known from what Tree::get_hash feeds to the hasher: no name, id or
\* tag of it can be read as part of its neighbour.
THEOREM HashTreeKnown ==
  ASSUME NEW t \in StoredTrees, NEW u \in StoredTrees
  PROVE  HashTree(t) = HashTree(u) => t = u
<1> DEFINE Code(e) == HashPair(HashBytes(e.name), HashTreeEntry(e.value))
           Codes(tree) == [k \in DOMAIN tree |-> Code(tree[k])]
           Entries == [name : Bytes, value : StoredValues]
           Fits(e) == e \in Entries /\ Short(e.name) /\ Short(e.value.id)
<1>1. ASSUME NEW tree \in StoredTrees
      PROVE  /\ tree \in Seq(Entries) /\ Short(tree) /\ Len(tree) \in Nat /\ DOMAIN tree = 1..Len(tree)
             /\ \A k \in 1..Len(tree) : Fits(tree[k])
  <2> HIDE DEF Entries
  <2>1. tree \in Seq(Entries) /\ Short(tree)
        /\ \A k \in DOMAIN tree : Short(tree[k].name) /\ Short(tree[k].value.id)
    BY DEF StoredTrees, Entries
  <2>2. Len(tree) \in Nat /\ DOMAIN tree = 1..Len(tree)
    BY <2>1, LenProperties
  <2>3. \A k \in 1..Len(tree) : tree[k] \in Entries
    BY <2>1, ElementOfSeq
  <2> QED BY <2>1, <2>2, <2>3
<1>2. ASSUME NEW e, Fits(e) PROVE Code(e) \in Bytes
  <2>1. HashBytes(e.name) \in Bytes /\ HashTreeEntry(e.value) \in Bytes
    BY <1>2, HashBytesIs, EntryParts
  <2> QED BY <2>1, Joined DEF HashPair
<1>3. ASSUME NEW e, NEW g, Fits(e), Fits(g)
      PROVE  Delimited(Code(e), Code(g)) /\ (Code(e) = Code(g) => e = g)
  <2> DEFINE a == HashBytes(e.name)
             b == HashTreeEntry(e.value)
             c == HashBytes(g.name)
             d == HashTreeEntry(g.value)
  <2>1. a \in Bytes /\ b \in Bytes /\ c \in Bytes /\ d \in Bytes
    BY <1>3, HashBytesIs, EntryParts
  <2>2. Delimited(a, c) /\ (a = c => e.name = g.name)
    BY <1>3, HashBytesDelimited
  <2>3. Delimited(b, d) /\ (b = d => e.value = g.value)
    BY <1>3, EntryDelimited
  <2>4. e.name = g.name /\ e.value = g.value => e = g
    BY <1>3
  <2> HIDE DEF a, b, c, d
  <2>5. Delimited(a \o b, c \o d)
    BY <2>1, <2>2, <2>3, BothDelimited
  <2>6. a \o b = c \o d => a = c /\ b = d
    BY <2>1, <2>2, BothKnown
  <2>7. Code(e) = a \o b /\ Code(g) = c \o d
    BY DEF a, b, c, d, HashPair
  <2> HIDE DEF Code
  <2> QED BY <2>2, <2>3, <2>4, <2>5, <2>6, <2>7
<1> HIDE DEF Code, Fits
<1>4. ASSUME NEW tree \in StoredTrees
      PROVE  Codes(tree) \in Seq(Bytes) /\ Len(Codes(tree)) = Len(tree) /\ Short(Codes(tree))
  BY <1>1, <1>2 DEF Short
<1>5. \A k \in (1..Len(Codes(t))) \cap (1..Len(Codes(u))) : Delimited(Codes(t)[k], Codes(u)[k])
  BY <1>1, <1>3, <1>4
<1>6. HashTree(t) = HashSlice(Codes(t)) /\ HashTree(u) = HashSlice(Codes(u))
  BY DEF HashTree, Code
<1>7. Codes(t) = Codes(u) => t = u
  <2> SUFFICES ASSUME Codes(t) = Codes(u) PROVE t = u
    OBVIOUS
  <2>1. Len(t) = Len(u)
    BY <1>4
  <2>2. \A k \in 1..Len(t) : t[k] = u[k]
    <3> TAKE k \in 1..Len(t)
    <3>1. Codes(t)[k] = Code(t[k]) /\ Codes(u)[k] = Code(u[k])
      BY <1>1, <2>1
    <3> QED BY <1>1, <1>3, <2>1, <3>1
  <2> QED BY <1>1, <2>1, <2>2, SeqEqual
<1> HIDE DEF Codes
<1> QED BY <1>4, <1>5, <1>6, <1>7, SliceDelimited

-----------------------------------------------------------------------------
(* The fields of a protobuf message, in the order of their tags.           *)

\* What is left of a message after the fields with smaller tags.
AtLeast(tag) == {x \in Bytes : x # << >> => x[1] >= tag}

\* A field is left out or begins with its tag.
Field(tag, p) == p \in Bytes /\ (p # << >> => \E y \in Bytes : p = <<tag>> \o y)

\* A field is known from any message that goes on with greater tags.
FieldKnown(tag, p, q) ==
  \A x, y \in AtLeast(tag + 1) : p \o x = q \o y => p = q /\ x = y

LEMMA FirstOf ==
  ASSUME NEW tag \in Nat, NEW y \in Bytes
  PROVE  <<tag>> \o y \in Bytes /\ <<tag>> \o y # << >> /\ (<<tag>> \o y)[1] = tag
<1>1. <<tag>> \in Seq(Nat) /\ Len(<<tag>>) = 1 /\ <<tag>>[1] = tag /\ y \in Seq(Nat)
  BY DEF Bytes
<1>2. <<tag>> \o y \in Seq(Nat) /\ Len(<<tag>> \o y) = 1 + Len(y) /\ Len(y) \in Nat
  BY <1>1, ConcatProperties
<1>3. (<<tag>> \o y)[1] = tag
  BY <1>1
<1>4. <<tag>> \o y # << >>
  BY <1>2
<1> QED BY <1>2, <1>3, <1>4 DEF Bytes

\* A field in front of what may follow it, and of greater tags.
LEMMA FieldFirst ==
  ASSUME NEW tag \in Nat, NEW next \in Nat, tag <= next,
         NEW p, Field(tag, p), NEW x \in AtLeast(next)
  PROVE  p \o x \in AtLeast(tag)
<1>1. p \in Bytes /\ x \in Bytes
  BY DEF Field, AtLeast
<1>2. p \o x \in Bytes
  BY <1>1, Joined
<1>3. CASE p = << >>
  <2>1. p \o x = x
    BY <1>1, <1>3, ConcatEmptySeq DEF Bytes
  <2>2. x # << >> => x[1] \in Nat
    BY <1>1 DEF Bytes
  <2>3. x # << >> => x[1] >= next
    BY DEF AtLeast
  <2>4. x # << >> => x[1] >= tag
    BY <2>2, <2>3
  <2>5. x \in AtLeast(tag)
    BY <1>1, <2>4 DEF AtLeast
  <2> QED BY <2>1, <2>5
<1>4. CASE p # << >>
  <2>1. PICK y \in Bytes : p = <<tag>> \o y
    BY <1>4 DEF Field
  <2>2. <<tag>> \in Bytes
    BY DEF Bytes
  <2>3. p \o x = <<tag>> \o (y \o x)
    BY <1>1, <2>1, <2>2, Associative
  <2>4. y \o x \in Bytes
    BY <1>1, Joined
  <2>5. (p \o x)[1] = tag
    BY <2>3, <2>4, FirstOf
  <2>6. \A z \in Bytes : z[1] = tag => z \in AtLeast(tag)
    BY DEF AtLeast
  <2> QED BY <1>2, <2>5, <2>6
<1> QED BY <1>3, <1>4

LEMMA FieldAlone ==
  ASSUME NEW tag \in Nat, NEW p, Field(tag, p)
  PROVE  p \in AtLeast(tag)
<1>1. p # << >> => p[1] = tag
  BY FirstOf DEF Field
<1> QED BY <1>1 DEF Field, AtLeast

\* A field that is delimited where it is not left out is known.
LEMMA FieldParse ==
  ASSUME NEW tag \in Nat, NEW p, NEW q, Field(tag, p), Field(tag, q),
         p # << >> /\ q # << >> => Delimited(p, q)
  PROVE  FieldKnown(tag, p, q)
<1>1. ASSUME NEW r, Field(tag, r), r # << >>, NEW x \in AtLeast(tag + 1), NEW y \in AtLeast(tag + 1)
      PROVE  << >> \o x # r \o y
  <2>1. PICK z \in Bytes : r = <<tag>> \o z
    BY <1>1 DEF Field
  <2>2. x \in Bytes /\ y \in Bytes /\ <<tag>> \in Bytes
    BY DEF AtLeast, Bytes
  <2>3. r \o y = <<tag>> \o (z \o y)
    BY <2>1, <2>2, Associative
  <2>4. z \o y \in Bytes
    BY <2>2, Joined
  <2>5. (r \o y)[1] = tag /\ r \o y # << >>
    BY <2>3, <2>4, FirstOf
  <2>6. << >> \o x = x
    BY <2>2, ConcatEmptySeq DEF Bytes
  <2>7. x # << >> => x[1] \in Nat /\ x[1] >= tag + 1
    BY <2>2 DEF AtLeast, Bytes
  <2>8. x # r \o y
    BY <2>5, <2>7
  <2> QED BY <2>6, <2>8
<1> SUFFICES ASSUME NEW x \in AtLeast(tag + 1), NEW y \in AtLeast(tag + 1), p \o x = q \o y
             PROVE  p = q /\ x = y
  BY DEF FieldKnown
<1>2. x \in Bytes /\ y \in Bytes
  BY DEF AtLeast
<1>3. CASE p = << >> /\ q = << >>
  <2>1. << >> \o x = x /\ << >> \o y = y
    BY <1>2, ConcatEmptySeq DEF Bytes
  <2> QED BY <1>3, <2>1
<1>4. CASE p # << >> /\ q # << >>
  BY <1>2, <1>4 DEF Delimited
<1>5. CASE p = << >> /\ q # << >>
  BY <1>1, <1>5
<1>6. CASE p # << >> /\ q = << >>
  BY <1>1, <1>6
<1> QED BY <1>3, <1>4, <1>5, <1>6

\* The fields of the messages here, one kind after the other.
LEMMA MessageType ==
  ASSUME NEW number \in Nat, NEW b \in Bytes
  PROVE  /\ MessageField(number, b) \in Bytes /\ MessageField(number, b) # << >>
         /\ Field(8 * number + 2, MessageField(number, b))
<1> DEFINE t == 8 * number + 2
           v == Varint[Len(b)]
<1>1. t \in Nat /\ <<t>> \in Bytes /\ v \in Bytes
  BY VarintLength DEF Bytes
<1>2. MessageField(number, b) = (<<t>> \o v) \o b
  BY DEF MessageField
<1> HIDE DEF t, v
<1>3. (<<t>> \o v) \o b = <<t>> \o (v \o b)
  BY <1>1, Associative
<1>4. v \o b \in Bytes
  BY <1>1, Joined
<1> QED BY <1>1, <1>2, <1>3, <1>4, FirstOf DEF Field, t

LEMMA MessageDelimited ==
  ASSUME NEW number \in Nat, NEW b \in Bytes, NEW c \in Bytes
  PROVE  /\ Delimited(MessageField(number, b), MessageField(number, c))
         /\ MessageField(number, b) = MessageField(number, c) => b = c
<1> DEFINE t == <<8 * number + 2>>
           v == Varint[Len(b)]
           w == Varint[Len(c)]
<1>1. t \in Bytes /\ v \in Bytes /\ w \in Bytes /\ Len(b) \in Nat /\ Len(c) \in Nat
  <2>1. Len(b) \in Nat /\ Len(c) \in Nat
    BY LenProperties DEF Bytes
  <2>2. v \in Bytes /\ w \in Bytes
    BY <2>1, VarintLength
  <2>3. 8 * number + 2 \in Nat
    OBVIOUS
  <2>4. t \in Bytes
    BY <2>3 DEF Bytes
  <2> QED BY <2>1, <2>2, <2>4
<1>2. MessageField(number, b) = (t \o v) \o b /\ MessageField(number, c) = (t \o w) \o c
  BY DEF MessageField
<1>3. Delimited(v, w) /\ (v = w => Len(b) = Len(c))
  <2>1. \A x, y \in Bytes : v \o x = w \o y => Len(b) = Len(c) /\ x = y
    BY <1>1, VarintParse
  <2>2. << >> \in Bytes /\ v \o << >> = v /\ w \o << >> = w
    BY <1>1, ConcatEmptySeq DEF Bytes
  <2> QED BY <2>1, <2>2 DEF Delimited
<1>4. Delimited(t, t)
  <2>1. 8 * number + 2 \in Nat
    OBVIOUS
  <2> QED BY <2>1, SingleDelimited
<1>5. Len(b) = Len(c) => Delimited(b, c)
  BY Cancel DEF Bytes, Delimited
<1> HIDE DEF t, v, w
<1>6. t \o v \in Bytes /\ t \o w \in Bytes
  BY <1>1, Joined
<1>7. Delimited(t \o v, t \o w)
  BY <1>1, <1>3, <1>4, BothDelimited
<1>8. t \o v = t \o w => v = w
  BY <1>1, <1>4, BothKnown
<1>9. Delimited((t \o v) \o b, (t \o w) \o c)
  BY <1>3, <1>5, <1>6, <1>7, <1>8, BothDelimited
<1>10. (t \o v) \o b = (t \o w) \o c => t \o v = t \o w /\ b = c
  <2>1. \A p, q \in Bytes : Delimited(p, q) => (p \o b = q \o c => p = q /\ b = c)
    BY BothKnown
  <2> QED BY <1>6, <1>7, <2>1
<1> QED BY <1>2, <1>9, <1>10

LEMMA MessageFieldKnown ==
  ASSUME NEW number \in Nat, NEW b \in Bytes, NEW c \in Bytes
  PROVE  FieldKnown(8 * number + 2, MessageField(number, b), MessageField(number, c))
<1>1. 8 * number + 2 \in Nat
  OBVIOUS
<1> QED BY <1>1, MessageType, MessageDelimited, FieldParse

LEMMA BytesFieldKnown ==
  ASSUME NEW number \in Nat, NEW b \in Bytes, NEW c \in Bytes
  PROVE  /\ Field(8 * number + 2, BytesField(number, b))
         /\ FieldKnown(8 * number + 2, BytesField(number, b), BytesField(number, c))
         /\ BytesField(number, b) = BytesField(number, c) => b = c
<1> DEFINE t == 8 * number + 2
<1>1. t \in Nat
  OBVIOUS
<1>2. ASSUME NEW s \in Bytes
      PROVE  /\ Field(t, BytesField(number, s))
             /\ BytesField(number, s) = << >> <=> s = << >>
             /\ s # << >> => BytesField(number, s) = MessageField(number, s)
  <2>1. Field(t, << >>)
    BY DEF Field, Bytes
  <2>2. Field(t, MessageField(number, s)) /\ MessageField(number, s) # << >>
    BY MessageType
  <2> QED BY <2>1, <2>2 DEF BytesField
<1>3. /\ Delimited(MessageField(number, b), MessageField(number, c))
      /\ MessageField(number, b) = MessageField(number, c) => b = c
  BY MessageDelimited
<1> DEFINE p == BytesField(number, b)
           q == BytesField(number, c)
<1>4. p # << >> /\ q # << >> => Delimited(p, q)
  BY <1>2, <1>3
<1>5. p = q => b = c
  BY <1>2, <1>3
<1>6. Field(t, p) /\ Field(t, q)
  BY <1>2
<1> HIDE DEF p, q, t
<1>7. FieldKnown(t, p, q)
  BY <1>1, <1>4, <1>6, FieldParse
<1> QED BY <1>5, <1>6, <1>7 DEF p, q, t

\* The two's complement of an integer is known from it.
LEMMA Factor ==
  ASSUME NEW w \in Nat, w > 0, NEW i \in Int, NEW j \in Int,
         -w < w * i - w * j, w * i - w * j < w
  PROVE  i = j
<1>1. w * i - w * j = w * (i - j)
  OBVIOUS
<1>2. ASSUME i > j PROVE FALSE
  <2>1. i - j >= 1
    BY <1>2
  <2>2. w * (i - j) >= w
    BY <2>1
  <2> QED BY <1>1, <2>2
<1>3. ASSUME i < j PROVE FALSE
  <2>1. j - i >= 1
    BY <1>3
  <2>2. w * (j - i) >= w
    BY <2>1
  <2>3. w * (i - j) = -(w * (j - i))
    OBVIOUS
  <2> QED BY <1>1, <2>2, <2>3
<1> QED BY <1>2, <1>3

LEMMA Complement ==
  ASSUME NEW m \in Int
  PROVE  m % WireInt \in Nat
  BY BoundsAssumption

LEMMA ComplementKnown ==
  ASSUME NEW m \in Wire, NEW n \in Wire
  PROVE  m % WireInt = n % WireInt => m = n
<1> SUFFICES ASSUME m % WireInt = n % WireInt PROVE m = n
  OBVIOUS
<1>1. WireInt \in Nat /\ WireInt > 0
  BY BoundsAssumption
<1>2. /\ m \in Int /\ -WireInt <= 2 * m /\ 2 * m < WireInt
      /\ n \in Int /\ -WireInt <= 2 * n /\ 2 * n < WireInt
  BY DEF Wire
<1>3. PICK i \in Int : m = WireInt * i + (m % WireInt)
  <2>1. m \div WireInt \in Int /\ m = WireInt * (m \div WireInt) + (m % WireInt)
    BY <1>1, <1>2
  <2> QED BY <2>1
<1>4. PICK j \in Int : n = WireInt * j + (n % WireInt)
  <2>1. n \div WireInt \in Int /\ n = WireInt * (n \div WireInt) + (n % WireInt)
    BY <1>1, <1>2
  <2> QED BY <2>1
<1>5. m % WireInt \in Int
  BY <1>1, <1>2
<1>6. WireInt * i \in Int /\ WireInt * j \in Int
  BY <1>1
<1>7. m - n = WireInt * i - WireInt * j
  <2>1. \A a, b, c \in Int : m = a + c /\ n = b + c => m - n = a - b
    BY <1>2
  <2> QED BY <1>3, <1>4, <1>5, <1>6, <2>1
<1>8. -WireInt < m - n /\ m - n < WireInt
  BY <1>1, <1>2
<1>9. i = j
  BY <1>1, <1>7, <1>8, Factor
<1> QED BY <1>3, <1>4, <1>9

LEMMA IntFieldKnown ==
  ASSUME NEW number \in Nat, NEW m \in Int, NEW n \in Int
  PROVE  /\ Field(8 * number, IntField(number, m))
         /\ IntField(number, m) = << >> <=> m = 0
         /\ FieldKnown(8 * number, IntField(number, m), IntField(number, n))
         /\ m \in Wire /\ n \in Wire /\ IntField(number, m) = IntField(number, n) => m = n
<1> DEFINE t == 8 * number
           Code(i) == Varint[i % WireInt]
<1>1. t \in Nat /\ <<t>> \in Bytes
  <2>1. t \in Nat
    OBVIOUS
  <2> QED BY <2>1 DEF Bytes
<1>2. ASSUME NEW i \in Int PROVE Code(i) \in Bytes
  BY Complement, VarintLength
<1>3. ASSUME NEW i \in Int
      PROVE  /\ i # 0 => IntField(number, i) = <<t>> \o Code(i)
             /\ i = 0 => IntField(number, i) = << >>
  BY DEF IntField
<1>4. ASSUME NEW i \in Int
      PROVE  Field(t, IntField(number, i)) /\ (IntField(number, i) = << >> <=> i = 0)
  <2>1. Code(i) \in Bytes
    BY <1>2
  <2>2. <<t>> \o Code(i) \in Bytes /\ <<t>> \o Code(i) # << >>
    BY <1>1, <2>1, FirstOf
  <2> HIDE DEF Code, t
  <2>3. CASE i = 0
    <3>1. Field(t, << >>)
      BY DEF Field, Bytes
    <3> QED BY <1>3, <2>3, <3>1
  <2>4. CASE i # 0
    BY <1>3, <2>1, <2>2, <2>4 DEF Field
  <2> QED BY <2>3, <2>4
<1>5. Delimited(Code(m), Code(n)) /\ (Code(m) = Code(n) => m % WireInt = n % WireInt)
  <2>1. m % WireInt \in Nat /\ n % WireInt \in Nat
    BY Complement
  <2>2. \A x, y \in Bytes : Code(m) \o x = Code(n) \o y => m % WireInt = n % WireInt /\ x = y
    BY <2>1, VarintParse
  <2>3. << >> \in Bytes /\ Code(m) \o << >> = Code(m) /\ Code(n) \o << >> = Code(n)
    BY <1>2, ConcatEmptySeq DEF Bytes
  <2> HIDE DEF Code
  <2>4. Code(m) = Code(n) => m % WireInt = n % WireInt
    BY <2>2, <2>3
  <2>5. m % WireInt = n % WireInt => Code(m) = Code(n)
    BY DEF Code
  <2> QED BY <2>2, <2>4, <2>5 DEF Delimited
<1>6. Code(m) \in Bytes /\ Code(n) \in Bytes
  BY <1>2
<1>7. Delimited(<<t>>, <<t>>)
  BY <1>1, SingleDelimited
<1> HIDE DEF Code, t
<1>8. Delimited(<<t>> \o Code(m), <<t>> \o Code(n))
  BY <1>1, <1>5, <1>6, <1>7, BothDelimited
<1>9. <<t>> \o Code(m) = <<t>> \o Code(n) => Code(m) = Code(n)
  BY <1>1, <1>6, <1>7, BothKnown
<1> DEFINE p == IntField(number, m)
           q == IntField(number, n)
<1>10. p # << >> /\ q # << >> => Delimited(p, q)
  BY <1>3, <1>4, <1>8
<1>11. Field(t, p) /\ Field(t, q)
  BY <1>4
<1>12. FieldKnown(t, p, q)
  <2> HIDE DEF p, q
  <2> QED BY <1>1, <1>10, <1>11, FieldParse
<1>13. p = q /\ m \in Wire /\ n \in Wire => m = n
  <2>1. CASE m = 0 \/ n = 0
    BY <1>4, <2>1
  <2>2. CASE m # 0 /\ n # 0
    <3>1. p = q => m % WireInt = n % WireInt
      BY <1>3, <1>5, <1>9, <2>2
    <3> QED BY <3>1, ComplementKnown
  <2> QED BY <2>1, <2>2
<1> QED BY <1>4, <1>12, <1>13 DEF t

\* What joins more of the same sequences goes on with the next one.
LEMMA JoinsGoOn ==
  ASSUME NEW ss \in Seq(Bytes), NEW f, Joins(f, ss)
  PROVE  \A i \in Nat : i < Len(ss) =>
           \E r \in Bytes : f[Len(ss)] = f[i] \o (ss[i + 1] \o r)
<1> SUFFICES ASSUME NEW i \in Nat, i < Len(ss)
             PROVE  \E r \in Bytes : f[Len(ss)] = f[i] \o (ss[i + 1] \o r)
  OBVIOUS
<1> DEFINE Beyond(j) == \E r \in Bytes : f[j + 1] = f[i] \o (ss[i + 1] \o r)
           S == {j \in Nat : i <= j /\ j < Len(ss) => Beyond(j)}
<1>0. Len(ss) \in Nat
  BY LenProperties
<1>1. f \in [Nat -> Bytes] /\ \A j \in 0..(Len(ss) - 1) : f[j + 1] = f[j] \o ss[j + 1]
  BY DEF Joins
<1>2. \A j \in 1..Len(ss) : ss[j] \in Bytes
  OBVIOUS
<1>3. ss[i + 1] \in Bytes /\ f[i] \in Bytes
  BY <1>0, <1>1, <1>2
<1>4. Beyond(i)
  <2>1. f[i + 1] = f[i] \o ss[i + 1]
    BY <1>0, <1>1
  <2>2. ss[i + 1] \o << >> = ss[i + 1]
    BY <1>3, ConcatEmptySeq DEF Bytes
  <2>3. << >> \in Bytes
    BY DEF Bytes
  <2> QED BY <2>1, <2>2, <2>3
<1>5. ASSUME NEW j \in Nat, Beyond(j), j + 1 < Len(ss) PROVE Beyond(j + 1)
  <2>1. PICK r \in Bytes : f[j + 1] = f[i] \o (ss[i + 1] \o r)
    BY <1>5
  <2>2. PICK a \in Bytes : a = ss[(j + 1) + 1]
    BY <1>0, <1>2, <1>5
  <2>3. f[(j + 1) + 1] = f[j + 1] \o a
    <3>1. j + 1 \in 0..(Len(ss) - 1)
      BY <1>0, <1>5
    <3> QED BY <1>1, <2>2, <3>1
  <2>4. r \o a \in Bytes /\ ss[i + 1] \o r \in Bytes
    BY <1>3, Joined
  <2>5. (f[i] \o (ss[i + 1] \o r)) \o a = f[i] \o ((ss[i + 1] \o r) \o a)
    <3>1. Regroups(f[i], ss[i + 1] \o r, a)
      BY <1>3, <2>4, AssociativeAll
    <3> QED BY <3>1 DEF Regroups
  <2>6. (ss[i + 1] \o r) \o a = ss[i + 1] \o (r \o a)
    <3>1. Regroups(ss[i + 1], r, a)
      BY <1>3, AssociativeAll
    <3> QED BY <3>1 DEF Regroups
  <2>7. f[(j + 1) + 1] = f[i] \o (ss[i + 1] \o (r \o a))
    BY <2>1, <2>3, <2>5, <2>6
  <2> QED BY <2>4, <2>7
<1> HIDE DEF Beyond
<1>6. Nat \subseteq S
  <2>1. 0 \in S
    BY <1>4
  <2>2. ASSUME NEW j \in Nat, j \in S PROVE j + 1 \in S
    <3> SUFFICES ASSUME i <= j + 1, j + 1 < Len(ss) PROVE Beyond(j + 1)
      OBVIOUS
    <3>1. CASE i = j + 1
      BY <1>4, <3>1
    <3>2. CASE i # j + 1
      <4>1. i <= j /\ j < Len(ss)
        BY <1>0, <3>2
      <4> QED BY <1>5, <2>2, <4>1
    <3> QED BY <3>1, <3>2
  <2> HIDE DEF S
  <2> QED BY <2>1, <2>2, Induction
<1>7. Len(ss) - 1 \in Nat /\ i <= Len(ss) - 1 /\ Len(ss) - 1 < Len(ss) /\ (Len(ss) - 1) + 1 = Len(ss)
  BY <1>0
<1>8. Beyond(Len(ss) - 1)
  BY <1>6, <1>7
<1> QED BY <1>7, <1>8 DEF Beyond

\* The items of a repeated field, each with its tag.
Messages(number, items) == [k \in DOMAIN items |-> MessageField(number, items[k])]

LEMMA MessagesType ==
  ASSUME NEW number \in Nat, NEW ss \in Seq(Bytes)
  PROVE  /\ Messages(number, ss) \in Seq(Bytes) /\ Len(Messages(number, ss)) = Len(ss)
         /\ \A k \in 1..Len(ss) : ss[k] \in Bytes /\ Messages(number, ss)[k] = MessageField(number, ss[k])
         /\ RepeatedField(number, ss) = FlattenSeq(Messages(number, ss))
<1>1. \A k \in 1..Len(ss) : ss[k] \in Bytes
  OBVIOUS
<1>2. \A k \in 1..Len(ss) : MessageField(number, ss[k]) \in Bytes
  BY <1>1, MessageType
<1>3. DOMAIN ss = 1..Len(ss) /\ Len(ss) \in Nat
  BY LenProperties
<1>4. Messages(number, ss) \in Seq(Bytes) /\ Len(Messages(number, ss)) = Len(ss)
  BY <1>2, <1>3 DEF Messages
<1>5. \A k \in 1..Len(ss) : Messages(number, ss)[k] = MessageField(number, ss[k])
  BY <1>3 DEF Messages
<1>6. RepeatedField(number, ss) = FlattenSeq(Messages(number, ss))
  BY DEF RepeatedField, Messages
<1> QED BY <1>1, <1>4, <1>5, <1>6

\* What joins more of the items goes on with the tag of the next one.
GoesOn(number, a, b) == \E z \in Bytes : b = a \o (<<8 * number + 2>> \o z)

LEMMA MessagesGoOn ==
  ASSUME NEW number \in Nat, NEW tt \in Seq(Bytes), NEW g, Joins(g, Messages(number, tt)),
         NEW m \in Nat, m < Len(tt)
  PROVE  GoesOn(number, g[m], g[Len(tt)])
<1> DEFINE nn == Messages(number, tt)
           e == nn[m + 1]
           t == 8 * number + 2
<1>1. nn \in Seq(Bytes) /\ Len(nn) = Len(tt)
  BY MessagesType
<1>2. m + 1 \in 1..Len(tt)
  BY LenProperties
<1>3. e = MessageField(number, tt[m + 1]) /\ tt[m + 1] \in Bytes
  BY <1>2, MessagesType
<1>4. Field(t, e) /\ e # << >>
  BY <1>3, MessageType
<1>5. PICK z \in Bytes : e = <<t>> \o z
  BY <1>4 DEF Field
<1>6. \A i \in Nat : i < Len(nn) => \E r \in Bytes : g[Len(nn)] = g[i] \o (nn[i + 1] \o r)
  <2>1. Joins(g, nn)
    OBVIOUS
  <2> HIDE DEF nn
  <2> QED BY <1>1, <2>1, JoinsGoOn, ZenonT(40)
<1>7. PICK r \in Bytes : g[Len(tt)] = g[m] \o (e \o r)
  BY <1>1, <1>6
<1> HIDE DEF e, t
<1>8. <<t>> \in Bytes
  <2>1. t \in Nat
    BY DEF t
  <2> QED BY <2>1 DEF Bytes
<1>9. (<<t>> \o z) \o r = <<t>> \o (z \o r)
  <2>1. Regroups(<<t>>, z, r)
    BY <1>8, AssociativeAll
  <2> QED BY <2>1 DEF Regroups
<1>10. z \o r \in Bytes
  BY Joined
<1> QED BY <1>5, <1>7, <1>9, <1>10 DEF t, GoesOn

\* The field is left out or begins with the tag of its items.
LEMMA RepeatedFieldType ==
  ASSUME NEW number \in Nat, NEW ss \in Seq(Bytes)
  PROVE  Field(8 * number + 2, RepeatedField(number, ss))
<1> DEFINE mm == Messages(number, ss)
           t == 8 * number + 2
<1>1. mm \in Seq(Bytes) /\ Len(mm) = Len(ss) /\ RepeatedField(number, ss) = FlattenSeq(mm)
  BY MessagesType
<1>2. PICK f : Joins(f, mm)
  BY <1>1, JoinsExist
<1>3. RepeatedField(number, ss) = f[Len(mm)]
  BY <1>1, <1>2, FlattenJoins
<1>4. CASE Len(ss) = 0
  <2>1. RepeatedField(number, ss) = << >>
    BY <1>1, <1>2, <1>3, <1>4 DEF Joins
  <2> QED BY <2>1 DEF Field, Bytes
<1>5. CASE Len(ss) # 0
  <2>1. 0 < Len(ss)
    BY <1>5, LenProperties
  <2>2. PICK z \in Bytes : f[Len(ss)] = f[0] \o (<<t>> \o z)
    <3>1. GoesOn(number, f[0], f[Len(ss)])
      BY <1>2, <2>1, MessagesGoOn
    <3> QED BY <3>1 DEF GoesOn
  <2>3. f[0] = << >>
    BY <1>2 DEF Joins
  <2>4. <<t>> \o z \in Bytes
    BY FirstOf
  <2>5. << >> \o (<<t>> \o z) = <<t>> \o z
    BY <2>4, ConcatEmptySeq DEF Bytes
  <2>6. RepeatedField(number, ss) = <<t>> \o z
    BY <1>1, <1>3, <2>2, <2>3, <2>5
  <2> QED BY <2>4, <2>6 DEF Field
<1> QED BY <1>4, <1>5

Greater(number) == AtLeast((8 * number + 2) + 1)

LEMMA RepeatedFieldOrdered ==
  ASSUME NEW number \in Nat, NEW ss \in Seq(Bytes), NEW tt \in Seq(Bytes), Len(ss) <= Len(tt)
  PROVE  \A x, y \in Greater(number) :
           RepeatedField(number, ss) \o x = RepeatedField(number, tt) \o y => ss = tt /\ x = y
<1> SUFFICES ASSUME NEW x \in Greater(number), NEW y \in Greater(number)
             PROVE  RepeatedField(number, ss) \o x = RepeatedField(number, tt) \o y =>
                      ss = tt /\ x = y
  OBVIOUS
<1> DEFINE mm == Messages(number, ss)
           nn == Messages(number, tt)
           t == 8 * number + 2
<1>1. /\ mm \in Seq(Bytes) /\ Len(mm) = Len(ss) /\ RepeatedField(number, ss) = FlattenSeq(mm)
      /\ nn \in Seq(Bytes) /\ Len(nn) = Len(tt) /\ RepeatedField(number, tt) = FlattenSeq(nn)
  BY MessagesType
<1>2. PICK f : Joins(f, mm)
  BY <1>1, JoinsExist
<1>3. PICK g : Joins(g, nn)
  BY <1>1, JoinsExist
<1>4. PICK m \in Nat : m = Len(ss)
  BY LenProperties
<1>5. PICK n \in Nat : n = Len(tt)
  BY LenProperties
<1>6. RepeatedField(number, ss) = f[m]
  BY <1>1, <1>2, <1>4, FlattenJoins
<1>7. RepeatedField(number, tt) = g[n]
  BY <1>1, <1>3, <1>5, FlattenJoins
<1>8. f[m] \in Bytes /\ g[m] \in Bytes /\ g[n] \in Bytes /\ x \in Bytes /\ y \in Bytes
  BY <1>2, <1>3 DEF Joins, AtLeast, Greater
<1>9. \A k \in 1..m : Delimited(mm[k], nn[k]) /\ (mm[k] = nn[k] => ss[k] = tt[k])
  <2> TAKE k \in 1..m
  <2>1. k \in 1..Len(ss) /\ k \in 1..Len(tt)
    BY <1>4, <1>5
  <2>2. /\ ss[k] \in Bytes /\ mm[k] = MessageField(number, ss[k])
        /\ tt[k] \in Bytes /\ nn[k] = MessageField(number, tt[k])
    BY <2>1, MessagesType
  <2> QED BY <2>2, MessageDelimited
<1>10. Delimited(f[m], g[m]) /\ (f[m] = g[m] => \A k \in 1..m : mm[k] = nn[k])
  BY <1>1, <1>2, <1>3, <1>4, <1>5, <1>9, JoinsDelimited
<1>11. CASE m = n
  <2>1. f[m] \o x = g[m] \o y => f[m] = g[m] /\ x = y
    BY <1>8, <1>10 DEF Delimited
  <2>2. (\A k \in 1..m : ss[k] = tt[k]) => ss = tt
    BY <1>4, <1>5, <1>11, SeqEqual
  <2> QED BY <1>6, <1>7, <1>9, <1>10, <1>11, <2>1, <2>2
<1>12. CASE m < n
  <2>1. m < Len(tt)
    BY <1>5, <1>12
  <2>2. PICK z \in Bytes : g[Len(tt)] = g[m] \o (<<t>> \o z)
    <3>1. GoesOn(number, g[m], g[Len(tt)])
      BY <1>3, <2>1, MessagesGoOn
    <3> QED BY <3>1 DEF GoesOn
  <2>3. t \in Nat
    OBVIOUS
  <2> HIDE DEF t
  <2>4. <<t>> \in Bytes /\ <<t>> \o z \in Bytes
    BY <2>3, FirstOf DEF Bytes
  <2>5. PICK a \in Bytes : a = (<<t>> \o z) \o y
    BY <1>8, <2>4, Joined
  <2>6. (g[m] \o (<<t>> \o z)) \o y = g[m] \o a
    <3>1. PICK b \in Bytes : b = <<t>> \o z
      BY <2>4
    <3>2. PICK p \in Bytes : p = g[m]
      BY <1>8
    <3>3. y \in Bytes
      BY <1>8
    <3>4. (p \o b) \o y = p \o (b \o y)
      BY <3>3, Associative, ZenonT(40)
    <3> QED BY <2>5, <3>1, <3>2, <3>4
  <2>7. f[m] \o x = g[m] \o a => x = a
    BY <1>8, <1>10 DEF Delimited
  <2>8. (<<t>> \o z) \o y = <<t>> \o (z \o y)
    <3>1. Regroups(<<t>>, z, y)
      BY <1>8, <2>4, AssociativeAll
    <3> QED BY <3>1 DEF Regroups
  <2>9. z \o y \in Bytes
    BY <1>8, Joined
  <2>10. a # << >> /\ a[1] = t
    BY <2>3, <2>5, <2>8, <2>9, FirstOf
  <2>11. x # << >> => x[1] >= t + 1
    BY DEF AtLeast, Greater, t
  <2>12. x # a
    BY <2>3, <2>10, <2>11
  <2>13. g[n] = g[m] \o (<<t>> \o z)
    BY <1>5, <2>2
  <2> QED BY <1>6, <1>7, <2>6, <2>7, <2>12, <2>13
<1>13. m <= n
  BY <1>4, <1>5
<1> QED BY <1>11, <1>12, <1>13

LEMMA RepeatedFieldKnown ==
  ASSUME NEW number \in Nat, NEW ss \in Seq(Bytes), NEW tt \in Seq(Bytes)
  PROVE  /\ FieldKnown(8 * number + 2, RepeatedField(number, ss), RepeatedField(number, tt))
         /\ RepeatedField(number, ss) = RepeatedField(number, tt) => ss = tt
<1>1. Len(ss) \in Nat /\ Len(tt) \in Nat
  BY LenProperties
<1>2. ASSUME NEW x \in Greater(number), NEW y \in Greater(number)
      PROVE  RepeatedField(number, ss) \o x = RepeatedField(number, tt) \o y => ss = tt /\ x = y
  <2>1. CASE Len(ss) <= Len(tt)
    <3>1. \A u, v \in Greater(number) :
            RepeatedField(number, ss) \o u = RepeatedField(number, tt) \o v => ss = tt /\ u = v
      BY <2>1, RepeatedFieldOrdered
    <3> QED BY <1>2, <3>1
  <2>2. CASE Len(tt) <= Len(ss)
    <3>1. \A u, v \in Greater(number) :
            RepeatedField(number, tt) \o u = RepeatedField(number, ss) \o v => tt = ss /\ u = v
      BY <2>2, RepeatedFieldOrdered
    <3> QED BY <1>2, <3>1
  <2> QED BY <1>1, <2>1, <2>2
<1>3. FieldKnown(8 * number + 2, RepeatedField(number, ss), RepeatedField(number, tt))
  BY <1>2 DEF FieldKnown, Greater
<1>4. RepeatedField(number, ss) = RepeatedField(number, tt) => ss = tt
  <2>1. << >> \in Greater(number)
    BY DEF Greater, AtLeast, Bytes
  <2> QED BY <1>2, <2>1
<1> QED BY <1>3, <1>4

\* A field and the rest of a message are known from the two in a row.
Splits(tag, next, p, q) ==
  \A x, y \in AtLeast(next) :
    /\ p \o x \in AtLeast(tag) /\ q \o y \in AtLeast(tag)
    /\ p \o x = q \o y => p = q /\ x = y

LEMMA FieldThen ==
  ASSUME NEW tag \in Nat, NEW next \in Nat, tag < next,
         NEW p, NEW q, Field(tag, p), Field(tag, q), FieldKnown(tag, p, q)
  PROVE  Splits(tag, next, p, q)
<1> SUFFICES ASSUME NEW x \in AtLeast(next), NEW y \in AtLeast(next)
             PROVE  /\ p \o x \in AtLeast(tag) /\ q \o y \in AtLeast(tag)
                    /\ p \o x = q \o y => p = q /\ x = y
  BY DEF Splits
<1>1. p \o x \in AtLeast(tag) /\ q \o y \in AtLeast(tag)
  BY FieldFirst
<1>2. ASSUME NEW z \in AtLeast(next) PROVE z \in AtLeast(tag + 1)
  <2>1. z \in Bytes /\ (z # << >> => z[1] \in Nat /\ z[1] >= next)
    BY DEF AtLeast, Bytes
  <2>2. z # << >> => z[1] >= tag + 1
    BY <2>1
  <2> QED BY <2>1, <2>2 DEF AtLeast
<1>3. x \in AtLeast(tag + 1) /\ y \in AtLeast(tag + 1)
  BY <1>2
<1>4. p \o x = q \o y => p = q /\ x = y
  BY <1>3 DEF FieldKnown
<1> QED BY <1>1, <1>4

\* The messages of signatures and commits are known from their encodings.
Timestamps == [millis_since_epoch : Wire, tz_offset : Wire]

LEMMA TimestampKnown ==
  ASSUME NEW s \in Timestamps, NEW t \in Timestamps
  PROVE  /\ EncodeTimestamp(s) \in Bytes /\ EncodeTimestamp(t) \in Bytes
         /\ EncodeTimestamp(s) = EncodeTimestamp(t) => s = t
<1> DEFINE a == IntField(1, s.millis_since_epoch)
           b == IntField(2, s.tz_offset)
           c == IntField(1, t.millis_since_epoch)
           d == IntField(2, t.tz_offset)
<1>1. /\ s.millis_since_epoch \in Wire /\ s.tz_offset \in Wire
      /\ t.millis_since_epoch \in Wire /\ t.tz_offset \in Wire
  BY DEF Timestamps
<1>2. Wire \subseteq Int
  BY DEF Wire
<1>3. /\ Field(8 * 1, a) /\ Field(8 * 1, c) /\ FieldKnown(8 * 1, a, c)
      /\ a = c => s.millis_since_epoch = t.millis_since_epoch
  BY <1>1, <1>2, IntFieldKnown
<1>4. /\ Field(8 * 2, b) /\ Field(8 * 2, d) /\ FieldKnown(8 * 2, b, d)
      /\ b = d => s.tz_offset = t.tz_offset
  BY <1>1, <1>2, IntFieldKnown
<1>5. s.millis_since_epoch = t.millis_since_epoch /\ s.tz_offset = t.tz_offset => s = t
  BY DEF Timestamps
<1>6. EncodeTimestamp(s) = a \o b /\ EncodeTimestamp(t) = c \o d
  BY DEF EncodeTimestamp
<1> HIDE DEF a, b, c, d
<1>7. Field(8, a) /\ Field(8, c) /\ FieldKnown(8, a, c) /\ Field(16, b) /\ Field(16, d)
  BY <1>3, <1>4
<1>8. b \in AtLeast(16) /\ d \in AtLeast(16)
  BY <1>7, FieldAlone
<1>9. /\ a \o b \in AtLeast(8) /\ c \o d \in AtLeast(8)
      /\ a \o b = c \o d => a = c /\ b = d
  <2>1. 8 \in Nat /\ 16 \in Nat /\ 8 < 16
    OBVIOUS
  <2>2. Splits(8, 16, a, c)
    BY <1>7, <2>1, FieldThen
  <2> QED BY <1>8, <2>2 DEF Splits
<1>10. AtLeast(8) \subseteq Bytes
  BY DEF AtLeast
<1> QED BY <1>3, <1>4, <1>5, <1>6, <1>9, <1>10

LEMMA SignatureKnown ==
  ASSUME NEW s \in Signatures, NEW t \in Signatures
  PROVE  /\ EncodeSignature(s) \in Bytes /\ EncodeSignature(t) \in Bytes
         /\ EncodeSignature(s) = EncodeSignature(t) => s = t
<1> DEFINE a == BytesField(1, s.name)
           b == BytesField(2, s.email)
           c == MessageField(3, EncodeTimestamp(s.timestamp))
           e == BytesField(1, t.name)
           f == BytesField(2, t.email)
           g == MessageField(3, EncodeTimestamp(t.timestamp))
<1>1. /\ s.name \in Bytes /\ s.email \in Bytes /\ s.timestamp \in Timestamps
      /\ t.name \in Bytes /\ t.email \in Bytes /\ t.timestamp \in Timestamps
      /\ s.name = t.name /\ s.email = t.email /\ s.timestamp = t.timestamp => s = t
  BY DEF Signatures, Timestamps
<1>2. /\ Field(8 * 1 + 2, a) /\ Field(8 * 1 + 2, e) /\ FieldKnown(8 * 1 + 2, a, e)
      /\ a = e => s.name = t.name
  BY <1>1, BytesFieldKnown
<1>3. /\ Field(8 * 2 + 2, b) /\ Field(8 * 2 + 2, f) /\ FieldKnown(8 * 2 + 2, b, f)
      /\ b = f => s.email = t.email
  BY <1>1, BytesFieldKnown
<1>4. /\ EncodeTimestamp(s.timestamp) \in Bytes /\ EncodeTimestamp(t.timestamp) \in Bytes
      /\ EncodeTimestamp(s.timestamp) = EncodeTimestamp(t.timestamp) => s.timestamp = t.timestamp
  BY <1>1, TimestampKnown
<1>5. Field(8 * 3 + 2, c) /\ Field(8 * 3 + 2, g)
  BY <1>4, MessageType
<1>6. c = g => s.timestamp = t.timestamp
  BY <1>4, MessageDelimited
<1>7. EncodeSignature(s) = (a \o b) \o c /\ EncodeSignature(t) = (e \o f) \o g
  BY DEF EncodeSignature
<1> HIDE DEF a, b, c, e, f, g
<1>8. /\ Field(10, a) /\ Field(10, e) /\ FieldKnown(10, a, e)
      /\ Field(18, b) /\ Field(18, f) /\ FieldKnown(18, b, f) /\ Field(26, c) /\ Field(26, g)
  BY <1>2, <1>3, <1>5
<1>9. c \in AtLeast(26) /\ g \in AtLeast(26)
  BY <1>8, FieldAlone
<1>10. /\ b \o c \in AtLeast(18) /\ f \o g \in AtLeast(18)
       /\ b \o c = f \o g => b = f /\ c = g
  <2>1. 18 \in Nat /\ 26 \in Nat /\ 18 < 26
    OBVIOUS
  <2>2. Splits(18, 26, b, f)
    BY <1>8, <2>1, FieldThen
  <2> QED BY <1>9, <2>2 DEF Splits
<1>11. /\ a \o (b \o c) \in AtLeast(10) /\ e \o (f \o g) \in AtLeast(10)
       /\ a \o (b \o c) = e \o (f \o g) => a = e /\ b \o c = f \o g
  <2>1. 10 \in Nat /\ 18 \in Nat /\ 10 < 18
    OBVIOUS
  <2>2. Splits(10, 18, a, e)
    BY <1>8, <2>1, FieldThen
  <2> QED BY <1>10, <2>2 DEF Splits
<1>12. /\ a \in Bytes /\ b \in Bytes /\ c \in Bytes
       /\ e \in Bytes /\ f \in Bytes /\ g \in Bytes
  BY <1>8 DEF Field
<1>13. (a \o b) \o c = a \o (b \o c)
  <2>1. Regroups(a, b, c)
    BY <1>12, AssociativeAll
  <2> QED BY <2>1 DEF Regroups
<1>14. (e \o f) \o g = e \o (f \o g)
  <2>1. Regroups(e, f, g)
    BY <1>12, AssociativeAll
  <2> QED BY <2>1 DEF Regroups
<1>15. AtLeast(10) \subseteq Bytes
  BY DEF AtLeast
<1> QED BY <1>1, <1>2, <1>3, <1>6, <1>7, <1>10, <1>11, <1>13, <1>14, <1>15

\* What jj's commits become on their way to the table.
StoredCommits ==
  [ parents : Seq(Bytes), predecessors : Seq(Bytes), root_tree : Seq(Bytes),
    uses_tree_conflict_format : BOOLEAN, change_id : Bytes, description : Bytes,
    author : Signatures, committer : Signatures ]

\* Parts in a row, from the left or from the right.
FiveRegroup(a, b, c, d, e) ==
  (((a \o b) \o c) \o d) \o e = a \o (b \o (c \o (d \o e)))

LEMMA FiveRegrouped == \A a, b, c, d, e \in Bytes : FiveRegroup(a, b, c, d, e)
<1> SUFFICES ASSUME NEW a \in Bytes, NEW b \in Bytes, NEW c \in Bytes, NEW d \in Bytes,
                    NEW e \in Bytes
             PROVE  FiveRegroup(a, b, c, d, e)
  OBVIOUS
<1> DEFINE ab == a \o b
           abc == ab \o c
           de == d \o e
           cde == c \o de
<1>1. ab \in Bytes /\ de \in Bytes
  BY Joined
<1>2. abc \in Bytes /\ cde \in Bytes
  <2> HIDE DEF ab, de
  <2> QED BY <1>1, Joined
<1>3. Regroups(a, b, cde) /\ Regroups(abc, d, e) /\ Regroups(ab, c, de)
  <2> HIDE DEF ab, abc, de, cde
  <2> QED BY <1>1, <1>2, AssociativeAll
<1>4. (a \o b) \o cde = a \o (b \o cde)
  BY <1>3 DEF Regroups
<1>5. (abc \o d) \o e = abc \o (d \o e)
  BY <1>3 DEF Regroups
<1>6. (ab \o c) \o de = ab \o (c \o de)
  BY <1>3 DEF Regroups
<1> QED BY <1>4, <1>5, <1>6 DEF FiveRegroup

EightRegroup(a, b, c, d, e, f, g, h) ==
  ((((((a \o b) \o c) \o d) \o e) \o f) \o g) \o h =
  a \o (b \o (c \o (d \o (e \o (f \o (g \o h))))))

LEMMA EightRegrouped ==
  ASSUME NEW a \in Bytes, NEW b \in Bytes, NEW c \in Bytes, NEW d \in Bytes,
         NEW e \in Bytes, NEW f \in Bytes, NEW g \in Bytes, NEW h \in Bytes
  PROVE  EightRegroup(a, b, c, d, e, f, g, h)
<1> DEFINE abcd == ((a \o b) \o c) \o d
           efgh == e \o (f \o (g \o h))
<1>1. \A x, y \in Bytes : x \o y \in Bytes
  BY Joined
<1>2. abcd \in Bytes
  <2>1. a \o b \in Bytes
    BY <1>1
  <2>2. (a \o b) \o c \in Bytes
    BY <1>1, <2>1
  <2> QED BY <1>1, <2>2
<1>3. efgh \in Bytes
  <2>1. g \o h \in Bytes
    BY <1>1
  <2>2. f \o (g \o h) \in Bytes
    BY <1>1, <2>1
  <2> QED BY <1>1, <2>2
<1>4. FiveRegroup(abcd, e, f, g, h) /\ FiveRegroup(a, b, c, d, efgh)
  <2> HIDE DEF abcd, efgh
  <2> QED BY <1>2, <1>3, FiveRegrouped
<1>5. (((abcd \o e) \o f) \o g) \o h = abcd \o (e \o (f \o (g \o h)))
  BY <1>4 DEF FiveRegroup
<1>6. (((a \o b) \o c) \o d) \o efgh = a \o (b \o (c \o (d \o efgh)))
  BY <1>4 DEF FiveRegroup
<1> QED BY <1>5, <1>6 DEF EightRegroup

\* A commit is known from the encoded message, of which write_commit makes its
\* id, though prost leaves out fields with the default of their type; and none
\* is encoded as the root commit's id.
THEOREM CommitKnown ==
  ASSUME NEW p \in StoredCommits, NEW q \in StoredCommits
  PROVE  /\ EncodeCommit(p) \in Bytes /\ EncodeCommit(p) # RootCommitId
         /\ EncodeCommit(p) = EncodeCommit(q) => p = q
<1> DEFINE a1 == RepeatedField(1, p.parents)
           a2 == RepeatedField(2, p.predecessors)
           a3 == RepeatedField(3, p.root_tree)
           a4 == BytesField(4, p.change_id)
           a5 == BytesField(5, p.description)
           a6 == MessageField(6, EncodeSignature(p.author))
           a7 == MessageField(7, EncodeSignature(p.committer))
           a8 == IntField(8, IF p.uses_tree_conflict_format THEN 1 ELSE 0)
           b1 == RepeatedField(1, q.parents)
           b2 == RepeatedField(2, q.predecessors)
           b3 == RepeatedField(3, q.root_tree)
           b4 == BytesField(4, q.change_id)
           b5 == BytesField(5, q.description)
           b6 == MessageField(6, EncodeSignature(q.author))
           b7 == MessageField(7, EncodeSignature(q.committer))
           b8 == IntField(8, IF q.uses_tree_conflict_format THEN 1 ELSE 0)
<1>1. /\ p.parents \in Seq(Bytes) /\ p.predecessors \in Seq(Bytes) /\ p.root_tree \in Seq(Bytes)
      /\ p.uses_tree_conflict_format \in BOOLEAN /\ p.change_id \in Bytes
      /\ p.description \in Bytes /\ p.author \in Signatures /\ p.committer \in Signatures
  BY DEF StoredCommits
<1>2. /\ q.parents \in Seq(Bytes) /\ q.predecessors \in Seq(Bytes) /\ q.root_tree \in Seq(Bytes)
      /\ q.uses_tree_conflict_format \in BOOLEAN /\ q.change_id \in Bytes
      /\ q.description \in Bytes /\ q.author \in Signatures /\ q.committer \in Signatures
  BY DEF StoredCommits
<1>3. /\ p.parents = q.parents /\ p.predecessors = q.predecessors /\ p.root_tree = q.root_tree
      /\ p.uses_tree_conflict_format = q.uses_tree_conflict_format
      /\ p.change_id = q.change_id /\ p.description = q.description
      /\ p.author = q.author /\ p.committer = q.committer
      => p = q
  BY DEF StoredCommits
<1>4. /\ Field(10, a1) /\ Field(10, b1) /\ FieldKnown(10, a1, b1)
      /\ a1 = b1 => p.parents = q.parents
  <2>1. Field(8 * 1 + 2, a1) /\ Field(8 * 1 + 2, b1)
    BY <1>1, <1>2, RepeatedFieldType
  <2>2. FieldKnown(8 * 1 + 2, a1, b1) /\ (a1 = b1 => p.parents = q.parents)
    BY <1>1, <1>2, RepeatedFieldKnown
  <2> QED BY <2>1, <2>2
<1>5. /\ Field(18, a2) /\ Field(18, b2) /\ FieldKnown(18, a2, b2)
      /\ a2 = b2 => p.predecessors = q.predecessors
  <2>1. Field(8 * 2 + 2, a2) /\ Field(8 * 2 + 2, b2)
    BY <1>1, <1>2, RepeatedFieldType
  <2>2. FieldKnown(8 * 2 + 2, a2, b2) /\ (a2 = b2 => p.predecessors = q.predecessors)
    BY <1>1, <1>2, RepeatedFieldKnown
  <2> QED BY <2>1, <2>2
<1>6. /\ Field(26, a3) /\ Field(26, b3) /\ FieldKnown(26, a3, b3)
      /\ a3 = b3 => p.root_tree = q.root_tree
  <2>1. Field(8 * 3 + 2, a3) /\ Field(8 * 3 + 2, b3)
    BY <1>1, <1>2, RepeatedFieldType
  <2>2. FieldKnown(8 * 3 + 2, a3, b3) /\ (a3 = b3 => p.root_tree = q.root_tree)
    BY <1>1, <1>2, RepeatedFieldKnown
  <2> QED BY <2>1, <2>2
<1>7. /\ Field(34, a4) /\ Field(34, b4) /\ FieldKnown(34, a4, b4)
      /\ a4 = b4 => p.change_id = q.change_id
  <2>1. /\ Field(8 * 4 + 2, a4) /\ Field(8 * 4 + 2, b4) /\ FieldKnown(8 * 4 + 2, a4, b4)
        /\ a4 = b4 => p.change_id = q.change_id
    BY <1>1, <1>2, BytesFieldKnown
  <2> QED BY <2>1
<1>8. /\ Field(42, a5) /\ Field(42, b5) /\ FieldKnown(42, a5, b5)
      /\ a5 = b5 => p.description = q.description
  <2>1. /\ Field(8 * 5 + 2, a5) /\ Field(8 * 5 + 2, b5) /\ FieldKnown(8 * 5 + 2, a5, b5)
        /\ a5 = b5 => p.description = q.description
    BY <1>1, <1>2, BytesFieldKnown
  <2> QED BY <2>1
<1>9. /\ Field(50, a6) /\ Field(50, b6) /\ FieldKnown(50, a6, b6)
      /\ a6 = b6 => p.author = q.author
  <2>1. /\ EncodeSignature(p.author) \in Bytes /\ EncodeSignature(q.author) \in Bytes
        /\ EncodeSignature(p.author) = EncodeSignature(q.author) => p.author = q.author
    BY <1>1, <1>2, SignatureKnown
  <2>2. Field(8 * 6 + 2, a6) /\ Field(8 * 6 + 2, b6)
    BY <2>1, MessageType
  <2>3. FieldKnown(8 * 6 + 2, a6, b6)
    BY <2>1, MessageFieldKnown
  <2>4. a6 = b6 => p.author = q.author
    BY <2>1, MessageDelimited
  <2> QED BY <2>2, <2>3, <2>4
<1>10. /\ Field(58, a7) /\ Field(58, b7) /\ FieldKnown(58, a7, b7)
       /\ a7 = b7 => p.committer = q.committer
  <2>1. /\ EncodeSignature(p.committer) \in Bytes /\ EncodeSignature(q.committer) \in Bytes
        /\ EncodeSignature(p.committer) = EncodeSignature(q.committer) => p.committer = q.committer
    BY <1>1, <1>2, SignatureKnown
  <2>2. Field(8 * 7 + 2, a7) /\ Field(8 * 7 + 2, b7)
    BY <2>1, MessageType
  <2>3. FieldKnown(8 * 7 + 2, a7, b7)
    BY <2>1, MessageFieldKnown
  <2>4. a7 = b7 => p.committer = q.committer
    BY <2>1, MessageDelimited
  <2> QED BY <2>2, <2>3, <2>4
<1>11. /\ Field(64, a8) /\ Field(64, b8) /\ FieldKnown(64, a8, b8)
       /\ a8 = b8 => p.uses_tree_conflict_format = q.uses_tree_conflict_format
  <2>1. PICK m \in {0, 1} : m = IF p.uses_tree_conflict_format THEN 1 ELSE 0
    OBVIOUS
  <2>2. PICK n \in {0, 1} : n = IF q.uses_tree_conflict_format THEN 1 ELSE 0
    OBVIOUS
  <2>3. a8 = IntField(8, m) /\ b8 = IntField(8, n)
    BY <2>1, <2>2
  <2>4. m = n => p.uses_tree_conflict_format = q.uses_tree_conflict_format
    BY <1>1, <1>2, <2>1, <2>2
  <2>5. Field(8 * 8, a8) /\ FieldKnown(8 * 8, a8, b8) /\ (a8 = << >> <=> m = 0)
    BY <2>3, IntFieldKnown
  <2>6. Field(8 * 8, b8) /\ (b8 = << >> <=> n = 0)
    BY <2>3, IntFieldKnown
  <2> QED BY <2>4, <2>5, <2>6
<1>12. /\ EncodeCommit(p) = ((((((a1 \o a2) \o a3) \o a4) \o a5) \o a6) \o a7) \o a8
       /\ EncodeCommit(q) = ((((((b1 \o b2) \o b3) \o b4) \o b5) \o b6) \o b7) \o b8
  BY DEF EncodeCommit
<1> HIDE DEF a1, a2, a3, a4, a5, a6, a7, a8, b1, b2, b3, b4, b5, b6, b7, b8
<1>13. /\ a1 \in Bytes /\ a2 \in Bytes /\ a3 \in Bytes /\ a4 \in Bytes
       /\ a5 \in Bytes /\ a6 \in Bytes /\ a7 \in Bytes /\ a8 \in Bytes
  <2>1. \A tag, x : Field(tag, x) => x \in Bytes
    BY DEF Field
  <2> QED BY <1>4, <1>5, <1>6, <1>7, <1>8, <1>9, <1>10, <1>11, <2>1
<1>14. /\ b1 \in Bytes /\ b2 \in Bytes /\ b3 \in Bytes /\ b4 \in Bytes
       /\ b5 \in Bytes /\ b6 \in Bytes /\ b7 \in Bytes /\ b8 \in Bytes
  <2>1. \A tag, x : Field(tag, x) => x \in Bytes
    BY DEF Field
  <2> QED BY <1>4, <1>5, <1>6, <1>7, <1>8, <1>9, <1>10, <1>11, <2>1
<1>15. EncodeCommit(p) = a1 \o (a2 \o (a3 \o (a4 \o (a5 \o (a6 \o (a7 \o a8))))))
  <2>1. EightRegroup(a1, a2, a3, a4, a5, a6, a7, a8)
    BY <1>13, EightRegrouped
  <2> QED BY <1>12, <2>1 DEF EightRegroup
<1>16. EncodeCommit(q) = b1 \o (b2 \o (b3 \o (b4 \o (b5 \o (b6 \o (b7 \o b8))))))
  <2>1. EightRegroup(b1, b2, b3, b4, b5, b6, b7, b8)
    BY <1>14, EightRegrouped
  <2> QED BY <1>12, <2>1 DEF EightRegroup
<1>17. PICK x8, y8 \in AtLeast(64) : x8 = a8 /\ y8 = b8
  <2>1. 64 \in Nat
    OBVIOUS
  <2> QED BY <1>11, <2>1, FieldAlone
<1>18. PICK x7, y7 \in AtLeast(58) :
        /\ x7 = a7 \o x8 /\ y7 = b7 \o y8
        /\ x7 = y7 => a7 = b7 /\ x8 = y8
  <2>1. Splits(58, 64, a7, b7)
    <3>1. 58 \in Nat /\ 64 \in Nat /\ 58 < 64
      OBVIOUS
    <3> QED BY <1>10, <3>1, FieldThen
  <2> QED BY <2>1 DEF Splits
<1>19. PICK x6, y6 \in AtLeast(50) :
        /\ x6 = a6 \o x7 /\ y6 = b6 \o y7
        /\ x6 = y6 => a6 = b6 /\ x7 = y7
  <2>1. Splits(50, 58, a6, b6)
    <3>1. 50 \in Nat /\ 58 \in Nat /\ 50 < 58
      OBVIOUS
    <3> QED BY <1>9, <3>1, FieldThen
  <2> QED BY <2>1 DEF Splits
<1>20. PICK x5, y5 \in AtLeast(42) :
        /\ x5 = a5 \o x6 /\ y5 = b5 \o y6
        /\ x5 = y5 => a5 = b5 /\ x6 = y6
  <2>1. Splits(42, 50, a5, b5)
    <3>1. 42 \in Nat /\ 50 \in Nat /\ 42 < 50
      OBVIOUS
    <3> QED BY <1>8, <3>1, FieldThen
  <2> QED BY <2>1 DEF Splits
<1>21. PICK x4, y4 \in AtLeast(34) :
        /\ x4 = a4 \o x5 /\ y4 = b4 \o y5
        /\ x4 = y4 => a4 = b4 /\ x5 = y5
  <2>1. Splits(34, 42, a4, b4)
    <3>1. 34 \in Nat /\ 42 \in Nat /\ 34 < 42
      OBVIOUS
    <3> QED BY <1>7, <3>1, FieldThen
  <2> QED BY <2>1 DEF Splits
<1>22. PICK x3, y3 \in AtLeast(26) :
        /\ x3 = a3 \o x4 /\ y3 = b3 \o y4
        /\ x3 = y3 => a3 = b3 /\ x4 = y4
  <2>1. Splits(26, 34, a3, b3)
    <3>1. 26 \in Nat /\ 34 \in Nat /\ 26 < 34
      OBVIOUS
    <3> QED BY <1>6, <3>1, FieldThen
  <2> QED BY <2>1 DEF Splits
<1>23. PICK x2, y2 \in AtLeast(18) :
        /\ x2 = a2 \o x3 /\ y2 = b2 \o y3
        /\ x2 = y2 => a2 = b2 /\ x3 = y3
  <2>1. Splits(18, 26, a2, b2)
    <3>1. 18 \in Nat /\ 26 \in Nat /\ 18 < 26
      OBVIOUS
    <3> QED BY <1>5, <3>1, FieldThen
  <2> QED BY <2>1, ZenonT(40) DEF Splits
<1>24. PICK x1, y1 \in AtLeast(10) :
        /\ x1 = a1 \o x2 /\ y1 = b1 \o y2
        /\ x1 = y1 => a1 = b1 /\ x2 = y2
  <2>1. Splits(10, 18, a1, b1)
    <3>1. 10 \in Nat /\ 18 \in Nat /\ 10 < 18
      OBVIOUS
    <3> QED BY <1>4, <3>1, FieldThen
  <2> QED BY <2>1, ZenonT(40) DEF Splits
<1>25. EncodeCommit(p) = x1 /\ EncodeCommit(q) = y1
  BY <1>15, <1>16, <1>17, <1>18, <1>19, <1>20, <1>21, <1>22, <1>23, <1>24, ZenonT(40)
<1>26. x1 \in Bytes /\ x1 # RootCommitId
  <2>1. <<0>> # << >> /\ <<0>>[1] = 0 /\ ~(0 >= 10)
    OBVIOUS
  <2>2. ASSUME NEW z \in AtLeast(10) PROVE z \in Bytes /\ z # <<0>>
    <3>1. z \in Bytes /\ (z # << >> => z[1] >= 10)
      BY DEF AtLeast
    <3>2. z = <<0>> => z[1] = 0 /\ z # << >>
      BY <2>1
    <3> QED BY <2>1, <3>1, <3>2
  <2> QED BY <2>2 DEF RootCommitId
<1>27. x1 = y1 => p.parents = q.parents /\ x2 = y2
  BY <1>4, <1>24
<1>28. x2 = y2 => p.predecessors = q.predecessors /\ x3 = y3
  BY <1>5, <1>23
<1>29. x3 = y3 => p.root_tree = q.root_tree /\ x4 = y4
  BY <1>6, <1>22
<1>30. x4 = y4 => p.change_id = q.change_id /\ x5 = y5
  BY <1>7, <1>21
<1>31. x5 = y5 => p.description = q.description /\ x6 = y6
  BY <1>8, <1>20
<1>32. x6 = y6 => p.author = q.author /\ x7 = y7
  BY <1>9, <1>19
<1>33. x7 = y7 => p.committer = q.committer /\ x8 = y8
  BY <1>10, <1>18
<1>34. x8 = y8 => p.uses_tree_conflict_format = q.uses_tree_conflict_format
  BY <1>11, <1>17
<1>35. x1 = y1 => p = q
  BY <1>3, <1>27, <1>28, <1>29, <1>30, <1>31, <1>32, <1>33, <1>34
<1> QED BY <1>25, <1>26, <1>35

-----------------------------------------------------------------------------
(* The two ids of files and symlinks: jj's is the hash of a message, that   *)
(* of a mount is the hash of a length and the bytes.                        *)

\* A length in w bytes, of which the last is below 128, is no less than a
\* varint that reads the same.
LEMMA VarintUnderLength ==
  ASSUME NEW w \in Nat, NEW m \in Nat, NEW n \in Nat, m < 128 * Weight[w],
         NEW x \in Bytes, NEW y \in Bytes
  PROVE  Varint[n] \o x = LittleEndian(m, w + 1) \o y => n <= m
<1> DEFINE Under(v, i, j, s, t) == Varint[j] \o s = LittleEndian(i, v + 1) \o t => j <= i
           Starts(v, i, j, s, t) == Varint[j] \o s = LittleEndian(i, v + 1) \o t =>
             FirstByte(j) = i % 256 /\ Rest(j, s) = HighBytes(i, v) \o t
           S == {v \in Nat : \A i, j \in Nat : i < 128 * Weight[v] =>
                   \A s, t \in Bytes : Under(v, i, j, s, t)}
<1>1. ASSUME NEW v \in Nat, NEW i \in Nat, NEW j \in Nat, NEW s \in Bytes, NEW t \in Bytes
      PROVE  Starts(v, i, j, s, t)
  <2> DEFINE a == FirstByte(j)
             b == i % 256
             p == Rest(j, s)
             h == HighBytes(i, v)
  <2>1. a \in Nat /\ p \in Bytes /\ Varint[j] \o s = <<a>> \o p
    BY VarintFirst
  <2>2. h \in Bytes /\ LittleEndian(i, v + 1) = <<b>> \o h
    BY LittleEndianFirst
  <2>3. b \in Nat
    OBVIOUS
  <2> HIDE DEF a, b, p, h
  <2>4. <<b>> \in Bytes
    BY <2>3 DEF Bytes
  <2>5. (<<b>> \o h) \o t = <<b>> \o (h \o t)
    <3>1. Regroups(<<b>>, h, t)
      BY <2>2, <2>4, AssociativeAll
    <3> QED BY <3>1 DEF Regroups
  <2>6. PICK r \in Bytes : r = h \o t
    BY <2>2, Joined
  <2>9. <<a>> \o p = <<b>> \o r => a = b /\ p = r
    <3>1. a \in Nat /\ p \in Bytes
      BY <2>1
    <3>2. FirstsCancel(a, b, p, r)
      BY <2>3, <3>1, CancelFirstAll
    <3> QED BY <3>2 DEF FirstsCancel
  <2>7. <<a>> \o p = <<b>> \o (h \o t) => a = b /\ p = h \o t
    BY <2>6, <2>9
  <2>8. Varint[j] \o s = LittleEndian(i, v + 1) \o t => a = b /\ p = h \o t
    BY <2>1, <2>2, <2>5, <2>7
  <2> QED BY <2>8 DEF a, b, p, h
<1> HIDE DEF Under, Starts
<1>2. 0 \in S
  <2> SUFFICES ASSUME NEW i \in Nat, NEW j \in Nat, i < 128 * Weight[0], NEW s \in Bytes, NEW t \in Bytes
               PROVE  Under(0, i, j, s, t)
    OBVIOUS
  <2>1. i < 128 /\ i % 256 = i
    BY WeightDef, SMTT(30)
  <2>2. Starts(0, i, j, s, t)
    BY <1>1
  <2>3. FirstByte(j) = i => j <= i
    BY <2>1 DEF FirstByte
  <2> QED BY <2>1, <2>2, <2>3 DEF Under, Starts
<1>3. ASSUME NEW v \in Nat, v \in S PROVE v + 1 \in S
  <2> SUFFICES ASSUME NEW i \in Nat, NEW j \in Nat, i < 128 * Weight[v + 1],
                      NEW s \in Bytes, NEW t \in Bytes
               PROVE  Under(v + 1, i, j, s, t)
    OBVIOUS
  <2>0. Starts(v + 1, i, j, s, t)
    BY <1>1
  <2> DEFINE q == i \div 256
  <2>1. q \in Nat /\ q < 128 * Weight[v] /\ i = 256 * q + (i % 256)
    BY WeightDef, WeightPositive
  <2>2. CASE j < 128
    <3>1. FirstByte(j) = i % 256 => j <= i
      BY <2>1, <2>2 DEF FirstByte
    <3> QED BY <2>0, <3>1 DEF Under, Starts
  <2>3. CASE j >= 128
    <3>2. Rest(j, s) = Varint[j \div 128] \o s /\ HighBytes(i, v + 1) = LittleEndian(q, v + 1)
      BY <2>3 DEF Rest, More, HighBytes
    <3>3. Under(v, q, j \div 128, s, t)
      <4>1. j \div 128 \in Nat
        OBVIOUS
      <4> HIDE DEF q
      <4> QED BY <1>3, <2>1, <4>1
    <3>4. FirstByte(j) = i % 256 /\ j \div 128 <= q => j <= i
      <4>1. FirstByte(j) = 128 + (j % 128)
        BY <2>3 DEF FirstByte
      <4>2. j = 128 * (j \div 128) + (j % 128)
        OBVIOUS
      <4> HIDE DEF q
      <4> QED BY <2>1, <4>1, <4>2
    <3> HIDE DEF q
    <3> QED BY <2>0, <3>2, <3>3, <3>4 DEF Under, Starts
  <2> QED BY <2>2, <2>3
<1>4. Nat \subseteq S
  <2> HIDE DEF S
  <2> QED BY <1>2, <1>3, Induction
<1> QED BY <1>4 DEF Under

\* What jj writes (the hash of a File or Symlink message) has never the id of
\* what a mount does (the ContentHash of a File or Symlink of Store).
THEOREM EncodingsDiffer ==
  ASSUME NEW s \in Bytes, NEW t \in Bytes, Short(t)
  PROVE  BytesField(1, s) # HashBytes(t)
<1>1. PICK n \in Nat : n = Len(s)
  BY LenProperties DEF Bytes
<1>2. PICK m \in Nat : m = Len(t)
  BY LenProperties DEF Bytes
<1>3. PICK w \in Nat : w + 1 = LenBytes - 1
  BY Widths
<1>4. LenBytes = (w + 1) + 1 /\ LenBytes \in Nat
  BY <1>3, Widths
<1>5. m < 128 * Weight[w + 1]
  BY <1>2, <1>3 DEF Short
<1> DEFINE l == Length(m)
           h == HighBytes(m, w + 1)
           b == m % 256
           q == m \div 256
           v == Varint[n]
<1>6. HashBytes(t) = l \o t /\ l \in Bytes /\ Len(l) = LenBytes
  BY <1>2, HashBytesIs, LengthType
<1>7. h \in Bytes /\ l = <<b>> \o h
  <2>1. w + 1 \in Nat
    OBVIOUS
  <2>2. h \in Bytes /\ LittleEndian(m, (w + 1) + 1) = <<b>> \o h
    BY <2>1, LittleEndianFirst
  <2> QED BY <1>4, <2>2 DEF Length
<1>8. b \in Nat /\ q \in Nat /\ m = 256 * q + b
  OBVIOUS
<1>9. v \in Bytes /\ Len(v) \in Nat /\ Len(v) <= n + 1
  BY VarintLength
<1>10. h = LittleEndian(q, w + 1)
  BY DEF HighBytes
<1>11. q < 128 * Weight[w]
  BY <1>5, WeightDef, WeightPositive
<1>12. Len(l \o t) = LenBytes + m
  <2>1. l \in Seq(Nat) /\ t \in Seq(Nat)
    BY <1>6 DEF Bytes
  <2> HIDE DEF l
  <2> QED BY <1>2, <1>6, <2>1, ConcatProperties
<1>13. CASE s = << >>
  <2>1. BytesField(1, s) = << >> /\ Len(<< >>) = 0
    BY <1>13 DEF BytesField
  <2>2. LenBytes + m # 0
    BY <1>4
  <2> HIDE DEF l
  <2> QED BY <1>6, <1>12, <2>1, <2>2
<1>14. CASE s # << >>
  <2>1. BytesField(1, s) = (<<10>> \o v) \o s
    <3>1. 8 * 1 + 2 = 10
      OBVIOUS
    <3> QED BY <1>1, <1>14, <3>1 DEF BytesField, MessageField
  <2> HIDE DEF l, h, b, q, v
  <2>2. <<10>> \in Bytes /\ <<b>> \in Bytes
    BY <1>8 DEF Bytes
  <2>3. (<<10>> \o v) \o s = <<10>> \o (v \o s)
    BY <1>9, <2>2, Associative
  <2>4. (<<b>> \o h) \o t = <<b>> \o (h \o t)
    BY <1>7, <2>2, Associative
  <2>5. v \o s \in Bytes /\ h \o t \in Bytes
    BY <1>7, <1>9, Joined
  <2>6. <<10>> \o (v \o s) = <<b>> \o (h \o t) => 10 = b /\ v \o s = h \o t
    <3>1. PICK x \in Bytes : x = v \o s
      BY <2>5
    <3>2. PICK y \in Bytes : y = h \o t
      BY <2>5
    <3>3. 10 \in Nat
      OBVIOUS
    <3>4. <<10>> \o x = <<b>> \o y => 10 = b /\ x = y
      BY <1>8, <3>3, CancelFirst
    <3> QED BY <3>1, <3>2, <3>4
  <2>7. v \o s = h \o t => n <= q
    <3>1. Varint[n] \o s = LittleEndian(q, w + 1) \o t => n <= q
      BY <1>8, <1>11, VarintUnderLength, ZenonT(40)
    <3> QED BY <1>10, <3>1 DEF v
  <2>8. Len((<<10>> \o v) \o s) = 1 + Len(v) + n
    <3>1. <<10>> \in Seq(Nat) /\ Len(<<10>>) = 1 /\ v \in Seq(Nat) /\ s \in Seq(Nat)
      BY <1>9 DEF Bytes
    <3>2. <<10>> \o v \in Seq(Nat) /\ Len(<<10>> \o v) = 1 + Len(v)
      BY <3>1, ConcatProperties
    <3> QED BY <1>1, <3>1, <3>2, ConcatProperties
  <2>9. 10 = b /\ n <= q => 1 + Len(v) + n # LenBytes + m
    BY <1>4, <1>8, <1>9
  <2>10. ASSUME BytesField(1, s) = HashBytes(t) PROVE FALSE
    <3>1. (<<10>> \o v) \o s = l \o t
      BY <1>6, <2>1, <2>10
    <3>2. 1 + Len(v) + n = LenBytes + m
      BY <1>12, <2>8, <3>1
    <3>3. <<10>> \o (v \o s) = <<b>> \o (h \o t)
      BY <1>7, <2>3, <2>4, <3>1
    <3> QED BY <2>6, <2>7, <2>9, <3>2, <3>3
  <2> QED BY <2>10
<1> QED BY <1>13, <1>14

-----------------------------------------------------------------------------
(* The inductive invariant.                                                *)

\* What may be under an id: a file or a symlink that jj or a mount put there, a
\* tree that can be hashed, a commit.
TextFits(id, text) ==
  /\ text \in Bytes
  /\ id = BytesField(1, text) \/ (Short(text) /\ id = HashBytes(text))
TreeFits(id, tree) == tree \in StoredTrees /\ id = HashTree(tree)
CommitFits(id, commit) == commit \in StoredCommits /\ id = EncodeCommit(commit)

Fits(table, id, object) ==
  \/ table \in {"files", "symlinks"} /\ TextFits(id, object)
  \/ table = "trees" /\ TreeFits(id, object)
  \/ table = "commits" /\ CommitFits(id, object)

\* jj's objects that come back: what the conversions carry, and both ways.
Kept(table, object) ==
  \/ table \in {"files", "symlinks"} /\ object \in Bytes
  \/ table = "trees" /\ object \in Trees /\ ~ HasKind(object, {"GitSubmodule", "Conflict"})
  \/ table = "commits" /\ object \in Commits /\ ~ CannotSave(object)

Saved(table, object) ==
  CASE table = "files"    -> Compressed(object)
    [] table = "symlinks" -> object
    [] table = "trees"    -> TreeInto(TreeToProto(object))
    [] table = "commits"  -> CommitToProto(object)

Loaded(table, object) ==
  CASE table = "files"    -> Decompressed(object)
    [] table = "symlinks" -> object
    [] table = "trees"    -> TreeFromProto(TreeAsProto(object))
    [] table = "commits"  -> CommitFromProto(object)

TablesFit ==
  /\ tables = [name \in Names |-> tables[name]]
  /\ \A name \in Names : \A id \in DOMAIN tables[name] : Fits(name, id, tables[name][id])

\* What jj wrote is where it was told.
WrittenIsKept ==
  \A w \in written :
    /\ w[1] \in Names /\ w[2] \in DOMAIN tables[w[1]]
    /\ Kept(w[1], w[3]) /\ tables[w[1]][w[2]] = Saved(w[1], w[3])

\* What jj read last is what is there, or the root commit.
ReplyIsLoaded ==
  reply.res = "object" =>
    \/ reply.table = "commits" /\ reply.id = RootCommitId
    \/ /\ reply.table \in Names /\ reply.id \in DOMAIN tables[reply.table]
       /\ reply.object = Loaded(reply.table, tables[reply.table][reply.id])

IInv == TablesFit /\ WrittenIsKept /\ ReplyIsLoaded

\* One id, one object.
LEMMA TextUnique ==
  ASSUME NEW id, NEW x, NEW y, TextFits(id, x), TextFits(id, y)
  PROVE  x = y
<1>1. x \in Bytes /\ y \in Bytes
  BY DEF TextFits
<1>2. BytesField(1, x) = BytesField(1, y) => x = y
  BY <1>1, BytesFieldKnown
<1>3. Short(x) /\ Short(y) /\ HashBytes(x) = HashBytes(y) => x = y
  BY <1>1, HashBytesDelimited
<1>4. /\ Short(y) => BytesField(1, x) # HashBytes(y)
      /\ Short(x) => BytesField(1, y) # HashBytes(x)
  BY <1>1, EncodingsDiffer
<1>5. /\ id = BytesField(1, x) \/ (Short(x) /\ id = HashBytes(x))
      /\ id = BytesField(1, y) \/ (Short(y) /\ id = HashBytes(y))
  BY DEF TextFits
<1> QED BY <1>2, <1>3, <1>4, <1>5

LEMMA Unique ==
  ASSUME NEW table, NEW id, NEW x, NEW y, Fits(table, id, x), Fits(table, id, y)
  PROVE  x = y
<1>1. CASE table \in {"files", "symlinks"}
  <2>1. TextFits(id, x) /\ TextFits(id, y)
    BY <1>1 DEF Fits
  <2> QED BY <2>1, TextUnique
<1>2. CASE table = "trees"
  <2>1. TreeFits(id, x) /\ TreeFits(id, y)
    BY <1>2 DEF Fits
  <2> QED BY <2>1, HashTreeKnown DEF TreeFits
<1>3. CASE table = "commits"
  <2>1. CommitFits(id, x) /\ CommitFits(id, y)
    BY <1>3 DEF Fits
  <2> QED BY <2>1, CommitKnown DEF CommitFits
<1> QED BY <1>1, <1>2, <1>3 DEF Fits

\* zstd's frame, and back.
LEMMA CompressedBack ==
  ASSUME NEW content \in Bytes
  PROVE  Compressed(content) \in Bytes /\ Decompressed(Compressed(content)) = content
<1>1. PICK m \in Seq(Nat) : m = Magic /\ Len(m) = 4
  <2>1. Magic \in Seq(Nat)
    BY DEF Magic
  <2>2. Len(Magic) = 4
    BY DEF Magic
  <2> QED BY <2>1, <2>2
<1>2. content \in Seq(Nat) /\ Len(content) \in Nat
  BY DEF Bytes
<1>3. PICK whole \in Seq(Nat) : whole = m \o content /\ Len(whole) = 4 + Len(content)
  <2>1. m \o content \in Seq(Nat) /\ Len(m \o content) = Len(m) + Len(content)
    BY <1>2, ConcatProperties
  <2> QED BY <1>1, <2>1
<1>4. \A i \in 1..Len(content) : whole[4 + i] = content[i]
  <2> TAKE i \in 1..Len(content)
  <2>1. (m \o content)[Len(m) + i] = content[i]
    BY <1>2, SecondPart
  <2> QED BY <1>1, <1>3, <2>1
<1> DEFINE back == SubSeq(whole, 5, Len(whole))
<1>5. back \in Seq(Nat) /\ Len(back) = Len(content)
  <2>1. \A i \in 5..Len(whole) : whole[i] \in Nat
    BY <1>2, <1>3
  <2>2. /\ SubSeq(whole, 5, Len(whole)) \in Seq(Nat)
        /\ Len(SubSeq(whole, 5, Len(whole))) =
             IF 5 <= Len(whole) THEN Len(whole) - 5 + 1 ELSE 0
    BY <1>2, <1>3, <2>1, SubSeqProperties, SMTT(30)
  <2> QED BY <1>2, <1>3, <2>2
<1>6. \A i \in 1..Len(content) : back[i] = whole[4 + i]
  BY <1>2, <1>3
<1>7. back = content
  <2> HIDE DEF back
  <2> QED BY <1>2, <1>4, <1>5, <1>6, SeqEqual
<1> QED BY <1>1, <1>3, <1>7 DEF Compressed, Decompressed, Bytes

\* The conversions of a tree, entry by entry.
RenamedEntry(entry, names) == [entry EXCEPT !.value = Renamed(@, names)]

LEMMA InversesKnown ==
  /\ InverseOf(ProtoCase)["file"] = "File" /\ InverseOf(ProtoCase)["symlink_id"] = "Symlink"
  /\ InverseOf(ProtoCase)["tree_id"] = "Tree"
  /\ InverseOf(EntryCase)["File"] = "file" /\ InverseOf(EntryCase)["SymlinkId"] = "symlink_id"
  /\ InverseOf(EntryCase)["TreeId"] = "tree_id"
<1>1. /\ DOMAIN ProtoCase = {"File", "Symlink", "Tree", "Conflict"}
      /\ ProtoCase["File"] = "file" /\ ProtoCase["Symlink"] = "symlink_id"
      /\ ProtoCase["Tree"] = "tree_id" /\ ProtoCase["Conflict"] = "conflict_id"
  BY DEF ProtoCase
<1>2. /\ DOMAIN EntryCase = {"file", "symlink_id", "tree_id", "conflict_id"}
      /\ EntryCase["file"] = "File" /\ EntryCase["symlink_id"] = "SymlinkId"
      /\ EntryCase["tree_id"] = "TreeId" /\ EntryCase["conflict_id"] = "ConflictId"
  BY DEF EntryCase
<1>3. ASSUME NEW names, NEW k \in DOMAIN names,
             \A j \in DOMAIN names : names[j] = names[k] => j = k
      PROVE  InverseOf(names)[names[k]] = k
  BY <1>3 DEF InverseOf
<1>4. ASSUME NEW k \in {"File", "Symlink", "Tree"}
      PROVE  InverseOf(ProtoCase)[ProtoCase[k]] = k
  <2>1. k \in DOMAIN ProtoCase /\ \A j \in DOMAIN ProtoCase : ProtoCase[j] = ProtoCase[k] => j = k
    BY <1>1
  <2> QED BY <1>3, <2>1
<1>5. ASSUME NEW k \in {"file", "symlink_id", "tree_id"}
      PROVE  InverseOf(EntryCase)[EntryCase[k]] = k
  <2>1. k \in DOMAIN EntryCase /\ \A j \in DOMAIN EntryCase : EntryCase[j] = EntryCase[k] => j = k
    BY <1>2
  <2> QED BY <1>3, <2>1
<1> QED BY <1>1, <1>2, <1>4, <1>5

LEMMA ValueBack ==
  ASSUME NEW v \in TreeValues, v.kind \in {"File", "Symlink", "Tree"}
  PROVE  LET stored == Renamed(Renamed(v, ProtoCase), EntryCase)
         IN  /\ stored \in StoredValues /\ stored.id = v.id
             /\ Renamed(Renamed(stored, InverseOf(EntryCase)), InverseOf(ProtoCase)) = v
<1> DEFINE IP == InverseOf(ProtoCase)
           IE == InverseOf(EntryCase)
           v1 == Renamed(v, ProtoCase)
           v2 == Renamed(v1, EntryCase)
           v3 == Renamed(v2, IE)
           v4 == Renamed(v3, IP)
<1>1. /\ ProtoCase["File"] = "file" /\ ProtoCase["Symlink"] = "symlink_id"
      /\ ProtoCase["Tree"] = "tree_id"
      /\ EntryCase["file"] = "File" /\ EntryCase["symlink_id"] = "SymlinkId"
      /\ EntryCase["tree_id"] = "TreeId"
  BY DEF ProtoCase, EntryCase
<1>2. /\ IP["file"] = "File" /\ IP["symlink_id"] = "Symlink" /\ IP["tree_id"] = "Tree"
      /\ IE["File"] = "file" /\ IE["SymlinkId"] = "symlink_id" /\ IE["TreeId"] = "tree_id"
  BY InversesKnown
<1> HIDE DEF IP, IE
<1>3. CASE v.kind = "File"
  <2>1. PICK i \in Bytes, e \in BOOLEAN : v = [kind |-> "File", id |-> i, executable |-> e]
    BY <1>3 DEF TreeValues
  <2>2. v1 = [kind |-> "file", id |-> i, executable |-> e]
    BY <1>1, <2>1 DEF Renamed
  <2>3. v2 = [kind |-> "File", id |-> i, executable |-> e]
    <3> HIDE DEF v1
    <3> QED BY <1>1, <2>2 DEF Renamed
  <2>4. v3 = [kind |-> "file", id |-> i, executable |-> e]
    <3> HIDE DEF v2
    <3> QED BY <1>2, <2>3 DEF Renamed
  <2>5. v4 = [kind |-> "File", id |-> i, executable |-> e]
    <3> HIDE DEF v3
    <3> QED BY <1>2, <2>4 DEF Renamed
  <2>6. v2 \in StoredValues /\ v2.id = v.id
    <3> HIDE DEF v2
    <3> QED BY <2>1, <2>3 DEF StoredValues
  <2> QED BY <2>1, <2>5, <2>6 DEF IP, IE
<1>4. CASE v.kind # "File"
  <2>1. PICK i \in Bytes : v = [kind |-> v.kind, id |-> i]
    BY <1>4 DEF TreeValues
  <2> DEFINE k1 == ProtoCase[v.kind]
             k2 == EntryCase[k1]
  <2>2. k2 \in {"SymlinkId", "TreeId"} /\ IE[k2] = k1 /\ IP[k1] = v.kind
    BY <1>1, <1>2, <1>4
  <2> HIDE DEF k2
  <2>3. v1 = [kind |-> k1, id |-> i]
    BY <2>1 DEF Renamed
  <2> HIDE DEF k1
  <2>4. v2 = [kind |-> k2, id |-> i]
    <3> HIDE DEF v1
    <3> QED BY <2>3 DEF Renamed, k2
  <2>5. v3 = [kind |-> k1, id |-> i]
    <3> HIDE DEF v2
    <3> QED BY <2>2, <2>4 DEF Renamed
  <2>6. v4 = [kind |-> v.kind, id |-> i]
    <3> HIDE DEF v3
    <3> QED BY <2>2, <2>5 DEF Renamed
  <2>7. v2 \in StoredValues /\ v2.id = v.id
    <3> HIDE DEF v2
    <3> QED BY <2>1, <2>2, <2>4 DEF StoredValues
  <2> QED BY <2>1, <2>6, <2>7 DEF IP, IE
<1> QED BY <1>3, <1>4

LEMMA EntriesType ==
  ASSUME NEW tree \in Trees
  PROVE  \A k \in DOMAIN tree : tree[k] \in [name : Bytes, value : TreeValues]
<1> DEFINE Entries == [name : Bytes, value : TreeValues]
<1>1. tree \in Seq(Entries)
  BY DEF Trees
<1> HIDE DEF Entries
<1>2. \A k \in DOMAIN tree : tree[k] \in Entries
  BY <1>1, LenProperties, ElementOfSeq
<1> QED BY <1>2 DEF Entries

\* jj's trees come back, and what can be hashed of them is known by its hash.
LEMMA TreeBack ==
  ASSUME NEW tree \in Trees, ~ HasKind(tree, {"GitSubmodule", "Conflict"})
  PROVE  TreeFromProto(TreeAsProto(TreeInto(TreeToProto(tree)))) = tree
<1> DEFINE IP == InverseOf(ProtoCase)
           IE == InverseOf(EntryCase)
           Back(e) == RenamedEntry(RenamedEntry(RenamedEntry(RenamedEntry(
                        e, ProtoCase), EntryCase), IE), IP)
<1>1. \A k \in DOMAIN tree : tree[k] \in [name : Bytes, value : TreeValues]
  BY EntriesType
<1>2. \A k \in DOMAIN tree : tree[k].value.kind \in {"File", "Symlink", "Tree"}
  BY <1>1 DEF HasKind, TreeValues
<1>3. ASSUME NEW k \in DOMAIN tree PROVE Back(tree[k]) = tree[k]
  <2>1. PICK n \in Bytes, v \in TreeValues : tree[k] = [name |-> n, value |-> v]
    BY <1>1
  <2>2. v.kind \in {"File", "Symlink", "Tree"}
    BY <1>2, <2>1
  <2> DEFINE v1 == Renamed(v, ProtoCase)
             v2 == Renamed(v1, EntryCase)
             v3 == Renamed(v2, IE)
             v4 == Renamed(v3, IP)
  <2>3. v4 = v
    BY <2>2, ValueBack
  <2>4. \A u, names : RenamedEntry([name |-> n, value |-> u], names) =
                        [name |-> n, value |-> Renamed(u, names)]
    BY DEF RenamedEntry
  <2> HIDE DEF IP, IE
  <2>5. RenamedEntry(tree[k], ProtoCase) = [name |-> n, value |-> v1]
    BY <2>1, <2>4
  <2>6. RenamedEntry([name |-> n, value |-> v1], EntryCase) = [name |-> n, value |-> v2]
    BY <2>4
  <2>7. RenamedEntry([name |-> n, value |-> v2], IE) = [name |-> n, value |-> v3]
    BY <2>4
  <2>8. RenamedEntry([name |-> n, value |-> v3], IP) = [name |-> n, value |-> v4]
    BY <2>4
  <2> HIDE DEF v1, v2, v3, v4
  <2> QED BY <2>1, <2>3, <2>5, <2>6, <2>7, <2>8
<1>4. ASSUME NEW t, NEW names
      PROVE  WithKinds(t, names) = [k \in DOMAIN t |-> RenamedEntry(t[k], names)]
  BY DEF WithKinds, RenamedEntry
<1>5. TreeFromProto(TreeAsProto(TreeInto(TreeToProto(tree)))) = [k \in DOMAIN tree |-> Back(tree[k])]
  <2> HIDE DEF IP, IE
  <2>1. TreeToProto(tree) = [k \in DOMAIN tree |-> RenamedEntry(tree[k], ProtoCase)]
    BY <1>4 DEF TreeToProto
  <2>2. TreeInto(TreeToProto(tree)) =
          [k \in DOMAIN tree |-> RenamedEntry(RenamedEntry(tree[k], ProtoCase), EntryCase)]
    BY <1>4, <2>1 DEF TreeInto
  <2>3. TreeAsProto(TreeInto(TreeToProto(tree))) =
          [k \in DOMAIN tree |->
             RenamedEntry(RenamedEntry(RenamedEntry(tree[k], ProtoCase), EntryCase), IE)]
    BY <1>4, <2>2 DEF TreeAsProto, IE
  <2> QED BY <1>4, <2>3 DEF TreeFromProto, IP
<1>6. tree = [k \in DOMAIN tree |-> tree[k]]
  BY DEF Trees
<1> HIDE DEF Back
<1> QED BY <1>3, <1>5, <1>6

LEMMA TreeStored ==
  ASSUME NEW tree \in JjTrees \cup {EmptyTree}, ~ CannotEncode(tree),
         ~ CannotHash(TreeInto(TreeToProto(tree)))
  PROVE  /\ tree \in Trees /\ ~ HasKind(tree, {"GitSubmodule", "Conflict"})
         /\ TreeInto(TreeToProto(tree)) \in StoredTrees
<1> DEFINE stored == TreeInto(TreeToProto(tree))
           Entry(e) == RenamedEntry(RenamedEntry(e, ProtoCase), EntryCase)
<1>1. /\ tree \in Trees /\ Short(tree)
      /\ \A k \in DOMAIN tree : Short(tree[k].name) /\ Short(tree[k].value.id)
  <2>1. CASE tree \in JjTrees
    BY <2>1, ObjectsAssumption, LengthsAssumption
  <2>2. CASE tree = << >>
    BY <2>2, Widths DEF Trees, Short
  <2> QED BY <2>1, <2>2 DEF EmptyTree
<1>2. \A k \in DOMAIN tree : tree[k] \in [name : Bytes, value : TreeValues]
  BY <1>1, EntriesType
<1>3. stored = [k \in DOMAIN tree |-> Entry(tree[k])]
  <2>1. \A t, names : WithKinds(t, names) = [k \in DOMAIN t |-> RenamedEntry(t[k], names)]
    BY DEF WithKinds, RenamedEntry
  <2>2. TreeToProto(tree) = [k \in DOMAIN tree |-> RenamedEntry(tree[k], ProtoCase)]
    BY <2>1 DEF TreeToProto
  <2> QED BY <2>1, <2>2 DEF TreeInto
<1>4. ASSUME NEW k \in DOMAIN tree
      PROVE  /\ Entry(tree[k]).value = Renamed(Renamed(tree[k].value, ProtoCase), EntryCase)
             /\ Entry(tree[k]).name = tree[k].name
             /\ Entry(tree[k]) =
                  [name |-> tree[k].name,
                   value |-> Renamed(Renamed(tree[k].value, ProtoCase), EntryCase)]
  <2>1. PICK n \in Bytes, v \in TreeValues : tree[k] = [name |-> n, value |-> v]
    BY <1>2
  <2>2. \A u, names : RenamedEntry([name |-> n, value |-> u], names) =
                        [name |-> n, value |-> Renamed(u, names)]
    BY DEF RenamedEntry
  <2>3. Entry(tree[k]) = [name |-> n, value |-> Renamed(Renamed(v, ProtoCase), EntryCase)]
    BY <2>1, <2>2
  <2> QED BY <2>1, <2>3
<1>5. ASSUME NEW k \in DOMAIN tree PROVE tree[k].value.kind \in {"File", "Symlink", "Tree"}
  <2>1. PICK v \in TreeValues : v = tree[k].value
    BY <1>2
  <2>2. v.kind # "GitSubmodule"
    BY <2>1 DEF CannotEncode, HasKind
  <2>3. v.kind # "Conflict"
    <3>1. ASSUME v.kind = "Conflict" PROVE FALSE
      <4>1. PICK i \in Bytes : v = [kind |-> "Conflict", id |-> i]
        BY <3>1 DEF TreeValues
      <4>2. Renamed(v, ProtoCase) = [kind |-> "conflict_id", id |-> i]
        BY <4>1 DEF Renamed, ProtoCase
      <4>3. Renamed(Renamed(v, ProtoCase), EntryCase).kind = "ConflictId"
        BY <4>2 DEF Renamed, EntryCase
      <4>4. stored[k].value.kind = "ConflictId" /\ k \in DOMAIN stored
        BY <1>3, <1>4, <2>1, <4>3
      <4> HIDE DEF stored
      <4> QED BY <4>4 DEF CannotHash, HasKind, stored
    <3> QED BY <3>1
  <2>4. v.kind \in {"File", "Symlink", "Tree", "Conflict", "GitSubmodule"}
    BY <2>1 DEF TreeValues
  <2> QED BY <2>1, <2>2, <2>3, <2>4
<1>6. ~ HasKind(tree, {"GitSubmodule", "Conflict"})
  BY <1>5 DEF HasKind
<1> DEFINE Entries == [name : Bytes, value : StoredValues]
<1>7. ASSUME NEW k \in DOMAIN tree
      PROVE  /\ Entry(tree[k]) \in Entries
             /\ Short(Entry(tree[k]).name) /\ Short(Entry(tree[k]).value.id)
  <2>1. PICK v \in TreeValues : v = tree[k].value /\ tree[k].name \in Bytes
    BY <1>2
  <2>2. PICK u \in StoredValues :
          u = Renamed(Renamed(v, ProtoCase), EntryCase) /\ u.id = v.id
    BY <1>5, <2>1, ValueBack
  <2>3. /\ Entry(tree[k]) = [name |-> tree[k].name, value |-> u]
        /\ Entry(tree[k]).name = tree[k].name /\ Entry(tree[k]).value = u
    BY <1>4, <2>1, <2>2
  <2> HIDE DEF Entry
  <2> QED BY <1>1, <2>1, <2>2, <2>3
<1>8. DOMAIN tree = 1..Len(tree) /\ Len(tree) \in Nat
  BY <1>1, LenProperties DEF Trees
<1> HIDE DEF Entry, Entries, stored
<1>9. stored \in Seq(Entries) /\ Len(stored) = Len(tree)
  BY <1>3, <1>7, <1>8
<1>10. Short(stored) /\ \A k \in DOMAIN stored : Short(stored[k].name) /\ Short(stored[k].value.id)
  BY <1>1, <1>3, <1>7, <1>9 DEF Short
<1>11. stored \in StoredTrees
  BY <1>9, <1>10 DEF StoredTrees, Entries
<1> QED BY <1>1, <1>6, <1>11 DEF stored

\* So do jj's commits, but for their signatures, which are not saved.
LEMMA CommitBack ==
  ASSUME NEW commit \in Commits, ~ CannotSave(commit)
  PROVE  CommitToProto(commit) \in StoredCommits /\ CommitFromProto(CommitToProto(commit)) = commit
<1>1. /\ commit.root_tree \in [kind : {"Legacy", "Merge"}, terms : Seq(Bytes)]
      /\ commit.secure_sig = FALSE
  BY DEF Commits, CannotSave
<1>2. CommitToProto(commit) \in StoredCommits
  BY <1>1 DEF Commits, StoredCommits, CommitToProto, ConflictFormat
<1>3. [kind |-> IF ConflictFormat(commit.root_tree) THEN "Merge" ELSE "Legacy",
       terms |-> commit.root_tree.terms] = commit.root_tree
  BY <1>1 DEF ConflictFormat
<1>4. CommitFromProto(CommitToProto(commit)) =
        [ parents |-> commit.parents, predecessors |-> commit.predecessors,
          root_tree |-> commit.root_tree, change_id |-> commit.change_id,
          description |-> commit.description, author |-> commit.author,
          committer |-> commit.committer, secure_sig |-> FALSE ]
  BY <1>3 DEF CommitFromProto, CommitToProto
<1>5. commit =
        [ parents |-> commit.parents, predecessors |-> commit.predecessors,
          root_tree |-> commit.root_tree, change_id |-> commit.change_id,
          description |-> commit.description, author |-> commit.author,
          committer |-> commit.committer, secure_sig |-> FALSE ]
  BY <1>1 DEF Commits
<1> QED BY <1>2, <1>4, <1>5

\* What a step may never do: change or lose an object.
Immutable ==
  \A name \in Names : \A id \in DOMAIN tables[name] :
    id \in DOMAIN tables'[name] /\ tables'[name][id] = tables[name][id]

LEMMA InsertKeeps ==
  ASSUME TablesFit, NEW table \in Names, NEW id, NEW object,
         Fits(table, id, object), Insert(table, id, object)
  PROVE  /\ TablesFit' /\ Immutable
         /\ id \in DOMAIN tables'[table] /\ tables'[table][id] = object
<1>1. tables = [name \in Names |-> tables[name]]
  BY DEF TablesFit
<1>2. tables' = [tables EXCEPT ![table] = Put(tables[table], id, object)]
  BY DEF Insert
<1>3. tables' = [name \in Names |-> tables'[name]]
  BY <1>1, <1>2
<1>4. \A name \in Names : name # table => tables'[name] = tables[name]
  BY <1>1, <1>2
<1>5. /\ DOMAIN tables'[table] = DOMAIN tables[table] \cup {id}
      /\ \A k \in DOMAIN tables[table] \cup {id} :
           tables'[table][k] = IF k = id THEN object ELSE tables[table][k]
  <2>1. tables'[table] = Put(tables[table], id, object)
    BY <1>1, <1>2
  <2> QED BY <2>1 DEF Put
<1>6. \A name \in Names : \A k \in DOMAIN tables[name] : Fits(name, k, tables[name][k])
  BY DEF TablesFit
<1>7. id \in DOMAIN tables[table] => tables[table][id] = object
  <2> SUFFICES ASSUME id \in DOMAIN tables[table] PROVE tables[table][id] = object
    OBVIOUS
  <2>1. Fits(table, id, tables[table][id])
    BY <1>6
  <2> QED BY <2>1, Unique
<1>8. Immutable
  <2> SUFFICES ASSUME NEW name \in Names, NEW k \in DOMAIN tables[name]
               PROVE  k \in DOMAIN tables'[name] /\ tables'[name][k] = tables[name][k]
    BY DEF Immutable
  <2>1. CASE name = table
    BY <1>5, <1>7, <2>1
  <2>2. CASE name # table
    BY <1>4, <2>2
  <2> QED BY <2>1, <2>2
<1>9. ASSUME NEW name \in Names, NEW k \in DOMAIN tables'[name]
      PROVE  Fits(name, k, tables'[name][k])
  <2>1. CASE name = table /\ k = id
    <3>1. tables'[name][k] = object
      BY <1>5, <2>1
    <3> QED BY <2>1, <3>1
  <2>2. CASE ~ (name = table /\ k = id)
    <3>1. k \in DOMAIN tables[name] /\ tables'[name][k] = tables[name][k]
      BY <1>4, <1>5, <2>2
    <3> QED BY <1>6, <3>1
  <2> QED BY <2>1, <2>2
<1>10. id \in DOMAIN tables'[table] /\ tables'[table][id] = object
  BY <1>5
<1> QED BY <1>3, <1>8, <1>9, <1>10 DEF TablesFit

\* What was there stays what it was.
LEMMA WrittenStays ==
  ASSUME WrittenIsKept, Immutable, written' = written
  PROVE  WrittenIsKept'
<1> SUFFICES ASSUME NEW w \in written
             PROVE  /\ w[1] \in Names /\ w[2] \in DOMAIN tables'[w[1]]
                    /\ Kept(w[1], w[3]) /\ tables'[w[1]][w[2]] = Saved(w[1], w[3])
  BY DEF WrittenIsKept
<1>1. /\ w[1] \in Names /\ w[2] \in DOMAIN tables[w[1]]
      /\ Kept(w[1], w[3]) /\ tables[w[1]][w[2]] = Saved(w[1], w[3])
  BY DEF WrittenIsKept
<1> QED BY <1>1 DEF Immutable

LEMMA TablesStay ==
  ASSUME TablesFit, tables' = tables
  PROVE  TablesFit' /\ Immutable
<1>1. TablesFit'
  BY DEF TablesFit
<1>2. Immutable
  BY DEF Immutable
<1> QED BY <1>1, <1>2

\* The calls of jj's backend.
LEMMA JjWritesKeeps ==
  ASSUME IInv, NEW table \in Names, NEW id, NEW object, Kept(table, object),
         Fits(table, id, Saved(table, object)), JjWrites(table, id, Saved(table, object), object)
  PROVE  IInv' /\ Immutable
<1> DEFINE stored == Saved(table, object)
<1>1. /\ Insert(table, id, stored) /\ written' = written \cup {<<table, id, object>>}
      /\ reply' = [res |-> "id", table |-> table, id |-> id]
  BY DEF JjWrites, Returns
<1>2. TablesFit /\ WrittenIsKept
  BY DEF IInv
<1>3. /\ TablesFit' /\ Immutable
      /\ id \in DOMAIN tables'[table] /\ tables'[table][id] = stored
  <2> HIDE DEF stored
  <2>1. Fits(table, id, stored)
    BY DEF stored
  <2> QED BY <1>1, <1>2, <2>1, InsertKeeps
<1>4. WrittenIsKept'
  <2> SUFFICES ASSUME NEW w \in written'
               PROVE  /\ w[1] \in Names /\ w[2] \in DOMAIN tables'[w[1]]
                      /\ Kept(w[1], w[3]) /\ tables'[w[1]][w[2]] = Saved(w[1], w[3])
    BY DEF WrittenIsKept
  <2>1. CASE w \in written
    <3>1. /\ w[1] \in Names /\ w[2] \in DOMAIN tables[w[1]]
          /\ Kept(w[1], w[3]) /\ tables[w[1]][w[2]] = Saved(w[1], w[3])
      BY <1>2, <2>1 DEF WrittenIsKept
    <3> QED BY <1>3, <3>1 DEF Immutable
  <2>2. CASE w = <<table, id, object>>
    <3>1. w[1] = table /\ w[2] = id /\ w[3] = object
      BY <2>2
    <3> QED BY <1>3, <3>1
  <2> QED BY <1>1, <2>1, <2>2
<1>5. ReplyIsLoaded'
  <2>1. reply'.res = "id"
    BY <1>1
  <2> QED BY <2>1 DEF ReplyIsLoaded
<1> QED BY <1>3, <1>4, <1>5 DEF IInv

LEMMA JjReadsKeeps ==
  ASSUME IInv, NEW table \in Names, NEW id, id \in DOMAIN tables[table], NEW object,
         object = Loaded(table, tables[table][id]), JjReads(table, id, object)
  PROVE  IInv' /\ Immutable
<1>1. /\ reply' = [res |-> "object", table |-> table, id |-> id, object |-> object]
      /\ tables' = tables /\ written' = written
  BY DEF JjReads, Returns
<1>2. TablesFit' /\ Immutable
  BY <1>1, TablesStay DEF IInv
<1>3. WrittenIsKept'
  BY <1>1, <1>2, WrittenStays DEF IInv
<1>4. ReplyIsLoaded'
  <2>1. reply'.table = table /\ reply'.id = id /\ reply'.object = object
    BY <1>1
  <2> QED BY <1>1, <2>1 DEF ReplyIsLoaded
<1> QED BY <1>2, <1>3, <1>4 DEF IInv

LEMMA FailsKeeps ==
  ASSUME IInv, NEW res, res # "object", Fails(res)
  PROVE  IInv' /\ Immutable
<1>1. reply' = [res |-> res] /\ tables' = tables /\ written' = written
  BY DEF Fails, Returns
<1>2. TablesFit' /\ Immutable
  BY <1>1, TablesStay DEF IInv
<1>3. WrittenIsKept'
  BY <1>1, <1>2, WrittenStays DEF IInv
<1>4. ReplyIsLoaded'
  <2>1. reply'.res # "object"
    BY <1>1
  <2> QED BY <2>1 DEF ReplyIsLoaded
<1> QED BY <1>2, <1>3, <1>4 DEF IInv

\* The calls of the mounts, which jj does not see.
LEMMA StoreKeeps ==
  ASSUME IInv, NEW table \in Names, NEW id, NEW object, Fits(table, id, object),
         Insert(table, id, object), UNCHANGED <<written, reply>>
  PROVE  IInv' /\ Immutable
<1>1. TablesFit' /\ Immutable
  BY InsertKeeps DEF IInv
<1>2. WrittenIsKept'
  BY <1>1, WrittenStays DEF IInv
<1>3. ReplyIsLoaded'
  <2> SUFFICES ASSUME reply.res = "object",
                      reply.table \in Names, reply.id \in DOMAIN tables[reply.table],
                      reply.object = Loaded(reply.table, tables[reply.table][reply.id])
               PROVE  /\ reply.id \in DOMAIN tables'[reply.table]
                      /\ reply.object = Loaded(reply.table, tables'[reply.table][reply.id])
    BY DEF IInv, ReplyIsLoaded
  <2>1. /\ reply.id \in DOMAIN tables'[reply.table]
        /\ tables'[reply.table][reply.id] = tables[reply.table][reply.id]
    BY <1>1 DEF Immutable
  <2> QED BY <2>1
<1> QED BY <1>1, <1>2, <1>3 DEF IInv

-----------------------------------------------------------------------------
(* The steps.                                                              *)

LEMMA EmptyTreeStored ==
  /\ EmptyTree \in StoredTrees /\ Saved("trees", EmptyTree) = EmptyTree
  /\ Kept("trees", EmptyTree)
<1>1. Short(<< >>)
  BY Widths DEF Short
<1>2. EmptyTree \in StoredTrees
  BY <1>1 DEF EmptyTree, StoredTrees
<1>3. Saved("trees", EmptyTree) = EmptyTree
  <2>1. \A names : WithKinds(<< >>, names) = << >>
    BY DEF WithKinds
  <2> QED BY <2>1 DEF Saved, EmptyTree, TreeInto, TreeToProto
<1>4. Kept("trees", EmptyTree)
  BY DEF Kept, EmptyTree, Trees, HasKind
<1> QED BY <1>2, <1>3, <1>4

LEMMA InitKept == Init => IInv
<1> SUFFICES ASSUME Init PROVE IInv
  OBVIOUS
<1>1. tables = [name \in Names |-> IF name = "trees" THEN FirstTrees ELSE NoObjects]
  BY DEF Init
<1>2. "trees" \in Names
  BY DEF Names
<1>3. /\ DOMAIN FirstTrees = {EmptyTreeId} /\ FirstTrees[EmptyTreeId] = EmptyTree
      /\ DOMAIN NoObjects = {}
  BY DEF FirstTrees, NoObjects, Put
<1>4. TablesFit
  <2>1. tables = [name \in Names |-> tables[name]]
    BY <1>1
  <2>2. ASSUME NEW name \in Names, NEW id \in DOMAIN tables[name]
        PROVE  Fits(name, id, tables[name][id])
    <3>1. name = "trees" /\ id = EmptyTreeId /\ tables[name][id] = EmptyTree
      BY <1>1, <1>3
    <3>2. Fits("trees", EmptyTreeId, EmptyTree)
      BY EmptyTreeStored DEF Fits, TreeFits, EmptyTreeId
    <3> QED BY <3>1, <3>2
  <2> QED BY <2>1, <2>2 DEF TablesFit
<1>5. WrittenIsKept
  <2>1. tables["trees"] = FirstTrees
    BY <1>1, <1>2
  <2> SUFFICES ASSUME NEW w \in written
               PROVE  /\ w[1] \in Names /\ w[2] \in DOMAIN tables[w[1]]
                      /\ Kept(w[1], w[3]) /\ tables[w[1]][w[2]] = Saved(w[1], w[3])
    BY DEF WrittenIsKept
  <2>2. w[1] = "trees" /\ w[2] = EmptyTreeId /\ w[3] = EmptyTree
    BY DEF Init
  <2> QED BY <1>2, <1>3, <2>1, <2>2, EmptyTreeStored
<1>6. ReplyIsLoaded
  BY DEF Init, ReplyIsLoaded
<1> QED BY <1>4, <1>5, <1>6 DEF IInv

\* What jj writes fits under the id it is given.
LEMMA TextKept ==
  ASSUME NEW table \in {"files", "symlinks"}, NEW text \in Bytes
  PROVE  Fits(table, BytesField(1, text), text)
  BY DEF Fits, TextFits

LEMMA NextKept ==
  ASSUME IInv, [Next]_vars
  PROVE  IInv' /\ Immutable
<1>0. /\ "files" \in Names /\ "symlinks" \in Names /\ "trees" \in Names /\ "commits" \in Names
      /\ WrittenIsKept /\ TablesFit
  BY DEF Names, IInv
<1>1. ASSUME NEW content \in JjFiles, WriteFile(content) PROVE IInv' /\ Immutable
  <2> DEFINE data == Compressed(content)
  <2>1. content \in Bytes
    BY ObjectsAssumption
  <2>2. data \in Bytes
    BY <2>1, CompressedBack
  <2>3. Kept("files", content) /\ Saved("files", content) = data
    BY <2>1 DEF Kept, Saved
  <2>4. Fits("files", EncodeFile(data), data)
    <3> HIDE DEF data
    <3> QED BY <2>2, TextKept DEF EncodeFile
  <2>5. JjWrites("files", EncodeFile(data), data, content)
    BY <1>1 DEF WriteFile
  <2> HIDE DEF data
  <2> QED BY <1>0, <2>3, <2>4, <2>5, JjWritesKeeps
<1>2. ASSUME NEW target \in JjSymlinks, WriteSymlink(target) PROVE IInv' /\ Immutable
  <2>1. target \in Bytes
    BY ObjectsAssumption
  <2>2. Kept("symlinks", target) /\ Saved("symlinks", target) = target
    BY <2>1 DEF Kept, Saved
  <2>3. Fits("symlinks", EncodeSymlink(target), target)
    BY <2>1, TextKept DEF EncodeSymlink
  <2>4. JjWrites("symlinks", EncodeSymlink(target), target, target)
    BY <1>2 DEF WriteSymlink
  <2> QED BY <1>0, <2>2, <2>3, <2>4, JjWritesKeeps
<1>3. ASSUME NEW tree \in JjTrees, WriteTree(tree) PROVE IInv' /\ Immutable
  <2> DEFINE object == TreeInto(TreeToProto(tree))
  <2>1. CASE Fails("panic")
    BY <2>1, FailsKeeps
  <2>2. CASE /\ ~ CannotEncode(tree) /\ ~ CannotHash(object)
             /\ JjWrites("trees", HashTree(object), object, tree)
    <3>1. /\ tree \in Trees /\ ~ HasKind(tree, {"GitSubmodule", "Conflict"})
          /\ object \in StoredTrees
      BY <2>2, TreeStored
    <3>2. Kept("trees", tree) /\ Saved("trees", tree) = object
      BY <3>1 DEF Kept, Saved
    <3> HIDE DEF object
    <3>3. Fits("trees", HashTree(object), object)
      BY <3>1 DEF Fits, TreeFits
    <3> QED BY <1>0, <2>2, <3>2, <3>3, JjWritesKeeps
  <2> QED BY <1>3, <2>1, <2>2 DEF WriteTree
<1>4. ASSUME NEW commit \in JjCommits, WriteCommit(commit) PROVE IInv' /\ Immutable
  <2> DEFINE proto == CommitToProto(commit)
  <2>1. CASE Fails("panic")
    BY <2>1, FailsKeeps
  <2>2. CASE Fails("error")
    BY <2>2, FailsKeeps
  <2>3. CASE ~ CannotSave(commit) /\ JjWrites("commits", EncodeCommit(proto), proto, commit)
    <3>1. commit \in Commits
      BY ObjectsAssumption
    <3>2. proto \in StoredCommits
      BY <2>3, <3>1, CommitBack
    <3>3. Kept("commits", commit) /\ Saved("commits", commit) = proto
      BY <2>3, <3>1 DEF Kept, Saved
    <3> HIDE DEF proto
    <3>4. Fits("commits", EncodeCommit(proto), proto)
      BY <3>2 DEF Fits, CommitFits
    <3> QED BY <1>0, <2>3, <3>3, <3>4, JjWritesKeeps
  <2> QED BY <1>4, <2>1, <2>2, <2>3 DEF WriteCommit
<1>5. ASSUME NEW table \in Names, NEW id \in Given(table) PROVE id \in DOMAIN tables[table]
  BY <1>0, <1>5 DEF Given, WrittenIsKept
<1>6. ASSUME NEW id \in Given("files"), ReadFile(id) PROVE IInv' /\ Immutable
  <2>1. Decompressed(tables["files"][id]) = Loaded("files", tables["files"][id])
    BY DEF Loaded
  <2>2. JjReads("files", id, Decompressed(tables["files"][id]))
    BY <1>6 DEF ReadFile
  <2> QED BY <1>0, <1>5, <2>1, <2>2, JjReadsKeeps
<1>7. ASSUME NEW id \in Given("symlinks"), ReadSymlink(id) PROVE IInv' /\ Immutable
  <2>1. tables["symlinks"][id] = Loaded("symlinks", tables["symlinks"][id])
    BY DEF Loaded
  <2>2. JjReads("symlinks", id, tables["symlinks"][id])
    BY <1>7 DEF ReadSymlink
  <2> QED BY <1>0, <1>5, <2>1, <2>2, JjReadsKeeps
<1>8. ASSUME NEW id \in Given("trees"), ReadTree(id) PROVE IInv' /\ Immutable
  <2> DEFINE object == TreeFromProto(TreeAsProto(tables["trees"][id]))
  <2>1. CASE Fails("panic")
    BY <2>1, FailsKeeps
  <2>2. CASE JjReads("trees", id, object)
    <3>1. object = Loaded("trees", tables["trees"][id])
      BY DEF Loaded
    <3> HIDE DEF object
    <3> QED BY <1>0, <1>5, <2>2, <3>1, JjReadsKeeps
  <2> QED BY <1>8, <2>1, <2>2 DEF ReadTree
<1>9. ASSUME NEW id \in Given("commits"), ReadCommit(id) PROVE IInv' /\ Immutable
  <2> DEFINE object == CommitFromProto(tables["commits"][id])
  <2>1. CASE Fails("panic")
    BY <2>1, FailsKeeps
  <2>2. CASE JjReads("commits", id, object)
    <3>1. object = Loaded("commits", tables["commits"][id])
      BY DEF Loaded
    <3> HIDE DEF object
    <3> QED BY <1>0, <1>5, <2>2, <3>1, JjReadsKeeps
  <2> QED BY <1>9, <2>1, <2>2 DEF ReadCommit
<1>10. CASE ReadRootCommit
  <2>1. /\ tables' = tables /\ written' = written
        /\ reply' = [res |-> "object", table |-> "commits", id |-> RootCommitId,
                     object |-> RootCommit]
    BY <1>10 DEF ReadRootCommit, JjReads, Returns
  <2>2. TablesFit' /\ Immutable
    BY <1>0, <2>1, TablesStay
  <2>3. WrittenIsKept'
    BY <1>0, <2>1, <2>2, WrittenStays
  <2>4. ReplyIsLoaded'
    BY <2>1 DEF ReplyIsLoaded
  <2> QED BY <2>2, <2>3, <2>4 DEF IInv
<1>11. ASSUME NEW content \in MountFiles, StoreFile(content) PROVE IInv' /\ Immutable
  <2>1. content \in Bytes /\ Short(content)
    BY ObjectsAssumption, LengthsAssumption
  <2>2. Fits("files", HashBytes(content), content)
    BY <2>1 DEF Fits, TextFits
  <2>3. Insert("files", HashBytes(content), content) /\ UNCHANGED <<written, reply>>
    BY <1>11 DEF StoreFile
  <2> QED BY <1>0, <2>2, <2>3, StoreKeeps
<1>12. ASSUME NEW target \in MountSymlinks, StoreSymlink(target) PROVE IInv' /\ Immutable
  <2>1. target \in Bytes /\ Short(target)
    BY ObjectsAssumption, LengthsAssumption
  <2>2. Fits("symlinks", HashBytes(target), target)
    BY <2>1 DEF Fits, TextFits
  <2>3. Insert("symlinks", HashBytes(target), target) /\ UNCHANGED <<written, reply>>
    BY <1>12 DEF StoreSymlink
  <2> QED BY <1>0, <2>2, <2>3, StoreKeeps
<1>13. CASE UNCHANGED vars
  <2>1. IInv'
    BY <1>13 DEF IInv, TablesFit, WrittenIsKept, ReplyIsLoaded, vars
  <2>2. Immutable
    BY <1>13 DEF Immutable, vars
  <2> QED BY <2>1, <2>2
<1> QED BY <1>1, <1>2, <1>3, <1>4, <1>6, <1>7, <1>8, <1>9, <1>10, <1>11, <1>12, <1>13 DEF Next

\* jj's objects come back from what is saved of them.
LEMMA LoadedBack ==
  ASSUME NEW table, NEW object, Kept(table, object)
  PROVE  Loaded(table, Saved(table, object)) = object
<1>1. CASE table = "files"
  BY <1>1, CompressedBack DEF Kept, Loaded, Saved
<1>2. CASE table = "symlinks"
  BY <1>2 DEF Loaded, Saved
<1>3. CASE table = "trees"
  BY <1>3, TreeBack DEF Kept, Loaded, Saved
<1>4. CASE table = "commits"
  BY <1>4, CommitBack DEF Kept, Loaded, Saved
<1> QED BY <1>1, <1>2, <1>3, <1>4 DEF Kept

LEMMA ReadsAreRight == IInv => JjReadsWhatItWrote
<1> SUFFICES ASSUME IInv PROVE JjReadsWhatItWrote
  OBVIOUS
<1>1. \A w \in written :
        /\ w[1] \in Names /\ w[2] \in DOMAIN tables[w[1]]
        /\ Kept(w[1], w[3]) /\ tables[w[1]][w[2]] = Saved(w[1], w[3])
  BY DEF IInv, WrittenIsKept
<1>2. ASSUME reply.res = "object", NEW w \in written, w[1] = reply.table, w[2] = reply.id
      PROVE  w[3] = reply.object
  <2>1. CASE reply.table = "commits" /\ reply.id = RootCommitId
    <3>1. Fits("commits", RootCommitId, tables["commits"][RootCommitId])
      BY <1>1, <1>2, <2>1 DEF IInv, TablesFit
    <3>2. \E commit \in StoredCommits : RootCommitId = EncodeCommit(commit)
      BY <3>1 DEF Fits, CommitFits
    <3> QED BY <3>2, CommitKnown
  <2>2. CASE reply.object = Loaded(reply.table, tables[reply.table][reply.id])
    <3>1. reply.object = Loaded(w[1], Saved(w[1], w[3]))
      BY <1>1, <1>2, <2>2
    <3> QED BY <1>1, <1>2, <3>1, LoadedBack
  <2> QED BY <1>2, <2>1, <2>2 DEF IInv, ReplyIsLoaded
<1> QED BY <1>1, <1>2 DEF JjReadsWhatItWrote

\* The tables hold objects under ids that are theirs alone, what jj wrote is
\* among them, and what it read last is what is there.
THEOREM ObjectStoreInvariant == Spec => []IInv
<1>1. IInv /\ [Next]_vars => IInv'
  BY NextKept
<1> QED BY <1>1, InitKept, PTL DEF Spec

\* An id stands for one object for as long as the daemon runs, whatever is
\* written by jj or by a mount, with the ids of either: no insert into a table
\* of Store changes or loses what another put there.
THEOREM ObjectsStay == Spec => ObjectsAreImmutable
<1>1. IInv /\ [Next]_vars => Immutable
  BY NextKept
<1> QED BY <1>1, ObjectStoreInvariant, PTL DEF Spec, ObjectsAreImmutable, Immutable

\* Every object that jj was given an id for is in the store, and what jj's
\* backend reads under an id is what it wrote, field by field.
THEOREM JjReadsItsWrites == Spec => []JjReadsWhatItWrote
  BY ObjectStoreInvariant, ReadsAreRight, PTL

=============================================================================
