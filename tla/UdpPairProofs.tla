---------------------------- MODULE UdpPairProofs ----------------------------
(***************************************************************************)
(* Proofs about two testers that exchange datagrams: the first byte of a   *)
(* datagram tells whether all are right (FirstSuffices), ends with slices  *)
(* that fit lose nothing by themselves (NothingCutOff), and an end that    *)
(* succeeds has received nothing that was not sent (SuccessIsExact).       *)
(*                                                                         *)
(* Each end keeps the invariants that UdpSessionProofs establishes for any *)
(* peer.  What is added here, UdpInv, relates the two: it says where the   *)
(* bytes of datagrams are.  As the two ends are alike its parts are about  *)
(* a sender and a receiver, and hold both ways round.                      *)
(***************************************************************************)
EXTENDS UdpPair, SessionProofs, SequenceTheorems, FiniteSetTheorems

-----------------------------------------------------------------------------
(* The bytes of datagrams.                                                 *)

\* A byte is where it is in its datagram and where that is among the others.
Cells(datagrams) == UNION {{i} \X DOMAIN datagrams[i] : i \in DOMAIN datagrams}

\* A row of them.
LEMMA CellsRow ==
  ASSUME NEW i, NEW d \in Seq(Nat)
  PROVE  IsFiniteSet({i} \X DOMAIN d) /\ Cardinality({i} \X DOMAIN d) = Len(d)
<1> DEFINE S == {i}
           T == DOMAIN d
           n == Len(d)
<1>1. n \in Nat /\ T = 1 .. n
  BY LenProperties
<1>2. IsFiniteSet(S) /\ Cardinality(S) = 1
  BY FS_Singleton
<1> HIDE DEF n
<1>3. IsFiniteSet(T) /\ Cardinality(T) = n
  BY <1>1, FS_Interval
<1> HIDE DEF S, T
<1>4. IsFiniteSet(S \X T) /\ Cardinality(S \X T) = Cardinality(S) * Cardinality(T)
  BY <1>2, <1>3, FS_Product
<1>5. Cardinality(S \X T) = n
  BY <1>1, <1>2, <1>3, <1>4
<1> QED BY <1>4, <1>5 DEF S, T, n

\* There are finitely many.
LEMMA CellsFinite ==
  ASSUME NEW s \in Seq(Seq(Nat))
  PROVE  IsFiniteSet(Cells(s)) /\ Cardinality(Cells(s)) \in Nat
<1> DEFINE Row(i) == {i} \X DOMAIN s[i]
           Rows == {Row(i) : i \in DOMAIN s}
           f == [i \in DOMAIN s |-> Row(i)]
<1>1. DOMAIN s = 1 .. Len(s) /\ Len(s) \in Nat /\ IsFiniteSet(DOMAIN s)
  BY LenProperties, FS_Interval
<1>2. ASSUME NEW i \in DOMAIN s PROVE IsFiniteSet(Row(i))
  <2>1. s[i] \in Seq(Nat)
    BY <1>1
  <2> QED BY <2>1, CellsRow
<1>3. IsFiniteSet(Rows)
  <2>1. f \in [DOMAIN s -> Rows] /\ \A r \in Rows : \E i \in DOMAIN s : f[i] = r
    OBVIOUS
  <2>2. f \in Surjection(DOMAIN s, Rows)
    BY <2>1 DEF Surjection
  <2> HIDE DEF f, Rows
  <2> QED BY <1>1, <2>2, FS_Surjection
<1>4. IsFiniteSet(UNION Rows)
  <2>1. \A r \in Rows : IsFiniteSet(r)
    BY <1>2
  <2> HIDE DEF Rows
  <2> QED BY <1>3, <2>1, FS_UNION
<1>5. Cells(s) = UNION Rows
  BY DEF Cells
<1> HIDE DEF Rows
<1> QED BY <1>4, <1>5, FS_CardinalityType

\* What the members are.
LEMMA CellsMembers ==
  ASSUME NEW s
  PROVE  \A x : x \in Cells(s) <=>
                    \E i \in DOMAIN s : \E j \in DOMAIN s[i] : x = <<i, j>>
BY DEF Cells

\* A datagram more,
LEMMA CellsAppend ==
  ASSUME NEW s \in Seq(Seq(Nat)), NEW d \in Seq(Nat)
  PROVE  Cardinality(Cells(Append(s, d))) = Cardinality(Cells(s)) + Len(d)
<1> DEFINE n == Len(s) + 1
           t == Append(s, d)
           row == {n} \X DOMAIN d
<1>1. /\ Len(s) \in Nat /\ DOMAIN s = 1 .. Len(s)
      /\ Len(d) \in Nat /\ DOMAIN d = 1 .. Len(d)
  BY LenProperties
<1>2. /\ DOMAIN t = 1 .. n /\ t[n] = d
      /\ \A i \in 1 .. Len(s) : t[i] = s[i]
  OBVIOUS
<1>3. IsFiniteSet(Cells(s)) /\ Cardinality(Cells(s)) \in Nat
  BY CellsFinite
<1>4. IsFiniteSet(row) /\ Cardinality(row) = Len(d)
  BY CellsRow
<1>5. DOMAIN t = DOMAIN s \cup {n} /\ n \notin DOMAIN s
  BY <1>1, <1>2
<1>6. \A i \in DOMAIN s : t[i] = s[i]
  BY <1>1, <1>2
<1>9. t[n] = d
  BY <1>2
<1> HIDE DEF t, n
<1>7. Cells(t) = Cells(s) \cup row
  BY <1>5, <1>6, <1>9 DEF Cells
<1>8. Cells(s) \cap row = {}
  BY <1>5 DEF Cells
<1>10. Cardinality(Cells(s) \cap row) = 0
  BY <1>8, FS_EmptySet
<1> HIDE DEF row
<1>11. Cardinality(Cells(t)) = Cardinality(Cells(s)) + Len(d) - 0
  BY <1>3, <1>4, <1>7, <1>10, FS_Union
<1> QED BY <1>1, <1>3, <1>11 DEF t

\* and one less.
LEMMA CellsRemove ==
  ASSUME NEW s \in Seq(Seq(Nat)), NEW i \in DOMAIN s, NEW t,
         DOMAIN t = 1 .. Len(s) - 1,
         \A j \in 1 .. Len(s) - 1 : t[j] = IF j < i THEN s[j] ELSE s[j + 1]
  PROVE  Cardinality(Cells(s)) = Cardinality(Cells(t)) + Len(s[i])
<1> DEFINE row == {i} \X DOMAIN s[i]
           rest == Cells(s) \ row
           Moved(x) == <<IF x[1] < i THEN x[1] ELSE x[1] - 1, x[2]>>
           f == [x \in rest |-> Moved(x)]
<1>1. /\ Len(s) \in Nat /\ DOMAIN s = 1 .. Len(s) /\ s[i] \in Seq(Nat)
      /\ Len(s[i]) \in Nat /\ DOMAIN s[i] = 1 .. Len(s[i])
  BY LenProperties
<1>2. IsFiniteSet(Cells(s)) /\ Cardinality(Cells(s)) \in Nat
  BY CellsFinite
<1>3. IsFiniteSet(row) /\ Cardinality(row) = Len(s[i])
  BY <1>1, CellsRow
<1>4. row \subseteq Cells(s)
  BY DEF Cells
<1>5. IsFiniteSet(rest) /\ Cardinality(rest) = Cardinality(Cells(s)) - Len(s[i])
  <2> DEFINE S == Cells(s)
  <2>1. S \cap row = row
    BY <1>4
  <2>2. IsFiniteSet(S) /\ rest = S \ row
    BY <1>2
  <2> HIDE DEF row, S, rest
  <2>3. IsFiniteSet(S \ row) /\ Cardinality(S \ row) = Cardinality(S) - Cardinality(S \cap row)
    BY <2>2, FS_Difference
  <2>4. Cardinality(rest) = Cardinality(S) - Cardinality(row)
    BY <2>1, <2>2, <2>3
  <2> QED BY <1>3, <2>2, <2>3, <2>4 DEF S
<1>6. \A x : x \in rest <=>
            \E j \in DOMAIN s : \E k \in DOMAIN s[j] : j # i /\ x = <<j, k>>
  BY CellsMembers
<1>7. \A x : x \in Cells(t) <=>
            \E j \in 1 .. Len(s) - 1 : \E k \in DOMAIN t[j] : x = <<j, k>>
  <2>1. \A x : x \in Cells(t) <=>
            \E j \in DOMAIN t : \E k \in DOMAIN t[j] : x = <<j, k>>
    BY CellsMembers
  <2> QED BY <2>1
<1> HIDE DEF rest, row
<1>8. ASSUME NEW x \in rest PROVE Moved(x) \in Cells(t)
  <2>1. PICK j \in DOMAIN s : \E k \in DOMAIN s[j] : j # i /\ x = <<j, k>>
    BY <1>6
  <2>2. PICK k \in DOMAIN s[j] : j # i /\ x = <<j, k>>
    BY <2>1
  <2>3. CASE j < i
    <3>1. j \in 1 .. Len(s) - 1 /\ t[j] = s[j] /\ Moved(x) = <<j, k>>
      BY <1>1, <2>2, <2>3
    <3> QED BY <1>7, <2>2, <3>1
  <2>4. CASE j > i
    <3>1. /\ j - 1 \in 1 .. Len(s) - 1 /\ ~(j - 1 < i) /\ j - 1 + 1 = j
          /\ Moved(x) = <<j - 1, k>>
      BY <1>1, <2>2, <2>4
    <3>2. t[j - 1] = s[j]
      BY <3>1
    <3> QED BY <1>7, <2>2, <3>1, <3>2
  <2> QED BY <1>1, <2>2, <2>3, <2>4
<1>9. ASSUME NEW x \in rest, NEW y \in rest, Moved(x) = Moved(y) PROVE x = y
  <2>1. PICK j \in DOMAIN s : \E k \in DOMAIN s[j] : j # i /\ x = <<j, k>>
    BY <1>6
  <2>2. PICK k \in DOMAIN s[j] : j # i /\ x = <<j, k>>
    BY <2>1
  <2>3. PICK m \in DOMAIN s : \E n \in DOMAIN s[m] : m # i /\ y = <<m, n>>
    BY <1>6
  <2>4. PICK n \in DOMAIN s[m] : m # i /\ y = <<m, n>>
    BY <2>3
  <2>5. /\ (IF j < i THEN j ELSE j - 1) = (IF m < i THEN m ELSE m - 1) /\ k = n
    BY <1>9, <2>2, <2>4
  <2>6. i \in Nat /\ j \in Nat /\ m \in Nat /\ j # i /\ m # i
    BY <1>1, <2>2, <2>4
  <2>7. j = m
    <3>1. CASE j < i /\ m < i
      BY <2>5, <3>1
    <3>2. CASE j < i /\ ~(m < i)
      <4>1. j = m - 1 /\ m > i
        BY <2>5, <2>6, <3>2
      <4> QED BY <2>6, <3>2, <4>1
    <3>3. CASE ~(j < i) /\ m < i
      <4>1. j - 1 = m /\ j > i
        BY <2>5, <2>6, <3>3
      <4> QED BY <2>6, <3>3, <4>1
    <3>4. CASE ~(j < i) /\ ~(m < i)
      <4>1. j - 1 = m - 1
        BY <2>5, <3>4
      <4> QED BY <2>6, <4>1
    <3> QED BY <3>1, <3>2, <3>3, <3>4
  <2> QED BY <2>2, <2>4, <2>5, <2>7
<1>10. ASSUME NEW y \in Cells(t) PROVE \E x \in rest : Moved(x) = y
  <2>1. PICK j \in 1 .. Len(s) - 1 : \E k \in DOMAIN t[j] : y = <<j, k>>
    BY <1>7
  <2>2. PICK k \in DOMAIN t[j] : y = <<j, k>>
    BY <2>1
  <2>3. CASE j < i
    <3>1. /\ j \in DOMAIN s /\ k \in DOMAIN s[j] /\ j # i /\ Moved(<<j, k>>) = y
      BY <1>1, <2>2, <2>3
    <3> QED BY <1>6, <3>1
  <2>4. CASE ~(j < i)
    <3>1. /\ j + 1 \in DOMAIN s /\ k \in DOMAIN s[j + 1] /\ j + 1 # i
          /\ Moved(<<j + 1, k>>) = y
      BY <1>1, <2>2, <2>4
    <3> QED BY <1>6, <3>1
  <2> QED BY <2>3, <2>4
<1>11. f \in Bijection(rest, Cells(t))
  <2>1. f \in [rest -> Cells(t)]
    BY <1>8
  <2>2. \A x \in rest : f[x] = Moved(x)
    OBVIOUS
  <2> HIDE DEF f, Moved
  <2>3. \A x, y \in rest : f[x] = f[y] => x = y
    BY <1>9, <2>2
  <2>4. \A y \in Cells(t) : \E x \in rest : f[x] = y
    BY <1>10, <2>2
  <2> QED BY <2>1, <2>3, <2>4 DEF Bijection, Injection, Surjection, IsInjective
<1> HIDE DEF f, Moved
<1>12. Cardinality(Cells(t)) = Cardinality(rest)
  BY <1>5, <1>11, FS_Bijection DEF ExistsBijection
<1> QED BY <1>1, <1>2, <1>5, <1>12

\* How many there are.
Volume(datagrams) == Cardinality(Cells(datagrams))

\* A sequence of datagrams without one of them.
Without(s, i) == SubSeq(s, 1, i - 1) \o SubSeq(s, i + 1, Len(s))

\* What is in it.
LEMMA WithoutMembers ==
  ASSUME NEW S, NEW s \in Seq(S), NEW i \in DOMAIN s
  PROVE  /\ Without(s, i) \in Seq(S)
         /\ Len(Without(s, i)) = Len(s) - 1 /\ DOMAIN Without(s, i) = 1 .. Len(s) - 1
         /\ \A j \in 1 .. Len(s) - 1 :
                Without(s, i)[j] = IF j < i THEN s[j] ELSE s[j + 1]
<1> DEFINE a == SubSeq(s, 1, i - 1)
           b == SubSeq(s, i + 1, Len(s))
           n == Len(s)
<1>1. n \in Nat /\ DOMAIN s = 1 .. n /\ i \in 1 .. n
  BY LenProperties
<1>2. /\ a \in Seq(S) /\ Len(a) = i - 1 /\ \A j \in 1 .. i - 1 : a[j] = s[j]
  <2>1. \A j \in 1 .. i - 1 : s[j] \in S
    BY <1>1
  <2>2. 1 \in Int /\ i - 1 \in Int /\ 1 .. i - 1 \subseteq 1 .. n
    BY <1>1
  <2> HIDE DEF n
  <2> QED BY <1>1, <2>1, <2>2 DEF n
<1>3. /\ b \in Seq(S) /\ Len(b) = n - i /\ \A j \in 1 .. n - i : b[j] = s[i + j]
  BY <1>1
<1>4. Without(s, i) = a \o b
  BY DEF Without
<1> HIDE DEF a, b, n
<1>5. /\ a \o b \in Seq(S) /\ Len(a \o b) = n - 1
      /\ \A j \in 1 .. n - 1 :
            (a \o b)[j] = IF j <= i - 1 THEN a[j] ELSE b[j - (i - 1)]
  <2>1. /\ a \o b \in Seq(S) /\ Len(a \o b) = Len(a) + Len(b)
        /\ \A j \in 1 .. Len(a) + Len(b) :
                (a \o b)[j] = IF j <= Len(a) THEN a[j] ELSE b[j - Len(a)]
    BY <1>2, <1>3, ConcatProperties
  <2>2. Len(a) + Len(b) = n - 1
    BY <1>1, <1>2, <1>3
  <2> QED BY <1>2, <2>1, <2>2
<1>6. ASSUME NEW j \in 1 .. n - 1
      PROVE  (a \o b)[j] = IF j < i THEN s[j] ELSE s[j + 1]
  <2>1. CASE j < i
    <3>1. j \in 1 .. i - 1 /\ j <= i - 1
      BY <1>1, <2>1
    <3> QED BY <1>2, <1>5, <2>1, <3>1
  <2>2. CASE ~(j < i)
    <3>1. j - (i - 1) \in 1 .. n - i /\ ~(j <= i - 1) /\ i + (j - (i - 1)) = j + 1
      BY <1>1, <2>2
    <3>2. b[j - (i - 1)] = s[i + (j - (i - 1))]
      BY <1>3, <3>1
    <3> QED BY <1>5, <2>2, <3>1, <3>2
  <2> QED BY <2>1, <2>2
<1>7. DOMAIN (a \o b) = 1 .. n - 1
  BY <1>5
<1> QED BY <1>1, <1>4, <1>5, <1>6, <1>7 DEF n

\* The bytes of datagrams, and of one more or one less.
LEMMA VolumeType ==
  ASSUME NEW s \in Seq(Seq(Nat))
  PROVE  Volume(s) \in Nat
BY CellsFinite DEF Volume

LEMMA VolumeEmpty == Volume(<<>>) = 0
<1>1. Cells(<<>>) = {}
  BY DEF Cells
<1> QED BY <1>1, FS_EmptySet DEF Volume

LEMMA VolumeAppend ==
  ASSUME NEW s \in Seq(Seq(Nat)), NEW d \in Seq(Nat)
  PROVE  Volume(Append(s, d)) = Volume(s) + Len(d)
BY CellsAppend DEF Volume

LEMMA VolumeWithout ==
  ASSUME NEW s \in Seq(Seq(Nat)), NEW i \in DOMAIN s
  PROVE  Volume(s) = Volume(Without(s, i)) + Len(s[i])
BY CellsRemove, WithoutMembers DEF Volume

LEMMA VolumeTail ==
  ASSUME NEW s \in Seq(Seq(Nat)), s # <<>>
  PROVE  /\ Tail(s) \in Seq(Seq(Nat)) /\ Head(s) \in Seq(Nat)
         /\ Volume(s) = Volume(Tail(s)) + Len(Head(s))
<1> DEFINE t == Tail(s)
<1>1. /\ Len(s) \in Nat /\ 1 \in DOMAIN s /\ Head(s) = s[1] /\ Head(s) \in Seq(Nat)
      /\ t \in Seq(Seq(Nat))
  OBVIOUS
<1>2. DOMAIN t = 1 .. Len(s) - 1
  OBVIOUS
<1>3. \A j \in 1 .. Len(s) - 1 : t[j] = s[j + 1]
  OBVIOUS
<1>4. \A j \in 1 .. Len(s) - 1 : t[j] = IF j < 1 THEN s[j] ELSE s[j + 1]
  BY <1>1, <1>3
<1> HIDE DEF t
<1>5. Cardinality(Cells(s)) = Cardinality(Cells(t)) + Len(s[1])
  BY <1>1, <1>2, <1>4, CellsRemove
<1> QED BY <1>1, <1>5 DEF Volume, t

-----------------------------------------------------------------------------
(* Datagrams that continue each other.                                     *)

\* Datagrams in flight that take a stream from one position to another, each within a
\* slice of its sender and no longer than the buffer.
Chain(flight, from, to, slice) ==
    \E position \in [0 .. Len(flight) -> Nat] :
        /\ position[0] = from /\ position[Len(flight)] = to
        /\ \A i \in 1 .. Len(flight) :
                /\ position[i] = position[i - 1] + Len(flight[i])
                /\ Run(flight[i], position[i - 1])
                /\ Unsplit(position[i - 1], Len(flight[i]), slice)
                /\ Len(flight[i]) <= BUFFER_SIZE

LEMMA ChainEmpty ==
  ASSUME NEW n \in Nat, NEW slice
  PROVE  Chain(<<>>, n, n, slice)
<1> DEFINE position == [i \in 0 .. 0 |-> n]
<1>1. position \in [0 .. Len(<<>>) -> Nat]
  OBVIOUS
<1>2. position[0] = n /\ position[Len(<<>>)] = n /\ 1 .. Len(<<>>) = {}
  OBVIOUS
<1> QED BY <1>1, <1>2 DEF Chain

\* One more is sent.
LEMMA ChainPut ==
  ASSUME NEW flight \in Seq(Seq(Nat)), NEW from, NEW to, NEW slice,
         Chain(flight, from, to, slice), NEW d \in Seq(Nat),
         Run(d, to), Unsplit(to, Len(d), slice), Len(d) <= BUFFER_SIZE
  PROVE  Chain(Append(flight, d), from, to + Len(d), slice)
<1> DEFINE n == Len(flight)
           longer == Append(flight, d)
<1>1. n \in Nat /\ Len(d) \in Nat
  BY LenProperties
<1>2. Len(longer) = n + 1 /\ longer[n + 1] = d /\ \A i \in 1 .. n : longer[i] = flight[i]
  OBVIOUS
<1>3. PICK position \in [0 .. n -> Nat] :
        /\ position[0] = from /\ position[n] = to
        /\ \A i \in 1 .. n :
                /\ position[i] = position[i - 1] + Len(flight[i])
                /\ Run(flight[i], position[i - 1])
                /\ Unsplit(position[i - 1], Len(flight[i]), slice)
                /\ Len(flight[i]) <= BUFFER_SIZE
  BY DEF Chain
<1> HIDE DEF n, longer
<1> DEFINE after == [i \in 0 .. n + 1 |-> IF i = n + 1 THEN to + Len(d) ELSE position[i]]
<1>4. to \in Nat
  BY <1>1, <1>3
<1>5. after \in [0 .. n + 1 -> Nat]
  BY <1>1, <1>3, <1>4
<1>6. after[0] = from /\ after[n + 1] = to + Len(d) /\ after[n] = to
      /\ \A i \in 0 .. n : after[i] = position[i]
  BY <1>1, <1>3
<1> HIDE DEF after
<1>7. ASSUME NEW i \in 1 .. n + 1
      PROVE  /\ after[i] = after[i - 1] + Len(longer[i])
             /\ Run(longer[i], after[i - 1])
             /\ Unsplit(after[i - 1], Len(longer[i]), slice)
             /\ Len(longer[i]) <= BUFFER_SIZE
  <2>1. CASE i = n + 1
    <3>1. i - 1 = n /\ longer[i] = d
      BY <1>1, <1>2, <2>1
    <3> QED BY <1>6, <2>1, <3>1
  <2>2. CASE i # n + 1
    <3>1. i \in 1 .. n /\ i - 1 \in 0 .. n /\ i \in 0 .. n
      BY <1>1, <2>2
    <3>2. longer[i] = flight[i] /\ after[i] = position[i] /\ after[i - 1] = position[i - 1]
      BY <1>2, <1>6, <3>1
    <3> QED BY <1>3, <3>1, <3>2
  <2> QED BY <2>1, <2>2
<1>8. Chain(longer, from, to + Len(d), slice)
  BY <1>2, <1>5, <1>6, <1>7 DEF Chain
<1> QED BY <1>8 DEF longer

\* The first one is taken.
LEMMA ChainTake ==
  ASSUME NEW flight \in Seq(Seq(Nat)), flight # <<>>, NEW from, NEW to, NEW slice,
         Chain(flight, from, to, slice)
  PROVE  /\ Run(Head(flight), from) /\ Unsplit(from, Len(Head(flight)), slice)
         /\ Len(Head(flight)) <= BUFFER_SIZE
         /\ Chain(Tail(flight), from + Len(Head(flight)), to, slice)
<1> DEFINE n == Len(flight)
           rest == Tail(flight)
<1>1. n \in Nat \ {0} /\ Head(flight) = flight[1]
  OBVIOUS
<1>2. Len(rest) = n - 1 /\ \A i \in 1 .. n - 1 : rest[i] = flight[i + 1]
  OBVIOUS
<1>3. PICK position \in [0 .. n -> Nat] :
        /\ position[0] = from /\ position[n] = to
        /\ \A i \in 1 .. n :
                /\ position[i] = position[i - 1] + Len(flight[i])
                /\ Run(flight[i], position[i - 1])
                /\ Unsplit(position[i - 1], Len(flight[i]), slice)
                /\ Len(flight[i]) <= BUFFER_SIZE
  BY DEF Chain
<1> HIDE DEF n, rest
<1>4. /\ position[1] = from + Len(flight[1]) /\ Run(flight[1], from)
      /\ Unsplit(from, Len(flight[1]), slice) /\ Len(flight[1]) <= BUFFER_SIZE
  <2>1. 1 \in 1 .. n /\ 1 - 1 = 0
    BY <1>1
  <2> QED BY <1>3, <2>1
<1> DEFINE after == [i \in 0 .. n - 1 |-> position[i + 1]]
<1>5. after \in [0 .. n - 1 -> Nat]
  BY <1>1, <1>3
<1>6. after[0] = position[1] /\ after[n - 1] = to
      /\ \A i \in 0 .. n - 1 : after[i] = position[i + 1]
  BY <1>1, <1>3
<1> HIDE DEF after
<1>7. ASSUME NEW i \in 1 .. n - 1
      PROVE  /\ after[i] = after[i - 1] + Len(rest[i])
             /\ Run(rest[i], after[i - 1])
             /\ Unsplit(after[i - 1], Len(rest[i]), slice)
             /\ Len(rest[i]) <= BUFFER_SIZE
  <2>1. /\ i + 1 \in 1 .. n /\ i \in 0 .. n - 1 /\ i - 1 \in 0 .. n - 1
        /\ i + 1 - 1 = i /\ i - 1 + 1 = i
    BY <1>1
  <2>2. rest[i] = flight[i + 1] /\ after[i] = position[i + 1] /\ after[i - 1] = position[i]
    BY <1>2, <1>6, <2>1
  <2>3. /\ position[i + 1] = position[i] + Len(flight[i + 1])
        /\ Run(flight[i + 1], position[i])
        /\ Unsplit(position[i], Len(flight[i + 1]), slice)
        /\ Len(flight[i + 1]) <= BUFFER_SIZE
    BY <1>3, <2>1
  <2> QED BY <2>2, <2>3
<1>8. Chain(rest, position[1], to, slice)
  BY <1>2, <1>5, <1>6, <1>7 DEF Chain
<1> QED BY <1>1, <1>4, <1>8 DEF rest

-----------------------------------------------------------------------------
(* What the datagrams of a direction keep, those that `st' has sent (`out') *)
(* and those that wait for `other' (`in'), of which it received `strange'   *)
(* ones.                                                                    *)

\* On a network that repeats nothing more is received or on its way than was sent; on
\* an ideal one, if the slices fit, nothing is missing, each datagram starts where the
\* one before it ended, and the first one starts where the receiver is.
Carried(st, out, other, in, strange, net) ==
    /\ net # "repeating" => Reached(other) + Volume(in) + Volume(out) <= Passed(st)
    /\ (net = "ideal" /\ Aligned(st, other)) =>
            /\ Reached(other) + Volume(in) + Volume(out) = Passed(st)
            /\ Chain(in \o out, Reached(other), Passed(st), st.configuration.send_slice)
            /\ "wrong" \notin strange

\* Datagrams hold bytes.
LEMMA Datagram == Seq(Byte) \subseteq Seq(Nat) /\ Seq(Seq(Byte)) \subseteq Seq(Seq(Nat))
<1>1. Byte \subseteq Nat
  BY BufferAssumption DEF Byte
<1>2. \A d \in Seq(Byte) : d \in Seq(Nat)
  BY <1>1, SeqMonotonic
<1>3. Seq(Byte) \subseteq Seq(Nat)
  BY <1>2
<1>4. \A s \in Seq(Seq(Byte)) : s \in Seq(Seq(Nat))
  BY <1>3, SeqMonotonic
<1> QED BY <1>3, <1>4

\* Nothing is on its way when two sessions start.
LEMMA CarriedInit ==
  ASSUME NEW st, NEW other, NEW net, Reached(other) = 0, Passed(st) = 0
  PROVE  Carried(st, <<>>, other, <<>>, {}, net)
<1>1. Volume(<<>>) = 0
  BY VolumeEmpty
<1>2. Chain(<<>> \o <<>>, 0, 0, st.configuration.send_slice)
  <2>1. <<>> \o <<>> = <<>>
    OBVIOUS
  <2> QED BY <2>1, ChainEmpty
<1> QED BY <1>1, <1>2 DEF Carried

\* What is appended to the second of two sequences is appended to both.
LEMMA Appended ==
  \A a, b \in Seq(Seq(Nat)) : \A d \in Seq(Nat) :
    a \o b \in Seq(Seq(Nat)) /\ a \o Append(b, d) = Append(a \o b, d)
<1> SUFFICES ASSUME NEW a \in Seq(Seq(Nat)), NEW b \in Seq(Seq(Nat)), NEW d \in Seq(Nat)
             PROVE  a \o b \in Seq(Seq(Nat)) /\ a \o Append(b, d) = Append(a \o b, d)
  OBVIOUS
<1>1. a \o b \in Seq(Seq(Nat))
  OBVIOUS
<1>2. a \o Append(b, d) = Append(a \o b, d)
  OBVIOUS
<1> QED BY <1>1, <1>2

\* The sender takes a step.
LEMMA CarriedBySender ==
  ASSUME NEW st, NEW out \in Seq(Seq(Byte)), NEW own_in, NEW own_strange,
         NEW r, NEW out_after, NEW own_in_after, NEW own_strange_after, NEW empty,
         Moves(st, own_in, out, own_strange,
               r, own_in_after, out_after, own_strange_after, empty),
         NEW other, NEW in \in Seq(Seq(Byte)), NEW strange, NEW net,
         Carried(st, out, other, in, strange, net),
         Reached(other) \in Nat, Passed(st) \in Nat
  PROVE  Carried(r, out_after, other, in, strange, net)
<1>1. r.configuration = st.configuration
  BY DEF Moves
<1>2. Aligned(r, other) <=> Aligned(st, other)
  BY <1>1 DEF Aligned
<1>3. CASE Passed(r) = Passed(st) /\ out_after = out
  BY <1>1, <1>2, <1>3 DEF Carried
<1>4. ASSUME NEW datagram, Puts(st, own_in, out, own_strange, r, own_in_after, out_after,
                                own_strange_after, datagram)
      PROVE  Carried(r, out_after, other, in, strange, net)
  <2>1. /\ datagram \in Seq(Byte) /\ datagram \in Seq(Nat) /\ Len(datagram) \in Nat
        /\ in \in Seq(Seq(Nat)) /\ out \in Seq(Seq(Nat))
    BY <1>4, Datagram, LenProperties DEF Puts
  <2>2. /\ Len(datagram) <= BUFFER_SIZE
        /\ Run(datagram, Passed(st))
        /\ Unsplit(Passed(st), Len(datagram), st.configuration.send_slice)
        /\ Passed(r) = Passed(st) + Len(datagram)
        /\ out_after = Append(out, datagram)
    BY <1>4 DEF Puts
  <2>3. Volume(out_after) = Volume(out) + Len(datagram)
    BY <2>1, <2>2, VolumeAppend
  <2>4. Volume(in) \in Nat /\ Volume(out) \in Nat
    BY <2>1, VolumeType
  <2>5. net # "repeating" => Reached(other) + Volume(in) + Volume(out_after) <= Passed(r)
    BY <2>1, <2>2, <2>3, <2>4 DEF Carried
  <2>6. ASSUME net = "ideal", Aligned(st, other)
        PROVE  /\ Reached(other) + Volume(in) + Volume(out_after) = Passed(r)
               /\ Chain(in \o out_after, Reached(other), Passed(r),
                        st.configuration.send_slice)
               /\ "wrong" \notin strange
    <3>1. /\ Reached(other) + Volume(in) + Volume(out) = Passed(st)
          /\ Chain(in \o out, Reached(other), Passed(st), st.configuration.send_slice)
          /\ "wrong" \notin strange
      BY <2>6 DEF Carried
    <3>2. in \o out \in Seq(Seq(Nat)) /\ in \o out_after = Append(in \o out, datagram)
      BY <2>1, <2>2, Appended
    <3>3. Chain(in \o out_after, Reached(other), Passed(r), st.configuration.send_slice)
      BY <2>1, <2>2, <3>1, <3>2, ChainPut
    <3>4. Reached(other) + Volume(in) + Volume(out_after) = Passed(r)
      BY <2>1, <2>2, <2>3, <2>4, <3>1
    <3> QED BY <3>1, <3>3, <3>4
  <2> QED BY <1>1, <1>2, <2>5, <2>6 DEF Carried
<1> QED BY <1>3, <1>4 DEF Moves, Stays, Takes

\* The receiver takes a step.
LEMMA CarriedByReceiver ==
  ASSUME NEW other, NEW in \in Seq(Seq(Byte)), NEW own_out, NEW strange,
         NEW r, NEW in_after, NEW own_out_after, NEW strange_after, NEW empty,
         Moves(other, in, own_out, strange,
               r, in_after, own_out_after, strange_after, empty),
         NEW st, NEW out \in Seq(Seq(Byte)), NEW net,
         Carried(st, out, other, in, strange, net),
         st.configuration.send_slice \in Nat,
         Reached(other) \in Nat, Reached(r) \in Nat, Passed(st) \in Nat
  PROVE  Carried(st, out, r, in_after, strange_after, net)
<1>1. r.configuration = other.configuration
  BY DEF Moves
<1>2. Aligned(st, r) <=> Aligned(st, other)
  BY <1>1 DEF Aligned
<1>3. CASE Reached(r) = Reached(other) /\ in_after = in /\ strange_after = strange
  BY <1>1, <1>2, <1>3 DEF Carried
<1>4. CASE Takes(other, in, own_out, strange, r, in_after, own_out_after, strange_after)
  <2> DEFINE datagram == Head(in)
             slice == st.configuration.send_slice
  <2>1. /\ in # <<>> /\ in_after = Tail(in)
        /\ Reached(r) - Reached(other) \in 0 .. Len(datagram)
        /\ Run(datagram, Reached(other)) /\ "wrong" \in strange_after =>
                "wrong" \in strange
        /\ \A s \in Nat \ {0} :
                (/\ other.configuration.receive_slice % s = 0
                 /\ Len(datagram) <= BUFFER_SIZE
                 /\ Unsplit(Reached(other), Len(datagram), s)) =>
                        Reached(r) = Reached(other) + Len(datagram)
    BY <1>4 DEF Takes
  <2>2. /\ in \in Seq(Seq(Nat)) /\ out \in Seq(Seq(Nat)) /\ datagram \in Seq(Nat)
        /\ in_after \in Seq(Seq(Nat))
        /\ Volume(in) = Volume(in_after) + Len(datagram)
    BY <2>1, Datagram, VolumeTail
  <2>3. /\ Volume(in) \in Nat /\ Volume(in_after) \in Nat /\ Volume(out) \in Nat
        /\ Len(datagram) \in Nat
    BY <2>2, VolumeType, LenProperties
  <2>4. net # "repeating" => Reached(r) + Volume(in_after) + Volume(out) <= Passed(st)
    <3> DEFINE n == Len(datagram)
               before == Volume(in)
               after == Volume(in_after)
               rest == Volume(out)
    <3>1. /\ Reached(r) - Reached(other) \in 0 .. n
          /\ before = after + n
          /\ n \in Nat /\ before \in Nat /\ after \in Nat /\ rest \in Nat
      BY <2>1, <2>2, <2>3
    <3>2. net # "repeating" => Reached(other) + before + rest <= Passed(st)
      BY DEF Carried
    <3> HIDE DEF n, before, after, rest
    <3>3. net # "repeating" => Reached(r) + after + rest <= Passed(st)
      BY <3>1, <3>2
    <3> QED BY <3>3 DEF after, rest
  <2>5. ASSUME net = "ideal", Aligned(st, other)
        PROVE  /\ Reached(r) + Volume(in_after) + Volume(out) = Passed(st)
               /\ Chain(in_after \o out, Reached(r), Passed(st), slice)
               /\ "wrong" \notin strange_after
    <3>1. /\ Reached(other) + Volume(in) + Volume(out) = Passed(st)
          /\ Chain(in \o out, Reached(other), Passed(st), slice)
          /\ "wrong" \notin strange
      BY <2>5 DEF Carried
    <3>2. /\ in \o out \in Seq(Seq(Nat)) /\ in \o out # <<>>
          /\ Head(in \o out) = datagram /\ Tail(in \o out) = in_after \o out
      BY <2>1, <2>2
    <3>3. /\ Run(datagram, Reached(other)) /\ Unsplit(Reached(other), Len(datagram), slice)
          /\ Len(datagram) <= BUFFER_SIZE
          /\ Chain(in_after \o out, Reached(other) + Len(datagram), Passed(st), slice)
      BY <3>1, <3>2, ChainTake
    <3>4. slice \in Nat \ {0} /\ other.configuration.receive_slice % slice = 0
      BY <2>5 DEF Aligned
    <3>5. Reached(r) = Reached(other) + Len(datagram)
      BY <2>1, <3>3, <3>4
    <3>6. "wrong" \notin strange_after
      BY <2>1, <3>1, <3>3
    <3> HIDE DEF datagram, slice
    <3> QED BY <2>2, <2>3, <3>1, <3>3, <3>5, <3>6
  <2> QED BY <1>1, <1>2, <2>4, <2>5 DEF Carried
<1> QED BY <1>3, <1>4 DEF Moves, Stays, Puts

\* Brackets do not matter.
LEMMA Regrouped ==
  \A a, b, c \in Seq(Seq(Nat)) : (a \o b) \o c = a \o (b \o c)
BY ConcatAssociative

\* The network delivers a datagram, in order if it is ideal,
LEMMA CarriedByNetwork ==
  ASSUME NEW st, NEW out \in Seq(Seq(Byte)), NEW other, NEW in \in Seq(Seq(Byte)),
         NEW strange, NEW net,
         Carried(st, out, other, in, strange, net),
         Reached(other) \in Nat, Passed(st) \in Nat,
         NEW i \in DOMAIN out, net = "ideal" => i = 1
  PROVE  Carried(st, Without(out, i), other, Append(in, out[i]), strange, net)
<1> DEFINE out_after == Without(out, i)
           in_after == Append(in, out[i])
<1>1. /\ in \in Seq(Seq(Nat)) /\ out \in Seq(Seq(Nat)) /\ out[i] \in Seq(Nat)
  BY Datagram
<1>2. Volume(out) = Volume(out_after) + Len(out[i]) /\ out_after \in Seq(Seq(Nat))
  BY <1>1, VolumeWithout, WithoutMembers
<1>3. Volume(in_after) = Volume(in) + Len(out[i])
  BY <1>1, VolumeAppend
<1>4. /\ Volume(out) \in Nat /\ Volume(out_after) \in Nat /\ Volume(in) \in Nat
      /\ Len(out[i]) \in Nat
  BY <1>1, <1>2, VolumeType, LenProperties
<1>5. ASSUME net = "ideal" PROVE in_after \o out_after = in \o out
  <2> DEFINE first == <<out[1]>>
             rest == Tail(out)
  <2>1. i = 1 /\ out # <<>> /\ Len(out) \in Nat /\ 1 \in 1 .. Len(out)
    BY <1>1, <1>5, LenProperties, EmptySeq
  <2>2. rest = SubSeq(out, 2, Len(out)) /\ rest \in Seq(Seq(Nat))
    BY <1>1, <2>1, TailIsSubSeq, HeadTailProperties
  <2>3. out_after = rest
    <3>1. SubSeq(out, 1, 0) = <<>>
      BY SubSeqEmpty
    <3>2. out_after = <<>> \o rest
      BY <2>1, <2>2, <3>1 DEF Without
    <3> HIDE DEF rest
    <3> QED BY <2>2, <3>2, ConcatEmptySeq
  <2>4. out = first \o rest
    <3>1. Len(out) \in 1 .. Len(out)
      BY <2>1
    <3>2. SubSeq(out, 1, Len(out)) = <<out[1]>> \o SubSeq(out, 1 + 1, Len(out))
      BY <1>1, <2>1, <3>1, SubSeqRecursiveFirst
    <3>3. SubSeq(out, 1, Len(out)) = out
      BY <1>1, SubSeqFull
    <3> QED BY <2>2, <3>2, <3>3
  <2>5. in_after = in \o first
    BY <1>1, <2>1
  <2>6. first \in Seq(Seq(Nat))
    BY <1>1, <2>1
  <2> HIDE DEF first, rest, in_after, out_after
  <2>7. (in \o first) \o rest = in \o (first \o rest)
    BY <1>1, <2>2, <2>6, Regrouped
  <2> QED BY <2>3, <2>4, <2>5, <2>7
<1> HIDE DEF in_after, out_after
<1> DEFINE n == Len(out[i])
<1>6. n \in Nat
  BY <1>4
<1> HIDE DEF n
<1>7. Reached(other) + Volume(in_after) + Volume(out_after)
        = Reached(other) + Volume(in) + Volume(out)
  BY <1>2, <1>3, <1>4, <1>6 DEF n
<1>8. Carried(st, out_after, other, in_after, strange, net)
  BY <1>5, <1>7 DEF Carried
<1> QED BY <1>8 DEF in_after, out_after

\* loses it
LEMMA CarriedAfterLoss ==
  ASSUME NEW st, NEW out \in Seq(Seq(Byte)), NEW other, NEW in \in Seq(Seq(Byte)),
         NEW strange, NEW net,
         Carried(st, out, other, in, strange, net),
         Reached(other) \in Nat, Passed(st) \in Nat,
         NEW i \in DOMAIN out, net # "ideal"
  PROVE  Carried(st, Without(out, i), other, in, strange, net)
<1>1. /\ in \in Seq(Seq(Nat)) /\ out \in Seq(Seq(Nat)) /\ out[i] \in Seq(Nat)
  BY Datagram
<1>2. /\ Volume(out) = Volume(Without(out, i)) + Len(out[i])
      /\ Without(out, i) \in Seq(Seq(Nat))
  BY <1>1, VolumeWithout, WithoutMembers
<1>3. /\ Volume(out) \in Nat /\ Volume(Without(out, i)) \in Nat /\ Volume(in) \in Nat
      /\ Len(out[i]) \in Nat
  BY <1>1, <1>2, VolumeType, LenProperties
<1> QED BY <1>2, <1>3 DEF Carried

\* Datagrams that are runs stay such.
LEMMA RunsKept ==
  ASSUME NEW s \in Seq(Seq(Byte)), Runs(s)
  PROVE  /\ \A i \in DOMAIN s : Runs(Without(s, i))
         /\ s # <<>> => Runs(Tail(s))
         /\ \A d \in Seq(Byte) : \A position \in Nat :
                (d # <<>> /\ Run(d, position)) => Runs(Append(s, d))
         /\ \A t \in Seq(Seq(Byte)) : \A i \in DOMAIN t :
                Runs(t) => Runs(Append(s, t[i]))
<1> DEFINE Good(d) == d # <<>> /\ \E position \in Nat : Run(d, position)
<1>1. \A t : Runs(t) <=> \A i \in DOMAIN t : Good(t[i])
  BY DEF Runs
<1> HIDE DEF Good
<1>2. ASSUME NEW i \in DOMAIN s PROVE Runs(Without(s, i))
  <2> DEFINE t == Without(s, i)
  <2>1. /\ DOMAIN t = 1 .. Len(s) - 1
        /\ \A j \in 1 .. Len(s) - 1 : t[j] = IF j < i THEN s[j] ELSE s[j + 1]
    BY WithoutMembers
  <2> HIDE DEF t
  <2>2. ASSUME NEW j \in DOMAIN t PROVE Good(t[j])
    <3>1. j \in DOMAIN s /\ j + 1 \in DOMAIN s
      BY <2>1
    <3> QED BY <1>1, <2>1, <3>1
  <2> QED BY <1>1, <2>2 DEF t
<1>3. ASSUME s # <<>> PROVE Runs(Tail(s))
  <2> DEFINE t == Tail(s)
  <2>1. /\ DOMAIN t = 1 .. Len(s) - 1
        /\ \A j \in 1 .. Len(s) - 1 : t[j] = s[j + 1] /\ j + 1 \in DOMAIN s
    BY <1>3
  <2> HIDE DEF t
  <2> QED BY <1>1, <2>1 DEF t
<1>4. ASSUME NEW d \in Seq(Byte), Good(d) PROVE Runs(Append(s, d))
  <2> DEFINE t == Append(s, d)
             n == Len(s) + 1
  <2>1. /\ DOMAIN t = DOMAIN s \cup {n} /\ t[n] = d
        /\ \A j \in DOMAIN s : t[j] = s[j]
    OBVIOUS
  <2> HIDE DEF t, n
  <2> QED BY <1>1, <1>4, <2>1 DEF t
<1>5. ASSUME NEW d \in Seq(Byte), NEW position \in Nat, d # <<>>, Run(d, position)
      PROVE  Runs(Append(s, d))
  <2>1. Good(d)
    BY <1>5 DEF Good
  <2> QED BY <1>4, <2>1
<1>6. ASSUME NEW t \in Seq(Seq(Byte)), NEW i \in DOMAIN t, Runs(t)
      PROVE  Runs(Append(s, t[i]))
  <2>1. t[i] \in Seq(Byte)
    OBVIOUS
  <2> QED BY <1>1, <1>4, <1>6, <2>1
<1> QED BY <1>2, <1>3, <1>5, <1>6

UA == INSTANCE UdpSessionProofs WITH
        session <- sessionA, arrived <- arrivedA, outgoing <- outgoingA,
        head <- headA, strange <- strangeA,
        Configurations <- Configurations, Datagrams <- Seq(Byte)
UB == INSTANCE UdpSessionProofs WITH
        session <- sessionB, arrived <- arrivedB, outgoing <- outgoingB,
        head <- headB, strange <- strangeB,
        Configurations <- Configurations, Datagrams <- Seq(Byte)

-----------------------------------------------------------------------------
(* One definition under two names: both UdpPair and the proofs about a      *)
(* session take it from UdpSession.                                        *)

\* What the end A does, in the model and in the proofs about a session,
LEMMA SameDatagramsA ==
  /\ \A c : A!initialize(c) = UA!initialize(c)
  /\ (A!ReceivesDatagram <=> UA!ReceivesDatagram)
  /\ (A!SendsDatagram <=> UA!SendsDatagram)
  /\ \A op : (A!TimerExpires(op) <=> UA!TimerExpires(op))
  /\ (A!Handle <=> UA!Handle)
  /\ \A datagram : (A!Arrives(datagram) <=> UA!Arrives(datagram))
<1>1. \A st, op : A!begin(st, op) = UA!begin(st, op)
  BY DEF A!begin, UA!begin, A!allocate, UA!allocate, A!HandlerMemory,
     UA!HandlerMemory, A!ThrottleOps, UA!ThrottleOps, A!uses, UA!uses,
     A!MemoryOf, UA!MemoryOf
<1>2. \A st, c : A!complete(st, c) = UA!complete(st, c)
  BY DEF A!complete, UA!complete
<1>3. \A st, op : A!cancel(st, op) = UA!cancel(st, op)
  BY <1>2 DEF A!cancel, UA!cancel, A!done, UA!done
<1>4. \A st : A!dispatch(st) = UA!dispatch(st)
  BY DEF A!dispatch, UA!dispatch, A!deallocate, UA!deallocate,
     A!HandlerMemory, UA!HandlerMemory, A!ThrottleOps, UA!ThrottleOps,
     A!uses, UA!uses, A!MemoryOf, UA!MemoryOf
<1>5. \A st, failure : A!abort(st, failure) = UA!abort(st, failure)
  BY DEF A!abort, UA!abort
<1>6. \A st, c : A!on_signal(st, c) = UA!on_signal(st, c)
  BY <1>5 DEF A!on_signal, UA!on_signal, A!SIGINT, UA!SIGINT, A!SIGTERM,
     UA!SIGTERM
<1>7. \A st, c : A!on_timeout(st, c) = UA!on_timeout(st, c)
  BY <1>5 DEF A!on_timeout, UA!on_timeout
<1>8. \A st, data : A!verify(st, data) = UA!verify(st, data)
  BY <1>5 DEF A!verify, UA!verify, A!Checked, UA!Checked, A!Pattern,
     UA!Pattern
<1>9. \A st : A!close(st) = UA!close(st)
  BY <1>3 DEF A!close, UA!close
<1>10. \A st : A!on_receive_complete(st) = UA!on_receive_complete(st)
  BY <1>3, <1>9 DEF A!on_receive_complete, UA!on_receive_complete, A!on_finish,
     UA!on_finish
<1>11. \A st : A!on_send_complete(st) = UA!on_send_complete(st)
  BY <1>3, <1>9 DEF A!on_send_complete, UA!on_send_complete, A!on_finish,
     UA!on_finish
<1>12. \A st, slice_remaining_size : A!async_receive(st, slice_remaining_size)
        = UA!async_receive(st, slice_remaining_size)
  BY <1>1 DEF A!async_receive, UA!async_receive
<1>13. \A st : A!finish_receive(st) = UA!finish_receive(st)
  BY <1>10 DEF A!finish_receive, UA!finish_receive
<1>14. \A st, data : A!verify_datagram(st, data) = UA!verify_datagram(st, data)
  BY <1>8 DEF A!verify_datagram, UA!verify_datagram
<1>15. \A st, c : A!on_receive(st, c) = UA!on_receive(st, c)
  BY <1>5, <1>12, <1>13, <1>14 DEF A!on_receive, UA!on_receive, A!received,
     UA!received
<1>16. \A st, slice_remaining_size : A!async_send(st, slice_remaining_size)
        = UA!async_send(st, slice_remaining_size)
  BY <1>1 DEF A!async_send, UA!async_send, A!Least, UA!Least
<1>17. \A st, c : A!on_send(st, c) = UA!on_send(st, c)
  BY <1>5, <1>11, <1>16 DEF A!on_send, UA!on_send, A!sent, UA!sent,
     A!finish_send, UA!finish_send
<1>18. \A st, c : A!on_receive_slice(st, c) = UA!on_receive_slice(st, c)
  BY <1>12 DEF A!on_receive_slice, UA!on_receive_slice
<1>19. \A st, c : A!on_send_slice(st, c) = UA!on_send_slice(st, c)
  BY <1>16 DEF A!on_send_slice, UA!on_send_slice
<1>20. \A st : A!start_receiving(st) = UA!start_receiving(st)
  BY <1>12, <1>13 DEF A!start_receiving, UA!start_receiving
<1>21. \A st : A!start_sending(st) = UA!start_sending(st)
  BY <1>11, <1>16 DEF A!start_sending, UA!start_sending, A!finish_send,
     UA!finish_send
<1>22. \A st : A!start_transfer(st) = UA!start_transfer(st)
  BY <1>20, <1>21 DEF A!start_transfer, UA!start_transfer
<1>23. \A c : A!initialize(c) = UA!initialize(c)
  BY DEF A!initialize, UA!initialize, A!post, UA!post, A!new, UA!new,
     A!HandlerMemory, UA!HandlerMemory, A!ThrottleOps, UA!ThrottleOps,
     A!done, UA!done
<1>24. \A st, data : A!oddities(st, data) = UA!oddities(st, data)
  BY DEF A!oddities, UA!oddities, A!Pattern, UA!Pattern
<1>25. A!ReceivesDatagram <=> UA!ReceivesDatagram
  BY <1>2, <1>24 DEF A!ReceivesDatagram, UA!ReceivesDatagram, A!Waits, UA!Waits,
     A!Running, UA!Running, A!Least, UA!Least, A!receive_size,
     UA!receive_size, A!done, UA!done
<1>26. A!SendsDatagram <=> UA!SendsDatagram
  BY <1>2 DEF A!SendsDatagram, UA!SendsDatagram, A!Waits, UA!Waits,
     A!Running, UA!Running, A!datagrams_to_send, UA!datagrams_to_send,
     A!BytesToSend, UA!BytesToSend, A!SendBuffer, UA!SendBuffer,
     A!send_offset, UA!send_offset, A!Least, UA!Least,
     A!get_max_datagram_size, UA!get_max_datagram_size, A!done, UA!done
<1>27. \A op : A!TimerExpires(op) <=> UA!TimerExpires(op)
  BY <1>2 DEF A!TimerExpires, UA!TimerExpires, A!Waits, UA!Waits, A!Running,
     UA!Running, A!done, UA!done
<1>28. A!Handle <=> UA!Handle
  BY <1>1, <1>4, <1>6, <1>7, <1>15, <1>17, <1>18, <1>19, <1>22 DEF A!Handle,
     UA!Handle, A!HandleStart, UA!HandleStart, A!Dispatches, UA!Dispatches,
     A!Running, UA!Running, A!start_timer, UA!start_timer,
     A!HandleReceiveThrottle, UA!HandleReceiveThrottle, A!HandleReceive,
     UA!HandleReceive, A!HandleSendThrottle, UA!HandleSendThrottle,
     A!HandleSend, UA!HandleSend, A!HandleTimeout, UA!HandleTimeout,
     A!HandleSignal, UA!HandleSignal
<1>29. \A datagram : A!Arrives(datagram) <=> UA!Arrives(datagram)
  BY DEF A!Arrives, UA!Arrives, A!Running, UA!Running
<1> QED BY <1>23, <1>25, <1>26, <1>27, <1>28, <1>29

\* and the end B.
LEMMA SameDatagramsB ==
  /\ \A c : B!initialize(c) = UB!initialize(c)
  /\ (B!ReceivesDatagram <=> UB!ReceivesDatagram)
  /\ (B!SendsDatagram <=> UB!SendsDatagram)
  /\ \A op : (B!TimerExpires(op) <=> UB!TimerExpires(op))
  /\ (B!Handle <=> UB!Handle)
  /\ \A datagram : (B!Arrives(datagram) <=> UB!Arrives(datagram))
<1>1. \A st, op : B!begin(st, op) = UB!begin(st, op)
  BY DEF B!begin, UB!begin, B!allocate, UB!allocate, B!HandlerMemory,
     UB!HandlerMemory, B!ThrottleOps, UB!ThrottleOps, B!uses, UB!uses,
     B!MemoryOf, UB!MemoryOf
<1>2. \A st, c : B!complete(st, c) = UB!complete(st, c)
  BY DEF B!complete, UB!complete
<1>3. \A st, op : B!cancel(st, op) = UB!cancel(st, op)
  BY <1>2 DEF B!cancel, UB!cancel, B!done, UB!done
<1>4. \A st : B!dispatch(st) = UB!dispatch(st)
  BY DEF B!dispatch, UB!dispatch, B!deallocate, UB!deallocate,
     B!HandlerMemory, UB!HandlerMemory, B!ThrottleOps, UB!ThrottleOps,
     B!uses, UB!uses, B!MemoryOf, UB!MemoryOf
<1>5. \A st, failure : B!abort(st, failure) = UB!abort(st, failure)
  BY DEF B!abort, UB!abort
<1>6. \A st, c : B!on_signal(st, c) = UB!on_signal(st, c)
  BY <1>5 DEF B!on_signal, UB!on_signal, B!SIGINT, UB!SIGINT, B!SIGTERM,
     UB!SIGTERM
<1>7. \A st, c : B!on_timeout(st, c) = UB!on_timeout(st, c)
  BY <1>5 DEF B!on_timeout, UB!on_timeout
<1>8. \A st, data : B!verify(st, data) = UB!verify(st, data)
  BY <1>5 DEF B!verify, UB!verify, B!Checked, UB!Checked, B!Pattern,
     UB!Pattern
<1>9. \A st : B!close(st) = UB!close(st)
  BY <1>3 DEF B!close, UB!close
<1>10. \A st : B!on_receive_complete(st) = UB!on_receive_complete(st)
  BY <1>3, <1>9 DEF B!on_receive_complete, UB!on_receive_complete, B!on_finish,
     UB!on_finish
<1>11. \A st : B!on_send_complete(st) = UB!on_send_complete(st)
  BY <1>3, <1>9 DEF B!on_send_complete, UB!on_send_complete, B!on_finish,
     UB!on_finish
<1>12. \A st, slice_remaining_size : B!async_receive(st, slice_remaining_size)
        = UB!async_receive(st, slice_remaining_size)
  BY <1>1 DEF B!async_receive, UB!async_receive
<1>13. \A st : B!finish_receive(st) = UB!finish_receive(st)
  BY <1>10 DEF B!finish_receive, UB!finish_receive
<1>14. \A st, data : B!verify_datagram(st, data) = UB!verify_datagram(st, data)
  BY <1>8 DEF B!verify_datagram, UB!verify_datagram
<1>15. \A st, c : B!on_receive(st, c) = UB!on_receive(st, c)
  BY <1>5, <1>12, <1>13, <1>14 DEF B!on_receive, UB!on_receive, B!received,
     UB!received
<1>16. \A st, slice_remaining_size : B!async_send(st, slice_remaining_size)
        = UB!async_send(st, slice_remaining_size)
  BY <1>1 DEF B!async_send, UB!async_send, B!Least, UB!Least
<1>17. \A st, c : B!on_send(st, c) = UB!on_send(st, c)
  BY <1>5, <1>11, <1>16 DEF B!on_send, UB!on_send, B!sent, UB!sent,
     B!finish_send, UB!finish_send
<1>18. \A st, c : B!on_receive_slice(st, c) = UB!on_receive_slice(st, c)
  BY <1>12 DEF B!on_receive_slice, UB!on_receive_slice
<1>19. \A st, c : B!on_send_slice(st, c) = UB!on_send_slice(st, c)
  BY <1>16 DEF B!on_send_slice, UB!on_send_slice
<1>20. \A st : B!start_receiving(st) = UB!start_receiving(st)
  BY <1>12, <1>13 DEF B!start_receiving, UB!start_receiving
<1>21. \A st : B!start_sending(st) = UB!start_sending(st)
  BY <1>11, <1>16 DEF B!start_sending, UB!start_sending, B!finish_send,
     UB!finish_send
<1>22. \A st : B!start_transfer(st) = UB!start_transfer(st)
  BY <1>20, <1>21 DEF B!start_transfer, UB!start_transfer
<1>23. \A c : B!initialize(c) = UB!initialize(c)
  BY DEF B!initialize, UB!initialize, B!post, UB!post, B!new, UB!new,
     B!HandlerMemory, UB!HandlerMemory, B!ThrottleOps, UB!ThrottleOps,
     B!done, UB!done
<1>24. \A st, data : B!oddities(st, data) = UB!oddities(st, data)
  BY DEF B!oddities, UB!oddities, B!Pattern, UB!Pattern
<1>25. B!ReceivesDatagram <=> UB!ReceivesDatagram
  BY <1>2, <1>24 DEF B!ReceivesDatagram, UB!ReceivesDatagram, B!Waits, UB!Waits,
     B!Running, UB!Running, B!Least, UB!Least, B!receive_size,
     UB!receive_size, B!done, UB!done
<1>26. B!SendsDatagram <=> UB!SendsDatagram
  BY <1>2 DEF B!SendsDatagram, UB!SendsDatagram, B!Waits, UB!Waits,
     B!Running, UB!Running, B!datagrams_to_send, UB!datagrams_to_send,
     B!BytesToSend, UB!BytesToSend, B!SendBuffer, UB!SendBuffer,
     B!send_offset, UB!send_offset, B!Least, UB!Least,
     B!get_max_datagram_size, UB!get_max_datagram_size, B!done, UB!done
<1>27. \A op : B!TimerExpires(op) <=> UB!TimerExpires(op)
  BY <1>2 DEF B!TimerExpires, UB!TimerExpires, B!Waits, UB!Waits, B!Running,
     UB!Running, B!done, UB!done
<1>28. B!Handle <=> UB!Handle
  BY <1>1, <1>4, <1>6, <1>7, <1>15, <1>17, <1>18, <1>19, <1>22 DEF B!Handle,
     UB!Handle, B!HandleStart, UB!HandleStart, B!Dispatches, UB!Dispatches,
     B!Running, UB!Running, B!start_timer, UB!start_timer,
     B!HandleReceiveThrottle, UB!HandleReceiveThrottle, B!HandleReceive,
     UB!HandleReceive, B!HandleSendThrottle, UB!HandleSendThrottle,
     B!HandleSend, UB!HandleSend, B!HandleTimeout, UB!HandleTimeout,
     B!HandleSignal, UB!HandleSignal
<1>29. \A datagram : B!Arrives(datagram) <=> UB!Arrives(datagram)
  BY DEF B!Arrives, UB!Arrives, B!Running, UB!Running
<1> QED BY <1>23, <1>25, <1>26, <1>27, <1>28, <1>29

\* What is known of the end A, in the words of one session and of the pair,
LEMMA WordsA ==
  /\ UA!SessionConfiguration = SessionConfiguration
  /\ \A c : (UA!Accepted(c) <=> Accepted(c))
  /\ UA!Byte = Byte
  /\ \A st : UA!Queued(st) = Queued(st)
  /\ \A st : (UA!stopped(st) <=> stopped(st))
  /\ \A st : UA!Reached(st) = Reached(st)
  /\ \A st : UA!Passed(st) = Passed(st)
  /\ \A datagrams : (UA!Runs(datagrams) <=> Runs(datagrams))
  /\ \A st, in, out, strange, r, in_after, out_after, strange_after, empty :
        (UA!Moves(st, in, out, strange, r, in_after, out_after, strange_after, empty)
            <=> Moves(st, in, out, strange, r, in_after, out_after, strange_after, empty))
<1>1. UA!SessionConfiguration = SessionConfiguration
  BY DEF UA!SessionConfiguration, SessionConfiguration, UA!Verify, Verify, UA!Direction,
     Direction, UA!ShutdownPolicy, ShutdownPolicy
<1>2. \A c : UA!Accepted(c) <=> Accepted(c)
  BY DEF UA!Accepted, Accepted
<1>3. UA!Byte = Byte
  BY DEF UA!Byte, Byte
<1>4. \A st : UA!Queued(st) = Queued(st)
  BY DEF UA!Queued, Queued
<1>5. \A st : UA!stopped(st) <=> stopped(st)
  BY DEF UA!stopped, stopped
<1>6. \A st, op : UA!Held(st, op) = Held(st, op)
  BY <1>4 DEF UA!Held, Held
<1>7. \A st : UA!Reached(st) = Reached(st)
  BY <1>6 DEF UA!Reached, Reached
<1>8. \A st : UA!Passed(st) = Passed(st)
  BY <1>6 DEF UA!Passed, Passed
<1>9. \A data, position : UA!Run(data, position) <=> Run(data, position)
  BY DEF UA!Run, Run, UA!Pattern, Pattern
<1>10. \A datagrams : UA!Runs(datagrams) <=> Runs(datagrams)
  BY <1>9 DEF UA!Runs, Runs
<1>11. \A position, bytes, slice :
        UA!Unsplit(position, bytes, slice) <=> Unsplit(position, bytes, slice)
  BY DEF UA!Unsplit, Unsplit
<1>12. \A st, in, out, strange, r, in_after, out_after, strange_after :
        UA!Stays(st, in, out, strange, r, in_after, out_after, strange_after)
            <=> Stays(st, in, out, strange, r, in_after, out_after, strange_after)
  BY <1>7, <1>8 DEF UA!Stays, Stays
<1>13. \A st, in, out, strange, r, in_after, out_after, strange_after :
        UA!Takes(st, in, out, strange, r, in_after, out_after, strange_after)
            <=> Takes(st, in, out, strange, r, in_after, out_after, strange_after)
  BY <1>7, <1>8, <1>9, <1>11 DEF UA!Takes, Takes
<1>14. \A st, in, out, strange, r, in_after, out_after, strange_after, datagram :
        UA!Puts(st, in, out, strange, r, in_after, out_after, strange_after, datagram)
            <=> Puts(st, in, out, strange, r, in_after, out_after, strange_after, datagram)
  BY <1>3, <1>7, <1>8, <1>9, <1>11 DEF UA!Puts, Puts
<1>15. \A st, in, out, strange, r, in_after, out_after, strange_after, empty :
        UA!Moves(st, in, out, strange, r, in_after, out_after, strange_after, empty)
            <=> Moves(st, in, out, strange, r, in_after, out_after, strange_after, empty)
  BY <1>12, <1>13, <1>14 DEF UA!Moves, Moves
<1> QED BY <1>1, <1>2, <1>3, <1>4, <1>5, <1>7, <1>8, <1>10, <1>15

\* and of the end B.
LEMMA WordsB ==
  /\ UB!SessionConfiguration = SessionConfiguration
  /\ \A c : (UB!Accepted(c) <=> Accepted(c))
  /\ UB!Byte = Byte
  /\ \A st : UB!Queued(st) = Queued(st)
  /\ \A st : (UB!stopped(st) <=> stopped(st))
  /\ \A st : UB!Reached(st) = Reached(st)
  /\ \A st : UB!Passed(st) = Passed(st)
  /\ \A datagrams : (UB!Runs(datagrams) <=> Runs(datagrams))
  /\ \A st, in, out, strange, r, in_after, out_after, strange_after, empty :
        (UB!Moves(st, in, out, strange, r, in_after, out_after, strange_after, empty)
            <=> Moves(st, in, out, strange, r, in_after, out_after, strange_after, empty))
<1>1. UB!SessionConfiguration = SessionConfiguration
  BY DEF UB!SessionConfiguration, SessionConfiguration, UB!Verify, Verify, UB!Direction,
     Direction, UB!ShutdownPolicy, ShutdownPolicy
<1>2. \A c : UB!Accepted(c) <=> Accepted(c)
  BY DEF UB!Accepted, Accepted
<1>3. UB!Byte = Byte
  BY DEF UB!Byte, Byte
<1>4. \A st : UB!Queued(st) = Queued(st)
  BY DEF UB!Queued, Queued
<1>5. \A st : UB!stopped(st) <=> stopped(st)
  BY DEF UB!stopped, stopped
<1>6. \A st, op : UB!Held(st, op) = Held(st, op)
  BY <1>4 DEF UB!Held, Held
<1>7. \A st : UB!Reached(st) = Reached(st)
  BY <1>6 DEF UB!Reached, Reached
<1>8. \A st : UB!Passed(st) = Passed(st)
  BY <1>6 DEF UB!Passed, Passed
<1>9. \A data, position : UB!Run(data, position) <=> Run(data, position)
  BY DEF UB!Run, Run, UB!Pattern, Pattern
<1>10. \A datagrams : UB!Runs(datagrams) <=> Runs(datagrams)
  BY <1>9 DEF UB!Runs, Runs
<1>11. \A position, bytes, slice :
        UB!Unsplit(position, bytes, slice) <=> Unsplit(position, bytes, slice)
  BY DEF UB!Unsplit, Unsplit
<1>12. \A st, in, out, strange, r, in_after, out_after, strange_after :
        UB!Stays(st, in, out, strange, r, in_after, out_after, strange_after)
            <=> Stays(st, in, out, strange, r, in_after, out_after, strange_after)
  BY <1>7, <1>8 DEF UB!Stays, Stays
<1>13. \A st, in, out, strange, r, in_after, out_after, strange_after :
        UB!Takes(st, in, out, strange, r, in_after, out_after, strange_after)
            <=> Takes(st, in, out, strange, r, in_after, out_after, strange_after)
  BY <1>7, <1>8, <1>9, <1>11 DEF UB!Takes, Takes
<1>14. \A st, in, out, strange, r, in_after, out_after, strange_after, datagram :
        UB!Puts(st, in, out, strange, r, in_after, out_after, strange_after, datagram)
            <=> Puts(st, in, out, strange, r, in_after, out_after, strange_after, datagram)
  BY <1>3, <1>7, <1>8, <1>9, <1>11 DEF UB!Puts, Puts
<1>15. \A st, in, out, strange, r, in_after, out_after, strange_after, empty :
        UB!Moves(st, in, out, strange, r, in_after, out_after, strange_after, empty)
            <=> Moves(st, in, out, strange, r, in_after, out_after, strange_after, empty)
  BY <1>12, <1>13, <1>14 DEF UB!Moves, Moves
<1> QED BY <1>1, <1>2, <1>3, <1>4, <1>5, <1>7, <1>8, <1>10, <1>15

-----------------------------------------------------------------------------
(* The words of UdpPair.                                                   *)

\* What is configured for the two ends is accepted, and what they send fits.
LEMMA UdpEnds ==
  /\ \A c \in Configurations : c \in UA!SessionConfiguration /\ UA!Accepted(c)
  /\ \A c \in Configurations : c \in UB!SessionConfiguration /\ UB!Accepted(c)
  /\ DatagramSizes # {}
  /\ \A size \in DatagramSizes :
         size \in Nat /\ size + BYTE_VALUES - 1 <= BUFFER_SIZE
  /\ Seq(Byte) \subseteq Seq(UA!Byte) /\ Seq(Byte) \subseteq Seq(UB!Byte)
  /\ RECEIVE_BUFFER \in Nat /\ SEND_BUFFER \in Nat
<1>1. \A c \in Configurations : c \in SessionConfiguration /\ Accepted(c)
  BY TestsAssumption DEF Configurations
<1> QED BY <1>1, SizesAssumption, WordsA, WordsB

\* The bytes of datagrams,
LEMMA UdpBytes ==
  /\ \A datagrams : Bytes(datagrams) = Volume(datagrams)
  /\ \A s, i : RemoveAt(s, i) = Without(s, i)
<1>1. \A datagrams : Bytes(datagrams) = Volume(datagrams)
  BY DEF Bytes, Volume, Cells
<1>2. \A s, i : RemoveAt(s, i) = Without(s, i)
  BY DEF RemoveAt, Without
<1> QED BY <1>1, <1>2

\* and the bytes of a completion whose handler has not run.
LEMMA UdpCompleted ==
  ASSUME NEW st \in SessionState, QueueInv(st), NEW op
  PROVE  Completed(st, op) = Held(st, op)
<1> DEFINE rows == [i \in DOMAIN st.ready |->
                       IF st.ready[i].op = op THEN st.ready[i].data ELSE <<>>]
<1>1. Completed(st, op) = Volume(rows)
  BY UdpBytes DEF Completed
<1>2. /\ DOMAIN rows = DOMAIN st.ready
      /\ \A i \in DOMAIN st.ready :
            rows[i] = IF st.ready[i].op = op THEN st.ready[i].data ELSE <<>>
  OBVIOUS
<1>3. DOMAIN <<>> = {}
  OBVIOUS
<1> HIDE DEF rows
<1>4. CASE \E c \in Queued(st) : c.op = op
  <2>1. PICK i \in DOMAIN st.ready : st.ready[i].op = op
    BY <1>4 DEF Queued
  <2>2. st.ready[i] \in Completion /\ st.ready[i] \in Queued(st)
    BY <2>1 DEF SessionState, Queued
  <2>3. st.ready[i].data \in Seq(Nat)
    BY <2>2 DEF Completion
  <2>4. Held(st, op) = Len(st.ready[i].data)
    BY <2>1, <2>2, HeldOne
  <2>5. \A j \in DOMAIN st.ready : j # i => st.ready[j].op # op
    BY <2>1 DEF QueueInv
  <2>6. Cells(rows) = {i} \X DOMAIN rows[i]
    <3>1. \A j \in DOMAIN rows : j # i => DOMAIN rows[j] = {}
      BY <1>2, <1>3, <2>5
    <3>2. \A j : {j} \X {} = {}
      OBVIOUS
    <3>3. \A j \in DOMAIN rows : j # i => {j} \X DOMAIN rows[j] = {}
      BY <3>1, <3>2
    <3>4. i \in DOMAIN rows
      BY <1>2
    <3> QED BY <3>3, <3>4 DEF Cells
  <2>7. rows[i] = st.ready[i].data
    BY <1>2, <2>1
  <2> QED BY <1>1, <2>3, <2>4, <2>6, <2>7, CellsRow DEF Volume
<1>5. CASE \A c \in Queued(st) : c.op # op
  <2>1. \A j \in DOMAIN rows : rows[j] = <<>>
    BY <1>2, <1>5 DEF Queued
  <2>2. Cells(rows) = {}
    BY <1>3, <2>1 DEF Cells
  <2>3. Cells(<<>>) = {}
    BY <1>3 DEF Cells
  <2>4. Volume(rows) = 0
    BY <2>2, <2>3, VolumeEmpty DEF Volume
  <2> QED BY <1>1, <1>5, <2>4, HeldNone
<1> QED BY <1>4, <1>5

\* What UdpPair counts as sent and as received.
LEMMA UdpCounts ==
  ASSUME NEW st \in SessionState, QueueInv(st)
  PROVE  Sent(st) = Passed(st) /\ Received(st) = Reached(st)
BY UdpCompleted DEF Sent, Received, Passed, Reached

-----------------------------------------------------------------------------
(* What is known of one end.                                               *)

\* The states of the end A, in the words of the pair.
LEMMA StatesA ==
  /\ UA!SessionState = SessionState
  /\ \A st : (UA!QueueInv(st) <=> QueueInv(st))
<1>1. UA!ErrorCode = ErrorCode
  BY DEF UA!ErrorCode, ErrorCode, UA!Error, Error, UA!SystemError, SystemError
<1>2. UA!Operation = Operation /\ UA!HandlerMemory = HandlerMemory
  BY DEF UA!Operation, Operation, UA!SocketOps, SocketOps, UA!ThrottleOps, ThrottleOps,
     UA!HandlerMemory, HandlerMemory
<1>3. UA!Completion = Completion
  BY <1>1, <1>2 DEF UA!Completion, Completion
<1>4. UA!SessionState = SessionState
  BY <1>1, <1>2, <1>3, WordsA DEF UA!SessionState, SessionState
<1>5. \A st : UA!QueueInv(st) <=> QueueInv(st)
  BY DEF UA!QueueInv, QueueInv
<1> QED BY <1>4, <1>5

\* What the invariant of the end A says of it.
LEMMA UdpKnowledgeA ==
  ASSUME UA!SessionInv
  PROVE  /\ sessionA \in SessionState /\ QueueInv(sessionA)
         /\ arrivedA \in Seq(Seq(Byte)) /\ outgoingA \in Seq(Seq(Byte))
         /\ Reached(sessionA) \in Nat /\ Passed(sessionA) \in Nat
         /\ sessionA.configuration.send_slice \in Nat
         /\ Passed(sessionA) <= sessionA.configuration.size
<1>1. UA!ControlInv
  BY DEF UA!SessionInv
<1>2. /\ sessionA \in SessionState /\ QueueInv(sessionA)
      /\ arrivedA \in Seq(Seq(Byte)) /\ outgoingA \in Seq(Seq(Byte))
  BY <1>1, WordsA, StatesA DEF UA!ControlInv, UA!TypeOK, UA!CoreInv
<1>3. /\ UA!Reached(sessionA) \in Nat /\ UA!Passed(sessionA) \in Nat
      /\ UA!Passed(sessionA) <= sessionA.configuration.size
  BY <1>1, UdpEnds, BufferAssumption, UA!Counters, UA!PassesAtMostSize
<1>4. sessionA.configuration.send_slice \in Nat
  BY <1>2 DEF SessionState, SessionConfiguration
<1> QED BY <1>2, <1>3, <1>4, WordsA

\* It starts so,
LEMMA UdpStartsA ==
  ASSUME Init
  PROVE  /\ UA!SessionInv /\ UA!FirstInv
         /\ Reached(sessionA) = 0 /\ Passed(sessionA) = 0
         /\ arrivedA = <<>> /\ outgoingA = <<>> /\ strangeA = {}
<1>1. \E c \in Configurations : sessionA = UA!initialize(c)
  BY SameDatagramsA DEF Init, Configurations
<1>2. UA!Init
  BY <1>1 DEF Init, UA!Init
<1>3. UA!SessionInv
  BY <1>2, UdpEnds, BufferAssumption, UA!SessionInit
<1>4. UA!FirstInv
  BY <1>2, UdpEnds, BufferAssumption, UA!FirstInit
<1>5. UA!Reached(sessionA) = 0 /\ UA!Passed(sessionA) = 0
  BY <1>2, UdpEnds, BufferAssumption, UA!StartsAtZero
<1> QED BY <1>3, <1>4, <1>5, WordsA DEF Init

\* what it does itself is a step that the other end observes,
LEMMA UdpMovesA ==
  ASSUME UA!SessionInv,
         \/ A!Handle \/ A!ReceivesDatagram \/ A!SendsDatagram
         \/ \E op \in {"receive_throttle", "send_throttle", "timeout"} :
                A!TimerExpires(op)
  PROVE  /\ UA!SessionInv'
         /\ Moves(sessionA, arrivedA, outgoingA, strangeA,
                  sessionA', arrivedA', outgoingA', strangeA', 0 \in DatagramSizes)
         /\ UA!FirstInv /\ Runs(arrivedA) => UA!FirstInv'
<1>1. \/ UA!Handle \/ UA!ReceivesDatagram \/ UA!SendsDatagram
      \/ \E op \in {"receive_throttle", "send_throttle", "timeout"} : UA!TimerExpires(op)
  BY SameDatagramsA
<1>2. UA!Next
  BY <1>1 DEF UA!Next, UA!Complete
<1>3. UA!SessionInv'
  BY <1>2, UdpEnds, BufferAssumption, UA!SessionStep
<1>4. UA!ControlInv /\ UA!ControlInv' /\ UA!HandInv
  BY <1>3 DEF UA!SessionInv
<1>5. UA!Moves(sessionA, arrivedA, outgoingA, strangeA,
               sessionA', arrivedA', outgoingA', strangeA', 0 \in DatagramSizes)
  BY <1>1, <1>4, UdpEnds, BufferAssumption, UA!EndMoves
<1>6. ASSUME UA!FirstInv, Runs(arrivedA) PROVE UA!FirstInv'
  <2>1. UA!Runs(arrivedA)
    BY <1>6, WordsA
  <2>2. CASE UA!Handle
    BY <1>4, <1>6, <2>2, UdpEnds, BufferAssumption, UA!FirstHandle
  <2>3. CASE UA!ReceivesDatagram
    BY <1>4, <1>6, <2>1, <2>3, UdpEnds, BufferAssumption, UA!FirstReceives
  <2>4. CASE \/ UA!SendsDatagram
             \/ \E op \in {"receive_throttle", "send_throttle", "timeout"} :
                    UA!TimerExpires(op)
    BY <1>4, <1>6, <2>4, UdpEnds, BufferAssumption, UA!FirstOthers
  <2> QED BY <1>1, <2>2, <2>3, <2>4
<1> QED BY <1>3, <1>5, <1>6, WordsA

\* a datagram arrives at it,
LEMMA UdpArrivesA ==
  ASSUME UA!SessionInv,
         NEW datagram \in Seq(Byte), A!Arrives(datagram)
  PROVE  /\ UA!SessionInv' /\ (UA!FirstInv => UA!FirstInv')
         /\ sessionA' = sessionA /\ arrivedA' = Append(arrivedA, datagram)
         /\ outgoingA' = outgoingA /\ strangeA' = strangeA
<1>1. UA!Arrives(datagram)
  BY SameDatagramsA
<1>2. /\ sessionA' = sessionA /\ arrivedA' = Append(arrivedA, datagram)
      /\ outgoingA' = outgoingA /\ strangeA' = strangeA
  BY <1>1 DEF UA!Arrives
<1>3. UA!Next
  BY <1>1 DEF UA!Next, UA!Environment
<1>4. UA!SessionInv'
  BY <1>3, UdpEnds, BufferAssumption, UA!SessionStep
<1>5. UA!ControlInv /\ UA!HandInv /\ UNCHANGED <<sessionA, strangeA>>
  BY <1>2 DEF UA!SessionInv
<1>6. UA!FirstInv => UA!FirstInv'
  BY <1>5, UdpEnds, BufferAssumption, UA!FirstOthers
<1> QED BY <1>2, <1>4, <1>6

\* or one that it sent is gone.
LEMMA UdpSentA ==
  ASSUME UA!SessionInv,
         UNCHANGED <<sessionA, arrivedA, headA, strangeA>>,
         outgoingA' \in Seq(Seq(Byte))
  PROVE  UA!SessionInv' /\ (UA!FirstInv => UA!FirstInv')
<1>1. outgoingA' \in Seq(Seq(UA!Byte))
  BY WordsA
<1> QED BY <1>1, UdpEnds, BufferAssumption, UA!SessionSent

\* What FirstSuffices and SuccessIsExact say of it.
LEMMA UdpVerdictA ==
  ASSUME UA!SessionInv
  PROVE  /\ UA!FirstInv => Detects(sessionA, strangeA)
         /\ (Succeeded(sessionA) /\ Receives(sessionA)) =>
                /\ sessionA.configuration.size <= sessionA.received
                /\ Reached(sessionA) = sessionA.received
<1>1. UA!ControlInv /\ UA!DatagramInv
  BY DEF UA!SessionInv
<1>2. ASSUME UA!FirstInv PROVE Detects(sessionA, strangeA)
  <2>1. UA!Queued(sessionA) = Queued(sessionA)
    BY DEF UA!Queued, Queued
  <2>2. sessionA.configuration.verify # "NONE" =>
            /\ sessionA.failure = "data_mismatch" => "wrong" \in strangeA
            /\ ("wrong" \in strangeA /\ ~sessionA.exit_requested) =>
                    \E c \in UA!Queued(sessionA) : c.op = "receive"
    BY <1>1, <1>2, UdpEnds, BufferAssumption, UA!FirstFinds
  <2> QED BY <2>1, <2>2 DEF Detects
<1>3. ASSUME Succeeded(sessionA), Receives(sessionA)
      PROVE  /\ sessionA.configuration.size <= sessionA.received
             /\ Reached(sessionA) = sessionA.received
  <2>1. UA!stopped(sessionA) <=> stopped(sessionA)
    BY DEF UA!stopped, stopped
  <2>2. /\ sessionA.configuration.size <= sessionA.received
        /\ UA!Reached(sessionA) = sessionA.received
    BY <1>1, <1>3, <2>1, UdpEnds, BufferAssumption, UA!SuccessReaches
       DEF Succeeded, Receives
  <2> QED BY <2>2, WordsA
<1> QED BY <1>2, <1>3

\* The states of the end B, in the words of the pair.
LEMMA StatesB ==
  /\ UB!SessionState = SessionState
  /\ \A st : (UB!QueueInv(st) <=> QueueInv(st))
<1>1. UB!ErrorCode = ErrorCode
  BY DEF UB!ErrorCode, ErrorCode, UB!Error, Error, UB!SystemError, SystemError
<1>2. UB!Operation = Operation /\ UB!HandlerMemory = HandlerMemory
  BY DEF UB!Operation, Operation, UB!SocketOps, SocketOps, UB!ThrottleOps, ThrottleOps,
     UB!HandlerMemory, HandlerMemory
<1>3. UB!Completion = Completion
  BY <1>1, <1>2 DEF UB!Completion, Completion
<1>4. UB!SessionState = SessionState
  BY <1>1, <1>2, <1>3, WordsB DEF UB!SessionState, SessionState
<1>5. \A st : UB!QueueInv(st) <=> QueueInv(st)
  BY DEF UB!QueueInv, QueueInv
<1> QED BY <1>4, <1>5

\* What the invariant of the end B says of it.
LEMMA UdpKnowledgeB ==
  ASSUME UB!SessionInv
  PROVE  /\ sessionB \in SessionState /\ QueueInv(sessionB)
         /\ arrivedB \in Seq(Seq(Byte)) /\ outgoingB \in Seq(Seq(Byte))
         /\ Reached(sessionB) \in Nat /\ Passed(sessionB) \in Nat
         /\ sessionB.configuration.send_slice \in Nat
         /\ Passed(sessionB) <= sessionB.configuration.size
<1>1. UB!ControlInv
  BY DEF UB!SessionInv
<1>2. /\ sessionB \in SessionState /\ QueueInv(sessionB)
      /\ arrivedB \in Seq(Seq(Byte)) /\ outgoingB \in Seq(Seq(Byte))
  BY <1>1, WordsB, StatesB DEF UB!ControlInv, UB!TypeOK, UB!CoreInv
<1>3. /\ UB!Reached(sessionB) \in Nat /\ UB!Passed(sessionB) \in Nat
      /\ UB!Passed(sessionB) <= sessionB.configuration.size
  BY <1>1, UdpEnds, BufferAssumption, UB!Counters, UB!PassesAtMostSize
<1>4. sessionB.configuration.send_slice \in Nat
  BY <1>2 DEF SessionState, SessionConfiguration
<1> QED BY <1>2, <1>3, <1>4, WordsB

\* It starts so,
LEMMA UdpStartsB ==
  ASSUME Init
  PROVE  /\ UB!SessionInv /\ UB!FirstInv
         /\ Reached(sessionB) = 0 /\ Passed(sessionB) = 0
         /\ arrivedB = <<>> /\ outgoingB = <<>> /\ strangeB = {}
<1>1. \E c \in Configurations : sessionB = UB!initialize(c)
  BY SameDatagramsB DEF Init, Configurations
<1>2. UB!Init
  BY <1>1 DEF Init, UB!Init
<1>3. UB!SessionInv
  BY <1>2, UdpEnds, BufferAssumption, UB!SessionInit
<1>4. UB!FirstInv
  BY <1>2, UdpEnds, BufferAssumption, UB!FirstInit
<1>5. UB!Reached(sessionB) = 0 /\ UB!Passed(sessionB) = 0
  BY <1>2, UdpEnds, BufferAssumption, UB!StartsAtZero
<1> QED BY <1>3, <1>4, <1>5, WordsB DEF Init

\* what it does itself is a step that the other end observes,
LEMMA UdpMovesB ==
  ASSUME UB!SessionInv,
         \/ B!Handle \/ B!ReceivesDatagram \/ B!SendsDatagram
         \/ \E op \in {"receive_throttle", "send_throttle", "timeout"} :
                B!TimerExpires(op)
  PROVE  /\ UB!SessionInv'
         /\ Moves(sessionB, arrivedB, outgoingB, strangeB,
                  sessionB', arrivedB', outgoingB', strangeB', 0 \in DatagramSizes)
         /\ UB!FirstInv /\ Runs(arrivedB) => UB!FirstInv'
<1>1. \/ UB!Handle \/ UB!ReceivesDatagram \/ UB!SendsDatagram
      \/ \E op \in {"receive_throttle", "send_throttle", "timeout"} : UB!TimerExpires(op)
  BY SameDatagramsB
<1>2. UB!Next
  BY <1>1 DEF UB!Next, UB!Complete
<1>3. UB!SessionInv'
  BY <1>2, UdpEnds, BufferAssumption, UB!SessionStep
<1>4. UB!ControlInv /\ UB!ControlInv' /\ UB!HandInv
  BY <1>3 DEF UB!SessionInv
<1>5. UB!Moves(sessionB, arrivedB, outgoingB, strangeB,
               sessionB', arrivedB', outgoingB', strangeB', 0 \in DatagramSizes)
  BY <1>1, <1>4, UdpEnds, BufferAssumption, UB!EndMoves
<1>6. ASSUME UB!FirstInv, Runs(arrivedB) PROVE UB!FirstInv'
  <2>1. UB!Runs(arrivedB)
    BY <1>6, WordsB
  <2>2. CASE UB!Handle
    BY <1>4, <1>6, <2>2, UdpEnds, BufferAssumption, UB!FirstHandle
  <2>3. CASE UB!ReceivesDatagram
    BY <1>4, <1>6, <2>1, <2>3, UdpEnds, BufferAssumption, UB!FirstReceives
  <2>4. CASE \/ UB!SendsDatagram
             \/ \E op \in {"receive_throttle", "send_throttle", "timeout"} :
                    UB!TimerExpires(op)
    BY <1>4, <1>6, <2>4, UdpEnds, BufferAssumption, UB!FirstOthers
  <2> QED BY <1>1, <2>2, <2>3, <2>4
<1> QED BY <1>3, <1>5, <1>6, WordsB

\* a datagram arrives at it,
LEMMA UdpArrivesB ==
  ASSUME UB!SessionInv,
         NEW datagram \in Seq(Byte), B!Arrives(datagram)
  PROVE  /\ UB!SessionInv' /\ (UB!FirstInv => UB!FirstInv')
         /\ sessionB' = sessionB /\ arrivedB' = Append(arrivedB, datagram)
         /\ outgoingB' = outgoingB /\ strangeB' = strangeB
<1>1. UB!Arrives(datagram)
  BY SameDatagramsB
<1>2. /\ sessionB' = sessionB /\ arrivedB' = Append(arrivedB, datagram)
      /\ outgoingB' = outgoingB /\ strangeB' = strangeB
  BY <1>1 DEF UB!Arrives
<1>3. UB!Next
  BY <1>1 DEF UB!Next, UB!Environment
<1>4. UB!SessionInv'
  BY <1>3, UdpEnds, BufferAssumption, UB!SessionStep
<1>5. UB!ControlInv /\ UB!HandInv /\ UNCHANGED <<sessionB, strangeB>>
  BY <1>2 DEF UB!SessionInv
<1>6. UB!FirstInv => UB!FirstInv'
  BY <1>5, UdpEnds, BufferAssumption, UB!FirstOthers
<1> QED BY <1>2, <1>4, <1>6

\* or one that it sent is gone.
LEMMA UdpSentB ==
  ASSUME UB!SessionInv,
         UNCHANGED <<sessionB, arrivedB, headB, strangeB>>,
         outgoingB' \in Seq(Seq(Byte))
  PROVE  UB!SessionInv' /\ (UB!FirstInv => UB!FirstInv')
<1>1. outgoingB' \in Seq(Seq(UB!Byte))
  BY WordsB
<1> QED BY <1>1, UdpEnds, BufferAssumption, UB!SessionSent

\* What FirstSuffices and SuccessIsExact say of it.
LEMMA UdpVerdictB ==
  ASSUME UB!SessionInv
  PROVE  /\ UB!FirstInv => Detects(sessionB, strangeB)
         /\ (Succeeded(sessionB) /\ Receives(sessionB)) =>
                /\ sessionB.configuration.size <= sessionB.received
                /\ Reached(sessionB) = sessionB.received
<1>1. UB!ControlInv /\ UB!DatagramInv
  BY DEF UB!SessionInv
<1>2. ASSUME UB!FirstInv PROVE Detects(sessionB, strangeB)
  <2>1. UB!Queued(sessionB) = Queued(sessionB)
    BY DEF UB!Queued, Queued
  <2>2. sessionB.configuration.verify # "NONE" =>
            /\ sessionB.failure = "data_mismatch" => "wrong" \in strangeB
            /\ ("wrong" \in strangeB /\ ~sessionB.exit_requested) =>
                    \E c \in UB!Queued(sessionB) : c.op = "receive"
    BY <1>1, <1>2, UdpEnds, BufferAssumption, UB!FirstFinds
  <2> QED BY <2>1, <2>2 DEF Detects
<1>3. ASSUME Succeeded(sessionB), Receives(sessionB)
      PROVE  /\ sessionB.configuration.size <= sessionB.received
             /\ Reached(sessionB) = sessionB.received
  <2>1. UB!stopped(sessionB) <=> stopped(sessionB)
    BY DEF UB!stopped, stopped
  <2>2. /\ sessionB.configuration.size <= sessionB.received
        /\ UB!Reached(sessionB) = sessionB.received
    BY <1>1, <1>3, <2>1, UdpEnds, BufferAssumption, UB!SuccessReaches
       DEF Succeeded, Receives
  <2> QED BY <2>2, WordsB
<1> QED BY <1>2, <1>3

-----------------------------------------------------------------------------
(* The invariant of the two ends.                                          *)

\* What is known of each end, and of what is on its way between them.
UdpInv ==
    /\ UA!SessionInv /\ UB!SessionInv
    /\ Carried(sessionA, outgoingA, sessionB, arrivedB, strangeB, network)
    /\ Carried(sessionB, outgoingB, sessionA, arrivedA, strangeA, network)
    /\ 0 \notin DatagramSizes =>
            /\ UA!FirstInv /\ UB!FirstInv
            /\ Runs(arrivedA) /\ Runs(outgoingA)
            /\ Runs(arrivedB) /\ Runs(outgoingB)

\* The step of an end leaves runs of what it sends and of what waits for it.
LEMMA RunsMoved ==
  ASSUME NEW st, NEW in \in Seq(Seq(Byte)), NEW out \in Seq(Seq(Byte)), NEW strange,
         NEW r, NEW in_after, NEW out_after, NEW strange_after,
         Moves(st, in, out, strange, r, in_after, out_after, strange_after, FALSE),
         Runs(in), Runs(out), Passed(st) \in Nat
  PROVE  Runs(in_after) /\ Runs(out_after)
<1>1. CASE Stays(st, in, out, strange, r, in_after, out_after, strange_after)
  BY <1>1 DEF Stays
<1>2. CASE Takes(st, in, out, strange, r, in_after, out_after, strange_after)
  BY <1>2, RunsKept DEF Takes
<1>3. ASSUME NEW datagram, datagram # <<>>,
             Puts(st, in, out, strange, r, in_after, out_after, strange_after, datagram)
      PROVE  Runs(in_after) /\ Runs(out_after)
  <2>1. /\ datagram \in Seq(Byte) /\ Run(datagram, Passed(st))
        /\ out_after = Append(out, datagram) /\ in_after = in
    BY <1>3 DEF Puts
  <2> QED BY <1>3, <2>1, RunsKept
<1> QED BY <1>1, <1>2, <1>3 DEF Moves

\* Nothing has been sent when the two sessions start.
LEMMA UdpInit ==
  ASSUME Init
  PROVE  UdpInv
<1>1. /\ UA!SessionInv /\ UA!FirstInv
      /\ Reached(sessionA) = 0 /\ Passed(sessionA) = 0
      /\ arrivedA = <<>> /\ outgoingA = <<>> /\ strangeA = {}
  BY UdpStartsA
<1>2. /\ UB!SessionInv /\ UB!FirstInv
      /\ Reached(sessionB) = 0 /\ Passed(sessionB) = 0
      /\ arrivedB = <<>> /\ outgoingB = <<>> /\ strangeB = {}
  BY UdpStartsB
<1>3. Runs(<<>>)
  BY DEF Runs
<1>4. Carried(sessionA, <<>>, sessionB, <<>>, {}, network)
  BY <1>1, <1>2, CarriedInit
<1>5. Carried(sessionB, <<>>, sessionA, <<>>, {}, network)
  BY <1>1, <1>2, CarriedInit
<1> QED BY <1>1, <1>2, <1>3, <1>4, <1>5 DEF UdpInv

\* A step of the end A, or its timer.
LEMMA UdpStepA ==
  ASSUME UdpInv,
         \/ A!Handle \/ A!ReceivesDatagram \/ A!SendsDatagram
         \/ \E op \in {"receive_throttle", "send_throttle", "timeout"} :
                A!TimerExpires(op),
         UNCHANGED <<sessionB, arrivedB, outgoingB, headB, strangeB, network>>
  PROVE  UdpInv'
<1>1. /\ UA!SessionInv'
      /\ Moves(sessionA, arrivedA, outgoingA, strangeA,
               sessionA', arrivedA', outgoingA', strangeA', 0 \in DatagramSizes)
      /\ UA!FirstInv /\ Runs(arrivedA) => UA!FirstInv'
  BY UdpMovesA DEF UdpInv
<1>2. /\ sessionB' = sessionB /\ arrivedB' = arrivedB /\ outgoingB' = outgoingB
      /\ headB' = headB /\ strangeB' = strangeB /\ network' = network
  OBVIOUS
<1>3. /\ arrivedA \in Seq(Seq(Byte)) /\ outgoingA \in Seq(Seq(Byte))
      /\ Reached(sessionA) \in Nat /\ Passed(sessionA) \in Nat
  BY UdpKnowledgeA DEF UdpInv
<1>4. /\ arrivedB \in Seq(Seq(Byte)) /\ outgoingB \in Seq(Seq(Byte))
      /\ Reached(sessionB) \in Nat /\ Passed(sessionB) \in Nat
      /\ sessionB.configuration.send_slice \in Nat
  BY UdpKnowledgeB DEF UdpInv
<1>5. Reached(sessionA') \in Nat
  <2>1. UA!ControlInv'
    BY <1>1 DEF UA!SessionInv
  <2>2. sessionA' \in SessionState /\ QueueInv(sessionA')
    BY <2>1, StatesA DEF UA!ControlInv, UA!CoreInv
  <2>3. Held(sessionA', "receive") \in Nat /\ sessionA'.received \in Nat
    BY <2>2, HeldType DEF SessionState
  <2> QED BY <2>3 DEF Reached
<1>6. UB!SessionInv' /\ (UB!FirstInv => UB!FirstInv')
  BY <1>2, <1>4, UdpSentB DEF UdpInv
<1>7. Carried(sessionA', outgoingA', sessionB, arrivedB, strangeB, network)
  BY <1>1, <1>3, <1>4, CarriedBySender DEF UdpInv
<1>8. Carried(sessionB, outgoingB, sessionA', arrivedA', strangeA', network)
  BY <1>1, <1>3, <1>4, <1>5, CarriedByReceiver DEF UdpInv
<1>9. ASSUME 0 \notin DatagramSizes PROVE Runs(arrivedA') /\ Runs(outgoingA')
  <2>1. Moves(sessionA, arrivedA, outgoingA, strangeA,
              sessionA', arrivedA', outgoingA', strangeA', FALSE)
    BY <1>1, <1>9 DEF Moves
  <2> QED BY <1>3, <1>9, <2>1, RunsMoved DEF UdpInv
<1>10. /\ Carried(sessionA', outgoingA', sessionB', arrivedB', strangeB', network')
       /\ Carried(sessionB', outgoingB', sessionA', arrivedA', strangeA', network')
  BY <1>2, <1>7, <1>8
<1>11. 0 \notin DatagramSizes =>
            /\ UA!FirstInv' /\ UB!FirstInv'
            /\ Runs(arrivedA') /\ Runs(outgoingA')
            /\ Runs(arrivedB') /\ Runs(outgoingB')
  BY <1>1, <1>2, <1>6, <1>9 DEF UdpInv
<1> QED BY <1>1, <1>6, <1>10, <1>11 DEF UdpInv

\* The network delivers a datagram of A,
LEMMA UdpDeliversB ==
  ASSUME UdpInv, DeliversToB
  PROVE  UdpInv'
<1>0. PICK i \in Deliverable(outgoingA) :
        /\ B!Arrives(outgoingA[i])
        /\ outgoingA' = RemoveAt(outgoingA, i)
        /\ UNCHANGED <<sessionA, arrivedA, headA, strangeA, network>>
  BY DEF DeliversToB
<1>1. i \in DOMAIN outgoingA /\ (network = "ideal" => i = 1)
  BY DEF Deliverable
<1>2. /\ sessionA' = sessionA /\ arrivedA' = arrivedA /\ headA' = headA
      /\ strangeA' = strangeA /\ network' = network
      /\ outgoingA' = Without(outgoingA, i)
  BY <1>0, UdpBytes
<1>3. /\ arrivedA \in Seq(Seq(Byte)) /\ outgoingA \in Seq(Seq(Byte))
      /\ Reached(sessionA) \in Nat /\ Passed(sessionA) \in Nat
  BY UdpKnowledgeA DEF UdpInv
<1>4. /\ arrivedB \in Seq(Seq(Byte)) /\ outgoingB \in Seq(Seq(Byte))
      /\ Reached(sessionB) \in Nat /\ Passed(sessionB) \in Nat
  BY UdpKnowledgeB DEF UdpInv
<1>5. outgoingA[i] \in Seq(Byte)
  BY <1>1, <1>3
<1>6. /\ UB!SessionInv' /\ (UB!FirstInv => UB!FirstInv')
      /\ sessionB' = sessionB /\ arrivedB' = Append(arrivedB, outgoingA[i])
      /\ outgoingB' = outgoingB /\ strangeB' = strangeB
  BY <1>0, <1>5, UdpArrivesB DEF UdpInv
<1>7. outgoingA' \in Seq(Seq(Byte))
  BY <1>1, <1>2, <1>3, WithoutMembers
<1>8. UA!SessionInv' /\ (UA!FirstInv => UA!FirstInv')
  BY <1>2, <1>7, UdpSentA DEF UdpInv
<1>9. Carried(sessionA, Without(outgoingA, i), sessionB,
              Append(arrivedB, outgoingA[i]), strangeB, network)
  BY <1>1, <1>3, <1>4, CarriedByNetwork DEF UdpInv
<1>10. /\ Carried(sessionA', outgoingA', sessionB', arrivedB', strangeB', network')
       /\ Carried(sessionB', outgoingB', sessionA', arrivedA', strangeA', network')
  BY <1>2, <1>6, <1>9 DEF UdpInv
<1>11. ASSUME 0 \notin DatagramSizes
       PROVE  Runs(arrivedB') /\ Runs(outgoingA')
  BY <1>1, <1>2, <1>3, <1>4, <1>6, <1>11, RunsKept DEF UdpInv
<1>12. 0 \notin DatagramSizes =>
            /\ UA!FirstInv' /\ UB!FirstInv'
            /\ Runs(arrivedA') /\ Runs(outgoingA')
            /\ Runs(arrivedB') /\ Runs(outgoingB')
  BY <1>2, <1>6, <1>8, <1>11 DEF UdpInv
<1> QED BY <1>6, <1>8, <1>10, <1>12 DEF UdpInv

\* loses one that is not kept in order,
LEMMA UdpLosesA ==
  ASSUME UdpInv, network # "ideal",
         NEW i \in Deliverable(outgoingA),
         outgoingA' = RemoveAt(outgoingA, i),
         UNCHANGED <<sessionA, arrivedA, headA, strangeA, sessionB, arrivedB, outgoingB,
                     headB, strangeB, network>>
  PROVE  UdpInv'
<1>1. i \in DOMAIN outgoingA
  BY DEF Deliverable
<1>2. /\ sessionA' = sessionA /\ arrivedA' = arrivedA /\ headA' = headA
      /\ strangeA' = strangeA /\ network' = network
      /\ sessionB' = sessionB /\ arrivedB' = arrivedB /\ outgoingB' = outgoingB
      /\ headB' = headB /\ strangeB' = strangeB
      /\ outgoingA' = Without(outgoingA, i)
  BY UdpBytes
<1>3. /\ arrivedA \in Seq(Seq(Byte)) /\ outgoingA \in Seq(Seq(Byte))
      /\ Reached(sessionA) \in Nat /\ Passed(sessionA) \in Nat
  BY UdpKnowledgeA DEF UdpInv
<1>4. /\ arrivedB \in Seq(Seq(Byte)) /\ outgoingB \in Seq(Seq(Byte))
      /\ Reached(sessionB) \in Nat /\ Passed(sessionB) \in Nat
  BY UdpKnowledgeB DEF UdpInv
<1>5. outgoingA' \in Seq(Seq(Byte))
  BY <1>1, <1>2, <1>3, WithoutMembers
<1>6. UA!SessionInv' /\ (UA!FirstInv => UA!FirstInv')
  BY <1>2, <1>5, UdpSentA DEF UdpInv
<1>7. UB!SessionInv' /\ (UB!FirstInv => UB!FirstInv')
  BY <1>2, <1>4, UdpSentB DEF UdpInv
<1>8. Carried(sessionA, Without(outgoingA, i), sessionB, arrivedB, strangeB, network)
  BY <1>1, <1>3, <1>4, CarriedAfterLoss DEF UdpInv
<1>9. /\ Carried(sessionA', outgoingA', sessionB', arrivedB', strangeB', network')
      /\ Carried(sessionB', outgoingB', sessionA', arrivedA', strangeA', network')
  BY <1>2, <1>8 DEF UdpInv
<1>10. 0 \notin DatagramSizes => Runs(outgoingA')
  BY <1>1, <1>2, <1>3, RunsKept DEF UdpInv
<1>11. 0 \notin DatagramSizes =>
            /\ UA!FirstInv' /\ UB!FirstInv'
            /\ Runs(arrivedA') /\ Runs(outgoingA')
            /\ Runs(arrivedB') /\ Runs(outgoingB')
  BY <1>2, <1>6, <1>7, <1>10 DEF UdpInv
<1> QED BY <1>6, <1>7, <1>9, <1>11 DEF UdpInv

\* or delivers it and keeps it.
LEMMA UdpRepeatsA ==
  ASSUME UdpInv, network = "repeating",
         NEW i \in Deliverable(outgoingA), B!Arrives(outgoingA[i]),
         UNCHANGED <<sessionA, arrivedA, outgoingA, headA, strangeA, network>>
  PROVE  UdpInv'
<1>1. i \in DOMAIN outgoingA
  BY DEF Deliverable
<1>2. /\ sessionA' = sessionA /\ arrivedA' = arrivedA /\ headA' = headA
      /\ outgoingA' = outgoingA /\ strangeA' = strangeA /\ network' = network
  OBVIOUS
<1>3. arrivedA \in Seq(Seq(Byte)) /\ outgoingA \in Seq(Seq(Byte))
  BY UdpKnowledgeA DEF UdpInv
<1>4. arrivedB \in Seq(Seq(Byte)) /\ outgoingB \in Seq(Seq(Byte))
  BY UdpKnowledgeB DEF UdpInv
<1>5. outgoingA[i] \in Seq(Byte)
  BY <1>1, <1>3
<1>6. /\ UB!SessionInv' /\ (UB!FirstInv => UB!FirstInv')
      /\ sessionB' = sessionB /\ arrivedB' = Append(arrivedB, outgoingA[i])
      /\ outgoingB' = outgoingB /\ strangeB' = strangeB
  BY <1>5, UdpArrivesB DEF UdpInv
<1>7. UA!SessionInv' /\ (UA!FirstInv => UA!FirstInv')
  BY <1>2, <1>3, UdpSentA DEF UdpInv
<1>8. /\ Carried(sessionA', outgoingA', sessionB', arrivedB', strangeB', network')
      /\ Carried(sessionB', outgoingB', sessionA', arrivedA', strangeA', network')
  BY <1>2 DEF Carried
<1>9. 0 \notin DatagramSizes => Runs(arrivedB')
  BY <1>1, <1>3, <1>4, <1>6, RunsKept DEF UdpInv
<1>10. 0 \notin DatagramSizes =>
            /\ UA!FirstInv' /\ UB!FirstInv'
            /\ Runs(arrivedA') /\ Runs(outgoingA')
            /\ Runs(arrivedB') /\ Runs(outgoingB')
  BY <1>2, <1>6, <1>7, <1>9 DEF UdpInv
<1> QED BY <1>6, <1>7, <1>8, <1>10 DEF UdpInv

\* A step of the end B, or its timer.
LEMMA UdpStepB ==
  ASSUME UdpInv,
         \/ B!Handle \/ B!ReceivesDatagram \/ B!SendsDatagram
         \/ \E op \in {"receive_throttle", "send_throttle", "timeout"} :
                B!TimerExpires(op),
         UNCHANGED <<sessionA, arrivedA, outgoingA, headA, strangeA, network>>
  PROVE  UdpInv'
<1>1. /\ UB!SessionInv'
      /\ Moves(sessionB, arrivedB, outgoingB, strangeB,
               sessionB', arrivedB', outgoingB', strangeB', 0 \in DatagramSizes)
      /\ UB!FirstInv /\ Runs(arrivedB) => UB!FirstInv'
  BY UdpMovesB DEF UdpInv
<1>2. /\ sessionA' = sessionA /\ arrivedA' = arrivedA /\ outgoingA' = outgoingA
      /\ headA' = headA /\ strangeA' = strangeA /\ network' = network
  OBVIOUS
<1>3. /\ arrivedB \in Seq(Seq(Byte)) /\ outgoingB \in Seq(Seq(Byte))
      /\ Reached(sessionB) \in Nat /\ Passed(sessionB) \in Nat
  BY UdpKnowledgeB DEF UdpInv
<1>4. /\ arrivedA \in Seq(Seq(Byte)) /\ outgoingA \in Seq(Seq(Byte))
      /\ Reached(sessionA) \in Nat /\ Passed(sessionA) \in Nat
      /\ sessionA.configuration.send_slice \in Nat
  BY UdpKnowledgeA DEF UdpInv
<1>5. Reached(sessionB') \in Nat
  <2>1. UB!ControlInv'
    BY <1>1 DEF UB!SessionInv
  <2>2. sessionB' \in SessionState /\ QueueInv(sessionB')
    BY <2>1, StatesB DEF UB!ControlInv, UB!CoreInv
  <2>3. Held(sessionB', "receive") \in Nat /\ sessionB'.received \in Nat
    BY <2>2, HeldType DEF SessionState
  <2> QED BY <2>3 DEF Reached
<1>6. UA!SessionInv' /\ (UA!FirstInv => UA!FirstInv')
  BY <1>2, <1>4, UdpSentA DEF UdpInv
<1>7. Carried(sessionB', outgoingB', sessionA, arrivedA, strangeA, network)
  BY <1>1, <1>3, <1>4, CarriedBySender DEF UdpInv
<1>8. Carried(sessionA, outgoingA, sessionB', arrivedB', strangeB', network)
  BY <1>1, <1>3, <1>4, <1>5, CarriedByReceiver DEF UdpInv
<1>9. ASSUME 0 \notin DatagramSizes PROVE Runs(arrivedB') /\ Runs(outgoingB')
  <2>1. Moves(sessionB, arrivedB, outgoingB, strangeB,
              sessionB', arrivedB', outgoingB', strangeB', FALSE)
    BY <1>1, <1>9 DEF Moves
  <2> QED BY <1>3, <1>9, <2>1, RunsMoved DEF UdpInv
<1>10. /\ Carried(sessionB', outgoingB', sessionA', arrivedA', strangeA', network')
       /\ Carried(sessionA', outgoingA', sessionB', arrivedB', strangeB', network')
  BY <1>2, <1>7, <1>8
<1>11. 0 \notin DatagramSizes =>
            /\ UB!FirstInv' /\ UA!FirstInv'
            /\ Runs(arrivedB') /\ Runs(outgoingB')
            /\ Runs(arrivedA') /\ Runs(outgoingA')
  BY <1>1, <1>2, <1>6, <1>9 DEF UdpInv
<1> QED BY <1>1, <1>6, <1>10, <1>11 DEF UdpInv

\* The network delivers a datagram of B,
LEMMA UdpDeliversA ==
  ASSUME UdpInv, DeliversToA
  PROVE  UdpInv'
<1>0. PICK i \in Deliverable(outgoingB) :
        /\ A!Arrives(outgoingB[i])
        /\ outgoingB' = RemoveAt(outgoingB, i)
        /\ UNCHANGED <<sessionB, arrivedB, headB, strangeB, network>>
  BY DEF DeliversToA
<1>1. i \in DOMAIN outgoingB /\ (network = "ideal" => i = 1)
  BY DEF Deliverable
<1>2. /\ sessionB' = sessionB /\ arrivedB' = arrivedB /\ headB' = headB
      /\ strangeB' = strangeB /\ network' = network
      /\ outgoingB' = Without(outgoingB, i)
  BY <1>0, UdpBytes
<1>3. /\ arrivedB \in Seq(Seq(Byte)) /\ outgoingB \in Seq(Seq(Byte))
      /\ Reached(sessionB) \in Nat /\ Passed(sessionB) \in Nat
  BY UdpKnowledgeB DEF UdpInv
<1>4. /\ arrivedA \in Seq(Seq(Byte)) /\ outgoingA \in Seq(Seq(Byte))
      /\ Reached(sessionA) \in Nat /\ Passed(sessionA) \in Nat
  BY UdpKnowledgeA DEF UdpInv
<1>5. outgoingB[i] \in Seq(Byte)
  BY <1>1, <1>3
<1>6. /\ UA!SessionInv' /\ (UA!FirstInv => UA!FirstInv')
      /\ sessionA' = sessionA /\ arrivedA' = Append(arrivedA, outgoingB[i])
      /\ outgoingA' = outgoingA /\ strangeA' = strangeA
  BY <1>0, <1>5, UdpArrivesA DEF UdpInv
<1>7. outgoingB' \in Seq(Seq(Byte))
  BY <1>1, <1>2, <1>3, WithoutMembers
<1>8. UB!SessionInv' /\ (UB!FirstInv => UB!FirstInv')
  BY <1>2, <1>7, UdpSentB DEF UdpInv
<1>9. Carried(sessionB, Without(outgoingB, i), sessionA,
              Append(arrivedA, outgoingB[i]), strangeA, network)
  BY <1>1, <1>3, <1>4, CarriedByNetwork DEF UdpInv
<1>10. /\ Carried(sessionB', outgoingB', sessionA', arrivedA', strangeA', network')
       /\ Carried(sessionA', outgoingA', sessionB', arrivedB', strangeB', network')
  BY <1>2, <1>6, <1>9 DEF UdpInv
<1>11. ASSUME 0 \notin DatagramSizes
       PROVE  Runs(arrivedA') /\ Runs(outgoingB')
  BY <1>1, <1>2, <1>3, <1>4, <1>6, <1>11, RunsKept DEF UdpInv
<1>12. 0 \notin DatagramSizes =>
            /\ UB!FirstInv' /\ UA!FirstInv'
            /\ Runs(arrivedB') /\ Runs(outgoingB')
            /\ Runs(arrivedA') /\ Runs(outgoingA')
  BY <1>2, <1>6, <1>8, <1>11 DEF UdpInv
<1> QED BY <1>6, <1>8, <1>10, <1>12 DEF UdpInv

\* loses one that is not kept in order,
LEMMA UdpLosesB ==
  ASSUME UdpInv, network # "ideal",
         NEW i \in Deliverable(outgoingB),
         outgoingB' = RemoveAt(outgoingB, i),
         UNCHANGED <<sessionB, arrivedB, headB, strangeB, sessionA, arrivedA, outgoingA,
                     headA, strangeA, network>>
  PROVE  UdpInv'
<1>1. i \in DOMAIN outgoingB
  BY DEF Deliverable
<1>2. /\ sessionB' = sessionB /\ arrivedB' = arrivedB /\ headB' = headB
      /\ strangeB' = strangeB /\ network' = network
      /\ sessionA' = sessionA /\ arrivedA' = arrivedA /\ outgoingA' = outgoingA
      /\ headA' = headA /\ strangeA' = strangeA
      /\ outgoingB' = Without(outgoingB, i)
  BY UdpBytes
<1>3. /\ arrivedB \in Seq(Seq(Byte)) /\ outgoingB \in Seq(Seq(Byte))
      /\ Reached(sessionB) \in Nat /\ Passed(sessionB) \in Nat
  BY UdpKnowledgeB DEF UdpInv
<1>4. /\ arrivedA \in Seq(Seq(Byte)) /\ outgoingA \in Seq(Seq(Byte))
      /\ Reached(sessionA) \in Nat /\ Passed(sessionA) \in Nat
  BY UdpKnowledgeA DEF UdpInv
<1>5. outgoingB' \in Seq(Seq(Byte))
  BY <1>1, <1>2, <1>3, WithoutMembers
<1>6. UB!SessionInv' /\ (UB!FirstInv => UB!FirstInv')
  BY <1>2, <1>5, UdpSentB DEF UdpInv
<1>7. UA!SessionInv' /\ (UA!FirstInv => UA!FirstInv')
  BY <1>2, <1>4, UdpSentA DEF UdpInv
<1>8. Carried(sessionB, Without(outgoingB, i), sessionA, arrivedA, strangeA, network)
  BY <1>1, <1>3, <1>4, CarriedAfterLoss DEF UdpInv
<1>9. /\ Carried(sessionB', outgoingB', sessionA', arrivedA', strangeA', network')
      /\ Carried(sessionA', outgoingA', sessionB', arrivedB', strangeB', network')
  BY <1>2, <1>8 DEF UdpInv
<1>10. 0 \notin DatagramSizes => Runs(outgoingB')
  BY <1>1, <1>2, <1>3, RunsKept DEF UdpInv
<1>11. 0 \notin DatagramSizes =>
            /\ UB!FirstInv' /\ UA!FirstInv'
            /\ Runs(arrivedB') /\ Runs(outgoingB')
            /\ Runs(arrivedA') /\ Runs(outgoingA')
  BY <1>2, <1>6, <1>7, <1>10 DEF UdpInv
<1> QED BY <1>6, <1>7, <1>9, <1>11 DEF UdpInv

\* or delivers it and keeps it.
LEMMA UdpRepeatsB ==
  ASSUME UdpInv, network = "repeating",
         NEW i \in Deliverable(outgoingB), A!Arrives(outgoingB[i]),
         UNCHANGED <<sessionB, arrivedB, outgoingB, headB, strangeB, network>>
  PROVE  UdpInv'
<1>1. i \in DOMAIN outgoingB
  BY DEF Deliverable
<1>2. /\ sessionB' = sessionB /\ arrivedB' = arrivedB /\ headB' = headB
      /\ outgoingB' = outgoingB /\ strangeB' = strangeB /\ network' = network
  OBVIOUS
<1>3. arrivedB \in Seq(Seq(Byte)) /\ outgoingB \in Seq(Seq(Byte))
  BY UdpKnowledgeB DEF UdpInv
<1>4. arrivedA \in Seq(Seq(Byte)) /\ outgoingA \in Seq(Seq(Byte))
  BY UdpKnowledgeA DEF UdpInv
<1>5. outgoingB[i] \in Seq(Byte)
  BY <1>1, <1>3
<1>6. /\ UA!SessionInv' /\ (UA!FirstInv => UA!FirstInv')
      /\ sessionA' = sessionA /\ arrivedA' = Append(arrivedA, outgoingB[i])
      /\ outgoingA' = outgoingA /\ strangeA' = strangeA
  BY <1>5, UdpArrivesA DEF UdpInv
<1>7. UB!SessionInv' /\ (UB!FirstInv => UB!FirstInv')
  BY <1>2, <1>3, UdpSentB DEF UdpInv
<1>8. /\ Carried(sessionB', outgoingB', sessionA', arrivedA', strangeA', network')
      /\ Carried(sessionA', outgoingA', sessionB', arrivedB', strangeB', network')
  BY <1>2 DEF Carried
<1>9. 0 \notin DatagramSizes => Runs(arrivedA')
  BY <1>1, <1>3, <1>4, <1>6, RunsKept DEF UdpInv
<1>10. 0 \notin DatagramSizes =>
            /\ UB!FirstInv' /\ UA!FirstInv'
            /\ Runs(arrivedB') /\ Runs(outgoingB')
            /\ Runs(arrivedA') /\ Runs(outgoingA')
  BY <1>2, <1>6, <1>7, <1>9 DEF UdpInv
<1> QED BY <1>6, <1>7, <1>8, <1>10 DEF UdpInv

\* Whatever happens to either end or between them.
LEMMA UdpStep ==
  ASSUME UdpInv, [Next]_vars
  PROVE  UdpInv'
<1>1. CASE StepA
  BY <1>1, UdpStepA DEF StepA, endB
<1>2. CASE StepB
  BY <1>2, UdpStepB DEF StepB, endA
<1>3. CASE Network
  <2>1. CASE DeliversToA \/ DeliversToB
    BY <2>1, UdpDeliversA, UdpDeliversB
  <2>2. CASE Loses
    BY <2>2, UdpLosesA, UdpLosesB DEF Loses
  <2>3. CASE Repeats
    BY <2>3, UdpRepeatsA, UdpRepeatsB DEF Repeats, endA, endB
  <2> QED BY <1>3, <2>1, <2>2, <2>3 DEF Network
<1>4. CASE Interruption
  BY <1>4, UdpStepA, UdpStepB DEF Interruption, endA, endB
<1>5. CASE UNCHANGED vars
  <2>1. /\ sessionA' = sessionA /\ arrivedA' = arrivedA /\ outgoingA' = outgoingA
        /\ headA' = headA /\ strangeA' = strangeA
        /\ sessionB' = sessionB /\ arrivedB' = arrivedB /\ outgoingB' = outgoingB
        /\ headB' = headB /\ strangeB' = strangeB /\ network' = network
    BY <1>5 DEF vars, endA, endB
  <2>2. outgoingA \in Seq(Seq(Byte)) /\ outgoingB \in Seq(Seq(Byte))
    BY UdpKnowledgeA, UdpKnowledgeB DEF UdpInv
  <2>3. UA!SessionInv' /\ (UA!FirstInv => UA!FirstInv')
    BY <2>1, <2>2, UdpSentA DEF UdpInv
  <2>4. UB!SessionInv' /\ (UB!FirstInv => UB!FirstInv')
    BY <2>1, <2>2, UdpSentB DEF UdpInv
  <2> QED BY <2>1, <2>3, <2>4 DEF UdpInv
<1> QED BY <1>1, <1>2, <1>3, <1>4, <1>5 DEF Next

\* The two ends keep the invariant of the pair.
THEOREM DatagramsKept == Spec => []UdpInv
<1>1. Init => UdpInv
  BY UdpInit
<1>2. UdpInv /\ [Next]_vars => UdpInv'
  BY UdpStep
<1> QED BY <1>1, <1>2, PTL DEF Spec

-----------------------------------------------------------------------------
(* What the invariant says of the two tests.                               *)

\* Of what testers send, verifying the first byte of each datagram finds whatever
\* verifying all bytes would (UdpSession.cpp:52, Session.cpp:198).
THEOREM FirstIsEnough == Spec => []FirstSuffices
<1>1. UdpInv => FirstSuffices
  BY UdpVerdictA, UdpVerdictB DEF UdpInv, FirstSuffices
<1> QED BY <1>1, DatagramsKept, PTL

\* Ends with slices that fit lose nothing by themselves (UdpSession.cpp:21, 97).
THEOREM NothingIsCutOff == Spec => []NothingCutOff
<1>1. ASSUME NEW st \in SessionState, QueueInv(st), NEW out \in Seq(Seq(Byte)),
             NEW other \in SessionState, QueueInv(other), NEW in \in Seq(Seq(Byte)),
             NEW strange, Reached(other) \in Nat,
             Carried(st, out, other, in, strange, network)
      PROVE  Conserved(st, other, out, in, strange)
  <2>1. /\ Sent(st) = Passed(st) /\ Received(other) = Reached(other)
        /\ Bytes(in) = Volume(in) /\ Bytes(out) = Volume(out)
    BY <1>1, UdpBytes, UdpCounts
  <2> QED BY <1>1, <2>1 DEF Carried, Conserved
<1>2. ASSUME UdpInv PROVE NothingCutOff
  <2>1. /\ sessionA \in SessionState /\ QueueInv(sessionA)
        /\ arrivedA \in Seq(Seq(Byte)) /\ outgoingA \in Seq(Seq(Byte))
        /\ Reached(sessionA) \in Nat
    BY <1>2, UdpKnowledgeA DEF UdpInv
  <2>2. /\ sessionB \in SessionState /\ QueueInv(sessionB)
        /\ arrivedB \in Seq(Seq(Byte)) /\ outgoingB \in Seq(Seq(Byte))
        /\ Reached(sessionB) \in Nat
    BY <1>2, UdpKnowledgeB DEF UdpInv
  <2>3. /\ Conserved(sessionA, sessionB, outgoingA, arrivedB, strangeB)
        /\ Conserved(sessionB, sessionA, outgoingB, arrivedA, strangeA)
    BY <1>1, <1>2, <2>1, <2>2 DEF UdpInv
  <2> QED BY <2>3 DEF NothingCutOff
<1> QED BY <1>2, DatagramsKept, PTL

\* Unless the network repeats datagrams, an end that succeeds has received its size and
\* nothing that its peer did not send (UdpSession.cpp:147).
THEOREM SuccessesAreExact == Spec => []SuccessIsExact
<1>1. ASSUME NEW st \in SessionState, Reached(st) \in Nat,
             NEW other \in SessionState, QueueInv(other), NEW out \in Seq(Seq(Byte)),
             NEW in \in Seq(Seq(Byte)), NEW strange, Passed(other) \in Nat,
             Passed(other) <= other.configuration.size,
             (Succeeded(st) /\ Receives(st)) =>
                /\ st.configuration.size <= st.received
                /\ Reached(st) = st.received,
             Carried(other, out, st, in, strange, network)
      PROVE  SuccessExact(st, other)
  <2>1. Sent(other) = Passed(other)
    BY <1>1, UdpCounts
  <2>2. Volume(in) \in Nat /\ Volume(out) \in Nat
    BY Datagram, VolumeType
  <2>3. ASSUME network # "repeating" PROVE Reached(st) <= Passed(other)
    <3>1. Reached(st) + Volume(in) + Volume(out) <= Passed(other)
      BY <1>1, <2>3 DEF Carried
    <3> QED BY <1>1, <2>2, <3>1
  <2> QED BY <1>1, <2>1, <2>3 DEF SuccessExact
<1>2. ASSUME UdpInv PROVE SuccessIsExact
  <2>1. /\ sessionA \in SessionState /\ QueueInv(sessionA)
        /\ arrivedA \in Seq(Seq(Byte)) /\ outgoingA \in Seq(Seq(Byte))
        /\ Reached(sessionA) \in Nat /\ Passed(sessionA) \in Nat
        /\ Passed(sessionA) <= sessionA.configuration.size
        /\ (Succeeded(sessionA) /\ Receives(sessionA)) =>
                /\ sessionA.configuration.size <= sessionA.received
                /\ Reached(sessionA) = sessionA.received
    BY <1>2, UdpKnowledgeA, UdpVerdictA DEF UdpInv
  <2>2. /\ sessionB \in SessionState /\ QueueInv(sessionB)
        /\ arrivedB \in Seq(Seq(Byte)) /\ outgoingB \in Seq(Seq(Byte))
        /\ Reached(sessionB) \in Nat /\ Passed(sessionB) \in Nat
        /\ Passed(sessionB) <= sessionB.configuration.size
        /\ (Succeeded(sessionB) /\ Receives(sessionB)) =>
                /\ sessionB.configuration.size <= sessionB.received
                /\ Reached(sessionB) = sessionB.received
    BY <1>2, UdpKnowledgeB, UdpVerdictB DEF UdpInv
  <2>3. SuccessExact(sessionA, sessionB)
    BY <1>1, <1>2, <2>1, <2>2 DEF UdpInv
  <2>4. SuccessExact(sessionB, sessionA)
    BY <1>1, <1>2, <2>1, <2>2 DEF UdpInv
  <2> QED BY <2>3, <2>4 DEF SuccessIsExact
<1> QED BY <1>2, DatagramsKept, PTL
=============================================================================
