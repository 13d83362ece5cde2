----------------------------- MODULE SeqLemmas -----------------------------
(***************************************************************************)
(* What Append and Tail do to the set of a sequence's elements, for the    *)
(* queues of Go slices that the modules model; where the elements of a     *)
(* flattened sequence come from, for the messages and rows that the code   *)
(* builds from the stored ones; and where they go when one is inserted or  *)
(* removed.                                                                *)
(***************************************************************************)
EXTENDS Integers, Sequences, SequencesExt, FiniteSetTheorems,
        SequenceTheorems, WellFoundedInduction, TLAPS

(* Appending adds the one element.                                         *)
LEMMA ToSetOfAppend ==
  ASSUME NEW S, NEW q \in Seq(S), NEW e \in S
  PROVE  ToSet(Append(q, e)) = ToSet(q) \cup {e}
<1>1. /\ DOMAIN q = 1..Len(q)
      /\ DOMAIN Append(q, e) = 1..(Len(q) + 1)
      /\ Len(q) \in Nat
  OBVIOUS
<1>2. /\ \A i \in 1..Len(q) : Append(q, e)[i] = q[i]
      /\ Append(q, e)[Len(q) + 1] = e
  OBVIOUS
<1>3. 1..(Len(q) + 1) = 1..Len(q) \cup {Len(q) + 1}
  BY <1>1
<1> QED
  BY <1>1, <1>2, <1>3 DEF ToSet

(* Appending an element that is not there yet keeps a sequence free of     *)
(* repetitions.                                                            *)
LEMMA InjectiveAppend ==
  ASSUME NEW S, NEW q \in Seq(S), NEW e \in S,
         IsInjective(q), e \notin ToSet(q)
  PROVE  IsInjective(Append(q, e))
<1>1. /\ DOMAIN q = 1..Len(q)
      /\ DOMAIN Append(q, e) = 1..(Len(q) + 1)
      /\ Len(q) \in Nat
  OBVIOUS
<1>2. /\ \A i \in 1..Len(q) : Append(q, e)[i] = q[i] /\ q[i] # e
      /\ Append(q, e)[Len(q) + 1] = e
  BY <1>1 DEF ToSet
<1> QED
  BY <1>1, <1>2 DEF IsInjective

(* The head is an element, and popping it takes out nothing else.          *)
LEMMA ToSetOfTail ==
  ASSUME NEW S, NEW q \in Seq(S), q # << >>, IsInjective(q)
  PROVE  /\ Head(q) \in ToSet(q)
         /\ ToSet(Tail(q)) = ToSet(q) \ {Head(q)}
         /\ IsInjective(Tail(q))
<1>1. /\ Len(q) \in Nat \ {0}
      /\ DOMAIN q = 1..Len(q)
      /\ DOMAIN Tail(q) = 1..(Len(q) - 1)
      /\ Head(q) = q[1]
      /\ \A i \in 1..(Len(q) - 1) : Tail(q)[i] = q[i + 1]
  OBVIOUS
<1>2. Head(q) \in ToSet(q)
  BY <1>1 DEF ToSet
<1>3. ASSUME NEW x \in ToSet(Tail(q)) PROVE x \in ToSet(q) \ {Head(q)}
  <2>1. PICK i \in 1..(Len(q) - 1) : x = q[i + 1]
    BY <1>1, <1>3 DEF ToSet
  <2>2. i + 1 \in DOMAIN q /\ i + 1 # 1 /\ 1 \in DOMAIN q
    BY <1>1
  <2> QED
    BY <1>1, <2>1, <2>2 DEF ToSet, IsInjective
<1>4. ASSUME NEW x \in ToSet(q) \ {Head(q)} PROVE x \in ToSet(Tail(q))
  <2>1. PICK i \in 1..Len(q) : x = q[i]
    BY <1>1, <1>4 DEF ToSet
  <2>2. i # 1
    BY <1>1, <1>4, <2>1
  <2>3. i - 1 \in 1..(Len(q) - 1) /\ Tail(q)[i - 1] = x
    <3>1. i - 1 \in 1..(Len(q) - 1) /\ (i - 1) + 1 = i
      BY <1>1, <2>2
    <3> QED
      BY <1>1, <2>1, <3>1
  <2> QED
    BY <1>1, <2>3 DEF ToSet
<1>5. IsInjective(Tail(q))
  <2> SUFFICES ASSUME NEW i \in 1..(Len(q) - 1), NEW j \in 1..(Len(q) - 1),
                      Tail(q)[i] = Tail(q)[j]
               PROVE  i = j
    BY <1>1 DEF IsInjective
  <2>1. i + 1 \in DOMAIN q /\ j + 1 \in DOMAIN q /\ q[i + 1] = q[j + 1]
    BY <1>1
  <2>2. i + 1 = j + 1
    BY <2>1 DEF IsInjective
  <2> QED
    BY <2>2
<1> QED
  BY <1>2, <1>3, <1>4, <1>5

(* Popping the head of any sequence adds no element.                       *)
LEMMA TailAddsNothing ==
  ASSUME NEW S, NEW q \in Seq(S), q # << >>
  PROVE  Head(q) \in ToSet(q) /\ ToSet(Tail(q)) \subseteq ToSet(q)
<1>1. /\ Len(q) \in Nat \ {0}
      /\ DOMAIN q = 1..Len(q)
      /\ DOMAIN Tail(q) = 1..(Len(q) - 1)
      /\ Head(q) = q[1]
      /\ \A i \in 1..(Len(q) - 1) : Tail(q)[i] = q[i + 1] /\ i + 1 \in 1..Len(q)
  OBVIOUS
<1> QED
  BY <1>1 DEF ToSet

(* The empty sequence has no elements and no repetitions.                  *)
LEMMA EmptySequence == ToSet(<< >>) = {} /\ IsInjective(<< >>)
BY DEF ToSet, IsInjective

(* A sequence with one element more.                                       *)
LEMMA AppendOne ==
  ASSUME NEW S, NEW q \in Seq(S), NEW e \in S
  PROVE  /\ Append(q, e) \in Seq(S)
         /\ Len(q) \in Nat /\ Len(Append(q, e)) = Len(q) + 1
         /\ DOMAIN q = 1..Len(q)
         /\ DOMAIN Append(q, e) = 1..(Len(q) + 1)
         /\ \A i \in DOMAIN q : Append(q, e)[i] = q[i]
         /\ Append(q, e)[Len(q) + 1] = e
OBVIOUS

-----------------------------------------------------------------------------
(* Recursion.  A fact about every depth is proved by the least depth at    *)
(* which it fails.                                                         *)

(* A set of naturals has a least element.                                  *)
LEMMA Least ==
  ASSUME NEW T, T \subseteq Nat, T # {}
  PROVE  \E n \in T : \A k \in T : n <= k
<1> DEFINE R == OpToRel(<, Nat)
<1>1. IsWellFoundedOn(R, Nat)
  BY NatLessThanWellFounded
<1>2. \A k, n \in Nat : <<k, n>> \in R <=> k < n
  BY DEF OpToRel
<1> HIDE DEF R
<1>3. PICK n \in T : \A k \in T : <<k, n>> \notin R
  BY <1>1, WFMin
<1>4. ASSUME NEW k \in T PROVE n <= k
  <2>1. k \in Nat /\ n \in Nat /\ ~(k < n)
    BY <1>2, <1>3
  <2> QED
    BY <2>1
<1> QED
  BY <1>4

(* What one sequence and then another make.                                *)
LEMMA Concatenated ==
  ASSUME NEW S, NEW q \in Seq(S), NEW r \in Seq(S)
  PROVE  /\ q \o r \in Seq(S)
         /\ Len(q) \in Nat /\ Len(r) \in Nat /\ Len(q \o r) = Len(q) + Len(r)
         /\ DOMAIN q = 1..Len(q) /\ DOMAIN r = 1..Len(r)
         /\ DOMAIN (q \o r) = 1..(Len(q) + Len(r))
         /\ \A i \in DOMAIN q : (q \o r)[i] = q[i]
         /\ \A j \in DOMAIN r : (q \o r)[Len(q) + j] = r[j]
OBVIOUS

(* A sequence of sequences flattened up to each of its elements ...        *)
Flattening(f, seqs, S) ==
  /\ f \in [DOMAIN seqs -> Seq(S)]
  /\ \A i \in DOMAIN seqs :
       f[i] = IF i = 1 THEN seqs[i] ELSE f[i - 1] \o seqs[i]

(* ... exists.                                                             *)
LEMMA FlatteningExists ==
  ASSUME NEW S, NEW N \in Nat, NEW seqs \in [1..N -> Seq(S)]
  PROVE  \E f : Flattening(f, seqs, S)
<1> DEFINE Runs(n) == \E f \in [1..n -> Seq(S)] :
             \A i \in 1..n : f[i] = IF i = 1 THEN seqs[i] ELSE f[i - 1] \o seqs[i]
           T == {n \in 0..N : ~Runs(n)}
<1>0. ASSUME Runs(N) PROVE \E f : Flattening(f, seqs, S)
  <2>1. PICK f \in [1..N -> Seq(S)] :
          \A i \in 1..N : f[i] = IF i = 1 THEN seqs[i] ELSE f[i - 1] \o seqs[i]
    BY <1>0
  <2>2. DOMAIN seqs = 1..N
    OBVIOUS
  <2>3. Flattening(f, seqs, S)
    BY <2>1, <2>2 DEF Flattening
  <2> QED
    BY <2>3
<1> SUFFICES ASSUME T # {} PROVE FALSE
  <2>1. T = {} => Runs(N)
    <3> HIDE DEF Runs
    <3> QED
      OBVIOUS
  <2> HIDE DEF Runs, T
  <2> QED
    BY <1>0, <2>1
<1>1. PICK n \in T : \A k \in T : n <= k
  <2> HIDE DEF Runs
  <2>1. T \subseteq Nat
    OBVIOUS
  <2> QED
    BY <2>1, Least
<1>2. n # 0
  <2>1. Runs(0)
    <3> DEFINE f == [i \in 1..0 |-> <<>>]
    <3>1. f \in [1..0 -> Seq(S)]
      OBVIOUS
    <3>2. \A i \in 1..0 : f[i] = IF i = 1 THEN seqs[i] ELSE f[i - 1] \o seqs[i]
      <4>1. 1..0 = {}
        OBVIOUS
      <4> HIDE DEF f
      <4> QED
        BY <4>1
    <3> HIDE DEF f
    <3> QED
      BY <3>1, <3>2
  <2> HIDE DEF Runs
  <2> QED
    BY <2>1
<1>3. Runs(n - 1)
  <2> HIDE DEF Runs
  <2> QED
    BY <1>1, <1>2
<1>4. PICK f \in [1..(n - 1) -> Seq(S)] :
        \A i \in 1..(n - 1) : f[i] = IF i = 1 THEN seqs[i] ELSE f[i - 1] \o seqs[i]
  BY <1>3
<1> DEFINE last == IF n = 1 THEN seqs[n] ELSE f[n - 1] \o seqs[n]
           h == [i \in 1..n |-> IF i = n THEN last ELSE f[i]]
<1>5. n \in 1..N /\ seqs[n] \in Seq(S)
  BY <1>2
<1>6. last \in Seq(S)
  <2>1. CASE n = 1
    BY <1>5, <2>1
  <2>2. CASE n # 1
    <3>1. f[n - 1] \in Seq(S)
      BY <1>5, <2>2
    <3> QED
      BY <1>5, <2>2, <3>1, Concatenated
  <2> QED
    BY <2>1, <2>2
<1> HIDE DEF last
<1>7. h \in [1..n -> Seq(S)]
  BY <1>5, <1>6
<1>8. ASSUME NEW i \in 1..n
      PROVE  h[i] = IF i = 1 THEN seqs[i] ELSE h[i - 1] \o seqs[i]
  <2>1. CASE i = n
    <3>1. n # 1 => n - 1 \in 1..(n - 1) /\ n - 1 \in 1..n /\ n - 1 # n
      BY <1>5
    <3>2. n # 1 => h[n - 1] = f[n - 1]
      BY <3>1
    <3>3. h[n] = last
      BY <1>5
    <3> QED
      BY <2>1, <3>2, <3>3 DEF last
  <2>2. CASE i # n
    <3>1. i \in 1..(n - 1) /\ (i # 1 => i - 1 \in 1..n /\ i - 1 # n)
      BY <1>5, <2>2
    <3>2. h[i] = f[i] /\ (i # 1 => h[i - 1] = f[i - 1])
      BY <2>2, <3>1
    <3> HIDE DEF h
    <3> QED
      BY <1>4, <3>1, <3>2
  <2> QED
    BY <2>1, <2>2
<1>9. Runs(n)
  <2> HIDE DEF h
  <2> QED
    BY <1>7, <1>8
<1> QED
  <2> HIDE DEF Runs
  <2> QED
    BY <1>9

(* FlattenSeq is the last of them, for a sequence that is not empty.       *)
LEMMA FlattenSeqIs ==
  ASSUME NEW S, NEW seqs \in Seq(Seq(S)), seqs # << >>
  PROVE  \E f : Flattening(f, seqs, S) /\ FlattenSeq(seqs) = f[Len(seqs)]
<1> DEFINE N == Len(seqs)
           D == 1..N
<1>1. N \in Nat /\ N # 0 /\ DOMAIN seqs = D /\ seqs \in [1..N -> Seq(S)]
  OBVIOUS
<1> DEFINE f == CHOOSE g : g = [i \in D |->
                  IF i = 1 THEN seqs[i] ELSE g[i - 1] \o seqs[i]]
<1>2. FlattenSeq(seqs) = f[N]
  BY <1>1 DEF FlattenSeq
<1>3. PICK e : Flattening(e, seqs, S)
  <2> HIDE DEF N
  <2> QED
    BY <1>1, FlatteningExists
<1>4. e = [i \in D |-> IF i = 1 THEN seqs[i] ELSE e[i - 1] \o seqs[i]]
  <2>1. e \in [D -> Seq(S)]
    BY <1>1, <1>3 DEF Flattening
  <2>2. ASSUME NEW i \in D
        PROVE  e[i] = IF i = 1 THEN seqs[i] ELSE e[i - 1] \o seqs[i]
    BY <1>1, <1>3 DEF Flattening
  <2> QED
    BY <2>1, <2>2
<1>5. f = [i \in D |-> IF i = 1 THEN seqs[i] ELSE f[i - 1] \o seqs[i]]
  <2> HIDE DEF D
  <2> QED
    BY <1>4
<1> HIDE DEF f
<1>6. \A i \in D : f[i] \in Seq(S)
  <2> DEFINE T == {i \in D : f[i] \notin Seq(S)}
  <2> SUFFICES ASSUME T # {} PROVE FALSE
    OBVIOUS
  <2>1. PICK n \in T : \A k \in T : n <= k
    <3>1. T \subseteq Nat
      BY <1>1
    <3> QED
      BY <3>1, Least
  <2>2. n \in D /\ f[n] = IF n = 1 THEN seqs[n] ELSE f[n - 1] \o seqs[n]
    BY <1>5
  <2>3. n # 1
    BY <1>1, <2>1, <2>2
  <2>4. n - 1 \in D /\ n - 1 \notin T
    BY <1>1, <2>1, <2>2, <2>3
  <2>5. f[n - 1] \in Seq(S) /\ seqs[n] \in Seq(S)
    BY <1>1, <2>2, <2>4
  <2>6. f[n - 1] \o seqs[n] \in Seq(S)
    BY <2>5, Concatenated
  <2> QED
    BY <2>2, <2>3, <2>6
<1>7. f \in [DOMAIN seqs -> Seq(S)]
  BY <1>1, <1>5, <1>6
<1>8. Flattening(f, seqs, S)
  BY <1>1, <1>5, <1>7 DEF Flattening
<1> QED
  BY <1>2, <1>8

(* Where each element's part begins in the flattened sequence: the parts   *)
(* follow one another and there is nothing else.                           *)
Laid(start, seqs, out) ==
  /\ start \in [DOMAIN seqs -> Nat]
  /\ \A i \in DOMAIN seqs : \A j \in DOMAIN seqs[i] :
       /\ start[i] + j \in DOMAIN out
       /\ out[start[i] + j] = seqs[i][j]
  /\ \A k \in DOMAIN out : \E i \in DOMAIN seqs : \E j \in DOMAIN seqs[i] :
       k = start[i] + j
  /\ \A i, h \in DOMAIN seqs : i < h => start[i] + Len(seqs[i]) <= start[h]

(* A flattened sequence is laid out that way.                              *)
LEMMA Flattened ==
  ASSUME NEW S, NEW seqs \in Seq(Seq(S))
  PROVE  /\ FlattenSeq(seqs) \in Seq(S)
         /\ \E start : Laid(start, seqs, FlattenSeq(seqs))
<1> DEFINE N == Len(seqs)
<1>1. N \in Nat /\ DOMAIN seqs = 1..N /\ \A i \in 1..N : seqs[i] \in Seq(S)
  OBVIOUS
<1>2. CASE seqs = << >>
  <2>1. FlattenSeq(seqs) = << >>
    BY <1>2 DEF FlattenSeq
  <2>2. Laid([i \in DOMAIN seqs |-> 0], seqs, << >>)
    BY <1>2 DEF Laid
  <2>3. << >> \in Seq(S)
    OBVIOUS
  <2> QED
    BY <2>1, <2>2, <2>3
<1>3. CASE seqs # << >>
  <2>1. PICK f : Flattening(f, seqs, S) /\ FlattenSeq(seqs) = f[N]
    BY <1>3, FlattenSeqIs
  <2>1a. N # 0
    BY <1>3
  <2> HIDE DEF N
  <2>2. /\ \A i \in 1..N : f[i] \in Seq(S)
        /\ \A i \in 1..N : f[i] = IF i = 1 THEN seqs[i] ELSE f[i - 1] \o seqs[i]
        /\ N \in 1..N
    <3>1. f \in [1..N -> Seq(S)] /\ \A i \in 1..N :
            f[i] = IF i = 1 THEN seqs[i] ELSE f[i - 1] \o seqs[i]
      BY <1>1, <2>1 DEF Flattening
    <3> QED
      BY <1>1, <2>1a, <3>1
  <2> DEFINE start == [i \in 1..N |-> IF i = 1 THEN 0 ELSE Len(f[i - 1])]
  <2>3. ASSUME NEW i \in 1..N
        PROVE  start[i] \in Nat /\ (i # 1 => i - 1 \in 1..N /\ start[i] = Len(f[i - 1]))
    <3>1. i # 1 => i - 1 \in 1..N
      BY <1>1
    <3>2. i # 1 => Len(f[i - 1]) \in Nat
      BY <2>2, <3>1
    <3> QED
      BY <3>1, <3>2
  <2>3a. start \in [1..N -> Nat]
    <3>1. start = [i \in 1..N |-> start[i]]
      OBVIOUS
    <3> HIDE DEF start
    <3> QED
      BY <2>3, <3>1
  <2>3b. start[1] = 0
    BY <2>2, <1>1
  <2> HIDE DEF start
  \* Up to i, the flattening is that up to i - 1 and then the part of i.
  <2>4. ASSUME NEW i \in 1..N
        PROVE  /\ Len(f[i]) = start[i] + Len(seqs[i])
               /\ DOMAIN f[i] = 1..Len(f[i]) /\ DOMAIN seqs[i] = 1..Len(seqs[i])
               /\ Len(f[i]) \in Nat /\ Len(seqs[i]) \in Nat
               /\ \A j \in DOMAIN seqs[i] : f[i][start[i] + j] = seqs[i][j]
               /\ i # 1 => \A k \in DOMAIN f[i - 1] : f[i][k] = f[i - 1][k]
    <3>1. CASE i = 1
      <4>1. f[i] = seqs[i] /\ seqs[i] \in Seq(S)
        BY <1>1, <2>2, <3>1
      <4> QED
        BY <2>3b, <3>1, <4>1
    <3>2. CASE i # 1
      <4>1. i - 1 \in 1..N /\ start[i] = Len(f[i - 1]) /\ f[i - 1] \in Seq(S)
            /\ seqs[i] \in Seq(S) /\ f[i] = f[i - 1] \o seqs[i]
            /\ f[i] \in Seq(S)
        BY <1>1, <2>2, <2>3, <3>2
      <4> DEFINE q == f[i - 1]
                 r == seqs[i]
      <4>2. q \in Seq(S) /\ r \in Seq(S) /\ f[i] = q \o r /\ start[i] = Len(q)
        BY <4>1
      <4> HIDE DEF q, r
      <4>3. /\ Len(q) \in Nat /\ Len(r) \in Nat /\ Len(f[i]) = Len(q) + Len(r)
            /\ DOMAIN f[i] = 1..(Len(q) + Len(r)) /\ DOMAIN r = 1..Len(r)
            /\ \A k \in DOMAIN q : f[i][k] = q[k]
            /\ \A j \in DOMAIN r : f[i][Len(q) + j] = r[j]
        BY <4>2, Concatenated
      <4>4. /\ Len(f[i]) = start[i] + Len(r) /\ Len(f[i]) \in Nat
            /\ DOMAIN f[i] = 1..Len(f[i])
        BY <4>2, <4>3
      <4>5. \A j \in DOMAIN r : f[i][start[i] + j] = r[j]
        BY <4>2, <4>3
      <4> QED
        BY <4>3, <4>4, <4>5 DEF q, r
    <3> QED
      BY <3>1, <3>2
  \* What is in the flattening up to i stays in the next ones.
  <2>5. ASSUME NEW i \in 1..N, NEW h \in 1..N, i <= h
        PROVE  /\ Len(f[i]) <= Len(f[h])
               /\ \A k \in DOMAIN f[i] : f[h][k] = f[i][k]
    <3> DEFINE Good(m) == /\ Len(f[i]) <= Len(f[m])
                          /\ \A k \in DOMAIN f[i] : f[m][k] = f[i][k]
               T == {m \in i..N : ~Good(m)}
    <3> SUFFICES ASSUME T # {} PROVE FALSE
      <4>1. h \in i..N
        BY <1>1, <2>5
      <4>2. T = {} => Good(h)
        <5> HIDE DEF Good
        <5> QED
          BY <4>1
      <4> HIDE DEF T
      <4> QED
        BY <4>2
    <3>1. PICK m \in T : \A k \in T : m <= k
      <4> HIDE DEF Good
      <4>1. T \subseteq Nat
        OBVIOUS
      <4> QED
        BY <4>1, Least
    <3>2. m \in i..N /\ ~Good(m)
      BY <3>1
    <3>3. m # i
      BY <2>4, <3>2
    <3>4. m - 1 \in i..N /\ m - 1 \in 1..N /\ m \in 1..N /\ m # 1
      <4>1. i \in Nat /\ m \in Nat /\ i <= m /\ m <= N /\ 1 <= i /\ i <= N
        BY <1>1, <3>2
      <4> QED
        BY <1>1, <3>3, <4>1
    <3>5. Good(m - 1)
      <4>1. m - 1 \notin T
        BY <3>1, <3>4
      <4> HIDE DEF Good
      <4> QED
        BY <3>4, <4>1
    <3>6. Len(f[m - 1]) <= Len(f[m]) /\ DOMAIN f[i] \subseteq DOMAIN f[m - 1]
          /\ \A k \in DOMAIN f[m - 1] : f[m][k] = f[m - 1][k]
      <4>1. Len(f[m]) = Len(f[m - 1]) + Len(seqs[m]) /\ Len(f[m - 1]) \in Nat
            /\ Len(seqs[m]) \in Nat /\ Len(f[i]) \in Nat
        BY <2>3, <2>4, <3>4
      <4>2. DOMAIN f[i] = 1..Len(f[i]) /\ DOMAIN f[m - 1] = 1..Len(f[m - 1])
        BY <2>4, <3>4
      <4>3. Len(f[i]) <= Len(f[m - 1])
        BY <3>5
      <4>4. \A k \in DOMAIN f[m - 1] : f[m][k] = f[m - 1][k]
        BY <2>4, <3>4
      <4>5. Len(f[m - 1]) <= Len(f[m])
        <5>1. \A a, b \in Nat : a <= a + b
          OBVIOUS
        <5> HIDE DEF T
        <5> QED
          BY <4>1, <5>1, Zenon
      <4>6. DOMAIN f[i] \subseteq DOMAIN f[m - 1]
        BY <4>1, <4>2, <4>3
      <4> QED
        BY <4>4, <4>5, <4>6
    <3>7. Good(m)
      <4>1. Len(f[i]) \in Nat /\ Len(f[m]) \in Nat /\ Len(f[m - 1]) \in Nat
        BY <2>4, <3>4
      <4> QED
        BY <3>5, <3>6, <4>1
    <3> QED
      BY <3>2, <3>7
  <2> DEFINE out == FlattenSeq(seqs)
  <2>6. out = f[N] /\ out \in Seq(S) /\ DOMAIN out = 1..Len(f[N])
    BY <2>1, <2>2, <2>4
  <2> HIDE DEF out
  <2>7. ASSUME NEW i \in 1..N, NEW j \in DOMAIN seqs[i]
        PROVE  start[i] + j \in DOMAIN out /\ out[start[i] + j] = seqs[i][j]
    <3>1. start[i] + j \in DOMAIN f[i]
      BY <2>3, <2>4
    <3>2. Len(f[i]) <= Len(f[N]) /\ f[N][start[i] + j] = f[i][start[i] + j]
      BY <1>1, <2>2, <2>5, <3>1
    <3> QED
      BY <2>2, <2>4, <2>6, <3>1, <3>2
  <2>8. ASSUME NEW k \in DOMAIN out
        PROVE  \E i \in 1..N : \E j \in DOMAIN seqs[i] : k = start[i] + j
    <3> DEFINE T == {i \in 1..N : k <= Len(f[i])}
    <3>1. T # {} /\ T \subseteq Nat /\ k \in 1..Len(f[N])
      BY <2>2, <2>4, <2>6
    <3>2. PICK i \in T : \A h \in T : i <= h
      BY <3>1, Least
    <3>3. i \in 1..N /\ k <= Len(f[i]) /\ k \in Nat
      BY <3>1, <3>2, <2>2, <2>4
    <3>4. start[i] < k /\ start[i] \in Nat
      <4>1. CASE i = 1
        BY <2>3b, <3>1, <4>1, <2>2, <2>4
      <4>2. CASE i # 1
        <5>1. i - 1 \in 1..N /\ start[i] = Len(f[i - 1]) /\ Len(f[i - 1]) \in Nat
          BY <2>3, <2>4, <3>3, <4>2
        <5>2. i - 1 \notin T
          BY <3>2, <3>3
        <5> QED
          BY <3>3, <5>1, <5>2
      <4> QED
        BY <4>1, <4>2
    <3>5. k - start[i] \in DOMAIN seqs[i] /\ k = start[i] + (k - start[i])
      BY <2>4, <3>3, <3>4
    <3> QED
      BY <3>3, <3>5
  <2>9. ASSUME NEW i \in 1..N, NEW h \in 1..N, i < h
        PROVE  start[i] + Len(seqs[i]) <= start[h]
    <3>1. h # 1 /\ h - 1 \in 1..N /\ i <= h - 1 /\ start[h] = Len(f[h - 1])
      BY <2>3, <2>9
    <3>2. Len(f[i]) <= Len(f[h - 1])
      BY <2>5, <3>1
    <3> QED
      BY <2>4, <3>1, <3>2
  <2>10. Laid(start, seqs, out)
    BY <1>1, <2>3a, <2>7, <2>8, <2>9 DEF Laid
  <2> QED
    BY <2>6, <2>10 DEF out
<1> QED
  BY <1>2, <1>3

(* A finite set as a sequence has all of its elements.                     *)
LEMMA SetToSeqIs ==
  ASSUME NEW T, IsFiniteSet(T)
  PROVE  /\ SetToSeq(T) \in Seq(T)
         /\ \A t \in T : \E j \in DOMAIN SetToSeq(T) : SetToSeq(T)[j] = t
<1> DEFINE n == Cardinality(T)
           s == SetToSeq(T)
<1>1. n \in Nat /\ IsFiniteSet(T) /\ ExistsBijection(1..n, T)
  BY FS_CardinalityType
<1>2. \E f \in [1..n -> T] : IsInjective(f)
  BY <1>1 DEF ExistsBijection, Bijection, Injection
<1>3. s \in [1..n -> T] /\ IsInjective(s)
  BY <1>2 DEF SetToSeq
<1>4. s \in Injection(1..n, T)
  BY <1>3 DEF Injection
<1>5. Cardinality(1..n) = n
  <2>1. Cardinality(1..n) = IF 1 > n THEN 0 ELSE n - 1 + 1
    BY <1>1, FS_Interval
  <2> HIDE DEF n
  <2> QED
    BY <1>1, <2>1
<1> HIDE DEF s
<1>6. s \in Surjection(1..n, T)
  BY <1>1, <1>4, <1>5, FS_Injection
<1>7. s \in Seq(T)
  BY <1>1, <1>3
<1>8. \A t \in T : \E j \in 1..n : s[j] = t
  BY <1>6 DEF Surjection
<1> QED
  BY <1>3, <1>7, <1>8 DEF s

(* The greatest of some indices, as SelectLastInSeq finds it.               *)
LEMMA Greatest ==
  ASSUME NEW n \in Nat, NEW T, T \subseteq 1..n, T # {}
  PROVE  Max(T) \in T /\ Max(T) \in 1..n /\ \A t \in T : t <= Max(T)
<1>1. PICK k \in {n - t : t \in T} : \A m \in {n - t : t \in T} : k <= m
  <2>1. \A t \in T : t \in Nat /\ n - t \in Nat
    OBVIOUS
  <2>2. {n - t : t \in T} \subseteq Nat /\ {n - t : t \in T} # {}
    BY <2>1
  <2> QED
    BY <2>2, Least
<1>2. PICK t \in T : k = n - t
  OBVIOUS
<1>3. \A u \in T : t >= u
  <2>1. ASSUME NEW u \in T PROVE t >= u
    <3>1. n - t <= n - u
      BY <1>1, <1>2
    <3> QED
      BY <3>1
  <2> QED
    BY <2>1
<1> QED
  BY <1>3 DEF Max

(* A sequence with an element less.                                        *)
LEMMA Removal ==
  ASSUME NEW S, NEW q \in Seq(S), NEW i \in 1..Len(q)
  PROVE  /\ RemoveAt(q, i) \in Seq(S) /\ Len(RemoveAt(q, i)) = Len(q) - 1
         /\ DOMAIN RemoveAt(q, i) = 1..(Len(q) - 1)
         /\ \A j \in 1..(Len(q) - 1) :
              RemoveAt(q, i)[j] = IF j < i THEN q[j] ELSE q[j + 1]
<1> DEFINE a == SubSeq(q, 1, i - 1)
           b == SubSeq(q, i + 1, Len(q))
<1>0. Len(q) \in Nat /\ DOMAIN q = 1..Len(q) /\ i \in Nat /\ i >= 1 /\ i <= Len(q)
  OBVIOUS
<1>1. \A j \in 1..(i - 1) : q[j] \in S
  BY <1>0
<1>2. \A j \in (i + 1)..Len(q) : q[j] \in S
  BY <1>0
<1>3. /\ a \in Seq(S)
      /\ Len(a) = IF 1 <= i - 1 THEN (i - 1) - 1 + 1 ELSE 0
      /\ \A j \in 1..((i - 1) - 1 + 1) : a[j] = q[1 + j - 1]
  BY <1>0, <1>1, SubSeqProperties
<1>4. /\ b \in Seq(S)
      /\ Len(b) = IF i + 1 <= Len(q) THEN Len(q) - (i + 1) + 1 ELSE 0
      /\ \A j \in 1..(Len(q) - (i + 1) + 1) : b[j] = q[(i + 1) + j - 1]
  BY <1>0, <1>2, SubSeqProperties
<1> HIDE DEF a, b
<1>5. Len(a) = i - 1 /\ \A j \in 1..(i - 1) : a[j] = q[j]
  BY <1>0, <1>3
<1>6. Len(b) = Len(q) - i /\ \A j \in 1..(Len(q) - i) : b[j] = q[j + i]
  <2>1. Len(q) - (i + 1) + 1 = Len(q) - i /\ (~(i + 1 <= Len(q)) => Len(q) - i = 0)
    <3>1. \A n, k \in Nat :
            k <= n => n - (k + 1) + 1 = n - k /\ (~(k + 1 <= n) => n - k = 0)
      OBVIOUS
    <3> QED
      BY <1>0, <3>1
  <2>2. \A j \in 1..(Len(q) - i) : (i + 1) + j - 1 = j + i
    BY <1>0
  <2> QED
    BY <1>4, <2>1, <2>2
<1>7. /\ a \o b \in Seq(S) /\ Len(a \o b) = Len(a) + Len(b)
      /\ \A j \in 1..(Len(a) + Len(b)) :
           (a \o b)[j] = IF j <= Len(a) THEN a[j] ELSE b[j - Len(a)]
  BY <1>3, <1>4, ConcatProperties
<1>8. ASSUME NEW j \in 1..(Len(q) - 1)
      PROVE  (a \o b)[j] = IF j < i THEN q[j] ELSE q[j + 1]
  <2>1. CASE j < i
    BY <1>0, <1>5, <1>6, <1>7, <2>1
  <2>2. CASE ~(j < i)
    <3>1. j - (i - 1) \in 1..(Len(q) - i) /\ (j - (i - 1)) + i = j + 1
      BY <1>0, <2>2
    <3>2. (a \o b)[j] = b[j - (i - 1)]
      BY <1>0, <1>5, <1>6, <1>7, <2>2
    <3> QED
      BY <1>6, <2>2, <3>1, <3>2
  <2> QED
    BY <2>1, <2>2
<1>9. Len(a \o b) = Len(q) - 1 /\ DOMAIN (a \o b) = 1..(Len(q) - 1)
  <2>1. DOMAIN (a \o b) = 1..Len(a \o b)
    BY <1>7
  <2>2. Len(a) + Len(b) = Len(q) - 1
    BY <1>0, <1>5, <1>6
  <2> QED
    BY <1>7, <2>1, <2>2
<1> QED
  BY <1>7, <1>8, <1>9 DEF RemoveAt, a, b

(* A sequence with an element more, in its midst.                          *)
LEMMA Insertion ==
  ASSUME NEW S, NEW q \in Seq(S), NEW i \in 1..(Len(q) + 1), NEW e \in S
  PROVE  /\ InsertAt(q, i, e) \in Seq(S) /\ Len(InsertAt(q, i, e)) = Len(q) + 1
         /\ DOMAIN InsertAt(q, i, e) = 1..(Len(q) + 1)
         /\ InsertAt(q, i, e)[i] = e
         /\ \A j \in 1..(Len(q) + 1) :
              InsertAt(q, i, e)[j] =
                IF j < i THEN q[j] ELSE IF j = i THEN e ELSE q[j - 1]
<1> DEFINE a == SubSeq(q, 1, i - 1)
           b == SubSeq(q, i, Len(q))
           c == a \o <<e>>
<1>0. /\ Len(q) \in Nat /\ DOMAIN q = 1..Len(q)
      /\ i \in Nat /\ i >= 1 /\ i <= Len(q) + 1
  OBVIOUS
<1>1. \A j \in 1..(i - 1) : q[j] \in S
  BY <1>0
<1>2. \A j \in i..Len(q) : q[j] \in S
  BY <1>0
<1>3. /\ a \in Seq(S)
      /\ Len(a) = IF 1 <= i - 1 THEN (i - 1) - 1 + 1 ELSE 0
      /\ \A j \in 1..((i - 1) - 1 + 1) : a[j] = q[1 + j - 1]
  BY <1>0, <1>1, SubSeqProperties
<1>4. /\ b \in Seq(S)
      /\ Len(b) = IF i <= Len(q) THEN Len(q) - i + 1 ELSE 0
      /\ \A j \in 1..(Len(q) - i + 1) : b[j] = q[i + j - 1]
  BY <1>0, <1>2, SubSeqProperties
<1> HIDE DEF a, b
<1>5. Len(a) = i - 1 /\ \A j \in 1..(i - 1) : a[j] = q[j]
  BY <1>0, <1>3
<1>6. Len(b) = (Len(q) - i) + 1
  BY <1>0, <1>4
<1>7. c \in Seq(S) /\ Len(c) = i /\ c[i] = e /\ \A j \in 1..(i - 1) : c[j] = q[j]
  BY <1>0, <1>3, <1>5
<1> HIDE DEF c
<1>8. /\ c \o b \in Seq(S) /\ Len(c \o b) = Len(c) + Len(b)
      /\ \A j \in 1..(Len(c) + Len(b)) :
           (c \o b)[j] = IF j <= Len(c) THEN c[j] ELSE b[j - Len(c)]
  BY <1>4, <1>7, ConcatProperties
<1>9. Len(c \o b) = Len(q) + 1 /\ DOMAIN (c \o b) = 1..(Len(q) + 1)
  BY <1>0, <1>6, <1>7, <1>8
<1>10. ASSUME NEW j \in 1..(Len(q) + 1)
       PROVE  (c \o b)[j] = IF j < i THEN q[j] ELSE IF j = i THEN e ELSE q[j - 1]
  <2>1. CASE j <= i
    <3>1. (c \o b)[j] = c[j]
      BY <1>0, <1>6, <1>7, <1>8, <2>1
    <3>2. j = i \/ j \in 1..(i - 1)
      BY <1>0, <2>1
    <3>3. j = i => ~(j < i)
      BY <1>0
    <3> QED
      BY <1>7, <3>1, <3>2, <3>3
  <2>2. CASE ~(j <= i)
    <3>1. j - i \in 1..(Len(q) - i + 1) /\ i + (j - i) - 1 = j - 1
      BY <1>0, <2>2
    <3>2. (c \o b)[j] = b[j - i]
      BY <1>0, <1>6, <1>7, <1>8, <2>2
    <3>3. b[j - i] = q[j - 1]
      BY <1>4, <3>1
    <3> QED
      BY <1>0, <2>2, <3>2, <3>3
  <2> QED
    BY <2>1, <2>2
<1>11. i \in 1..(Len(q) + 1) /\ ~(i < i)
  BY <1>0
<1> QED
  BY <1>8, <1>9, <1>10, <1>11 DEF InsertAt, a, b, c
=============================================================================
