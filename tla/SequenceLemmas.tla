--------------------------- MODULE SequenceLemmas ---------------------------
(***************************************************************************)
(* Induction without operator parameters, runs of recursive functions over *)
(* sequences, and what FlattenSeq does to an appended element: facts that  *)
(* say nothing of this program and that the proofs of its modules share.   *)
(***************************************************************************)
EXTENDS Naturals, Sequences, SequencesExt, SequenceTheorems,
        WellFoundedInduction, TLAPS

-----------------------------------------------------------------------------
(* Induction over the numbers, for a set of them.                          *)

LEMMA LeastOfNats ==
  ASSUME NEW T, T \subseteq Nat, T # {}
  PROVE  \E m \in T : \A y \in T : m <= y
  <1>1. PICK x \in T : \A y \in T : <<y, x>> \notin OpToRel(<, Nat)
    BY NatLessThanWellFounded, WFMin
  <1>2. \A y \in T : ~(y < x)
    BY <1>1 DEF OpToRel
  <1> QED BY <1>2

LEMMA NatSetInduction ==
  ASSUME NEW P, 0 \in P, \A n \in Nat : n \in P => n + 1 \in P
  PROVE  \A n \in Nat : n \in P
  <1> SUFFICES ASSUME NEW k \in Nat, k \notin P PROVE FALSE
    OBVIOUS
  <1> DEFINE T == {n \in Nat : n \notin P}
  <1>1. PICK m \in T : \A y \in T : m <= y
    <2>1. T \subseteq Nat /\ k \in T
      OBVIOUS
    <2> HIDE DEF T
    <2> QED BY <2>1, LeastOfNats
  <1>2. m \in Nat /\ m # 0 /\ m \notin P
    OBVIOUS
  <1>3. m - 1 \in Nat /\ (m - 1) + 1 = m /\ ~(m <= m - 1)
    BY <1>2
  <1>4. m - 1 \in P
    BY <1>1, <1>3
  <1>5. m \in P
    BY <1>3, <1>4, Zenon
  <1> QED BY <1>2, <1>5

(* The same for sequences that grow at their end.                          *)
LEMMA SeqSetInduction ==
  ASSUME NEW S, NEW P, << >> \in P,
         \A s \in Seq(S), e \in S : s \in P => Append(s, e) \in P
  PROVE  \A s \in Seq(S) : s \in P
  <1> DEFINE OfLength(n) == \A s \in Seq(S) : Len(s) = n => s \in P
             Q == {n \in Nat : OfLength(n)}
  <1>1. OfLength(0)
    BY EmptySeq
  <1>2. ASSUME NEW n \in Nat, OfLength(n) PROVE OfLength(n + 1)
    <2> SUFFICES ASSUME NEW s \in Seq(S), Len(s) = n + 1 PROVE s \in P
      OBVIOUS
    <2>1. s # << >>
      BY EmptySeq
    <2>2. PICK t \in Seq(S), e \in S : s = Append(t, e)
      BY <2>1, SequenceEmptyOrAppend
    <2>3. Len(t) = n
      BY <2>2, AppendProperties, LenProperties
    <2> QED BY <1>2, <2>2, <2>3
  <1> HIDE DEF OfLength
  <1>3. 0 \in Q /\ \A n \in Nat : n \in Q => n + 1 \in Q
    BY <1>1, <1>2
  <1> HIDE DEF Q
  <1>4. \A n \in Nat : n \in Q
    BY <1>3, NatSetInduction
  <1>5. \A n \in Nat : OfLength(n)
    BY <1>4 DEF Q
  <1> QED BY <1>5, LenProperties DEF OfLength

(* Two runs that begin alike and go on alike are alike.                    *)
LEMMA RunsAgree ==
  ASSUME NEW n \in Nat, NEW f, NEW g, f[0] = g[0],
         \A i \in 1 .. n : f[i - 1] = g[i - 1] => f[i] = g[i]
  PROVE  \A i \in 0 .. n : f[i] = g[i]
  <1> DEFINE P == {i \in Nat : i <= n => f[i] = g[i]}
  <1>1. 0 \in P
    OBVIOUS
  <1>2. ASSUME NEW i \in Nat, i \in P PROVE i + 1 \in P
    <2>1. SUFFICES ASSUME i + 1 <= n PROVE f[i + 1] = g[i + 1]
      OBVIOUS
    <2>2. i + 1 \in 1 .. n /\ (i + 1) - 1 = i /\ f[i] = g[i]
      BY <1>2, <2>1
    <2>3. f[(i + 1) - 1] = g[(i + 1) - 1]
      BY <2>2
    <2> QED BY <2>2, <2>3
  <1> HIDE DEF P
  <1>3. \A i \in Nat : i \in P
    BY <1>1, <1>2, NatSetInduction
  <1> QED BY <1>3 DEF P

LEMMA WalksAgree ==
  ASSUME NEW n \in Nat, n > 0, NEW f, NEW g, f[1] = g[1],
         \A i \in 2 .. n : f[i - 1] = g[i - 1] => f[i] = g[i]
  PROVE  f[n] = g[n]
  <1> DEFINE P == {i \in Nat : 1 <= i /\ i <= n => f[i] = g[i]}
  <1>1. 0 \in P
    OBVIOUS
  <1>2. ASSUME NEW i \in Nat, i \in P PROVE i + 1 \in P
    <2>1. SUFFICES ASSUME i + 1 <= n PROVE f[i + 1] = g[i + 1]
      OBVIOUS
    <2>2. CASE i = 0
      BY <2>2
    <2>3. CASE i # 0
      <3>1. i + 1 \in 2 .. n /\ (i + 1) - 1 = i /\ f[i] = g[i]
        BY <1>2, <2>1, <2>3
      <3>2. f[(i + 1) - 1] = g[(i + 1) - 1]
        BY <3>1
      <3> QED BY <3>1, <3>2
    <2> QED BY <2>2, <2>3
  <1> HIDE DEF P
  <1>3. n \in P
    BY <1>1, <1>2, NatSetInduction
  <1> QED BY <1>3 DEF P

(* A run of n steps exists.                                                *)
LEMMA RunExists ==
  ASSUME NEW A, NEW start \in A, NEW n \in Nat, NEW step \in [1 .. n -> [A -> A]]
  PROVE  \E f \in [0 .. n -> A] :
           /\ f[0] = start
           /\ \A i \in 1 .. n : f[i] = step[i][f[i - 1]]
  <1> DEFINE Run(m, f) == /\ f[0] = start
                          /\ \A i \in 1 .. m : f[i] = step[i][f[i - 1]]
             Has(m) == \E f \in [0 .. m -> A] : Run(m, f)
             P == {m \in Nat : m <= n => Has(m)}
  <1>1. Has(0)
    <2>1. [i \in 0 .. 0 |-> start] \in [0 .. 0 -> A] /\ Run(0, [i \in 0 .. 0 |-> start])
      OBVIOUS
    <2> QED BY <2>1
  <1>2. ASSUME NEW m \in Nat, m + 1 <= n, Has(m) PROVE Has(m + 1)
    <2>1. PICK f \in [0 .. m -> A] : Run(m, f)
      BY <1>2
    <2>2. m + 1 \in 1 .. n /\ m \in 0 .. m /\ f[m] \in A
      BY <1>2
    <2>3. step[m + 1][f[m]] \in A
      BY <2>2
    <2> DEFINE g == [i \in 0 .. m + 1 |-> IF i <= m THEN f[i] ELSE step[m + 1][f[m]]]
    <2>4. g \in [0 .. m + 1 -> A]
      <3>1. ASSUME NEW i \in 0 .. m + 1, i <= m PROVE f[i] \in A
        <4>1. i \in 0 .. m
          BY <3>1
        <4> QED BY <4>1
      <3> QED BY <2>3, <3>1
    <2>5. g[0] = start
      BY <2>1
    <2>6. ASSUME NEW i \in 1 .. m + 1 PROVE g[i] = step[i][g[i - 1]]
      <3>1. i - 1 \in 0 .. m /\ g[i - 1] = f[i - 1]
        OBVIOUS
      <3>2. CASE i <= m
        BY <2>1, <3>1, <3>2
      <3>3. CASE i = m + 1
        BY <3>1, <3>3
      <3> QED BY <3>2, <3>3
    <2> HIDE DEF g
    <2>7. Run(m + 1, g)
      BY <2>5, <2>6
    <2> QED BY <2>4, <2>7
  <1> HIDE DEF Has
  <1>3. \A m \in Nat : m \in P => m + 1 \in P
    BY <1>2
  <1>4. 0 \in P
    BY <1>1
  <1> HIDE DEF P
  <1>5. \A m \in Nat : m \in P
    BY <1>3, <1>4, NatSetInduction
  <1>6. Has(n)
    BY <1>5 DEF P
  <1> QED BY <1>6 DEF Has

(* Short sequences, written out.                                           *)
LEMMA WrittenOut ==
  ASSUME NEW S, NEW s \in Seq(S)
  PROVE  /\ Len(s) = 1 => s = <<s[1]>>
         /\ Len(s) = 2 => s = <<s[1], s[2]>>
         /\ Len(s) = 3 => s = <<s[1], s[2], s[3]>>
         /\ Len(s) = 4 => s = <<s[1], s[2], s[3], s[4]>>
  <1>1. \A i \in 1 .. Len(s) : s[i] \in S
    BY ElementOfSeq
  <1>2. ASSUME Len(s) = 1 PROVE s = <<s[1]>>
    BY <1>1, <1>2, SeqEqual
  <1>3. ASSUME Len(s) = 2 PROVE s = <<s[1], s[2]>>
    BY <1>1, <1>3, SeqEqual
  <1>4. ASSUME Len(s) = 3 PROVE s = <<s[1], s[2], s[3]>>
    BY <1>1, <1>4, SeqEqual
  <1>5. ASSUME Len(s) = 4 PROVE s = <<s[1], s[2], s[3], s[4]>>
    BY <1>1, <1>5, SeqEqual
  <1> QED BY <1>2, <1>3, <1>4, <1>5

LEMMA ConcatAppend ==
  ASSUME NEW S, NEW s, s \in Seq(S), NEW t, t \in Seq(S), NEW e, e \in S
  PROVE  s \o Append(t, e) = Append(s \o t, e)
  <1>1. <<e>> \in Seq(S) /\ s \o t \in Seq(S)
    BY ConcatProperties
  <1>2. Append(t, e) = t \o <<e>> /\ Append(s \o t, e) = (s \o t) \o <<e>>
    BY <1>1, AppendIsConcat
  <1>3. (s \o t) \o <<e>> = s \o (t \o <<e>>)
    BY <1>1, ConcatAssociative
  <1> QED BY <1>2, <1>3

LEMMA ConcatTwo ==
  ASSUME NEW S, NEW s, s \in Seq(S), NEW a \in S, NEW b \in S
  PROVE  s \o <<a, b>> = Append(Append(s, a), b)
  <1>1. <<a>> \in Seq(S) /\ <<a, b>> = Append(<<a>>, b)
    OBVIOUS
  <1>2. s \o Append(<<a>>, b) = Append(s \o <<a>>, b)
    BY <1>1, ConcatAppend
  <1>3. s \o <<a>> = Append(s, a)
    BY AppendIsConcat
  <1> QED BY <1>1, <1>2, <1>3

LEMMA ConcatThree ==
  ASSUME NEW S, NEW s, s \in Seq(S), NEW a \in S, NEW b \in S, NEW c \in S
  PROVE  s \o <<a, b, c>> = Append(Append(Append(s, a), b), c)
  <1>1. <<a, b>> \in Seq(S) /\ <<a, b, c>> = Append(<<a, b>>, c)
    OBVIOUS
  <1>2. s \o Append(<<a, b>>, c) = Append(s \o <<a, b>>, c)
    BY <1>1, ConcatAppend
  <1>3. s \o <<a, b>> = Append(Append(s, a), b)
    BY ConcatTwo
  <1> QED BY <1>1, <1>2, <1>3

LEMMA ConcatFour ==
  ASSUME NEW S, NEW s, s \in Seq(S), NEW a \in S, NEW b \in S, NEW c \in S,
         NEW d \in S
  PROVE  s \o <<a, b, c, d>> = Append(Append(Append(Append(s, a), b), c), d)
  <1>1. <<a, b, c>> \in Seq(S) /\ <<a, b, c, d>> = Append(<<a, b, c>>, d)
    OBVIOUS
  <1>2. s \o Append(<<a, b, c>>, d) = Append(s \o <<a, b, c>>, d)
    BY <1>1, ConcatAppend
  <1>3. s \o <<a, b, c>> = Append(Append(Append(s, a), b), c)
    BY ConcatThree
  <1> QED BY <1>1, <1>2, <1>3

-----------------------------------------------------------------------------
(* FlattenSeq.                                                             *)

LEMMA FlattenOfNothing == FlattenSeq(<< >>) = << >>
  BY DEF FlattenSeq

(* What FlattenSeq returns is the last state of the run that concatenates. *)
LEMMA FlattenRun ==
  ASSUME NEW S, NEW ss, ss \in Seq(Seq(S)), ss # << >>
  PROVE  \E f \in [1 .. Len(ss) -> Seq(S)] :
           /\ f[1] = ss[1]
           /\ \A i \in 2 .. Len(ss) : f[i] = f[i - 1] \o ss[i]
           /\ FlattenSeq(ss) = f[Len(ss)]
  <1> DEFINE n == Len(ss)
             step == [i \in 1 .. n |-> [a \in Seq(S) |-> a \o ss[i]]]
             Flatten(f) == [i \in 1 .. n |-> IF i = 1 THEN ss[i] ELSE f[i - 1] \o ss[i]]
             flat == CHOOSE f : f = Flatten(f)
  <1>1. n \in Nat /\ n > 0 /\ \A i \in 1 .. n : ss[i] \in Seq(S)
    BY LenProperties, EmptySeq, ElementOfSeq
  <1>2. << >> \in Seq(S)
    BY EmptySeq
  <1>3. \A a \in Seq(S), i \in 1 .. n : a \o ss[i] \in Seq(S)
    BY <1>1, ConcatProperties
  <1>4. step \in [1 .. n -> [Seq(S) -> Seq(S)]]
    BY <1>3
  <1>5. PICK g \in [0 .. n -> Seq(S)] :
          /\ g[0] = << >>
          /\ \A i \in 1 .. n : g[i] = step[i][g[i - 1]]
    <2>1. PICK A : A = Seq(S)
      OBVIOUS
    <2>2. PICK begin : begin = << >>
      OBVIOUS
    <2>3. PICK k : k = n
      OBVIOUS
    <2>4. PICK walk : walk = step
      OBVIOUS
    <2>5. begin \in A
      BY <1>2, <2>1, <2>2
    <2>6. k \in Nat
      BY <1>1, <2>3
    <2>7. walk \in [1 .. k -> [A -> A]]
      BY <1>4, <2>1, <2>3, <2>4, Zenon
    <2>8. \E g \in [0 .. k -> A] :
            g[0] = begin /\ \A i \in 1 .. k : g[i] = walk[i][g[i - 1]]
      BY ONLY <2>5, <2>6, <2>7, RunExists
    <2> QED BY <2>1, <2>2, <2>3, <2>4, <2>8, Zenon
  <1>6. \A i \in 1 .. n : g[i - 1] \in Seq(S) /\ g[i] = g[i - 1] \o ss[i]
    <2> TAKE i \in 1 .. n
    <2>1. i - 1 \in 0 .. n
      BY <1>1
    <2>2. g[i - 1] \in Seq(S)
      BY <2>1
    <2> QED BY <1>5, <2>2
  <1>7. g[1] = ss[1]
    <2>1. 1 \in 1 .. n /\ 1 - 1 = 0
      BY <1>1
    <2>2. g[1] = << >> \o ss[1]
      BY <1>5, <1>6, <2>1
    <2> QED BY <1>1, <2>1, <2>2, ConcatEmptySeq
  <1> DEFINE h == [i \in 1 .. n |-> g[i]]
  <1>8. h = Flatten(h)
    <2>1. ASSUME NEW i \in 1 .. n
          PROVE  h[i] = IF i = 1 THEN ss[i] ELSE h[i - 1] \o ss[i]
      <3>1. CASE i = 1
        BY <1>7, <3>1
      <3>2. CASE i # 1
        <4>1. i - 1 \in 1 .. n
          BY <1>1, <3>2
        <4> QED BY <1>6, <3>2, <4>1
      <3> QED BY <3>1, <3>2
    <2> QED BY <2>1
  <1> HIDE DEF h
  <1>9. flat = Flatten(flat)
    BY <1>8
  <1>10. FlattenSeq(ss) = flat[n]
    BY <1>1 DEF FlattenSeq
  <1> HIDE DEF flat
  <1>11. \A i \in 1 .. n : flat[i] = IF i = 1 THEN ss[i] ELSE flat[i - 1] \o ss[i]
    BY <1>9
  <1>12. flat \in [1 .. n -> Seq(S)]
    <2> DEFINE flat0 == [i \in 0 .. n |-> IF i = 0 THEN << >> ELSE flat[i]]
    <2>2. \A i \in 0 .. n : flat0[i] = g[i]
      <3>1. flat0[0] = g[0]
        BY <1>1, <1>5
      <3>2. ASSUME NEW i \in 1 .. n, flat0[i - 1] = g[i - 1]
            PROVE  flat0[i] = g[i]
        <4>1. flat0[i] = flat[i]
          BY <1>1
        <4>2. CASE i = 1
          BY <1>7, <1>11, <4>1, <4>2
        <4>3. CASE i # 1
          <5>1. i - 1 \in 1 .. n /\ flat0[i - 1] = flat[i - 1]
            BY <1>1, <4>3
          <5>2. flat[i] = flat[i - 1] \o ss[i]
            BY ONLY <1>11, <4>3, Zenon
          <5>3. g[i] = g[i - 1] \o ss[i]
            BY ONLY <1>6, Zenon
          <5>4. flat[i - 1] = g[i - 1]
            BY ONLY <3>2, <5>1, Zenon
          <5> QED BY ONLY <4>1, <5>2, <5>3, <5>4, Zenon
        <4> QED BY <4>2, <4>3
      <3> HIDE DEF flat0
      <3> QED BY <1>1, <3>1, <3>2, RunsAgree
    <2>3. \A i \in 1 .. n : flat[i] = g[i] /\ g[i] \in Seq(S)
      <3> TAKE i \in 1 .. n
      <3>1. i \in 0 .. n /\ i # 0
        BY <1>1
      <3>2. flat0[i] = flat[i]
        BY <3>1
      <3> HIDE DEF flat0
      <3>3. flat0[i] = g[i]
        BY ONLY <2>2, <3>1, Zenon
      <3>4. g[i] \in Seq(S)
        BY ONLY <1>5, <3>1, Zenon
      <3> QED BY ONLY <3>2, <3>3, <3>4, Zenon
    <2>4. PICK A : A = Seq(S)
      OBVIOUS
    <2>5. \A i \in 1 .. n : flat[i] \in A
      BY ONLY <2>3, <2>4, Zenon
    <2>6. flat = [i \in 1 .. n |-> flat[i]]
      BY ONLY <1>9, Zenon
    <2>7. flat \in [1 .. n -> A]
      BY ONLY <2>5, <2>6, Zenon
    <2> QED BY ONLY <2>4, <2>7, Zenon
  <1>13. 1 \in 1 .. n /\ \A i \in 2 .. n : i \in 1 .. n /\ i # 1
    BY <1>1
  <1>14. flat[1] = ss[1] /\ \A i \in 2 .. n : flat[i] = flat[i - 1] \o ss[i]
    BY <1>11, <1>13
  <1> QED BY <1>10, <1>12, <1>14

LEMMA FlattenIsTyped ==
  ASSUME NEW S, NEW ss, ss \in Seq(Seq(S))
  PROVE  FlattenSeq(ss) \in Seq(S)
  <1>1. CASE ss = << >>
    BY <1>1, FlattenOfNothing, EmptySeq
  <1>2. CASE ss # << >>
    <2>1. Len(ss) \in Nat /\ Len(ss) > 0
      BY <1>2, LenProperties, EmptySeq
    <2>2. PICK f \in [1 .. Len(ss) -> Seq(S)] : FlattenSeq(ss) = f[Len(ss)]
      BY <1>2, FlattenRun
    <2>3. Len(ss) \in 1 .. Len(ss)
      BY <2>1
    <2> QED BY <2>2, <2>3
  <1> QED BY <1>1, <1>2

LEMMA FlattenAppend ==
  ASSUME NEW S, NEW ss, ss \in Seq(Seq(S)), NEW e \in Seq(S)
  PROVE  FlattenSeq(Append(ss, e)) = FlattenSeq(ss) \o e
  <1> DEFINE n == Len(ss)
             longer == Append(ss, e)
  <1>1. /\ n \in Nat /\ longer \in Seq(Seq(S)) /\ Len(longer) = n + 1
        /\ \A i \in 1 .. n : longer[i] = ss[i]
        /\ longer[n + 1] = e /\ longer # << >>
    BY LenProperties, AppendProperties
  <1> HIDE DEF longer
  <1>2. \E f \in [1 .. Len(longer) -> Seq(S)] :
          /\ f[1] = longer[1]
          /\ \A i \in 2 .. Len(longer) : f[i] = f[i - 1] \o longer[i]
          /\ FlattenSeq(longer) = f[Len(longer)]
    BY ONLY <1>1, FlattenRun
  <1>3. PICK f \in [1 .. n + 1 -> Seq(S)] :
          /\ f[1] = longer[1]
          /\ \A i \in 2 .. n + 1 : f[i] = f[i - 1] \o longer[i]
          /\ FlattenSeq(longer) = f[n + 1]
    BY <1>1, <1>2, Zenon
  <1>4. CASE ss = << >>
    <2>1. n = 0
      BY <1>4, EmptySeq
    <2>2. FlattenSeq(longer) = e
      BY <1>1, <1>3, <2>1
    <2> QED BY <1>4, <2>2, FlattenOfNothing, ConcatEmptySeq DEF longer
  <1>5. CASE ss # << >>
    <2>1. n > 0
      BY <1>1, <1>5, EmptySeq
    <2>2. PICK g \in [1 .. n -> Seq(S)] :
            /\ g[1] = ss[1]
            /\ \A i \in 2 .. n : g[i] = g[i - 1] \o ss[i]
            /\ FlattenSeq(ss) = g[n]
      BY <1>5, FlattenRun
    <2>3. f[1] = g[1]
      BY <1>1, <1>3, <2>1, <2>2
    <2>4. ASSUME NEW i \in 2 .. n, f[i - 1] = g[i - 1]
          PROVE  f[i] = g[i]
      <3>1. i \in 2 .. n + 1 /\ i \in 1 .. n
        BY <1>1
      <3> QED BY <1>1, <1>3, <2>2, <2>4, <3>1
    <2>5. PICK k : k = n
      OBVIOUS
    <2>6. k \in Nat /\ k > 0 /\ \A i \in 2 .. k : f[i - 1] = g[i - 1] => f[i] = g[i]
      BY <1>1, <2>1, <2>4, <2>5
    <2>7. f[n] = g[n]
      <3>1. f[k] = g[k]
        BY ONLY <2>3, <2>6, WalksAgree
      <3> QED BY <2>5, <3>1
    <2>8. f[n + 1] = f[n] \o e
      <3>1. n + 1 \in 2 .. n + 1 /\ (n + 1) - 1 = n
        BY <1>1, <2>1
      <3> QED BY <1>1, <1>3, <3>1
    <2> QED BY <1>3, <2>2, <2>7, <2>8 DEF longer
  <1> QED BY <1>4, <1>5

LEMMA FlattenConcat ==
  ASSUME NEW S, NEW ss, ss \in Seq(Seq(S)), NEW tt, tt \in Seq(Seq(S))
  PROVE  FlattenSeq(ss \o tt) = FlattenSeq(ss) \o FlattenSeq(tt)
  <1>1. PICK A : A = Seq(S)
    OBVIOUS
  <1>2. ss \in Seq(A) /\ tt \in Seq(A)
    BY <1>1
  <1> DEFINE P == {u \in Seq(A) : FlattenSeq(ss \o u) = FlattenSeq(ss) \o FlattenSeq(u)}
  <1>3. << >> \in P
    <2>1. ss \o << >> = ss /\ << >> \in Seq(A)
      BY <1>2, ConcatEmptySeq, EmptySeq
    <2>2. FlattenSeq(ss) \o << >> = FlattenSeq(ss)
      BY <1>1, <1>2, FlattenIsTyped, ConcatEmptySeq
    <2> QED BY <2>1, <2>2, FlattenOfNothing
  <1>4. ASSUME NEW u \in Seq(A), NEW e \in A, u \in P
        PROVE  Append(u, e) \in P
    <2>1. Append(u, e) \in Seq(A) /\ Append(u, e) = u \o <<e>> /\ <<e>> \in Seq(A)
      BY AppendProperties, AppendIsConcat
    <2>2. ss \o u \in Seq(A)
      BY <1>2, ConcatProperties
    <2>3. ss \o Append(u, e) = Append(ss \o u, e)
      BY <1>2, <2>1, <2>2, ConcatAssociative, AppendIsConcat
    <2>4. FlattenSeq(ss \o Append(u, e)) = FlattenSeq(ss \o u) \o e
      BY <1>1, <2>2, <2>3, FlattenAppend
    <2>5. FlattenSeq(Append(u, e)) = FlattenSeq(u) \o e
      BY <1>1, FlattenAppend
    <2>6. FlattenSeq(ss) \in Seq(S) /\ FlattenSeq(u) \in Seq(S) /\ e \in Seq(S)
      BY <1>1, <1>2, FlattenIsTyped
    <2>7. (FlattenSeq(ss) \o FlattenSeq(u)) \o e = FlattenSeq(ss) \o (FlattenSeq(u) \o e)
      BY ONLY <2>6, ConcatAssociative
    <2>8. FlattenSeq(ss \o u) = FlattenSeq(ss) \o FlattenSeq(u)
      BY <1>4
    <2> QED BY <2>1, <2>4, <2>5, <2>7, <2>8
  <1> HIDE DEF P
  <1>5. tt \in P
    BY <1>2, <1>3, <1>4, SeqSetInduction
  <1> QED BY <1>5 DEF P

LEMMA FlattenOfOne ==
  ASSUME NEW S, NEW e, e \in Seq(S)
  PROVE  FlattenSeq(<<e>>) = e
  <1>1. PICK A : A = Seq(S)
    OBVIOUS
  <1>2. << >> \in Seq(A) /\ Append(<< >>, e) = <<e>>
    BY <1>1, EmptySeq
  <1>3. FlattenSeq(Append(<< >>, e)) = FlattenSeq(<< >>) \o e
    BY <1>1, <1>2, FlattenAppend
  <1> QED BY <1>2, <1>3, FlattenOfNothing, ConcatEmptySeq

(* Nothing but empty sequences.                                            *)
LEMMA FlattenOfEmpties ==
  ASSUME NEW S, NEW ss, ss \in Seq(Seq(S)), \A i \in 1 .. Len(ss) : ss[i] = << >>
  PROVE  FlattenSeq(ss) = << >>
  <1>1. CASE ss = << >>
    BY <1>1, FlattenOfNothing
  <1>2. CASE ss # << >>
    <2>1. Len(ss) \in Nat /\ Len(ss) > 0
      BY <1>2, LenProperties, EmptySeq
    <2>2. PICK f \in [1 .. Len(ss) -> Seq(S)] :
            /\ f[1] = ss[1]
            /\ \A i \in 2 .. Len(ss) : f[i] = f[i - 1] \o ss[i]
            /\ FlattenSeq(ss) = f[Len(ss)]
      BY <1>2, FlattenRun
    <2>3. PICK n : n = Len(ss)
      OBVIOUS
    <2>4. PICK g : g = [i \in 1 .. n |-> << >>]
      OBVIOUS
    <2>5. f[1] = g[1]
      BY <2>1, <2>2, <2>3, <2>4
    <2>6. ASSUME NEW i \in 2 .. n, f[i - 1] = g[i - 1]
          PROVE  f[i] = g[i]
      <3>1. i \in 1 .. Len(ss) /\ i - 1 \in 1 .. n /\ i \in 1 .. n
        BY <2>1, <2>3
      <3>2. f[i] = << >> \o << >>
        BY <2>2, <2>3, <2>4, <2>6, <3>1
      <3> QED BY <2>4, <3>1, <3>2, EmptySeq, ConcatEmptySeq
    <2>7. n \in Nat /\ n > 0
      BY <2>1, <2>3
    <2>8. f[n] = g[n]
      BY ONLY <2>5, <2>6, <2>7, WalksAgree
    <2> QED BY <2>2, <2>3, <2>4, <2>7, <2>8
  <1> QED BY <1>1, <1>2

(* What is made of short pieces is not long.                               *)
LEMMA FlattenOfPairs ==
  ASSUME NEW S, NEW T, T = {e \in Seq(S) : Len(e) <= 2},
         NEW ss, ss \in Seq(T)
  PROVE  FlattenSeq(ss) \in Seq(S) /\ Len(FlattenSeq(ss)) <= 2 * Len(ss)
  <1> DEFINE Short(u) == Len(FlattenSeq(u)) <= 2 * Len(u)
             P == {u \in Seq(T) : Short(u)}
  <1>1. PICK A : A = Seq(S)
    OBVIOUS
  <1>2. \A u \in Seq(T) : u \in Seq(A)
    <2>1. T \subseteq A
      BY <1>1
    <2> QED BY <2>1, SeqMonotonic
  <1>3. << >> \in P
    BY FlattenOfNothing, EmptySeq
  <1>4. ASSUME NEW u \in Seq(T), NEW e \in T, Short(u)
        PROVE  Short(Append(u, e))
    <2>1. u \in Seq(Seq(S)) /\ e \in Seq(S)
      BY <1>1, <1>2
    <2>2. PICK flat : flat = FlattenSeq(u)
      OBVIOUS
    <2>3. flat \in Seq(S) /\ Len(flat) \in Nat /\ Len(e) \in Nat /\ Len(e) <= 2
      BY <2>1, <2>2, FlattenIsTyped, LenProperties
    <2>4. FlattenSeq(Append(u, e)) = flat \o e
      BY <2>1, <2>2, FlattenAppend, Zenon
    <2>5. Len(flat \o e) = Len(flat) + Len(e)
      BY <2>1, <2>3, ConcatProperties
    <2>6. Len(Append(u, e)) = Len(u) + 1 /\ Len(u) \in Nat
      BY LenProperties, AppendProperties
    <2>7. Len(flat) <= 2 * Len(u)
      BY <1>4, <2>2, Zenon
    <2>8. Len(flat \o e) <= 2 * Len(Append(u, e))
      BY <2>3, <2>5, <2>6, <2>7
    <2> QED BY <2>4, <2>8, Zenon
  <1> HIDE DEF Short
  <1>5. \A u \in Seq(T), e \in T : u \in P => Append(u, e) \in P
    BY <1>4, AppendProperties
  <1> HIDE DEF P
  <1>6. ss \in P
    BY <1>3, <1>5, SeqSetInduction
  <1> QED BY <1>1, <1>2, <1>6, FlattenIsTyped DEF P, Short

-----------------------------------------------------------------------------
(* A function applied to every element.                                    *)

Maps(S, T) == [S -> T]

Mapped(f, s) == [i \in DOMAIN s |-> f[s[i]]]

LEMMA MapIsTyped ==
  ASSUME NEW S, NEW T, NEW f, f \in Maps(S, T), NEW s, s \in Seq(S)
  PROVE  /\ Mapped(f, s) \in Seq(T) /\ Len(Mapped(f, s)) = Len(s)
         /\ \A i \in 1 .. Len(s) : Mapped(f, s)[i] = f[s[i]]
  <1>1. DOMAIN s = 1 .. Len(s) /\ Len(s) \in Nat
    BY LenProperties
  <1>2. \A i \in 1 .. Len(s) : f[s[i]] \in T
    BY ElementOfSeq DEF Maps
  <1>3. Mapped(f, s) \in [1 .. Len(s) -> T]
    BY <1>1, <1>2, Zenon DEF Mapped
  <1>4. Mapped(f, s) \in Seq(T)
    <2>1. PICK m : m = Mapped(f, s)
      OBVIOUS
    <2>2. PICK n : n = Len(s)
      OBVIOUS
    <2>3. n \in Nat /\ m \in [1 .. n -> T]
      BY <1>1, <1>3, <2>1, <2>2, Zenon
    <2>4. m \in Seq(T)
      BY ONLY <2>3, SeqDef
    <2> QED BY <2>1, <2>4
  <1>5. \A i \in 1 .. Len(s) : Mapped(f, s)[i] = f[s[i]]
    BY <1>1, Zenon DEF Mapped
  <1> QED BY <1>1, <1>3, <1>4, <1>5, LenProperties

LEMMA MapConcat ==
  ASSUME NEW S, NEW T, NEW f, f \in Maps(S, T), NEW s, s \in Seq(S),
         NEW t, t \in Seq(S)
  PROVE  Mapped(f, s \o t) = Mapped(f, s) \o Mapped(f, t)
  <1>1. PICK both : both = s \o t
    OBVIOUS
  <1>2. PICK n, k \in Nat : n = Len(s) /\ k = Len(t)
    BY LenProperties
  <1>3. /\ both \in Seq(S) /\ Len(both) = n + k
        /\ \A i \in 1 .. n + k : both[i] = IF i <= n THEN s[i] ELSE t[i - n]
    BY <1>1, <1>2, ConcatProperties
  <1>4. PICK u, v, w : u = Mapped(f, s) /\ v = Mapped(f, t) /\ w = Mapped(f, both)
    OBVIOUS
  <1>5. /\ u \in Seq(T) /\ Len(u) = n /\ \A i \in 1 .. n : u[i] = f[s[i]]
        /\ v \in Seq(T) /\ Len(v) = k /\ \A i \in 1 .. k : v[i] = f[t[i]]
        /\ w \in Seq(T) /\ Len(w) = n + k /\ \A i \in 1 .. n + k : w[i] = f[both[i]]
    <2>a. f \in Maps(S, T)
      OBVIOUS
    <2>b. s \in Seq(S)
      OBVIOUS
    <2>c. t \in Seq(S)
      OBVIOUS
    <2>d. both \in Seq(S)
      BY <1>3
    <2>1. /\ Mapped(f, s) \in Seq(T) /\ Len(Mapped(f, s)) = Len(s)
          /\ \A i \in 1 .. Len(s) : Mapped(f, s)[i] = f[s[i]]
      BY ONLY <2>a, <2>b, MapIsTyped
    <2>2. /\ Mapped(f, t) \in Seq(T) /\ Len(Mapped(f, t)) = Len(t)
          /\ \A i \in 1 .. Len(t) : Mapped(f, t)[i] = f[t[i]]
      BY ONLY <2>a, <2>c, MapIsTyped
    <2>3. /\ Mapped(f, both) \in Seq(T) /\ Len(Mapped(f, both)) = Len(both)
          /\ \A i \in 1 .. Len(both) : Mapped(f, both)[i] = f[both[i]]
      BY ONLY <2>a, <2>d, MapIsTyped
    <2> QED BY <1>2, <1>3, <1>4, <2>1, <2>2, <2>3, Zenon
  <1>6. PICK x : x = u \o v
    OBVIOUS
  <1>7. /\ x \in Seq(T) /\ Len(x) = n + k
        /\ \A i \in 1 .. n + k : x[i] = IF i <= n THEN u[i] ELSE v[i - n]
    BY <1>5, <1>6, ConcatProperties
  <1>8. ASSUME NEW i \in 1 .. n + k PROVE w[i] = x[i]
    <2>1. CASE i <= n
      <3>1. i \in 1 .. n
        BY <1>2, <2>1
      <3>2. both[i] = s[i] /\ x[i] = u[i] /\ w[i] = f[both[i]] /\ u[i] = f[s[i]]
        BY <1>3, <1>5, <1>7, <2>1, <3>1, Zenon
      <3> QED BY <3>2
    <2>2. CASE ~(i <= n)
      <3>1. i - n \in 1 .. k
        BY <1>2, <2>2
      <3>2. /\ both[i] = t[i - n] /\ x[i] = v[i - n] /\ w[i] = f[both[i]]
            /\ v[i - n] = f[t[i - n]]
        BY <1>3, <1>5, <1>7, <2>2, <3>1, Zenon
      <3> QED BY <3>2
    <2> QED BY <2>1, <2>2
  <1>9. w = x
    BY ONLY <1>5, <1>7, <1>8, SeqEqual
  <1> QED BY <1>1, <1>4, <1>6, <1>9, Zenon

LEMMA MapAppend ==
  ASSUME NEW S, NEW T, NEW f, f \in Maps(S, T), NEW s, s \in Seq(S),
         NEW e, e \in S
  PROVE  Mapped(f, Append(s, e)) = Append(Mapped(f, s), f[e])
  <1>1. PICK one : one = <<e>>
    OBVIOUS
  <1>2. one \in Seq(S) /\ Len(one) = 1 /\ one[1] = e /\ DOMAIN one = 1 .. 1
    BY <1>1
  <1>3. Append(s, e) = s \o one
    BY <1>1, AppendIsConcat
  <1>4. f \in Maps(S, T) /\ s \in Seq(S)
    OBVIOUS
  <1>5. Mapped(f, s \o one) = Mapped(f, s) \o Mapped(f, one)
    BY ONLY <1>2, <1>4, MapConcat
  <1>6. f[e] \in T
    BY DEF Maps
  <1>7. Mapped(f, s) \in Seq(T)
    BY ONLY <1>4, MapIsTyped
  <1>8. Mapped(f, one) = <<f[e]>>
    BY <1>2 DEF Mapped
  <1>9. Append(Mapped(f, s), f[e]) = Mapped(f, s) \o <<f[e]>>
    BY <1>6, <1>7, AppendIsConcat
  <1> QED BY <1>3, <1>5, <1>8, <1>9, Zenon

=============================================================================
