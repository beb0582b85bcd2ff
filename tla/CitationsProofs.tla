---------------------------- MODULE CitationsProofs ----------------------------
(***************************************************************************)
(* Theorems about Citations, for texts of any length and any calls.  What  *)
(* is stored of a text is the text, whatever was marked and grounded in    *)
(* it, and its spans are over tokens, of calls of the turn, and over every *)
(* number with one candidate.  And what is drawn of it, in one piece or    *)
(* in two, is the text with its chips as its author would see it, unless   *)
(* the text is contended; a contended text never is.                       *)
(*                                                                         *)
(* Texts are taken apart and put together by FlattenSeq.  EndsOf says      *)
(* where its parts end, and from it follow where tokens are once markers   *)
(* are removed (Keeps) and inserted (Marks); the one undoes the other.     *)
(* Induction is over a bounded set of numbers (UpTo).                      *)
(*                                                                         *)
(* Two drawings are compared as sets of nodes: what is drawn in the order  *)
(* of its offsets (Rises) is determined by what it draws (RisesUniquely).  *)
(* So what is left to show is that the chips of a text are those that its  *)
(* markers ask for, one behind each token, and that each piece draws them. *)
(***************************************************************************)
EXTENDS Citations, FiniteSetTheorems, WellFoundedInduction, TLAPS

-------------------------------------------------------------------------------
(* Sequences                                                                   *)

\* What begins at 0 and goes on by one reaches n.
LEMMA UpTo ==
  ASSUME NEW n \in Nat, NEW S, 0 \in S, \A m \in 0..(n - 1) : m \in S => m + 1 \in S
  PROVE  \A m \in 0..n : m \in S
<1>. SUFFICES ASSUME NEW m0 \in 0..n, m0 \notin S PROVE FALSE
  OBVIOUS
<1>. DEFINE R == {p \in Nat \X Nat : p[1] < p[2]}
            C == {m \in 0..n : m \notin S}
<1>1. IsWellFoundedOn(R, Nat)
  BY NatLessThanWellFounded DEF OpToRel
<1>2. C \in SUBSET Nat /\ C # {}
  OBVIOUS
<1>3. PICK m \in C : \A k \in C : ~(<<k, m>> \in R)
  <2>. HIDE DEF C, R
  <2>. QED
    BY <1>1, <1>2, WFMin
<1>4. m # 0 /\ m - 1 \in 0..(n - 1) /\ <<m - 1, m>> \in R
  BY <1>3
<1>5. m - 1 \in S
  BY <1>3, <1>4
<1>. QED
  BY <1>3, <1>4, <1>5

\* Where the parts of a flattened sequence end in it.
EndsOf(seqs, flat, at) ==
  /\ at \in [0..Len(seqs) -> Nat] /\ at[0] = 0
  /\ \A i \in 1..Len(seqs) : at[i] = at[i - 1] + Len(seqs[i])
  /\ Len(flat) = at[Len(seqs)]
  /\ \A i \in 1..Len(seqs) : \A j \in 1..Len(seqs[i]) :
       at[i - 1] + j \in 1..Len(flat) /\ flat[at[i - 1] + j] = seqs[i][j]
  /\ \A p \in 1..Len(flat) : \E i \in 1..Len(seqs) : \E j \in 1..Len(seqs[i]) :
       p = at[i - 1] + j

\* A concatenation, element by element.
LEMMA Concatenated ==
  ASSUME NEW S, NEW s \in Seq(S), NEW t \in Seq(S)
  PROVE  /\ s \o t \in Seq(S)
         /\ Len(s) \in Nat /\ Len(t) \in Nat /\ Len(s \o t) = Len(s) + Len(t)
         /\ \A p \in 1..Len(s) : (s \o t)[p] = s[p]
         /\ \A p \in 1..Len(t) : (s \o t)[Len(s) + p] = t[p]
OBVIOUS

\* The beginnings of a flattened sequence, one part longer each.
Beginnings(seqs, n, S, f) ==
  /\ f \in [1..n -> Seq(S)] /\ f[1] = seqs[1]
  /\ \A m \in 1..(n - 1) : f[m + 1] = f[m] \o seqs[m + 1]

\* The recursion of FlattenSeq has a solution.
LEMMA FlattenDefined ==
  ASSUME NEW S, NEW n \in Nat \ {0}, NEW seqs \in [1..n -> Seq(S)]
  PROVE  \E f : Beginnings(seqs, n, S, f) /\ FlattenSeq(seqs) = f[n]
<1>. DEFINE Step(f, i) == IF i = 1 THEN seqs[i] ELSE f[i - 1] \o seqs[i]
            Good(g, m) == g \in [1..m -> Seq(S)] /\ \A i \in 1..m : g[i] = Step(g, i)
            Reached == {m \in 0..n : \E g : Good(g, m)}
<1>1. 0 \in Reached
  <2>1. Good([i \in 1..0 |-> <<>>], 0)
    OBVIOUS
  <2>2. \E g : Good(g, 0)
    <3>. HIDE DEF Good
    <3>. QED
      BY <2>1
  <2>. HIDE DEF Good
  <2>. QED
    BY <2>2
<1>2. ASSUME NEW m \in 0..(n - 1), m \in Reached PROVE m + 1 \in Reached
  <2>1. PICK g : Good(g, m)
    BY <1>2
  <2>. DEFINE h == [i \in 1..(m + 1) |-> IF i = m + 1 THEN Step(g, i) ELSE g[i]]
  <2>2. Step(g, m + 1) \in Seq(S)
    <3>1. CASE m = 0
      BY <3>1
    <3>2. CASE m # 0
      <4>1. g[m] \in Seq(S) /\ seqs[m + 1] \in Seq(S) /\ (m + 1) - 1 = m
        BY <2>1, <3>2
      <4>2. g[m] \o seqs[m + 1] \in Seq(S)
        BY <4>1, Concatenated
      <4>. QED
        BY <4>1, <4>2, <3>2
    <3>. QED
      BY <3>1, <3>2
  <2>3. h \in [1..(m + 1) -> Seq(S)]
    <3>. HIDE DEF Step
    <3>. QED
      BY <2>1, <2>2
  <2>4. \A i \in 1..(m + 1) : h[i] = Step(h, i)
    <3>. SUFFICES ASSUME NEW i \in 1..(m + 1) PROVE h[i] = Step(h, i)
      OBVIOUS
    <3>1. Step(g, i) = Step(h, i)
      OBVIOUS
    <3>2. h[i] = Step(g, i)
      <4>1. CASE i = m + 1
        BY <4>1
      <4>2. CASE i # m + 1
        <5>1. i \in 1..m /\ h[i] = g[i]
          BY <4>2
        <5>. QED
          BY <2>1, <5>1
      <4>. QED
        BY <4>1, <4>2
    <3>. QED
      BY <3>1, <3>2
  <2>5. \E f : Good(f, m + 1)
    <3>1. Good(h, m + 1)
      BY <2>3, <2>4
    <3>. HIDE DEF Good, h
    <3>. QED
      BY <3>1
  <2>. HIDE DEF Good
  <2>. QED
    BY <2>5
<1>3. PICK g : Good(g, n)
  <2>1. \A m \in 0..n : m \in Reached
    <3>. HIDE DEF Reached
    <3>. QED
      BY <1>1, <1>2, UpTo
  <2>. HIDE DEF Good
  <2>. QED
    BY <2>1
<1>4. g = [i \in 1..n |-> Step(g, i)]
  BY <1>3
<1>. DEFINE f == CHOOSE f : f = [i \in 1..n |-> Step(f, i)]
<1>5. f = [i \in 1..n |-> Step(f, i)]
  BY <1>4
<1>6. FlattenSeq(seqs) = f[n]
  <2>1. Len(seqs) = n /\ n # 0
    OBVIOUS
  <2>. QED
    BY <2>1, Zenon DEF FlattenSeq
<1>. HIDE DEF f, Good, Reached
<1>7. \A i \in 1..n : f[i] = Step(f, i)
  BY <1>5
<1>8. f[1] = seqs[1]
  BY <1>7
<1>9. ASSUME NEW m \in 1..(n - 1) PROVE f[m + 1] = f[m] \o seqs[m + 1]
  <2>1. m + 1 \in 1..n /\ m + 1 # 1 /\ (m + 1) - 1 = m
    OBVIOUS
  <2>2. f[m + 1] = Step(f, m + 1)
    BY <1>7, <2>1
  <2>. QED
    BY <2>1, <2>2
<1>. HIDE DEF Step
<1>10. f \in [1..n -> Seq(S)]
  <2>. DEFINE T == {m \in 0..n : m = 0 \/ f[m] \in Seq(S)}
  <2>1. 0 \in T
    OBVIOUS
  <2>2. ASSUME NEW m \in 0..(n - 1), m \in T PROVE m + 1 \in T
    <3>1. seqs[m + 1] \in Seq(S)
      OBVIOUS
    <3>2. f[m + 1] \in Seq(S)
      <4>1. CASE m = 0
        BY <1>8, <3>1, <4>1
      <4>2. CASE m # 0
        <5>1. f[m] \in Seq(S) /\ m \in 1..(n - 1)
          BY <2>2, <4>2
        <5>2. f[m + 1] = f[m] \o seqs[m + 1]
          BY <1>9, <5>1
        <5>3. f[m] \o seqs[m + 1] \in Seq(S)
          BY <3>1, <5>1, Concatenated, Zenon
        <5>. QED
          BY <5>2, <5>3, Zenon
      <4>. QED
        BY <4>1, <4>2
    <3>. QED
      BY <3>2
  <2>3. \A m \in 0..n : m \in T
    <3>. HIDE DEF T
    <3>. QED
      BY <2>1, <2>2, UpTo
  <2>4. \A m \in 1..n : f[m] \in Seq(S)
    BY <2>3
  <2>. QED
    BY <1>5, <2>4
<1>. QED
  BY <1>6, <1>8, <1>9, <1>10 DEF Beginnings

\* What FlattenSeq returns, part by part.
LEMMA Flattened ==
  ASSUME NEW S, NEW seqs \in Seq(Seq(S))
  PROVE  /\ FlattenSeq(seqs) \in Seq(S)
         /\ \E at : EndsOf(seqs, FlattenSeq(seqs), at)
<1>1. CASE Len(seqs) = 0
  <2>1. FlattenSeq(seqs) = seqs /\ seqs = <<>>
    BY <1>1 DEF FlattenSeq
  <2>2. EndsOf(seqs, <<>>, [i \in 0..0 |-> 0])
    BY <2>1 DEF EndsOf
  <2>. QED
    BY <2>1, <2>2
<1>2. ASSUME NEW n \in Nat \ {0}, n = Len(seqs)
      PROVE  /\ FlattenSeq(seqs) \in Seq(S)
             /\ \E at : EndsOf(seqs, FlattenSeq(seqs), at)
  <2>0. /\ seqs \in [1..n -> Seq(S)]
        /\ \A i \in 1..n : seqs[i] \in Seq(S) /\ Len(seqs[i]) \in Nat
    BY <1>2
  <2>1. PICK f : Beginnings(seqs, n, S, f) /\ FlattenSeq(seqs) = f[n]
    BY <2>0, FlattenDefined
  <2>. DEFINE at == [i \in 0..n |-> IF i = 0 THEN 0 ELSE Len(f[i])]
  <2>2. /\ at \in [0..n -> Nat] /\ at[0] = 0
        /\ \A i \in 1..n : at[i] = Len(f[i]) /\ f[i] \in Seq(S)
    <3>1. \A i \in 1..n : f[i] \in Seq(S) /\ Len(f[i]) \in Nat
      BY <2>1 DEF Beginnings
    <3>. QED
      BY <3>1
  <2>. HIDE DEF at
  <2>3. \A i \in 0..n : at[i] \in Nat
    BY <2>2
  <2>4. ASSUME NEW m \in 1..(n - 1)
        PROVE  /\ m \in 1..n /\ m + 1 \in 1..n /\ at[m + 1] = at[m] + Len(seqs[m + 1])
               /\ \A p \in 1..at[m] : f[m + 1][p] = f[m][p]
               /\ \A j \in 1..Len(seqs[m + 1]) : f[m + 1][at[m] + j] = seqs[m + 1][j]
    <3>1. m \in 1..n /\ m + 1 \in 1..n
      OBVIOUS
    <3>2. /\ at[m] = Len(f[m]) /\ at[m + 1] = Len(f[m + 1]) /\ f[m] \in Seq(S)
          /\ seqs[m + 1] \in Seq(S) /\ f[m + 1] = f[m] \o seqs[m + 1]
      BY <2>0, <2>1, <2>2, <3>1 DEF Beginnings
    <3>3. /\ Len(f[m] \o seqs[m + 1]) = Len(f[m]) + Len(seqs[m + 1])
          /\ \A p \in 1..Len(f[m]) : (f[m] \o seqs[m + 1])[p] = f[m][p]
          /\ \A j \in 1..Len(seqs[m + 1]) :
               (f[m] \o seqs[m + 1])[Len(f[m]) + j] = seqs[m + 1][j]
      <4>1. ASSUME NEW s \in Seq(S), NEW t \in Seq(S)
            PROVE  /\ Len(s \o t) = Len(s) + Len(t)
                   /\ \A p \in 1..Len(s) : (s \o t)[p] = s[p]
                   /\ \A j \in 1..Len(t) : (s \o t)[Len(s) + j] = t[j]
        BY Concatenated
      <4>2. f[m] \in Seq(S) /\ seqs[m + 1] \in Seq(S)
        BY <3>2
      <4>. QED
        BY ONLY <4>1, <4>2
    <3>. QED
      BY <3>1, <3>2, <3>3
  <2>5. \A i \in 1..n : at[i] = at[i - 1] + Len(seqs[i])
    <3>. SUFFICES ASSUME NEW i \in 1..n PROVE at[i] = at[i - 1] + Len(seqs[i])
      OBVIOUS
    <3>1. CASE i = 1
      BY <2>0, <2>1, <2>2, <3>1 DEF Beginnings
    <3>2. CASE i # 1
      <4>1. i - 1 \in 1..(n - 1) /\ (i - 1) + 1 = i
        BY <3>2
      <4>2. at[(i - 1) + 1] = at[i - 1] + Len(seqs[(i - 1) + 1])
        BY <2>4, <4>1
      <4>. QED
        BY <4>1, <4>2
    <3>. QED
      BY <3>1, <3>2
  <2>. DEFINE Within(m) == \A i \in 1..m : \A j \in 1..Len(seqs[i]) :
                             at[i - 1] + j \in 1..at[m] /\ f[m][at[i - 1] + j] = seqs[i][j]
              Filled(m) == \A p \in 1..at[m] : \E i \in 1..m : \E j \in 1..Len(seqs[i]) :
                             p = at[i - 1] + j
              T == {m \in 0..n : m = 0 \/ (Within(m) /\ Filled(m))}
  <2>6. 0 \in T
    OBVIOUS
  <2>7. ASSUME NEW m \in 0..(n - 1), m \in T PROVE m + 1 \in T
    <3>1. CASE m = 0
      <4>1. f[1] = seqs[1] /\ at[1] = Len(seqs[1]) /\ at[0] = 0 /\ 1 - 1 = 0
            /\ Len(seqs[1]) \in Nat /\ m + 1 = 1 /\ \A i \in 1..1 : i = 1
        BY <2>0, <2>1, <2>2, <3>1 DEF Beginnings
      <4>2. Within(1)
        BY <4>1
      <4>3. Filled(1)
        <5>1. \A p \in 1..at[1] : p \in 1..Len(seqs[1]) /\ p = at[1 - 1] + p /\ 1 \in 1..1
          BY <4>1
        <5>. QED
          BY <5>1
      <4>. HIDE DEF Within, Filled
      <4>. QED
        BY <4>1, <4>2, <4>3
    <3>2. CASE m # 0
      <4>0. m \in 1..(n - 1) /\ at[m] \in Nat /\ at[m + 1] \in Nat /\ Len(seqs[m + 1]) \in Nat
            /\ (m + 1) - 1 = m
        BY <2>0, <2>3, <3>2
      <4>1. Within(m) /\ Filled(m)
        BY <2>7, <3>2
      <4>2. ASSUME NEW i \in 1..(m + 1), NEW j \in 1..Len(seqs[i])
            PROVE  at[i - 1] + j \in 1..at[m + 1] /\ f[m + 1][at[i - 1] + j] = seqs[i][j]
        <5>1. CASE i = m + 1
          <6>0. i - 1 = m
            BY <5>1
          <6>1. j \in 1..Len(seqs[m + 1]) /\ at[i - 1] = at[m]
            BY <5>1, <6>0
          <6>2. f[m + 1][at[m] + j] = seqs[m + 1][j] /\ at[m + 1] = at[m] + Len(seqs[m + 1])
            BY <2>4, <4>0, <6>1
          <6>3. \A a \in Nat : a + j \in 1..(a + Len(seqs[m + 1]))
            BY <4>0, <6>1
          <6>. QED
            BY <4>0, <5>1, <6>1, <6>2, <6>3
        <5>2. CASE i # m + 1
          <6>1. i \in 1..m
            BY <5>2
          <6>2. at[i - 1] + j \in 1..at[m] /\ f[m][at[i - 1] + j] = seqs[i][j]
            BY <4>1, <6>1
          <6>3. /\ f[m + 1][at[i - 1] + j] = f[m][at[i - 1] + j]
                /\ at[m + 1] = at[m] + Len(seqs[m + 1])
            BY <2>4, <4>0, <6>2
          <6>4. \A a, b \in Nat : 1..a \subseteq 1..(a + b)
            OBVIOUS
          <6>. QED
            BY <4>0, <6>2, <6>3, <6>4
        <5>. QED
          BY <5>1, <5>2
      <4>3. ASSUME NEW p \in 1..at[m + 1]
            PROVE  \E i \in 1..(m + 1) : \E j \in 1..Len(seqs[i]) : p = at[i - 1] + j
        <5>1. CASE p <= at[m]
          <6>1. p \in 1..at[m]
            BY <4>0, <5>1
          <6>2. PICK i \in 1..m : \E j \in 1..Len(seqs[i]) : p = at[i - 1] + j
            BY <4>1, <6>1
          <6>3. i \in 1..(m + 1)
            OBVIOUS
          <6>. QED
            BY <6>2, <6>3
        <5>2. CASE p > at[m]
          <6>0. at[m + 1] = at[m] + Len(seqs[m + 1])
            BY <2>4, <4>0
          <6>1. p - at[m] \in 1..Len(seqs[m + 1]) /\ p = at[m] + (p - at[m])
            <7>1. \A a, b \in Nat : p \in 1..(a + b) /\ p > a => p - a \in 1..b /\ p = a + (p - a)
              OBVIOUS
            <7>. QED
              BY <4>0, <5>2, <6>0, <7>1
          <6>2. p = at[(m + 1) - 1] + (p - at[m]) /\ m + 1 \in 1..(m + 1)
            BY <4>0, <6>1
          <6>. QED
            BY <6>1, <6>2
        <5>. QED
          BY <4>0, <5>1, <5>2
      <4>4. Within(m + 1) /\ Filled(m + 1)
        BY <4>2, <4>3
      <4>. HIDE DEF Within, Filled
      <4>. QED
        BY <4>4
    <3>. QED
      BY <3>1, <3>2
  <2>8. \A m \in 0..n : m \in T
    <3>. HIDE DEF T
    <3>. QED
      BY <2>6, <2>7, UpTo
  <2>9. Within(n) /\ Filled(n)
    <3>. HIDE DEF Within, Filled
    <3>. QED
      BY <2>8
  <2>10. EndsOf(seqs, f[n], at)
    <3>1. Len(f[n]) = at[n]
      BY <2>2
    <3>. QED
      BY <1>2, <2>2, <2>5, <2>9, <3>1 DEF EndsOf
  <2>. QED
    BY <2>1, <2>2, <2>10
<1>. QED
  BY <1>1, <1>2

\* So a flattened sequence has the elements of its parts.
LEMMA FlattenedSet ==
  ASSUME NEW S, NEW seqs \in Seq(Seq(S))
  PROVE  ToSet(FlattenSeq(seqs)) = UNION {ToSet(seqs[i]) : i \in DOMAIN seqs}
<1>. DEFINE flat == FlattenSeq(seqs)
<1>1. flat \in Seq(S)
  BY Flattened
<1>2. PICK at : EndsOf(seqs, flat, at)
  BY Flattened
<1>. HIDE DEF flat
<1>3. DOMAIN flat = 1..Len(flat) /\ DOMAIN seqs = 1..Len(seqs)
      /\ \A i \in DOMAIN seqs : DOMAIN seqs[i] = 1..Len(seqs[i])
  BY <1>1
<1>4. ASSUME NEW p \in DOMAIN flat PROVE \E i \in DOMAIN seqs : flat[p] \in ToSet(seqs[i])
  <2>1. PICK i \in 1..Len(seqs) : \E j \in 1..Len(seqs[i]) : p = at[i - 1] + j
    BY <1>2, <1>3 DEF EndsOf
  <2>2. PICK j \in 1..Len(seqs[i]) : p = at[i - 1] + j
    BY <2>1
  <2>3. flat[p] = seqs[i][j]
    BY <1>2, <2>2 DEF EndsOf
  <2>. QED
    BY <1>3, <2>3 DEF ToSet
<1>5. ASSUME NEW i \in DOMAIN seqs, NEW j \in DOMAIN seqs[i] PROVE seqs[i][j] \in ToSet(flat)
  <2>1. i \in 1..Len(seqs) /\ j \in 1..Len(seqs[i])
    BY <1>3
  <2>2. at[i - 1] + j \in 1..Len(flat) /\ flat[at[i - 1] + j] = seqs[i][j]
    BY <1>2, <2>1 DEF EndsOf
  <2>. QED
    BY <1>3, <2>2 DEF ToSet
<1>. QED
  BY <1>4, <1>5 DEF ToSet, flat

\* SetToSeq lists a finite set, each element once.
LEMMA Listed ==
  ASSUME NEW S, IsFiniteSet(S)
  PROVE  /\ SetToSeq(S) \in Seq(S) /\ Len(SetToSeq(S)) = Cardinality(S)
         /\ ToSet(SetToSeq(S)) = S /\ IsInjective(SetToSeq(S))
<1>. DEFINE n == Cardinality(S)
            F == {f \in [1..n -> S] : IsInjective(f)}
<1>1. n \in Nat /\ ExistsBijection(1..n, S)
  BY FS_CardinalityType
<1>2. PICK b \in Bijection(1..n, S) : TRUE
  BY <1>1 DEF ExistsBijection
<1>3. b \in [1..n -> S] /\ IsInjective(b)
  BY <1>2 DEF Bijection, Injection
<1>4. SetToSeq(S) \in [1..n -> S] /\ IsInjective(SetToSeq(S))
  BY <1>3 DEF SetToSeq
<1>5. SetToSeq(S) \in Injection(1..n, S)
  BY <1>4 DEF Injection
<1>6. IsFiniteSet(1..n) /\ Cardinality(1..n) = n
  BY <1>1, FS_Interval
<1>7. SetToSeq(S) \in Surjection(1..n, S)
  BY <1>5, <1>6, FS_Injection
<1>. QED
  BY <1>1, <1>4, <1>7 DEF Surjection, ToSet
-------------------------------------------------------------------------------
(* What is left of a text without its markers                                  *)

\* Where the tokens of a text are without the markers: at[k] tokens of the first k are kept.
Keeps(text, kept, at) ==
  /\ at \in [0..Len(text) -> Nat] /\ at[0] = 0 /\ Len(kept) = at[Len(text)]
  /\ \A k \in 1..Len(text) :
       /\ text[k].kind = "marker" => at[k] = at[k - 1]
       /\ text[k].kind # "marker" =>
            at[k] = at[k - 1] + 1 /\ at[k] \in 1..Len(kept) /\ kept[at[k]] = text[k]
  /\ \A p \in 1..Len(kept) : \E k \in 1..Len(text) :
       text[k].kind # "marker" /\ p = at[k] /\ kept[p] = text[k]

\* parse_citations keeps the tokens that are no markers, in their order.
LEMMA ParsedText ==
  ASSUME NEW S, NEW text \in Seq(S)
  PROVE  /\ Parse(text).text \in Seq(S)
         /\ \E at : Keeps(text, Parse(text).text, at)
<1>. DEFINE n == Len(text)
            seqs == [k \in DOMAIN text |-> WithoutMarker(text[k])]
            flat == FlattenSeq(seqs)
<1>1. n \in Nat /\ DOMAIN text = 1..n /\ \A k \in 1..n : text[k] \in S
  OBVIOUS
<1>2. \A k \in 1..n :
        /\ WithoutMarker(text[k]) \in Seq(S)
        /\ text[k].kind = "marker" => Len(WithoutMarker(text[k])) = 0
        /\ text[k].kind # "marker" =>
             Len(WithoutMarker(text[k])) = 1 /\ WithoutMarker(text[k])[1] = text[k]
  BY <1>1 DEF WithoutMarker
<1>3. seqs \in Seq(Seq(S)) /\ Len(seqs) = n /\ \A k \in 1..n : seqs[k] = WithoutMarker(text[k])
  BY <1>1, <1>2
<1>4. Parse(text).text = flat
  BY DEF Parse
<1>. HIDE DEF seqs, n
<1>5. flat \in Seq(S)
  BY <1>3, Flattened
<1>6. PICK at : EndsOf(seqs, flat, at)
  BY <1>3, Flattened
<1>. HIDE DEF flat
<1>7. /\ at \in [0..n -> Nat] /\ at[0] = 0 /\ Len(flat) = at[n]
      /\ \A k \in 1..n : at[k] = at[k - 1] + Len(seqs[k])
      /\ \A k \in 1..n : \A j \in 1..Len(seqs[k]) :
           at[k - 1] + j \in 1..Len(flat) /\ flat[at[k - 1] + j] = seqs[k][j]
      /\ \A p \in 1..Len(flat) : \E k \in 1..n : \E j \in 1..Len(seqs[k]) : p = at[k - 1] + j
  BY <1>3, <1>6 DEF EndsOf
<1>8. \A k \in 0..n : at[k] \in Nat
  BY <1>7
<1>9. ASSUME NEW k \in 1..n
      PROVE  /\ text[k].kind = "marker" => at[k] = at[k - 1]
             /\ text[k].kind # "marker" =>
                  at[k] = at[k - 1] + 1 /\ at[k] \in 1..Len(flat) /\ flat[at[k]] = text[k]
  <2>1. k - 1 \in 0..n /\ at[k - 1] \in Nat
    BY <1>1, <1>8
  <2>2. CASE text[k].kind = "marker"
    <3>1. Len(seqs[k]) = 0 /\ at[k] = at[k - 1] + Len(seqs[k])
      BY <1>2, <1>3, <1>7, <2>2
    <3>. QED
      BY <2>1, <2>2, <3>1
  <2>3. CASE text[k].kind # "marker"
    <3>1. Len(seqs[k]) = 1 /\ seqs[k][1] = text[k] /\ 1 \in 1..1
      BY <1>2, <1>3, <2>3
    <3>2. at[k - 1] + 1 \in 1..Len(flat) /\ flat[at[k - 1] + 1] = text[k] /\ at[k] = at[k - 1] + 1
      BY <1>7, <3>1
    <3>. QED
      BY <2>3, <3>2
  <2>. QED
    BY <2>2, <2>3
<1>10. ASSUME NEW p \in 1..Len(flat)
       PROVE  \E k \in 1..n : text[k].kind # "marker" /\ p = at[k] /\ flat[p] = text[k]
  <2>1. PICK k \in 1..n : \E j \in 1..Len(seqs[k]) : p = at[k - 1] + j
    BY <1>7
  <2>2. PICK j \in 1..Len(seqs[k]) : p = at[k - 1] + j
    BY <2>1
  <2>3. text[k].kind # "marker"
    BY <1>2, <1>3, <2>2
  <2>4. Len(seqs[k]) = 1
    BY <1>2, <1>3, <2>3
  <2>5. j = 1
    BY <2>2, <2>4
  <2>. QED
    BY <1>9, <2>2, <2>3, <2>5
<1>11. Keeps(text, flat, at)
  <2>1. at \in [0..n -> Nat] /\ at[0] = 0 /\ Len(flat) = at[n]
    BY <1>7
  <2>. QED
    BY <2>1, <1>9, <1>10, Zenon DEF Keeps, n
<1>. QED
  BY <1>4, <1>5, <1>11

\* No marker is left.
LEMMA NoMarkerLeft ==
  ASSUME NEW S, NEW text \in Seq(S)
  PROVE  \A k \in DOMAIN Parse(text).text : Parse(text).text[k].kind # "marker"
<1>1. Parse(text).text \in Seq(S)
  BY ParsedText
<1>2. PICK at : Keeps(text, Parse(text).text, at)
  BY ParsedText
<1>3. DOMAIN Parse(text).text = 1..Len(Parse(text).text)
  BY <1>1
<1>. QED
  BY <1>2, <1>3 DEF Keeps

\* How many markers there are among the first m tokens.
LEMMA MarkersCounted ==
  ASSUME NEW S, NEW text \in Seq(S), NEW kept, NEW at, Keeps(text, kept, at)
  PROVE  \A m \in 0..Len(text) :
           /\ IsFiniteSet({p \in Markers(text) : p <= m})
           /\ Cardinality({p \in Markers(text) : p <= m}) = m - at[m]
<1>. DEFINE n == Len(text)
            Before(m) == {p \in Markers(text) : p <= m}
            T == {m \in 0..n : IsFiniteSet(Before(m)) /\ Cardinality(Before(m)) = m - at[m]}
<1>1. n \in Nat /\ DOMAIN text = 1..n /\ Markers(text) = {m \in 1..n : text[m].kind = "marker"}
  BY DEF Markers
<1>. HIDE DEF n
<1>2. /\ at \in [0..n -> Nat] /\ at[0] = 0
      /\ \A k \in 1..n : /\ text[k].kind = "marker" => at[k] = at[k - 1]
                         /\ text[k].kind # "marker" => at[k] = at[k - 1] + 1
  BY DEF Keeps, n
<1>3. 0 \in T
  <2>1. Before(0) = {}
    BY <1>1
  <2>. QED
    BY <1>1, <1>2, <2>1, FS_EmptySet
<1>4. ASSUME NEW m \in 0..(n - 1), m \in T PROVE m + 1 \in T
  <2>0. m + 1 \in 1..n /\ (m + 1) - 1 = m /\ m \in 0..n /\ at[m] \in Nat /\ at[m + 1] \in Nat
    BY <1>1, <1>2
  <2>1. IsFiniteSet(Before(m)) /\ Cardinality(Before(m)) = m - at[m]
    BY <1>4
  <2>2. CASE text[m + 1].kind = "marker"
    <3>1. Before(m + 1) = Before(m) \cup {m + 1} /\ m + 1 \notin Before(m)
      BY <1>1, <2>0, <2>2
    <3>2. at[m + 1] = at[m]
      BY <1>2, <2>0, <2>2
    <3>. HIDE DEF Before
    <3>3. IsFiniteSet(Before(m + 1)) /\ Cardinality(Before(m + 1)) = Cardinality(Before(m)) + 1
      BY <2>1, <3>1, FS_AddElement
    <3>. QED
      BY <2>0, <2>1, <3>2, <3>3
  <2>3. CASE text[m + 1].kind # "marker"
    <3>1. Before(m + 1) = Before(m)
      BY <1>1, <2>0, <2>3
    <3>2. at[m + 1] = at[m] + 1
      BY <1>2, <2>0, <2>3
    <3>. HIDE DEF Before
    <3>. QED
      BY <2>0, <2>1, <3>1, <3>2
  <2>. QED
    BY <2>2, <2>3
<1>5. \A m \in 0..n : m \in T
  <2>. HIDE DEF T
  <2>. QED
    BY <1>1, <1>3, <1>4, UpTo
<1>. QED
  BY <1>5 DEF n

-------------------------------------------------------------------------------
(* The spans of a text                                                         *)

\* A span of a call of the turn, over one token or over the tail of one.
OverToken(s) ==
  \E j \in Int : s \in {Span(HeadAt(j), EndAt(j), s.id), Span(TailAt(j), EndAt(j), s.id)}

\* A marker makes one span or none, over a token and of a call of the turn.
LEMMA SpansAtMarker ==
  ASSUME NEW S, NEW text \in Seq(S), NEW m \in DOMAIN text
  PROVE  /\ IsFiniteSet(SpansAt(text, m))
         /\ \A s \in SpansAt(text, m) : OverToken(s) /\ s.id \in Ids
<1>. DEFINE from == EndAt(m - 1) - Window
            last == {k \in InReach(text, m) : \A n \in InReach(text, m) : n <= k}
            SpanOf(f) == Span(f[1] - Shift(text, m, f[1]), f[2] - Shift(text, m, f[1]), text[m].id)
<1>0. DOMAIN text = 1..Len(text) /\ Len(text) \in Nat
  OBVIOUS
<1>1. CASE SpansAt(text, m) = {}
  BY <1>1, FS_EmptySet
<1>2. CASE SpansAt(text, m) # {}
  <2>1. m \in KnownMarkers(text) /\ text[m].id \in Ids /\ CitedFragment(text, m) # {}
    BY <1>2 DEF SpansAt, KnownMarkers
  <2>2. PICK k : k \in last
    BY <2>1 DEF CitedFragment
  <2>3. k \in Int /\ last = {k}
    BY <1>0, <2>2 DEF InReach
  <2>. DEFINE f == Extent(text[k], k, from)
  <2>4. CitedFragment(text, m) = {f}
    BY <2>3 DEF CitedFragment
  <2>5. f \in {<<HeadAt(k), EndAt(k)>>, <<TailAt(k), EndAt(k)>>}
    BY DEF Extent
  <2>. HIDE DEF f, last
  <2>6. SpansAt(text, m) = {SpanOf(f)}
    BY <2>1, <2>4 DEF SpansAt
  <2>7. PICK c \in Nat : Shift(text, m, f[1]) = 3 * c
    <3>. DEFINE M == {p \in Markers(text) : p < m /\ EndAt(p) <= f[1]}
    <3>1. M \in SUBSET (1..Len(text))
      BY <1>0 DEF Markers
    <3>2. IsFiniteSet(M)
      <4>1. IsFiniteSet(1..Len(text))
        BY <1>0, FS_Interval
      <4>. HIDE DEF M
      <4>. QED
        BY <3>1, <4>1, FS_Subset
    <3>3. Cardinality(M) \in Nat
      BY <3>2, FS_CardinalityType
    <3>. QED
      BY <3>3 DEF Shift
  <2>8. k - c \in Int /\ HeadAt(k) - 3 * c = HeadAt(k - c) /\ TailAt(k) - 3 * c = TailAt(k - c)
        /\ EndAt(k) - 3 * c = EndAt(k - c)
    BY <2>3 DEF HeadAt, TailAt, EndAt
  <2>9. SpanOf(f).id = text[m].id
    BY DEF Span
  <2>10. SpanOf(f) \in {Span(HeadAt(k - c), EndAt(k - c), SpanOf(f).id),
                        Span(TailAt(k - c), EndAt(k - c), SpanOf(f).id)}
    BY <2>5, <2>7, <2>8, <2>9
  <2>11. OverToken(SpanOf(f))
    BY <2>8, <2>10 DEF OverToken
  <2>. HIDE DEF SpanOf
  <2>12. IsFiniteSet({SpanOf(f)})
    BY FS_Singleton
  <2>. QED
    BY <2>1, <2>6, <2>9, <2>11, <2>12
<1>. QED
  BY <1>1, <1>2

\* A text's spans are those of its markers, none left out as seen before.
LEMMA ParsedSpans ==
  ASSUME NEW S, NEW text \in Seq(S)
  PROVE  /\ Parse(text).spans \in Seq(UNION {SpansAt(text, m) : m \in DOMAIN text})
         /\ ToSet(Parse(text).spans) = UNION {SpansAt(text, m) : m \in DOMAIN text}
<1>. DEFINE n == Len(text)
            All == UNION {SpansAt(text, m) : m \in DOMAIN text}
            seqs == [m \in DOMAIN text |-> SetToSeq(NewSpans(text, m))]
<1>1. n \in Nat /\ DOMAIN text = 1..n
  OBVIOUS
<1>2. \A m \in 1..n : /\ NewSpans(text, m) \subseteq All
                      /\ SetToSeq(NewSpans(text, m)) \in Seq(All)
                      /\ ToSet(SetToSeq(NewSpans(text, m))) = NewSpans(text, m)
  <2>. SUFFICES ASSUME NEW m \in 1..n
                PROVE  /\ NewSpans(text, m) \subseteq All
                       /\ SetToSeq(NewSpans(text, m)) \in Seq(All)
                       /\ ToSet(SetToSeq(NewSpans(text, m))) = NewSpans(text, m)
    OBVIOUS
  <2>1. IsFiniteSet(SpansAt(text, m))
    BY <1>1, SpansAtMarker
  <2>2. NewSpans(text, m) \in SUBSET SpansAt(text, m) /\ NewSpans(text, m) \subseteq All
    BY <1>1 DEF NewSpans
  <2>3. IsFiniteSet(NewSpans(text, m))
    BY <2>1, <2>2, FS_Subset
  <2>4. SetToSeq(NewSpans(text, m)) \in Seq(NewSpans(text, m))
        /\ ToSet(SetToSeq(NewSpans(text, m))) = NewSpans(text, m)
    BY <2>3, Listed
  <2>. HIDE DEF All
  <2>5. \A s \in Seq(NewSpans(text, m)) : s \in Seq(All)
    BY <2>2
  <2>. QED
    BY <2>2, <2>4, <2>5
<1>3. seqs \in Seq(Seq(All)) /\ DOMAIN seqs = 1..n
      /\ \A m \in 1..n : seqs[m] = SetToSeq(NewSpans(text, m))
  <2>. HIDE DEF All
  <2>. QED
    BY <1>1, <1>2
<1>4. Parse(text).spans = FlattenSeq(seqs)
  BY DEF Parse
<1>. HIDE DEF seqs
<1>5. FlattenSeq(seqs) \in Seq(All)
  <2>. HIDE DEF All
  <2>. QED
    BY <1>3, Flattened
<1>6. ToSet(FlattenSeq(seqs)) = UNION {ToSet(seqs[m]) : m \in 1..n}
  <2>. HIDE DEF All
  <2>. QED
    BY <1>3, FlattenedSet
<1>7. ToSet(FlattenSeq(seqs)) = UNION {NewSpans(text, m) : m \in 1..n}
  BY <1>2, <1>3, <1>6
<1>8. ASSUME NEW s \in All PROVE \E m \in 1..n : s \in NewSpans(text, m)
  <2>. DEFINE T == {m \in 0..n : \A p \in 1..m : s \notin SpansAt(text, p)}
  <2>. SUFFICES ASSUME \A m \in 1..n : s \notin NewSpans(text, m) PROVE FALSE
    OBVIOUS
  <2>1. 0 \in T
    BY <1>1
  <2>2. ASSUME NEW m \in 0..(n - 1), m \in T PROVE m + 1 \in T
    <3>1. m + 1 \in 1..n /\ (m + 1) - 1 = m /\ \A p \in 1..(m + 1) : p = m + 1 \/ p \in 1..m
      BY <1>1
    <3>2. s \notin UNION {SpansAt(text, p) : p \in 1..m}
      BY <2>2
    <3>3. s \notin SpansAt(text, m + 1)
      BY <3>1, <3>2 DEF NewSpans
    <3>. QED
      BY <2>2, <3>1, <3>3
  <2>3. \A m \in 0..n : m \in T
    <3>. HIDE DEF T
    <3>. QED
      BY <1>1, <2>1, <2>2, UpTo
  <2>4. \A p \in 1..n : s \notin SpansAt(text, p)
    BY <1>1, <2>3
  <2>. QED
    BY <1>1, <2>4
<1>9. ToSet(FlattenSeq(seqs)) = All
  BY <1>2, <1>7, <1>8
<1>. QED
  BY <1>4, <1>5, <1>9

-------------------------------------------------------------------------------
(* Sorting                                                                     *)

\* Sorting loses no span, makes up none and repeats none, and orders them by their starts.
LEMMA SortedSpans ==
  ASSUME NEW S, NEW spans \in Seq(S), \A s \in S : s.start \in Int /\ s.end \in Int
  PROVE  /\ Sorted(spans) \in Seq(S) /\ ToSet(Sorted(spans)) = ToSet(spans)
         /\ IsInjective(spans) => IsInjective(Sorted(spans))
         /\ \A p, q \in DOMAIN Sorted(spans) :
              p < q => Sorted(spans)[p].start <= Sorted(spans)[q].start
<1>. DEFINE n == Len(spans)
            Upto(i) == {j \in 1..n :
              Earlier(spans[j], spans[i]) \/ (j <= i /\ ~Earlier(spans[i], spans[j]))}
            place == [i \in 1..n |-> Place(spans, i)]
<1>1. n \in Nat /\ DOMAIN spans = 1..n
      /\ \A i \in 1..n : spans[i] \in S /\ spans[i].start \in Int /\ spans[i].end \in Int
  OBVIOUS
<1>. HIDE DEF n
<1>2. \A i \in 1..n : Place(spans, i) = Cardinality(Upto(i))
  BY <1>1 DEF Place
<1>3. \A i \in 1..n : /\ Upto(i) \in SUBSET (1..n) /\ IsFiniteSet(Upto(i))
                      /\ Cardinality(Upto(i)) \in Nat /\ Cardinality(Upto(i)) <= n
                      /\ i \in Upto(i)
  <2>. SUFFICES ASSUME NEW i \in 1..n
                PROVE  /\ Upto(i) \in SUBSET (1..n) /\ IsFiniteSet(Upto(i))
                       /\ Cardinality(Upto(i)) \in Nat /\ Cardinality(Upto(i)) <= n
                       /\ i \in Upto(i)
    OBVIOUS
  <2>1. Upto(i) \in SUBSET (1..n)
    OBVIOUS
  <2>2. IsFiniteSet(1..n) /\ Cardinality(1..n) = n
    BY <1>1, FS_Interval
  <2>3. i \in Upto(i)
    BY <1>1 DEF Earlier
  <2>. HIDE DEF Upto
  <2>4. IsFiniteSet(Upto(i)) /\ Cardinality(Upto(i)) <= n
    BY <2>1, <2>2, FS_Subset
  <2>. QED
    BY <2>1, <2>3, <2>4, FS_CardinalityType
<1>4. ASSUME NEW i \in 1..n, NEW k \in 1..n, i # k, i \in Upto(k)
      PROVE  Cardinality(Upto(i)) < Cardinality(Upto(k))
  <2>1. k \notin Upto(i)
    BY <1>1, <1>4 DEF Earlier
  <2>2. ASSUME NEW j \in Upto(i) PROVE j \in Upto(k)
    BY <1>1, <1>4 DEF Earlier
  <2>. HIDE DEF Upto
  <2>3. Upto(i) \in SUBSET Upto(k) /\ Upto(i) # Upto(k)
    BY <1>3, <2>1, <2>2
  <2>4. Cardinality(Upto(i)) <= Cardinality(Upto(k)) /\ Cardinality(Upto(i)) # Cardinality(Upto(k))
    BY <1>3, <2>3, FS_Subset
  <2>. QED
    BY <1>3, <2>4
<1>5. \A i, k \in 1..n : /\ i \in Upto(k) \/ k \in Upto(i)
                         /\ spans[i].start < spans[k].start => i \in Upto(k)
  BY <1>1 DEF Earlier
<1>. HIDE DEF Upto
<1>6. \A i, k \in 1..n : i # k => Place(spans, i) # Place(spans, k)
  BY <1>2, <1>3, <1>4, <1>5
<1>7. \A i \in 1..n : Place(spans, i) \in 1..n
  <2>. SUFFICES ASSUME NEW i \in 1..n PROVE Place(spans, i) \in 1..n
    OBVIOUS
  <2>1. Cardinality(Upto(i)) # 0
    BY <1>3, FS_EmptySet
  <2>. QED
    BY <1>1, <1>2, <1>3, <2>1
<1>8. place \in Injection(1..n, 1..n)
  BY <1>6, <1>7 DEF Injection, IsInjective
<1>9. \A p \in 1..n : \E i \in 1..n : Place(spans, i) = p
  <2>1. IsFiniteSet(1..n)
    BY <1>1, FS_Interval
  <2>2. place \in Surjection(1..n, 1..n)
    BY <1>8, <2>1, FS_Injection
  <2>. QED
    BY <2>2 DEF Surjection
<1>. DEFINE Pick(p) == CHOOSE i \in 1..n : Place(spans, i) = p
<1>10. \A p \in 1..n : Pick(p) \in 1..n /\ Place(spans, Pick(p)) = p
  BY <1>9
<1>11. \A i \in 1..n : Pick(Place(spans, i)) = i
  <2>. SUFFICES ASSUME NEW i \in 1..n PROVE Pick(Place(spans, i)) = i
    OBVIOUS
  <2>1. Pick(Place(spans, i)) \in 1..n /\ Place(spans, Pick(Place(spans, i))) = Place(spans, i)
    BY <1>7, <1>10
  <2>. HIDE DEF Pick
  <2>. QED
    BY <1>6, <2>1
<1>12. Sorted(spans) = [p \in 1..n |-> spans[Pick(p)]]
  BY <1>1 DEF Sorted
<1>. HIDE DEF Pick
<1>13. Sorted(spans) \in [1..n -> S]
  BY <1>1, <1>10, <1>12
<1>14. Sorted(spans) \in Seq(S) /\ DOMAIN Sorted(spans) = 1..n
       /\ \A p \in 1..n : Sorted(spans)[p] = spans[Pick(p)]
  BY <1>1, <1>12, <1>13
<1>15. \A p \in 1..n : Sorted(spans)[p] \in ToSet(spans)
  BY <1>1, <1>10, <1>14 DEF ToSet
<1>16. \A i \in 1..n : spans[i] \in ToSet(Sorted(spans))
  BY <1>7, <1>11, <1>14 DEF ToSet
<1>17. ASSUME IsInjective(spans) PROVE IsInjective(Sorted(spans))
  <2>. SUFFICES ASSUME NEW p \in 1..n, NEW q \in 1..n, Sorted(spans)[p] = Sorted(spans)[q]
                PROVE  p = q
    BY <1>14 DEF IsInjective
  <2>1. spans[Pick(p)] = spans[Pick(q)] /\ Pick(p) \in DOMAIN spans /\ Pick(q) \in DOMAIN spans
    BY <1>1, <1>10, <1>14
  <2>2. Pick(p) = Pick(q)
    BY <1>17, <2>1 DEF IsInjective
  <2>. QED
    BY <1>10, <2>2
<1>18. ASSUME NEW p \in 1..n, NEW q \in 1..n, p < q
       PROVE  Sorted(spans)[p].start <= Sorted(spans)[q].start
  <2>. DEFINE i == Pick(p)
              k == Pick(q)
  <2>1. i \in 1..n /\ k \in 1..n /\ Place(spans, i) = p /\ Place(spans, k) = q
    BY <1>10
  <2>2. Sorted(spans)[p] = spans[i] /\ Sorted(spans)[q] = spans[k]
    BY <1>14
  <2>. HIDE DEF i, k
  <2>3. ASSUME spans[k].start < spans[i].start PROVE FALSE
    <3>1. k \in Upto(i) /\ k # i
      BY <1>1, <1>5, <2>1, <2>3
    <3>2. Cardinality(Upto(k)) < Cardinality(Upto(i))
      BY <1>4, <2>1, <3>1
    <3>. QED
      BY <1>2, <1>18, <2>1, <3>2
  <2>. QED
    BY <1>1, <2>1, <2>2, <2>3
<1>. QED
  BY <1>1, <1>14, <1>15, <1>16, <1>17, <1>18 DEF ToSet

-------------------------------------------------------------------------------
(* Grounding                                                                   *)

NoMarkers(text) == \A k \in DOMAIN text : text[k].kind # "marker"
Marked(S) == S \cup {Marker(id) : id \in Ids}

\* The number at k has no span, and the index has its form of one call.
Grounds(text, spans, k) ==
  k \in Uncited(text, spans) /\ Cardinality(Candidates(text[k].form)) = 1
Blocks(text, spans) == [k \in DOMAIN text |-> WithSource(text, spans, k)]

\* A token, and its source behind it if it is grounded.
LEMMA Block ==
  ASSUME NEW S, NEW text \in Seq(S), NEW spans, NEW k \in DOMAIN text
  PROVE  /\ WithSource(text, spans, k) \in Seq(Marked(S))
         /\ WithSource(text, spans, k)[1] = text[k]
         /\ ~Grounds(text, spans, k) => Len(WithSource(text, spans, k)) = 1
         /\ Grounds(text, spans, k) =>
              /\ Len(WithSource(text, spans, k)) = 2
              /\ \E id \in Candidates(text[k].form) : WithSource(text, spans, k)[2] = Marker(id)
<1>. DEFINE A == Marked(S)
<1>0. text[k] \in A
  BY DEF Marked
<1>1. CASE ~Grounds(text, spans, k)
  <2>1. WithSource(text, spans, k) = <<text[k]>>
    BY <1>1 DEF WithSource, Grounds
  <2>. QED
    BY <1>0, <1>1, <2>1
<1>2. CASE Grounds(text, spans, k)
  <2>. DEFINE C == Candidates(text[k].form)
  <2>1. C \in SUBSET Ids /\ IsFiniteSet(C) /\ Cardinality(C) = 1
    <3>1. C \in SUBSET Ids
      BY DEF Candidates
    <3>. HIDE DEF C
    <3>2. IsFiniteSet(C)
      BY <3>1, CitationsAssumption, FS_Subset
    <3>. QED
      BY <1>2, <3>1, <3>2 DEF Grounds, C
  <2>. HIDE DEF C
  <2>2. PICK id : C = {id}
    BY <2>1, FS_Singleton
  <2>3. {Marker(i) : i \in C} = {Marker(id)} /\ id \in Ids
    BY <2>1, <2>2
  <2>4. IsFiniteSet({Marker(id)}) /\ Cardinality({Marker(id)}) = 1
    BY FS_Singleton
  <2>. DEFINE L == SetToSeq({Marker(id)})
  <2>5. L \in Seq({Marker(id)}) /\ Len(L) = 1
    BY <2>4, Listed
  <2>6. WithSource(text, spans, k) = <<text[k]>> \o L
    BY <1>2, <2>3 DEF WithSource, Grounds, C
  <2>. HIDE DEF L
  <2>7. L[1] = Marker(id) /\ L \in Seq(A)
    <3>1. L[1] \in {Marker(id)}
      <4>1. \A i \in 1..Len(L) : L[i] \in {Marker(id)}
        BY <2>5
      <4>. QED
        BY <2>5, <4>1
    <3>2. {Marker(id)} \subseteq A
      BY <2>3 DEF Marked
    <3>. HIDE DEF A
    <3>3. \A s \in Seq({Marker(id)}) : s \in Seq(A)
      BY <3>2
    <3>. QED
      BY <2>5, <3>1, <3>3
  <2>. HIDE DEF A
  <2>8. <<text[k]>> \in Seq(A) /\ Len(<<text[k]>>) = 1 /\ <<text[k]>>[1] = text[k]
    BY <1>0
  <2>9. /\ <<text[k]>> \o L \in Seq(A) /\ Len(<<text[k]>> \o L) = 2
        /\ (<<text[k]>> \o L)[1] = text[k] /\ (<<text[k]>> \o L)[2] = L[1]
    <3>. DEFINE H == <<text[k]>>
    <3>1. H \in Seq(A) /\ Len(H) = 1 /\ H[1] = text[k]
      BY <2>8
    <3>. HIDE DEF H
    <3>2. /\ H \o L \in Seq(A) /\ Len(H \o L) = Len(H) + Len(L)
          /\ \A p \in 1..Len(H) : (H \o L)[p] = H[p]
          /\ \A p \in 1..Len(L) : (H \o L)[Len(H) + p] = L[p]
      <4>1. ASSUME NEW s \in Seq(A), NEW t \in Seq(A)
            PROVE  /\ s \o t \in Seq(A) /\ Len(s \o t) = Len(s) + Len(t)
                   /\ \A p \in 1..Len(s) : (s \o t)[p] = s[p]
                   /\ \A p \in 1..Len(t) : (s \o t)[Len(s) + p] = t[p]
        BY Concatenated
      <4>2. H \in Seq(A) /\ L \in Seq(A)
        BY <2>7, <3>1
      <4>. QED
        BY ONLY <4>1, <4>2
    <3>3. 1 \in 1..Len(H) /\ 1 \in 1..Len(L) /\ Len(H) + Len(L) = 2 /\ Len(H) + 1 = 2
      BY <2>5, <3>1
    <3>4. H \o L \in Seq(A) /\ Len(H \o L) = 2 /\ (H \o L)[1] = text[k] /\ (H \o L)[2] = L[1]
      BY <3>1, <3>2, <3>3
    <3>. QED
      BY <3>4 DEF H
  <2>10. id \in Candidates(text[k].form)
    BY <2>2 DEF C
  <2>. QED
    BY <1>2, <2>6, <2>7, <2>9, <2>10 DEF A
<1>. QED
  BY <1>1, <1>2

\* Where the tokens of a text are when their sources have been marked: text[k] behind
\* at[k - 1], and at[k] - k markers among the first k tokens and their sources.  A marker
\* is of a call that has returned the number before it.
Marks(text, spans, marked, at) ==
  /\ at \in [0..Len(text) -> Nat] /\ at[0] = 0 /\ Len(marked) = at[Len(text)]
  /\ \A k \in 1..Len(text) :
       /\ at[k - 1] + 1 \in 1..Len(marked) /\ marked[at[k - 1] + 1] = text[k]
       /\ ~Grounds(text, spans, k) => at[k] = at[k - 1] + 1
       /\ Grounds(text, spans, k) =>
            /\ at[k] = at[k - 1] + 2 /\ at[k - 1] + 2 \in 1..Len(marked)
            /\ \E id \in Candidates(text[k].form) : marked[at[k - 1] + 2] = Marker(id)
  /\ \A p \in 1..Len(marked) : \E k \in 1..Len(text) :
       p = at[k - 1] + 1 \/ (Grounds(text, spans, k) /\ p = at[k - 1] + 2)

\* auto_ground inserts one marker behind each number it grounds, and nothing else.
LEMMA MarkedText ==
  ASSUME NEW S, NEW text \in Seq(S), NEW spans
  PROVE  /\ FlattenSeq(Blocks(text, spans)) \in Seq(Marked(S))
         /\ \E at : Marks(text, spans, FlattenSeq(Blocks(text, spans)), at)
<1>. DEFINE n == Len(text)
            A == Marked(S)
            seqs == Blocks(text, spans)
            flat == FlattenSeq(seqs)
<1>1. n \in Nat /\ DOMAIN text = 1..n
  OBVIOUS
<1>2. \A k \in 1..n :
        /\ WithSource(text, spans, k) \in Seq(A)
        /\ WithSource(text, spans, k)[1] = text[k]
        /\ ~Grounds(text, spans, k) => Len(WithSource(text, spans, k)) = 1
        /\ Grounds(text, spans, k) =>
             /\ Len(WithSource(text, spans, k)) = 2
             /\ \E id \in Candidates(text[k].form) : WithSource(text, spans, k)[2] = Marker(id)
  <2>. TAKE k \in 1..n
  <2>1. k \in DOMAIN text
    BY <1>1
  <2>. QED
    BY <2>1, Block
<1>. HIDE DEF A
<1>3. seqs \in Seq(Seq(A)) /\ Len(seqs) = n /\ \A k \in 1..n : seqs[k] = WithSource(text, spans, k)
  BY <1>1, <1>2 DEF Blocks
<1>. HIDE DEF seqs, n
<1>4. flat \in Seq(A)
  BY <1>3, Flattened
<1>5. PICK at : EndsOf(seqs, flat, at)
  BY <1>3, Flattened
<1>. HIDE DEF flat
<1>6. /\ at \in [0..n -> Nat] /\ at[0] = 0 /\ Len(flat) = at[n]
      /\ \A k \in 1..n : at[k] = at[k - 1] + Len(seqs[k])
      /\ \A k \in 1..n : \A j \in 1..Len(seqs[k]) :
           at[k - 1] + j \in 1..Len(flat) /\ flat[at[k - 1] + j] = seqs[k][j]
      /\ \A p \in 1..Len(flat) : \E k \in 1..n : \E j \in 1..Len(seqs[k]) : p = at[k - 1] + j
  BY <1>3, <1>5 DEF EndsOf
<1>7. ASSUME NEW k \in 1..n
      PROVE  /\ at[k - 1] + 1 \in 1..Len(flat) /\ flat[at[k - 1] + 1] = text[k]
             /\ ~Grounds(text, spans, k) => at[k] = at[k - 1] + 1
             /\ Grounds(text, spans, k) =>
                  /\ at[k] = at[k - 1] + 2 /\ at[k - 1] + 2 \in 1..Len(flat)
                  /\ \E id \in Candidates(text[k].form) : flat[at[k - 1] + 2] = Marker(id)
  <2>1. seqs[k] = WithSource(text, spans, k) /\ seqs[k][1] = text[k]
    BY <1>2, <1>3
  <2>2. CASE ~Grounds(text, spans, k)
    <3>1. Len(seqs[k]) = 1 /\ 1 \in 1..1
      BY <1>2, <2>1, <2>2
    <3>. QED
      BY <1>6, <2>1, <2>2, <3>1
  <2>3. CASE Grounds(text, spans, k)
    <3>1. Len(seqs[k]) = 2 /\ 1 \in 1..2 /\ 2 \in 1..2
      BY <1>2, <2>1, <2>3
    <3>2. \E id \in Candidates(text[k].form) : seqs[k][2] = Marker(id)
      BY <1>2, <2>1, <2>3
    <3>. QED
      BY <1>6, <2>1, <2>3, <3>1, <3>2
  <2>. QED
    BY <2>2, <2>3
<1>8. ASSUME NEW p \in 1..Len(flat)
      PROVE  \E k \in 1..n : p = at[k - 1] + 1 \/ (Grounds(text, spans, k) /\ p = at[k - 1] + 2)
  <2>1. PICK k \in 1..n : \E j \in 1..Len(seqs[k]) : p = at[k - 1] + j
    BY <1>6
  <2>2. PICK j \in 1..Len(seqs[k]) : p = at[k - 1] + j
    BY <2>1
  <2>3. seqs[k] = WithSource(text, spans, k)
    BY <1>3
  <2>4. CASE ~Grounds(text, spans, k)
    <3>1. Len(seqs[k]) = 1
      BY <1>2, <2>3, <2>4
    <3>. QED
      BY <2>2, <3>1
  <2>5. CASE Grounds(text, spans, k)
    <3>1. Len(seqs[k]) = 2
      BY <1>2, <2>3, <2>5
    <3>2. j = 1 \/ j = 2
      BY <2>2, <3>1
    <3>. QED
      BY <2>2, <2>5, <3>2
  <2>. QED
    BY <2>4, <2>5
<1>9. Marks(text, spans, flat, at)
  <2>1. at \in [0..n -> Nat] /\ at[0] = 0 /\ Len(flat) = at[n]
    BY <1>6
  <2>. QED
    BY <2>1, <1>7, <1>8, Zenon DEF Marks, n
<1>. QED
  BY <1>4, <1>9 DEF A, flat, seqs

\* Of the first k tokens and their sources, k tokens are kept.
Recovers(text, at, to) == \A k \in 0..Len(text) : to[at[k]] = k

\* The text that is parsed again is the text.
LEMMA ParsedAgain ==
  ASSUME NEW S, NEW text \in Seq(S), NoMarkers(text),
         NEW spans, NEW marked \in Seq(Marked(S)),
         NEW at, Marks(text, spans, marked, at),
         NEW to, Keeps(marked, Parse(marked).text, to)
  PROVE  /\ Parse(marked).text = text
         /\ Recovers(text, at, to)
<1>. DEFINE n == Len(text)
            A == Marked(S)
            kept == Parse(marked).text
            T == {k \in 0..n : to[at[k]] = k}
<1>1. n \in Nat /\ DOMAIN text = 1..n /\ text \in Seq(A) /\ \A k \in 1..n : text[k].kind # "marker"
  BY DEF NoMarkers, Marked
<1>2. kept \in Seq(A)
  BY ParsedText
<1>. HIDE DEF n, A, kept
<1>3. /\ at \in [0..n -> Nat] /\ at[0] = 0 /\ Len(marked) = at[n]
      /\ \A k \in 1..n :
           /\ at[k - 1] + 1 \in 1..Len(marked) /\ marked[at[k - 1] + 1] = text[k]
           /\ ~Grounds(text, spans, k) => at[k] = at[k - 1] + 1
           /\ Grounds(text, spans, k) =>
                /\ at[k] = at[k - 1] + 2 /\ at[k - 1] + 2 \in 1..Len(marked)
                /\ \E id \in Candidates(text[k].form) : marked[at[k - 1] + 2] = Marker(id)
  BY DEF Marks, n
<1>4. /\ to \in [0..Len(marked) -> Nat] /\ to[0] = 0 /\ Len(kept) = to[Len(marked)]
      /\ \A k \in 1..Len(marked) :
           /\ marked[k].kind = "marker" => to[k] = to[k - 1]
           /\ marked[k].kind # "marker" =>
                to[k] = to[k - 1] + 1 /\ to[k] \in 1..Len(kept) /\ kept[to[k]] = marked[k]
  BY DEF Keeps, kept
<1>5. ASSUME NEW k \in 1..n, to[at[k - 1]] = k - 1
      PROVE  /\ to[at[k]] = k
             /\ k \in 1..Len(kept) /\ kept[k] = text[k]
  <2>. DEFINE q == at[k - 1] + 1
  <2>0. at[k - 1] \in Nat /\ q \in 1..Len(marked) /\ q - 1 = at[k - 1]
    <3>1. k - 1 \in 0..n
      BY <1>1
    <3>2. at[k - 1] \in Nat /\ at[k - 1] + 1 \in 1..Len(marked)
      BY <1>3, <3>1
    <3>. QED
      BY <3>2
  <2>1. marked[q] = text[k] /\ marked[q].kind # "marker"
    <3>1. marked[at[k - 1] + 1] = text[k]
      BY <1>3
    <3>. QED
      BY <1>1, <3>1
  <2>2. to[q] = k /\ kept[to[q]] = text[k] /\ to[q] \in 1..Len(kept)
    <3>1. to[q] = to[q - 1] + 1 /\ to[q] \in 1..Len(kept) /\ kept[to[q]] = marked[q]
      BY <1>4, <2>0, <2>1
    <3>. QED
      BY <1>5, <2>0, <2>1, <3>1
  <2>3. to[at[k]] = k
    <3>1. CASE ~Grounds(text, spans, k)
      BY <1>3, <2>2, <3>1
    <3>2. CASE Grounds(text, spans, k)
      <4>1. at[k] = q + 1 /\ q + 1 \in 1..Len(marked) /\ (q + 1) - 1 = q
        BY <1>3, <2>0, <3>2
      <4>2. PICK id : marked[q + 1] = Marker(id)
        <5>1. \E id : marked[at[k - 1] + 2] = Marker(id)
          BY <1>3, <3>2
        <5>2. at[k - 1] + 2 = q + 1
          BY <2>0
        <5>. QED
          BY <5>1, <5>2
      <4>3. marked[q + 1].kind = "marker"
        BY <4>2 DEF Marker
      <4>4. to[q + 1] = to[q]
        <5>1. \A i \in 1..Len(marked) : marked[i].kind = "marker" => to[i] = to[i - 1]
          BY <1>4, Zenon
        <5>2. to[q + 1] = to[(q + 1) - 1]
          BY <4>1, <4>3, <5>1, Zenon
        <5>. QED
          BY <4>1, <5>2, Zenon
      <4>. QED
        BY <2>2, <4>1, <4>4
    <3>. QED
      BY <3>1, <3>2
  <2>. QED
    BY <2>2, <2>3
<1>6. 0 \in T
  BY <1>1, <1>3, <1>4
<1>7. ASSUME NEW k \in 0..(n - 1), k \in T PROVE k + 1 \in T
  <2>1. k + 1 \in 1..n /\ (k + 1) - 1 = k /\ to[at[k]] = k
    BY <1>1, <1>7
  <2>2. to[at[(k + 1) - 1]] = (k + 1) - 1
    BY <2>1
  <2>3. to[at[k + 1]] = k + 1
    BY <1>5, <2>1, <2>2
  <2>. QED
    BY <2>1, <2>3
<1>8. \A k \in 0..n : k \in T
  <2>. HIDE DEF T
  <2>. QED
    BY <1>1, <1>6, <1>7, UpTo
<1>9. \A k \in 0..n : to[at[k]] = k
  BY <1>8
<1>10. Len(kept) = n
  BY <1>1, <1>3, <1>4, <1>9
<1>11. \A k \in 1..n : kept[k] = text[k]
  <2>. SUFFICES ASSUME NEW k \in 1..n PROVE kept[k] = text[k]
    OBVIOUS
  <2>1. k - 1 \in 0..n
    BY <1>1
  <2>. QED
    BY <1>5, <1>9, <2>1
<1>12. kept = text
  BY <1>1, <1>2, <1>10, <1>11 DEF n
<1>. QED
  BY <1>9, <1>12 DEF kept, n, Recovers

\* A number that is grounded has one candidate, a call of the turn.
LEMMA OneSource ==
  ASSUME NEW form, Cardinality(Candidates(form)) = 1
  PROVE  \E id \in Ids : Candidates(form) = {id}
<1>1. Candidates(form) \in SUBSET Ids
  BY DEF Candidates
<1>2. IsFiniteSet(Candidates(form))
  BY <1>1, CitationsAssumption, FS_Subset
<1>3. PICK id : Candidates(form) = {id}
  BY <1>2, FS_Singleton
<1>. QED
  BY <1>1, <1>3

\* What a marker that directly follows the financial number at k sees of it: the whole
\* number, or the tail of one that is glued to a word.
SeenFrom(token, k) == IF token.kind = "number" THEN HeadAt(k) ELSE TailAt(k)
SourceSpans(text, k) ==
  {Span(SeenFrom(text[k], k), EndAt(k), id) : id \in Candidates(text[k].form)}

\* The marker behind a grounded number cites exactly what it sees of that number, at its
\* offsets in the text without markers.
LEMMA GroundedSpan ==
  ASSUME NEW S, NEW text \in Seq(S), NoMarkers(text),
         NEW spans, NEW marked \in Seq(Marked(S)),
         NEW at, Marks(text, spans, marked, at),
         NEW k \in DOMAIN text, Grounds(text, spans, k)
  PROVE  /\ marked # text
         /\ at[k - 1] + 2 \in DOMAIN marked
         /\ SpansAt(marked, at[k - 1] + 2) = SourceSpans(text, k)
<1>. DEFINE n == Len(text)
            A == Marked(S)
            q == at[k - 1] + 1
            m == q + 1
            from == SeenFrom(text[k], k)
<1>1. PICK to : Keeps(marked, Parse(marked).text, to)
  BY ParsedText
<1>2. \A i \in 0..n : to[at[i]] = i
  <2>1. \A i \in 0..Len(text) : to[at[i]] = i
    <3>1. Recovers(text, at, to)
      BY <1>1, ParsedAgain
    <3>. QED
      BY <3>1 DEF Recovers
  <2>. QED
    BY <2>1
<1>3. n \in Nat /\ k \in 1..n /\ k - 1 \in 0..n /\ DOMAIN marked = 1..Len(marked)
  OBVIOUS
<1>4. /\ at[k - 1] \in Nat /\ at[k - 1] + 1 \in 1..Len(marked) /\ at[k - 1] + 2 \in 1..Len(marked)
      /\ marked[at[k - 1] + 1] = text[k]
      /\ \E id \in Candidates(text[k].form) : marked[at[k - 1] + 2] = Marker(id)
  <2>1. at \in [0..n -> Nat]
    BY DEF Marks
  <2>. QED
    BY <1>3, <2>1 DEF Marks
<1>. HIDE DEF n
<1>5. /\ q \in Int /\ q - 1 = at[k - 1] /\ m - 1 = q /\ m = at[k - 1] + 2
      /\ q \in 1..Len(marked) /\ m \in 1..Len(marked) /\ marked[q] = text[k]
  <2>. DEFINE a == at[k - 1]
  <2>1. /\ a \in Nat /\ a + 1 \in 1..Len(marked) /\ a + 2 \in 1..Len(marked)
        /\ marked[a + 1] = text[k]
    BY <1>4
  <2>2. q = a + 1
    OBVIOUS
  <2>. HIDE DEF a
  <2>3. m = a + 2
    BY <2>1, <2>2
  <2>. HIDE DEF q, m
  <2>4. q \in Int /\ q - 1 = a /\ m - 1 = q
    BY <2>1, <2>2, <2>3
  <2>. QED
    BY <2>1, <2>2, <2>3, <2>4 DEF a
<1>6. PICK id \in Candidates(text[k].form) : marked[m] = Marker(id)
  BY <1>4, <1>5
<1>. HIDE DEF q, m
<1>7. Candidates(text[k].form) = {id} /\ id \in Ids
  <2>1. PICK c \in Ids : Candidates(text[k].form) = {c}
    BY OneSource DEF Grounds
  <2>. QED
    BY <1>6, <2>1
<1>8. marked[m].kind = "marker" /\ marked[m].id = id
  BY <1>6 DEF Marker
<1>9. marked # text
  BY <1>3, <1>5, <1>8 DEF NoMarkers
<1>10. m \in KnownMarkers(marked)
  BY <1>3, <1>5, <1>7, <1>8 DEF KnownMarkers, Markers
<1>11. marked[q].kind \in {"number", "glued"} /\ Numeral(marked[q])
  BY <1>5 DEF Numeral, Grounds, Uncited, Financial
<1>12. CitedFragment(marked, m) = {<<SeenFrom(marked[q], q), EndAt(q)>>}
  <2>1. q \in InReach(marked, m) /\ \A i \in InReach(marked, m) : i \in Int /\ i <= q
    <3>1. m - 1 = q /\ q \in Nat /\ q \in 1..q
      BY <1>5
    <3>2. InReach(marked, m) =
            {i \in 1..q : Numeral(marked[i]) /\ TailAt(i) >= EndAt(q) - Window}
      BY <3>1, Zenon DEF InReach
    <3>3. TailAt(q) >= EndAt(q) - Window
      BY <3>1, CitationsAssumption DEF TailAt, EndAt
    <3>4. q \in InReach(marked, m)
      BY <1>11, <3>1, <3>2, <3>3, Zenon
    <3>5. \A i \in InReach(marked, m) : i \in 1..q
      BY <3>2, Zenon
    <3>. QED
      BY <3>1, <3>4, <3>5
  <2>2. {i \in InReach(marked, m) : \A j \in InReach(marked, m) : j <= i} = {q}
    <3>. DEFINE last == {i \in InReach(marked, m) : \A j \in InReach(marked, m) : j <= i}
    <3>1. q \in last
      BY <2>1
    <3>2. \A i \in last : i = q
      BY <1>5, <2>1
    <3>. HIDE DEF last
    <3>3. last = {q}
      BY <3>1, <3>2
    <3>. QED
      BY <3>3 DEF last
  <2>3. Extent(marked[q], q, EndAt(m - 1) - Window) = <<SeenFrom(marked[q], q), EndAt(q)>>
    <3>1. HeadAt(q) >= EndAt(m - 1) - Window
      <4>1. m - 1 = q /\ q \in Int
        BY <1>5
      <4>. QED
        BY <4>1, CitationsAssumption DEF HeadAt, EndAt
    <3>2. CASE marked[q].kind = "number"
      BY <3>1, <3>2 DEF Extent, SeenFrom
    <3>3. CASE marked[q].kind = "glued"
      BY <3>3 DEF Extent, SeenFrom
    <3>. QED
      BY <1>11, <3>2, <3>3
  <2>. DEFINE Seen(i) == Extent(marked[i], i, EndAt(m - 1) - Window)
  <2>4. CitedFragment(marked, m) = {Seen(i) : i \in {q}}
    BY <2>2, Zenon DEF CitedFragment
  <2>5. Seen(q) = <<SeenFrom(marked[q], q), EndAt(q)>>
    BY <2>3
  <2>. HIDE DEF Seen
  <2>. QED
    BY <2>4, <2>5
<1>13. Shift(marked, m, SeenFrom(marked[q], q)) = 3 * (q - k)
  <2>. DEFINE start == SeenFrom(marked[q], q)
  <2>0. start \in {HeadAt(q), TailAt(q)}
    BY DEF SeenFrom
  <2>. HIDE DEF start
  <2>1. {p \in Markers(marked) : p < m /\ EndAt(p) <= start}
          = {p \in Markers(marked) : p <= q - 1}
    <3>1. \A p \in Markers(marked) : p \in Int
      BY <1>3 DEF Markers
    <3>2. \A p \in Int : p < m /\ EndAt(p) <= start <=> p <= q - 1
      <4>1. q \in Int /\ m = q + 1
        BY <1>5
      <4>. QED
        BY <2>0, <4>1 DEF EndAt, HeadAt, TailAt
    <3>. QED
      BY <3>1, <3>2, Zenon
  <2>2. q - 1 \in 0..Len(marked)
    BY <1>4, <1>5
  <2>3. Cardinality({p \in Markers(marked) : p <= q - 1}) = (q - 1) - to[q - 1]
    <3>1. \A i \in 0..Len(marked) : Cardinality({p \in Markers(marked) : p <= i}) = i - to[i]
      BY <1>1, MarkersCounted
    <3>. QED
      BY <2>2, <3>1
  <2>4. to[q - 1] = k - 1
    BY <1>2, <1>3, <1>5
  <2>. QED
    <3>1. (q - 1) - (k - 1) = q - k
      BY <1>3, <1>5
    <3>2. Shift(marked, m, start) = 3 * Cardinality({p \in Markers(marked) : p <= q - 1})
      BY <2>1, Zenon DEF Shift
    <3>. QED
      BY <2>3, <2>4, <3>1, <3>2 DEF start
<1>14. SpansAt(marked, m) = {Span(from, EndAt(k), id)}
  <2>. DEFINE start == SeenFrom(marked[q], q)
              Cited(f) == Span(f[1] - Shift(marked, m, f[1]), f[2] - Shift(marked, m, f[1]),
                               marked[m].id)
              f0 == <<start, EndAt(q)>>
  <2>1. SpansAt(marked, m) = {Cited(f) : f \in {f0}}
    BY <1>10, <1>12, Zenon DEF SpansAt
  <2>2. Cited(f0) = Span(start - 3 * (q - k), EndAt(q) - 3 * (q - k), id)
    <3>1. f0[1] = start /\ f0[2] = EndAt(q)
      OBVIOUS
    <3>. HIDE DEF f0
    <3>. QED
      BY <1>8, <1>13, <3>1
  <2>3. start - 3 * (q - k) = from /\ EndAt(q) - 3 * (q - k) = EndAt(k)
    <3>1. q \in Int /\ k \in Int /\ marked[q] = text[k]
      BY <1>3, <1>5
    <3>2. EndAt(q) - 3 * (q - k) = EndAt(k) /\ HeadAt(q) - 3 * (q - k) = HeadAt(k)
          /\ TailAt(q) - 3 * (q - k) = TailAt(k)
      BY <3>1 DEF HeadAt, EndAt, TailAt
    <3>. QED
      BY <3>1, <3>2 DEF SeenFrom
  <2>4. Cited(f0) = Span(from, EndAt(k), id)
    BY <2>2, <2>3
  <2>. HIDE DEF Cited, f0
  <2>. QED
    BY <2>1, <2>4
<1>15. SourceSpans(text, k) = {Span(from, EndAt(k), id)}
  BY <1>7 DEF SourceSpans
<1>. QED
  BY <1>3, <1>5, <1>9, <1>14, <1>15

\* The spans of what is grounded.
SourcesOf(text, spans) ==
  UNION {SourceSpans(text, k) : k \in {k \in DOMAIN text : Grounds(text, spans, k)}}

\* So the spans of the marked text are those of what was grounded.
LEMMA GroundedSpans ==
  ASSUME NEW S, NEW text \in Seq(S), NoMarkers(text),
         NEW spans, NEW marked \in Seq(Marked(S)),
         NEW at, Marks(text, spans, marked, at)
  PROVE  /\ (marked = text) <=> \A k \in DOMAIN text : ~Grounds(text, spans, k)
         /\ ToSet(Parse(marked).spans) = SourcesOf(text, spans)
<1>. DEFINE n == Len(text)
<1>1. n \in Nat /\ DOMAIN text = 1..n /\ DOMAIN marked = 1..Len(marked) /\ Len(marked) \in Nat
  OBVIOUS
<1>. HIDE DEF n
<1>2. \A k \in 1..n : Grounds(text, spans, k) =>
        /\ marked # text /\ at[k - 1] + 2 \in DOMAIN marked
        /\ SpansAt(marked, at[k - 1] + 2) = SourceSpans(text, k)
  BY <1>1, GroundedSpan
<1>3. ASSUME NEW m \in DOMAIN marked, SpansAt(marked, m) # {}
      PROVE  \E k \in 1..n : Grounds(text, spans, k) /\ m = at[k - 1] + 2
  <2>1. marked[m].kind = "marker"
    BY <1>3 DEF SpansAt, KnownMarkers, Markers
  <2>2. PICK k \in 1..n : m = at[k - 1] + 1 \/ (Grounds(text, spans, k) /\ m = at[k - 1] + 2)
    BY <1>1 DEF Marks, n
  <2>3. marked[at[k - 1] + 1] = text[k] /\ text[k].kind # "marker"
    BY <1>1 DEF Marks, NoMarkers, n
  <2>. QED
    BY <2>1, <2>2, <2>3
<1>4. UNION {SpansAt(marked, m) : m \in DOMAIN marked} = SourcesOf(text, spans)
  BY <1>1, <1>2, <1>3 DEF SourcesOf
<1>5. ASSUME \A k \in DOMAIN text : ~Grounds(text, spans, k) PROVE marked = text
  <2>. DEFINE T == {k \in 0..n : at[k] = k}
  <2>0. at \in [0..n -> Nat] /\ at[0] = 0 /\ Len(marked) = at[n]
        /\ \A k \in 1..n : at[k] = at[k - 1] + 1 /\ marked[at[k - 1] + 1] = text[k]
    BY <1>1, <1>5 DEF Marks, n
  <2>1. 0 \in T
    BY <1>1, <2>0
  <2>2. ASSUME NEW k \in 0..(n - 1), k \in T PROVE k + 1 \in T
    <3>1. k + 1 \in 1..n /\ (k + 1) - 1 = k
      BY <1>1
    <3>2. at[k + 1] = at[k] + 1
      BY <2>0, <3>1
    <3>. QED
      BY <2>2, <3>1, <3>2
  <2>3. \A k \in 0..n : k \in T
    <3>. HIDE DEF T
    <3>. QED
      BY <1>1, <2>1, <2>2, UpTo
  <2>4. Len(marked) = n
    BY <1>1, <2>0, <2>3
  <2>5. ASSUME NEW k \in 1..n PROVE marked[k] = text[k]
    <3>1. k - 1 \in 0..n /\ (k - 1) + 1 = k
      BY <1>1
    <3>2. at[k - 1] = k - 1
      BY <2>3, <3>1
    <3>. QED
      BY <2>0, <3>1, <3>2
  <2>. QED
    BY <1>1, <2>4, <2>5
<1>. QED
  BY <1>1, <1>2, <1>4, <1>5, ParsedSpans

\* A span over a token that covers the number at k is over this number, head and tail.
LEMMA CoversExactly ==
  ASSUME NEW s, OverToken(s), NEW k \in Int, Covers(s, k, 0)
  PROVE  s.start = HeadAt(k) /\ s.end = EndAt(k)
BY DEF OverToken, Covers, Span, HeadAt, TailAt, EndAt

\* A span that can be stored.
IsSpan(s) == OverToken(s) /\ s.id \in Ids /\ s.start \in Int /\ s.end \in Int
AreSpans(spans) ==
  /\ spans \in Seq({spans[i] : i \in DOMAIN spans})
  /\ \A i \in DOMAIN spans : IsSpan(spans[i])
Spanned(spans, k) == \E s \in ToSet(spans) : s.start = HeadAt(k) /\ s.end = EndAt(k)

\* The parser makes no other spans.
LEMMA ParsedAreSpans ==
  ASSUME NEW S, NEW text \in Seq(S)
  PROVE  AreSpans(Parse(text).spans)
<1>. DEFINE All == UNION {SpansAt(text, m) : m \in DOMAIN text}
<1>1. ASSUME NEW s \in All PROVE IsSpan(s)
  <2>1. PICK m \in DOMAIN text : s \in SpansAt(text, m)
    OBVIOUS
  <2>2. OverToken(s) /\ s.id \in Ids
    BY <2>1, SpansAtMarker
  <2>. QED
    BY <2>2 DEF IsSpan, OverToken, Span, HeadAt, TailAt, EndAt
<1>2. Parse(text).spans \in Seq(All)
  BY ParsedSpans
<1>. HIDE DEF All
<1>. QED
  BY <1>1, <1>2 DEF AreSpans

\* Sorting two lists of spans makes one of both.
LEMMA SpansJoined ==
  ASSUME NEW s, AreSpans(s), NEW t, AreSpans(t)
  PROVE  AreSpans(Sorted(s \o t)) /\ ToSet(Sorted(s \o t)) = ToSet(s) \cup ToSet(t)
<1>. DEFINE P == ToSet(s) \cup ToSet(t)
<1>1. s \in Seq(P) /\ t \in Seq(P) /\ \A x \in P : IsSpan(x)
  BY DEF AreSpans, ToSet
<1>2. s \o t \in Seq(P) /\ ToSet(s \o t) = P
  <2>. HIDE DEF P
  <2>1. /\ s \o t \in Seq(P) /\ Len(s) \in Nat /\ Len(t) \in Nat
        /\ Len(s \o t) = Len(s) + Len(t)
        /\ \A p \in 1..Len(s) : (s \o t)[p] = s[p]
        /\ \A p \in 1..Len(t) : (s \o t)[Len(s) + p] = t[p]
    BY <1>1, Concatenated
  <2>2. DOMAIN s = 1..Len(s) /\ DOMAIN t = 1..Len(t) /\ DOMAIN (s \o t) = 1..Len(s \o t)
    BY <1>1, <2>1
  <2>3. \A p \in 1..Len(s) : p \in 1..Len(s \o t)
    BY <2>1
  <2>4. \A p \in 1..Len(t) : Len(s) + p \in 1..Len(s \o t)
    BY <2>1
  <2>5. \A p \in 1..Len(s \o t) : (s \o t)[p] \in P
    BY <2>1
  <2>6. \A p \in 1..Len(s) : s[p] \in ToSet(s \o t)
    BY <2>1, <2>2, <2>3 DEF ToSet
  <2>7. \A p \in 1..Len(t) : t[p] \in ToSet(s \o t)
    BY <2>1, <2>2, <2>4 DEF ToSet
  <2>8. P \subseteq ToSet(s \o t)
    BY <2>2, <2>6, <2>7 DEF P, ToSet
  <2>9. ToSet(s \o t) \subseteq P
    BY <2>2, <2>5 DEF ToSet
  <2>. QED
    BY <2>1, <2>8, <2>9
<1>. HIDE DEF P
<1>3. Sorted(s \o t) \in Seq(P) /\ ToSet(Sorted(s \o t)) = ToSet(s \o t)
  BY <1>1, <1>2, SortedSpans DEF IsSpan
<1>4. AreSpans(Sorted(s \o t))
  BY <1>1, <1>3 DEF AreSpans
<1>. QED
  BY <1>2, <1>3, <1>4 DEF P

\* Grounding leaves the text as it is and every number whose form the index has of just
\* one call with a span.
LEMMA GroundedText ==
  ASSUME NEW S, NEW text \in Seq(S), NoMarkers(text), NEW spans, AreSpans(spans),
         NEW grounded, grounded = AutoGround([text |-> text, spans |-> spans])
  PROVE  /\ grounded.text = text /\ AreSpans(grounded.spans)
         /\ \A k \in DOMAIN text :
              text[k].kind = "number" /\ Cardinality(Candidates(text[k].form)) = 1
                => Spanned(grounded.spans, k)
<1>. DEFINE marked == FlattenSeq(Blocks(text, spans))
<1>1. marked \in Seq(Marked(S)) /\ \E at : Marks(text, spans, marked, at)
  BY MarkedText
<1>2. PICK at : Marks(text, spans, marked, at)
  BY <1>1
<1>3. grounded =
        IF marked = text THEN [text |-> text, spans |-> spans]
        ELSE [text |-> Parse(marked).text, spans |-> Sorted(spans \o Parse(marked).spans)]
  BY DEF AutoGround, Blocks
<1>. HIDE DEF marked
<1>4. ASSUME NEW k \in DOMAIN text, text[k].kind = "number",
             Cardinality(Candidates(text[k].form)) = 1, ~Grounds(text, spans, k)
      PROVE  Spanned(spans, k)
  <2>1. k \in Int
    OBVIOUS
  <2>2. PICK s \in ToSet(spans) : Covers(s, k, 0)
    BY <1>4 DEF Grounds, Uncited, Financial
  <2>3. OverToken(s)
    BY <2>2 DEF AreSpans, IsSpan, ToSet
  <2>4. s.start = HeadAt(k) /\ s.end = EndAt(k)
    BY <2>1, <2>2, <2>3, CoversExactly
  <2>. QED
    BY <2>2, <2>4 DEF Spanned
<1>5. ASSUME NEW k \in DOMAIN text, text[k].kind = "number", Grounds(text, spans, k)
      PROVE  marked # text /\ Spanned(Parse(marked).spans, k)
  <2>1. PICK id \in Ids : Candidates(text[k].form) = {id}
    BY <1>5, OneSource DEF Grounds
  <2>2. Span(HeadAt(k), EndAt(k), id) \in SourceSpans(text, k)
    BY <1>5, <2>1 DEF SourceSpans, SeenFrom
  <2>3. marked # text /\ SourceSpans(text, k) \subseteq ToSet(Parse(marked).spans)
    BY <1>1, <1>2, <1>5, GroundedSpans DEF SourcesOf
  <2>4. Span(HeadAt(k), EndAt(k), id).start = HeadAt(k)
        /\ Span(HeadAt(k), EndAt(k), id).end = EndAt(k)
    BY DEF Span
  <2>. QED
    BY <2>2, <2>3, <2>4 DEF Spanned
<1>6. CASE marked = text
  BY <1>3, <1>4, <1>5, <1>6
<1>7. CASE marked # text
  <2>1. grounded.text = Parse(marked).text
        /\ grounded.spans = Sorted(spans \o Parse(marked).spans)
    BY <1>3, <1>7
  <2>2. Parse(marked).text = text
    <3>1. PICK to : Keeps(marked, Parse(marked).text, to)
      BY <1>1, ParsedText
    <3>. QED
      BY <1>1, <1>2, <3>1, ParsedAgain
  <2>3. AreSpans(Parse(marked).spans)
    BY <1>1, ParsedAreSpans
  <2>4. AreSpans(grounded.spans)
        /\ ToSet(grounded.spans) = ToSet(spans) \cup ToSet(Parse(marked).spans)
    BY <2>1, <2>3, SpansJoined
  <2>5. \A k \in DOMAIN text :
          Spanned(spans, k) \/ Spanned(Parse(marked).spans, k) => Spanned(grounded.spans, k)
    BY <2>4 DEF Spanned
  <2>. QED
    BY <1>4, <1>5, <2>1, <2>2, <2>4, <2>5
<1>. QED
  BY <1>6, <1>7

\* Which calls the index has for a form: all that have returned a value of this form, but
\* for separated thousands with decimals or a percent sign and for whole percentages, of
\* which it has none (_canonical_forms against _FINANCIAL_NUMBER_RE).
THEOREM IndexedForms ==
  ASSUME NEW form
  PROVE  Candidates(form) = IF Unindexed(form) THEN {} ELSE CallsOf(form)
<1>1. ASSUME NEW value, form \in CanonicalForms(value)
      PROVE  FinancialForm(form, value) /\ ~Unindexed(form)
  <2>1. CASE form \in {<<decimals, Rounded(value, decimals), style>> :
                         decimals \in 1..4, style \in {"plain", "percent"}}
    <3>1. PICK decimals \in 1..4, style \in {"plain", "percent"} :
            form = <<decimals, Rounded(value, decimals), style>>
      BY <2>1
    <3>2. form[1] = decimals /\ form[3] = style
      BY <3>1
    <3>3. decimals \in 0..4 /\ decimals # 0
      BY <3>1
    <3>4. style \in Styles
      BY <3>1 DEF Styles
    <3>5. style # "grouped" /\ style # "grouped percent"
      BY <3>1
    <3>6. FinancialForm(form, value)
      BY <3>1, <3>3, <3>4, <3>5 DEF FinancialForm
    <3>7. ~Unindexed(form)
      BY <3>2, <3>3, <3>5 DEF Unindexed
    <3>. QED
      BY <3>6, <3>7
  <2>2. CASE form \in {<<0, n, "grouped">> :
                       n \in {n \in {Rounded(value, 0)} : n >= 1000 /\ Integral(value)}}
    <3>1. form = <<0, Rounded(value, 0), "grouped">>
          /\ Rounded(value, 0) >= 1000 /\ Integral(value)
      BY <2>2
    <3>2. form[1] = 0 /\ form[3] = "grouped"
      BY <3>1
    <3>3. 0 \in 0..4
      OBVIOUS
    <3>4. "grouped" \in Styles
      BY DEF Styles
    <3>5. FinancialForm(form, value)
      BY <3>1, <3>3, <3>4 DEF FinancialForm
    <3>6. ~Unindexed(form)
      BY <3>2 DEF Unindexed
    <3>. QED
      BY <3>5, <3>6
  <2>. QED
    BY <1>1, <2>1, <2>2 DEF CanonicalForms
<1>2. ASSUME NEW value, FinancialForm(form, value), ~Unindexed(form)
      PROVE  form \in CanonicalForms(value)
  <2>1. PICK decimals \in 0..4, style \in Styles :
          /\ form = <<decimals, Rounded(value, decimals), style>>
          /\ decimals = 0 => Integral(value) /\ style # "plain"
          /\ style \in {"grouped", "grouped percent"} => Rounded(value, 0) >= 1000
    BY <1>2 DEF FinancialForm
  <2>2. form[1] = decimals /\ form[3] = style
    BY <2>1
  <2>3. CASE style \in {"plain", "percent"}
    <3>1. decimals # 0
      BY <1>2, <2>1, <2>2, <2>3 DEF Unindexed
    <3>2. decimals \in 1..4
      <4>1. \A d \in 0..4 : d # 0 => d \in 1..4
        OBVIOUS
      <4>. QED
        BY <3>1, <4>1
    <3>3. form = <<decimals, Rounded(value, decimals), style>>
      BY <2>1
    <3>. QED
      BY <2>3, <3>2, <3>3 DEF CanonicalForms
  <2>4. CASE style \in {"grouped", "grouped percent"}
    <3>1. style = "grouped"
      BY <1>2, <2>2, <2>4 DEF Unindexed
    <3>2. decimals = 0
      BY <1>2, <2>1, <2>2, <3>1 DEF Unindexed
    <3>. QED
      BY <2>1, <3>1, <3>2 DEF CanonicalForms
  <2>. QED
    BY <2>1, <2>3, <2>4 DEF Styles
<1>. QED
  BY <1>1, <1>2 DEF Candidates, CallsOf

\* What the orchestrator and the composer store of any text: the text without its
\* markers, whatever is grounded in it; spans of calls of the turn over tokens; and a
\* span over every number that just one call has returned, written in any form that the
\* pattern for financial numbers finds but the Unindexed ones.
THEOREM StoredAnswer ==
  ASSUME NEW S, NEW text \in Seq(S)
  PROVE  /\ Answer(text).text = Parse(text).text /\ AreSpans(Answer(text).spans)
         /\ \A k \in DOMAIN Answer(text).text :
              /\ Answer(text).text[k].kind = "number"
              /\ ~Unindexed(Answer(text).text[k].form)
              /\ Cardinality(CallsOf(Answer(text).text[k].form)) = 1
              => Spanned(Answer(text).spans, k)
<1>1. Parse(text).text \in Seq(S) /\ NoMarkers(Parse(text).text)
  BY ParsedText, NoMarkerLeft DEF NoMarkers
<1>2. AreSpans(Parse(text).spans)
  BY ParsedAreSpans
<1>3. Parse(text) = [text |-> Parse(text).text, spans |-> Parse(text).spans]
  BY DEF Parse
<1>4. Answer(text) = AutoGround([text |-> Parse(text).text, spans |-> Parse(text).spans])
  BY <1>3, Zenon DEF Answer
<1>. DEFINE kept == Parse(text).text
            answer == Answer(text)
<1>. HIDE DEF kept, answer
<1>5. /\ answer.text = kept /\ AreSpans(answer.spans)
      /\ \A k \in DOMAIN kept :
           kept[k].kind = "number" /\ Cardinality(Candidates(kept[k].form)) = 1
             => Spanned(answer.spans, k)
  BY <1>1, <1>2, <1>4, GroundedText DEF kept, answer
<1>6. \A k \in DOMAIN kept :
        ~Unindexed(kept[k].form) => CallsOf(kept[k].form) = Candidates(kept[k].form)
  BY IndexedForms
<1>. QED
  BY <1>5, <1>6 DEF kept, answer

-------------------------------------------------------------------------------
(* What flattening repeats, and selections                                     *)

\* A flattened sequence repeats nothing if its parts repeat nothing and share nothing.
LEMMA FlattenedOnce ==
  ASSUME NEW S, NEW seqs \in Seq(Seq(S)),
         \A i \in DOMAIN seqs : IsInjective(seqs[i]),
         \A i, k \in DOMAIN seqs : i # k => ToSet(seqs[i]) \cap ToSet(seqs[k]) = {}
  PROVE  IsInjective(FlattenSeq(seqs))
<1>. DEFINE flat == FlattenSeq(seqs)
<1>1. flat \in Seq(S) /\ \E at : EndsOf(seqs, flat, at)
  BY Flattened
<1>2. PICK at : EndsOf(seqs, flat, at)
  BY <1>1
<1>. HIDE DEF flat
<1>3. DOMAIN flat = 1..Len(flat) /\ DOMAIN seqs = 1..Len(seqs)
      /\ \A i \in DOMAIN seqs : DOMAIN seqs[i] = 1..Len(seqs[i])
  BY <1>1
<1>4. ASSUME NEW p \in 1..Len(flat), NEW q \in 1..Len(flat), flat[p] = flat[q] PROVE p = q
  <2>. PICK i \in 1..Len(seqs) : \E j \in 1..Len(seqs[i]) : p = at[i - 1] + j
    BY <1>2 DEF EndsOf
  <2>1. PICK j \in 1..Len(seqs[i]) : p = at[i - 1] + j
    OBVIOUS
  <2>. PICK k \in 1..Len(seqs) : \E l \in 1..Len(seqs[k]) : q = at[k - 1] + l
    BY <1>2 DEF EndsOf
  <2>2. PICK l \in 1..Len(seqs[k]) : q = at[k - 1] + l
    OBVIOUS
  <2>3. flat[p] = seqs[i][j] /\ flat[q] = seqs[k][l]
    BY <1>2, <2>1, <2>2 DEF EndsOf
  <2>4. seqs[i][j] \in ToSet(seqs[i]) /\ seqs[k][l] \in ToSet(seqs[k])
    BY <1>3 DEF ToSet
  <2>5. i = k
    BY <1>3, <1>4, <2>3, <2>4
  <2>6. j = l
    BY <1>3, <1>4, <2>3, <2>5 DEF IsInjective
  <2>. QED
    BY <2>1, <2>2, <2>5, <2>6
<1>. QED
  BY <1>3, <1>4 DEF IsInjective, flat

\* The ends of the parts rise.
LEMMA EndsRise ==
  ASSUME NEW S, NEW seqs \in Seq(Seq(S)), NEW flat, NEW at, EndsOf(seqs, flat, at)
  PROVE  \A i, k \in 0..Len(seqs) : i <= k => at[i] <= at[k]
<1>. DEFINE n == Len(seqs)
<1>1. n \in Nat /\ \A p \in 1..n : Len(seqs[p]) \in Nat
  OBVIOUS
<1>. HIDE DEF n
<1>2. at \in [0..n -> Nat] /\ \A p \in 1..n : at[p] = at[p - 1] + Len(seqs[p])
  BY DEF EndsOf, n
<1>. SUFFICES ASSUME NEW i \in 0..n PROVE \A k \in 0..n : i <= k => at[i] <= at[k]
  BY DEF n
<1>. DEFINE T == {p \in 0..n : i <= p => at[i] <= at[p]}
<1>3. 0 \in T
  BY <1>1, <1>2
<1>4. ASSUME NEW p \in 0..(n - 1), p \in T PROVE p + 1 \in T
  <2>1. p \in 0..n /\ p + 1 \in 1..n /\ p + 1 \in 0..n /\ (p + 1) - 1 = p
    BY <1>1
  <2>2. at[p + 1] = at[p] + Len(seqs[p + 1]) /\ at[p] \in Nat /\ Len(seqs[p + 1]) \in Nat
    BY <1>1, <1>2, <2>1
  <2>. DEFINE b == at[p]
              l == Len(seqs[p + 1])
              e == at[p + 1]
              d == at[i]
  <2>3. e = b + l /\ l \in Nat /\ b \in Nat /\ d \in Nat /\ (i <= p => d <= b) /\ (i = p + 1 => d = e)
    BY <1>2, <1>4, <2>2
  <2>. HIDE DEF b, l, e, d
  <2>4. i <= p + 1 => d <= e
    BY <2>1, <2>3
  <2>. QED
    BY <2>1, <2>4 DEF d, e
<1>5. \A p \in 0..n : p \in T
  <2>. HIDE DEF T
  <2>. QED
    BY <1>1, <1>3, <1>4, UpTo
<1>. QED
  BY <1>5

\* It repeats what two of its parts share.
LEMMA FlattenedTwice ==
  ASSUME NEW S, NEW seqs \in Seq(Seq(S)), NEW i \in DOMAIN seqs, NEW k \in DOMAIN seqs, i < k,
         NEW x \in ToSet(seqs[i]) \cap ToSet(seqs[k])
  PROVE  ~IsInjective(FlattenSeq(seqs))
<1>. DEFINE flat == FlattenSeq(seqs)
            n == Len(seqs)
<1>1. flat \in Seq(S) /\ \E at : EndsOf(seqs, flat, at)
  BY Flattened
<1>2. PICK at : EndsOf(seqs, flat, at)
  BY <1>1
<1>. HIDE DEF flat
<1>3. n \in Nat /\ DOMAIN flat = 1..Len(flat) /\ DOMAIN seqs = 1..n
      /\ \A p \in 1..n : DOMAIN seqs[p] = 1..Len(seqs[p]) /\ Len(seqs[p]) \in Nat
  BY <1>1
<1>. HIDE DEF n
<1>4. /\ at \in [0..n -> Nat]
      /\ \A p \in 1..n : at[p] = at[p - 1] + Len(seqs[p])
      /\ \A p \in 1..n : \A j \in 1..Len(seqs[p]) :
           at[p - 1] + j \in 1..Len(flat) /\ flat[at[p - 1] + j] = seqs[p][j]
  BY <1>2 DEF EndsOf, n
<1>5. PICK j \in 1..Len(seqs[i]) : seqs[i][j] = x
  BY <1>3 DEF ToSet
<1>6. PICK l \in 1..Len(seqs[k]) : seqs[k][l] = x
  BY <1>3 DEF ToSet
<1>0. i \in 0..n /\ i - 1 \in 0..n /\ k - 1 \in 0..n /\ i \in 1..n /\ k \in 1..n /\ i <= k - 1
  BY <1>3
<1>7. at[i] <= at[k - 1]
  BY <1>0, <1>2, EndsRise DEF n
<1>8. at[i - 1] + j # at[k - 1] + l
  <2>1. /\ at[i] = at[i - 1] + Len(seqs[i]) /\ at[i - 1] \in Nat /\ at[k - 1] \in Nat
        /\ Len(seqs[i]) \in Nat /\ Len(seqs[k]) \in Nat
    BY <1>0, <1>3, <1>4
  <2>2. j \in Int /\ j <= Len(seqs[i]) /\ l \in Int /\ 1 <= l
    BY <2>1
  <2>. DEFINE a == at[i - 1]
              b == at[k - 1]
              e == Len(seqs[i])
  <2>3. a \in Nat /\ b \in Nat /\ e \in Nat /\ a + e <= b /\ j <= e
    BY <1>7, <2>1, <2>2
  <2>. HIDE DEF a, b, e
  <2>4. a + j # b + l
    BY <2>2, <2>3
  <2>. QED
    BY <2>4 DEF a, b
<1>9. /\ at[i - 1] + j \in DOMAIN flat /\ at[k - 1] + l \in DOMAIN flat
      /\ flat[at[i - 1] + j] = flat[at[k - 1] + l]
  BY <1>3, <1>4, <1>5, <1>6
<1>. QED
  BY <1>8, <1>9 DEF IsInjective, flat

\* What is in a set, selected.
Within(spans, T) == Selected(spans, LAMBDA s : s \in T)

\* A selection has the elements that pass the test, in their order.
LEMMA SelectedOnce ==
  ASSUME NEW S, NEW T, NEW spans \in Seq(S), IsInjective(spans)
  PROVE  /\ Within(spans, T) \in Seq(S) /\ IsInjective(Within(spans, T))
         /\ ToSet(Within(spans, T)) = {s \in ToSet(spans) : s \in T}
<1>. DEFINE seqs == [i \in DOMAIN spans |-> IF spans[i] \in T THEN <<spans[i]>> ELSE <<>>]
<1>1. seqs \in Seq(Seq(S)) /\ DOMAIN seqs = DOMAIN spans
      /\ \A i \in DOMAIN spans : seqs[i] = IF spans[i] \in T THEN <<spans[i]>> ELSE <<>>
  <2>. DEFINE Part(i) == IF spans[i] \in T THEN <<spans[i]>> ELSE <<>>
  <2>1. \A i \in DOMAIN spans : Part(i) \in Seq(S)
    OBVIOUS
  <2>2. DOMAIN spans = 1..Len(spans) /\ Len(spans) \in Nat /\ seqs = [i \in DOMAIN spans |-> Part(i)]
    OBVIOUS
  <2>. HIDE DEF Part, seqs
  <2>3. seqs \in Seq(Seq(S)) /\ DOMAIN seqs = DOMAIN spans /\ \A i \in DOMAIN spans : seqs[i] = Part(i)
    BY <2>1, <2>2
  <2>. QED
    BY <2>3 DEF Part
<1>2. Within(spans, T) = FlattenSeq(seqs)
  BY DEF Within, Selected
<1>3. \A i \in DOMAIN spans :
        /\ IsInjective(seqs[i])
        /\ ToSet(seqs[i]) = IF spans[i] \in T THEN {spans[i]} ELSE {}
  <2>. SUFFICES ASSUME NEW i \in DOMAIN spans
                PROVE  /\ IsInjective(seqs[i])
                       /\ ToSet(seqs[i]) = IF spans[i] \in T THEN {spans[i]} ELSE {}
    OBVIOUS
  <2>. HIDE DEF seqs
  <2>1. CASE spans[i] \in T
    BY <1>1, <2>1 DEF ToSet, IsInjective
  <2>2. CASE spans[i] \notin T
    BY <1>1, <2>2 DEF ToSet, IsInjective
  <2>. QED
    BY <2>1, <2>2
<1>. HIDE DEF seqs
<1>4. FlattenSeq(seqs) \in Seq(S)
  BY <1>1, Flattened
<1>5. ToSet(FlattenSeq(seqs)) = UNION {ToSet(seqs[i]) : i \in DOMAIN seqs}
  BY <1>1, FlattenedSet
<1>6. ToSet(FlattenSeq(seqs)) = {s \in ToSet(spans) : s \in T}
  <2>1. \A s : s \in UNION {ToSet(seqs[i]) : i \in DOMAIN seqs}
                <=> \E i \in DOMAIN spans : spans[i] \in T /\ s = spans[i]
    BY <1>1, <1>3
  <2>. QED
    BY <1>5, <2>1 DEF ToSet
<1>7. \A i, k \in DOMAIN seqs : i # k => ToSet(seqs[i]) \cap ToSet(seqs[k]) = {}
  BY <1>1, <1>3 DEF IsInjective
<1>8. IsInjective(FlattenSeq(seqs))
  BY <1>1, <1>3, <1>7, FlattenedOnce
<1>. QED
  BY <1>2, <1>4, <1>6, <1>8

\* Two sequences that share nothing and repeat nothing are joined without repetition.
LEMMA JoinedOnce ==
  ASSUME NEW S, NEW s \in Seq(S), NEW t \in Seq(S)
  PROVE  /\ s \o t \in Seq(S) /\ ToSet(s \o t) = ToSet(s) \cup ToSet(t)
         /\ (IsInjective(s) /\ IsInjective(t) /\ ToSet(s) \cap ToSet(t) = {}) => IsInjective(s \o t)
         /\ IsInjective(s \o t) => IsInjective(s)
<1>1. /\ s \o t \in Seq(S) /\ Len(s) \in Nat /\ Len(t) \in Nat /\ Len(s \o t) = Len(s) + Len(t)
      /\ \A p \in 1..Len(s) : (s \o t)[p] = s[p]
      /\ \A p \in 1..Len(t) : (s \o t)[Len(s) + p] = t[p]
  BY Concatenated
<1>. DEFINE u == s \o t
<1>2. DOMAIN s = 1..Len(s) /\ DOMAIN t = 1..Len(t) /\ DOMAIN u = 1..(Len(s) + Len(t))
  BY <1>1
<1>3. /\ \A p \in DOMAIN s : p \in DOMAIN u /\ u[p] = s[p]
      /\ \A p \in DOMAIN t : Len(s) + p \in DOMAIN u /\ u[Len(s) + p] = t[p]
      /\ \A p \in DOMAIN u : p \in DOMAIN s \/ \E q \in DOMAIN t : p = Len(s) + q
  <2>1. \A p \in DOMAIN u : p \notin DOMAIN s => p - Len(s) \in DOMAIN t /\ p = Len(s) + (p - Len(s))
    BY <1>1, <1>2
  <2>. QED
    BY <1>1, <1>2, <2>1
<1>. HIDE DEF u
<1>4. ToSet(u) = ToSet(s) \cup ToSet(t)
  <2>1. ToSet(u) \subseteq ToSet(s) \cup ToSet(t)
    <3>. SUFFICES ASSUME NEW p \in DOMAIN u PROVE u[p] \in ToSet(s) \cup ToSet(t)
      BY DEF ToSet
    <3>. QED
      BY <1>3 DEF ToSet
  <2>2. \A p \in DOMAIN s : s[p] \in ToSet(u)
    BY <1>3 DEF ToSet
  <2>3. \A p \in DOMAIN t : t[p] \in ToSet(u)
    BY <1>3 DEF ToSet
  <2>. QED
    BY <2>1, <2>2, <2>3 DEF ToSet
<1>5. ASSUME IsInjective(s), IsInjective(t), ToSet(s) \cap ToSet(t) = {} PROVE IsInjective(u)
  <2>. SUFFICES ASSUME NEW p \in DOMAIN u, NEW q \in DOMAIN u, u[p] = u[q] PROVE p = q
    BY DEF IsInjective
  <2>1. CASE p \in DOMAIN s /\ q \in DOMAIN s
    BY <1>3, <1>5, <2>1 DEF IsInjective
  <2>2. CASE p \in DOMAIN s /\ \E j \in DOMAIN t : q = Len(s) + j
    BY <1>3, <1>5, <2>2 DEF ToSet
  <2>3. CASE q \in DOMAIN s /\ \E j \in DOMAIN t : p = Len(s) + j
    BY <1>3, <1>5, <2>3 DEF ToSet
  <2>4. ASSUME NEW j \in DOMAIN t, NEW l \in DOMAIN t, p = Len(s) + j, q = Len(s) + l PROVE p = q
    BY <1>3, <1>5, <2>4 DEF IsInjective
  <2>. QED
    BY <1>3, <2>1, <2>2, <2>3, <2>4
<1>6. IsInjective(u) => IsInjective(s)
  BY <1>3 DEF IsInjective
<1>. QED
  BY <1>1, <1>4, <1>5, <1>6 DEF u

-------------------------------------------------------------------------------
(* What is drawn rises: offset by offset, and a chip before the character at    *)
(* the offset where it stands.                                                 *)

Key(node) == 2 * node[1] + IF node[2] = Shown THEN 1 ELSE 0
Rises(nodes) == \A i, k \in DOMAIN nodes : i < k => Key(nodes[i]) < Key(nodes[k])

\* A node has one key, which is a number.
LEMMA KeyOf ==
  ASSUME NEW Y, NEW node \in Int \X Y
  PROVE  /\ Key(node) \in Int
         /\ \A x \in Int, y \in Y : node = <<x, y>> => Key(node) = 2 * x + IF y = Shown THEN 1 ELSE 0
BY DEF Key

\* What rises repeats nothing.
LEMMA RisesOnce ==
  ASSUME NEW Y, NEW s \in Seq(Int \X Y), Rises(s)
  PROVE  IsInjective(s)
<1>. SUFFICES ASSUME NEW i \in DOMAIN s, NEW k \in DOMAIN s, s[i] = s[k], i < k PROVE FALSE
  BY DEF IsInjective
<1>1. Key(s[i]) < Key(s[k]) /\ Key(s[i]) \in Int /\ Key(s[k]) \in Int
  BY KeyOf DEF Rises
<1>. QED
  BY <1>1

\* There is one way to draw a set of nodes.
LEMMA RisesUniquely ==
  ASSUME NEW Y, NEW s \in Seq(Int \X Y), NEW t \in Seq(Int \X Y),
         Rises(s), Rises(t), ToSet(s) = ToSet(t)
  PROVE  s = t
<1>1. /\ Len(s) \in Nat /\ DOMAIN s = 1..Len(s) /\ \A i \in 1..Len(s) : s[i] \in Int \X Y
      /\ Len(t) \in Nat /\ DOMAIN t = 1..Len(t) /\ \A i \in 1..Len(t) : t[i] \in Int \X Y
  OBVIOUS
<1>2. /\ \A i \in 1..Len(s) : \E j \in 1..Len(t) : s[i] = t[j]
      /\ \A i \in 1..Len(t) : \E j \in 1..Len(s) : t[i] = s[j]
  BY <1>1 DEF ToSet
<1>3. /\ \A i \in 1..Len(s) : Key(s[i]) \in Int
      /\ \A i \in 1..Len(t) : Key(t[i]) \in Int
  BY <1>1, KeyOf
<1>4. /\ \A i, k \in 1..Len(s) : i < k => Key(s[i]) < Key(s[k])
      /\ \A i, k \in 1..Len(t) : i < k => Key(t[i]) < Key(t[k])
  BY <1>1 DEF Rises
<1>. DEFINE T == {n \in 0..Len(s) : n <= Len(t) /\ \A i \in 1..n : s[i] = t[i]}
<1>5. 0 \in T
  BY <1>1
<1>6. ASSUME NEW n \in 0..(Len(s) - 1), n \in T PROVE n + 1 \in T
  <2>1. n + 1 \in 1..Len(s)
    BY <1>1
  <2>2. PICK j \in 1..Len(t) : s[n + 1] = t[j]
    BY <1>2, <2>1
  <2>3. j > n
    <3>. SUFFICES ASSUME j <= n PROVE FALSE
      BY <1>1
    <3>1. s[j] = s[n + 1] /\ j \in 1..Len(s) /\ j < n + 1
      BY <1>1, <1>6, <2>2
    <3>. QED
      BY <1>3, <1>4, <2>1, <3>1
  <2>4. n + 1 \in 1..Len(t)
    BY <1>1, <2>3
  <2>5. PICK i \in 1..Len(s) : t[n + 1] = s[i]
    BY <1>2, <2>4
  <2>6. i > n
    <3>. SUFFICES ASSUME i <= n PROVE FALSE
      BY <1>1
    <3>1. t[i] = t[n + 1] /\ i \in 1..Len(t) /\ i < n + 1
      BY <1>1, <1>6, <2>4, <2>5
    <3>. QED
      BY <1>3, <1>4, <2>4, <3>1
  <2>7. s[n + 1] = t[n + 1]
    <3>1. j = n + 1 \/ Key(t[n + 1]) < Key(t[j])
      BY <1>1, <1>4, <2>3, <2>4
    <3>2. i = n + 1 \/ Key(s[n + 1]) < Key(s[i])
      BY <1>1, <1>4, <2>1, <2>6
    <3>3. /\ Key(s[n + 1]) = Key(t[j]) /\ Key(t[n + 1]) = Key(s[i])
          /\ Key(s[n + 1]) \in Int /\ Key(t[n + 1]) \in Int
      BY <1>3, <2>1, <2>2, <2>4, <2>5
    <3>4. j = n + 1 \/ i = n + 1
      BY <3>1, <3>2, <3>3
    <3>. QED
      BY <2>2, <2>5, <3>4
  <2>8. \A k \in 1..(n + 1) : k \in 1..n \/ k = n + 1
    BY <1>1
  <2>9. n + 1 \in 0..Len(s) /\ n + 1 <= Len(t)
    BY <1>1, <2>1, <2>4
  <2>10. \A k \in 1..(n + 1) : s[k] = t[k]
    BY <1>6, <2>7, <2>8
  <2>. QED
    BY <2>9, <2>10
<1>7. \A n \in 0..Len(s) : n \in T
  <2>. HIDE DEF T
  <2>. QED
    BY <1>1, <1>5, <1>6, UpTo
<1>8. Len(s) <= Len(t) /\ \A i \in 1..Len(s) : s[i] = t[i]
  BY <1>1, <1>7
<1>9. ~(Len(s) < Len(t))
  <2>. SUFFICES ASSUME Len(s) < Len(t) PROVE FALSE
    OBVIOUS
  <2>1. Len(s) + 1 \in 1..Len(t)
    BY <1>1
  <2>2. PICK i \in 1..Len(s) : t[Len(s) + 1] = s[i]
    BY <1>2, <2>1
  <2>3. t[i] = t[Len(s) + 1] /\ i \in 1..Len(t) /\ i < Len(s) + 1
    BY <1>1, <1>8, <2>2
  <2>. QED
    BY <1>3, <1>4, <2>1, <2>3
<1>10. Len(s) = Len(t)
  <2>1. Len(s) <= Len(t)
    BY <1>8
  <2>. DEFINE a == Len(s)
              b == Len(t)
  <2>2. a \in Nat /\ b \in Nat /\ a <= b /\ ~(a < b)
    BY <1>1, <1>9, <2>1
  <2>. HIDE DEF a, b
  <2>3. a = b
    BY <2>2
  <2>. QED
    BY <2>3 DEF a, b
<1>. QED
  BY <1>1, <1>8, <1>10

\* Plain text rises, from its first offset on.
LEMMA SliceRises ==
  ASSUME NEW Y, Shown \in Y, NEW a \in Int, NEW b \in Int
  PROVE  /\ Slice(a, b) \in Seq(Int \X Y) /\ Rises(Slice(a, b))
         /\ ToSet(Slice(a, b)) = {<<x, Shown>> : x \in a..(b - 1)}
<1>. DEFINE s == Slice(a, b)
<1>1. CASE a <= b
  <2>1. b - a \in Nat
    BY <1>1
  <2>2. s \in Seq(Int \X Y) /\ DOMAIN s = 1..(b - a) /\ \A i \in 1..(b - a) : s[i] = <<a + i - 1, Shown>>
    BY <2>1 DEF Slice
  <2>. HIDE DEF s
  <2>3. \A i \in 1..(b - a) : Key(s[i]) = 2 * (a + i - 1) + 1
    BY <2>2 DEF Key
  <2>4. Rises(s)
    BY <2>2, <2>3 DEF Rises
  <2>5. \A x \in a..(b - 1) : x - a + 1 \in 1..(b - a) /\ a + (x - a + 1) - 1 = x
    OBVIOUS
  <2>6. \A i \in 1..(b - a) : a + i - 1 \in a..(b - 1)
    OBVIOUS
  <2>7. ToSet(s) = {<<x, Shown>> : x \in a..(b - 1)}
    <3>1. ToSet(s) = {<<a + i - 1, Shown>> : i \in 1..(b - a)}
      BY <2>2 DEF ToSet
    <3>2. \A x \in a..(b - 1) : <<x, Shown>> \in {<<a + i - 1, Shown>> : i \in 1..(b - a)}
      BY <2>5
    <3>. QED
      BY <2>6, <3>1, <3>2
  <2>. QED
    BY <2>2, <2>4, <2>7 DEF s
<1>2. CASE a > b
  <2>1. 1..(b - a) = {} /\ a..(b - 1) = {}
    BY <1>2
  <2>2. s = <<>>
    BY <2>1 DEF Slice
  <2>. QED
    BY <2>1, <2>2 DEF ToSet, Rises
<1>. QED
  BY <1>1, <1>2

\* All of s comes before all of t.
Precedes(s, t) == \A x \in ToSet(s), y \in ToSet(t) : Key(x) < Key(y)

\* What rises, and after it what rises and comes later, rises together.
LEMMA JoinRises ==
  ASSUME NEW Y, NEW s \in Seq(Int \X Y), NEW t \in Seq(Int \X Y), Rises(s), Rises(t), Precedes(s, t)
  PROVE  Rises(s \o t)
<1>. DEFINE u == s \o t
<1>1. /\ u \in Seq(Int \X Y) /\ Len(s) \in Nat /\ Len(t) \in Nat /\ Len(u) = Len(s) + Len(t)
      /\ \A p \in 1..Len(s) : u[p] = s[p]
      /\ \A p \in 1..Len(t) : u[Len(s) + p] = t[p]
  BY Concatenated
<1>2. DOMAIN s = 1..Len(s) /\ DOMAIN t = 1..Len(t) /\ DOMAIN u = 1..(Len(s) + Len(t))
  BY <1>1
<1>. DEFINE a == Len(s)
            b == Len(t)
<1>3. /\ a \in Nat /\ b \in Nat /\ DOMAIN s = 1..a /\ DOMAIN t = 1..b
      /\ DOMAIN u = 1..(a + b) /\ \A p \in 1..a : u[p] = s[p]
      /\ \A p \in 1..b : u[a + p] = t[p]
  BY <1>1, <1>2
<1>. HIDE DEF u, a, b
<1>4. \A p \in DOMAIN u : IF p <= a THEN p \in DOMAIN s /\ u[p] = s[p]
                          ELSE p - a \in DOMAIN t /\ u[p] = t[p - a]
  <2>. SUFFICES ASSUME NEW p \in DOMAIN u
                PROVE  IF p <= a THEN p \in DOMAIN s /\ u[p] = s[p]
                       ELSE p - a \in DOMAIN t /\ u[p] = t[p - a]
    OBVIOUS
  <2>1. p \in Int /\ 1 <= p /\ p <= a + b
    BY <1>3
  <2>2. CASE p <= a
    BY <1>3, <2>1, <2>2
  <2>3. CASE ~(p <= a)
    <3>1. p - a \in 1..b /\ a + (p - a) = p
      BY <1>3, <2>1, <2>3
    <3>. QED
      BY <1>3, <2>3, <3>1
  <2>. QED
    BY <2>2, <2>3
<1>. SUFFICES ASSUME NEW i \in DOMAIN u, NEW k \in DOMAIN u, i < k PROVE Key(u[i]) < Key(u[k])
  BY DEF Rises, u
<1>5. i \in Int /\ k \in Int
  BY <1>3
<1>6. CASE k <= a
  <2>1. i <= a
    BY <1>3, <1>5, <1>6
  <2>2. i \in DOMAIN s /\ k \in DOMAIN s /\ u[i] = s[i] /\ u[k] = s[k]
    BY <1>4, <1>6, <2>1
  <2>. QED
    BY <2>2 DEF Rises
<1>7. CASE i <= a /\ ~(k <= a)
  <2>1. i \in DOMAIN s /\ k - a \in DOMAIN t /\ u[i] = s[i] /\ u[k] = t[k - a]
    BY <1>4, <1>7
  <2>. QED
    BY <2>1 DEF Precedes, ToSet
<1>8. CASE ~(i <= a)
  <2>1. ~(k <= a) /\ i - a < k - a
    BY <1>3, <1>5, <1>8
  <2>2. i - a \in DOMAIN t /\ k - a \in DOMAIN t /\ u[i] = t[i - a] /\ u[k] = t[k - a]
    BY <1>4, <1>8, <2>1
  <2>. QED
    BY <2>1, <2>2 DEF Rises
<1>. QED
  BY <1>6, <1>7, <1>8

\* So do the parts of what is flattened, each before the next.
LEMMA FlattenedRises ==
  ASSUME NEW Y, NEW seqs \in Seq(Seq(Int \X Y)),
         \A i \in DOMAIN seqs : Rises(seqs[i]),
         \A i, k \in DOMAIN seqs : i < k => Precedes(seqs[i], seqs[k])
  PROVE  Rises(FlattenSeq(seqs))
<1>. DEFINE flat == FlattenSeq(seqs)
            n == Len(seqs)
<1>1. flat \in Seq(Int \X Y) /\ \E at : EndsOf(seqs, flat, at)
  BY Flattened
<1>2. PICK at : EndsOf(seqs, flat, at)
  BY <1>1
<1>3. \A i, k \in 0..n : i <= k => at[i] <= at[k]
  BY <1>2, EndsRise
<1>. HIDE DEF flat
<1>4. DOMAIN flat = 1..Len(flat) /\ DOMAIN seqs = 1..n /\ n \in Nat
      /\ \A i \in DOMAIN seqs : DOMAIN seqs[i] = 1..Len(seqs[i]) /\ Len(seqs[i]) \in Nat
  BY <1>1
<1>. HIDE DEF n
<1>5. at \in [0..n -> Nat] /\ \A i \in 1..n : at[i] = at[i - 1] + Len(seqs[i])
  BY <1>2 DEF EndsOf, n
<1>6. ASSUME NEW p \in 1..Len(flat), NEW q \in 1..Len(flat), p < q PROVE Key(flat[p]) < Key(flat[q])
  <2>. PICK i \in 1..n : \E j \in 1..Len(seqs[i]) : p = at[i - 1] + j
    BY <1>2 DEF EndsOf, n
  <2>1. PICK j \in 1..Len(seqs[i]) : p = at[i - 1] + j
    OBVIOUS
  <2>. PICK k \in 1..n : \E l \in 1..Len(seqs[k]) : q = at[k - 1] + l
    BY <1>2 DEF EndsOf, n
  <2>2. PICK l \in 1..Len(seqs[k]) : q = at[k - 1] + l
    OBVIOUS
  <2>3. flat[p] = seqs[i][j] /\ flat[q] = seqs[k][l]
    BY <1>2, <2>1, <2>2 DEF EndsOf, n
  <2>4. i <= k
    <3>. SUFFICES ASSUME k < i PROVE FALSE
      BY <1>4
    <3>1. k \in 0..n /\ i - 1 \in 0..n /\ k - 1 \in 0..n /\ k <= i - 1
      BY <1>4
    <3>2. at[k] <= at[i - 1] /\ at[k] = at[k - 1] + Len(seqs[k])
          /\ at[i - 1] \in Nat /\ at[k - 1] \in Nat /\ Len(seqs[k]) \in Nat
      BY <1>3, <1>4, <1>5, <3>1
    <3>. DEFINE a == at[i - 1]
                b == at[k - 1]
                e == Len(seqs[k])
    <3>3. a \in Nat /\ b \in Nat /\ e \in Nat /\ b + e <= a
      BY <3>2
    <3>4. p = a + j /\ q = b + l /\ j \in Nat /\ j >= 1 /\ l \in Nat /\ l <= e
      <4>1. p = a + j /\ q = b + l
        BY <2>1, <2>2
      <4>2. Len(seqs[i]) \in Nat /\ Len(seqs[k]) \in Nat
        BY <1>4
      <4>3. j \in Nat /\ j >= 1 /\ l \in Nat /\ l <= e
        BY <4>2
      <4>. QED
        BY <4>1, <4>3
    <3>. HIDE DEF a, b, e
    <3>. QED
      BY <1>6, <3>3, <3>4
  <2>5. CASE i = k
    <3>1. at[i - 1] \in Nat
      BY <1>4, <1>5
    <3>. DEFINE a == at[i - 1]
    <3>2. a \in Nat /\ p = a + j /\ q = a + l
      BY <2>1, <2>2, <2>5, <3>1
    <3>3. j \in Int /\ l \in Int
      OBVIOUS
    <3>. HIDE DEF a
    <3>4. j < l
      BY <1>6, <3>2, <3>3
    <3>. QED
      BY <1>4, <2>3, <2>5, <3>4 DEF Rises
  <2>6. CASE i < k
    <3>1. seqs[i][j] \in ToSet(seqs[i]) /\ seqs[k][l] \in ToSet(seqs[k])
      BY <1>4 DEF ToSet
    <3>. QED
      BY <1>4, <2>3, <2>6, <3>1 DEF Precedes
  <2>. QED
    BY <2>4, <2>5, <2>6, <1>4
<1>. QED
  BY <1>4, <1>6 DEF Rises, flat

AtDistance(nodes, d) == {<<x[1] + d, x[2]>> : x \in nodes}

\* What is drawn at a distance rises as it did.
LEMMA MovedRises ==
  ASSUME NEW Y, NEW s \in Seq(Int \X Y), NEW d \in Int
  PROVE  /\ Moved(s, d) \in Seq(Int \X Y)
         /\ ToSet(Moved(s, d)) = AtDistance(ToSet(s), d)
         /\ Rises(s) => Rises(Moved(s, d))
<1>1. /\ Moved(s, d) \in Seq(Int \X Y) /\ DOMAIN Moved(s, d) = DOMAIN s
      /\ \A i \in DOMAIN s : Moved(s, d)[i] = <<s[i][1] + d, s[i][2]>> /\ s[i] \in Int \X Y
  BY DEF Moved
<1>2. \A i \in DOMAIN s : Key(Moved(s, d)[i]) = Key(s[i]) + 2 * d /\ Key(s[i]) \in Int
  BY <1>1 DEF Key
<1>3. Rises(s) => Rises(Moved(s, d))
  BY <1>1, <1>2 DEF Rises
<1>4. ToSet(Moved(s, d)) = AtDistance(ToSet(s), d)
  <2>. DEFINE m == Moved(s, d)
  <2>1. DOMAIN m = DOMAIN s /\ \A i \in DOMAIN s : m[i] = <<s[i][1] + d, s[i][2]>>
    BY <1>1
  <2>. HIDE DEF m
  <2>2. ToSet(m) = {<<x[1] + d, x[2]>> : x \in ToSet(s)}
    <3>1. \A i \in DOMAIN s : m[i] \in {<<x[1] + d, x[2]>> : x \in ToSet(s)}
      BY <2>1 DEF ToSet
    <3>2. \A i \in DOMAIN s : <<s[i][1] + d, s[i][2]>> \in ToSet(m)
      BY <2>1 DEF ToSet
    <3>3. ToSet(m) = {m[i] : i \in DOMAIN s} /\ ToSet(s) = {s[i] : i \in DOMAIN s}
      BY <2>1, Zenon DEF ToSet
    <3>. QED
      BY <3>1, <3>2, <3>3
  <2>. QED
    BY <2>2 DEF m, AtDistance
<1>. QED
  BY <1>1, <1>3, <1>4

-------------------------------------------------------------------------------
(* What the renderer draws of chips                                            *)

\* What is drawn for the i-th chip: the text since the chip before it, its own and itself.
CursorOf(chips, i) == IF i = 0 THEN 0 ELSE chips[i].end
NodesOf(chips, i) ==
  Slice(CursorOf(chips, i - 1), chips[i].start) \o Slice(chips[i].start, chips[i].end)
    \o IF SameCitedAsNext(chips, i) THEN <<>> ELSE <<ChipOf(chips[i])>>

AreChips(chips, Y) ==
  /\ chips \in Seq({chips[i] : i \in DOMAIN chips})
  /\ \A i \in DOMAIN chips :
       chips[i].start \in Int /\ chips[i].end \in Int /\ chips[i].id \in Y \ {Shown}

\* The renderer flattens what it draws chip by chip, and goes on to the end.
LEMMA DrawnParts ==
  ASSUME NEW Y, Shown \in Y, NEW chips, AreChips(chips, Y), NEW size \in Nat
  PROVE  LET seqs == [i \in DOMAIN chips |-> NodesOf(chips, i)]
         IN  /\ Draw(chips, size) = FlattenSeq(seqs) \o Slice(CursorOf(chips, Len(chips)), size)
             /\ seqs \in Seq(Seq(Int \X Y)) /\ DOMAIN seqs = DOMAIN chips
             /\ DOMAIN chips = 1..Len(chips) /\ Len(chips) \in Nat
             /\ \A i \in 0..Len(chips) : CursorOf(chips, i) \in Int
             /\ \A i \in DOMAIN chips : seqs[i] = NodesOf(chips, i)
<1>. DEFINE seqs == [i \in DOMAIN chips |-> NodesOf(chips, i)]
            n == Len(chips)
<1>1. Draw(chips, size) = FlattenSeq(seqs) \o Slice(CursorOf(chips, n), size)
  BY DEF Draw, NodesOf, CursorOf
<1>2. DOMAIN chips = 1..n /\ n \in Nat
  BY DEF AreChips
<1>. HIDE DEF n
<1>3. \A i \in 0..n : CursorOf(chips, i) \in Int
  BY <1>2 DEF CursorOf, AreChips
<1>4. ASSUME NEW i \in 1..n PROVE NodesOf(chips, i) \in Seq(Int \X Y)
  <2>1. CursorOf(chips, i - 1) \in Int /\ chips[i].start \in Int /\ chips[i].end \in Int
    BY <1>2, <1>3 DEF AreChips
  <2>. DEFINE a == Slice(CursorOf(chips, i - 1), chips[i].start)
              b == Slice(chips[i].start, chips[i].end)
              c == IF SameCitedAsNext(chips, i) THEN <<>> ELSE <<ChipOf(chips[i])>>
              A == Int \X Y
  <2>2. a \in Seq(A) /\ b \in Seq(A)
    BY <2>1, SliceRises
  <2>3. ChipOf(chips[i]) \in A
    BY <1>2, <2>1 DEF ChipOf, AreChips
  <2>4. NodesOf(chips, i) = (a \o b) \o c
    BY DEF NodesOf
  <2>. HIDE DEF a, b, A
  <2>5. c \in Seq(A)
    BY <2>3
  <2>. HIDE DEF c
  <2>6. a \o b \in Seq(A)
    BY <2>2, Concatenated
  <2>7. (a \o b) \o c \in Seq(A)
    BY <2>5, <2>6, Concatenated
  <2>. QED
    BY <2>4, <2>7 DEF A
<1>5. seqs \in Seq(Seq(Int \X Y)) /\ DOMAIN seqs = DOMAIN chips
      /\ \A i \in DOMAIN chips : seqs[i] = NodesOf(chips, i)
  <2>. DEFINE A == Int \X Y
              N(i) == NodesOf(chips, i)
  <2>. HIDE DEF A
  <2>1. seqs = [i \in 1..n |-> N(i)] /\ \A i \in 1..n : N(i) \in Seq(A)
    BY <1>2, <1>4 DEF A
  <2>. HIDE DEF N, seqs
  <2>2. seqs \in Seq(Seq(A)) /\ DOMAIN seqs = 1..n /\ \A i \in 1..n : seqs[i] = N(i)
    BY <1>2, <2>1
  <2>. QED
    BY <1>2, <2>2 DEF N, A
<1>. QED
  BY <1>1, <1>2, <1>3, <1>5 DEF n

\* The chips stand apart, each over some text.
Spread(chips, size) ==
  /\ \A i \in DOMAIN chips :
       0 <= chips[i].start /\ chips[i].start < chips[i].end /\ chips[i].end <= size
  /\ \A i, k \in DOMAIN chips : i < k => chips[i].end < chips[k].start

\* Then all of the text is drawn, and every chip where its span ends.
LEMMA Drawn ==
  ASSUME NEW Y, Shown \in Y, NEW chips, AreChips(chips, Y), NEW size \in Nat, Spread(chips, size)
  PROVE  /\ Draw(chips, size) \in Seq(Int \X Y) /\ Rises(Draw(chips, size))
         /\ ToSet(Draw(chips, size))
              = {<<x, Shown>> : x \in 0..(size - 1)} \cup {ChipOf(c) : c \in ToSet(chips)}
<1>. DEFINE seqs == [i \in DOMAIN chips |-> NodesOf(chips, i)]
            n == Len(chips)
            At(i) == CursorOf(chips, i)
            A == Int \X Y
<1>1. /\ Draw(chips, size) = FlattenSeq(seqs) \o Slice(At(n), size)
      /\ seqs \in Seq(Seq(A)) /\ DOMAIN seqs = 1..n /\ DOMAIN chips = 1..n /\ n \in Nat
      /\ \A i \in 1..n : seqs[i] = NodesOf(chips, i)
  BY DrawnParts
<1>2. \A i \in 1..n : /\ chips[i].start \in Int /\ chips[i].end \in Int /\ chips[i].id \in Y \ {Shown}
                      /\ 0 <= chips[i].start /\ chips[i].start < chips[i].end /\ chips[i].end <= size
  BY <1>1 DEF AreChips, Spread
<1>3. At(0) = 0 /\ \A i \in 1..n : At(i) = chips[i].end
  BY <1>1 DEF CursorOf
<1>. HIDE DEF seqs, n, At
<1>4. \A i, k \in 1..n : i < k => At(i) < chips[k].start
  BY <1>1, <1>3 DEF Spread
<1>5. \A i \in 0..n : At(i) \in Int /\ 0 <= At(i) /\ At(i) <= size
  <2>. SUFFICES ASSUME NEW i \in 0..n PROVE At(i) \in Int /\ 0 <= At(i) /\ At(i) <= size
    OBVIOUS
  <2>1. CASE i = 0
    BY <1>3, <2>1
  <2>2. CASE i # 0
    <3>1. i \in 1..n
      BY <1>1, <2>2
    <3>2. At(i) = chips[i].end
      BY <1>3, <3>1
    <3>3. /\ chips[i].start \in Int /\ chips[i].end \in Int
          /\ 0 <= chips[i].start /\ chips[i].start < chips[i].end /\ chips[i].end <= size
      BY <1>2, <3>1
    <3>. QED
      BY <3>2, <3>3
  <2>. QED
    BY <2>1, <2>2
<1>6. \A i \in 1..n : At(i - 1) <= chips[i].start
  <2>. SUFFICES ASSUME NEW i \in 1..n PROVE At(i - 1) <= chips[i].start
    OBVIOUS
  <2>1. CASE i = 1
    BY <1>2, <1>3, <2>1
  <2>2. CASE i # 1
    <3>1. i - 1 \in 1..n /\ i - 1 < i
      BY <1>1, <2>2
    <3>2. At(i - 1) < chips[i].start /\ At(i - 1) \in Int /\ chips[i].start \in Int
      BY <1>2, <1>4, <1>5, <3>1
    <3>. QED
      BY <3>2
  <2>. QED
    BY <2>1, <2>2
<1>7. \A i \in 1..n : ~SameCitedAsNext(chips, i)
  <2>. SUFFICES ASSUME NEW i \in 1..n, i < Len(chips), chips[i + 1].start = chips[i].end PROVE FALSE
    BY DEF SameCitedAsNext
  <2>1. i + 1 \in 1..n /\ i < i + 1
    BY <1>1 DEF n
  <2>2. chips[i].end < chips[i + 1].start /\ chips[i].end \in Int
    BY <1>2, <1>3, <1>4, <2>1
  <2>. QED
    BY <2>2
\* One part of it.
<1>8. ASSUME NEW i \in 1..n
      PROVE  /\ Rises(seqs[i])
             /\ ToSet(seqs[i]) = {<<x, Shown>> : x \in At(i - 1)..(At(i) - 1)} \cup {ChipOf(chips[i])}
  <2>. DEFINE a == Slice(At(i - 1), chips[i].start)
              b == Slice(chips[i].start, chips[i].end)
              c == <<ChipOf(chips[i])>>
              u == At(i - 1)
              v == chips[i].start
              w == chips[i].end
  <2>1. u \in Int /\ v \in Int /\ w \in Int /\ u <= v /\ v < w /\ At(i) = w
    BY <1>1, <1>2, <1>3, <1>5, <1>6
  <2>2. /\ a \in Seq(A) /\ Rises(a) /\ ToSet(a) = {<<x, Shown>> : x \in u..(v - 1)}
        /\ b \in Seq(A) /\ Rises(b) /\ ToSet(b) = {<<x, Shown>> : x \in v..(w - 1)}
    BY <2>1, SliceRises
  <2>3. ChipOf(chips[i]) = <<w, chips[i].id>> /\ ChipOf(chips[i]) \in A /\ Key(ChipOf(chips[i])) = 2 * w
    <3>1. ChipOf(chips[i]) = <<w, chips[i].id>> /\ chips[i].id # Shown /\ chips[i].id \in Y
      BY <1>2 DEF ChipOf
    <3>. QED
      BY <2>1, <3>1 DEF Key
  <2>4. seqs[i] = (a \o b) \o c
    BY <1>1, <1>7 DEF NodesOf, At
  <2>. HIDE DEF a, b, u, v, w, A
  <2>5. c \in Seq(A) /\ Rises(c) /\ ToSet(c) = {ChipOf(chips[i])}
    <3>. DEFINE z == ChipOf(chips[i])
    <3>1. z \in A
      BY <2>3
    <3>. HIDE DEF z
    <3>2. <<z>> \in Seq(A) /\ DOMAIN <<z>> = 1..1 /\ <<z>>[1] = z
      BY <3>1
    <3>3. Rises(<<z>>) /\ ToSet(<<z>>) = {z}
      BY <3>2 DEF Rises, ToSet
    <3>. QED
      BY <3>2, <3>3 DEF z
  <2>. HIDE DEF c
  <2>6. \A x \in Int : Key(<<x, Shown>>) = 2 * x + 1
    BY DEF Key
  <2>7. Precedes(a, b)
    <3>1. \A x \in u..(v - 1), y \in v..(w - 1) : Key(<<x, Shown>>) < Key(<<y, Shown>>)
      BY <2>1, <2>6
    <3>. QED
      BY <2>2, <3>1 DEF Precedes
  <2>8. a \o b \in Seq(A) /\ Rises(a \o b) /\ ToSet(a \o b) = ToSet(a) \cup ToSet(b)
    <3>1. Rises(a \o b)
      BY <2>2, <2>7, JoinRises DEF A
    <3>. QED
      BY <2>2, <3>1, JoinedOnce
  <2>9. ToSet(a \o b) = {<<x, Shown>> : x \in u..(w - 1)}
    <3>1. \A x : x \in u..(w - 1) <=> x \in u..(v - 1) \/ x \in v..(w - 1)
      BY <2>1
    <3>. HIDE DEF A
    <3>. QED
      BY <2>2, <2>8, <3>1
  <2>10. Precedes(a \o b, c)
    <3>1. \A x \in u..(w - 1) : Key(<<x, Shown>>) < 2 * w
      BY <2>1, <2>6
    <3>. QED
      BY <2>3, <2>5, <2>9, <3>1 DEF Precedes
  <2>11. Rises((a \o b) \o c)
    BY <2>5, <2>8, <2>10, JoinRises DEF A
  <2>12. ToSet((a \o b) \o c) = ToSet(a \o b) \cup ToSet(c)
    <3>. DEFINE e == a \o b
    <3>1. e \in Seq(A)
      BY <2>8
    <3>. HIDE DEF e
    <3>2. ToSet(e \o c) = ToSet(e) \cup ToSet(c)
      BY <2>5, <3>1, JoinedOnce
    <3>. QED
      BY <3>2 DEF e
  <2>. QED
    BY <2>1, <2>4, <2>5, <2>9, <2>11, <2>12 DEF u
\* The parts follow one another.
<1>9. \A i, k \in 1..n : i <= k => At(i) <= At(k)
  <2>. SUFFICES ASSUME NEW i \in 1..n, NEW k \in 1..n, i < k PROVE At(i) <= At(k)
    BY <1>1, <1>5
  <2>1. At(i) < chips[k].start /\ chips[k].start < At(k)
    BY <1>2, <1>3, <1>4
  <2>2. At(i) \in Int /\ At(k) \in Int /\ chips[k].start \in Int
    BY <1>1, <1>2, <1>5
  <2>. QED
    BY <2>1, <2>2
<1>10. \A i \in 1..n : \A x \in ToSet(seqs[i]) :
         Key(x) \in Int /\ 2 * At(i - 1) < Key(x) /\ Key(x) <= 2 * At(i)
  <2>. SUFFICES ASSUME NEW i \in 1..n, NEW x \in ToSet(seqs[i])
                PROVE  Key(x) \in Int /\ 2 * At(i - 1) < Key(x) /\ Key(x) <= 2 * At(i)
    OBVIOUS
  <2>. DEFINE u == At(i - 1)
              w == At(i)
              v == chips[i].start
  <2>1. u \in Int /\ w \in Int /\ v \in Int /\ u <= v /\ v < w
    <3>1. i \in 0..n /\ i - 1 \in 0..n
      BY <1>1
    <3>. QED
      BY <1>2, <1>3, <1>5, <1>6, <3>1
  <2>2. ChipOf(chips[i]) = <<w, chips[i].id>> /\ chips[i].id # Shown
    BY <1>2, <1>3 DEF ChipOf
  <2>3. (\E z \in u..(w - 1) : x = <<z, Shown>>) \/ x = <<w, chips[i].id>>
    BY <1>8, <2>2
  <2>. HIDE DEF u, w, v
  <2>4. (\E z \in u..(w - 1) : Key(x) = 2 * z + 1) \/ Key(x) = 2 * w
    <3>1. CASE x = <<w, chips[i].id>>
      BY <2>1, <2>2, <3>1 DEF Key
    <3>2. ASSUME NEW z \in u..(w - 1), x = <<z, Shown>> PROVE Key(x) = 2 * z + 1
      BY <3>2 DEF Key
    <3>. QED
      BY <2>3, <3>1, <3>2
  <2>5. Key(x) \in Int /\ 2 * u < Key(x) /\ Key(x) <= 2 * w
    BY <2>1, <2>4
  <2>. QED
    BY <2>5 DEF u, w
<1>11. \A i, k \in 1..n : i < k => Precedes(seqs[i], seqs[k])
  <2>. SUFFICES ASSUME NEW i \in 1..n, NEW k \in 1..n, i < k,
                       NEW x \in ToSet(seqs[i]), NEW y \in ToSet(seqs[k])
                PROVE  Key(x) < Key(y)
    BY DEF Precedes
  <2>1. k - 1 \in 1..n /\ i <= k - 1 /\ i \in 0..n /\ k - 1 \in 0..n
    BY <1>1
  <2>2. At(i) <= At(k - 1) /\ At(i) \in Int /\ At(k - 1) \in Int
    BY <1>5, <1>9, <2>1
  <2>3. Key(x) \in Int /\ Key(y) \in Int /\ Key(x) <= 2 * At(i) /\ 2 * At(k - 1) < Key(y)
    BY <1>10
  <2>. QED
    BY <2>2, <2>3
<1>. DEFINE flat == FlattenSeq(seqs)
            rest == Slice(At(n), size)
<1>12. flat \in Seq(A) /\ Rises(flat) /\ ToSet(flat) = UNION {ToSet(seqs[i]) : i \in 1..n}
  <2>1. flat \in Seq(A)
    BY <1>1, Flattened
  <2>2. Rises(flat)
    <3>1. \A i \in DOMAIN seqs : Rises(seqs[i])
      BY <1>1, <1>8
    <3>2. \A i, k \in DOMAIN seqs : i < k => Precedes(seqs[i], seqs[k])
      BY <1>1, <1>11
    <3>. QED
      BY <1>1, <3>1, <3>2, FlattenedRises
  <2>3. ToSet(flat) = UNION {ToSet(seqs[i]) : i \in DOMAIN seqs}
    BY <1>1, FlattenedSet
  <2>. QED
    BY <1>1, <2>1, <2>2, <2>3
<1>13. rest \in Seq(A) /\ Rises(rest) /\ ToSet(rest) = {<<x, Shown>> : x \in At(n)..(size - 1)}
  <2>1. At(n) \in Int /\ size \in Int
    BY <1>1, <1>5
  <2>. QED
    BY <2>1, SliceRises
<1>. HIDE DEF A
<1>14. Precedes(flat, rest)
  <2>. SUFFICES ASSUME NEW x \in ToSet(flat), NEW y \in ToSet(rest) PROVE Key(x) < Key(y)
    BY DEF Precedes
  <2>1. PICK i \in 1..n : x \in ToSet(seqs[i])
    BY <1>12
  <2>2. i \in 0..n /\ n \in 1..n /\ i <= n /\ n \in 0..n
    BY <1>1
  <2>3. At(i) <= At(n) /\ At(i) \in Int /\ At(n) \in Int
    BY <1>5, <1>9, <2>2
  <2>4. Key(x) \in Int /\ Key(x) <= 2 * At(i)
    BY <1>10, <2>1
  <2>5. PICK z \in At(n)..(size - 1) : y = <<z, Shown>>
    BY <1>13
  <2>6. Key(y) = 2 * z + 1 /\ z \in Int /\ z >= At(n)
    BY <2>3, <2>5 DEF Key
  <2>. QED
    BY <2>3, <2>4, <2>6
<1>15. flat \o rest \in Seq(A) /\ Rises(flat \o rest) /\ ToSet(flat \o rest) = ToSet(flat) \cup ToSet(rest)
  <2>1. Rises(flat \o rest)
    BY <1>12, <1>13, <1>14, JoinRises DEF A
  <2>. QED
    BY <1>12, <1>13, <2>1, JoinedOnce
<1>. HIDE DEF flat, rest
\* Every offset is drawn.
<1>16. \A x \in 0..(size - 1) : <<x, Shown>> \in ToSet(flat \o rest)
  <2>. DEFINE T == {m \in 0..n : \A x \in 0..(At(m) - 1) : <<x, Shown>> \in ToSet(flat)}
  <2>1. 0 \in T
    BY <1>1, <1>3
  <2>2. ASSUME NEW m \in 0..(n - 1), m \in T PROVE m + 1 \in T
    <3>1. m + 1 \in 1..n /\ (m + 1) - 1 = m /\ m \in 0..n /\ m + 1 \in 0..n
      BY <1>1
    <3>2. At(m) \in Int /\ At(m + 1) \in Int
      BY <1>5, <3>1
    <3>3. \A x \in At(m)..(At(m + 1) - 1) : <<x, Shown>> \in ToSet(seqs[m + 1])
      BY <1>8, <3>1
    <3>4. \A x \in At(m)..(At(m + 1) - 1) : <<x, Shown>> \in ToSet(flat)
      BY <1>12, <3>1, <3>3
    <3>5. \A x \in 0..(At(m + 1) - 1) : x \in 0..(At(m) - 1) \/ x \in At(m)..(At(m + 1) - 1)
      BY <3>2
    <3>. QED
      BY <2>2, <3>1, <3>4, <3>5
  <2>3. \A m \in 0..n : m \in T
    <3>. HIDE DEF T
    <3>. QED
      BY <1>1, <2>1, <2>2, UpTo
  <2>4. \A x \in 0..(At(n) - 1) : <<x, Shown>> \in ToSet(flat)
    BY <1>1, <2>3
  <2>5. At(n) \in Int
    BY <1>1, <1>5
  <2>6. \A x \in 0..(size - 1) : x \in 0..(At(n) - 1) \/ x \in At(n)..(size - 1)
    BY <2>5
  <2>. QED
    BY <1>13, <1>15, <2>4, <2>6
<1>17. \A c \in ToSet(chips) : ChipOf(c) \in ToSet(flat \o rest)
  <2>. SUFFICES ASSUME NEW i \in 1..n PROVE ChipOf(chips[i]) \in ToSet(flat \o rest)
    BY <1>1 DEF ToSet
  <2>1. ChipOf(chips[i]) \in ToSet(seqs[i])
    BY <1>8
  <2>. QED
    BY <1>12, <1>15, <2>1
<1>18. ASSUME NEW y \in ToSet(flat \o rest)
       PROVE  y \in {<<x, Shown>> : x \in 0..(size - 1)} \cup {ChipOf(c) : c \in ToSet(chips)}
  <2>1. CASE y \in ToSet(flat)
    <3>1. PICK i \in 1..n : y \in ToSet(seqs[i])
      BY <1>12, <2>1
    <3>2. i \in 0..n /\ i - 1 \in 0..n
      BY <1>1
    <3>3. At(i - 1) \in Int /\ At(i) \in Int /\ 0 <= At(i - 1) /\ At(i) <= size
      BY <1>5, <3>2
    <3>4. \A x \in At(i - 1)..(At(i) - 1) : x \in 0..(size - 1)
      BY <3>3
    <3>5. chips[i] \in ToSet(chips)
      BY <1>1 DEF ToSet
    <3>. QED
      BY <1>8, <3>1, <3>4, <3>5
  <2>2. CASE y \in ToSet(rest)
    <3>1. At(n) \in Int /\ 0 <= At(n)
      BY <1>1, <1>5
    <3>2. \A x \in At(n)..(size - 1) : x \in 0..(size - 1)
      BY <3>1
    <3>. QED
      BY <1>13, <2>2, <3>2
  <2>. QED
    BY <1>15, <2>1, <2>2
<1>. QED
  BY <1>1, <1>15, <1>16, <1>17, <1>18 DEF A, flat, rest

\* Two chips that end where the same text ends draw some of it twice.
LEMMA DrawnTwice ==
  ASSUME NEW Y, Shown \in Y, NEW chips, AreChips(chips, Y), NEW size \in Nat,
         NEW i \in DOMAIN chips, NEW k \in DOMAIN chips, i # k,
         chips[i].end = chips[k].end,
         chips[i].start < chips[i].end, chips[k].start < chips[k].end
  PROVE  ~IsInjective(Draw(chips, size))
<1>. DEFINE seqs == [p \in DOMAIN chips |-> NodesOf(chips, p)]
            n == Len(chips)
            A == Int \X Y
            x == <<chips[i].end - 1, Shown>>
<1>1. /\ Draw(chips, size) = FlattenSeq(seqs) \o Slice(CursorOf(chips, n), size)
      /\ seqs \in Seq(Seq(A)) /\ DOMAIN seqs = 1..n /\ DOMAIN chips = 1..n /\ n \in Nat
      /\ \A p \in 0..n : CursorOf(chips, p) \in Int
      /\ \A p \in 1..n : seqs[p] = NodesOf(chips, p)
  BY DrawnParts
<1>. HIDE DEF seqs, n
<1>2. ASSUME NEW p \in 1..n, chips[p].start < chips[p].end
      PROVE  <<chips[p].end - 1, Shown>> \in ToSet(seqs[p])
  <2>. DEFINE a == Slice(CursorOf(chips, p - 1), chips[p].start)
              b == Slice(chips[p].start, chips[p].end)
              c == IF SameCitedAsNext(chips, p) THEN <<>> ELSE <<ChipOf(chips[p])>>
              y == <<chips[p].end - 1, Shown>>
  <2>1. p - 1 \in 0..n /\ chips[p].start \in Int /\ chips[p].end \in Int
    <3>1. p - 1 \in 0..n /\ p \in DOMAIN chips
      BY <1>1
    <3>. QED
      BY <3>1 DEF AreChips
  <2>2. CursorOf(chips, p - 1) \in Int
    BY <1>1, <2>1
  <2>3. ChipOf(chips[p]) \in A
    BY <1>1, <2>1 DEF ChipOf, AreChips
  <2>4. a \in Seq(A) /\ b \in Seq(A)
        /\ ToSet(b) = {<<z, Shown>> : z \in chips[p].start..(chips[p].end - 1)}
    BY <2>1, <2>2, SliceRises
  <2>5. chips[p].end - 1 \in chips[p].start..(chips[p].end - 1)
    BY <1>2, <2>1
  <2>6. y \in ToSet(b)
    BY <2>4, <2>5
  <2>7. seqs[p] = (a \o b) \o c
    BY <1>1 DEF NodesOf
  <2>. HIDE DEF a, b, y, A
  <2>8. c \in Seq(A)
    BY <2>3
  <2>. HIDE DEF c
  <2>9. a \o b \in Seq(A) /\ ToSet(a \o b) = ToSet(a) \cup ToSet(b)
    BY <2>4, JoinedOnce
  <2>10. ToSet((a \o b) \o c) = ToSet(a \o b) \cup ToSet(c)
    <3>. DEFINE e == a \o b
    <3>1. e \in Seq(A)
      BY <2>9
    <3>. HIDE DEF e
    <3>2. ToSet(e \o c) = ToSet(e) \cup ToSet(c)
      BY <2>8, <3>1, JoinedOnce
    <3>. QED
      BY <3>2 DEF e
  <2>11. y \in ToSet(seqs[p])
    BY <2>6, <2>7, <2>9, <2>10
  <2>. QED
    BY <2>11 DEF y
<1>3. x \in ToSet(seqs[i]) \cap ToSet(seqs[k])
  <2>1. x \in ToSet(seqs[i])
    BY <1>1, <1>2
  <2>2. <<chips[k].end - 1, Shown>> \in ToSet(seqs[k])
    BY <1>1, <1>2
  <2>. QED
    BY <2>1, <2>2
<1>4. ~IsInjective(FlattenSeq(seqs))
  <2>. HIDE DEF A, x
  <2>1. i \in 1..n /\ k \in 1..n /\ (i < k \/ k < i)
    BY <1>1
  <2>2. CASE i < k
    BY <1>1, <1>3, <2>1, <2>2, FlattenedTwice
  <2>3. CASE k < i
    <3>1. x \in ToSet(seqs[k]) \cap ToSet(seqs[i])
      BY <1>3
    <3>. QED
      BY <1>1, <2>1, <2>3, <3>1, FlattenedTwice
  <2>. QED
    BY <2>1, <2>2, <2>3
<1>5. FlattenSeq(seqs) \in Seq(A) /\ Slice(CursorOf(chips, n), size) \in Seq(A)
  <2>1. n \in 0..n /\ size \in Int
    BY <1>1
  <2>2. CursorOf(chips, n) \in Int
    BY <1>1, <2>1
  <2>3. FlattenSeq(seqs) \in Seq(A)
    BY <1>1, Flattened
  <2>. QED
    BY <2>1, <2>2, <2>3, SliceRises
<1>. HIDE DEF A
<1>6. IsInjective(FlattenSeq(seqs) \o Slice(CursorOf(chips, n), size)) => IsInjective(FlattenSeq(seqs))
  BY <1>5, JoinedOnce
<1>. QED
  BY <1>1, <1>4, <1>6

-------------------------------------------------------------------------------
(* The spans that markers make                                                 *)

\* A set of positions has a last.
LEMMA LastOf ==
  ASSUME NEW n \in Nat, NEW R \in SUBSET (1..n), R # {}
  PROVE  Max(R) \in R /\ \A y \in R : y <= Max(R)
<1>. DEFINE T == {m \in 0..n : (\E y \in R : y <= m) =>
                     \E x \in R : x <= m /\ \A y \in R : y <= m => y <= x}
<1>1. 0 \in T
  OBVIOUS
<1>2. ASSUME NEW m \in 0..(n - 1), m \in T PROVE m + 1 \in T
  <2>0. m + 1 \in 0..n /\ m \in Int
    OBVIOUS
  <2>1. CASE m + 1 \in R
    <3>1. \E x \in R : x <= m + 1 /\ \A y \in R : y <= m + 1 => y <= x
      BY <2>0, <2>1
    <3>. QED
      BY <2>0, <3>1
  <2>2. CASE m + 1 \notin R
    <3>1. \A y \in R : y <= m + 1 => y <= m
      BY <2>0, <2>2
    <3>2. \A x \in R : x <= m => x <= m + 1
      BY <2>0
    <3>. QED
      BY <1>2, <2>0, <3>1, <3>2
  <2>. QED
    BY <2>1, <2>2
<1>3. \A m \in 0..n : m \in T
  <2>. HIDE DEF T
  <2>. QED
    BY <1>1, <1>2, UpTo
<1>4. n \in T /\ \A y \in R : y \in Int /\ y <= n
  BY <1>3
<1>5. \E x \in R : \A y \in R : x >= y
  BY <1>4
<1>6. Max(R) \in R /\ \A y \in R : Max(R) >= y
  BY <1>5 DEF Max
<1>. QED
  BY <1>4, <1>6

\* A set of positions has a first.
LEMMA FirstOf ==
  ASSUME NEW n \in Nat, NEW R \in SUBSET (1..n), R # {}
  PROVE  \E x \in R : \A y \in R : x <= y
<1>. DEFINE Q == {(n + 1) - x : x \in R}
<1>1. Q \in SUBSET (1..n) /\ Q # {}
  <2>1. \A x \in 1..n : (n + 1) - x \in 1..n
    OBVIOUS
  <2>2. \A x \in R : (n + 1) - x \in 1..n
    BY <2>1
  <2>. QED
    BY <2>2
<1>2. PICK q \in Q : \A p \in Q : p <= q
  BY <1>1, LastOf
<1>3. PICK x \in R : q = (n + 1) - x
  BY <1>2
<1>4. \A y \in R : (n + 1) - y <= (n + 1) - x
  BY <1>2, <1>3
<1>. QED
  BY <1>4

-------------------------------------------------------------------------------
(* The spans of a text, numeral by numeral                                     *)

\* What a marker sees of the numeral at k, where the numeral is in the text without markers.
CitedOver(c, k, r) == Span(c[2][1] - 3 * (k - r), EndAt(r), c[1])
Seen(k) == {<<HeadAt(k), EndAt(k)>>, <<TailAt(k), EndAt(k)>>}

\* The calls that a numeral is marked with are calls of the turn, and each has seen the
\* numeral or its tail.
LEMMA CitedByCalls ==
  ASSUME NEW S, NEW text \in Seq(S), NEW k \in DOMAIN text
  PROVE  /\ IsFiniteSet(CitedBy(text, k))
         /\ \A c \in CitedBy(text, k) :
              /\ Numeral(text[k]) /\ c = <<c[1], c[2]>> /\ c[1] \in Ids /\ c[2] \in Seen(k)
              /\ text[k].kind = "glued" => c[2][1] = TailAt(k)
<1>. DEFINE M == {m \in KnownMarkers(text) : k \in InReach(text, m) /\ k = Max(InReach(text, m))}
            Of(m) == <<text[m].id, Extent(text[k], k, EndAt(m - 1) - Window)>>
<1>1. CitedBy(text, k) = {Of(m) : m \in M}
  BY DEF CitedBy
<1>2. M \in SUBSET DOMAIN text /\ IsFiniteSet(DOMAIN text)
  <2>1. DOMAIN text = 1..Len(text) /\ Len(text) \in Nat
    OBVIOUS
  <2>2. IsFiniteSet(DOMAIN text)
    BY <2>1, FS_Interval
  <2>. QED
    BY <2>2 DEF KnownMarkers, Markers
<1>3. IsFiniteSet(M)
  BY <1>2, FS_Subset
<1>4. IsFiniteSet({Of(m) : m \in M})
  <2>. HIDE DEF M, Of
  <2>. QED
    <3>. DEFINE f == [m \in M |-> Of(m)]
    <3>1. f \in Surjection(M, {Of(m) : m \in M})
      BY DEF Surjection
    <3>. QED
      BY <1>3, <3>1, FS_Surjection
<1>5. ASSUME NEW c \in CitedBy(text, k)
      PROVE  /\ Numeral(text[k]) /\ c = <<c[1], c[2]>> /\ c[1] \in Ids /\ c[2] \in Seen(k)
             /\ text[k].kind = "glued" => c[2][1] = TailAt(k)
  <2>1. PICK m \in M : c = Of(m)
    BY <1>1
  <2>2. m \in KnownMarkers(text) /\ k \in InReach(text, m)
    BY <2>1
  <2>3. c[1] = text[m].id /\ c[2] = Extent(text[k], k, EndAt(m - 1) - Window) /\ c = <<c[1], c[2]>>
    BY <2>1
  <2>4. text[m].id \in Ids /\ Numeral(text[k])
    BY <2>2 DEF KnownMarkers, InReach
  <2>5. c[2] \in Seen(k) /\ (text[k].kind = "glued" => c[2] = <<TailAt(k), EndAt(k)>>)
    BY <2>3 DEF Extent, Seen
  <2>. QED
    BY <2>3, <2>4, <2>5
<1>. QED
  BY <1>1, <1>4, <1>5

\* What is removed before the fragment that a marker cites are the markers before it.
LEMMA ShiftCounted ==
  ASSUME NEW S, NEW text \in Seq(S), NEW kept, NEW to, Keeps(text, kept, to),
         NEW m \in DOMAIN text, NEW k \in InReach(text, m), NEW f \in Seen(k)
  PROVE  Shift(text, m, f[1]) = 3 * (k - to[k])
<1>1. k \in DOMAIN text /\ k \in 0..Len(text) /\ k \in Int /\ m \in Int /\ k < m /\ text[k].kind # "marker"
  BY DEF InReach, Numeral
<1>2. Markers(text) \subseteq Int /\ k \notin Markers(text)
  BY <1>1 DEF Markers
<1>3. f[1] = HeadAt(k) \/ f[1] = TailAt(k)
  BY DEF Seen
<1>4. \A p \in Int : p # k => ((p < m /\ EndAt(p) <= f[1]) <=> p <= k)
  BY <1>1, <1>3 DEF HeadAt, TailAt, EndAt
<1>5. {p \in Markers(text) : p < m /\ EndAt(p) <= f[1]} = {p \in Markers(text) : p <= k}
  BY <1>2, <1>4
<1>6. Cardinality({p \in Markers(text) : p <= k}) = k - to[k]
  BY <1>1, MarkersCounted
<1>. QED
  BY <1>5, <1>6 DEF Shift

\* A marker cites the last numeral in its reach.
LEMMA MarkerCites ==
  ASSUME NEW S, NEW text \in Seq(S), NEW kept, NEW to, Keeps(text, kept, to), NEW m \in DOMAIN text
  PROVE  /\ \A k \in InReach(text, m) :
              m \in KnownMarkers(text) /\ k = Max(InReach(text, m)) =>
                LET c == <<text[m].id, Extent(text[k], k, EndAt(m - 1) - Window)>>
                IN  c \in CitedBy(text, k) /\ SpansAt(text, m) = {CitedOver(c, k, to[k])}
         /\ SpansAt(text, m) # {} =>
              m \in KnownMarkers(text) /\ \E k \in InReach(text, m) : k = Max(InReach(text, m))
<1>. DEFINE R == InReach(text, m)
            from == EndAt(m - 1) - Window
            n == Len(text)
<1>1. n \in Nat /\ DOMAIN text = 1..n /\ m \in 1..n
  OBVIOUS
<1>2. R \in SUBSET (1..n)
  BY <1>1 DEF InReach
<1>3. R # {} => Max(R) \in R /\ \A y \in R : y <= Max(R)
  BY <1>1, <1>2, LastOf
<1>4. ASSUME NEW k \in R, m \in KnownMarkers(text), k = Max(R)
      PROVE  LET c == <<text[m].id, Extent(text[k], k, from)>>
             IN  c \in CitedBy(text, k) /\ SpansAt(text, m) = {CitedOver(c, k, to[k])}
  <2>. DEFINE f == Extent(text[k], k, from)
              c == <<text[m].id, f>>
  <2>1. c \in CitedBy(text, k)
    BY <1>4 DEF CitedBy
  <2>2. \A n_1 \in R : n_1 <= k
    BY <1>3, <1>4
  <2>3. {x \in R : \A y \in R : y <= x} = {k}
    <3>1. ASSUME NEW x \in R, \A y \in R : y <= x PROVE x = k
      <4>1. k <= x /\ x <= k /\ k \in Int /\ x \in Int
        BY <1>2, <2>2, <3>1
      <4>. QED
        BY <4>1
    <3>. QED
      BY <2>2, <3>1
  <2>4. CitedFragment(text, m) = {f}
    BY <2>3 DEF CitedFragment
  <2>5. f \in Seen(k)
    BY DEF Extent, Seen
  <2>. HIDE DEF f
  <2>6. Shift(text, m, f[1]) = 3 * (k - to[k])
    BY <2>5, ShiftCounted
  <2>7. SpansAt(text, m) = {Span(f[1] - Shift(text, m, f[1]), f[2] - Shift(text, m, f[1]), text[m].id)}
    BY <1>4, <2>4 DEF SpansAt
  <2>8. f[2] - 3 * (k - to[k]) = EndAt(to[k])
    <3>1. k \in 0..n /\ k \in Int
      BY <1>1, <1>2
    <3>2. to[k] \in Nat
      BY <3>1 DEF Keeps
    <3>3. f[2] = EndAt(k)
      BY <2>5 DEF Seen
    <3>. QED
      BY <3>1, <3>2, <3>3 DEF EndAt
  <2>9. c[1] = text[m].id /\ c[2] = f
    OBVIOUS
  <2>10. SpansAt(text, m) = {CitedOver(c, k, to[k])}
    BY <2>6, <2>7, <2>8, <2>9 DEF CitedOver
  <2>. QED
    BY <2>1, <2>10 DEF f
<1>5. ASSUME SpansAt(text, m) # {} PROVE m \in KnownMarkers(text) /\ \E k \in R : k = Max(R)
  <2>1. m \in KnownMarkers(text) /\ CitedFragment(text, m) # {}
    BY <1>5 DEF SpansAt
  <2>2. R # {}
    BY <2>1 DEF CitedFragment
  <2>. QED
    BY <1>3, <2>1, <2>2
<1>. QED
  BY <1>4, <1>5

\* What the parser makes of a text.
Told(text)  == Parse(text).text
Cites(text) == Parse(text).spans

\* So the spans of a text are those of its numerals.
LEMMA CitedSpans ==
  ASSUME NEW S, NEW text \in Seq(S), NEW kept, NEW to, Keeps(text, kept, to)
  PROVE  /\ \A k \in DOMAIN text : \A c \in CitedBy(text, k) :
              CitedOver(c, k, to[k]) \in ToSet(Cites(text))
         /\ \A s \in ToSet(Cites(text)) : \E k \in DOMAIN text :
              \E c \in CitedBy(text, k) : s = CitedOver(c, k, to[k])
<1>1. ToSet(Cites(text)) = UNION {SpansAt(text, m) : m \in DOMAIN text}
  BY ParsedSpans DEF Cites
<1>2. ASSUME NEW k \in DOMAIN text, NEW c \in CitedBy(text, k)
      PROVE  CitedOver(c, k, to[k]) \in ToSet(Cites(text))
  <2>1. PICK m \in KnownMarkers(text) :
          /\ k \in InReach(text, m) /\ k = Max(InReach(text, m))
          /\ c = <<text[m].id, Extent(text[k], k, EndAt(m - 1) - Window)>>
    BY DEF CitedBy
  <2>2. m \in DOMAIN text
    BY <2>1 DEF KnownMarkers, Markers
  <2>3. SpansAt(text, m) = {CitedOver(c, k, to[k])}
    BY <2>1, <2>2, MarkerCites
  <2>. QED
    BY <1>1, <2>2, <2>3
<1>3. ASSUME NEW s \in ToSet(Cites(text))
      PROVE  \E k \in DOMAIN text : \E c \in CitedBy(text, k) : s = CitedOver(c, k, to[k])
  <2>1. PICK m \in DOMAIN text : s \in SpansAt(text, m)
    BY <1>1
  <2>2. m \in KnownMarkers(text) /\ \E k \in InReach(text, m) : k = Max(InReach(text, m))
    BY <2>1, MarkerCites
  <2>3. PICK k \in InReach(text, m) : k = Max(InReach(text, m))
    BY <2>2
  <2>. DEFINE c == <<text[m].id, Extent(text[k], k, EndAt(m - 1) - Window)>>
  <2>4. c \in CitedBy(text, k) /\ SpansAt(text, m) = {CitedOver(c, k, to[k])}
    BY <2>2, <2>3, MarkerCites
  <2>5. k \in DOMAIN text
    BY DEF InReach
  <2>. QED
    BY <2>1, <2>4, <2>5
<1>. QED
  BY <1>2, <1>3

\* Each span is listed once.
LEMMA ParsedOnce ==
  ASSUME NEW S, NEW text \in Seq(S)
  PROVE  IsInjective(Cites(text))
<1>. DEFINE n == Len(text)
            All == UNION {SpansAt(text, m) : m \in DOMAIN text}
            seqs == [m \in DOMAIN text |-> SetToSeq(NewSpans(text, m))]
<1>1. n \in Nat /\ DOMAIN text = 1..n
  OBVIOUS
<1>2. \A m \in 1..n : /\ SetToSeq(NewSpans(text, m)) \in Seq(All)
                      /\ ToSet(SetToSeq(NewSpans(text, m))) = NewSpans(text, m)
                      /\ IsInjective(SetToSeq(NewSpans(text, m)))
  <2>. SUFFICES ASSUME NEW m \in 1..n
                PROVE  /\ SetToSeq(NewSpans(text, m)) \in Seq(All)
                       /\ ToSet(SetToSeq(NewSpans(text, m))) = NewSpans(text, m)
                       /\ IsInjective(SetToSeq(NewSpans(text, m)))
    OBVIOUS
  <2>1. IsFiniteSet(SpansAt(text, m))
    BY <1>1, SpansAtMarker
  <2>2. NewSpans(text, m) \in SUBSET SpansAt(text, m) /\ NewSpans(text, m) \subseteq All
    BY <1>1 DEF NewSpans
  <2>3. IsFiniteSet(NewSpans(text, m))
    BY <2>1, <2>2, FS_Subset
  <2>4. /\ SetToSeq(NewSpans(text, m)) \in Seq(NewSpans(text, m))
        /\ ToSet(SetToSeq(NewSpans(text, m))) = NewSpans(text, m)
        /\ IsInjective(SetToSeq(NewSpans(text, m)))
    BY <2>3, Listed
  <2>. HIDE DEF All
  <2>5. \A s \in Seq(NewSpans(text, m)) : s \in Seq(All)
    BY <2>2
  <2>. QED
    BY <2>4, <2>5
<1>3. seqs \in Seq(Seq(All)) /\ DOMAIN seqs = 1..n
      /\ \A m \in 1..n : seqs[m] = SetToSeq(NewSpans(text, m))
  <2>. HIDE DEF All
  <2>. QED
    BY <1>1, <1>2
<1>4. Cites(text) = FlattenSeq(seqs)
  BY DEF Parse, Cites
<1>. HIDE DEF seqs, n, All
<1>5. \A i, k \in 1..n : i < k => NewSpans(text, i) \cap NewSpans(text, k) = {}
  <2>. SUFFICES ASSUME NEW i \in 1..n, NEW k \in 1..n, i < k
                PROVE  NewSpans(text, i) \cap NewSpans(text, k) = {}
    OBVIOUS
  <2>1. i \in 1..(k - 1)
    BY <1>1
  <2>. QED
    BY <2>1 DEF NewSpans
<1>6. \A i, k \in DOMAIN seqs : i # k => ToSet(seqs[i]) \cap ToSet(seqs[k]) = {}
  <2>1. \A i, k \in 1..n : i # k => i < k \/ k < i
    BY <1>1
  <2>2. \A i, k \in 1..n : i # k => NewSpans(text, i) \cap NewSpans(text, k) = {}
    BY <1>5, <2>1
  <2>. QED
    BY <1>2, <1>3, <2>2
<1>7. \A i \in DOMAIN seqs : IsInjective(seqs[i])
  BY <1>2, <1>3
<1>. QED
  BY <1>3, <1>4, <1>6, <1>7, FlattenedOnce

-------------------------------------------------------------------------------
(* The chips of a text                                                         *)

\* What precedes a token in a text precedes it in the text without markers.
LEMMA KeptInOrder ==
  ASSUME NEW S, NEW text \in Seq(S), NEW kept, NEW to, Keeps(text, kept, to)
  PROVE  /\ \A i, k \in 0..Len(text) : i <= k => to[i] <= to[k]
         /\ \A i, k \in DOMAIN text : i < k /\ text[k].kind # "marker" => to[i] < to[k]
         /\ \A i, k \in DOMAIN text :
              text[i].kind # "marker" /\ text[k].kind # "marker" /\ to[i] = to[k] => i = k
<1>. DEFINE n == Len(text)
<1>1. n \in Nat /\ DOMAIN text = 1..n
  OBVIOUS
<1>. HIDE DEF n
<1>2. /\ to \in [0..n -> Nat]
      /\ \A k \in 1..n : to[k] = to[k - 1] \/ to[k] = to[k - 1] + 1
      /\ \A k \in 1..n : text[k].kind # "marker" => to[k] = to[k - 1] + 1
  BY DEF Keeps, n
<1>3. ASSUME NEW i \in 0..n, NEW k \in 0..n, i <= k PROVE to[i] <= to[k]
  <2>. DEFINE T == {p \in 0..n : i <= p => to[i] <= to[p]}
  <2>1. 0 \in T
    BY <1>1, <1>2
  <2>2. ASSUME NEW p \in 0..(n - 1), p \in T PROVE p + 1 \in T
    <3>1. p \in 0..n /\ p + 1 \in 1..n /\ p + 1 \in 0..n /\ (p + 1) - 1 = p
      BY <1>1
    <3>. DEFINE b == to[p]
                e == to[p + 1]
                d == to[i]
    <3>2. (e = b \/ e = b + 1) /\ b \in Nat /\ d \in Nat /\ (i <= p => d <= b) /\ (i = p + 1 => d = e)
      BY <1>2, <2>2, <3>1
    <3>. HIDE DEF b, d, e
    <3>3. i <= p + 1 => d <= e
      BY <3>1, <3>2
    <3>. QED
      BY <3>1, <3>3 DEF d, e
  <2>3. \A p \in 0..n : p \in T
    <3>. HIDE DEF T
    <3>. QED
      BY <1>1, <2>1, <2>2, UpTo
  <2>. QED
    BY <1>3, <2>3
<1>4. ASSUME NEW i \in 1..n, NEW k \in 1..n, i < k, text[k].kind # "marker" PROVE to[i] < to[k]
  <2>1. i \in 0..n /\ k - 1 \in 0..n /\ i <= k - 1
    BY <1>1, <1>4
  <2>2. to[i] <= to[k - 1] /\ to[i] \in Nat /\ to[k - 1] \in Nat
    BY <1>2, <1>3, <2>1
  <2>3. to[k] = to[k - 1] + 1
    BY <1>2, <1>4
  <2>. QED
    BY <2>2, <2>3
<1>5. ASSUME NEW i \in 1..n, NEW k \in 1..n, text[i].kind # "marker", text[k].kind # "marker", to[i] = to[k]
      PROVE  i = k
  <2>1. i = k \/ i < k \/ k < i
    BY <1>1
  <2>2. to[i] \in Nat /\ to[k] \in Nat
    <3>1. i \in 0..n /\ k \in 0..n
      BY <1>1
    <3>. QED
      BY <1>2, <3>1
  <2>. QED
    BY <1>4, <1>5, <2>1, <2>2
<1>. QED
  BY <1>1, <1>3, <1>4, <1>5 DEF n

\* What a marker sees of a numeral is over that numeral in the text without markers.
LEMMA CitedOverToken ==
  ASSUME NEW k \in Int, NEW r \in Int, NEW c, c[2] \in Seen(k)
  PROVE  LET s == CitedOver(c, k, r)
         IN  /\ s.end = EndAt(r) /\ s.id = c[1]
             /\ c[2][1] = HeadAt(k) => s.start = HeadAt(r)
             /\ c[2][1] = TailAt(k) => s.start = TailAt(r)
             /\ s.start = HeadAt(r) \/ s.start = TailAt(r)
BY DEF CitedOver, Seen, Span, HeadAt, TailAt, EndAt

\* The spans that are stored: those of the text and those of what is grounded in it, each
\* once unless both see the same tail.
LEMMA AnswerSpans ==
  ASSUME NEW S, NEW text \in Seq(S)
  PROVE  LET spans   == Answer(text).spans
             sources == SourcesOf(Told(text), Cites(text))
         IN  /\ ToSet(spans) = ToSet(Cites(text)) \cup sources
             /\ ToSet(Cites(text)) \cap sources = {} => IsInjective(spans)
<1>. DEFINE spans == Answer(text).spans
            grounded == {r \in DOMAIN Told(text) : Grounds(Told(text), Cites(text), r)}
            sources == SourcesOf(Told(text), Cites(text))
            marked == FlattenSeq(Blocks(Told(text), Cites(text)))
            more == Parse(marked).spans
<1>1. Told(text) \in Seq(S) /\ NoMarkers(Told(text))
  BY ParsedText, NoMarkerLeft DEF NoMarkers, Told
<1>2. AreSpans(Cites(text)) /\ IsInjective(Cites(text))
  BY ParsedAreSpans, ParsedOnce DEF Cites
<1>3. marked \in Seq(Marked(S)) /\ \E at : Marks(Told(text), Cites(text), marked, at)
  BY <1>1, MarkedText
<1>4. (marked = Told(text)) <=> grounded = {}
  <2>. HIDE DEF marked
  <2>0. PICK at : Marks(Told(text), Cites(text), marked, at)
    BY <1>3
  <2>1. (marked = Told(text)) <=> \A r \in DOMAIN Told(text) : ~Grounds(Told(text), Cites(text), r)
    BY <1>1, <1>3, <2>0, GroundedSpans
  <2>. QED
    BY <2>1
<1>5. ToSet(more) = sources
  <2>. HIDE DEF marked
  <2>1. PICK at : Marks(Told(text), Cites(text), marked, at)
    BY <1>3
  <2>. QED
    BY <1>1, <1>3, <2>1, GroundedSpans
<1>6. AreSpans(more) /\ IsInjective(more)
  <2>. HIDE DEF marked
  <2>. QED
    BY <1>3, ParsedAreSpans, ParsedOnce DEF Cites
<1>7. spans = IF marked = Told(text) THEN Cites(text) ELSE Sorted(Cites(text) \o more)
  <2>1. Parse(text) = [text |-> Told(text), spans |-> Cites(text)]
    BY DEF Parse, Told, Cites
  <2>2. Answer(text) = AutoGround([text |-> Told(text), spans |-> Cites(text)])
    BY <2>1, Zenon DEF Answer
  <2>3. AutoGround([text |-> Told(text), spans |-> Cites(text)])
          = IF marked = Told(text) THEN [text |-> Told(text), spans |-> Cites(text)]
            ELSE [text |-> Parse(marked).text, spans |-> Sorted(Cites(text) \o more)]
    BY DEF AutoGround, Blocks
  <2>. HIDE DEF marked, more
  <2>. QED
    BY <2>2, <2>3
<1>. HIDE DEF marked, more
<1>8. CASE marked = Told(text)
  <2>1. sources = {}
    BY <1>4, <1>8 DEF SourcesOf
  <2>. QED
    BY <1>2, <1>7, <1>8, <2>1
<1>9. CASE marked # Told(text)
  <2>. HIDE DEF grounded, sources
  <2>1. spans = Sorted(Cites(text) \o more)
    BY <1>7, <1>9
  <2>. HIDE DEF spans
  <2>2. ToSet(spans) = ToSet(Cites(text)) \cup sources
    BY <1>2, <1>5, <1>6, <2>1, SpansJoined
  <2>3. ASSUME ToSet(Cites(text)) \cap sources = {} PROVE IsInjective(spans)
    <3>. DEFINE P == ToSet(Cites(text)) \cup ToSet(more)
    <3>1. Cites(text) \in Seq(P) /\ more \in Seq(P) /\ \A x \in P : x.start \in Int /\ x.end \in Int
      BY <1>2, <1>6 DEF AreSpans, IsSpan, ToSet
    <3>2. ToSet(Cites(text)) \cap ToSet(more) = {}
      BY <1>5, <2>3
    <3>. HIDE DEF P
    <3>3. Cites(text) \o more \in Seq(P) /\ IsInjective(Cites(text) \o more)
      BY <1>2, <1>6, <3>1, <3>2, JoinedOnce
    <3>. QED
      BY <2>1, <3>1, <3>3, SortedSpans
  <2>. QED
    BY <2>2, <2>3 DEF spans, sources
<1>. QED
  BY <1>8, <1>9

-------------------------------------------------------------------------------
(* The chips of a text, token by token                                         *)

\* The flag of a number, and all the chips of a text.
FlagOver(r) == Span(HeadAt(r), EndAt(r), Flag)
AllChips(kept, spans) == ToSet(spans) \cup {FlagOver(r) : r \in Uncited(kept, spans)}
Behind(chips, r) == {s \in chips : s.end = EndAt(r)}

\* The stored spans behind a token.
LEMMA SpansBehind ==
  ASSUME NEW S, NEW text \in Seq(S),
         NEW to, Keeps(text, Told(text), to), NEW k \in DOMAIN text, text[k].kind # "marker"
  PROVE  /\ Behind(ToSet(Cites(text)), to[k]) = {CitedOver(c, k, to[k]) : c \in CitedBy(text, k)}
         /\ Behind(ToSet(Answer(text).spans), to[k])
              = Behind(ToSet(Cites(text)), to[k])
                  \cup IF Grounds(Told(text), Cites(text), to[k]) THEN SourceSpans(Told(text), to[k]) ELSE {}
<1>. DEFINE r == to[k]
            grounded == {q \in DOMAIN Told(text) : Grounds(Told(text), Cites(text), q)}
<1>1. Told(text) \in Seq(S) /\ DOMAIN Told(text) = 1..Len(Told(text))
  <2>1. Told(text) \in Seq(S)
    BY ParsedText DEF Told
  <2>. QED
    BY <2>1
<1>2. \A i \in DOMAIN text : to[i] \in Nat /\ i \in Int
  BY DEF Keeps
<1>3. r \in DOMAIN Told(text) /\ r \in Int
  BY <1>1 DEF Keeps
<1>4. \A i \in DOMAIN text : \A c \in CitedBy(text, i) : c[2] \in Seen(i) /\ text[i].kind # "marker"
  <2>1. \A i \in DOMAIN text : \A c \in CitedBy(text, i) : c[2] \in Seen(i) /\ Numeral(text[i])
    BY CitedByCalls
  <2>. QED
    BY <2>1 DEF Numeral
<1>5. \A i \in DOMAIN text : \A c \in CitedBy(text, i) : CitedOver(c, i, to[i]).end = EndAt(to[i])
  BY <1>2, <1>4, CitedOverToken
<1>6. ASSUME NEW s \in Behind(ToSet(Cites(text)), r)
      PROVE  \E c \in CitedBy(text, k) : s = CitedOver(c, k, r)
  <2>1. s \in ToSet(Cites(text)) /\ s.end = EndAt(r)
    BY DEF Behind
  <2>2. PICK i \in DOMAIN text : \E c \in CitedBy(text, i) : s = CitedOver(c, i, to[i])
    <3>1. \A x \in ToSet(Cites(text)) : \E i \in DOMAIN text :
            \E c \in CitedBy(text, i) : x = CitedOver(c, i, to[i])
      BY CitedSpans
    <3>. QED
      BY <2>1, <3>1
  <2>3. EndAt(to[i]) = EndAt(r) /\ text[i].kind # "marker"
    BY <1>4, <1>5, <2>1, <2>2
  <2>4. to[i] = to[k]
    BY <1>2, <1>3, <2>3 DEF EndAt
  <2>5. i = k
    BY <2>3, <2>4, KeptInOrder
  <2>. QED
    BY <2>2, <2>5
<1>7. ASSUME NEW c \in CitedBy(text, k) PROVE CitedOver(c, k, r) \in Behind(ToSet(Cites(text)), r)
  <2>1. CitedOver(c, k, r) \in ToSet(Cites(text))
    BY CitedSpans
  <2>. QED
    BY <1>5, <2>1 DEF Behind
<1>8. \A q \in DOMAIN Told(text) : \A s \in SourceSpans(Told(text), q) : s.end = EndAt(q)
  BY DEF SourceSpans, Span
<1>9. ToSet(Answer(text).spans) = ToSet(Cites(text)) \cup SourcesOf(Told(text), Cites(text))
  BY AnswerSpans
<1>10. Behind(SourcesOf(Told(text), Cites(text)), r)
         = IF Grounds(Told(text), Cites(text), r) THEN SourceSpans(Told(text), r) ELSE {}
  <2>1. \A q \in DOMAIN Told(text) : EndAt(q) = EndAt(r) => q = r
    BY <1>1, <1>3 DEF EndAt
  <2>. HIDE DEF r
  <2>2. \A q \in grounded : \A s \in SourceSpans(Told(text), q) : s.end = EndAt(r) <=> q = r
    BY <1>8, <2>1
  <2>3. r \in grounded <=> Grounds(Told(text), Cites(text), r)
    BY <1>3
  <2>. HIDE DEF grounded
  <2>4. \A s : s \in Behind(SourcesOf(Told(text), Cites(text)), r)
               <=> r \in grounded /\ s \in SourceSpans(Told(text), r)
    BY <2>2 DEF Behind, SourcesOf, grounded
  <2>. QED
    BY <2>3, <2>4
<1>11. Behind(ToSet(Cites(text)), r) = {CitedOver(c, k, r) : c \in CitedBy(text, k)}
  BY <1>6, <1>7
<1>12. Behind(ToSet(Answer(text).spans), r)
         = Behind(ToSet(Cites(text)), r) \cup Behind(SourcesOf(Told(text), Cites(text)), r)
  <2>. HIDE DEF grounded, r
  <2>. QED
    BY <1>9 DEF Behind
<1>. QED
  BY <1>10, <1>11, <1>12

\* The spans and the chips of a text are over its tokens.
LEMMA ChipsOver ==
  ASSUME NEW S, NEW text \in Seq(S),
         NEW to, Keeps(text, Told(text), to)
  PROVE  \A s \in AllChips(Told(text), Answer(text).spans) :
           /\ s.id \in Ids \cup {Flag}
           /\ \E k \in DOMAIN text :
                /\ text[k].kind # "marker" /\ s \in Behind(AllChips(Told(text), Answer(text).spans), to[k])
                /\ s.start = HeadAt(to[k]) \/ s.start = TailAt(to[k])
<1>. DEFINE spans == Answer(text).spans
            X == AllChips(Told(text), spans)
<1>0. Told(text) \in Seq(S)
  BY ParsedText DEF Told
<1>1. AreSpans(spans)
  BY StoredAnswer
<1>2. DOMAIN Told(text) = 1..Len(Told(text))
  BY <1>0
<1>3. \A r \in DOMAIN Told(text) : \E k \in DOMAIN text : text[k].kind # "marker" /\ r = to[k]
  BY <1>2 DEF Keeps
<1>4. ASSUME NEW s \in ToSet(spans)
      PROVE  /\ s.id \in Ids
             /\ \E r \in DOMAIN Told(text) : s.end = EndAt(r) /\ (s.start = HeadAt(r) \/ s.start = TailAt(r))
  <2>1. s.id \in Ids
    BY <1>1 DEF AreSpans, IsSpan, ToSet
  <2>2. s \in ToSet(Cites(text)) \/ \E r \in DOMAIN Told(text) : s \in SourceSpans(Told(text), r)
    BY AnswerSpans DEF SourcesOf
  <2>3. CASE s \in ToSet(Cites(text))
    <3>1. PICK k \in DOMAIN text : \E c \in CitedBy(text, k) : s = CitedOver(c, k, to[k])
      BY <2>3, CitedSpans
    <3>2. PICK c \in CitedBy(text, k) : s = CitedOver(c, k, to[k])
      BY <3>1
    <3>3. c[2] \in Seen(k) /\ Numeral(text[k])
      BY CitedByCalls
    <3>4. k \in Int /\ text[k].kind # "marker"
      BY <3>3 DEF Numeral
    <3>5. to[k] \in DOMAIN Told(text) /\ to[k] \in Int
      BY <1>2, <3>4 DEF Keeps
    <3>. QED
      BY <2>1, <3>2, <3>3, <3>4, <3>5, CitedOverToken
  <2>4. CASE \E r \in DOMAIN Told(text) : s \in SourceSpans(Told(text), r)
    BY <2>1, <2>4 DEF SourceSpans, SeenFrom, Span
  <2>. QED
    BY <2>2, <2>3, <2>4
<1>5. ASSUME NEW s \in X
      PROVE  /\ s.id \in Ids \cup {Flag}
             /\ \E r \in DOMAIN Told(text) : s.end = EndAt(r) /\ (s.start = HeadAt(r) \/ s.start = TailAt(r))
  <2>1. CASE s \in ToSet(spans)
    BY <1>4, <2>1
  <2>2. CASE \E r \in Uncited(Told(text), spans) : s = FlagOver(r)
    BY <2>2 DEF FlagOver, Span, Uncited
  <2>. QED
    BY <2>1, <2>2 DEF AllChips
<1>. HIDE DEF X
<1>. SUFFICES ASSUME NEW s \in X
              PROVE  /\ s.id \in Ids \cup {Flag}
                     /\ \E k \in DOMAIN text :
                          /\ text[k].kind # "marker" /\ s \in Behind(X, to[k])
                          /\ s.start = HeadAt(to[k]) \/ s.start = TailAt(to[k])
  BY DEF X
<1>6. PICK r \in DOMAIN Told(text) : s.end = EndAt(r) /\ (s.start = HeadAt(r) \/ s.start = TailAt(r))
  BY <1>5
<1>7. PICK k \in DOMAIN text : text[k].kind # "marker" /\ r = to[k]
  BY <1>3
<1>. QED
  BY <1>5, <1>6, <1>7 DEF Behind

\* Every financial number has a chip over all of it.
LEMMA FinancialChip ==
  ASSUME NEW kept, NEW spans, AreSpans(spans), NEW r \in DOMAIN kept, r \in Int, Financial(kept[r])
  PROVE  \E s \in AllChips(kept, spans) : s.start = HeadAt(r) /\ s.end = EndAt(r)
<1>1. CASE r \in Uncited(kept, spans)
  <2>1. FlagOver(r) \in AllChips(kept, spans)
    BY <1>1 DEF AllChips
  <2>. QED
    BY <2>1 DEF FlagOver, Span
<1>2. CASE r \notin Uncited(kept, spans)
  <2>1. PICK s \in ToSet(spans) : Covers(s, r, 0)
    BY <1>2 DEF Uncited
  <2>2. OverToken(s)
    BY <2>1 DEF AreSpans, IsSpan, ToSet
  <2>3. s.start = HeadAt(r) /\ s.end = EndAt(r)
    BY <2>1, <2>2, CoversExactly
  <2>. QED
    BY <2>1, <2>3 DEF AllChips
<1>. QED
  BY <1>1, <1>2

\* A financial number is without source if no span over all of it ends behind it.
LEMMA UncitedBehind ==
  ASSUME NEW S, NEW told \in Seq(S), NEW spans, AreSpans(spans), NEW r \in DOMAIN told
  PROVE  /\ r \in Uncited(told, spans)
              <=> Financial(told[r]) /\ \A s \in Behind(ToSet(spans), r) : s.start # HeadAt(r)
         /\ Behind(AllChips(told, spans), r)
              = Behind(ToSet(spans), r) \cup IF r \in Uncited(told, spans) THEN {FlagOver(r)} ELSE {}
<1>0. r \in Int
  OBVIOUS
<1>1. \A s \in ToSet(spans) : OverToken(s)
  BY DEF AreSpans, IsSpan, ToSet
<1>2. \A s \in ToSet(spans) : Covers(s, r, 0) <=> s.start = HeadAt(r) /\ s.end = EndAt(r)
  <2>1. \A s \in ToSet(spans) : Covers(s, r, 0) => s.start = HeadAt(r) /\ s.end = EndAt(r)
    BY <1>0, <1>1, CoversExactly
  <2>2. \A s : s.start = HeadAt(r) /\ s.end = EndAt(r) => Covers(s, r, 0)
    BY <1>0 DEF Covers, HeadAt, EndAt
  <2>. QED
    BY <2>1, <2>2
<1>3. r \in Uncited(told, spans)
        <=> Financial(told[r]) /\ \A s \in Behind(ToSet(spans), r) : s.start # HeadAt(r)
  BY <1>2 DEF Uncited, Behind
<1>4. \A q \in Int : FlagOver(q).end = EndAt(r) <=> q = r
  BY <1>0 DEF FlagOver, Span, EndAt
<1>5. \A q \in Uncited(told, spans) : FlagOver(q).end = EndAt(r) => q = r
  <2>1. ASSUME NEW q \in Uncited(told, spans), FlagOver(q).end = EndAt(r) PROVE q = r
    <3>1. FlagOver(q).end = 3 * q /\ EndAt(r) = 3 * r /\ q \in Int /\ r \in Int
      BY DEF FlagOver, Span, EndAt, Uncited
    <3>2. 3 * q = 3 * r
      BY <2>1, <3>1
    <3>. QED
      BY <3>1, <3>2
  <2>. QED
    BY <2>1
<1>6. FlagOver(r).end = EndAt(r)
  BY <1>0, <1>4
<1>7. Behind({FlagOver(q) : q \in Uncited(told, spans)}, r)
        = IF r \in Uncited(told, spans) THEN {FlagOver(r)} ELSE {}
  BY <1>5, <1>6 DEF Behind
<1>8. Behind(AllChips(told, spans), r)
        = Behind(ToSet(spans), r) \cup Behind({FlagOver(q) : q \in Uncited(told, spans)}, r)
  BY DEF Behind, AllChips
<1>. QED
  BY <1>3, <1>7, <1>8

\* In a text that is not contended, behind every token is the one chip that belongs there.
LEMMA OneChip ==
  ASSUME NEW S, NEW text \in Seq(S), NEW to, Keeps(text, Told(text), to), ~Contended(text),
         NEW k \in DOMAIN text, text[k].kind # "marker"
  PROVE  LET behind == Behind(AllChips(Told(text), Answer(text).spans), to[k])
         IN  /\ {x.id : x \in behind} = ChipFor(text, k)
             /\ \A x, y \in behind : x = y
             /\ Grounds(Told(text), Cites(text), to[k])
                  => SourceSpans(Told(text), to[k]) \cap ToSet(Cites(text)) = {}
<1>. DEFINE told == Told(text)
            r == to[k]
            by == CitedBy(text, k)
            from == Candidates(text[k].form)
            cited == Behind(ToSet(Cites(text)), r)
            stored == Behind(ToSet(Answer(text).spans), r)
            behind == Behind(AllChips(told, Answer(text).spans), r)
            grounds == Grounds(told, Cites(text), r)
            flagged == r \in Uncited(told, Answer(text).spans)
            Over(c) == CitedOver(c, k, r)
<1>1. told \in Seq(S) /\ DOMAIN told = 1..Len(told)
  <2>1. told \in Seq(S)
    BY ParsedText DEF Told
  <2>. QED
    BY <2>1
<1>2. r \in DOMAIN told /\ r \in Int /\ k \in Int /\ told[r] = text[k]
  BY <1>1 DEF Keeps
<1>3. AreSpans(Cites(text)) /\ AreSpans(Answer(text).spans)
  BY ParsedAreSpans, StoredAnswer DEF Cites
<1>4. IsFiniteSet(by) /\ \A c \in by : Numeral(text[k]) /\ c[1] \in Ids /\ c[2] \in Seen(k)
  BY CitedByCalls
\* No two markers disagree, none sees only a part, and no glued number has a source.
<1>5. by = {} \/ \E c : by = {c}
  <2>1. ~(Cardinality(by) > 1)
    BY DEF Contended
  <2>2. Cardinality(by) \in Nat
    BY <1>4, FS_CardinalityType
  <2>3. Cardinality(by) = 0 \/ Cardinality(by) = 1
    BY <2>1, <2>2
  <2>. HIDE DEF by
  <2>. QED
    BY <1>4, <2>3, FS_EmptySet, FS_Singleton
<1>6. text[k].kind = "number" => \A c \in by : c[2][1] = HeadAt(k)
  <2>1. text[k].kind = "number" => \A c \in by : c[2][1] # TailAt(k)
    BY DEF Contended
  <2>2. \A c \in by : c[2][1] = HeadAt(k) \/ c[2][1] = TailAt(k)
    BY <1>4 DEF Seen
  <2>. QED
    BY <2>1, <2>2
<1>7. text[k].kind = "glued" => ChipFor(text, k) = {Flag}
  BY DEF Contended
\* What is behind the token.
<1>8. cited = {Over(c) : c \in by} /\ stored = cited \cup IF grounds THEN SourceSpans(told, r) ELSE {}
  <2>1. cited = {Over(c) : c \in by}
    BY SpansBehind
  <2>2. stored = cited \cup IF grounds THEN SourceSpans(told, r) ELSE {}
    BY SpansBehind
  <2>. QED
    BY <2>1, <2>2
<1>9. behind = stored \cup IF flagged THEN {FlagOver(r)} ELSE {}
  BY <1>1, <1>2, <1>3, UncitedBehind
<1>10. flagged <=> Financial(text[k]) /\ \A s \in stored : s.start # HeadAt(r)
  BY <1>1, <1>2, <1>3, UncitedBehind
<1>11. grounds <=> /\ Financial(text[k]) /\ \A s \in cited : s.start # HeadAt(r)
                   /\ Cardinality(from) = 1
  BY <1>1, <1>2, <1>3, UncitedBehind DEF Grounds
<1>12. \A c \in by : Over(c).id = c[1] /\ (c[2][1] = HeadAt(k) => Over(c).start = HeadAt(r))
  BY <1>2, <1>4, CitedOverToken
<1>13. FlagOver(r).id = Flag /\ Flag \notin Ids
  BY CitationsAssumption DEF FlagOver, Span
<1>14. CallsFor(text, k) = {c[1] : c \in by}
  BY DEF CallsFor
<1>15. /\ ~Numeral(text[k]) => ChipFor(text, k) = {}
       /\ Numeral(text[k]) /\ by # {} => ChipFor(text, k) = {c[1] : c \in by}
       /\ Numeral(text[k]) /\ by = {} /\ ~Financial(text[k]) => ChipFor(text, k) = {}
       /\ Financial(text[k]) /\ by = {} /\ Cardinality(from) = 1 => ChipFor(text, k) = from
       /\ Financial(text[k]) /\ by = {} /\ Cardinality(from) # 1 => ChipFor(text, k) = {Flag}
  <2>1. Financial(text[k]) => Numeral(text[k])
    BY DEF Financial, Numeral
  <2>2. CallsFor(text, k) = {} <=> by = {}
    BY <1>14
  <2>. HIDE DEF by
  <2>. QED
    BY <1>14, <2>1, <2>2 DEF ChipFor
<1>16. grounds => SourceSpans(told, r) \cap ToSet(Cites(text)) = SourceSpans(told, r) \cap cited
  <2>1. \A s \in SourceSpans(told, r) : s.end = EndAt(r)
    BY DEF SourceSpans, Span
  <2>. QED
    BY <2>1 DEF Behind
<1>17. Financial(text[k]) <=> text[k].kind = "number" \/ text[k].kind = "glued"
  BY DEF Financial
<1>. HIDE DEF told, r, by, from, cited, stored, behind, grounds, flagged, Over
<1>18. CASE by # {}
  <2>1. PICK c : by = {c}
    BY <1>5, <1>18
  <2>2. cited = {Over(c)} /\ Numeral(text[k]) /\ ChipFor(text, k) = {c[1]} /\ c[1] \in Ids
    BY <1>4, <1>8, <1>15, <2>1
  <2>3. ~Financial(text[k]) \/ Over(c).start = HeadAt(r)
    BY <1>6, <1>7, <1>12, <1>13, <1>17, <2>1, <2>2
  <2>4. ~grounds /\ stored = {Over(c)}
    BY <1>8, <1>11, <2>2, <2>3
  <2>5. ~flagged /\ behind = {Over(c)}
    BY <1>9, <1>10, <2>3, <2>4
  <2>. QED
    BY <1>12, <2>1, <2>2, <2>4, <2>5 DEF behind, grounds, told, r
<1>19. CASE by = {} /\ ~Financial(text[k])
  <2>1. cited = {} /\ ~grounds /\ ~flagged
    BY <1>8, <1>10, <1>11, <1>19
  <2>2. behind = {}
    BY <1>8, <1>9, <2>1
  <2>3. ChipFor(text, k) = {}
    BY <1>15, <1>19
  <2>. QED
    BY <2>1, <2>2, <2>3 DEF behind, grounds, told, r
<1>20. CASE by = {} /\ Financial(text[k]) /\ Cardinality(from) = 1
  <2>1. cited = {} /\ grounds /\ stored = SourceSpans(told, r)
    BY <1>8, <1>11, <1>20
  <2>2. PICK id \in Ids : from = {id}
    BY <1>20, OneSource DEF from
  <2>3. ChipFor(text, k) = {id} /\ text[k].kind = "number"
    BY <1>7, <1>13, <1>15, <1>17, <1>20, <2>2
  <2>4. stored = {Span(HeadAt(r), EndAt(r), id)}
    BY <1>2, <2>1, <2>2, <2>3 DEF SourceSpans, SeenFrom, from, told, r
  <2>5. Span(HeadAt(r), EndAt(r), id).start = HeadAt(r) /\ Span(HeadAt(r), EndAt(r), id).id = id
    BY DEF Span
  <2>6. ~flagged /\ behind = stored
    BY <1>9, <1>10, <2>4, <2>5
  <2>7. SourceSpans(told, r) \cap ToSet(Cites(text)) = {}
    BY <1>16, <2>1
  <2>. QED
    BY <2>3, <2>4, <2>5, <2>6, <2>7 DEF behind, told, r
<1>21. CASE by = {} /\ Financial(text[k]) /\ Cardinality(from) # 1
  <2>1. cited = {} /\ ~grounds /\ stored = {}
    BY <1>8, <1>11, <1>21
  <2>2. flagged /\ behind = {FlagOver(r)}
    BY <1>9, <1>10, <1>21, <2>1
  <2>3. ChipFor(text, k) = {Flag}
    BY <1>15, <1>21
  <2>. QED
    BY <1>13, <2>1, <2>2, <2>3 DEF behind, grounds, told, r
<1>. QED
  BY <1>18, <1>19, <1>20, <1>21

\* In a contended text two chips end where the same token ends.
LEMMA TwoChips ==
  ASSUME NEW S, NEW text \in Seq(S), NEW to, Keeps(text, Told(text), to), Contended(text)
  PROVE  \E x, y \in AllChips(Told(text), Answer(text).spans) : x # y /\ x.end = y.end
<1>. DEFINE told == Told(text)
            spans == Answer(text).spans
            X == AllChips(told, spans)
<1>1. told \in Seq(S) /\ DOMAIN told = 1..Len(told)
  <2>1. told \in Seq(S)
    BY ParsedText DEF Told
  <2>. QED
    BY <2>1
<1>2. PICK k \in DOMAIN text :
        \/ Cardinality(CitedBy(text, k)) > 1
        \/ text[k].kind = "number" /\ \E c \in CitedBy(text, k) : c[2][1] = TailAt(k)
        \/ text[k].kind = "glued" /\ ChipFor(text, k) # {Flag}
  BY DEF Contended
<1>. DEFINE r == to[k]
            by == CitedBy(text, k)
            Over(c) == CitedOver(c, k, r)
<1>3. IsFiniteSet(by)
      /\ \A c \in by : /\ Numeral(text[k]) /\ c = <<c[1], c[2]>> /\ c[1] \in Ids /\ c[2] \in Seen(k)
                       /\ text[k].kind = "glued" => c[2][1] = TailAt(k)
  BY CitedByCalls
<1>4. text[k].kind # "marker"
  <2>1. by # {} \/ text[k].kind = "number" \/ text[k].kind = "glued"
    <3>. HIDE DEF by
    <3>1. ASSUME Cardinality(by) > 1, by = {} PROVE FALSE
      BY <3>1, FS_EmptySet
    <3>. QED
      BY <1>2, <3>1 DEF by
  <2>. QED
    BY <1>3, <2>1 DEF Numeral
<1>5. r \in DOMAIN told /\ r \in Int /\ k \in Int /\ told[r] = text[k]
  BY <1>1, <1>4 DEF Keeps
<1>6. AreSpans(spans)
  BY StoredAnswer
<1>7. \A c \in by : Over(c) \in X
  <2>1. \A c \in by : Over(c) \in ToSet(Cites(text))
    BY CitedSpans
  <2>2. ToSet(Cites(text)) \subseteq ToSet(spans)
    BY AnswerSpans
  <2>. QED
    BY <2>1, <2>2 DEF AllChips
<1>8. \A c \in by : /\ Over(c).end = EndAt(r) /\ Over(c).id = c[1]
                    /\ c[2][1] = HeadAt(k) => Over(c).start = HeadAt(r)
                    /\ c[2][1] = TailAt(k) => Over(c).start = TailAt(r)
  BY <1>3, <1>5, CitedOverToken
<1>9. HeadAt(r) # TailAt(r) /\ HeadAt(k) # TailAt(k)
  BY <1>5 DEF HeadAt, TailAt
<1>10. Financial(text[k]) => \E s \in X : s.start = HeadAt(r) /\ s.end = EndAt(r)
  BY <1>5, <1>6, FinancialChip
<1>. SUFFICES \E x, y \in X : x # y /\ x.end = y.end
  OBVIOUS
<1>. HIDE DEF told, spans, X, r, by, Over
<1>11. ASSUME NEW c \in by, Financial(text[k]), c[2][1] = TailAt(k)
       PROVE  \E x, y \in X : x # y /\ x.end = y.end
  BY <1>7, <1>8, <1>9, <1>10, <1>11
<1>12. CASE Cardinality(by) > 1
  <2>1. ASSUME by = {} PROVE FALSE
    BY <1>12, <2>1, FS_EmptySet
  <2>. PICK c \in by : TRUE
    BY <2>1
  <2>2. ASSUME by = {c} PROVE FALSE
    <3>1. Cardinality(by) = 1
      BY <2>2, FS_Singleton
    <3>. QED
      BY <1>12, <3>1
  <2>. PICK d \in by : c # d
    BY <2>2
  <2>3. c[1] # d[1] \/ c[2] # d[2]
    BY <1>3
  <2>4. Over(c) # Over(d)
    <3>1. CASE c[1] # d[1]
      BY <1>8, <3>1
    <3>2. CASE c[2] # d[2]
      <4>1. c[2] \in Seen(k) /\ d[2] \in Seen(k)
        BY <1>3
      <4>2. (c[2][1] = HeadAt(k) /\ d[2][1] = TailAt(k)) \/ (c[2][1] = TailAt(k) /\ d[2][1] = HeadAt(k))
        BY <3>2, <4>1 DEF Seen
      <4>. QED
        BY <1>8, <1>9, <4>2
    <3>. QED
      BY <2>3, <3>1, <3>2
  <2>. QED
    BY <1>7, <1>8, <2>4
<1>13. CASE text[k].kind = "number" /\ \E c \in by : c[2][1] = TailAt(k)
  BY <1>11, <1>13 DEF Financial
<1>14. CASE text[k].kind = "glued" /\ ChipFor(text, k) # {Flag} /\ by # {}
  BY <1>3, <1>11, <1>14 DEF Financial
<1>15. CASE text[k].kind = "glued" /\ ChipFor(text, k) # {Flag} /\ by = {}
  <2>. DEFINE from == Candidates(text[k].form)
  <2>1. Financial(text[k]) /\ Numeral(text[k])
    BY <1>15 DEF Financial, Numeral
  <2>2. Cardinality(from) = 1
    <3>1. CallsFor(text, k) = {}
      BY <1>15 DEF CallsFor, by
    <3>. QED
      BY <1>15, <2>1, <3>1 DEF ChipFor
  <2>3. PICK id \in Ids : from = {id}
    BY <2>2, OneSource
  <2>4. Behind(ToSet(Cites(text)), r) = {}
    <3>1. Behind(ToSet(Cites(text)), r) = {CitedOver(c, k, r) : c \in by}
      BY <1>4, SpansBehind DEF r, by
    <3>. QED
      BY <1>15, <3>1
  <2>5. AreSpans(Cites(text))
    BY ParsedAreSpans DEF Cites
  <2>6. r \in Uncited(told, Cites(text))
    BY <1>1, <1>5, <2>1, <2>4, <2>5, UncitedBehind
  <2>7. Grounds(told, Cites(text), r)
    BY <1>5, <2>2, <2>6 DEF Grounds
  <2>. DEFINE s == Span(TailAt(r), EndAt(r), id)
  <2>8. s \in SourceSpans(told, r)
    BY <1>5, <1>15, <2>3 DEF SourceSpans, SeenFrom
  <2>9. s \in ToSet(spans)
    BY <1>5, <2>7, <2>8, AnswerSpans DEF SourcesOf, told, spans
  <2>10. s \in X /\ s.start = TailAt(r) /\ s.end = EndAt(r)
    BY <2>9 DEF X, AllChips, Span
  <2>. QED
    BY <1>9, <1>10, <2>1, <2>10
<1>16. by = {} \/ by # {}
  OBVIOUS
<1>. QED
  BY <1>2, <1>12, <1>13, <1>14, <1>15, <1>16 DEF by

-------------------------------------------------------------------------------
(* What the renderer draws of a piece                                          *)

\* The chips of a piece of the text, at their distance from its beginning.
Inside(chips, from, to) == {x \in chips : from < x.end /\ x.end <= to}
At(x, from) == Span(x.start - from, x.end - from, x.id)
Pieced(chips, from, to) == {At(x, from) : x \in Inside(chips, from, to)}

\* A piece begins with the text or with a token.
Begins(from) == from = 0 \/ \E k \in Nat : from = HeadAt(k)

\* A token is in a piece that begins so if its end is.
LEMMA BeginsBefore ==
  ASSUME NEW from \in Int, Begins(from), NEW r \in Int
  PROVE  r > 0 \/ from # 0 => (from < EndAt(r) <=> from <= HeadAt(r))
<1>1. CASE from = 0
  BY <1>1 DEF HeadAt, EndAt
<1>2. ASSUME NEW k \in Nat, from = HeadAt(k) PROVE from < EndAt(r) <=> from <= HeadAt(r)
  BY <1>2 DEF HeadAt, EndAt
<1>. QED
  BY <1>1, <1>2 DEF Begins

\* The renderer makes them of the spans of the piece.
LEMMA ChipsOfPiece ==
  ASSUME NEW S, NEW told \in Seq(S), NEW spans, AreSpans(spans),
         NEW from \in Int, NEW to \in Int, Begins(from),
         NEW T, NEW part \in Seq(T), ToSet(part) = Pieced(ToSet(spans), from, to)
  PROVE  LET chips == Chips(told, part, [from |-> from, to |-> to])
             pieced == Pieced(AllChips(told, spans), from, to)
         IN  /\ chips \in Seq(pieced) /\ ToSet(chips) = pieced
             /\ IsInjective(part) => IsInjective(chips)
             /\ \A p, q \in DOMAIN chips : p < q => chips[p].start <= chips[q].start
<1>. DEFINE inside == {k \in DOMAIN told : from <= HeadAt(k) /\ EndAt(k) <= to}
            flagged == {k \in inside : Financial(told[k]) /\ \A s \in ToSet(part) : ~Covers(s, k, from)}
            flags == {Span(HeadAt(k) - from, EndAt(k) - from, Flag) : k \in flagged}
            pieced == Pieced(AllChips(told, spans), from, to)
            uncited == Uncited(told, spans)
<1>1. Chips(told, part, [from |-> from, to |-> to]) = Sorted(part \o SetToSeq(flags))
  BY DEF Chips
<1>2. DOMAIN told = 1..Len(told) /\ Len(told) \in Nat
  OBVIOUS
<1>3. \A s \in ToSet(spans) : OverToken(s) /\ s.start \in Int /\ s.end \in Int /\ s.id \in Ids
  BY DEF AreSpans, IsSpan, ToSet
\* What covers a token in the piece covers it in the text.
<1>4. ASSUME NEW k \in inside
      PROVE  (\E s \in ToSet(part) : Covers(s, k, from)) <=> \E s \in ToSet(spans) : Covers(s, k, 0)
  <2>1. k \in Int /\ from <= HeadAt(k) /\ EndAt(k) <= to
    BY <1>2
  <2>2. \A s : s.start \in Int /\ s.end \in Int => (Covers(At(s, from), k, from) <=> Covers(s, k, 0))
    <3>. SUFFICES ASSUME NEW s, s.start \in Int, s.end \in Int
                  PROVE  Covers(At(s, from), k, from) <=> Covers(s, k, 0)
      OBVIOUS
    <3>1. At(s, from).start = s.start - from /\ At(s, from).end = s.end - from
      BY DEF At, Span
    <3>2. HeadAt(k) \in Int /\ EndAt(k) \in Int
      BY <2>1 DEF HeadAt, EndAt
    <3>. DEFINE head == HeadAt(k)
                end == EndAt(k)
    <3>3. /\ s.start - from <= head - from <=> s.start <= head - 0
          /\ end - from <= s.end - from <=> end - 0 <= s.end
      <4>. HIDE DEF head, end
      <4>1. \A x, y \in Int : x - from <= y - from <=> x <= y
        OBVIOUS
      <4>2. head \in Int /\ end \in Int
        BY <3>2 DEF head, end
      <4>3. head - 0 = head /\ end - 0 = end
        BY <4>2
      <4>. QED
        BY <4>1, <4>2, <4>3
    <3>. QED
      BY <3>1, <3>3 DEF Covers
  <2>3. ASSUME NEW s \in ToSet(part), Covers(s, k, from) PROVE \E x \in ToSet(spans) : Covers(x, k, 0)
    <3>1. PICK x \in ToSet(spans) : s = At(x, from)
      BY DEF Pieced, Inside
    <3>. QED
      BY <1>3, <2>2, <2>3, <3>1
  <2>4. ASSUME NEW s \in ToSet(spans), Covers(s, k, 0) PROVE \E x \in ToSet(part) : Covers(x, k, from)
    <3>1. s.end = EndAt(k)
      BY <1>3, <2>1, <2>4, CoversExactly
    <3>2. from < s.end /\ s.end <= to
      BY <2>1, <3>1 DEF HeadAt, EndAt
    <3>3. At(s, from) \in ToSet(part)
      BY <3>2 DEF Pieced, Inside
    <3>. QED
      BY <1>3, <2>2, <2>4, <3>3
  <2>. QED
    BY <2>3, <2>4
<1>5. flagged = {k \in uncited : from < EndAt(k) /\ EndAt(k) <= to}
  <2>1. \A k \in DOMAIN told : from < EndAt(k) <=> from <= HeadAt(k)
    <3>. SUFFICES ASSUME NEW k \in DOMAIN told PROVE from < EndAt(k) <=> from <= HeadAt(k)
      OBVIOUS
    <3>1. k \in Int /\ k > 0
      BY <1>2
    <3>. QED
      BY <3>1, BeginsBefore
  <2>. QED
    BY <1>4, <2>1 DEF Uncited
<1>. HIDE DEF inside, flagged
<1>6. flags = Pieced({FlagOver(k) : k \in uncited}, from, to)
  <2>1. \A k : FlagOver(k).end = EndAt(k) /\ FlagOver(k).start = HeadAt(k) /\ FlagOver(k).id = Flag
    BY DEF FlagOver, Span
  <2>2. \A k : At(FlagOver(k), from) = Span(HeadAt(k) - from, EndAt(k) - from, Flag)
    BY <2>1 DEF At
  <2>. HIDE DEF uncited
  <2>. QED
    BY <1>5, <2>1, <2>2 DEF Pieced, Inside
<1>7. IsFiniteSet(flags)
  <2>1. uncited \in SUBSET (1..Len(told)) /\ IsFiniteSet(1..Len(told))
    BY <1>2, FS_Interval DEF Uncited
  <2>2. flagged \in SUBSET (1..Len(told))
    BY <1>5, <2>1
  <2>3. IsFiniteSet(flagged)
    BY <2>1, <2>2, FS_Subset
  <2>. DEFINE f == [k \in flagged |-> Span(HeadAt(k) - from, EndAt(k) - from, Flag)]
  <2>4. f \in Surjection(flagged, flags)
    BY DEF Surjection
  <2>. QED
    BY <2>3, <2>4, FS_Surjection
<1>. HIDE DEF flags
<1>8. ToSet(part) \cup flags = pieced
  <2>1. Pieced(AllChips(told, spans), from, to)
          = Pieced(ToSet(spans), from, to) \cup Pieced({FlagOver(k) : k \in uncited}, from, to)
    BY DEF Pieced, Inside, AllChips
  <2>. QED
    BY <1>6, <2>1
<1>9. \A x \in pieced : x.start \in Int /\ x.end \in Int
  <2>1. \A x \in AllChips(told, spans) : x.start \in Int /\ x.end \in Int
    BY <1>2, <1>3 DEF AllChips, FlagOver, Span, Uncited, HeadAt, EndAt
  <2>. QED
    BY <2>1 DEF Pieced, Inside, At, Span
<1>. HIDE DEF pieced
<1>10. SetToSeq(flags) \in Seq(flags) /\ ToSet(SetToSeq(flags)) = flags /\ IsInjective(SetToSeq(flags))
  BY <1>7, Listed
<1>. DEFINE list == SetToSeq(flags)
            all == part \o list
<1>. HIDE DEF list
<1>11. part \in Seq(pieced) /\ list \in Seq(pieced)
  <2>1. \A i \in DOMAIN part : part[i] \in pieced
    BY <1>8 DEF ToSet
  <2>2. part \in Seq(pieced)
    BY <2>1
  <2>3. list \in Seq(flags) /\ flags \subseteq pieced
    BY <1>8, <1>10 DEF list
  <2>. QED
    BY <2>2, <2>3
<1>12. all \in Seq(pieced) /\ ToSet(all) = pieced
  <2>1. ToSet(list) = flags
    BY <1>10 DEF list
  <2>2. all \in Seq(pieced) /\ ToSet(all) = ToSet(part) \cup ToSet(list)
    BY <1>11, JoinedOnce
  <2>. QED
    BY <1>8, <2>1, <2>2
<1>13. IsInjective(part) => IsInjective(all)
  <2>1. ToSet(part) \cap flags = {}
    <3>1. \A x \in ToSet(part) : x.id \in Ids
      BY <1>3 DEF Pieced, Inside, At, Span
    <3>2. \A x \in flags : x.id = Flag
      BY DEF flags, Span
    <3>. QED
      BY <3>1, <3>2, CitationsAssumption
  <2>. QED
    BY <1>10, <1>11, <2>1, JoinedOnce DEF list
<1>. HIDE DEF all
<1>14. /\ Sorted(all) \in Seq(pieced) /\ ToSet(Sorted(all)) = ToSet(all)
       /\ IsInjective(all) => IsInjective(Sorted(all))
       /\ \A p, q \in DOMAIN Sorted(all) : p < q => Sorted(all)[p].start <= Sorted(all)[q].start
  BY <1>9, <1>12, SortedSpans
<1>. QED
  BY <1>1, <1>12, <1>13, <1>14 DEF all, list, pieced

\* The chips of a text are over its tokens, one behind each.
Apart(chips) ==
  /\ \A x \in chips : x.id \in Ids \cup {Flag} /\ \E r \in Nat \ {0} :
       x.end = EndAt(r) /\ (x.start = HeadAt(r) \/ x.start = TailAt(r))
  /\ \A x, y \in chips : x.end = y.end => x = y

\* Then the renderer draws all of the piece, and behind every token its chip.
LEMMA PieceDrawn ==
  ASSUME NEW S, NEW told \in Seq(S), NEW spans, AreSpans(spans), Apart(AllChips(told, spans)),
         NEW from \in Int, NEW to \in Int, Begins(from), from <= to,
         NEW T, NEW part \in Seq(T), ToSet(part) = Pieced(ToSet(spans), from, to), IsInjective(part)
  PROVE  LET nodes == Render(told, part, [from |-> from, to |-> to])
         IN  /\ nodes \in Seq(Int \X (Ids \cup {Flag, Shown})) /\ Rises(nodes)
             /\ ToSet(nodes) = {<<x, Shown>> : x \in 0..(to - from - 1)}
                  \cup {<<x.end - from, x.id>> : x \in Inside(AllChips(told, spans), from, to)}
<1>. DEFINE chips == Chips(told, part, [from |-> from, to |-> to])
            X == Inside(AllChips(told, spans), from, to)
            pieced == Pieced(AllChips(told, spans), from, to)
            Y == Ids \cup {Flag, Shown}
            size == to - from
<1>1. /\ chips \in Seq(pieced) /\ ToSet(chips) = pieced /\ IsInjective(chips)
      /\ \A p, q \in DOMAIN chips : p < q => chips[p].start <= chips[q].start
  BY ChipsOfPiece
<1>2. Render(told, part, [from |-> from, to |-> to]) = Draw(chips, size)
  BY DEF Render
<1>3. pieced = {At(x, from) : x \in X}
  BY DEF Pieced
<1>4. \A x \in X : /\ from < x.end /\ x.end <= to /\ x.id \in Ids \cup {Flag}
                   /\ \E r \in Nat \ {0} : x.end = EndAt(r) /\ (x.start = HeadAt(r) \/ x.start = TailAt(r))
  BY DEF Inside, Apart
<1>5. \A x, y \in X : x.end = y.end => x = y
  BY DEF Inside, Apart
<1>. HIDE DEF chips, X, pieced
<1>6. \A i \in DOMAIN chips : \E x \in X : chips[i] = At(x, from)
  BY <1>1, <1>3 DEF ToSet
<1>7. ASSUME NEW x \in X
      PROVE  /\ At(x, from).start \in Int /\ At(x, from).end \in Int /\ At(x, from).id \in Y \ {Shown}
             /\ 0 <= At(x, from).start /\ At(x, from).start < At(x, from).end /\ At(x, from).end <= size
  <2>1. PICK r \in Nat \ {0} : x.end = EndAt(r) /\ (x.start = HeadAt(r) \/ x.start = TailAt(r))
    BY <1>4
  <2>2. r \in Int /\ r > 0
    OBVIOUS
  <2>3. from < EndAt(r) /\ EndAt(r) <= to
    BY <1>4, <2>1
  <2>4. from <= HeadAt(r)
    BY <2>2, <2>3, BeginsBefore
  <2>5. At(x, from).start = x.start - from /\ At(x, from).end = EndAt(r) - from /\ At(x, from).id = x.id
    BY <2>1 DEF At, Span
  <2>6. x.id \in Ids \cup {Flag} /\ Shown \notin Ids \cup {Flag}
    BY <1>4, CitationsAssumption DEF Flag, Shown
  <2>. QED
    BY <2>1, <2>2, <2>3, <2>4, <2>5, <2>6 DEF HeadAt, TailAt, EndAt
<1>8. AreChips(chips, Y)
  <2>1. chips \in Seq({chips[i] : i \in DOMAIN chips})
    BY <1>1
  <2>. QED
    BY <1>6, <1>7, <2>1 DEF AreChips
<1>9. Spread(chips, size)
  <2>1. ASSUME NEW i \in DOMAIN chips, NEW k \in DOMAIN chips, i < k PROVE chips[i].end < chips[k].start
    <3>1. PICK x \in X : chips[i] = At(x, from)
      BY <1>6
    <3>2. PICK y \in X : chips[k] = At(y, from)
      BY <1>6
    <3>3. PICK p \in Nat \ {0} : x.end = EndAt(p) /\ (x.start = HeadAt(p) \/ x.start = TailAt(p))
      BY <1>4
    <3>4. PICK q \in Nat \ {0} : y.end = EndAt(q) /\ (y.start = HeadAt(q) \/ y.start = TailAt(q))
      BY <1>4
    <3>5. p # q
      <4>1. i # k
        BY <1>1, <2>1
      <4>2. chips[i] # chips[k]
        BY <1>1, <4>1 DEF IsInjective
      <4>3. x # y
        BY <3>1, <3>2, <4>2
      <4>. QED
        BY <1>5, <3>3, <3>4, <4>3
    <3>6. /\ chips[i].start = x.start - from /\ chips[i].end = x.end - from
          /\ chips[k].start = y.start - from /\ chips[k].end = y.end - from
      BY <3>1, <3>2 DEF At, Span
    <3>7. chips[i].start <= chips[k].start
      BY <1>1, <2>1
    <3>8. x.start <= y.start
      BY <3>3, <3>4, <3>6, <3>7 DEF HeadAt, TailAt
    <3>9. x.end < y.start
      BY <3>3, <3>4, <3>5, <3>8 DEF HeadAt, TailAt, EndAt
    <3>. QED
      BY <3>3, <3>4, <3>6, <3>9 DEF HeadAt, TailAt, EndAt
  <2>. QED
    BY <1>6, <1>7, <2>1 DEF Spread
<1>10. size \in Nat /\ Shown \in Y
  OBVIOUS
<1>11. /\ Draw(chips, size) \in Seq(Int \X Y) /\ Rises(Draw(chips, size))
       /\ ToSet(Draw(chips, size))
            = {<<x, Shown>> : x \in 0..(size - 1)} \cup {ChipOf(c) : c \in ToSet(chips)}
  <2>. HIDE DEF Y, size
  <2>. QED
    BY <1>8, <1>9, <1>10, Drawn
<1>12. {ChipOf(c) : c \in ToSet(chips)} = {<<x.end - from, x.id>> : x \in X}
  <2>1. \A x : ChipOf(At(x, from)) = <<x.end - from, x.id>>
    BY DEF ChipOf, At, Span
  <2>2. ToSet(chips) = {At(x, from) : x \in X}
    BY <1>1, <1>3
  <2>3. \A c \in ToSet(chips) : ChipOf(c) \in {<<x.end - from, x.id>> : x \in X}
    BY <2>1, <2>2
  <2>4. \A x \in X : <<x.end - from, x.id>> \in {ChipOf(c) : c \in ToSet(chips)}
    BY <2>1, <2>2
  <2>. QED
    BY <2>3, <2>4
<1>. QED
  BY <1>2, <1>11, <1>12 DEF X

-------------------------------------------------------------------------------
(* The text as its author would see it                                         *)

Drawable == Ids \cup {Flag, Shown}

\* The chips that belong behind a token are calls of the turn or the flag.
LEMMA ChipsForToken ==
  ASSUME NEW S, NEW text \in Seq(S), NEW k \in DOMAIN text
  PROVE  IsFiniteSet(ChipFor(text, k)) /\ ChipFor(text, k) \subseteq Ids \cup {Flag}
<1>1. IsFiniteSet(CitedBy(text, k)) /\ \A c \in CitedBy(text, k) : c[1] \in Ids
  BY CitedByCalls
<1>2. CallsFor(text, k) \subseteq Ids
  BY <1>1 DEF CallsFor
<1>3. Candidates(text[k].form) \subseteq Ids
  BY DEF Candidates
<1>4. \A R \in SUBSET Ids : IsFiniteSet(R)
  BY CitationsAssumption, FS_Subset
<1>5. IsFiniteSet({Flag}) /\ IsFiniteSet({})
  BY FS_Singleton, FS_EmptySet
<1>. QED
  BY <1>2, <1>3, <1>4, <1>5 DEF ChipFor

\* What the author sees of the token at k, which is the r-th without markers.
BlockOf(text, k, r) ==
  Slice(EndAt(r - 1), EndAt(r)) \o SetToSeq({<<EndAt(r), c>> : c \in ChipFor(text, k)})

\* It draws its token once and its chips behind it, and rises if there is one chip.
LEMMA BlockDrawn ==
  ASSUME NEW S, NEW text \in Seq(S), NEW k \in DOMAIN text, NEW r \in Int
  PROVE  LET block == BlockOf(text, k, r)
         IN  /\ block \in Seq(Int \X Drawable) /\ IsInjective(block)
             /\ ToSet(block) = {<<x, Shown>> : x \in EndAt(r - 1)..(EndAt(r) - 1)}
                                 \cup {<<EndAt(r), c>> : c \in ChipFor(text, k)}
             /\ \A x \in ToSet(block) :
                  Key(x) \in Int /\ 2 * EndAt(r - 1) < Key(x) /\ Key(x) <= 2 * EndAt(r)
             /\ (\A c, d \in ChipFor(text, k) : c = d) => Rises(block)
<1>. DEFINE e == EndAt(r)
            b == EndAt(r - 1)
            for == ChipFor(text, k)
            chips == {<<e, c>> : c \in for}
            plain == Slice(b, e)
            list == SetToSeq(chips)
            A == Int \X Drawable
<1>1. b \in Int /\ e \in Int /\ b < e
  BY DEF EndAt
<1>2. IsFiniteSet(for) /\ for \subseteq Ids \cup {Flag} /\ Shown \notin for
  BY ChipsForToken, CitationsAssumption DEF Flag, Shown
<1>. HIDE DEF for, e, b
<1>3. plain \in Seq(A) /\ Rises(plain) /\ ToSet(plain) = {<<x, Shown>> : x \in b..(e - 1)}
  <2>1. Shown \in Drawable
    BY DEF Drawable
  <2>. QED
    BY <1>1, <2>1, SliceRises
<1>4. IsFiniteSet(chips)
  <2>. DEFINE f == [c \in for |-> <<e, c>>]
  <2>1. f \in Surjection(for, chips)
    BY DEF Surjection
  <2>. QED
    BY <1>2, <2>1, FS_Surjection
<1>5. chips \subseteq A
  BY <1>1, <1>2 DEF Drawable
<1>. HIDE DEF chips, A
<1>6. list \in Seq(A) /\ ToSet(list) = chips /\ IsInjective(list)
  <2>1. list \in Seq(chips) /\ ToSet(list) = chips /\ IsInjective(list)
    BY <1>4, Listed
  <2>. QED
    BY <1>5, <2>1
<1>. HIDE DEF plain, list
<1>7. \A x \in ToSet(plain) : Key(x) \in Int /\ 2 * b < Key(x) /\ Key(x) < 2 * e
  <2>. SUFFICES ASSUME NEW x \in ToSet(plain) PROVE Key(x) \in Int /\ 2 * b < Key(x) /\ Key(x) < 2 * e
    OBVIOUS
  <2>1. PICK z \in b..(e - 1) : x = <<z, Shown>>
    BY <1>3
  <2>2. Key(x) = 2 * z + 1 /\ z \in Int /\ b <= z /\ z <= e - 1
    BY <1>1, <2>1 DEF Key
  <2>. QED
    BY <1>1, <2>2
<1>8. \A x \in ToSet(list) : Key(x) = 2 * e
  <2>. SUFFICES ASSUME NEW x \in ToSet(list) PROVE Key(x) = 2 * e
    OBVIOUS
  <2>1. PICK c \in for : x = <<e, c>>
    BY <1>6 DEF chips
  <2>2. c # Shown
    BY <1>2
  <2>. QED
    BY <1>1, <2>1, <2>2 DEF Key
<1>9. plain \o list \in Seq(A) /\ ToSet(plain \o list) = ToSet(plain) \cup chips
      /\ IsInjective(plain \o list)
  <2>1. IsInjective(plain)
    BY <1>3, RisesOnce DEF A
  <2>2. ToSet(plain) \cap ToSet(list) = {}
    <3>. SUFFICES ASSUME NEW x \in ToSet(plain), x \in ToSet(list) PROVE FALSE
      OBVIOUS
    <3>. QED
      BY <1>1, <1>7, <1>8
  <2>. QED
    BY <1>3, <1>6, <2>1, <2>2, JoinedOnce
<1>10. \A x \in ToSet(plain \o list) : Key(x) \in Int /\ 2 * b < Key(x) /\ Key(x) <= 2 * e
  <2>. SUFFICES ASSUME NEW x \in ToSet(plain \o list)
                PROVE  Key(x) \in Int /\ 2 * b < Key(x) /\ Key(x) <= 2 * e
    OBVIOUS
  <2>1. x \in ToSet(plain) \/ x \in ToSet(list)
    BY <1>6, <1>9
  <2>2. CASE x \in ToSet(plain)
    <3>1. Key(x) \in Int /\ 2 * b < Key(x) /\ Key(x) < 2 * e
      BY <1>7, <2>2
    <3>. QED
      BY <1>1, <3>1
  <2>3. CASE x \in ToSet(list)
    <3>1. Key(x) = 2 * e
      BY <1>8, <2>3
    <3>. QED
      BY <1>1, <3>1
  <2>. QED
    BY <2>1, <2>2, <2>3
<1>11. ASSUME \A c, d \in for : c = d PROVE Rises(plain \o list)
  <2>1. Rises(list)
    <3>1. \A i, j \in DOMAIN list : list[i] = list[j]
      <4>1. \A i \in DOMAIN list : list[i] \in chips
        BY <1>6 DEF ToSet
      <4>2. \A x, y \in chips : x = y
        BY <1>11 DEF chips
      <4>. QED
        BY <4>1, <4>2
    <3>2. \A i, j \in DOMAIN list : i = j
      BY <1>6, <3>1 DEF IsInjective
    <3>3. DOMAIN list \subseteq Int
      BY <1>6
    <3>. QED
      BY <3>2, <3>3 DEF Rises
  <2>2. Precedes(plain, list)
    BY <1>7, <1>8 DEF Precedes
  <2>. QED
    BY <1>3, <1>6, <2>1, <2>2, JoinRises DEF A
<1>12. BlockOf(text, k, r) = plain \o list
  BY DEF BlockOf, plain, list, chips, b, e, for
<1>. QED
  BY <1>3, <1>9, <1>10, <1>11, <1>12 DEF A, chips, b, e, for

\* The chips that belong behind the tokens of a text, at their offsets without markers.
Tokens(text) == {k \in DOMAIN text : text[k].kind # "marker"}
ChipsMarked(text, to) == UNION {{<<EndAt(to[k]), c>> : c \in ChipFor(text, k)} : k \in Tokens(text)}

\* The text as its author would see it repeats nothing, and draws all of the text without
\* markers with the chips that belong behind its tokens.
LEMMA MarkedDrawn ==
  ASSUME NEW S, NEW text \in Seq(S), NEW to, Keeps(text, Told(text), to)
  PROVE  /\ AsMarked(text) \in Seq(Int \X Drawable) /\ IsInjective(AsMarked(text))
         /\ ToSet(AsMarked(text)) = {<<x, Shown>> : x \in 0..(EndAt(Len(Told(text))) - 1)}
                                      \cup ChipsMarked(text, to)
         /\ (\A k \in Tokens(text) : \A c, d \in ChipFor(text, k) : c = d) => Rises(AsMarked(text))
<1>. DEFINE n == Len(text)
            A == Int \X Drawable
            told == Told(text)
            Kept(k) == k - Cardinality({m \in Markers(text) : m <= k})
            Part(k) == IF text[k].kind = "marker" THEN <<>> ELSE BlockOf(text, k, to[k])
            seqs == [k \in DOMAIN text |-> Part(k)]
            tokens == Tokens(text)
<1>1. n \in Nat /\ DOMAIN text = 1..n
  OBVIOUS
<1>2. \A k \in DOMAIN text : Kept(k) = to[k] /\ to[k] \in Int
  <2>. SUFFICES ASSUME NEW k \in DOMAIN text PROVE Kept(k) = to[k] /\ to[k] \in Int
    OBVIOUS
  <2>1. k \in 0..n /\ k \in Int
    BY <1>1
  <2>2. Cardinality({m \in Markers(text) : m <= k}) = k - to[k]
    BY <2>1, MarkersCounted
  <2>3. to[k] \in Nat
    BY <2>1 DEF Keeps
  <2>. QED
    BY <2>1, <2>2, <2>3
<1>3. AsMarked(text) = FlattenSeq(seqs)
  <2>. DEFINE Own(k) == Slice(EndAt(Kept(k) - 1), EndAt(Kept(k)))
                            \o SetToSeq({<<EndAt(Kept(k)), c>> : c \in ChipFor(text, k)})
              raw == [k \in DOMAIN text |-> IF text[k].kind = "marker" THEN <<>> ELSE Own(k)]
  <2>1. AsMarked(text) = FlattenSeq(raw)
    BY DEF AsMarked
  <2>2. \A k \in DOMAIN text : Own(k) = BlockOf(text, k, Kept(k))
    BY DEF BlockOf
  <2>. HIDE DEF Own, Kept
  <2>3. raw = seqs
    BY <1>2, <2>2
  <2>. QED
    BY <2>1, <2>3
<1>. HIDE DEF Kept
<1>4. \A k \in tokens :
        /\ Part(k) \in Seq(A) /\ IsInjective(Part(k))
        /\ ToSet(Part(k)) = {<<x, Shown>> : x \in EndAt(to[k] - 1)..(EndAt(to[k]) - 1)}
                              \cup {<<EndAt(to[k]), c>> : c \in ChipFor(text, k)}
        /\ \A x \in ToSet(Part(k)) :
             Key(x) \in Int /\ 2 * EndAt(to[k] - 1) < Key(x) /\ Key(x) <= 2 * EndAt(to[k])
        /\ (\A c, d \in ChipFor(text, k) : c = d) => Rises(Part(k))
  <2>. SUFFICES ASSUME NEW k \in tokens
                PROVE  /\ Part(k) \in Seq(A) /\ IsInjective(Part(k))
                       /\ ToSet(Part(k)) = {<<x, Shown>> : x \in EndAt(to[k] - 1)..(EndAt(to[k]) - 1)}
                                             \cup {<<EndAt(to[k]), c>> : c \in ChipFor(text, k)}
                       /\ \A x \in ToSet(Part(k)) :
                            Key(x) \in Int /\ 2 * EndAt(to[k] - 1) < Key(x) /\ Key(x) <= 2 * EndAt(to[k])
                       /\ (\A c, d \in ChipFor(text, k) : c = d) => Rises(Part(k))
    OBVIOUS
  <2>1. k \in DOMAIN text /\ to[k] \in Int /\ Part(k) = BlockOf(text, k, to[k])
    BY <1>2 DEF Tokens
  <2>. DEFINE b == BlockOf(text, k, to[k])
  <2>. HIDE DEF Part, A
  <2>2. /\ b \in Seq(A) /\ IsInjective(b)
        /\ ToSet(b) = {<<x, Shown>> : x \in EndAt(to[k] - 1)..(EndAt(to[k]) - 1)}
                         \cup {<<EndAt(to[k]), c>> : c \in ChipFor(text, k)}
        /\ \A x \in ToSet(b) :
             Key(x) \in Int /\ 2 * EndAt(to[k] - 1) < Key(x) /\ Key(x) <= 2 * EndAt(to[k])
        /\ (\A c, d \in ChipFor(text, k) : c = d) => Rises(b)
    BY <2>1, BlockDrawn DEF A
  <2>. HIDE DEF b
  <2>3. Part(k) = b
    BY <2>1 DEF b
  <2>. QED
    BY <2>2, <2>3
<1>5. \A k \in DOMAIN text : k \notin tokens =>
        Part(k) = <<>> /\ Part(k) \in Seq(A) /\ IsInjective(Part(k)) /\ ToSet(Part(k)) = {} /\ Rises(Part(k))
  <2>1. <<>> \in Seq(A) /\ IsInjective(<<>>) /\ ToSet(<<>>) = {} /\ Rises(<<>>)
    BY DEF IsInjective, ToSet, Rises
  <2>. HIDE DEF A
  <2>. QED
    BY <2>1 DEF Tokens
<1>. HIDE DEF Part, A, tokens
<1>6. seqs \in Seq(Seq(A)) /\ DOMAIN seqs = DOMAIN text /\ \A k \in DOMAIN text : seqs[k] = Part(k)
  <2>1. \A k \in 1..n : Part(k) \in Seq(A)
    BY <1>1, <1>4, <1>5
  <2>. HIDE DEF n
  <2>2. seqs = [k \in 1..n |-> Part(k)]
    BY <1>1
  <2>. QED
    BY <1>1, <2>1, <2>2
<1>. HIDE DEF seqs
<1>7. \A i, k \in DOMAIN seqs : i < k => Precedes(seqs[i], seqs[k])
  <2>. SUFFICES ASSUME NEW i \in DOMAIN text, NEW k \in DOMAIN text, i < k,
                       NEW x \in ToSet(Part(i)), NEW y \in ToSet(Part(k))
                PROVE  Key(x) < Key(y)
    BY <1>6 DEF Precedes
  <2>1. i \in tokens /\ k \in tokens
    BY <1>5
  <2>2. to[i] < to[k] /\ to[i] \in Int /\ to[k] \in Int
    BY <1>2, <2>1, KeptInOrder DEF tokens, Tokens
  <2>3. Key(x) \in Int /\ Key(y) \in Int /\ Key(x) <= 2 * EndAt(to[i]) /\ 2 * EndAt(to[k] - 1) < Key(y)
    BY <1>4, <2>1
  <2>4. EndAt(to[i]) <= EndAt(to[k] - 1) /\ EndAt(to[i]) \in Int /\ EndAt(to[k] - 1) \in Int
    BY <2>2 DEF EndAt
  <2>. QED
    BY <2>3, <2>4
<1>8. \A k \in DOMAIN seqs : IsInjective(seqs[k])
  BY <1>4, <1>5, <1>6
<1>9. \A i, k \in DOMAIN seqs : i # k => ToSet(seqs[i]) \cap ToSet(seqs[k]) = {}
  <2>. SUFFICES ASSUME NEW i \in DOMAIN text, NEW k \in DOMAIN text, i < k,
                       NEW x \in ToSet(seqs[i]), x \in ToSet(seqs[k])
                PROVE  FALSE
    <3>1. \A i, k \in DOMAIN text : i # k => i < k \/ k < i
      BY <1>1
    <3>. QED
      BY <1>6, <3>1
  <2>1. Key(x) < Key(x)
    BY <1>6, <1>7 DEF Precedes
  <2>2. Key(x) \in Int
    BY <1>4, <1>5, <1>6
  <2>. QED
    BY <2>1, <2>2
<1>10. IsInjective(FlattenSeq(seqs)) /\ FlattenSeq(seqs) \in Seq(A)
  BY <1>6, <1>8, <1>9, FlattenedOnce, Flattened
<1>11. (\A k \in tokens : \A c, d \in ChipFor(text, k) : c = d) => Rises(FlattenSeq(seqs))
  <2>. SUFFICES ASSUME \A k \in tokens : \A c, d \in ChipFor(text, k) : c = d
                PROVE  Rises(FlattenSeq(seqs))
    OBVIOUS
  <2>1. \A k \in DOMAIN seqs : Rises(seqs[k])
    BY <1>4, <1>5, <1>6
  <2>. QED
    BY <1>6, <1>7, <2>1, FlattenedRises DEF A
<1>12. ToSet(FlattenSeq(seqs)) = UNION {ToSet(Part(k)) : k \in tokens}
  <2>1. ToSet(FlattenSeq(seqs)) = UNION {ToSet(seqs[k]) : k \in DOMAIN seqs}
    BY <1>6, FlattenedSet
  <2>2. tokens \subseteq DOMAIN text
    BY DEF tokens, Tokens
  <2>. QED
    BY <1>5, <1>6, <2>1, <2>2
<1>13. told \in Seq(S) /\ DOMAIN told = 1..Len(told) /\ Len(told) \in Nat
  <2>1. told \in Seq(S)
    BY ParsedText DEF Told
  <2>. QED
    BY <2>1
<1>14. /\ \A k \in tokens : to[k] \in 1..Len(told)
       /\ \A r \in 1..Len(told) : \E k \in tokens : r = to[k]
  <2>1. \A k \in 1..n : text[k].kind # "marker" => to[k] \in 1..Len(told)
    BY DEF Keeps
  <2>2. \A r \in 1..Len(told) : \E k \in 1..n : text[k].kind # "marker" /\ r = to[k]
    BY DEF Keeps
  <2>. HIDE DEF told, n
  <2>. QED
    BY <1>1, <2>1, <2>2 DEF tokens, Tokens
<1>. HIDE DEF told
<1>15. UNION {{<<x, Shown>> : x \in EndAt(to[k] - 1)..(EndAt(to[k]) - 1)} : k \in tokens}
         = {<<x, Shown>> : x \in 0..(EndAt(Len(told)) - 1)}
  <2>1. \A k \in tokens : \A x \in EndAt(to[k] - 1)..(EndAt(to[k]) - 1) : x \in 0..(EndAt(Len(told)) - 1)
    BY <1>13, <1>14 DEF EndAt
  <2>2. ASSUME NEW x \in 0..(EndAt(Len(told)) - 1)
        PROVE  \E k \in tokens : x \in EndAt(to[k] - 1)..(EndAt(to[k]) - 1)
    <3>. DEFINE r == x \div 3 + 1
    <3>1. r \in 1..Len(told) /\ x \in EndAt(r - 1)..(EndAt(r) - 1)
      BY <1>13 DEF EndAt
    <3>. QED
      BY <1>14, <3>1
  <2>. QED
    BY <2>1, <2>2
<1>16. UNION {ToSet(Part(k)) : k \in tokens}
         = {<<x, Shown>> : x \in 0..(EndAt(Len(told)) - 1)}
             \cup ChipsMarked(text, to)
  BY <1>4, <1>15 DEF ChipsMarked, tokens
<1>. QED
  BY <1>3, <1>10, <1>11, <1>12, <1>16 DEF A, told, tokens

-------------------------------------------------------------------------------
(* Answers in one piece                                                        *)

\* The text without markers and its chips.
LEMMA ToldChips ==
  ASSUME NEW S, NEW text \in Seq(S)
  PROVE  LET told == Told(text)
             chips == AllChips(told, Answer(text).spans)
         IN  /\ told \in Seq(S) /\ Answer(text).text = told /\ AreSpans(Answer(text).spans)
             /\ Len(told) \in Nat /\ DOMAIN told = 1..Len(told)
             /\ \A x \in chips : /\ x = Span(x.start, x.end, x.id) /\ x.id \in Ids \cup {Flag}
                                 /\ \E r \in 1..Len(told) :
                                      x.end = EndAt(r) /\ (x.start = HeadAt(r) \/ x.start = TailAt(r))
             /\ \A x \in ToSet(Answer(text).spans) : x \in chips
<1>. DEFINE told == Told(text)
            spans == Answer(text).spans
            chips == AllChips(told, spans)
<1>1. told \in Seq(S)
  BY ParsedText DEF Told
<1>2. Answer(text).text = told /\ AreSpans(spans)
  BY StoredAnswer DEF Told
<1>3. Len(told) \in Nat /\ DOMAIN told = 1..Len(told)
  BY <1>1
<1>4. PICK to : Keeps(text, told, to)
  BY ParsedText DEF Told
<1>5. ASSUME NEW x \in chips
      PROVE  /\ x.id \in Ids \cup {Flag}
             /\ \E r \in 1..Len(told) : x.end = EndAt(r) /\ (x.start = HeadAt(r) \/ x.start = TailAt(r))
  <2>1. x.id \in Ids \cup {Flag}
    BY <1>4, ChipsOver
  <2>2. PICK k \in DOMAIN text : /\ text[k].kind # "marker" /\ x \in Behind(chips, to[k])
                                 /\ x.start = HeadAt(to[k]) \/ x.start = TailAt(to[k])
    BY <1>4, ChipsOver
  <2>3. to[k] \in 1..Len(told)
    BY <1>4, <2>2 DEF Keeps
  <2>4. x.end = EndAt(to[k])
    BY <2>2 DEF Behind
  <2>. QED
    BY <2>1, <2>2, <2>3, <2>4
<1>6. ASSUME NEW x \in chips PROVE x = Span(x.start, x.end, x.id)
  <2>1. CASE x \in ToSet(spans)
    <3>1. OverToken(x)
      BY <1>2, <2>1 DEF AreSpans, IsSpan, ToSet
    <3>. QED
      BY <3>1 DEF OverToken, Span
  <2>2. CASE \E r \in Uncited(told, spans) : x = FlagOver(r)
    BY <2>2 DEF FlagOver, Span
  <2>. QED
    BY <2>1, <2>2 DEF AllChips
<1>7. \A x \in ToSet(spans) : x \in chips
  BY DEF AllChips
<1>. QED
  BY <1>1, <1>2, <1>3, <1>5, <1>6, <1>7

\* In a text that is not contended, the chips are apart, and they are those that belong
\* behind the tokens.
LEMMA UncontendedChips ==
  ASSUME NEW S, NEW text \in Seq(S), NEW to, Keeps(text, Told(text), to), ~Contended(text)
  PROVE  LET chips == AllChips(Told(text), Answer(text).spans)
         IN  /\ Apart(chips) /\ IsInjective(Answer(text).spans)
             /\ {<<x.end, x.id>> : x \in chips} = ChipsMarked(text, to)
             /\ \A k \in Tokens(text) : \A c, d \in ChipFor(text, k) : c = d
<1>. DEFINE told == Told(text)
            chips == AllChips(told, Answer(text).spans)
            tokens == Tokens(text)
<1>1. \A k \in tokens : /\ {x.id : x \in Behind(chips, to[k])} = ChipFor(text, k)
                        /\ \A x, y \in Behind(chips, to[k]) : x = y
                        /\ Grounds(told, Cites(text), to[k])
                             => SourceSpans(told, to[k]) \cap ToSet(Cites(text)) = {}
  BY OneChip DEF Tokens
<1>2. \A x \in chips : \E k \in tokens : x \in Behind(chips, to[k])
  BY ChipsOver DEF Tokens
<1>3. /\ Len(told) \in Nat /\ DOMAIN told = 1..Len(told)
      /\ \A x \in chips : x.id \in Ids \cup {Flag} /\ \E r \in 1..Len(told) :
           x.end = EndAt(r) /\ (x.start = HeadAt(r) \/ x.start = TailAt(r))
  BY ToldChips
<1>4. \A r \in DOMAIN told : \E k \in tokens : r = to[k]
  BY <1>3 DEF Keeps, Tokens
<1>. HIDE DEF tokens, chips, told
<1>5. Apart(chips)
  <2>1. ASSUME NEW x \in chips, NEW y \in chips, x.end = y.end PROVE x = y
    <3>1. PICK k \in tokens : x \in Behind(chips, to[k])
      BY <1>2
    <3>2. y \in Behind(chips, to[k])
      BY <2>1, <3>1 DEF Behind
    <3>. QED
      BY <1>1, <3>1, <3>2
  <2>2. \A r \in 1..Len(told) : r \in Nat \ {0}
    BY <1>3
  <2>. QED
    BY <1>3, <2>1, <2>2 DEF Apart
<1>6. IsInjective(Answer(text).spans)
  <2>1. ToSet(Cites(text)) \cap SourcesOf(told, Cites(text)) = {}
    <3>. SUFFICES ASSUME NEW s \in SourcesOf(told, Cites(text)), s \in ToSet(Cites(text)) PROVE FALSE
      OBVIOUS
    <3>1. PICK r \in DOMAIN told : Grounds(told, Cites(text), r) /\ s \in SourceSpans(told, r)
      BY DEF SourcesOf
    <3>2. PICK k \in tokens : r = to[k]
      BY <1>4
    <3>. QED
      BY <1>1, <3>1, <3>2
  <2>. QED
    BY <2>1, AnswerSpans DEF told
<1>7. {<<x.end, x.id>> : x \in chips} = ChipsMarked(text, to)
  <2>1. ASSUME NEW x \in chips
        PROVE  \E k \in tokens : \E c \in ChipFor(text, k) : <<x.end, x.id>> = <<EndAt(to[k]), c>>
    <3>1. PICK k \in tokens : x \in Behind(chips, to[k])
      BY <1>2
    <3>2. x.end = EndAt(to[k]) /\ x.id \in ChipFor(text, k)
      BY <1>1, <3>1 DEF Behind
    <3>. QED
      BY <3>2
  <2>2. ASSUME NEW k \in tokens, NEW c \in ChipFor(text, k)
        PROVE  \E x \in chips : <<EndAt(to[k]), c>> = <<x.end, x.id>>
    <3>1. PICK x \in Behind(chips, to[k]) : c = x.id
      BY <1>1
    <3>. QED
      BY <3>1 DEF Behind
  <2>. QED
    BY <2>1, <2>2 DEF ChipsMarked, tokens
<1>8. \A k \in tokens : \A c, d \in ChipFor(text, k) : c = d
  <2>. SUFFICES ASSUME NEW k \in tokens, NEW c \in ChipFor(text, k), NEW d \in ChipFor(text, k)
                PROVE  c = d
    OBVIOUS
  <2>1. PICK x \in Behind(chips, to[k]) : c = x.id
    BY <1>1
  <2>2. PICK y \in Behind(chips, to[k]) : d = y.id
    BY <1>1
  <2>. QED
    BY <1>1, <2>1, <2>2
<1>. QED
  BY <1>5, <1>6, <1>7, <1>8 DEF chips, tokens, told

\* What all of the text draws.
Whole(text) ==
  {<<x, Shown>> : x \in 0..(EndAt(Len(Told(text))) - 1)}
    \cup {<<x.end, x.id>> : x \in AllChips(Told(text), Answer(text).spans)}

\* So what draws all of it in order draws it as marked.
LEMMA WholeAsMarked ==
  ASSUME NEW S, NEW text \in Seq(S), ~Contended(text),
         NEW nodes \in Seq(Int \X Drawable), Rises(nodes), ToSet(nodes) = Whole(text)
  PROVE  nodes = AsMarked(text)
<1>1. PICK to : Keeps(text, Told(text), to)
  BY ParsedText DEF Told
<1>2. /\ {<<x.end, x.id>> : x \in AllChips(Told(text), Answer(text).spans)} = ChipsMarked(text, to)
      /\ \A k \in Tokens(text) : \A c, d \in ChipFor(text, k) : c = d
  BY <1>1, UncontendedChips
<1>3. /\ AsMarked(text) \in Seq(Int \X Drawable)
      /\ ToSet(AsMarked(text)) = {<<x, Shown>> : x \in 0..(EndAt(Len(Told(text))) - 1)}
                                   \cup ChipsMarked(text, to)
      /\ (\A k \in Tokens(text) : \A c, d \in ChipFor(text, k) : c = d) => Rises(AsMarked(text))
  BY <1>1, MarkedDrawn
<1>4. ToSet(AsMarked(text)) = Whole(text) /\ Rises(AsMarked(text))
  BY <1>2, <1>3 DEF Whole
<1>. QED
  BY <1>3, <1>4, RisesUniquely

\* A response has all the chips of its text in one piece.
LEMMA OnePiece ==
  ASSUME NEW S, NEW text \in Seq(S)
  PROVE  LET N == EndAt(Len(Told(text)))
             chips == AllChips(Told(text), Answer(text).spans)
         IN  /\ Pieced(chips, 0, N) = chips
             /\ Pieced(ToSet(Answer(text).spans), 0, N) = ToSet(Answer(text).spans)
             /\ Inside(chips, 0, N) = chips
<1>. DEFINE told == Told(text)
            N == EndAt(Len(told))
            chips == AllChips(told, Answer(text).spans)
            spans == ToSet(Answer(text).spans)
<1>1. /\ Len(told) \in Nat
      /\ \A x \in chips : /\ x = Span(x.start, x.end, x.id)
                          /\ \E r \in 1..Len(told) :
                               x.end = EndAt(r) /\ (x.start = HeadAt(r) \/ x.start = TailAt(r))
      /\ \A x \in spans : x \in chips
  BY ToldChips
<1>. HIDE DEF told, chips, spans
<1>2. ASSUME NEW x \in chips PROVE 0 < x.end /\ x.end <= N /\ At(x, 0) = x
  <2>1. PICK r \in 1..Len(told) : x.end = EndAt(r) /\ (x.start = HeadAt(r) \/ x.start = TailAt(r))
    BY <1>1
  <2>2. 0 < x.end /\ x.end <= N /\ x.end \in Int /\ x.start \in Int
    BY <1>1, <2>1 DEF HeadAt, TailAt, EndAt
  <2>3. x.start - 0 = x.start /\ x.end - 0 = x.end
    BY <2>2
  <2>4. At(x, 0) = x
    BY <1>1, <2>3 DEF At
  <2>. QED
    BY <2>2, <2>4
<1>. HIDE DEF N
<1>3. \A X \in SUBSET chips : Inside(X, 0, N) = X /\ Pieced(X, 0, N) = X
  <2>. SUFFICES ASSUME NEW X \in SUBSET chips PROVE Inside(X, 0, N) = X /\ Pieced(X, 0, N) = X
    OBVIOUS
  <2>1. Inside(X, 0, N) = X
    BY <1>2 DEF Inside
  <2>2. \A x \in X : At(x, 0) = x
    BY <1>2
  <2>3. {At(x, 0) : x \in X} = X
    BY <2>2
  <2>. QED
    BY <2>1, <2>3 DEF Pieced
<1>4. spans \in SUBSET chips /\ chips \in SUBSET chips
  BY <1>1
<1>. QED
  BY <1>3, <1>4 DEF told, chips, spans, N

\* A response is drawn as marked unless the text is contended; then two chips end where the
\* same text ends, and some node is drawn twice.
LEMMA ResponseDrawn ==
  ASSUME NEW S, NEW text \in Seq(S)
  PROVE  Contended(text) <=> RenderResponse(Answer(text)) # AsMarked(text)
<1>. DEFINE told == Told(text)
            spans == Answer(text).spans
            X == AllChips(told, spans)
            N == EndAt(Len(told))
            piece == [from |-> 0, to |-> N]
            nodes == RenderResponse(Answer(text))
            P == {spans[i] : i \in DOMAIN spans}
<1>1. PICK to : Keeps(text, told, to)
  BY ParsedText DEF Told
<1>2. /\ told \in Seq(S) /\ Answer(text).text = told /\ AreSpans(spans) /\ Len(told) \in Nat
      /\ \A x \in X : /\ x.id \in Ids \cup {Flag}
                      /\ \E r \in 1..Len(told) :
                           x.end = EndAt(r) /\ (x.start = HeadAt(r) \/ x.start = TailAt(r))
  BY ToldChips
<1>3. nodes = Render(told, spans, piece)
  BY <1>2 DEF RenderResponse
<1>4. Pieced(X, 0, N) = X /\ Pieced(ToSet(spans), 0, N) = ToSet(spans) /\ Inside(X, 0, N) = X
  BY OnePiece
<1>5. spans \in Seq(P)
  BY <1>2 DEF AreSpans
<1>6. N \in Nat /\ N \in Int /\ 0 \in Int /\ 0 <= N /\ N - 0 = N
  BY <1>2 DEF EndAt
<1>7. Begins(0)
  BY DEF Begins
<1>. HIDE DEF told, spans, X, N, nodes, P
<1>8. ASSUME ~Contended(text) PROVE nodes = AsMarked(text)
  <2>1. Apart(X) /\ IsInjective(spans)
    BY <1>1, <1>8, UncontendedChips DEF X, told, spans
  <2>2. /\ nodes \in Seq(Int \X Drawable) /\ Rises(nodes)
        /\ ToSet(nodes) = {<<x, Shown>> : x \in 0..(N - 0 - 1)}
             \cup {<<x.end - 0, x.id>> : x \in Inside(X, 0, N)}
    BY <1>2, <1>3, <1>4, <1>5, <1>6, <1>7, <2>1, PieceDrawn DEF X, Drawable
  <2>3. \A x \in X : x.end - 0 = x.end
    BY <1>2 DEF EndAt
  <2>4. {<<x.end - 0, x.id>> : x \in X} = {<<x.end, x.id>> : x \in X}
    BY <2>3
  <2>5. ToSet(nodes) = Whole(text)
    BY <1>4, <1>6, <2>2, <2>4 DEF Whole, N, X, told, spans
  <2>. QED
    BY <1>8, <2>2, <2>5, WholeAsMarked
<1>9. ASSUME Contended(text) PROVE nodes # AsMarked(text)
  <2>. DEFINE chips == Chips(told, spans, piece)
  <2>1. nodes = Draw(chips, N)
    BY <1>3, <1>6 DEF Render
  <2>2. chips \in Seq(X) /\ ToSet(chips) = X
    BY <1>2, <1>4, <1>5, <1>6, <1>7, ChipsOfPiece DEF X
  <2>. HIDE DEF chips
  <2>3. \A x \in X : x.start \in Int /\ x.end \in Int /\ x.start < x.end /\ x.id \in Drawable \ {Shown}
    <3>. SUFFICES ASSUME NEW x \in X
                  PROVE  x.start \in Int /\ x.end \in Int /\ x.start < x.end /\ x.id \in Drawable \ {Shown}
      OBVIOUS
    <3>1. PICK r \in 1..Len(told) : x.end = EndAt(r) /\ (x.start = HeadAt(r) \/ x.start = TailAt(r))
      BY <1>2
    <3>2. x.id \in Drawable \ {Shown}
      BY <1>2, CitationsAssumption DEF Drawable, Flag, Shown
    <3>. QED
      BY <1>2, <3>1, <3>2 DEF HeadAt, TailAt, EndAt
  <2>4. AreChips(chips, Drawable)
    <3>1. \A i \in DOMAIN chips : chips[i] \in X
      BY <2>2
    <3>2. chips \in Seq({chips[i] : i \in DOMAIN chips})
      BY <2>2
    <3>. QED
      BY <2>3, <3>1, <3>2 DEF AreChips
  <2>5. PICK x \in X, y \in X : x # y /\ x.end = y.end
    BY <1>1, <1>9, TwoChips DEF X, told, spans
  <2>6. PICK i \in DOMAIN chips : chips[i] = x
    BY <2>2 DEF ToSet
  <2>7. PICK k \in DOMAIN chips : chips[k] = y
    BY <2>2 DEF ToSet
  <2>8. Shown \in Drawable
    BY DEF Drawable
  <2>9. ~IsInjective(Draw(chips, N))
    BY <1>6, <2>3, <2>4, <2>5, <2>6, <2>7, <2>8, DrawnTwice
  <2>10. IsInjective(AsMarked(text))
    BY <1>1, MarkedDrawn DEF told
  <2>. QED
    BY <2>1, <2>9, <2>10
<1>. QED
  BY <1>8, <1>9 DEF nodes

-------------------------------------------------------------------------------
(* Briefings in two                                                            *)

\* A briefing is split where a token begins: the first of those that begin a sentence.
LEMMA SplitBegins ==
  ASSUME NEW S, NEW told \in Seq(S), SplitAt(told) # {}
  PROVE  \E k \in 1..Len(told) : Min(SplitAt(told)) = HeadAt(k)
<1>. DEFINE R == {k \in DOMAIN told : k > 1 /\ told[k].kind = "opening"}
<1>1. Len(told) \in Nat /\ DOMAIN told = 1..Len(told)
  OBVIOUS
<1>2. SplitAt(told) = {HeadAt(k) : k \in R}
  BY DEF SplitAt
<1>3. R \in SUBSET (1..Len(told)) /\ R # {}
  BY <1>1, <1>2
<1>. HIDE DEF R
<1>4. PICK k \in R : \A j \in R : k <= j
  BY <1>1, <1>3, FirstOf
<1>5. \A j \in R : HeadAt(k) <= HeadAt(j)
  BY <1>1, <1>3, <1>4 DEF HeadAt
<1>6. \E x \in SplitAt(told) : \A y \in SplitAt(told) : x <= y
  BY <1>2, <1>5
<1>7. Min(SplitAt(told)) \in SplitAt(told)
  BY <1>6 DEF Min
<1>. QED
  BY <1>2, <1>3, <1>7

LedeOf(spans, at) == Selected(spans, LAMBDA s : s.end <= at)

\* The spans of the lede, in their order.
LEMMA LedeSpans ==
  ASSUME NEW S, NEW spans \in Seq(S), IsInjective(spans), NEW at
  PROVE  /\ LedeOf(spans, at) \in Seq(S) /\ IsInjective(LedeOf(spans, at))
         /\ ToSet(LedeOf(spans, at)) = {s \in ToSet(spans) : s.end <= at}
<1>. DEFINE T == {s \in ToSet(spans) : s.end <= at}
<1>1. \A i \in DOMAIN spans : spans[i] \in T <=> spans[i].end <= at
  BY DEF ToSet
<1>2. LedeOf(spans, at) = Within(spans, T)
  <2>. HIDE DEF T
  <2>. QED
    BY <1>1 DEF LedeOf, Within, Selected
<1>3. {s \in ToSet(spans) : s \in T} = T
  OBVIOUS
<1>. HIDE DEF T
<1>4. /\ Within(spans, T) \in Seq(S) /\ IsInjective(Within(spans, T))
      /\ ToSet(Within(spans, T)) = {s \in ToSet(spans) : s \in T}
  BY SelectedOnce
<1>. QED
  BY <1>2, <1>3, <1>4 DEF T

LaterOf(spans, at) == Selected(spans, LAMBDA s : s.start >= at)

\* The spans of the rest, in their order.
LEMMA LaterSpans ==
  ASSUME NEW S, NEW spans \in Seq(S), IsInjective(spans), NEW at
  PROVE  /\ LaterOf(spans, at) \in Seq(S) /\ IsInjective(LaterOf(spans, at))
         /\ ToSet(LaterOf(spans, at)) = {s \in ToSet(spans) : s.start >= at}
<1>. DEFINE T == {s \in ToSet(spans) : s.start >= at}
<1>1. \A i \in DOMAIN spans : spans[i] \in T <=> spans[i].start >= at
  BY DEF ToSet
<1>2. LaterOf(spans, at) = Within(spans, T)
  <2>. HIDE DEF T
  <2>. QED
    BY <1>1 DEF LaterOf, Within, Selected
<1>3. {s \in ToSet(spans) : s \in T} = T
  OBVIOUS
<1>. HIDE DEF T
<1>4. /\ Within(spans, T) \in Seq(S) /\ IsInjective(Within(spans, T))
      /\ ToSet(Within(spans, T)) = {s \in ToSet(spans) : s \in T}
  BY SelectedOnce
<1>. QED
  BY <1>2, <1>3, <1>4 DEF T

\* Spans that end apart are still all there at a distance.
LEMMA SpansMoved ==
  ASSUME NEW S, NEW spans \in Seq(S), IsInjective(spans), NEW from \in Int,
         \A s \in ToSet(spans) : s.start \in Int /\ s.end \in Int,
         \A s, t \in ToSet(spans) : s.end = t.end => s = t
  PROVE  LET moved == MovedSpans(spans, -from)
         IN  /\ moved \in Seq({moved[i] : i \in DOMAIN moved}) /\ IsInjective(moved)
             /\ ToSet(moved) = {At(s, from) : s \in ToSet(spans)}
<1>. DEFINE moved == MovedSpans(spans, -from)
<1>1. \A i \in DOMAIN spans : spans[i] \in ToSet(spans)
  BY DEF ToSet
<1>2. DOMAIN spans = 1..Len(spans) /\ Len(spans) \in Nat
  OBVIOUS
<1>3. DOMAIN moved = DOMAIN spans /\ \A i \in DOMAIN spans : moved[i] = At(spans[i], from)
  <2>1. moved = [i \in DOMAIN spans |-> Span(spans[i].start + (-from), spans[i].end + (-from), spans[i].id)]
    BY DEF MovedSpans
  <2>2. \A i \in DOMAIN spans : /\ spans[i].start + (-from) = spans[i].start - from
                                /\ spans[i].end + (-from) = spans[i].end - from
    BY <1>1
  <2>. QED
    BY <2>1, <2>2 DEF At
<1>4. moved \in Seq({moved[i] : i \in DOMAIN moved})
  <2>1. moved = [i \in 1..Len(spans) |-> moved[i]]
    BY <1>2 DEF MovedSpans
  <2>. HIDE DEF moved
  <2>2. \A i \in 1..Len(spans) : moved[i] \in {moved[j] : j \in DOMAIN moved}
    BY <1>2, <1>3
  <2>. QED
    BY <1>2, <2>1, <2>2
<1>. HIDE DEF moved
<1>5. ToSet(moved) = {At(s, from) : s \in ToSet(spans)}
  BY <1>3 DEF ToSet
<1>6. IsInjective(moved)
  <2>. SUFFICES ASSUME NEW i \in DOMAIN spans, NEW k \in DOMAIN spans, moved[i] = moved[k] PROVE i = k
    BY <1>3 DEF IsInjective
  <2>1. spans[i].end - from = spans[k].end - from
    BY <1>3 DEF At, Span
  <2>2. spans[i].end = spans[k].end
    BY <1>1, <2>1
  <2>3. spans[i] = spans[k]
    BY <1>1, <2>2
  <2>. QED
    BY <2>3 DEF IsInjective
<1>. QED
  BY <1>4, <1>5, <1>6 DEF moved

\* What a piece draws at its place.
Placed(chips, from, to) ==
  {<<x, Shown>> : x \in from..(to - 1)} \cup {<<x.end, x.id>> : x \in Inside(chips, from, to)}

\* The pieces of a text, each drawn at its place, draw all of it as marked.
LEMMA PiecesJoined ==
  ASSUME NEW S, NEW text \in Seq(S), ~Contended(text), NEW at \in Int,
         0 <= at, at <= EndAt(Len(Told(text))),
         NEW s \in Seq(Int \X Drawable), Rises(s),
         NEW t \in Seq(Int \X Drawable), Rises(t),
         ToSet(s) = Placed(AllChips(Told(text), Answer(text).spans), 0, at),
         ToSet(t) = Placed(AllChips(Told(text), Answer(text).spans), at, EndAt(Len(Told(text))))
  PROVE  s \o t = AsMarked(text)
<1>. DEFINE told == Told(text)
            X == AllChips(told, Answer(text).spans)
            N == EndAt(Len(told))
<1>1. /\ Len(told) \in Nat
      /\ \A x \in X : /\ x.id \in Ids \cup {Flag}
                      /\ \E r \in 1..Len(told) :
                           x.end = EndAt(r) /\ (x.start = HeadAt(r) \/ x.start = TailAt(r))
  BY ToldChips
<1>2. N \in Int /\ at <= N
  BY <1>1 DEF EndAt
<1>. HIDE DEF told, X
<1>3. \A x \in X : x.end \in Int /\ 0 < x.end /\ x.end <= N /\ x.id # Shown
  <2>. SUFFICES ASSUME NEW x \in X PROVE x.end \in Int /\ 0 < x.end /\ x.end <= N /\ x.id # Shown
    OBVIOUS
  <2>1. PICK r \in 1..Len(told) : x.end = EndAt(r)
    BY <1>1
  <2>2. x.id # Shown
    BY <1>1, CitationsAssumption DEF Flag, Shown
  <2>. QED
    BY <1>1, <2>1, <2>2 DEF EndAt
<1>. HIDE DEF N
<1>4. ToSet(s) = Placed(X, 0, at) /\ ToSet(t) = Placed(X, at, N)
  BY DEF told, X, N
<1>5. \A x \in ToSet(s) : Key(x) \in Int /\ Key(x) <= 2 * at
  <2>. SUFFICES ASSUME NEW x \in ToSet(s) PROVE Key(x) \in Int /\ Key(x) <= 2 * at
    OBVIOUS
  <2>1. CASE \E z \in 0..(at - 1) : x = <<z, Shown>>
    BY <2>1 DEF Key
  <2>2. CASE \E c \in Inside(X, 0, at) : x = <<c.end, c.id>>
    <3>1. PICK c \in Inside(X, 0, at) : x = <<c.end, c.id>>
      BY <2>2
    <3>2. c.end \in Int /\ c.end <= at /\ c.id # Shown
      BY <1>3 DEF Inside
    <3>. QED
      BY <3>1, <3>2 DEF Key
  <2>. QED
    BY <1>4, <2>1, <2>2 DEF Placed
<1>6. \A x \in ToSet(t) : Key(x) \in Int /\ 2 * at < Key(x)
  <2>. SUFFICES ASSUME NEW x \in ToSet(t) PROVE Key(x) \in Int /\ 2 * at < Key(x)
    OBVIOUS
  <2>1. CASE \E z \in at..(N - 1) : x = <<z, Shown>>
    BY <1>2, <2>1 DEF Key
  <2>2. CASE \E c \in Inside(X, at, N) : x = <<c.end, c.id>>
    <3>1. PICK c \in Inside(X, at, N) : x = <<c.end, c.id>>
      BY <2>2
    <3>2. c.end \in Int /\ at < c.end /\ c.id # Shown
      BY <1>3 DEF Inside
    <3>. QED
      BY <3>1, <3>2 DEF Key
  <2>. QED
    BY <1>4, <2>1, <2>2 DEF Placed
<1>7. s \o t \in Seq(Int \X Drawable) /\ Rises(s \o t)
  <2>1. Precedes(s, t)
    <3>. SUFFICES ASSUME NEW x \in ToSet(s), NEW y \in ToSet(t) PROVE Key(x) < Key(y)
      BY DEF Precedes
    <3>. QED
      BY <1>5, <1>6
  <2>2. s \o t \in Seq(Int \X Drawable)
    BY JoinedOnce
  <2>. QED
    BY <2>1, <2>2, JoinRises
<1>8. ToSet(s \o t) = Placed(X, 0, at) \cup Placed(X, at, N)
  BY <1>4, JoinedOnce
<1>9. Placed(X, 0, at) \cup Placed(X, at, N)
        = {<<x, Shown>> : x \in 0..(N - 1)} \cup {<<x.end, x.id>> : x \in X}
  <2>1. \A x : x \in 0..(N - 1) <=> x \in 0..(at - 1) \/ x \in at..(N - 1)
    BY <1>2
  <2>2. \A x : x \in X <=> x \in Inside(X, 0, at) \/ x \in Inside(X, at, N)
    BY <1>2, <1>3 DEF Inside
  <2>. QED
    BY <2>1, <2>2 DEF Placed
<1>10. ToSet(s \o t) = Whole(text)
  BY <1>8, <1>9 DEF Whole, told, X, N
<1>. QED
  BY <1>7, <1>10, WholeAsMarked

\* Rendered in two pieces, a text that is not contended shows the same.
LEMMA BriefingDrawn ==
  ASSUME NEW S, NEW text \in Seq(S), ~Contended(text)
  PROVE  RenderBriefing(Answer(text)) = AsMarked(text)
<1>. DEFINE told == Told(text)
            spans == Answer(text).spans
            X == AllChips(told, spans)
            N == EndAt(Len(told))
            at == Min(SplitAt(told))
            lede == LedeOf(spans, at)
            later == LaterOf(spans, at)
            moved == MovedSpans(later, -at)
            first == Render(told, lede, [from |-> 0, to |-> at])
            rest == Render(told, moved, [from |-> at, to |-> N])
            P == {spans[i] : i \in DOMAIN spans}
<1>1. PICK to : Keeps(text, told, to)
  BY ParsedText DEF Told
<1>2. /\ told \in Seq(S) /\ Answer(text).text = told /\ AreSpans(spans) /\ Len(told) \in Nat
      /\ \A x \in X : /\ x = Span(x.start, x.end, x.id)
                      /\ \E r \in 1..Len(told) :
                           x.end = EndAt(r) /\ (x.start = HeadAt(r) \/ x.start = TailAt(r))
      /\ \A x \in ToSet(spans) : x \in X
  BY ToldChips
<1>3. Apart(X) /\ IsInjective(spans)
  BY <1>1, UncontendedChips
<1>4. RenderBriefing(Answer(text))
        = IF SplitAt(told) = {} THEN RenderResponse(Answer(text)) ELSE first \o Moved(rest, at)
  BY <1>2 DEF RenderBriefing, LedeOf, LaterOf
<1>. HIDE DEF told, spans, lede, later, moved, first, rest, P
<1>5. CASE SplitAt(told) = {}
  BY <1>4, <1>5, ResponseDrawn
<1>6. CASE SplitAt(told) # {}
  <2>1. PICK k \in 1..Len(told) : at = HeadAt(k)
    BY <1>2, <1>6, SplitBegins
  <2>. HIDE DEF at, X
  <2>2. /\ at \in Int /\ 0 <= at /\ at <= N /\ N \in Int /\ k \in Nat
        /\ Begins(0) /\ Begins(at)
    BY <1>2, <2>1 DEF HeadAt, EndAt, Begins
  <2>3. ASSUME NEW x \in X
        PROVE  /\ x.start \in Int /\ x.end \in Int /\ 0 < x.end /\ x.end <= N
               /\ x.start >= at <=> at < x.end
               /\ At(x, 0) = x
    <3>1. PICK r \in 1..Len(told) : x.end = EndAt(r) /\ (x.start = HeadAt(r) \/ x.start = TailAt(r))
      BY <1>2
    <3>2. r \in Int /\ 1 <= r /\ r <= Len(told) /\ k \in Int
      BY <1>2
    <3>3. x.start \in Int /\ x.end \in Int /\ 0 < x.end /\ x.end <= N
      BY <1>2, <3>1, <3>2 DEF HeadAt, TailAt, EndAt
    <3>4. x.start >= at <=> at < x.end
      BY <2>1, <3>1, <3>2 DEF HeadAt, TailAt, EndAt
    <3>5. At(x, 0) = x
      <4>1. x.start - 0 = x.start /\ x.end - 0 = x.end
        BY <3>3
      <4>. QED
        BY <1>2, <4>1 DEF At
    <3>. QED
      BY <3>3, <3>4, <3>5
  <2>. HIDE DEF N
  <2>4. spans \in Seq(P) /\ ToSet(spans) \subseteq X
    BY <1>2 DEF AreSpans, P
  \* The lede.
  <2>5. lede \in Seq(P) /\ IsInjective(lede) /\ ToSet(lede) = {s \in ToSet(spans) : s.end <= at}
    BY <1>3, <2>4, LedeSpans DEF lede
  <2>6. ToSet(lede) = Pieced(ToSet(spans), 0, at)
    <3>1. Inside(ToSet(spans), 0, at) = {s \in ToSet(spans) : s.end <= at}
      BY <2>3, <2>4 DEF Inside
    <3>2. \A x \in Inside(ToSet(spans), 0, at) : At(x, 0) = x
      BY <2>3, <2>4 DEF Inside
    <3>3. {At(x, 0) : x \in Inside(ToSet(spans), 0, at)} = Inside(ToSet(spans), 0, at)
      BY <3>2
    <3>. QED
      BY <2>5, <3>1, <3>3 DEF Pieced
  <2>7. /\ first \in Seq(Int \X Drawable) /\ Rises(first)
        /\ ToSet(first) = {<<x, Shown>> : x \in 0..(at - 0 - 1)}
             \cup {<<x.end - 0, x.id>> : x \in Inside(X, 0, at)}
    BY <1>2, <1>3, <2>2, <2>5, <2>6, PieceDrawn DEF X, first, Drawable
  <2>8. ToSet(first) = Placed(X, 0, at)
    <3>1. \A x \in Inside(X, 0, at) : x.end - 0 = x.end
      BY <2>3 DEF Inside
    <3>2. at - 0 - 1 = at - 1
      BY <2>2
    <3>3. {<<x.end - 0, x.id>> : x \in Inside(X, 0, at)} = {<<x.end, x.id>> : x \in Inside(X, 0, at)}
      BY <3>1
    <3>. QED
      BY <2>7, <3>2, <3>3 DEF Placed
  \* The rest.
  <2>9. later \in Seq(P) /\ IsInjective(later) /\ ToSet(later) = {s \in ToSet(spans) : s.start >= at}
    BY <1>3, <2>4, LaterSpans DEF later
  <2>10. /\ moved \in Seq({moved[i] : i \in DOMAIN moved}) /\ IsInjective(moved)
         /\ ToSet(moved) = {At(s, at) : s \in ToSet(later)}
    <3>1. \A s \in ToSet(later) : s \in X
      BY <2>4, <2>9
    <3>2. \A s \in ToSet(later) : s.start \in Int /\ s.end \in Int
      BY <2>3, <3>1
    <3>3. \A s, t \in ToSet(later) : s.end = t.end => s = t
      BY <1>3, <3>1 DEF Apart
    <3>. QED
      BY <2>2, <2>9, <3>2, <3>3, SpansMoved DEF moved
  <2>11. ToSet(moved) = Pieced(ToSet(spans), at, N)
    <3>1. Inside(ToSet(spans), at, N) = {s \in ToSet(spans) : s.start >= at}
      BY <2>3, <2>4 DEF Inside
    <3>. QED
      BY <2>9, <2>10, <3>1 DEF Pieced
  <2>12. /\ rest \in Seq(Int \X Drawable) /\ Rises(rest)
         /\ ToSet(rest) = {<<x, Shown>> : x \in 0..(N - at - 1)}
              \cup {<<x.end - at, x.id>> : x \in Inside(X, at, N)}
    <3>. DEFINE M == {moved[i] : i \in DOMAIN moved}
    <3>1. moved \in Seq(M)
      BY <2>10
    <3>. HIDE DEF M
    <3>. QED
      BY <1>2, <1>3, <2>2, <2>10, <2>11, <3>1, PieceDrawn DEF X, rest, Drawable
  <2>13. /\ Moved(rest, at) \in Seq(Int \X Drawable) /\ Rises(Moved(rest, at))
         /\ ToSet(Moved(rest, at)) = AtDistance(ToSet(rest), at)
    <3>1. rest \in Seq(Int \X Drawable) /\ Rises(rest) /\ at \in Int
      BY <2>2, <2>12
    <3>2. Moved(rest, at) \in Seq(Int \X Drawable)
      BY <3>1, MovedRises
    <3>3. Rises(Moved(rest, at))
      BY <3>1, MovedRises
    <3>4. ToSet(Moved(rest, at)) = AtDistance(ToSet(rest), at)
      BY <3>1, MovedRises
    <3>. QED
      BY <3>2, <3>3, <3>4
  <2>14. ToSet(Moved(rest, at)) = Placed(X, at, N)
    <3>. DEFINE plain == {<<x, Shown>> : x \in 0..(N - at - 1)}
                chips == {<<x.end - at, x.id>> : x \in Inside(X, at, N)}
    <3>1. {<<x[1] + at, x[2]>> : x \in plain} = {<<x, Shown>> : x \in at..(N - 1)}
      <4>1. \A x \in 0..(N - at - 1) : x + at \in at..(N - 1)
        BY <2>2
      <4>2. \A x \in at..(N - 1) : x - at \in 0..(N - at - 1) /\ (x - at) + at = x
        BY <2>2
      <4>3. \A x \in plain : <<x[1] + at, x[2]>> \in {<<z, Shown>> : z \in at..(N - 1)}
        BY <4>1
      <4>4. ASSUME NEW z \in at..(N - 1) PROVE <<z, Shown>> \in {<<x[1] + at, x[2]>> : x \in plain}
        <5>1. <<z - at, Shown>> \in plain
          BY <4>2
        <5>2. <<<<z - at, Shown>>[1] + at, <<z - at, Shown>>[2]>> = <<z, Shown>>
          BY <4>2
        <5>. HIDE DEF plain
        <5>. QED
          BY <5>1, <5>2
      <4>. QED
        BY <4>3, <4>4
    <3>2. {<<x[1] + at, x[2]>> : x \in chips} = {<<x.end, x.id>> : x \in Inside(X, at, N)}
      <4>1. \A x \in Inside(X, at, N) : (x.end - at) + at = x.end
        BY <2>2, <2>3 DEF Inside
      <4>2. \A x \in chips : <<x[1] + at, x[2]>> \in {<<c.end, c.id>> : c \in Inside(X, at, N)}
        BY <4>1
      <4>3. ASSUME NEW c \in Inside(X, at, N)
            PROVE  <<c.end, c.id>> \in {<<x[1] + at, x[2]>> : x \in chips}
        <5>1. <<c.end - at, c.id>> \in chips
          OBVIOUS
        <5>2. <<<<c.end - at, c.id>>[1] + at, <<c.end - at, c.id>>[2]>> = <<c.end, c.id>>
          BY <4>1
        <5>. HIDE DEF chips
        <5>. QED
          BY <5>1, <5>2
      <4>. QED
        BY <4>2, <4>3
    <3>3. ToSet(rest) = plain \cup chips
      BY <2>12
    <3>. HIDE DEF plain, chips
    <3>4. AtDistance(plain \cup chips, at)
            = {<<x[1] + at, x[2]>> : x \in plain} \cup {<<x[1] + at, x[2]>> : x \in chips}
      BY DEF AtDistance
    <3>. QED
      BY <2>13, <3>1, <3>2, <3>3, <3>4 DEF Placed
  <2>. QED
    BY <1>4, <1>6, <2>2, <2>7, <2>8, <2>13, <2>14, PiecesJoined DEF X, N, told, spans
<1>. QED
  BY <1>5, <1>6

\* A text is shown as its author meant it, in one piece or split, unless it is contended;
\* a contended text never is (backend/app/chat/citations.py marks and grounds it,
\* frontend/src/conversation/citationRenderer.tsx draws it).
THEOREM AnswerDrawn ==
  ASSUME NEW S, NEW text \in Seq(S)
  PROVE  /\ Contended(text) <=> RenderResponse(Answer(text)) # AsMarked(text)
         /\ ~Contended(text) => RenderBriefing(Answer(text)) = AsMarked(text)
BY ResponseDrawn, BriefingDrawn
===============================================================================
