---------------------------- MODULE GatesProofs ----------------------------
(***************************************************************************)
(* For any tree and any declaration: a forbidden import that importrules     *)
(* reports comes with a shortest way a command reaches it; and the gates that *)
(* hold what they read against a list or a rule are silent exactly when the   *)
(* two agree; what testreach finds nothing in keeps what it reaches outside to *)
(* the marked tests; the floors are cleared by what clears them; and a         *)
(* formatting settles.                                                         *)
(***************************************************************************)
EXTENDS Gates, FiniteSetTheorems, SequenceTheorems, WellFoundedInduction, TLAPS

-----------------------------------------------------------------------------
(* Counting from zero                                                        *)

\* What holds of zero, and of a number's successor when it holds of the number,
\* holds of every number: there is no least one it does not hold of.
LEMMA FromZero ==
    ASSUME NEW T \in SUBSET Nat, 0 \in T, \A n \in T : n + 1 \in T
    PROVE  T = Nat
<1> DEFINE R == OpToRel(<, Nat)
<1>1. IsWellFoundedOn(R, Nat)
    BY NatLessThanWellFounded, Zenon
<1>2. \A x, y \in Nat : y < x => <<y, x>> \in R
    BY Zenon DEF OpToRel
<1> HIDE DEF R
<1> SUFFICES ASSUME Nat \ T # {}
             PROVE  FALSE
    OBVIOUS
<1>3. PICK x \in Nat \ T : \A y \in Nat \ T : <<y, x>> \notin R
    <2>1. Nat \ T \in SUBSET Nat
        OBVIOUS
    <2>2. QED
        BY <1>1, <2>1, WFMin
<1>4. x # 0 /\ x - 1 \in Nat
    BY <1>3
<1>5. x - 1 < x /\ x \in Nat /\ (\A y \in Nat \ T : ~(y < x))
    <2>1. \A y \in Nat \ T : ~(y < x)
        BY <1>2, <1>3, Zenon
    <2>2. QED
        BY <1>4, <2>1
<1>6. QED
    <2>1. x - 1 \in T
        BY <1>4, <1>5
    <2>2. (x - 1) + 1 \in T /\ (x - 1) + 1 = x
        BY <1>5, <2>1
    <2>3. QED
        BY <1>3, <2>2

\* What comes of taking the step F again and again from x.
Repeats(f, S, F, x) == f \in [Nat -> S] /\ f[0] = x /\ \A n \in Nat : f[n + 1] = F[f[n]]

\* Taking a step again and again is a function of how often.
LEMMA Iterated ==
    ASSUME NEW S, NEW F, F \in [S -> S], NEW x, x \in S
    PROVE  \E f : Repeats(f, S, F, x)
<1> DEFINE Upto(f, n) == f \in [0 .. n -> S] /\ f[0] = x /\ \A k \in 0 .. n : k < n => f[k + 1] = F[f[k]]
           T == {n \in Nat : \E f : Upto(f, n)}
           up(n) == CHOOSE f : Upto(f, n)
           g == [n \in Nat |-> up(n)[n]]
<1>1. 0 \in T
    <2>1. Upto([k \in 0 .. 0 |-> x], 0)
        OBVIOUS
    <2>2. QED
        BY <2>1
<1>2. ASSUME NEW n \in T
      PROVE  n + 1 \in T
    <2>1. PICK f : Upto(f, n)
        BY <1>2
    <2> DEFINE h == [k \in 0 .. n + 1 |-> IF k <= n THEN f[k] ELSE F[f[n]]]
    <2>2. n \in Nat /\ f[n] \in S
        BY <2>1
    <2>3. h \in [0 .. n + 1 -> S] /\ h[0] = x
        BY <2>1, <2>2
    <2>4. ASSUME NEW k \in 0 .. n + 1, k < n + 1
          PROVE  h[k + 1] = F[h[k]]
        BY <2>1, <2>2, <2>4
    <2>5. Upto(h, n + 1)
        BY <2>3, <2>4
    <2>6. QED
        BY <2>2, <2>5
<1>3. T = Nat
    BY <1>1, <1>2, FromZero
<1>4. ASSUME NEW n \in Nat, NEW m \in Nat, NEW f, NEW h, Upto(f, n), Upto(h, m), n <= m
      PROVE  \A k \in 0 .. n : f[k] = h[k]
    <2> DEFINE A == {k \in Nat : k <= n => f[k] = h[k]}
    <2>1. 0 \in A
        BY <1>4
    <2>2. ASSUME NEW k \in A
          PROVE  k + 1 \in A
        BY <1>4, <2>2
    <2>3. A = Nat
        BY <2>1, <2>2, FromZero
    <2>4. QED
        BY <2>3
<1>5. \A n \in Nat : Upto(up(n), n)
    BY <1>3
<1> HIDE DEF up
<1>6. g \in [Nat -> S] /\ g[0] = x
    BY <1>5
<1>7. ASSUME NEW n \in Nat
      PROVE  g[n + 1] = F[g[n]]
    <2>1. up(n + 1)[n + 1] = F[up(n + 1)[n]]
        BY <1>5
    <2>2. up(n)[n] = up(n + 1)[n]
        <3>1. Upto(up(n), n) /\ Upto(up(n + 1), n + 1) /\ n + 1 \in Nat /\ n <= n + 1 /\ n \in 0 .. n
            BY <1>5
        <3> HIDE DEF Upto
        <3>2. QED
            BY <1>4, <3>1
    <2>3. QED
        BY <2>1, <2>2
<1>8. Repeats(g, S, F, x)
    BY <1>6, <1>7, Zenon DEF Repeats
<1> QED
    BY <1>8

-----------------------------------------------------------------------------
(* Sequences without repetition                                              *)

\* What is put behind a sequence is added to what it has.
LEMMA Joined ==
    ASSUME NEW S, NEW s \in Seq(S), NEW t \in Seq(S)
    PROVE  /\ s \o t \in Seq(S)
           /\ ToSet(s \o t) = ToSet(s) \cup ToSet(t)
           /\ IsInjective(s) /\ IsInjective(t) /\ ToSet(s) \cap ToSet(t) = {} => IsInjective(s \o t)
<1>1. s \o t \in Seq(S) /\ Len(s \o t) = Len(s) + Len(t)
    OBVIOUS
<1>2. \A i \in 1 .. Len(s) + Len(t) : (s \o t)[i] = IF i <= Len(s) THEN s[i] ELSE t[i - Len(s)]
    OBVIOUS
<1>3. DOMAIN s = 1 .. Len(s) /\ DOMAIN t = 1 .. Len(t) /\ DOMAIN (s \o t) = 1 .. Len(s) + Len(t)
      /\ Len(s) \in Nat /\ Len(t) \in Nat
    BY <1>1
<1> DEFINE st == s \o t
<1> HIDE DEF st
<1>4. ASSUME NEW i \in 1 .. Len(t)
      PROVE  i + Len(s) \in 1 .. Len(s) + Len(t) /\ ~(i + Len(s) <= Len(s)) /\ (i + Len(s)) - Len(s) = i
    BY <1>3
<1>5. \A i \in 1 .. Len(t) : st[i + Len(s)] = t[i]
    BY <1>2, <1>4 DEF st
<1>6. \A i \in 1 .. Len(s) : st[i] = s[i] /\ i \in 1 .. Len(s) + Len(t)
    BY <1>2, <1>3 DEF st
<1>7. \A i \in 1 .. Len(s) + Len(t) : i \in 1 .. Len(s) \/ (i - Len(s) \in 1 .. Len(t) /\ (i - Len(s)) + Len(s) = i)
    BY <1>3
<1>8. DOMAIN st = 1 .. Len(s) + Len(t)
    BY <1>3 DEF st
<1>9. ToSet(st) = ToSet(s) \cup ToSet(t)
    <2>1. ASSUME NEW e \in ToSet(st)
          PROVE  e \in ToSet(s) \cup ToSet(t)
        <3>1. PICK i \in 1 .. Len(s) + Len(t) : e = st[i]
            BY <1>8, <2>1 DEF ToSet
        <3>2. QED
            BY <1>3, <1>5, <1>6, <1>7, <3>1 DEF ToSet
    <2>2. ASSUME NEW e \in ToSet(s)
          PROVE  e \in ToSet(st)
        BY <1>3, <1>6, <1>8, <2>2 DEF ToSet
    <2>3. ASSUME NEW e \in ToSet(t)
          PROVE  e \in ToSet(st)
        BY <1>3, <1>4, <1>5, <1>8, <2>3 DEF ToSet
    <2>4. QED
        BY <2>1, <2>2, <2>3
<1>10. ASSUME IsInjective(s), IsInjective(t), ToSet(s) \cap ToSet(t) = {}
       PROVE  IsInjective(st)
    <2>1. ASSUME NEW i \in 1 .. Len(s) + Len(t), NEW j \in 1 .. Len(s) + Len(t), st[i] = st[j]
          PROVE  i = j
        <3>1. CASE i \in 1 .. Len(s) /\ j \in 1 .. Len(s)
            BY <1>3, <1>6, <1>10, <2>1, <3>1 DEF IsInjective
        <3>2. CASE i \in 1 .. Len(s) /\ j \notin 1 .. Len(s)
            <4>1. st[i] = s[i] /\ s[i] \in ToSet(s)
                BY <1>3, <1>6, <3>2 DEF ToSet
            <4>2. st[j] = t[j - Len(s)] /\ t[j - Len(s)] \in ToSet(t)
                BY <1>3, <1>5, <1>7, <3>2 DEF ToSet
            <4>3. QED
                BY <1>10, <2>1, <4>1, <4>2
        <3>3. CASE i \notin 1 .. Len(s) /\ j \in 1 .. Len(s)
            <4>1. st[j] = s[j] /\ s[j] \in ToSet(s)
                BY <1>3, <1>6, <3>3 DEF ToSet
            <4>2. st[i] = t[i - Len(s)] /\ t[i - Len(s)] \in ToSet(t)
                BY <1>3, <1>5, <1>7, <3>3 DEF ToSet
            <4>3. QED
                BY <1>10, <2>1, <4>1, <4>2
        <3>4. CASE i \notin 1 .. Len(s) /\ j \notin 1 .. Len(s)
            <4>1. i - Len(s) \in DOMAIN t /\ j - Len(s) \in DOMAIN t /\ t[i - Len(s)] = t[j - Len(s)]
                BY <1>3, <1>5, <1>7, <2>1, <3>4
            <4>2. i - Len(s) = j - Len(s)
                BY <1>10, <4>1 DEF IsInjective
            <4>3. QED
                BY <1>3, <4>2
        <3>5. QED
            BY <3>1, <3>2, <3>3, <3>4
    <2>2. QED
        BY <1>8, <2>1 DEF IsInjective
<1> QED
    BY <1>1, <1>9, <1>10 DEF st

\* What is left of a queue is all but its head.
LEMMA Left ==
    ASSUME NEW S, NEW s \in Seq(S), s # <<>>, IsInjective(s)
    PROVE  /\ Head(s) \in ToSet(s) /\ Head(s) = s[1]
           /\ Tail(s) \in Seq(S)
           /\ ToSet(Tail(s)) = ToSet(s) \ {Head(s)}
           /\ IsInjective(Tail(s))
<1>1. /\ Tail(s) \in Seq(S) /\ Len(Tail(s)) = Len(s) - 1 /\ Len(s) \in Nat \ {0}
      /\ \A i \in 1 .. Len(s) - 1 : Tail(s)[i] = s[i + 1]
    OBVIOUS
<1> DEFINE t == Tail(s)
<1>2. /\ DOMAIN s = 1 .. Len(s) /\ DOMAIN t = 1 .. Len(s) - 1 /\ Head(s) = s[1] /\ 1 \in 1 .. Len(s)
      /\ \A i \in 1 .. Len(s) - 1 : t[i] = s[i + 1] /\ i + 1 \in 1 .. Len(s)
    BY <1>1
<1> HIDE DEF t
<1>3. Head(s) \in ToSet(s)
    BY <1>2 DEF ToSet
<1>4. \A i, j \in 1 .. Len(s) : s[i] = s[j] => i = j
    BY <1>2 DEF IsInjective
<1>5. IsInjective(t)
    <2>1. ASSUME NEW i \in 1 .. Len(s) - 1, NEW j \in 1 .. Len(s) - 1, t[i] = t[j]
          PROVE  i = j
        BY <1>1, <1>2, <1>4, <2>1
    <2>2. QED
        BY <1>2, <2>1 DEF IsInjective
<1>6. ToSet(t) = ToSet(s) \ {Head(s)}
    <2>1. ASSUME NEW e \in ToSet(t)
          PROVE  e \in ToSet(s) /\ e # Head(s)
        <3>1. PICK i \in 1 .. Len(s) - 1 : e = t[i]
            BY <1>2, <2>1 DEF ToSet
        <3>2. e = s[i + 1] /\ i + 1 \in 1 .. Len(s) /\ i + 1 # 1
            BY <1>1, <1>2, <3>1
        <3>3. QED
            BY <1>2, <1>4, <3>2 DEF ToSet
    <2>2. ASSUME NEW e \in ToSet(s), e # Head(s)
          PROVE  e \in ToSet(t)
        <3>1. PICK i \in 1 .. Len(s) : e = s[i]
            BY <1>2, <2>2 DEF ToSet
        <3>2. i # 1
            BY <1>2, <2>2, <3>1
        <3>3. i - 1 \in 1 .. Len(s) - 1 /\ t[i - 1] = s[i]
            BY <1>1, <1>2, <3>2
        <3>4. QED
            BY <1>2, <3>1, <3>3 DEF ToSet
    <2>3. QED
        BY <2>1, <2>2
<1> QED
    BY <1>1, <1>2, <1>3, <1>5, <1>6 DEF t

\* What FlattenSeq is computed by, along any prefix.
Flattens(g, seqs, n) ==
    g = [i \in 1 .. n |-> IF i = 1 THEN seqs[i] ELSE g[i - 1] \o seqs[i]]

\* There is such a function, however long the sequence.
LEMMA Flattened ==
    ASSUME NEW seqs
    PROVE  \A n \in Nat : \E g : Flattens(g, seqs, n)
<1> DEFINE T == {m \in Nat : \E g : Flattens(g, seqs, m)}
<1>1. 0 \in T
    <2> DEFINE g == [i \in 1 .. 0 |-> seqs[i]]
    <2>1. Flattens(g, seqs, 0)
        BY DEF Flattens
    <2>2. QED
        BY <2>1
<1>2. ASSUME NEW m \in T
      PROVE  m + 1 \in T
    <2>1. PICK g : Flattens(g, seqs, m)
        BY <1>2
    <2> DEFINE h == [i \in 1 .. m + 1 |-> IF i < m + 1 THEN g[i]
                                          ELSE IF i = 1 THEN seqs[i] ELSE g[i - 1] \o seqs[i]]
    <2>2. \A i \in 1 .. m : g[i] = IF i = 1 THEN seqs[i] ELSE g[i - 1] \o seqs[i]
        BY <2>1, Zenon DEF Flattens
    <2>3. ASSUME NEW i \in 1 .. m + 1
          PROVE  h[i] = IF i = 1 THEN seqs[i] ELSE h[i - 1] \o seqs[i]
        BY <1>2, <2>2
    <2>4. h = [i \in 1 .. m + 1 |-> h[i]]
        OBVIOUS
    <2> HIDE DEF h
    <2>5. Flattens(h, seqs, m + 1)
        BY <2>3, <2>4 DEF Flattens
    <2>6. QED
        BY <1>2, <2>5
<1>3. T = Nat
    BY <1>1, <1>2, FromZero
<1> QED
    BY <1>3

\* The packages in the order of their names: each of them once, and no other.
LEMMA Ordered ==
    ASSUME NEW P \in SUBSET Names
    PROVE  InOrder(P) \in Seq(Names) /\ ToSet(InOrder(P)) = P /\ IsInjective(InOrder(P))
<1> DEFINE n == Len(ByName)
           seqs == [k \in DOMAIN ByName |-> IF ByName[k] \in P THEN <<ByName[k]>> ELSE <<>>]
<1>1. /\ n \in Nat /\ DOMAIN ByName = 1 .. n /\ ByName \in [1 .. n -> Names]
      /\ \A i, j \in 1 .. n : ByName[i] = ByName[j] => i = j
    BY ByNameAssumption DEF IsInjective
<1>2. Names = {ByName[i] : i \in 1 .. n}
    BY <1>1 DEF Names, ToSet
<1>3. DOMAIN seqs = 1 .. n /\ Len(seqs) = n
    BY <1>1
<1>4. ASSUME NEW i \in 1 .. n
      PROVE  /\ seqs[i] \in Seq(Names) /\ IsInjective(seqs[i])
             /\ ToSet(seqs[i]) = P \cap {ByName[i]}
    <2>1. CASE ByName[i] \in P
        <3>1. seqs[i] = <<ByName[i]>> /\ ByName[i] \in Names
            BY <1>1, <2>1
        <3> DEFINE s == <<ByName[i]>>
        <3>2. s \in Seq(Names) /\ DOMAIN s = {1} /\ s[1] = ByName[i]
            BY <3>1
        <3> HIDE DEF s
        <3>3. ToSet(s) = {ByName[i]} /\ IsInjective(s)
            BY <3>2 DEF ToSet, IsInjective
        <3>4. QED
            BY <2>1, <3>1, <3>2, <3>3 DEF s
    <2>2. CASE ByName[i] \notin P
        <3>1. seqs[i] = <<>>
            BY <1>1, <2>2
        <3>2. QED
            BY <2>2, <3>1 DEF ToSet, IsInjective
    <2>3. QED
        BY <2>1, <2>2
<1> HIDE DEF seqs
<1>5. CASE n = 0
    <2>1. InOrder(P) = seqs
        BY <1>3, <1>5 DEF InOrder, FlattenSeq, seqs
    <2>2. seqs \in Seq(Names) /\ ToSet(seqs) = {} /\ IsInjective(seqs) /\ Names = {}
        BY <1>2, <1>3, <1>5 DEF ToSet, IsInjective, seqs
    <2>3. QED
        BY <2>1, <2>2
<1>6. CASE n # 0
    <2> DEFINE g == CHOOSE g : Flattens(g, seqs, n)
               Fits(i) == /\ g[i] \in Seq(Names) /\ IsInjective(g[i])
                          /\ ToSet(g[i]) = P \cap {ByName[j] : j \in 1 .. i}
               T == {m \in Nat : m + 1 <= n => Fits(m + 1)}
    <2>1. Flattens(g, seqs, n)
        BY <1>1, Flattened, Zenon
    <2>2. InOrder(P) = g[n]
        BY <1>3, <1>6, Zenon DEF InOrder, FlattenSeq, Flattens, seqs
    <2> HIDE DEF g
    <2>3. \A i \in 1 .. n : g[i] = IF i = 1 THEN seqs[i] ELSE g[i - 1] \o seqs[i]
        BY <2>1, Zenon DEF Flattens
    <2>4. 0 \in T
        <3>1. {ByName[j] : j \in 1 .. 1} = {ByName[1]}
            BY <1>1
        <3>2. 1 \in 1 .. n /\ g[1] = seqs[1]
            BY <1>1, <1>6, <2>3
        <3>3. Fits(1)
            BY <1>4, <3>1, <3>2
        <3> HIDE DEF Fits
        <3>4. 0 + 1 = 1 /\ 0 \in Nat
            OBVIOUS
        <3>5. QED
            BY <3>3, <3>4
    <2>5. ASSUME NEW m \in T
          PROVE  m + 1 \in T
        <3> SUFFICES ASSUME m + 2 <= n
                     PROVE  Fits(m + 2)
            BY <2>5
        <3>1. m \in Nat /\ Fits(m + 1) /\ m + 2 \in 1 .. n /\ m + 2 # 1 /\ (m + 2) - 1 = m + 1
            BY <2>5
        <3>2. g[m + 2] = g[m + 1] \o seqs[m + 2]
            BY <2>3, <3>1
        <3>3. seqs[m + 2] \in Seq(Names) /\ IsInjective(seqs[m + 2]) /\ ToSet(seqs[m + 2]) = P \cap {ByName[m + 2]}
            BY <1>4, <3>1
        <3>4. ByName[m + 2] \notin {ByName[j] : j \in 1 .. m + 1}
            BY <1>1, <3>1
        <3>5. {ByName[j] : j \in 1 .. m + 2} = {ByName[j] : j \in 1 .. m + 1} \cup {ByName[m + 2]}
            BY <1>1, <3>1
        <3> DEFINE a == g[m + 1]
                   b == seqs[m + 2]
        <3>6. a \in Seq(Names) /\ IsInjective(a) /\ ToSet(a) = P \cap {ByName[j] : j \in 1 .. m + 1}
            BY <3>1
        <3>7. b \in Seq(Names) /\ IsInjective(b) /\ ToSet(b) = P \cap {ByName[m + 2]}
            BY <3>3
        <3> HIDE DEF a, b
        <3>8. ToSet(a) \cap ToSet(b) = {}
            BY <3>4, <3>6, <3>7
        <3>9. a \o b \in Seq(Names) /\ IsInjective(a \o b) /\ ToSet(a \o b) = ToSet(a) \cup ToSet(b)
            BY <3>6, <3>7, <3>8, Joined
        <3>10. ToSet(a \o b) = P \cap {ByName[j] : j \in 1 .. m + 2}
            BY <3>5, <3>6, <3>7, <3>9
        <3>11. g[m + 2] = a \o b
            BY <3>2 DEF a, b
        <3>12. QED
            BY <3>9, <3>10, <3>11
    <2>6. T = Nat
        BY <2>4, <2>5, FromZero
    <2>7. n - 1 \in Nat /\ (n - 1) + 1 = n /\ n <= n
        BY <1>1, <1>6
    <2>8. Fits(n)
        <3>1. n - 1 \in T
            BY <2>6, <2>7
        <3>2. QED
            BY <2>7, <3>1
    <2>9. P \cap {ByName[j] : j \in 1 .. n} = P
        BY <1>2
    <2>10. QED
        BY <2>2, <2>8, <2>9
<1> QED
    BY <1>5, <1>6

-----------------------------------------------------------------------------
(* The search                                                                *)

\* What ships imports packages of the module.
Inward(graph) == \A p : Shipped(graph, p) \subseteq Names

Starts(graph) == Commands \cap graph.packages

\* What is to be followed has been seen, and is to be followed once.
States == {s \in [queue : Seq(Names), chains : UNION {[D -> Seq(Names)] : D \in SUBSET Names}] :
              ToSet(s.queue) \subseteq DOMAIN s.chains /\ IsInjective(s.queue)}

\* The search begins with the commands.
LEMMA RootsFit ==
    ASSUME NEW graph
    PROVE  /\ Roots(graph) \in States
           /\ DOMAIN Roots(graph).chains = Starts(graph)
           /\ ToSet(Roots(graph).queue) = Starts(graph)
           /\ \A p \in Starts(graph) : Roots(graph).chains[p] = <<p>>
<1> DEFINE q == InOrder(Starts(graph))
           c == [p \in Starts(graph) |-> <<p>>]
<1>1. Starts(graph) \in SUBSET Names
    BY CommandsAssumption DEF Starts
<1>2. q \in Seq(Names) /\ ToSet(q) = Starts(graph) /\ IsInjective(q)
    BY <1>1, Ordered
<1>3. c \in [Starts(graph) -> Seq(Names)]
    BY <1>1
<1>4. DOMAIN c = Starts(graph) /\ \A p \in Starts(graph) : c[p] = <<p>>
    OBVIOUS
<1>5. Roots(graph) = [queue |-> q, chains |-> c]
    BY DEF Roots, Starts
<1> HIDE DEF q, c
<1>6. c \in UNION {[D -> Seq(Names)] : D \in SUBSET Names}
    BY <1>1, <1>3
<1> QED
    BY <1>2, <1>4, <1>5, <1>6 DEF States

\* What following the head of the queue does: what it ships to and nobody had
\* seen is put behind, each with the head's chain and itself.
LEMMA Visited ==
    ASSUME NEW graph, Inward(graph), NEW s \in States, s.queue # <<>>,
           NEW h, h = Head(s.queue), NEW new, new = New(graph, s), NEW t, t = Visit(graph, s)
    PROVE  /\ t \in States
           /\ h = s.queue[1] /\ h \in ToSet(s.queue) /\ h \in Names
           /\ new \in SUBSET Names /\ new = Shipped(graph, h) \ DOMAIN s.chains
           /\ DOMAIN t.chains = DOMAIN s.chains \cup new
           /\ \A p \in DOMAIN s.chains : t.chains[p] = s.chains[p]
           /\ \A p \in new : t.chains[p] = Append(s.chains[h], p)
           /\ ToSet(t.queue) = (ToSet(s.queue) \ {h}) \cup new
           /\ \A i \in DOMAIN t.queue :
                 IF i < Len(s.queue) THEN i + 1 \in DOMAIN s.queue /\ t.queue[i] = s.queue[i + 1]
                 ELSE t.queue[i] \in new
<1> DEFINE q == s.queue
           c == s.chains
           a == Tail(q)
           b == InOrder(new)
<1>1. q \in Seq(Names) /\ IsInjective(q) /\ ToSet(q) \subseteq DOMAIN c /\ q # <<>>
    BY DEF States
<1>2. PICK D \in SUBSET Names : c \in [D -> Seq(Names)]
    BY DEF States
<1>3. new \in SUBSET Names /\ new = Shipped(graph, h) \ DOMAIN c
    BY DEF Inward, New
<1> DEFINE d == [p \in DOMAIN c \cup new |-> IF p \in DOMAIN c THEN c[p] ELSE Append(c[h], p)]
<1>4. t = [queue |-> a \o b, chains |-> d]
    BY DEF Visit, Seen
<1> HIDE DEF q, c, a, b
<1>5. /\ h \in ToSet(q) /\ h = q[1] /\ a \in Seq(Names) /\ ToSet(a) = ToSet(q) \ {h} /\ IsInjective(a)
    BY <1>1, Left DEF q, a
<1>6. b \in Seq(Names) /\ ToSet(b) = new /\ IsInjective(b)
    BY <1>3, Ordered DEF b
<1>7. /\ a \o b \in Seq(Names) /\ ToSet(a \o b) = (ToSet(q) \ {h}) \cup new
      /\ IsInjective(a \o b)
    <2>1. ToSet(a) \cap ToSet(b) = {}
        BY <1>1, <1>3, <1>5, <1>6
    <2>2. QED
        BY <1>5, <1>6, <2>1, Joined
<1>8. h \in D /\ DOMAIN c = D /\ c[h] \in Seq(Names)
    BY <1>1, <1>2, <1>5
<1>9. d \in [D \cup new -> Seq(Names)] /\ DOMAIN d = D \cup new
    BY <1>2, <1>3, <1>8
<1>10. /\ \A p \in DOMAIN c : d[p] = c[p]
       /\ \A p \in new : d[p] = Append(c[h], p)
    BY <1>3
<1>11. ASSUME NEW i \in DOMAIN (a \o b)
       PROVE  IF i < Len(q) THEN i + 1 \in DOMAIN q /\ (a \o b)[i] = q[i + 1] ELSE (a \o b)[i] \in new
    <2>1. /\ Len(a) = Len(q) - 1 /\ Len(q) \in Nat \ {0} /\ Len(b) \in Nat /\ DOMAIN q = 1 .. Len(q)
          /\ \A k \in 1 .. Len(q) - 1 : a[k] = q[k + 1]
        BY <1>1, <1>6 DEF a
    <2>2. /\ i \in 1 .. Len(a) + Len(b)
          /\ (a \o b)[i] = IF i <= Len(a) THEN a[i] ELSE b[i - Len(a)]
        BY <1>5, <1>6
    <2>3. CASE i < Len(q)
        BY <2>1, <2>2, <2>3
    <2>4. CASE ~(i < Len(q))
        <3>1. i - Len(a) \in 1 .. Len(b) /\ (a \o b)[i] = b[i - Len(a)]
            BY <2>1, <2>2, <2>4
        <3>2. DOMAIN b = 1 .. Len(b)
            BY <1>6
        <3>3. QED
            BY <1>6, <2>4, <3>1, <3>2 DEF ToSet
    <2>5. QED
        BY <2>3, <2>4
<1> HIDE DEF d
<1> DEFINE ab == a \o b
<1> HIDE DEF ab
<1>12. t = [queue |-> ab, chains |-> d] /\ t.queue = ab /\ t.chains = d
    BY <1>4 DEF ab
<1>13. t \in States
    <2>1. d \in UNION {[E -> Seq(Names)] : E \in SUBSET Names}
        BY <1>2, <1>3, <1>9
    <2>2. ToSet(ab) \subseteq DOMAIN d /\ ab \in Seq(Names) /\ IsInjective(ab)
        BY <1>1, <1>7, <1>8, <1>9 DEF ab
    <2>3. QED
        BY <1>12, <2>1, <2>2 DEF States
<1> QED
    BY <1>3, <1>5, <1>7, <1>8, <1>9, <1>10, <1>11, <1>12, <1>13 DEF q, c, ab

\* After some visits is after one more than one fewer.
LEMMA AfterUnfolds ==
    ASSUME NEW graph, Inward(graph)
    PROVE  /\ After(graph, 0) = Roots(graph)
           /\ \A n \in Nat : /\ After(graph, n) \in States
                            /\ After(graph, n + 1) = Visit(graph, After(graph, n))
<1> DEFINE F == [s \in States |-> Visit(graph, s)]
           Q(f) == f = [n \in Nat |-> IF n = 0 THEN Roots(graph) ELSE Visit(graph, f[n - 1])]
           g == CHOOSE f : Q(f)
<1>1. ASSUME NEW s \in States
      PROVE  Visit(graph, s) \in States
    <2>1. CASE s.queue = <<>>
        BY <2>1 DEF Visit
    <2>2. CASE s.queue # <<>>
        BY <2>2, Visited
    <2>3. QED
        BY <2>1, <2>2
<1>2. F \in [States -> States] /\ \A s \in States : F[s] = Visit(graph, s)
    BY <1>1
<1> HIDE DEF F
<1>3. Roots(graph) \in States
    BY RootsFit
<1>4. PICK f : f \in [Nat -> States] /\ f[0] = Roots(graph) /\ \A n \in Nat : f[n + 1] = F[f[n]]
    <2>1. \E f : Repeats(f, States, F, Roots(graph))
        BY <1>2, <1>3, Iterated, Zenon
    <2>2. QED
        BY <2>1, Zenon DEF Repeats
<1>5. Q(f)
    <2>1. ASSUME NEW n \in Nat
          PROVE  f[n] = IF n = 0 THEN Roots(graph) ELSE Visit(graph, f[n - 1])
        <3>1. CASE n = 0
            BY <1>4, <3>1
        <3>2. CASE n # 0
            <4>1. n - 1 \in Nat /\ (n - 1) + 1 = n
                BY <3>2
            <4>2. f[n] = F[f[n - 1]] /\ f[n - 1] \in States
                BY <1>4, <4>1
            <4>3. QED
                BY <1>2, <3>2, <4>2
        <3>3. QED
            BY <3>1, <3>2
    <2>2. f = [n \in Nat |-> f[n]]
        BY <1>4
    <2>3. QED
        BY <2>1, <2>2
<1>6. Q(g)
    BY <1>5
<1>7. \A n \in Nat : After(graph, n) = g[n]
    BY DEF After
<1> HIDE DEF g
<1>8. \A n \in Nat : g[n] = IF n = 0 THEN Roots(graph) ELSE Visit(graph, g[n - 1])
    BY <1>6, Zenon
<1> HIDE DEF Q
<1>9. g[0] = Roots(graph)
    BY <1>8
<1>10. ASSUME NEW n \in Nat
       PROVE  g[n + 1] = Visit(graph, g[n])
    <2>1. n + 1 \in Nat /\ n + 1 # 0 /\ (n + 1) - 1 = n
        OBVIOUS
    <2>2. QED
        BY <1>8, <2>1
<1> DEFINE T == {n \in Nat : g[n] \in States}
<1>11. 0 \in T
    BY <1>3, <1>9
<1>12. ASSUME NEW n \in T
       PROVE  n + 1 \in T
    BY <1>1, <1>10, <1>12
<1>13. T = Nat
    BY <1>11, <1>12, FromZero
<1>14. \A n \in Nat : n + 1 \in Nat
    OBVIOUS
<1> QED
    BY <1>7, <1>9, <1>10, <1>13, <1>14

\* What is reached in one import more is what ships to, from what was reached.
LEMMA ReachedUnfolds ==
    ASSUME NEW graph, Inward(graph)
    PROVE  /\ ReachedIn(graph, 0) = Starts(graph)
           /\ \A n \in Nat : /\ ReachedIn(graph, n) \subseteq Names
                            /\ ReachedIn(graph, n + 1) = UNION {Shipped(graph, p) : p \in ReachedIn(graph, n)}
<1> DEFINE Next1(X) == UNION {Shipped(graph, p) : p \in X}
           F == [X \in SUBSET Names |-> Next1(X)]
           Q(f) == f = [k \in Nat |-> IF k = 0 THEN Commands \cap graph.packages
                                     ELSE UNION {Shipped(graph, p) : p \in f[k - 1]}]
           g == CHOOSE f : Q(f)
<1>1. ASSUME NEW X \in SUBSET Names
      PROVE  Next1(X) \in SUBSET Names
    BY DEF Inward
<1>2. F \in [SUBSET Names -> SUBSET Names] /\ \A X \in SUBSET Names : F[X] = Next1(X)
    BY <1>1
<1> HIDE DEF F
<1>3. Starts(graph) \in SUBSET Names /\ Starts(graph) = Commands \cap graph.packages
    BY CommandsAssumption DEF Starts
<1>4. PICK f : f \in [Nat -> SUBSET Names] /\ f[0] = Starts(graph) /\ \A n \in Nat : f[n + 1] = F[f[n]]
    <2>1. \E f : Repeats(f, SUBSET Names, F, Starts(graph))
        BY <1>2, <1>3, Iterated, Zenon
    <2>2. QED
        BY <2>1, Zenon DEF Repeats
<1>5. Q(f)
    <2>1. ASSUME NEW n \in Nat
          PROVE  f[n] = IF n = 0 THEN Commands \cap graph.packages ELSE Next1(f[n - 1])
        <3>1. CASE n = 0
            BY <1>3, <1>4, <3>1
        <3>2. CASE n # 0
            <4>1. n - 1 \in Nat /\ (n - 1) + 1 = n
                BY <3>2
            <4>2. f[n] = F[f[n - 1]] /\ f[n - 1] \in SUBSET Names
                BY <1>4, <4>1
            <4>3. QED
                BY <1>2, <3>2, <4>2
        <3>3. QED
            BY <3>1, <3>2
    <2>2. f = [n \in Nat |-> f[n]]
        BY <1>4
    <2>3. QED
        BY <2>1, <2>2
<1>6. Q(g)
    BY <1>5
<1>7. \A n \in Nat : ReachedIn(graph, n) = g[n]
    BY DEF ReachedIn
<1> HIDE DEF g
<1>8. \A n \in Nat : g[n] = IF n = 0 THEN Commands \cap graph.packages ELSE Next1(g[n - 1])
    BY <1>6, Zenon
<1> HIDE DEF Q
<1>9. g[0] = Starts(graph)
    BY <1>3, <1>8
<1>10. ASSUME NEW n \in Nat
       PROVE  g[n + 1] = Next1(g[n])
    <2>1. n + 1 \in Nat /\ n + 1 # 0 /\ (n + 1) - 1 = n
        OBVIOUS
    <2> HIDE DEF Next1
    <2>2. QED
        BY <1>8, <2>1
<1> DEFINE T == {n \in Nat : g[n] \in SUBSET Names}
<1> HIDE DEF Next1
<1>11. 0 \in T
    BY <1>3, <1>9
<1>12. ASSUME NEW n \in T
       PROVE  n + 1 \in T
    BY <1>1, <1>10, <1>12
<1>13. T = Nat
    BY <1>11, <1>12, FromZero
<1>14. \A n \in Nat : n + 1 \in Nat
    OBVIOUS
<1> QED
    BY <1>7, <1>9, <1>10, <1>13, <1>14 DEF Next1

\* The packages of a module are finitely many.
LEMMA NamesFinite == IsFiniteSet(Names)
<1>1. ByName \in [1 .. Len(ByName) -> Names] /\ Len(ByName) \in Nat /\ Names = {ByName[i] : i \in 1 .. Len(ByName)}
    BY ByNameAssumption DEF Names, ToSet
<1>2. ByName \in Surjection(1 .. Len(ByName), Names)
    BY <1>1 DEF Surjection
<1>3. IsFiniteSet(1 .. Len(ByName))
    <2>1. 1 \in Int /\ Len(ByName) \in Int
        BY <1>1
    <2>2. QED
        BY <2>1, FS_Interval
<1> QED
    BY <1>2, <1>3, FS_Surjection

-----------------------------------------------------------------------------
(* Breadth first                                                             *)

\* A way a command really reaches p.
Real(graph, chain, p) == chain \in Seq(Names) /\ chain # <<>> /\ IsChain(graph, chain, p)

Behind(s) == DOMAIN s.chains \ ToSet(s.queue)

\* What was followed has been followed all the way; each visit is a package more.
Swept(graph, s, n) ==
    /\ Starts(graph) \subseteq DOMAIN s.chains
    /\ \A p \in Behind(s) : Shipped(graph, p) \subseteq DOMAIN s.chains
    /\ s.queue # <<>> => Cardinality(Behind(s)) = n

\* The queue is in the order of distance, and covers one step of it at most.
InOrderOfChains(s) ==
    \A i, j \in DOMAIN s.queue : i <= j =>
        /\ Len(s.chains[s.queue[i]]) <= Len(s.chains[s.queue[j]])
        /\ Len(s.chains[s.queue[j]]) <= Len(s.chains[s.queue[i]]) + 1

\* Every chain is one, no longer than it has to be or than there were visits.
Shortest(graph, s, n) ==
    \A p \in DOMAIN s.chains :
        /\ Real(graph, s.chains[p], p)
        /\ Len(s.chains[p]) <= n + 1
        /\ \A k \in Nat : p \in ReachedIn(graph, k) => Len(s.chains[p]) <= k + 1

Searched(graph, s, n) == Swept(graph, s, n) /\ InOrderOfChains(s) /\ Shortest(graph, s, n)

\* A chain and what its end ships to are a chain.
LEMMA OneMore ==
    ASSUME NEW graph, Inward(graph), NEW c, NEW h, Real(graph, c, h), NEW p \in Shipped(graph, h)
    PROVE  Real(graph, Append(c, p), p) /\ Len(Append(c, p)) = Len(c) + 1
<1>1. p \in Names /\ c \in Seq(Names) /\ Len(c) \in Nat \ {0}
    BY DEF Inward, Real
<1> DEFINE d == Append(c, p)
<1>2. /\ d \in Seq(Names) /\ d # <<>> /\ Len(d) = Len(c) + 1 /\ d[Len(c) + 1] = p
      /\ \A k \in 1 .. Len(c) : d[k] = c[k]
    BY <1>1
<1> HIDE DEF d
<1>3. d[1] \in Commands \cap graph.packages
    BY <1>1, <1>2 DEF Real, IsChain
<1>4. ASSUME NEW k \in 1 .. Len(d) - 1
      PROVE  d[k + 1] \in Shipped(graph, d[k])
    <2>1. CASE k = Len(c)
        <3>1. d[k] = h
            BY <1>1, <1>2, <2>1 DEF Real, IsChain, Last
        <3>2. QED
            BY <1>2, <2>1, <3>1
    <2>2. CASE k # Len(c)
        <3>1. k \in 1 .. Len(c) - 1 /\ k + 1 \in 1 .. Len(c) /\ k \in 1 .. Len(c)
            BY <1>1, <1>2, <2>2
        <3>2. c[k + 1] \in Shipped(graph, c[k])
            BY <3>1 DEF Real, IsChain
        <3>3. QED
            BY <1>2, <3>1, <3>2
    <2>3. QED
        BY <2>1, <2>2
<1>5. Last(d) = p
    BY <1>2 DEF Last
<1>6. IsChain(graph, d, p)
    BY <1>3, <1>4, <1>5 DEF IsChain
<1> QED
    BY <1>2, <1>6 DEF Real, d

\* The end of a chain is reached in as many imports as the chain has.
LEMMA ChainReaches ==
    ASSUME NEW graph, Inward(graph), NEW c, NEW p, Real(graph, c, p)
    PROVE  Len(c) - 1 \in Nat /\ p \in ReachedIn(graph, Len(c) - 1)
<1> DEFINE T == {k \in Nat : k + 1 <= Len(c) => c[k + 1] \in ReachedIn(graph, k)}
<1>1. c \in Seq(Names) /\ Len(c) \in Nat \ {0} /\ Len(c) - 1 \in Nat
    BY DEF Real
<1>2. 0 \in T
    BY ReachedUnfolds DEF Real, IsChain, Starts
<1>3. ASSUME NEW k \in T
      PROVE  k + 1 \in T
    <2> SUFFICES ASSUME k + 2 <= Len(c)
                 PROVE  c[k + 2] \in ReachedIn(graph, k + 1)
        BY <1>3
    <2>1. k \in Nat /\ c[k + 1] \in ReachedIn(graph, k) /\ k + 1 \in 1 .. Len(c) - 1 /\ (k + 1) + 1 = k + 2
        BY <1>1, <1>3
    <2>2. c[k + 2] \in Shipped(graph, c[k + 1])
        BY <2>1 DEF Real, IsChain
    <2>3. QED
        BY <2>1, <2>2, ReachedUnfolds
<1>4. T = Nat
    BY <1>2, <1>3, FromZero
<1>5. (Len(c) - 1) + 1 = Len(c) /\ Len(c) <= Len(c) /\ c[Len(c)] = p
    BY <1>1 DEF Real, IsChain, Last
<1>6. Len(c) - 1 \in T
    BY <1>1, <1>4
<1> QED
    BY <1>1, <1>5, <1>6

\* What has not been seen is further than the head of the queue, and nothing is
\* once the queue is empty.
LEMMA Unseen ==
    ASSUME NEW graph, Inward(graph), NEW s \in States, NEW n \in Nat, Searched(graph, s, n)
    PROVE  \A k \in Nat : \A p \in ReachedIn(graph, k) :
              p \in DOMAIN s.chains \/ (s.queue # <<>> /\ Len(s.chains[Head(s.queue)]) <= k)
<1> DEFINE q == s.queue
           D == DOMAIN s.chains
           L(p) == Len(s.chains[p])
           T == {k \in Nat : \A p \in ReachedIn(graph, k) : p \in D \/ (q # <<>> /\ L(Head(q)) <= k)}
<1>1. 0 \in T
    BY ReachedUnfolds DEF Searched, Swept
<1>2. q \in Seq(Names) /\ ToSet(q) \subseteq D
    BY DEF States
<1>3. \A p \in D : L(p) \in Nat
    BY DEF Searched, Shortest, Real
<1>4. ASSUME NEW k \in T
      PROVE  k + 1 \in T
    <2>1. k \in Nat /\ k + 1 \in Nat
        BY <1>4
    <2>2. ASSUME NEW p \in ReachedIn(graph, k + 1), p \notin D
          PROVE  q # <<>> /\ L(Head(q)) <= k + 1
        <3>1. PICK x \in ReachedIn(graph, k) : p \in Shipped(graph, x)
            BY <2>1, <2>2, ReachedUnfolds
        <3>2. CASE x \in D
            <4>1. x \in ToSet(q)
                BY <2>2, <3>1, <3>2 DEF Searched, Swept, Behind
            <4>2. PICK j \in DOMAIN q : x = q[j]
                BY <4>1 DEF ToSet
            <4>3. q # <<>> /\ Head(q) = q[1] /\ 1 \in DOMAIN q /\ 1 <= j
                BY <1>2, <4>2
            <4>4. L(q[1]) <= L(x)
                BY <4>2, <4>3 DEF Searched, InOrderOfChains
            <4>5. L(x) <= k + 1
                BY <2>1, <3>1, <3>2 DEF Searched, Shortest
            <4>6. q[1] \in D /\ L(q[1]) \in Nat /\ L(x) \in Nat
                BY <1>2, <1>3, <3>2, <4>3 DEF ToSet
            <4>7. QED
                BY <2>1, <4>3, <4>4, <4>5, <4>6
        <3>3. CASE x \notin D
            <4>1. q # <<>> /\ L(Head(q)) <= k
                BY <1>4, <3>1, <3>3
            <4>2. Head(q) \in D
                BY <1>2, <4>1 DEF ToSet
            <4>3. QED
                BY <1>3, <2>1, <4>1, <4>2
        <3>4. QED
            BY <3>2, <3>3
    <2>3. QED
        BY <2>1, <2>2
<1>5. T = Nat
    BY <1>1, <1>4, FromZero
<1> QED
    BY <1>5

\* Nothing was visited, and every command is one import away from nothing.
LEMMA SearchBegins ==
    ASSUME NEW graph, Inward(graph)
    PROVE  Searched(graph, Roots(graph), 0)
<1> DEFINE s == Roots(graph)
<1>1. /\ s \in States /\ DOMAIN s.chains = Starts(graph) /\ ToSet(s.queue) = Starts(graph)
      /\ \A p \in Starts(graph) : s.chains[p] = <<p>>
    BY RootsFit
<1> HIDE DEF s
<1>2. Behind(s) = {} /\ Cardinality({}) = 0
    BY <1>1, FS_EmptySet DEF Behind
<1>3. Starts(graph) \subseteq Names
    BY CommandsAssumption DEF Starts
<1>4. ASSUME NEW p \in Starts(graph)
      PROVE  Real(graph, <<p>>, p) /\ Len(<<p>>) = 1
    <2>1. <<p>> \in Seq(Names) /\ <<p>> # <<>> /\ Len(<<p>>) = 1 /\ <<p>>[1] = p
        BY <1>3, <1>4
    <2>2. QED
        BY <1>4, <2>1 DEF Real, IsChain, Last, Starts
<1>5. \A p \in Starts(graph) : Real(graph, s.chains[p], p) /\ Len(s.chains[p]) = 1
    BY <1>1, <1>4
<1>6. Shortest(graph, s, 0)
    <2>1. 1 <= 0 + 1 /\ \A k \in Nat : 1 <= k + 1
        OBVIOUS
    <2>2. QED
        BY <1>1, <1>5, <2>1 DEF Shortest
<1>7. InOrderOfChains(s)
    <2>1. \A i \in DOMAIN s.queue : s.queue[i] \in Starts(graph)
        BY <1>1 DEF ToSet
    <2>2. \A i \in DOMAIN s.queue : Len(s.chains[s.queue[i]]) = 1
        BY <1>5, <2>1
    <2>3. QED
        BY <2>2 DEF InOrderOfChains
<1>8. Swept(graph, s, 0)
    BY <1>1, <1>2 DEF Swept
<1> QED
    BY <1>6, <1>7, <1>8 DEF Searched, s

\* Following the head keeps all that: what it ships to is as far as anything on
\* the queue, and no nearer way to it was missed.
LEMMA SearchGoesOn ==
    ASSUME NEW graph, Inward(graph), NEW s \in States, NEW n \in Nat, Searched(graph, s, n)
    PROVE  Searched(graph, Visit(graph, s), n + 1)
<1>1. CASE s.queue = <<>>
    <2>1. Visit(graph, s) = s
        BY <1>1 DEF Visit
    <2>2. \A p \in DOMAIN s.chains : Len(s.chains[p]) \in Nat
        BY DEF Searched, Shortest, Real
    <2>3. Shortest(graph, s, n + 1)
        BY <2>2 DEF Searched, Shortest
    <2>4. QED
        BY <1>1, <2>1, <2>3 DEF Searched, Swept
<1>2. CASE s.queue # <<>>
    <2> DEFINE q == s.queue
               D == DOMAIN s.chains
               L(p) == Len(s.chains[p])
               h == Head(q)
               new == New(graph, s)
               t == Visit(graph, s)
    <2>1. /\ t \in States
          /\ h = q[1] /\ h \in ToSet(q) /\ h \in Names
          /\ new \in SUBSET Names /\ new = Shipped(graph, h) \ D
          /\ DOMAIN t.chains = D \cup new
          /\ \A p \in D : t.chains[p] = s.chains[p]
          /\ \A p \in new : t.chains[p] = Append(s.chains[h], p)
          /\ ToSet(t.queue) = (ToSet(q) \ {h}) \cup new
          /\ \A i \in DOMAIN t.queue :
                IF i < Len(q) THEN i + 1 \in DOMAIN q /\ t.queue[i] = q[i + 1]
                ELSE t.queue[i] \in new
        BY <1>2, Visited
    <2>2. q \in Seq(Names) /\ q # <<>> /\ ToSet(q) \subseteq D /\ D \in SUBSET Names
        BY <1>2 DEF States
    <2> HIDE DEF q, h, new, t
    <2>3. \A p \in D : L(p) \in Nat /\ Real(graph, s.chains[p], p) /\ L(p) <= n + 1
        BY DEF Searched, Shortest, Real
    <2>4. h \in D
        BY <2>1, <2>2
    <2>5. \A p \in new : Real(graph, t.chains[p], p) /\ Len(t.chains[p]) = L(h) + 1
        <3> SUFFICES ASSUME NEW p \in new
                     PROVE  Real(graph, t.chains[p], p) /\ Len(t.chains[p]) = L(h) + 1
            OBVIOUS
        <3> DEFINE c == s.chains[h]
        <3>1. p \in Shipped(graph, h) /\ t.chains[p] = Append(c, p) /\ Real(graph, c, h)
            BY <2>1, <2>3, <2>4
        <3> HIDE DEF c
        <3>2. Real(graph, Append(c, p), p) /\ Len(Append(c, p)) = Len(c) + 1
            BY <3>1, OneMore
        <3>3. QED
            BY <3>1, <3>2 DEF c
    <2>6. Shortest(graph, t, n + 1)
        <3>1. ASSUME NEW p \in D
              PROVE  /\ Real(graph, t.chains[p], p)
                     /\ Len(t.chains[p]) <= (n + 1) + 1
                     /\ \A k \in Nat : p \in ReachedIn(graph, k) => Len(t.chains[p]) <= k + 1
            BY <2>1, <2>3, <3>1 DEF Searched, Shortest
        <3>2. ASSUME NEW p \in new
              PROVE  /\ Real(graph, t.chains[p], p)
                     /\ Len(t.chains[p]) <= (n + 1) + 1
                     /\ \A k \in Nat : p \in ReachedIn(graph, k) => Len(t.chains[p]) <= k + 1
            <4>1. L(h) \in Nat /\ L(h) <= n + 1
                BY <2>3, <2>4
            <4>2. ASSUME NEW k \in Nat, p \in ReachedIn(graph, k)
                  PROVE  L(h) <= k
                <5>1. p \notin D
                    BY <2>1, <3>2
                <5>2. QED
                    BY <4>2, <5>1, Unseen DEF q, h
            <4>3. QED
                BY <2>5, <3>2, <4>1, <4>2
        <3>3. QED
            BY <2>1, <3>1, <3>2 DEF Shortest
    <2>7. InOrderOfChains(t)
        <3> DEFINE M(i) == Len(t.chains[t.queue[i]])
        <3>1. DOMAIN t.queue \subseteq Nat /\ DOMAIN q = 1 .. Len(q) /\ Len(q) \in Nat \ {0}
              /\ DOMAIN t.queue = 1 .. Len(t.queue)
            BY <2>1, <2>2 DEF States
        <3>2. \A i, j \in DOMAIN q : i <= j => L(q[i]) <= L(q[j]) /\ L(q[j]) <= L(q[i]) + 1
            BY DEF Searched, InOrderOfChains, q
        <3>3. ASSUME NEW i \in DOMAIN t.queue, i < Len(q)
              PROVE  /\ i + 1 \in DOMAIN q /\ M(i) = L(q[i + 1]) /\ M(i) \in Nat
                     /\ L(h) <= M(i) /\ M(i) <= L(h) + 1
            <4>1. i + 1 \in DOMAIN q /\ t.queue[i] = q[i + 1] /\ q[i + 1] \in D
                BY <2>1, <2>2, <3>3 DEF ToSet
            <4>2. M(i) = L(q[i + 1]) /\ M(i) \in Nat
                BY <2>1, <2>3, <4>1
            <4>3. 1 \in DOMAIN q /\ 1 <= i + 1
                BY <3>1, <3>3
            <4>4. QED
                BY <2>1, <3>2, <4>1, <4>2, <4>3
        <3>4. ASSUME NEW i \in DOMAIN t.queue, ~(i < Len(q))
              PROVE  M(i) = L(h) + 1
            BY <2>1, <2>5, <3>4
        <3>5. L(h) \in Nat
            BY <2>3, <2>4
        <3>6. ASSUME NEW i \in DOMAIN t.queue, NEW j \in DOMAIN t.queue, i <= j
              PROVE  M(i) <= M(j) /\ M(j) <= M(i) + 1
            <4> HIDE DEF M
            <4>1. CASE j < Len(q)
                <5>1. i < Len(q) /\ i \in Nat /\ j \in Nat /\ i + 1 <= j + 1
                    BY <3>1, <3>6, <4>1
                <5>2. /\ i + 1 \in DOMAIN q /\ M(i) = L(q[i + 1])
                      /\ j + 1 \in DOMAIN q /\ M(j) = L(q[j + 1])
                    BY <3>3, <4>1, <5>1
                <5>3. QED
                    BY <3>2, <5>1, <5>2
            <4>2. CASE ~(j < Len(q)) /\ i < Len(q)
                BY <3>3, <3>4, <3>5, <4>2
            <4>3. CASE ~(j < Len(q)) /\ ~(i < Len(q))
                BY <3>4, <3>5, <4>3
            <4>4. QED
                BY <4>1, <4>2, <4>3
        <3>7. QED
            BY <3>6 DEF InOrderOfChains
    <2>8. Swept(graph, t, n + 1)
        <3>1. Behind(t) = Behind(s) \cup {h} /\ h \notin Behind(s)
            BY <2>1, <2>2, <2>4 DEF Behind, q
        <3>2. Starts(graph) \subseteq DOMAIN t.chains
            BY <2>1 DEF Searched, Swept
        <3>3. ASSUME NEW p \in Behind(t)
              PROVE  Shipped(graph, p) \subseteq DOMAIN t.chains
            <4>1. CASE p = h
                BY <2>1, <4>1
            <4>2. CASE p \in Behind(s)
                BY <2>1, <4>2 DEF Searched, Swept
            <4>3. QED
                BY <3>1, <3>3, <4>1, <4>2
        <3>4. IsFiniteSet(Behind(s))
            BY <2>2, NamesFinite, FS_Subset DEF Behind
        <3>5. Cardinality(Behind(s)) = n
            BY <1>2 DEF Searched, Swept
        <3>6. Cardinality(Behind(t)) = n + 1
            BY <3>1, <3>4, <3>5, FS_AddElement
        <3>7. QED
            BY <3>2, <3>3, <3>6 DEF Swept
    <2>9. QED
        BY <2>6, <2>7, <2>8 DEF Searched, t
<1> QED
    BY <1>1, <1>2

\* It does so however often.
LEMMA SearchKeeps ==
    ASSUME NEW graph, Inward(graph)
    PROVE  \A n \in Nat : Searched(graph, After(graph, n), n)
<1> DEFINE T == {n \in Nat : Searched(graph, After(graph, n), n)}
<1>1. 0 \in T
    BY AfterUnfolds, SearchBegins
<1>2. ASSUME NEW n \in T
      PROVE  n + 1 \in T
    BY <1>2, AfterUnfolds, SearchGoesOn
<1>3. T = Nat
    BY <1>1, <1>2, FromZero
<1> QED
    BY <1>3

\* When it has visited as many packages as there are, there is nothing to follow.
LEMMA SearchEnds ==
    ASSUME NEW graph, Inward(graph)
    PROVE  After(graph, Cardinality(Names)).queue = <<>>
<1> DEFINE N == Cardinality(Names)
           s == After(graph, N)
<1>1. IsFiniteSet(Names) /\ N \in Nat
    BY NamesFinite, FS_CardinalityType
<1>2. s \in States /\ Searched(graph, s, N)
    BY <1>1, AfterUnfolds, SearchKeeps
<1> HIDE DEF s
<1> SUFFICES ASSUME s.queue # <<>>
             PROVE  FALSE
    BY DEF s
<1>3. Cardinality(Behind(s)) = N
    BY <1>2 DEF Searched, Swept
<1>4. Head(s.queue) \in ToSet(s.queue) /\ ToSet(s.queue) \subseteq Names /\ Behind(s) \subseteq Names \ {Head(s.queue)}
    BY <1>2 DEF States, Behind, ToSet
<1>5. Behind(s) = Names
    BY <1>1, <1>3, <1>4, FS_Subset
<1> QED
    BY <1>4, <1>5

\* The chain to a package is there exactly if a command reaches it in as many
\* imports as there are packages, and is then as long as the shortest way.
LEMMA ChainToIsShortest ==
    ASSUME NEW graph, Inward(graph), NEW pkg,
           NEW within, within = {n \in 0 .. Cardinality(Names) : pkg \in ReachedIn(graph, n)}
    PROVE  IF within = {} THEN ChainTo(graph, pkg) = <<>>
           ELSE /\ IsChain(graph, ChainTo(graph, pkg), pkg)
                /\ Len(ChainTo(graph, pkg)) = Min(within) + 1
<1> DEFINE N == Cardinality(Names)
           s == After(graph, N)
           D == DOMAIN s.chains
<1>1. N \in Nat
    BY NamesFinite, FS_CardinalityType
<1>2. s \in States /\ Searched(graph, s, N) /\ s.queue = <<>>
    BY <1>1, AfterUnfolds, SearchKeeps, SearchEnds
<1>3. ChainTo(graph, pkg) = IF pkg \in D THEN s.chains[pkg] ELSE <<>>
    BY DEF ChainTo
<1> HIDE DEF s
<1>4. \A k \in Nat : ReachedIn(graph, k) \subseteq D
    BY <1>1, <1>2, Unseen
<1>5. CASE pkg \in D
    <2> DEFINE c == s.chains[pkg]
               m == Len(c) - 1
    <2>1. Real(graph, c, pkg) /\ Len(c) <= N + 1 /\ Len(c) \in Nat
          /\ \A k \in Nat : pkg \in ReachedIn(graph, k) => Len(c) <= k + 1
        BY <1>2, <1>5 DEF Searched, Shortest, Real
    <2> HIDE DEF c
    <2>2. m \in Nat /\ pkg \in ReachedIn(graph, m)
        BY <2>1, ChainReaches
    <2>3. m \in within
        BY <1>1, <2>1, <2>2
    <2>4. ASSUME NEW k \in within
          PROVE  m <= k
        <3>1. k \in Nat /\ pkg \in ReachedIn(graph, k)
            BY <1>1, <2>4
        <3>2. QED
            BY <2>1, <3>1
    <2>5. within \subseteq Nat
        BY <1>1
    <2>6. Min(within) = m
        BY <2>2, <2>3, <2>4, <2>5 DEF Min
    <2>7. QED
        BY <1>3, <1>5, <2>1, <2>3, <2>6 DEF Real, c
<1>6. CASE pkg \notin D
    <2>1. within = {}
        BY <1>1, <1>4, <1>6
    <2>2. QED
        BY <1>3, <1>6, <2>1
<1> QED
    BY <1>5, <1>6

-----------------------------------------------------------------------------
(* The gate                                                                  *)

\* What importrules has found, once it has judged.
ImportsFound ==
    Judged("imports") => found = Check(Rules(run.lines), Graph(run.tree))

\* It is what the check of its own declaration and tree makes.
LEMMA ImportsAreJudged == Spec => []ImportsFound
<1>1. Init => ImportsFound
    BY DEF Init, ImportsFound, Judged
<1>2. ImportsFound /\ [Next]_vars => ImportsFound'
    <2> SUFFICES ASSUME ImportsFound, [Next]_vars
                 PROVE  ImportsFound'
        OBVIOUS
    <2>1. CASE Judge
        <3>1. run.gate = "imports" => found' = Check(Rules(run.lines), Graph(run.tree))
            BY <2>1 DEF Judge, Judgements
        <3>2. run' = run
            BY <2>1 DEF Judge
        <3>3. QED
            BY <3>1, <3>2, Zenon DEF ImportsFound, Judged
    <2>2. CASE ReadInput \/ WriteFile
        BY <2>2 DEF ReadInput, WriteFile, ImportsFound, Judged
    <2>3. CASE FailInput \/ FailWrite \/ FinishWriting \/ Report \/ FailReport
        BY <2>3 DEF FailInput, FailWrite, FinishWriting, Report, FailReport, End, ImportsFound, Judged
    <2>4. CASE UNCHANGED vars
        BY <2>4 DEF vars, ImportsFound, Judged
    <2>5. QED
        BY <2>1, <2>2, <2>3, <2>4 DEF Next
<1> QED
    BY <1>1, <1>2, PTL DEF Spec

\* A forbidden import comes with the chain the search has for its package.
LEMMA OfAnImport ==
    ASSUME NEW rules, NEW graph, NEW f \in Check(rules, graph), f.kind = "forbidden import"
    PROVE  f.chain = ChainTo(graph, f.pkg)
<1>1. f \notin AboutPackages(rules, graph)
    <2>1. ASSUME NEW p, NEW kind, f = Finding(kind, p, "", <<>>, ""), kind # "forbidden import"
          PROVE  FALSE
        BY <2>1 DEF Finding
    <2>2. ASSUME f \in AboutPackages(rules, graph)
          PROVE  \E p : \/ f = Finding("undeclared package", p, "", <<>>, "")
                       \/ f = Finding("stale planned marker", p, "", <<>>, "")
                       \/ f = Finding("declaration for a package that is not there", p, "", <<>>, "")
        BY <2>2 DEF AboutPackages
    <2>3. QED
        BY <2>1, <2>2
<1>2. PICK p \in graph.packages : f \in AboutImports(rules, graph, p)
    BY <1>1 DEF Check
<1> DEFINE shipped == Permitted(rules.shipped, p)
           test == shipped \cup {p} \cup Permitted(rules.test, p)
<1>3. \/ \E i \in graph.shipped[p] \ shipped :
            f = Finding("forbidden import", p, i, ChainTo(graph, p), DetailFor(rules, i, FALSE))
      \/ \E i \in graph.test[p] \ test :
            f = Finding("forbidden import in a test file", p, i, <<>>, DetailFor(rules, i, TRUE))
    BY <1>2 DEF AboutImports
<1>4. ASSUME NEW i, NEW d, f = Finding("forbidden import", p, i, ChainTo(graph, p), d)
      PROVE  f.chain = ChainTo(graph, f.pkg)
    <2>1. f.pkg = p /\ f.chain = ChainTo(graph, p)
        BY <1>4 DEF Finding
    <2>2. QED
        BY <2>1
<1>5. ASSUME NEW i, NEW d, f = Finding("forbidden import in a test file", p, i, <<>>, d)
      PROVE  FALSE
    BY <1>5 DEF Finding
<1> QED
    BY <1>3, <1>4, <1>5

\* For any tree and any declaration: a forbidden import comes with a way a
\* command really reaches it, and a shortest one, or with none if none does.
THEOREM ChainsAreAlwaysShortest == Spec => []ChainsAreShortest
<1>1. ImportsFound => ChainsAreShortest
    <2> SUFFICES ASSUME ImportsFound, Judged("imports"), NEW f \in found, f.kind = "forbidden import"
                 PROVE  LET graph == Graph(run.tree)
                            within == {n \in 0..Cardinality(Names) : f.pkg \in ReachedIn(graph, n)}
                        IN  IF within = {} THEN f.chain = <<>>
                            ELSE IsChain(graph, f.chain, f.pkg) /\ Len(f.chain) = Min(within) + 1
        BY Zenon DEF ChainsAreShortest
    <2> DEFINE graph == Graph(run.tree)
               rules == Rules(run.lines)
               within == {n \in 0..Cardinality(Names) : f.pkg \in ReachedIn(graph, n)}
    <2>1. Inward(graph)
        BY DEF Inward, Shipped, Graph, Imports
    <2>2. f \in Check(rules, graph)
        BY DEF ImportsFound
    <2> HIDE DEF graph, rules
    <2>3. f.chain = ChainTo(graph, f.pkg)
        BY <2>2, OfAnImport
    <2> HIDE DEF within
    <2>4. IF within = {} THEN ChainTo(graph, f.pkg) = <<>>
          ELSE /\ IsChain(graph, ChainTo(graph, f.pkg), f.pkg)
               /\ Len(ChainTo(graph, f.pkg)) = Min(within) + 1
        BY <2>1, ChainToIsShortest DEF within
    <2>5. QED
        BY <2>3, <2>4 DEF within, graph
<1> QED
    BY <1>1, ImportsAreJudged, PTL

-----------------------------------------------------------------------------
(* What a gate has read when it has judged                                   *)

\* The gates, by name.
AllGates == {"imports", "adapters", "testreach", "invariants", "sourcecheck", "cmdlint",
             "doclint", "prhygiene", "coverfloor", "scanfloor", "treefmt"}

\* What is behind was accepted, and what was found is what it comes to.
Heard ==
    /\ \E family \in DOMAIN Runs : run \in Runs[family]
    /\ at \in Nat
    /\ run.gate \in AllGates =>
          /\ pc = "reading" => \A k \in 1..Len(Inputs(run.gate)) : k < at => Accepts(Inputs(run.gate)[k])
          /\ pc \in {"writing", "printing"} =>
                /\ \A k \in 1..Len(Inputs(run.gate)) : Accepts(Inputs(run.gate)[k])
                /\ found \in Judgements

\* Every gate reads a number of inputs.
LEMMA InputsAreCounted == \A gate \in AllGates : Len(Inputs(gate)) \in Nat
BY DEF AllGates, Inputs

\* At every step, what is behind was accepted and what was found is judged.
LEMMA HeardAlways == Spec => []Heard
<1>1. Init => Heard
    BY DEF Init, Heard
<1>2. Heard /\ [Next]_vars => Heard'
    <2> SUFFICES ASSUME Heard, [Next]_vars
                 PROVE  Heard'
        OBVIOUS
    <2>1. run' = run
        BY DEF Next, vars, ReadInput, FailInput, Judge, WriteFile, FailWrite, FinishWriting, Report, FailReport
    <2>2. Judgements' = Judgements /\ \A x : Accepts(x)' = Accepts(x)
        BY <2>1 DEF Judgements, Accepts, Formatted, Paths, Known, Read
    <2>3. CASE ReadInput
        <3>1. pc = "reading" /\ Accepts(Inputs(run.gate)[at]) /\ at' = at + 1 /\ pc' = pc /\ at \in Nat
            BY <2>3 DEF ReadInput, Heard
        <3>2. run.gate \in AllGates => \A k \in 1..Len(Inputs(run.gate)) : k < at + 1 => Accepts(Inputs(run.gate)[k])
            <4> SUFFICES ASSUME run.gate \in AllGates, NEW k \in 1..Len(Inputs(run.gate)), k < at + 1
                         PROVE  Accepts(Inputs(run.gate)[k])
                OBVIOUS
            <4>1. k < at \/ k = at
                <5>1. k \in Int
                    BY InputsAreCounted
                <5>2. QED
                    BY <3>1, <5>1
            <4>2. k < at => Accepts(Inputs(run.gate)[k])
                BY <3>1 DEF Heard
            <4>3. QED
                BY <3>1, <4>1, <4>2
        <3>3. pc' = "reading" /\ at' \in Nat
            BY <3>1
        <3>4. \A k : Accepts(Inputs(run.gate)[k])' = Accepts(Inputs(run.gate)[k])
            BY <2>1 DEF Accepts, Formatted, Paths, Known, Read
        <3>5. QED
            BY <2>1, <3>1, <3>2, <3>3, <3>4 DEF Heard
    <2>4. CASE Judge
        <3>1. run.gate \in AllGates => \A k \in 1..Len(Inputs(run.gate)) : at \in Nat => k < at
            BY <2>4, InputsAreCounted DEF Judge
        <3>2. at' \in Nat /\ pc' # "reading" /\ found' \in Judgements
            BY <2>4 DEF Judge
        <3>3. run.gate \in AllGates => \A k \in 1..Len(Inputs(run.gate)) : Accepts(Inputs(run.gate)[k])
            BY <2>4, <3>1 DEF Heard, Judge
        <3>4. QED
            BY <2>1, <2>2, <3>2, <3>3 DEF Heard
    <2>5. CASE WriteFile
        BY <2>1, <2>2, <2>5 DEF Heard, WriteFile
    <2>6. CASE FailInput \/ FailWrite \/ FinishWriting \/ Report \/ FailReport
        BY <2>1, <2>2, <2>6 DEF Heard, FailInput, FailWrite, FinishWriting, Report, FailReport, End
    <2>7. CASE UNCHANGED vars
        BY <2>1, <2>2, <2>7 DEF Heard, vars
    <2>8. QED
        BY <2>3, <2>4, <2>5, <2>6, <2>7 DEF Next
<1> QED
    BY <1>1, <1>2, PTL DEF Spec

-----------------------------------------------------------------------------
(* importrules                                                               *)

\* A line of the declaration names a package of the module.
LEMMA LinesNamePackages ==
    ASSUME OfPackages(run)
    PROVE  \A l \in ToSet(run.lines) : l.pkg \in Names
<1> SUFFICES ASSUME NEW l \in ToSet(run.lines)
             PROVE  l.pkg \in Names
    OBVIOUS
<1>1. PICK k \in DOMAIN run.lines : l = run.lines[k]
    BY DEF ToSet
<1> DEFINE lines == run.lines
           L == [is : STRING, pkg : Names, targets : Seq(Names)]
<1>2. lines \in Seq(L)
    BY DEF OfPackages
<1>3. k \in DOMAIN lines /\ l = lines[k] /\ \A m \in L : m.pkg \in Names
    BY <1>1
<1> HIDE DEF lines, L
<1> QED
    BY <1>2, <1>3

\* What importrules finds is where the declaration and the tree differ.
LEMMA ImportsSayWhatDiffers ==
    ASSUME OfPackages(run), OfFiles(run), Parses(run.lines)
    PROVE  Check(Rules(run.lines), Graph(run.tree)) = {} <=> ImportsAgree
<1> DEFINE rules == Rules(run.lines)
           graph == Graph(run.tree)
           Has1(p) == \E f \in run.tree : ~f.skipped /\ f.pkg = p
<1>1. graph.packages = {f.pkg : f \in Read(run.tree)}
    BY DEF Graph
<1>2. /\ \A p : p \in graph.packages <=> Has1(p)
      /\ graph.packages \subseteq Names
    BY <1>1 DEF Read, OfFiles
<1>3. /\ Declared(rules) = Packages(run.lines, "package")
      /\ rules.planned = Packages(run.lines, "planned") /\ rules.testOnly = Packages(run.lines, "test-only")
      /\ rules.shipped = TargetsOf(run.lines, "package") /\ rules.test = TargetsOf(run.lines, "test")
    BY DEF Declared, Rules, TargetsOf
<1>4. \A kind, p : p \in Packages(run.lines, kind) <=> Line(kind, p)
    BY DEF Packages, On, Line
<1>5. \A kind : Packages(run.lines, kind) \subseteq Names
    <2>1. \A l \in ToSet(run.lines) : l.pkg \in Names
        BY LinesNamePackages
    <2>2. QED
        BY <2>1 DEF Packages, On
<1>6. \A kind, p, i : i \in Permitted(TargetsOf(run.lines, kind), p) <=> Permits(kind, p, i)
    <2>1. ASSUME NEW kind, NEW p
          PROVE  Permitted(TargetsOf(run.lines, kind), p)
                    = UNION {ToSet(line.targets) : line \in {l \in On(run.lines, kind) : l.pkg = p}}
        <3>1. CASE p \in Packages(run.lines, kind)
            BY <3>1 DEF Permitted, TargetsOf
        <3>2. CASE p \notin Packages(run.lines, kind)
            BY <3>2 DEF Permitted, TargetsOf, Packages
        <3>3. QED
            BY <3>1, <3>2
    <2>2. QED
        BY <2>1 DEF On, Permits
<1>7. \A p, i : i \in Permitted(rules.shipped, p) => i \notin rules.testOnly
    BY <1>3 DEF Parses, Resolve, Permitted, Declared
<1>8. \A p \in graph.packages : /\ graph.shipped[p] = Imports(run.tree, p, FALSE)
                                /\ graph.test[p] = Imports(run.tree, p, TRUE)
    BY DEF Graph
<1>9. ASSUME NEW p, NEW i
      PROVE  /\ i \in Imports(run.tree, p, FALSE) <=>
                    \E f \in run.tree : ~f.skipped /\ f.pkg = p /\ ~f.tests /\ i \in f.imports \cap Names
             /\ i \in Imports(run.tree, p, TRUE) <=>
                    \E f \in run.tree : ~f.skipped /\ f.pkg = p /\ f.tests /\ i \in f.imports \cap Names
    <2>1. \A tests : i \in Imports(run.tree, p, tests) <=>
              \E f \in run.tree : ~f.skipped /\ f.pkg = p /\ f.tests = tests /\ i \in f.imports \cap Names
        BY DEF Imports, Read
    <2>2. \A f \in run.tree : (f.tests = TRUE <=> f.tests) /\ (f.tests = FALSE <=> ~f.tests)
        BY DEF OfFiles
    <2>3. QED
        BY <2>1, <2>2, Zenon
<1> HIDE DEF rules, graph
<1>10. AboutPackages(rules, graph) = {} <=>
           \A p \in Names : Line("package", p) /\ ~Line("planned", p) <=> Has1(p)
    <2>1. AboutPackages(rules, graph) = {} <=>
              /\ graph.packages \subseteq Declared(rules)
              /\ Declared(rules) \cap rules.planned \cap graph.packages = {}
              /\ Declared(rules) \subseteq rules.planned \cup graph.packages
        BY DEF AboutPackages
    <2>2. QED
        BY <1>2, <1>3, <1>4, <1>5, <2>1
<1>11. ASSUME NEW p
       PROVE  AboutImports(rules, graph, p) = {} <=>
                  /\ graph.shipped[p] \subseteq Permitted(rules.shipped, p)
                  /\ graph.test[p] \subseteq Permitted(rules.shipped, p) \cup {p} \cup Permitted(rules.test, p)
    BY DEF AboutImports
<1>12. Check(rules, graph) = {} <=>
           AboutPackages(rules, graph) = {} /\ \A p \in graph.packages : AboutImports(rules, graph, p) = {}
    BY DEF Check
<1>13. (\A p \in graph.packages : AboutImports(rules, graph, p) = {}) <=>
           \A f \in run.tree : ~f.skipped => \A i \in f.imports \cap Names :
              \/ Permits("package", f.pkg, i) /\ (~f.tests => ~Line("test-only", i))
              \/ f.tests /\ (i = f.pkg \/ Permits("test", f.pkg, i))
    <2>1. \A f \in run.tree : f.tests \in BOOLEAN
        BY DEF OfFiles
    <2>2. ASSUME NEW p \in graph.packages, AboutImports(rules, graph, p) = {},
                 NEW f \in run.tree, ~f.skipped, f.pkg = p, NEW i \in f.imports \cap Names
          PROVE  \/ Permits("package", p, i) /\ (~f.tests => ~Line("test-only", i))
                 \/ f.tests /\ (i = p \/ Permits("test", p, i))
        <3>1. CASE f.tests = FALSE
            <4>1. i \in graph.shipped[p]
                <5>1. i \in Imports(run.tree, p, FALSE)
                    BY <1>9, <2>2, <3>1
                <5>2. QED
                    BY <1>8, <5>1, Zenon
            <4>2. QED
                BY <1>3, <1>4, <1>6, <1>7, <1>11, <2>2, <4>1
        <3>2. CASE f.tests = TRUE
            <4>1. i \in graph.test[p]
                <5>1. i \in Imports(run.tree, p, TRUE)
                    BY <1>9, <2>2, <3>2
                <5>2. QED
                    BY <1>8, <5>1, Zenon
            <4>2. QED
                BY <1>3, <1>6, <1>11, <2>2, <3>2, <4>1
        <3>3. QED
            BY <2>1, <3>1, <3>2
    <2>3. ASSUME NEW p \in graph.packages,
                 \A f \in run.tree : ~f.skipped => \A i \in f.imports \cap Names :
                    \/ Permits("package", f.pkg, i) /\ (~f.tests => ~Line("test-only", i))
                    \/ f.tests /\ (i = f.pkg \/ Permits("test", f.pkg, i))
          PROVE  AboutImports(rules, graph, p) = {}
        <3>1. graph.shipped[p] \subseteq Permitted(rules.shipped, p)
            <4>1. Imports(run.tree, p, FALSE) \subseteq Permitted(rules.shipped, p)
                BY <1>3, <1>6, <1>9, <2>3
            <4>2. QED
                BY <1>8, <4>1, Zenon
        <3>2. graph.test[p] \subseteq Permitted(rules.shipped, p) \cup {p} \cup Permitted(rules.test, p)
            <4>1. Imports(run.tree, p, TRUE)
                    \subseteq Permitted(rules.shipped, p) \cup {p} \cup Permitted(rules.test, p)
                <5> SUFFICES ASSUME NEW i \in Imports(run.tree, p, TRUE)
                             PROVE  i \in Permitted(rules.shipped, p) \cup {p} \cup Permitted(rules.test, p)
                    OBVIOUS
                <5>1. PICK f \in run.tree : ~f.skipped /\ f.pkg = p /\ f.tests /\ i \in f.imports \cap Names
                    BY <1>9
                <5>2. Permits("package", p, i) \/ i = p \/ Permits("test", p, i)
                    BY <2>3, <5>1
                <5>3. QED
                    BY <1>3, <1>6, <5>2
            <4>2. QED
                BY <1>8, <4>1, Zenon
        <3>3. QED
            BY <1>11, <3>1, <3>2
    <2>4. QED
        BY <1>2, <2>2, <2>3
<1>14. QED
    BY <1>10, <1>12, <1>13 DEF ImportsAgree, rules, graph

-----------------------------------------------------------------------------
(* contract/adapters                                                         *)

\* What is found of the register is an adapter it lacks, has too much, or untested,
\* but for the ones it does not see.
LEMMA RegisterSaysWhatDiffers ==
    ASSUME OfAdapters(run)
    PROVE  CheckRegister(run.tree, run.registered) = {} <=> AdaptersAgree
<1> DEFINE InOneFile(p) == \E g \in ShippedFiles(p) : AllThree(g.methods)
<1>1. \A p : p \in Implementations(run.tree) <=> InOneFile(p)
    <2>1. \A methods : AllThree(methods) <=> \E m \in methods : {m[1]} \X operations \subseteq methods
        BY DEF AllThree
    <2>2. QED
        BY <2>1 DEF OfAdapters, Implementations, Scan, Complete, ShippedFiles
<1>2. \A p : p \in Covered(run.tree) <=> IsTested(p)
    BY DEF OfAdapters, Covered, Scan, RunsTheSuite, IsTested
<1>3. {f.pkg : f \in {f \in run.tree : Implements(f.pkg)}} \ Spread = Implementations(run.tree)
    <2>1. \A p : InOneFile(p) => Implements(p)
        BY DEF Implements, AllThree
    <2>2. \A p : InOneFile(p) => \E f \in run.tree : f.pkg = p
        BY DEF ShippedFiles
    <2> HIDE DEF InOneFile
    <2>3. Spread = {f.pkg : f \in {f \in run.tree : Implements(f.pkg) /\ ~InOneFile(f.pkg)}}
        BY DEF Spread, InOneFile
    <2>4. QED
        BY <1>1, <2>1, <2>2, <2>3
<1>4. CheckRegister(run.tree, run.registered) = {} <=>
          /\ Implementations(run.tree) = run.registered
          /\ run.registered \cap Implementations(run.tree) \subseteq Covered(run.tree)
    BY DEF CheckRegister
<1> QED
    BY <1>2, <1>3, <1>4 DEF AdaptersAgree

-----------------------------------------------------------------------------
(* sourcecheck                                                               *)

\* What is left of a comment after what an analyser reads of it is three words
\* long exactly when the comment gives a reason.
LEMMA ReasonsAreCounted ==
    ASSUME NEW c \in Comment, c.directive \in Source!directives
    PROVE  Len(Source!split(c)) >= Source!minimumReasonWords <=> Explains(c)
<1> DEFINE n == Len(c.words)
           Twice(k) == k \in 1..n /\ c.words[k] = "//"
           identified == c.directive \in Source!Identified
<1>1. c.words \in Seq(STRING) /\ n \in Nat /\ DOMAIN c.words = 1..n
    BY DEF Comment
<1>2. c.against \in {"nothing", ":", ":list", "//", "//word"} /\ c.directive # "none"
    BY DEF Comment, Source!directives, Source!Identified
<1>3. \A k \in 1..n : c.words[k] = "//" => /\ c.against \notin {"//", "//word"}
                                        /\ \A j \in 1..n : c.words[j] = "//" => j = k
    BY <1>1 DEF Comment
<1>4. Explains(c) <=> \/ ~identified /\ c.against = "//word" /\ n >= 2
                      \/ \E k \in 1..n : /\ n >= k + 2 /\ c.words[k] # "//"
                                         /\ identified /\ c.against = "nothing" => k > 1
    BY <1>1 DEF Explains
\* Three words are left behind the first place, or the second, that is not skipped.
<1>5. (\E k \in 1..n : n >= k + 2 /\ c.words[k] # "//") <=>
          IF n >= 1 /\ c.words[1] = "//" THEN n - 1 >= 3 ELSE n >= 3
    <2>1. CASE n >= 1 /\ c.words[1] = "//"
        <3>1. \A k \in 1..n : c.words[k] = "//" => k = 1
            BY <1>1, <1>3, <2>1
        <3>2. n >= 4 => 2 \in 1..n /\ n >= 2 + 2 /\ c.words[2] # "//"
            BY <1>1, <3>1
        <3>3. QED
            BY <1>1, <2>1, <3>2
    <2>2. CASE ~(n >= 1 /\ c.words[1] = "//")
        <3>1. n >= 3 => 1 \in 1..n /\ n >= 1 + 2 /\ c.words[1] # "//"
            BY <1>1, <2>2
        <3>2. QED
            BY <1>1, <2>2, <3>1
    <2>3. QED
        BY <2>1, <2>2
<1>6. (\E k \in 1..n : n >= k + 2 /\ c.words[k] # "//" /\ k > 1) <=>
          IF n >= 2 /\ c.words[2] = "//" THEN n - 2 >= 3 ELSE n - 1 >= 3
    <2>1. CASE n >= 2 /\ c.words[2] = "//"
        <3>1. \A k \in 1..n : c.words[k] = "//" => k = 2
            BY <1>1, <1>3, <2>1
        <3>2. n >= 5 => 3 \in 1..n /\ n >= 3 + 2 /\ c.words[3] # "//" /\ 3 > 1
            BY <1>1, <3>1
        <3>3. QED
            BY <1>1, <2>1, <3>2
    <2>2. CASE ~(n >= 2 /\ c.words[2] = "//")
        <3>1. n >= 4 => 2 \in 1..n /\ n >= 2 + 2 /\ c.words[2] # "//" /\ 2 > 1
            BY <1>1, <2>2
        <3>2. QED
            BY <1>1, <2>2, <3>1
    <2>3. QED
        BY <2>1, <2>2
<1> DEFINE written == Source!Against(c) \o c.words
           after == IF c.against \in {":list", ":"} THEN c.words
                    ELSE IF identified /\ written # <<>> THEN Tail(written) ELSE written
           left(s) == IF s # <<>> /\ Head(s) = "//" THEN Tail(s) ELSE s
<1>7. Source!split(c) = left(after)
    BY DEF Source!split
<1>8. /\ Len(left(c.words)) = IF n >= 1 /\ c.words[1] = "//" THEN n - 1 ELSE n
      /\ n > 0 => Len(left(Tail(c.words))) = IF n >= 2 /\ c.words[2] = "//" THEN n - 2 ELSE n - 1
    <2>1. ASSUME NEW s \in Seq(STRING)
          PROVE  Len(left(s)) = IF Len(s) >= 1 /\ s[1] = "//" THEN Len(s) - 1 ELSE Len(s)
        <3>1. s # <<>> <=> Len(s) >= 1
            OBVIOUS
        <3>2. s # <<>> => Head(s) = s[1] /\ Len(Tail(s)) = Len(s) - 1
            OBVIOUS
        <3>3. QED
            BY <3>1, <3>2
    <2> DEFINE w == c.words
    <2> HIDE DEF left
    <2>2. w \in Seq(STRING) /\ Len(w) = n
        BY <1>1
    <2> HIDE DEF w, n
    <2>3. n > 0 => Tail(w) \in Seq(STRING) /\ Len(Tail(w)) = n - 1 /\ (n >= 2 => Tail(w)[1] = w[2])
        BY <2>2
    <2>4. n \in Nat
        BY <2>2
    <2>5. /\ Len(left(w)) = IF n >= 1 /\ w[1] = "//" THEN n - 1 ELSE n
          /\ n > 0 => Len(left(Tail(w))) = IF n >= 2 /\ w[2] = "//" THEN n - 2 ELSE n - 1
        <3>1. Len(left(w)) = IF n >= 1 /\ w[1] = "//" THEN n - 1 ELSE n
            BY <2>1, <2>2
        <3>2. ASSUME n > 0
              PROVE  Len(left(Tail(w))) = IF n >= 2 /\ w[2] = "//" THEN n - 2 ELSE n - 1
            <4>1. Len(left(Tail(w))) = IF n - 1 >= 1 /\ Tail(w)[1] = "//" THEN (n - 1) - 1 ELSE n - 1
                BY <2>1, <2>3, <3>2
            <4>2. (n - 1 >= 1 <=> n >= 2) /\ (n - 1) - 1 = n - 2
                BY <2>4
            <4>3. QED
                BY <2>3, <3>2, <4>1, <4>2
        <3>3. QED
            BY <3>1, <3>2
    <2>6. QED
        BY <2>5 DEF w
<1>9. Source!minimumReasonWords = 3
    BY DEF Source!minimumReasonWords
<1> HIDE DEF identified, left, n
<1>10. CASE c.against \in {":", ":list"} \/ (c.against = "nothing" /\ ~identified)
    <2>1. after = c.words
        <3>1. CASE c.against = "nothing" /\ ~identified
            <4>1. written = <<>> \o c.words /\ <<>> \o c.words = c.words
                BY <1>1, <3>1 DEF Source!Against
            <4>2. QED
                BY <3>1, <4>1
        <3>2. CASE c.against \in {":", ":list"}
            BY <3>2
        <3>3. QED
            BY <1>10, <3>1, <3>2
    <2> HIDE DEF after
    <2>2. Explains(c) <=> \E k \in 1..n : n >= k + 2 /\ c.words[k] # "//"
        BY <1>4, <1>10, Zenon
    <2>3. QED
        BY <1>1, <1>5, <1>7, <1>8, <1>9, <2>1, <2>2
<1>11. CASE c.against = "nothing" /\ identified
    <2>1. written = <<>> \o c.words /\ <<>> \o c.words = c.words
        BY <1>1, <1>11 DEF Source!Against
    <2>2. Explains(c) <=> \E k \in 1..n : n >= k + 2 /\ c.words[k] # "//" /\ k > 1
        BY <1>4, <1>11, Zenon
    <2>3. CASE n = 0
        <3>1. after = <<>> /\ left(<<>>) = <<>>
            BY <1>1, <1>11, <2>1, <2>3 DEF left, n
        <3> HIDE DEF after
        <3>2. Len(Source!split(c)) = 0
            BY <1>7, <3>1
        <3>3. QED
            BY <1>9, <2>2, <2>3, <3>2
    <2>4. CASE n > 0
        <3>1. after = Tail(c.words)
            BY <1>1, <1>11, <2>1, <2>4 DEF n
        <3> HIDE DEF after
        <3>2. QED
            BY <1>1, <1>6, <1>7, <1>8, <1>9, <2>2, <2>4, <3>1
    <2>5. QED
        BY <1>1, <2>3, <2>4
<1>12. CASE c.against \in {"//", "//word"}
    <2>1. Source!Against(c) = <<c.against>>
        <3>1. c.against # "nothing"
            BY <1>12
        <3>2. QED
            BY <3>1 DEF Source!Against
    <2> DEFINE W == STRING \cup {c.against}
    <2>2. /\ written \in Seq(W) /\ Len(written) = n + 1 /\ written # <<>>
          /\ Tail(written) = c.words /\ Head(written) = c.against
        <3>1. c.words \in Seq(W) /\ <<c.against>> \in Seq(W)
            BY <1>1
        <3> HIDE DEF W
        <3>2. QED
            BY <1>1, <2>1, <3>1 DEF n
    <2> HIDE DEF written
    <2>3. left(c.words) = c.words
        BY <1>1, <1>3, <1>12 DEF left, n
    <2>4. CASE identified \/ c.against = "//"
        <3>1. left(after) = c.words
            <4>1. CASE identified
                <5>1. after = c.words
                    BY <1>12, <2>2, <4>1
                <5>2. QED
                    BY <2>3, <5>1
            <4>2. CASE ~identified /\ c.against = "//"
                <5>1. after = written
                    BY <4>2
                <5>2. QED
                    BY <2>2, <4>2, <5>1 DEF left
            <4>3. QED
                BY <2>4, <4>1, <4>2
        <3>2. Explains(c) <=> \E k \in 1..n : n >= k + 2 /\ c.words[k] # "//"
            BY <1>4, <1>12, <2>4
        <3>3. ~(n >= 1 /\ c.words[1] = "//")
            BY <1>1, <1>3, <1>12
        <3> HIDE DEF after
        <3>4. QED
            BY <1>5, <1>7, <1>9, <3>1, <3>2, <3>3 DEF n
    <2>5. CASE ~identified /\ c.against = "//word"
        <3>1. left(after) = written
            BY <2>2, <2>5 DEF left
        <3>2. Explains(c) <=> n >= 2 \/ \E k \in 1..n : n >= k + 2 /\ c.words[k] # "//"
            BY <1>4, <2>5
        <3> HIDE DEF after
        <3>3. Len(Source!split(c)) = n + 1
            BY <1>7, <2>2, <3>1
        <3>4. QED
            BY <1>1, <1>5, <1>9, <3>2, <3>3
    <2>6. QED
        BY <1>12, <2>4, <2>5
<1> QED
    BY <1>2, <1>10, <1>11, <1>12

\* What sourcecheck finds is a suppression or a discard without its reason.
LEMMA BareSaysWhatIsUnexplained ==
    ASSUME OfSource(run)
    PROVE  Source!BareInTree(Read(run.tree)) = {} <=> ReasonsAgree
<1>1. ASSUME NEW f \in Read(run.tree), NEW n \in DOMAIN f.source
      PROVE  n \notin Source!Bare(f.source) <=>
                (f.source[n].comment.directive # "none" \/ Source!discardsACallResult(f.source[n].assign)
                    => Explains(f.source[n].comment))
    <2> DEFINE c == f.source[n].comment
               discards == Source!discardsACallResult(f.source[n].assign)
    <2>1. f \in run.tree
        BY DEF Read
    <2>2. c \in Comment
        <3> DEFINE L == [assign : [left : Seq(STRING), right : Seq(STRING)], comment : Comment]
        <3>1. f.source \in Seq(L) /\ \A l \in L : l.comment \in Comment
            BY <2>1 DEF OfSource
        <3> HIDE DEF L
        <3>2. f.source[n] \in L
            BY <3>1
        <3>3. QED
            BY <3>1, <3>2
    <2>3. n \in Source!Bare(f.source) <=>
             \/ c.directive \in Source!directives /\ Len(Source!split(c)) < Source!minimumReasonWords
             \/ discards /\ Source!words(c) < Source!minimumReasonWords
        BY DEF Source!Bare
    <2> HIDE DEF c, discards
    <2>4. Len(c.words) \in Nat /\ DOMAIN c.words = 1..Len(c.words)
        BY <2>2 DEF Comment
    <2>5. Len(Source!split(c)) \in Nat
        OBVIOUS
    <2>6. CASE c.directive = "none"
        <3>1. c.against = "nothing" /\ \A k \in DOMAIN c.words : c.words[k] # "//"
            BY <2>2, <2>6 DEF Comment
        <3>2. c.directive \notin Source!directives /\ c.directive \notin Source!Identified
            BY <2>6 DEF Source!directives, Source!Identified
        <3>3. Explains(c) <=> Len(c.words) >= 3
            <4>1. Explains(c) <=> \E k \in 1..Len(c.words) : Len(c.words) >= k + 2
                BY <2>4, <3>1, <3>2 DEF Explains
            <4>2. Len(c.words) >= 3 => 1 \in 1..Len(c.words) /\ Len(c.words) >= 1 + 2
                BY <2>4
            <4>3. QED
                BY <2>4, <4>1, <4>2
        <3>4. QED
            BY <2>3, <2>4, <2>6, <3>2, <3>3 DEF Source!words, Source!minimumReasonWords, c, discards
    <2>7. CASE c.directive # "none"
        <3>1. c.directive \in Source!directives
            BY <2>2, <2>7 DEF Comment
        <3>2. Len(Source!split(c)) >= Source!minimumReasonWords <=> Explains(c)
            BY <2>2, <3>1, ReasonsAreCounted
        <3>3. Explains(c) => Source!words(c) >= 3
            BY <2>4, <2>7 DEF Explains, Source!words
        <3>4. QED
            BY <2>3, <2>4, <2>5, <2>7, <3>1, <3>2, <3>3 DEF Source!words, Source!minimumReasonWords, c, discards
    <2>8. QED
        BY <2>6, <2>7
<1>2. Source!BareInTree(Read(run.tree)) = {} <=>
          \A f \in Read(run.tree) : \A n \in DOMAIN f.source : n \notin Source!Bare(f.source)
    <2>1. Source!BareInTree(Read(run.tree)) = {} <=> \A f \in Read(run.tree) : Source!Bare(f.source) = {}
        <3>1. ASSUME NEW f \in Read(run.tree), NEW n \in Source!Bare(f.source)
              PROVE  [file |-> f, line |-> n] \in Source!BareInTree(Read(run.tree))
            <4>1. [file |-> f, line |-> n] \in {[file |-> f, line |-> k] : k \in Source!Bare(f.source)}
                OBVIOUS
            <4>2. QED
                BY <4>1 DEF Source!BareInTree
        <3>2. ASSUME NEW b \in Source!BareInTree(Read(run.tree))
              PROVE  \E f \in Read(run.tree) : Source!Bare(f.source) # {}
            BY Zenon DEF Source!BareInTree
        <3>3. QED
            BY <3>1, <3>2, Zenon
    <2>2. \A f \in Read(run.tree) : Source!Bare(f.source) \subseteq DOMAIN f.source
        BY DEF Source!Bare
    <2>3. QED
        BY <2>1, <2>2
<1> QED
    BY <1>1, <1>2 DEF ReasonsAgree

-----------------------------------------------------------------------------
(* prhygiene                                                                 *)

\* The digits counted behind a character are digits, and no other follows them.
LEMMA DigitsEnd ==
    ASSUME NEW text \in Seq(STRING), NEW i \in DOMAIN text
    PROVE  LET d == Pr!Digits(text, i)
           IN  /\ d \in 0..(Len(text) - i)
               /\ \A k \in 1..d : Pr!IsDigit(text[i + k])
               /\ d < Len(text) - i => ~Pr!IsDigit(text[i + d + 1])
<1> DEFINE S == {n \in 0..(Len(text) - i) : \A k \in 1..n : Pr!IsDigit(text[i + k])}
<1>1. i \in 1..Len(text) /\ Len(text) \in Nat /\ Len(text) - i \in Nat
    OBVIOUS
<1>2. 0 \in S /\ S \in SUBSET Nat
    BY <1>1
<1>3. PICK n \in S : n + 1 \notin S
    <2>1. Len(text) - i + 1 \in Nat /\ Len(text) - i + 1 \notin S
        BY <1>1
    <2> HIDE DEF S
    <2>2. QED
        BY <1>2, <2>1, FromZero
<1>4. \A m \in S : n >= m
    <2> SUFFICES ASSUME NEW m \in S, ~(n >= m)
                 PROVE  FALSE
        OBVIOUS
    <2>1. n \in Nat /\ m \in Nat /\ n + 1 <= m /\ m <= Len(text) - i
        BY <1>1
    <2>2. n + 1 \in 0..(Len(text) - i) /\ \A k \in 1..(n + 1) : k \in 1..m
        BY <1>1, <2>1
    <2>3. QED
        BY <1>3, <2>2
<1>5. \A m \in S : (\A y \in S : m >= y) => m = n
    <2>1. n \in Nat /\ \A m \in S : m \in Nat
        BY <1>2
    <2> HIDE DEF S
    <2>2. QED
        BY <1>3, <1>4, <2>1
<1>6. Pr!Digits(text, i) = n
    <2>1. Pr!Digits(text, i) = CHOOSE m \in S : \A y \in S : m >= y
        BY DEF Pr!Digits, Pr!Max
    <2> HIDE DEF S
    <2>2. QED
        BY <1>4, <1>5, <2>1, Zenon
<1>7. n < Len(text) - i => ~Pr!IsDigit(text[i + n + 1])
    <2> SUFFICES ASSUME n < Len(text) - i, Pr!IsDigit(text[i + n + 1])
                 PROVE  FALSE
        OBVIOUS
    <2>1. n \in Nat /\ n + 1 \in 0..(Len(text) - i) /\ i + (n + 1) = i + n + 1
        BY <1>1, <1>2
    <2>2. \A k \in 1..(n + 1) : k \in 1..n \/ k = n + 1
        BY <2>1
    <2>3. QED
        BY <1>3, <2>1, <2>2
<1> QED
    BY <1>6, <1>7

\* What the scan for a reference finds is the number of an issue.
LEMMA ReferenceIsAnIssue ==
    ASSUME NEW text \in Seq(STRING)
    PROVE  Pr!HasReference(text) <=> NamesAnIssue(text)
<1>1. DOMAIN text = 1..Len(text) /\ Len(text) \in Nat
    OBVIOUS
<1>2. \A ch : /\ Pr!IsDigit(ch) <=> ch \in {"0", "digit"}
              /\ Pr!isLetterOrDigit(ch) <=> ch \in {"0", "digit", "letter"}
    BY DEF Pr!IsDigit, Pr!isLetterOrDigit
<1>3. ASSUME Pr!HasReference(text)
      PROVE  NamesAnIssue(text)
    <2> DEFINE d(i) == Pr!Digits(text, i)
    <2>1. PICK i \in DOMAIN text :
              /\ text[i] = "#"
              /\ i > 1 => ~Pr!isLetterOrDigit(text[i - 1])
              /\ d(i) > 0 /\ text[i + 1] # "0"
              /\ i + 1 + d(i) <= Len(text) => ~Pr!isLetterOrDigit(text[i + 1 + d(i)])
        BY <1>3 DEF Pr!HasReference
    <2>2. d(i) \in 0..(Len(text) - i) /\ \A k \in 1..d(i) : Pr!IsDigit(text[i + k])
        BY DigitsEnd
    <2> HIDE DEF d
    <2>3. i + 1 \in DOMAIN text /\ i + d(i) \in DOMAIN text /\ 1 < i + 1 /\ i + 1 <= i + d(i)
          /\ (i + 1) - 1 = i /\ (i + 1) - 2 = i - 1 /\ (i + d(i)) + 1 = i + 1 + d(i)
        BY <1>1, <2>1, <2>2
    <2>4. ASSUME NEW k \in i + 1 .. i + d(i)
          PROVE  text[k] \in {"0", "digit"}
        <3>1. k - i \in 1..d(i) /\ i + (k - i) = k
            BY <1>1, <2>2
        <3>2. QED
            BY <1>2, <2>2, <3>1
    <2>5. \A k \in {i - 1, i + 1 + d(i)} \cap DOMAIN text : text[k] \notin {"0", "digit", "letter"}
        BY <1>1, <1>2, <2>1, <2>2
    <2>6. QED
        BY <2>1, <2>3, <2>4, <2>5 DEF NamesAnIssue
<1>4. ASSUME NamesAnIssue(text)
      PROVE  Pr!HasReference(text)
    <2>1. PICK i \in DOMAIN text, j \in DOMAIN text :
              /\ 1 < i /\ i <= j /\ text[i - 1] = "#" /\ text[i] # "0"
              /\ \A k \in i..j : text[k] \in {"0", "digit"}
              /\ \A k \in {i - 2, j + 1} \cap DOMAIN text : text[k] \notin {"0", "digit", "letter"}
        BY <1>4 DEF NamesAnIssue
    <2> DEFINE h == i - 1
               d == Pr!Digits(text, h)
    <2>2. h \in DOMAIN text /\ h + 1 = i /\ h - 1 = i - 2
        BY <1>1, <2>1
    <2>3. /\ d \in 0..(Len(text) - h) /\ \A k \in 1..d : Pr!IsDigit(text[h + k])
          /\ d < Len(text) - h => ~Pr!IsDigit(text[h + d + 1])
        BY <2>2, DigitsEnd
    <2> HIDE DEF h, d
    <2>4. d = j - h
        <3>1. ASSUME d < j - h
              PROVE  FALSE
            <4>1. h + d + 1 \in i..j /\ d < Len(text) - h
                BY <1>1, <2>1, <2>2, <2>3, <3>1
            <4>2. QED
                BY <1>2, <2>1, <2>3, <4>1
        <3>2. ASSUME d > j - h
              PROVE  FALSE
            <4>1. j - h + 1 \in 1..d /\ h + (j - h + 1) = j + 1 /\ j + 1 \in DOMAIN text
                <5>1. h \in Nat /\ j \in Nat /\ d \in Nat /\ d <= Len(text) - h /\ h + 1 <= j /\ h + 1 = i
                    BY <1>1, <2>1, <2>2, <2>3
                <5>2. QED
                    BY <1>1, <3>2, <5>1
            <4>2. QED
                BY <1>2, <2>1, <2>3, <4>1
        <3>3. QED
            BY <1>1, <2>1, <2>2, <2>3, <3>1, <3>2
    <2>5. d > 0 /\ h + 1 + d = j + 1 /\ text[h] = "#" /\ text[h + 1] # "0"
        BY <1>1, <2>1, <2>2, <2>4 DEF h
    <2>6. h > 1 => ~Pr!isLetterOrDigit(text[h - 1])
        <3>1. h > 1 => i - 2 \in {i - 2, j + 1} \cap DOMAIN text
            BY <1>1, <2>1, <2>2
        <3>2. QED
            BY <1>2, <2>1, <2>2, <3>1
    <2>7. j + 1 <= Len(text) => ~Pr!isLetterOrDigit(text[j + 1])
        <3>1. j + 1 <= Len(text) => j + 1 \in {i - 2, j + 1} \cap DOMAIN text
            BY <1>1, <2>1
        <3>2. QED
            BY <1>2, <2>1, <3>1
    <2>8. QED
        BY <2>2, <2>5, <2>6, <2>7 DEF Pr!HasReference, d
<1> QED
    BY <1>3, <1>4

\* What a pull request is refused for is a text in which no issue is named.
LEMMA RequestSaysWhatIsMissing ==
    ASSUME OfRequest(run), Pr!ParsesLog(run.log)
    PROVE  Pr!JudgeRequest(run).refusals = {} <=> RequestAgrees
<1> DEFINE L == [parents : Nat, tab : BOOLEAN, subject : Seq(STRING)]
           log == run.log
           commits == Pr!Commits(log)
<1>1. log \in Seq(L) /\ run.body \in Seq(STRING)
    BY DEF OfRequest
<1>2. \A k \in DOMAIN log : log[k] \in L /\ log[k].subject \in Seq(STRING) /\ log[k].parents \in Nat
    <2> HIDE DEF log
    <2>1. \A k \in DOMAIN log : log[k] \in L
        <3> HIDE DEF L
        <3>1. QED
            BY <1>1
    <2>2. \A l \in L : l.subject \in Seq(STRING) /\ l.parents \in Nat
        OBVIOUS
    <2>3. QED
        BY <2>1, <2>2
<1>3. \A k \in DOMAIN log : k \in commits <=> log[k].tab /\ (log[k].parents > 0 \/ log[k].subject # <<>>)
    <2>1. \A k \in DOMAIN log : k \in commits <=> (log[k].parents > 0 \/ log[k].subject # <<>>)
        BY <1>2 DEF Pr!Commits, Pr!Empty
    <2>2. \A k \in commits : log[k].tab
        BY DEF Pr!ParsesLog
    <2>3. QED
        BY <2>1, <2>2
<1>4. commits \subseteq DOMAIN log
    BY DEF Pr!Commits
<1>5. Shown = {log[k] : k \in commits}
    BY <1>3, <1>4 DEF Shown, ToSet
<1>6. Pr!JudgeRequest(run).refusals = {} <=>
          /\ Pr!HasReference(run.body) /\ commits # {}
          /\ \A k \in commits : log[k].parents > 1 \/ Pr!HasReference(log[k].subject)
    BY DEF Pr!JudgeRequest
<1>7. \A k \in commits : Pr!HasReference(log[k].subject) <=> NamesAnIssue(log[k].subject)
    BY <1>2, <1>4, ReferenceIsAnIssue
<1>8. Pr!HasReference(run.body) <=> NamesAnIssue(run.body)
    BY <1>1, ReferenceIsAnIssue
<1> HIDE DEF log, commits
<1>9. QED
    BY <1>5, <1>6, <1>7, <1>8 DEF RequestAgrees

-----------------------------------------------------------------------------
(* Taking steps one after the other, each its own                            *)

\* What comes of the first n steps of G from x, one after the other.
Takes(f, n, S, G, x) == f \in [0..n -> S] /\ f[0] = x /\ \A k \in 1..n : f[k] = G[k][f[k - 1]]

\* Whatever takes these steps is f.
TakesAlone(f, n, S, G, x) ==
    /\ Takes(f, n, S, G, x)
    /\ \A g : g[0] = x /\ (\A k \in 1..n : g[k - 1] \in S => g[k] = G[k][g[k - 1]])
                 => \A k \in 0..n : g[k] = f[k]

\* There is what comes of n steps, and only one.
LEMMA Stepped ==
    ASSUME NEW n \in Nat, NEW S, NEW x \in S, NEW G, G \in [1..n -> [S -> S]]
    PROVE  \E f : TakesAlone(f, n, S, G, x)
<1> DEFINE Upto(f, m) == f \in [0..m -> S] /\ f[0] = x /\ \A k \in 1..m : f[k] = G[k][f[k - 1]]
           T == {m \in Nat : m <= n => \E f : Upto(f, m)}
<1>1. 0 \in T
    <2>1. Upto([k \in 0..0 |-> x], 0)
        OBVIOUS
    <2>2. QED
        BY <2>1
<1>2. ASSUME NEW m \in T
      PROVE  m + 1 \in T
    <2> SUFFICES ASSUME m + 1 <= n
                 PROVE  \E f : Upto(f, m + 1)
        <3> HIDE DEF Upto
        <3>1. m \in Nat
            BY <1>2
        <3>2. QED
            BY <3>1
    <2>1. PICK f : Upto(f, m)
        BY <1>2
    <2> DEFINE h == [k \in 0..(m + 1) |-> IF k <= m THEN f[k] ELSE G[m + 1][f[m]]]
    <2>2. m \in Nat /\ f[m] \in S /\ m + 1 \in 1..n
        BY <2>1
    <2>3. h \in [0..(m + 1) -> S] /\ h[0] = x
        BY <2>1, <2>2
    <2>4. ASSUME NEW k \in 1..(m + 1)
          PROVE  h[k] = G[k][h[k - 1]]
        <3>1. CASE k <= m
            BY <2>1, <2>2, <3>1
        <3>2. CASE k = m + 1
            BY <2>2, <3>2
        <3>3. QED
            BY <2>2, <3>1, <3>2
    <2>5. QED
        BY <2>3, <2>4
<1>3. n \in T
    BY <1>1, <1>2, FromZero
<1>4. PICK f : Upto(f, n)
    BY <1>3
<1>5. ASSUME NEW g, g[0] = x, \A k \in 1..n : g[k - 1] \in S => g[k] = G[k][g[k - 1]]
      PROVE  \A k \in 0..n : g[k] = f[k]
    <2> DEFINE A == {k \in Nat : k <= n => g[k] = f[k]}
    <2>1. 0 \in A
        BY <1>4, <1>5
    <2>2. ASSUME NEW k \in A
          PROVE  k + 1 \in A
        <3> SUFFICES ASSUME k + 1 <= n
                     PROVE  g[k + 1] = f[k + 1]
            OBVIOUS
        <3>1. k + 1 \in 1..n /\ (k + 1) - 1 = k /\ k \in 0..n /\ g[k] = f[k]
            BY <2>2
        <3>2. f[k] \in S
            BY <1>4, <3>1
        <3>3. QED
            BY <1>4, <1>5, <3>1, <3>2
    <2>3. A = Nat
        BY <2>1, <2>2, FromZero
    <2>4. QED
        BY <2>3
<1>6. Takes(f, n, S, G, x)
    BY <1>4 DEF Takes
<1> QED
    BY <1>5, <1>6, Zenon DEF TakesAlone

-----------------------------------------------------------------------------
(* doclint                                                                   *)

\* What a place may be made of.
Segments == STRING \cup {"..", "outside"}

\* The places a path is cleaned through, and the ones it is followed through.
Cleans(c, path) ==
    /\ c \in [0..Len(path) -> Seq(Segments)] /\ c[0] = <<>>
    /\ \A k \in 1..Len(path) : c[k] = Doc!Cleaner(c[k - 1], path[k])
    /\ Doc!Clean(path) = c[Len(path)]

Follows(f, from, path) ==
    /\ f \in [0..Len(path) -> Seq(Segments)] /\ f[0] = from
    /\ \A k \in 1..Len(path) : f[k] = Onward(f[k - 1], path[k])
    /\ Followed(from, path) = f[Len(path)]

\* Front, Last and Append of sequences.
LEMMA Ends ==
    ASSUME NEW S, NEW s \in Seq(S)
    PROVE  /\ s # <<>> => /\ Doc!Front(s) \in Seq(S) /\ Len(Doc!Front(s)) = Len(s) - 1 /\ Front(s) = Doc!Front(s)
                          /\ \A k \in 1..(Len(s) - 1) : Doc!Front(s)[k] = s[k]
                          /\ Doc!Last(s) = s[Len(s)] /\ Len(s) \in 1..Len(s)
           /\ \A x \in S : /\ Append(s, x) \in Seq(S) /\ Len(Append(s, x)) = Len(s) + 1
                           /\ Append(s, x)[Len(s) + 1] = x
                           /\ \A k \in 1..Len(s) : Append(s, x)[k] = s[k]
<1>1. s # <<>> => Len(s) \in Nat /\ Len(s) >= 1
    OBVIOUS
<1>2. Doc!Front(s) = SubSeq(s, 1, Len(s) - 1) /\ Front(s) = SubSeq(s, 1, Len(s) - 1) /\ Doc!Last(s) = s[Len(s)]
    BY DEF Doc!Front, Doc!Last, Front
<1>3. s # <<>> => /\ SubSeq(s, 1, Len(s) - 1) \in Seq(S) /\ Len(SubSeq(s, 1, Len(s) - 1)) = Len(s) - 1
                  /\ \A k \in 1..(Len(s) - 1) : SubSeq(s, 1, Len(s) - 1)[k] = s[k]
    <2> SUFFICES ASSUME s # <<>>
                 PROVE  /\ SubSeq(s, 1, Len(s) - 1) \in Seq(S) /\ Len(SubSeq(s, 1, Len(s) - 1)) = Len(s) - 1
                        /\ \A k \in 1..(Len(s) - 1) : SubSeq(s, 1, Len(s) - 1)[k] = s[k]
        OBVIOUS
    <2> DEFINE m == Len(s) - 1
    <2>1. m \in Nat /\ (\A i \in 1..m : s[i] \in S) /\ m - 1 + 1 = m /\ (1 <= m \/ m = 0)
        <3>1. Len(s) \in Nat /\ Len(s) >= 1 /\ \A i \in 1..Len(s) : s[i] \in S
            BY <1>1
        <3> DEFINE n == Len(s)
        <3> HIDE DEF n
        <3>4. n \in Nat /\ n >= 1 /\ Len(s) = n /\ m = n - 1
            BY <3>1 DEF n
        <3> HIDE DEF m
        <3>2. m \in Nat /\ m - 1 + 1 = m /\ (1 <= m \/ m = 0) /\ \A i \in 1..m : i \in 1..n
            BY <3>4
        <3>3. QED
            BY <3>1, <3>2, <3>4
    <2> HIDE DEF m
    <2>2. /\ SubSeq(s, 1, m) \in Seq(S) /\ Len(SubSeq(s, 1, m)) = IF 1 <= m THEN m - 1 + 1 ELSE 0
          /\ \A i \in 1..(m - 1 + 1) : SubSeq(s, 1, m)[i] = s[1 + i - 1]
        BY <2>1, SubSeqProperties
    <2>3. \A i \in 1..m : 1 + i - 1 = i
        BY <2>1
    <2>4. QED
        BY <2>1, <2>2, <2>3 DEF m
<1>4. s # <<>> => Len(s) \in 1..Len(s)
    BY <1>1
<1>5. \A x \in S : /\ Append(s, x) \in Seq(S) /\ Len(Append(s, x)) = Len(s) + 1
                   /\ Append(s, x)[Len(s) + 1] = x
                   /\ \A k \in 1..Len(s) : Append(s, x)[k] = s[k]
    OBVIOUS
<1> QED
    BY <1>2, <1>3, <1>4, <1>5

\* A path is cleaned one segment at a time.
LEMMA CleanUnfolds ==
    ASSUME NEW path \in Seq(Segments)
    PROVE  \E c : Cleans(c, path)
<1> DEFINE S == Seq(Segments)
           n == Len(path)
           G == [k \in 1..n |-> [place \in S |-> Doc!Cleaner(place, path[k])]]
           Q(f) == f = [k \in 0..n |-> IF k = 0 THEN <<>> ELSE Doc!Cleaner(f[k - 1], path[k])]
           g == CHOOSE f : Q(f)
<1>1. n \in Nat /\ \A k \in 1..n : path[k] \in Segments
    OBVIOUS
<1>2. ASSUME NEW place \in S, NEW segment \in Segments
      PROVE  Doc!Cleaner(place, segment) \in S
    BY Ends DEF Doc!Cleaner
<1>3. G \in [1..n -> [S -> S]] /\ \A k \in 1..n : \A place \in S : G[k][place] = Doc!Cleaner(place, path[k])
    BY <1>1, <1>2
<1> HIDE DEF G
<1>4. <<>> \in S
    OBVIOUS
<1>5. PICK f : TakesAlone(f, n, S, G, <<>>)
    <2> HIDE DEF S, n
    <2>1. QED
        BY <1>1, <1>3, <1>4, Stepped, Zenon
<1>6. f \in [0..n -> S] /\ f[0] = <<>> /\ \A k \in 1..n : f[k] = Doc!Cleaner(f[k - 1], path[k])
    <2>1. f \in [0..n -> S] /\ f[0] = <<>> /\ \A k \in 1..n : f[k] = G[k][f[k - 1]]
        BY <1>5, Zenon DEF TakesAlone, Takes
    <2>2. \A k \in 1..n : f[k - 1] \in S
        <3> HIDE DEF S
        <3>1. QED
            BY <1>1, <2>1
    <2>3. QED
        BY <1>3, <2>1, <2>2
<1>7. Q(f)
    <2>1. \A k \in 0..n : f[k] = IF k = 0 THEN <<>> ELSE Doc!Cleaner(f[k - 1], path[k])
        BY <1>1, <1>6
    <2>2. QED
        BY <1>6, <2>1
<1>8. Q(g)
    BY <1>7
<1>9. Doc!Clean(path) = g[n]
    BY DEF Doc!Clean
<1> HIDE DEF g
<1>10. g[0] = <<>> /\ \A k \in 1..n : g[k] = Doc!Cleaner(g[k - 1], path[k])
    BY <1>1, <1>8
<1>11. \A k \in 0..n : g[k] = f[k]
    BY <1>3, <1>5, <1>10 DEF TakesAlone
<1>12. Doc!Clean(path) = f[n]
    BY <1>1, <1>9, <1>11
<1>13. Cleans(f, path)
    BY <1>6, <1>12 DEF Cleans
<1> QED
    BY <1>13

\* A path is followed one segment at a time.
LEMMA FollowUnfolds ==
    ASSUME NEW from \in Seq(Segments), NEW path \in Seq(Segments)
    PROVE  \E f : Follows(f, from, path)
<1> DEFINE S == Seq(Segments)
           n == Len(path)
           G == [k \in 1..n |-> [place \in S |-> Onward(place, path[k])]]
           Q(f) == f = [k \in 0..n |-> IF k = 0 THEN from ELSE Onward(f[k - 1], path[k])]
           g == CHOOSE f : Q(f)
<1>1. n \in Nat /\ \A k \in 1..n : path[k] \in Segments
    OBVIOUS
<1>2. ASSUME NEW place \in S, NEW segment \in Segments
      PROVE  Onward(place, segment) \in S
    <2>1. <<"outside">> \in S
        BY DEF Segments
    <2>2. place # <<>> => Front(place) \in S
        BY Ends
    <2>3. Append(place, segment) \in S
        BY Ends
    <2> HIDE DEF S
    <2>4. QED
        BY <2>1, <2>2, <2>3 DEF Onward
<1>3. G \in [1..n -> [S -> S]] /\ \A k \in 1..n : \A place \in S : G[k][place] = Onward(place, path[k])
    BY <1>1, <1>2
<1> HIDE DEF G
<1>4. PICK f : TakesAlone(f, n, S, G, from)
    <2>1. from \in S
        OBVIOUS
    <2> HIDE DEF S, n
    <2>2. QED
        BY <1>1, <1>3, <2>1, Stepped, Zenon
<1>5. f \in [0..n -> S] /\ f[0] = from /\ \A k \in 1..n : f[k] = Onward(f[k - 1], path[k])
    <2>1. f \in [0..n -> S] /\ f[0] = from /\ \A k \in 1..n : f[k] = G[k][f[k - 1]]
        BY <1>4, Zenon DEF TakesAlone, Takes
    <2>2. \A k \in 1..n : f[k - 1] \in S
        <3> HIDE DEF S
        <3>1. QED
            BY <1>1, <2>1
    <2>3. QED
        BY <1>3, <2>1, <2>2
<1>6. Q(f)
    <2>1. \A k \in 0..n : f[k] = IF k = 0 THEN from ELSE Onward(f[k - 1], path[k])
        BY <1>1, <1>5
    <2>2. QED
        BY <1>5, <2>1
<1>7. Q(g)
    BY <1>6
<1>8. Followed(from, path) = g[n]
    BY DEF Followed
<1> HIDE DEF g
<1>9. g[0] = from /\ \A k \in 1..n : g[k] = Onward(g[k - 1], path[k])
    BY <1>1, <1>7
<1>10. \A k \in 0..n : g[k] = f[k]
    BY <1>3, <1>4, <1>9 DEF TakesAlone
<1>11. Followed(from, path) = f[n]
    BY <1>1, <1>8, <1>10
<1>12. Follows(f, from, path)
    BY <1>5, <1>11 DEF Follows
<1> QED
    BY <1>12

\* The first m segments lead up, and the others name something.
Shaped(s, m) ==
    /\ m \in 0..Len(s)
    /\ \A k \in 1..m : s[k] = ".."
    /\ \A k \in (m + 1)..Len(s) : s[k] \in Plain

\* Cleaning leaves what has this shape as it is.
LEMMA CleanStands ==
    ASSUME NEW path \in Seq(Segments), NEW c, Cleans(c, path), NEW n \in 0..Len(path), NEW m \in 0..n,
           \A k \in 1..m : path[k] = "..", \A k \in (m + 1)..n : path[k] \in Plain
    PROVE  Len(c[n]) = n /\ \A k \in 1..n : c[n][k] = path[k]
<1> DEFINE Stands(k) == c[k] \in Seq(Segments) /\ Len(c[k]) = k /\ \A j \in 1..k : c[k][j] = path[j]
           T == {k \in Nat : k <= n => Stands(k)}
<1>1. Len(path) \in Nat /\ n \in Nat /\ n <= Len(path) /\ m \in Nat /\ m <= n
    OBVIOUS
<1>2. 0 \in T
    BY <1>1 DEF Cleans
<1>3. ASSUME NEW k \in T
      PROVE  k + 1 \in T
    <2> SUFFICES ASSUME k + 1 <= n
                 PROVE  Stands(k + 1)
        <3> HIDE DEF Stands
        <3>1. k \in Nat
            OBVIOUS
        <3>2. QED
            BY <3>1
    <2>1. k \in Nat /\ Stands(k)
        BY <1>1
    <2>2. k + 1 \in 1..Len(path) /\ (k + 1) - 1 = k
        BY <1>1, <2>1
    <2>3. c[k + 1] = Doc!Cleaner(c[k], path[k + 1])
        BY <2>2 DEF Cleans
    <2> DEFINE s == c[k]
               x == path[k + 1]
    <2>4. s \in Seq(Segments) /\ Len(s) = k /\ (\A j \in 1..k : s[j] = path[j]) /\ x \in Segments
        BY <2>1, <2>2
    <2> HIDE DEF s, x
    <2>5. Doc!Cleaner(s, x) = Append(s, x)
        <3>1. CASE k + 1 <= m
            <4>1. x = ".."
                BY <1>1, <2>1, <3>1 DEF x
            <4>2. s # <<>> => Doc!Last(s) = ".."
                <5>1. s # <<>> => Len(s) \in 1..Len(s) /\ Doc!Last(s) = s[Len(s)]
                    BY <2>4, Ends
                <5>2. s # <<>> => k \in 1..k /\ k \in 1..m
                    BY <1>1, <2>1, <2>4, <3>1, <5>1
                <5>3. QED
                    BY <2>4, <5>1, <5>2
            <4>3. QED
                BY <4>1, <4>2 DEF Doc!Cleaner
        <3>2. CASE k + 1 > m
            <4>1. x \in Plain
                BY <1>1, <2>1, <3>2 DEF x
            <4>2. QED
                BY <4>1 DEF Doc!Cleaner, Plain
        <3>3. QED
            BY <1>1, <2>1, <3>1, <3>2
    <2>6. /\ Append(s, x) \in Seq(Segments) /\ Len(Append(s, x)) = k + 1
          /\ \A j \in 1..(k + 1) : Append(s, x)[j] = path[j]
        <3>1. /\ Append(s, x) \in Seq(Segments) /\ Len(Append(s, x)) = Len(s) + 1
              /\ Append(s, x)[Len(s) + 1] = x /\ \A j \in 1..Len(s) : Append(s, x)[j] = s[j]
            BY <2>4, Ends
        <3>2. \A j \in 1..(k + 1) : j \in 1..k \/ j = k + 1
            BY <2>1
        <3>3. QED
            BY <2>4, <3>1, <3>2 DEF x
    <2>7. c[k + 1] = Append(s, x)
        BY <2>3, <2>5 DEF s, x
    <2>8. QED
        BY <2>6, <2>7
<1>4. n \in T
    BY <1>1, <1>2, <1>3, FromZero
<1> QED
    BY <1>1, <1>4

\* Where a path leads is what it is cleaned to, or is outside, and then what it
\* is cleaned to begins with as many steps up as it takes to get there.
Same(c, p) ==
    \/ c \in Seq(Plain) /\ p = c
    \/ \E m \in 1..Len(c) :
          /\ c \in Seq(Segments) /\ Shaped(c, m)
          /\ p \in Seq(Segments) /\ Len(p) = Len(c) - m + 1 /\ p[1] = "outside"
          /\ \A k \in 2..Len(p) : p[k] = c[m + k - 1]

\* A step further.
LEMMA SameStep ==
    ASSUME NEW c, NEW p, Same(c, p), NEW x \in Segments \ {"outside"}
    PROVE  Same(Doc!Cleaner(c, x), Onward(p, x))
<1>1. CASE x \in {"", "."}
    BY <1>1 DEF Doc!Cleaner, Onward
<1>2. CASE x \notin {"", ".", ".."}
    <2>1. x \in Plain /\ Doc!Cleaner(c, x) = Append(c, x) /\ Onward(p, x) = Append(p, x)
        BY <1>2 DEF Plain, Segments, Doc!Cleaner, Onward
    <2>2. CASE c \in Seq(Plain) /\ p = c
        BY <2>1, <2>2 DEF Same
    <2>3. ASSUME NEW m \in 1..Len(c), c \in Seq(Segments), Shaped(c, m), p \in Seq(Segments),
                 Len(p) = Len(c) - m + 1, p[1] = "outside", \A k \in 2..Len(p) : p[k] = c[m + k - 1]
          PROVE  Same(Append(c, x), Append(p, x))
        <3>1. /\ Append(c, x) \in Seq(Segments) /\ Len(Append(c, x)) = Len(c) + 1
              /\ Append(c, x)[Len(c) + 1] = x /\ \A k \in 1..Len(c) : Append(c, x)[k] = c[k]
            BY <2>3, Ends
        <3>2. /\ Append(p, x) \in Seq(Segments) /\ Len(Append(p, x)) = Len(p) + 1
              /\ Append(p, x)[Len(p) + 1] = x /\ \A k \in 1..Len(p) : Append(p, x)[k] = p[k]
            <4>1. p \in Seq(Segments) /\ x \in Segments
                BY <2>3
            <4>2. QED
                BY <4>1, Ends
        <3> DEFINE d == Append(c, x)
                   q == Append(p, x)
        <3> HIDE DEF d, q
        <3>3. Len(c) \in Nat /\ m \in Nat /\ 1 <= m /\ m <= Len(c) /\ Len(p) \in Nat
            BY <2>3
        <3>4. Shaped(d, m)
            BY <2>1, <2>3, <3>1, <3>3 DEF Shaped, d
        <3>5. m \in 1..Len(d) /\ Len(q) = Len(d) - m + 1 /\ q[1] = "outside"
            BY <2>3, <3>1, <3>2, <3>3 DEF d, q
        <3>6. ASSUME NEW k \in 2..Len(q)
              PROVE  q[k] = d[m + k - 1]
            <4>1. CASE k <= Len(p)
                <5>1. m + k - 1 \in 1..Len(c) /\ k \in 1..Len(p) /\ k \in 2..Len(p)
                    BY <2>3, <3>2, <3>3, <4>1 DEF q
                <5>2. QED
                    BY <2>3, <3>1, <3>2, <5>1 DEF q, d
            <4>2. CASE k = Len(p) + 1
                <5>1. m + k - 1 = Len(c) + 1
                    BY <2>3, <3>3, <4>2
                <5>2. QED
                    BY <3>1, <3>2, <4>2, <5>1 DEF q, d
            <4>3. QED
                BY <3>2, <3>3, <4>1, <4>2 DEF q
        <3>7. QED
            BY <3>1, <3>2, <3>4, <3>5, <3>6 DEF Same, d, q
    <2>4. QED
        BY <2>1, <2>2, <2>3 DEF Same
<1>3. CASE x = ".."
    <2>1. CASE c \in Seq(Plain) /\ p = c
        <3>1. CASE c = <<>>
            <4>1. Doc!Cleaner(c, x) = <<"..">> /\ Onward(p, x) = <<"outside">>
                BY <1>3, <2>1, <3>1 DEF Doc!Cleaner, Onward
            <4>2. Same(<<"..">>, <<"outside">>)
                <5> DEFINE d == <<"..">>
                           q == <<"outside">>
                <5>1. d \in Seq(Segments) /\ Len(d) = 1 /\ d[1] = ".." /\ q \in Seq(Segments) /\ Len(q) = 1 /\ q[1] = "outside"
                    BY DEF Segments
                <5> HIDE DEF d, q
                <5>2. Shaped(d, 1) /\ 1 \in 1..Len(d) /\ Len(q) = Len(d) - 1 + 1 /\ \A k \in 2..Len(q) : q[k] = d[1 + k - 1]
                    BY <5>1 DEF Shaped
                <5>3. Same(d, q)
                    BY <5>1, <5>2 DEF Same
                <5>4. QED
                    BY <5>3 DEF d, q
            <4>3. QED
                BY <4>1, <4>2
        <3>2. CASE c # <<>>
            <4>1. Doc!Last(c) = c[Len(c)] /\ Len(c) \in 1..Len(c) /\ Front(c) = Doc!Front(c) /\ Front(c) \in Seq(Plain)
                BY <2>1, <3>2, Ends
            <4>2. c[Len(c)] \in Plain /\ c[1] \in Plain
                BY <2>1, <4>1
            <4>3. Doc!Last(c) # ".." /\ c # <<"outside">>
                <5>1. c[Len(c)] # ".." /\ c[1] # "outside"
                    BY <4>2 DEF Plain
                <5>2. QED
                    BY <4>1, <5>1
            <4>4. Doc!Cleaner(c, x) = Front(c) /\ Onward(p, x) = Front(c)
                BY <1>3, <2>1, <3>2, <4>1, <4>3 DEF Doc!Cleaner, Onward
            <4>5. QED
                BY <4>1, <4>4 DEF Same
        <3>3. QED
            BY <3>1, <3>2
    <2>2. ASSUME NEW m \in 1..Len(c), c \in Seq(Segments), Shaped(c, m), p \in Seq(Segments),
                 Len(p) = Len(c) - m + 1, p[1] = "outside", \A k \in 2..Len(p) : p[k] = c[m + k - 1]
          PROVE  Same(Doc!Cleaner(c, x), Onward(p, x))
        <3>1. Len(c) \in Nat /\ m \in Nat /\ 1 <= m /\ m <= Len(c) /\ Len(p) \in Nat /\ c # <<>> /\ p # <<>>
            BY <2>2
        <3>2. Doc!Last(c) = c[Len(c)]
            BY <2>2, <3>1, Ends
        <3>3. CASE m = Len(c)
            <4>1. Doc!Last(c) = ".."
                BY <2>2, <3>1, <3>2, <3>3 DEF Shaped
            <4>2. p = <<"outside">>
                BY <2>2, <3>1, <3>3
            <4>3. Doc!Cleaner(c, x) = Append(c, x) /\ Onward(p, x) = <<"outside">>
                BY <1>3, <4>1, <4>2 DEF Doc!Cleaner, Onward
            <4>4. /\ Append(c, x) \in Seq(Segments) /\ Len(Append(c, x)) = Len(c) + 1
                  /\ Append(c, x)[Len(c) + 1] = x /\ \A k \in 1..Len(c) : Append(c, x)[k] = c[k]
                BY <2>2, Ends
            <4> DEFINE d == Append(c, x)
                       q == <<"outside">>
            <4> HIDE DEF d
            <4>5. Shaped(d, m + 1) /\ m + 1 \in 1..Len(d)
                BY <1>3, <2>2, <3>1, <3>3, <4>4 DEF Shaped, d
            <4>6. q \in Seq(Segments) /\ Len(q) = 1 /\ q[1] = "outside"
                BY DEF Segments
            <4> HIDE DEF q
            <4>7. Len(q) = Len(d) - (m + 1) + 1 /\ \A k \in 2..Len(q) : q[k] = d[(m + 1) + k - 1]
                BY <3>1, <3>3, <4>4, <4>6 DEF d
            <4>8. Same(d, q)
                BY <4>4, <4>5, <4>6, <4>7 DEF Same, d
            <4>9. QED
                BY <4>3, <4>8 DEF d, q
        <3>4. CASE m < Len(c)
            <4>1. Doc!Last(c) # ".."
                <5>1. Len(c) \in (m + 1)..Len(c)
                    BY <3>1, <3>4
                <5>2. c[Len(c)] \in Plain
                    BY <2>2, <5>1 DEF Shaped
                <5>3. QED
                    BY <3>2, <5>2 DEF Plain
            <4>2. p # <<"outside">>
                BY <2>2, <3>1, <3>4
            <4>3. Doc!Cleaner(c, x) = Doc!Front(c) /\ Onward(p, x) = Front(p)
                BY <1>3, <3>1, <4>1, <4>2 DEF Doc!Cleaner, Onward
            <4>4. /\ Doc!Front(c) \in Seq(Segments) /\ Len(Doc!Front(c)) = Len(c) - 1
                  /\ \A k \in 1..(Len(c) - 1) : Doc!Front(c)[k] = c[k]
                BY <2>2, <3>1, Ends
            <4>5. /\ Front(p) \in Seq(Segments) /\ Len(Front(p)) = Len(p) - 1
                  /\ \A k \in 1..(Len(p) - 1) : Front(p)[k] = p[k]
                <5>1. p \in Seq(Segments) /\ p # <<>>
                    BY <2>2, <3>1
                <5>2. Front(p) = Doc!Front(p)
                    BY <5>1, Ends
                <5>3. QED
                    BY <5>1, <5>2, Ends
            <4> DEFINE d == Doc!Front(c)
                       q == Front(p)
            <4> HIDE DEF d, q
            <4>6. Shaped(d, m) /\ m \in 1..Len(d)
                <5>1. m \in 1..Len(d) /\ m \in 0..Len(d) /\ (\A k \in 1..m : k \in 1..(Len(c) - 1))
                      /\ \A k \in (m + 1)..Len(d) : k \in (m + 1)..Len(c) /\ k \in 1..(Len(c) - 1)
                    BY <3>1, <3>4, <4>4 DEF d
                <5>2. QED
                    BY <2>2, <4>4, <5>1 DEF Shaped, d
            <4>7. Len(q) = Len(d) - m + 1 /\ q[1] = "outside"
                <5>1. 1 \in 1..(Len(p) - 1)
                    BY <2>2, <3>1, <3>4
                <5>2. q[1] = p[1]
                    BY <4>5, <5>1 DEF q
                <5>3. QED
                    BY <2>2, <3>1, <4>4, <4>5, <5>2 DEF d, q
            <4>8. ASSUME NEW k \in 2..Len(q)
                  PROVE  q[k] = d[m + k - 1]
                <5>1. k \in 2..Len(p) /\ k \in 1..(Len(p) - 1) /\ m + k - 1 \in 1..(Len(c) - 1)
                    BY <2>2, <3>1, <4>5 DEF q
                <5>2. QED
                    BY <2>2, <4>4, <4>5, <5>1 DEF q, d
            <4>9. Same(d, q)
                BY <4>4, <4>5, <4>6, <4>7, <4>8 DEF Same, d, q
            <4>10. QED
                BY <4>3, <4>9 DEF d, q
        <3>5. QED
            BY <3>1, <3>3, <3>4
    <2>3. QED
        BY <2>1, <2>2 DEF Same
<1> QED
    BY <1>1, <1>2, <1>3

\* What a path is made of is a segment.
LEMMA PathsAreSegments ==
    /\ \A s \in Seq(Plain) : s \in Seq(Segments)
    /\ \A s \in Seq(STRING \ {"outside"}) : s \in Seq(Segments)
<1>1. Plain \subseteq Segments /\ STRING \ {"outside"} \subseteq Segments
    BY DEF Plain, Segments
<1>2. \A S, T : S \subseteq T => \A s \in Seq(S) : s \in Seq(T)
    OBVIOUS
<1> QED
    BY <1>1, <1>2

\* A path leads where it is cleaned to.
LEMMA LeadsWhereItIsCleanedTo ==
    ASSUME NEW from \in Seq(Plain), NEW path \in Seq(STRING \ {"outside"})
    PROVE  Same(Doc!Clean(from \o path), Followed(from, path))
<1> DEFINE full == from \o path
           n == Len(from)
<1>1. /\ full \in Seq(Segments) /\ from \in Seq(Segments) /\ path \in Seq(Segments)
      /\ Len(full) = n + Len(path) /\ n \in Nat /\ Len(path) \in Nat
      /\ \A k \in 1..n : full[k] = from[k] /\ from[k] \in Plain
      /\ \A k \in 1..Len(path) : full[n + k] = path[k] /\ path[k] \in STRING \ {"outside"}
    <2> DEFINE P == STRING \ {"outside"}
    <2>1. from \in Seq(Segments) /\ path \in Seq(Segments) /\ path \in Seq(P)
        BY PathsAreSegments
    <2> HIDE DEF P
    <2>2. \A k \in 1..Len(from) : from[k] \in Plain
        OBVIOUS
    <2>3. \A k \in 1..Len(path) : path[k] \in P
        BY <2>1
    <2>4. /\ from \o path \in Seq(Segments) /\ Len(from \o path) = Len(from) + Len(path)
          /\ Len(from) \in Nat /\ Len(path) \in Nat
          /\ \A k \in 1..Len(from) + Len(path) : (from \o path)[k] = IF k <= Len(from) THEN from[k] ELSE path[k - Len(from)]
        BY <2>1
    <2> HIDE DEF full, n
    <2>5. full \in Seq(Segments) /\ Len(full) = n + Len(path) /\ n \in Nat /\ Len(path) \in Nat /\ Len(from) = n
          /\ \A k \in 1..n + Len(path) : full[k] = IF k <= n THEN from[k] ELSE path[k - n]
        BY <2>4 DEF full, n
    <2>6. \A k \in 1..n : full[k] = from[k] /\ from[k] \in Plain
        BY <2>2, <2>5
    <2>7. ASSUME NEW k \in 1..Len(path)
          PROVE  full[n + k] = path[k]
        <3>1. n + k \in 1..n + Len(path) /\ ~(n + k <= n) /\ (n + k) - n = k
            BY <2>5
        <3>2. QED
            BY <2>5, <3>1
    <2>8. QED
        BY <2>1, <2>3, <2>5, <2>6, <2>7 DEF P
<1> HIDE DEF full, n
<1>2. PICK c : Cleans(c, full)
    BY <1>1, CleanUnfolds
<1>3. PICK f : Follows(f, from, path)
    BY <1>1, FollowUnfolds
<1>4. c[n] = from
    <2>1. Len(c[n]) = n /\ \A k \in 1..n : c[n][k] = full[k]
        <3>1. full \in Seq(Segments) /\ n \in 0..Len(full) /\ 0 \in 0..n
            BY <1>1
        <3>2. (\A k \in 1..0 : full[k] = "..") /\ \A k \in (0 + 1)..n : full[k] \in Plain
            BY <1>1
        <3>3. QED
            BY <1>2, <3>1, <3>2, CleanStands
    <2>2. c[n] \in Seq(Segments)
        BY <1>1, <1>2 DEF Cleans
    <2>3. Len(from) = n
        BY DEF n
    <2>4. QED
        BY <1>1, <2>1, <2>2, <2>3, SeqEqual
<1> DEFINE T == {k \in Nat : k <= Len(path) => Same(c[n + k], f[k])}
<1>5. 0 \in T
    <2>1. f[0] = from
        BY <1>3 DEF Follows
    <2>2. n + 0 = n
        BY <1>1
    <2>3. QED
        BY <1>4, <2>1, <2>2 DEF Same
<1>6. ASSUME NEW k \in T
      PROVE  k + 1 \in T
    <2> SUFFICES ASSUME k + 1 <= Len(path)
                 PROVE  Same(c[n + k + 1], f[k + 1])
        <3>1. k \in Nat /\ n + (k + 1) = n + k + 1
            BY <1>1
        <3>2. QED
            BY <3>1
    <2>1. k \in Nat /\ Same(c[n + k], f[k])
        BY <1>1
    <2>2. n + k + 1 \in 1..Len(full) /\ (n + k + 1) - 1 = n + k /\ k + 1 \in 1..Len(path) /\ (k + 1) - 1 = k
          /\ n + (k + 1) = n + k + 1
        BY <1>1, <2>1
    <2>3. c[n + k + 1] = Doc!Cleaner(c[n + k], path[k + 1])
        BY <1>1, <1>2, <2>2 DEF Cleans
    <2>4. f[k + 1] = Onward(f[k], path[k + 1])
        BY <1>3, <2>2 DEF Follows
    <2>5. path[k + 1] \in Segments \ {"outside"}
        BY <1>1, <2>2 DEF Segments
    <2>6. QED
        BY <2>1, <2>3, <2>4, <2>5, SameStep
<1>7. Len(path) \in T
    BY <1>1, <1>5, <1>6, FromZero
<1>8. Doc!Clean(full) = c[n + Len(path)] /\ Followed(from, path) = f[Len(path)]
    BY <1>1, <1>2, <1>3 DEF Cleans, Follows
<1> QED
    BY <1>1, <1>7, <1>8 DEF full

\* What is clean stays as it is.
LEMMA CleanIsClean ==
    ASSUME NEW c \in Seq(Segments), NEW m, Shaped(c, m)
    PROVE  Doc!Clean(c) = c
<1>1. PICK d : Cleans(d, c)
    BY CleanUnfolds
<1>2. Len(c) \in 0..Len(c) /\ m \in 0..Len(c) /\ Len(c) \in Nat
    BY DEF Shaped
<1>3. Len(d[Len(c)]) = Len(c) /\ \A k \in 1..Len(c) : d[Len(c)][k] = c[k]
    BY <1>1, <1>2, CleanStands DEF Shaped
<1>4. d[Len(c)] \in Seq(Segments) /\ Doc!Clean(c) = d[Len(c)]
    BY <1>1, <1>2 DEF Cleans
<1> QED
    BY <1>3, <1>4, SeqEqual

\* The beginnings of a sequence.
LEMMA Beginnings ==
    ASSUME NEW S, NEW t \in Seq(S)
    PROVE  /\ \A k \in 0..Len(t) : /\ SubSeq(t, 1, k) \in Seq(S) /\ Len(SubSeq(t, 1, k)) = k
                                   /\ \A j \in 1..k : SubSeq(t, 1, k)[j] = t[j]
           /\ \A s \in Seq(S) : IsPrefix(s, t) <=> Len(s) <= Len(t) /\ \A j \in 1..Len(s) : s[j] = t[j]
<1>1. ASSUME NEW u \in Seq(S), NEW k \in 0..Len(u)
      PROVE  /\ SubSeq(u, 1, k) \in Seq(S) /\ Len(SubSeq(u, 1, k)) = k
             /\ \A j \in 1..k : SubSeq(u, 1, k)[j] = u[j]
    <2>1. k \in Int /\ (\A i \in 1..k : u[i] \in S) /\ k - 1 + 1 = k /\ (1 <= k \/ k = 0)
        OBVIOUS
    <2>2. /\ SubSeq(u, 1, k) \in Seq(S) /\ Len(SubSeq(u, 1, k)) = IF 1 <= k THEN k - 1 + 1 ELSE 0
          /\ \A i \in 1..(k - 1 + 1) : SubSeq(u, 1, k)[i] = u[1 + i - 1]
        BY <2>1, SubSeqProperties
    <2>3. \A i \in 1..k : 1 + i - 1 = i
        OBVIOUS
    <2>4. QED
        BY <2>1, <2>2, <2>3
<1>2. ASSUME NEW s \in Seq(S)
      PROVE  IsPrefix(s, t) <=> Len(s) <= Len(t) /\ \A j \in 1..Len(s) : s[j] = t[j]
    <2> DEFINE b == SubSeq(s, 1, Len(s))
               c == SubSeq(t, 1, Len(s))
    <2>1. Len(s) \in Nat /\ Len(t) \in Nat /\ Len(s) \in 0..Len(s)
        OBVIOUS
    <2>2. b \in Seq(S) /\ Len(b) = Len(s) /\ \A j \in 1..Len(s) : b[j] = s[j]
        BY <1>1, <2>1
    <2>3. Len(s) <= Len(t) => c \in Seq(S) /\ Len(c) = Len(s) /\ \A j \in 1..Len(s) : c[j] = t[j]
        <3>1. Len(s) <= Len(t) => Len(s) \in 0..Len(t)
            BY <2>1
        <3>2. QED
            BY <1>1, <3>1
    <2>4. IsPrefix(s, t) <=> Len(s) <= Len(t) /\ b = c
        BY DEF IsPrefix
    <2> HIDE DEF b, c
    <2>5. Len(s) <= Len(t) /\ (\A j \in 1..Len(s) : s[j] = t[j]) => b = c
        BY <2>2, <2>3, SeqEqual
    <2>6. Len(s) <= Len(t) /\ b = c => \A j \in 1..Len(s) : s[j] = t[j]
        BY <2>2, <2>3
    <2>7. QED
        BY <2>4, <2>5, <2>6
<1> QED
    BY <1>1, <1>2

\* What a document may name has the form of a place in the tree.
LEMMA KnownIsPlaced ==
    ASSUME OfPackages(run), OfDocuments(run)
    PROVE  Known.tracked = run.tracked /\ Known.planned = ToCome /\ ToCome \subseteq Placed /\ run.tracked \subseteq Placed
<1>1. Known.planned = {PathOf[q] : q \in Packages(run.lines, "planned")}
    BY DEF Known, Rules
<1>2. \A l \in ToSet(run.lines) : PathOf[l.pkg] \in Placed
    BY LinesNamePackages, PathOfAssumption
<1>3. Known.planned = ToCome
    BY <1>1 DEF Packages, On, ToCome
<1> QED
    BY <1>2, <1>3 DEF ToCome, OfDocuments, Known

\* What git holds, or is to come, is there.
LEMMA HasWhatIsThere ==
    ASSUME OfPackages(run), OfDocuments(run), NEW c, NEW p, Same(c, p)
    PROVE  Doc!HasPath(Known, c) <=> IsThere(p)
<1>1. Known.tracked = run.tracked /\ Known.planned = ToCome /\ ToCome \subseteq Placed /\ run.tracked \subseteq Placed
    BY KnownIsPlaced
<1>2. CASE c \in Seq(Plain) /\ p = c
    <2>1. c \in Seq(Segments) /\ Shaped(c, 0)
        <3>1. Len(c) \in Nat /\ \A k \in 1..Len(c) : c[k] \in Plain
            BY <1>2
        <3>2. QED
            BY <1>2, <3>1, PathsAreSegments DEF Shaped
    <2>2. Doc!Clean(c) = c
        BY <2>1, CleanIsClean
    <2>3. ASSUME NEW q \in Placed
          PROVE  c # <<>> /\ IsPrefix(c, q) <=> c = q \/ c \in {SubSeq(q, 1, k) : k \in 1..(Len(q) - 1)}
        <3>1. q \in Seq(Plain) /\ Len(q) \in Nat /\ Len(q) >= 1 /\ Len(c) \in Nat /\ (c # <<>> <=> Len(c) >= 1)
            BY <1>2 DEF Placed
        <3>2. IsPrefix(c, q) <=> Len(c) <= Len(q) /\ \A j \in 1..Len(c) : c[j] = q[j]
            BY <1>2, <3>1, Beginnings
        <3>3. \A k \in 0..Len(q) : /\ SubSeq(q, 1, k) \in Seq(Plain) /\ Len(SubSeq(q, 1, k)) = k
                                   /\ \A j \in 1..k : SubSeq(q, 1, k)[j] = q[j]
            BY <3>1, Beginnings
        <3>4. c # <<>> /\ IsPrefix(c, q) /\ Len(c) = Len(q) => c = q
            BY <1>2, <3>1, <3>2, SeqEqual
        <3>5. ASSUME c # <<>>, IsPrefix(c, q), Len(c) < Len(q)
              PROVE  c \in {SubSeq(q, 1, k) : k \in 1..(Len(q) - 1)}
            <4>1. Len(c) \in 1..(Len(q) - 1) /\ Len(c) \in 0..Len(q)
                BY <3>1, <3>5
            <4> DEFINE d == SubSeq(q, 1, Len(c))
            <4>2. d \in Seq(Plain) /\ Len(d) = Len(c) /\ \A j \in 1..Len(c) : d[j] = q[j]
                BY <3>3, <4>1
            <4> HIDE DEF d
            <4>3. c = d
                BY <1>2, <3>2, <3>5, <4>2, SeqEqual
            <4>4. QED
                BY <4>1, <4>3 DEF d
        <3>6. c = q => c # <<>> /\ IsPrefix(c, q)
            BY <3>1, <3>2
        <3>7. ASSUME NEW k \in 1..(Len(q) - 1), c = SubSeq(q, 1, k)
              PROVE  c # <<>> /\ IsPrefix(c, q)
            <4>1. k \in 0..Len(q) /\ k >= 1 /\ k <= Len(q)
                BY <3>1
            <4>2. Len(c) = k /\ \A j \in 1..k : c[j] = q[j]
                BY <3>3, <3>7, <4>1
            <4>3. QED
                BY <3>1, <3>2, <4>1, <4>2
        <3>8. IsPrefix(c, q) => Len(c) = Len(q) \/ Len(c) < Len(q)
            BY <3>1, <3>2
        <3>9. QED
            BY <3>4, <3>5, <3>6, <3>7, <3>8
    <2>4. <<>> \notin Placed
        BY DEF Placed
    <2>5. Doc!HasPath(Known, c) <=>
              \/ c \in ToCome
              \/ \E q \in run.tracked : c = q \/ c \in {SubSeq(q, 1, k) : k \in 1..(Len(q) - 1)}
        BY <1>1, <2>2 DEF Doc!HasPath, Doc!dirs
    <2>6. QED
        BY <1>1, <1>2, <2>3, <2>4, <2>5 DEF IsThere
<1>3. ASSUME NEW m \in 1..Len(c), c \in Seq(Segments), Shaped(c, m), p \in Seq(Segments),
             Len(p) = Len(c) - m + 1, p[1] = "outside"
      PROVE  ~Doc!HasPath(Known, c) /\ ~IsThere(p)
    <2>1. Doc!Clean(c) = c
        BY <1>3, CleanIsClean
    <2>2. c[1] = ".." /\ Len(p) >= 1
        BY <1>3 DEF Shaped
    <2>3. \A q \in Placed : q \in Seq(Plain) /\ Len(q) >= 1 /\ q[1] # ".." /\ q[1] # "outside"
        <3>1. \A q \in Placed : q \in Seq(Plain) /\ Len(q) >= 1 /\ q[1] \in Plain
            BY DEF Placed
        <3>2. QED
            BY <3>1 DEF Plain
    <2>4. ~Doc!HasPath(Known, c)
        <3>1. \A q \in Placed : \A k \in 1..(Len(q) - 1) : SubSeq(q, 1, k)[1] = q[1]
            <4> SUFFICES ASSUME NEW q \in Placed, NEW k \in 1..(Len(q) - 1)
                         PROVE  SubSeq(q, 1, k)[1] = q[1]
                OBVIOUS
            <4>1. q \in Seq(Plain) /\ k \in 0..Len(q) /\ 1 \in 1..k
                BY <2>3
            <4>2. QED
                BY <4>1, Beginnings
        <3>2. QED
            BY <1>1, <2>1, <2>2, <2>3, <3>1 DEF Doc!HasPath, Doc!dirs
    <2>5. ~IsThere(p)
        <3>1. ASSUME NEW q \in Placed, IsPrefix(p, q)
              PROVE  p[1] = q[1]
            <4>1. q \in Seq(Segments) /\ 1 \in 1..Len(p)
                BY <1>3, <2>2, <2>3, PathsAreSegments
            <4>2. QED
                BY <1>3, <3>1, <4>1, Beginnings
        <3>2. QED
            BY <1>1, <1>3, <2>2, <2>3, <3>1 DEF IsThere
    <2>6. QED
        BY <2>4, <2>5
<1> QED
    BY <1>2, <1>3 DEF Same

\* A segment a first one of which the tree has is the beginning of something.
LEMMA RootsBegin ==
    ASSUME OfPackages(run), OfDocuments(run), NEW path \in Seq(Segments), Len(path) > 1
    PROVE  path[1] \in Doc!roots(Known) <=>
               IsThere(SubSeq(path, 1, 1)) \/ \E p \in ToCome : IsPrefix(SubSeq(path, 1, 1), p)
<1> DEFINE first == SubSeq(path, 1, 1)
<1>1. Known.tracked = run.tracked /\ Known.planned = ToCome /\ ToCome \subseteq Placed /\ run.tracked \subseteq Placed
    BY KnownIsPlaced
<1>2. first \in Seq(Segments) /\ Len(first) = 1 /\ first[1] = path[1] /\ first # <<>>
    <2>1. 1 \in 0..Len(path) /\ 1 \in 1..1
        OBVIOUS
    <2>2. first \in Seq(Segments) /\ Len(first) = 1 /\ first[1] = path[1]
        BY <2>1, Beginnings
    <2> HIDE DEF first
    <2>3. first # <<>>
        <3>1. Len(<<>>) = 0 /\ Len(first) = 1 /\ 0 # 1
            BY <2>2
        <3>2. QED
            BY <3>1, Zenon
    <2>4. QED
        BY <2>2, <2>3
<1> HIDE DEF first
<1>3. ASSUME NEW q \in Placed
      PROVE  IsPrefix(first, q) <=> q[1] = path[1]
    <2>1. q \in Seq(Segments) /\ Len(q) >= 1 /\ Len(q) \in Nat
        BY PathsAreSegments DEF Placed
    <2>2. IsPrefix(first, q) <=> Len(first) <= Len(q) /\ \A j \in 1..Len(first) : first[j] = q[j]
        BY <1>2, <2>1, Beginnings
    <2>3. QED
        BY <1>2, <2>1, <2>2
<1>4. first \in ToCome => \E p \in ToCome : p[1] = path[1]
    BY <1>2
<1>5. path[1] \in Doc!roots(Known) <=> \E p \in run.tracked \cup ToCome : p[1] = path[1]
    BY <1>1 DEF Doc!roots
<1> QED
    BY <1>1, <1>2, <1>3, <1>4, <1>5 DEF IsThere, first

\* What is said of documents is that what they name is not there.
LEMMA DocumentsSayWhatIsMissing ==
    ASSUME OfPackages(run), OfDocuments(run)
    PROVE  Doc!Check(Known, run.documents) = {} <=> DocumentsAgree
<1> DEFINE P == STRING \ {"outside"}
           Linked(d, w) == IsThere(Followed(Front(d.name), w.path))
           Bare(w) == IF w.path[1] = "." THEN Tail(w.path) ELSE w.path
           Rooted(w) == /\ Len(Bare(w)) > 1
                        /\ \/ IsThere(SubSeq(Bare(w), 1, 1))
                           \/ \E p \in ToCome : IsPrefix(SubSeq(Bare(w), 1, 1), p)
           Spanned(w) == Rooted(w) => IsThere(Followed(<<>>, Bare(w)))
<1>1. ASSUME NEW d \in run.documents, NEW w \in d.links, w.is = "path"
      PROVE  Doc!HasPath(Known, Doc!Clean(Doc!Front(d.name) \o w.path)) <=> Linked(d, w)
    <2>1. d.name \in Seq(Plain) /\ d.name # <<>> /\ w.path \in Seq(P)
        BY <1>1 DEF OfDocuments, Placed, Written
    <2>2. Front(d.name) = Doc!Front(d.name) /\ Doc!Front(d.name) \in Seq(Plain)
        BY <2>1, Ends
    <2>3. Same(Doc!Clean(Doc!Front(d.name) \o w.path), Followed(Front(d.name), w.path))
        BY <2>1, <2>2, LeadsWhereItIsCleanedTo
    <2>4. QED
        BY <2>3, HasWhatIsThere
<1>2. ASSUME NEW d \in run.documents, NEW w \in d.spans, w.is = "path"
      PROVE  /\ Doc!NamesPath(Known, w) <=> Rooted(w)
             /\ Doc!HasPath(Known, Doc!Clean(Doc!WithoutDot(w.path))) <=> IsThere(Followed(<<>>, Bare(w)))
    <2>1. w.path \in Seq(P) /\ w.path # <<>>
        BY <1>2 DEF OfDocuments, Written
    <2> DEFINE path == Bare(w)
    <2>2. path \in Seq(P) /\ Doc!WithoutDot(w.path) = path
        <3>1. Tail(w.path) \in Seq(P)
            BY <2>1
        <3> HIDE DEF P
        <3>2. QED
            BY <2>1, <3>1 DEF Doc!WithoutDot
    <2> HIDE DEF path
    <2>3. path \in Seq(Segments)
        BY <2>2, PathsAreSegments
    <2>4. Doc!NamesPath(Known, w) <=> Len(path) > 1 /\ path[1] \in Doc!roots(Known)
        BY <1>2, <2>2 DEF Doc!NamesPath
    <2>5. Doc!NamesPath(Known, w) <=>
              Len(path) > 1 /\ (IsThere(SubSeq(path, 1, 1)) \/ \E p \in ToCome : IsPrefix(SubSeq(path, 1, 1), p))
        BY <2>3, <2>4, RootsBegin
    <2>6. Same(Doc!Clean(path), Followed(<<>>, path))
        <3>1. <<>> \in Seq(Plain) /\ <<>> \o path = path
            <4> HIDE DEF P
            <4>1. <<>> \o path = path
                BY <2>2
            <4>2. QED
                BY <4>1
        <3>2. Same(Doc!Clean(<<>> \o path), Followed(<<>>, path))
            BY <2>2, <3>1, LeadsWhereItIsCleanedTo
        <3>3. QED
            BY <3>1, <3>2
    <2>7. Doc!HasPath(Known, Doc!Clean(path)) <=> IsThere(Followed(<<>>, path))
        BY <2>6, HasWhatIsThere
    <2>8. QED
        BY <2>2, <2>5, <2>7 DEF path
<1>3. Doc!Check(Known, run.documents) = {} <=>
          \A d \in run.documents : \A r \in Doc!References(Known, d) : Doc!HasPath(Known, r.path)
    <2>1. \A d : {r \in Doc!References(Known, d) : ~Doc!HasPath(Known, r.path)} = {} <=>
                  \A r \in Doc!References(Known, d) : Doc!HasPath(Known, r.path)
        OBVIOUS
    <2>2. Doc!Check(Known, run.documents) = {} <=>
              \A d \in run.documents : {r \in Doc!References(Known, d) : ~Doc!HasPath(Known, r.path)} = {}
        <3> DEFINE F(d) == {r \in Doc!References(Known, d) : ~Doc!HasPath(Known, r.path)}
        <3>1. Doc!Check(Known, run.documents)
                  = UNION {{[file |-> d.name, reference |-> r] : r \in F(d)} : d \in run.documents}
            BY DEF Doc!Check
        <3> HIDE DEF F
        <3>2. \A d : {[file |-> d.name, reference |-> r] : r \in F(d)} = {} <=> F(d) = {}
            OBVIOUS
        <3>3. Doc!Check(Known, run.documents) = {} <=> \A d \in run.documents : F(d) = {}
            BY <3>1, <3>2
        <3>4. QED
            BY <3>3 DEF F
    <2>3. QED
        BY <2>1, <2>2
<1>4. ASSUME NEW d
      PROVE  (\A r \in Doc!References(Known, d) : Doc!HasPath(Known, r.path)) <=>
                 /\ \A w \in d.spans : Doc!NamesPath(Known, w) => Doc!HasPath(Known, Doc!Clean(Doc!WithoutDot(w.path)))
                 /\ \A w \in d.links : w.is = "path" => Doc!HasPath(Known, Doc!Clean(Doc!Front(d.name) \o w.path))
    <2> DEFINE A == {w \in d.spans : Doc!NamesPath(Known, w)}
               B == {w \in d.links : w.is = "path"}
               X(w) == Doc!Clean(Doc!WithoutDot(w.path))
               Y(w) == Doc!Clean(Doc!Front(d.name) \o w.path)
    <2>1. Doc!References(Known, d) = {[span |-> TRUE, text |-> w, path |-> X(w)] : w \in A}
                                     \cup {[span |-> FALSE, text |-> w, path |-> Y(w)] : w \in B}
        BY DEF Doc!References, Doc!localTarget
    <2> HIDE DEF X, Y, A, B
    <2>2. \A w : [span |-> TRUE, text |-> w, path |-> X(w)].path = X(w)
             /\ [span |-> FALSE, text |-> w, path |-> Y(w)].path = Y(w)
        OBVIOUS
    <2>3. (\A r \in Doc!References(Known, d) : Doc!HasPath(Known, r.path)) <=>
              (\A w \in A : Doc!HasPath(Known, X(w))) /\ \A w \in B : Doc!HasPath(Known, Y(w))
        BY <2>1, <2>2
    <2>4. QED
        BY <2>3 DEF A, B, X, Y
<1>5. \A w : Doc!NamesPath(Known, w) => w.is = "path"
    BY DEF Doc!NamesPath
<1>6. DocumentsAgree <=> \A d \in run.documents :
          /\ \A w \in d.links : w.is = "path" => Linked(d, w)
          /\ \A w \in d.spans : w.is = "path" => Spanned(w)
    BY DEF DocumentsAgree
<1> HIDE DEF Linked, Rooted, P, Bare
<1> QED
    BY <1>1, <1>2, <1>3, <1>4, <1>5, <1>6

-----------------------------------------------------------------------------
(* invariants                                                                *)

\* A record, and where a reading of records stands.
Values == Seq(STRING)
Record == [{"invariant"} \cup Keys -> Values]
Readings == [out : Seq(Record), open : BOOLEAN, current : Record, refused : BOOLEAN]

\* The readings that the lines lead through.
LeadsThrough(f) ==
    /\ f \in [0..Len(run.lines) -> Readings] /\ f[0] = Nothing
    /\ \A k \in 1..Len(run.lines) : f[k] = ReadLine(f[k - 1], run.lines[k])
    /\ AfterLines(run.lines) = finish(f[Len(run.lines)])

\* A line leads from one reading to another.
LEMMA ReadingsAreRead ==
    /\ Nothing \in Readings
    /\ \A s \in Readings : finish(s) \in Readings
    /\ \A s \in Readings : \A line : (line.is = "pair" => line.value \in Values) => ReadLine(s, line) \in Readings
<1>1. \A id \in Values : Invariant(id) \in Record
    <2> SUFFICES ASSUME NEW id \in Values
                 PROVE  Invariant(id) \in Record
        OBVIOUS
    <2>1. <<>> \in Values
        BY DEF Values
    <2> QED
        BY <2>1 DEF Invariant, Record
<1>2. Nothing \in Readings
    <2>1. <<>> \in Values /\ <<>> \in Seq(Record)
        BY DEF Values
    <2>2. Invariant(<<>>) \in Record
        BY <1>1, <2>1
    <2>3. QED
        BY <2>1, <2>2 DEF Nothing, Readings
<1>3. ASSUME NEW s \in Readings
      PROVE  Refuse(s) \in Readings
    BY DEF Refuse, Readings
<1>4. ASSUME NEW s \in Readings
      PROVE  finish(s) \in Readings
    <2>1. s.out \in Seq(Record) /\ s.current \in Record
        BY DEF Readings
    <2>2. Append(s.out, s.current) \in Seq(Record)
        BY <2>1
    <2>3. [s EXCEPT !.out = Append(@, s.current), !.open = FALSE] \in Readings
        BY <2>1, <2>2 DEF Readings
    <2>4. QED
        BY <1>3, <2>3 DEF finish
<1>5. ASSUME NEW s \in Readings, NEW line, line.is = "pair" => line.value \in Values
      PROVE  ReadLine(s, line) \in Readings
    <2>1. ASSUME line.is = "pair", line.key = "invariant"
          PROVE  [finish(s) EXCEPT !.open = TRUE, !.current = Invariant(line.value)] \in Readings
        <3> DEFINE t == finish(s)
                   c == Invariant(line.value)
        <3>1. t \in Readings /\ c \in Record
            BY <1>1, <1>4, <1>5, <2>1
        <3> HIDE DEF t, c
        <3>2. [t EXCEPT !.open = TRUE, !.current = c] \in Readings
            BY <3>1 DEF Readings
        <3>3. QED
            BY <3>2 DEF t, c
    <2>2. ASSUME line.is = "pair", line.key \in Keys
          PROVE  [s EXCEPT !.current[line.key] = line.value] \in Readings
        <3>1. s.current \in Record /\ line.value \in Values
            BY <1>5, <2>2 DEF Readings
        <3>2. [s.current EXCEPT ![line.key] = line.value] \in Record
            BY <2>2, <3>1 DEF Record
        <3>3. QED
            BY <3>2 DEF Readings
    <2>3. QED
        BY <1>3, <1>4, <2>1, <2>2 DEF ReadLine
<1> QED
    BY <1>2, <1>4, <1>5

\* The lines of a declaration lead through readings.
LEMMA LinesLead ==
    ASSUME OfRecords(run)
    PROVE  \E f : LeadsThrough(f)
<1> DEFINE S == Readings
           lines == run.lines
           n == Len(lines)
           G == [k \in 1..n |-> [s \in S |-> ReadLine(s, lines[k])]]
           Q(f) == f = [i \in 0..n |-> IF i = 0 THEN Nothing ELSE ReadLine(f[i - 1], lines[i])]
           g == CHOOSE f : Q(f)
<1>1. n \in Nat /\ \A k \in 1..n : lines[k].is = "pair" => lines[k].value \in Values
    <2> DEFINE L == ToSet(run.lines)
    <2>1. lines \in Seq(L) /\ \A line \in L : line.is = "pair" => line.value \in Values
        BY DEF OfRecords, Values
    <2> HIDE DEF L, lines
    <2>2. QED
        BY <2>1
<1>2. \A k \in 1..n : \A s \in S : ReadLine(s, lines[k]) \in S
    BY <1>1, ReadingsAreRead
<1>3. G \in [1..n -> [S -> S]] /\ \A k \in 1..n : \A s \in S : G[k][s] = ReadLine(s, lines[k])
    <2> HIDE DEF S, n, lines
    <2>1. QED
        BY <1>2
<1> HIDE DEF G
<1>4. Nothing \in S
    BY ReadingsAreRead
<1>5. PICK f : TakesAlone(f, n, S, G, Nothing)
    <2> HIDE DEF S, n
    <2>1. QED
        BY <1>1, <1>3, <1>4, Stepped, Zenon
<1>6. f \in [0..n -> S] /\ f[0] = Nothing /\ \A k \in 1..n : f[k] = ReadLine(f[k - 1], lines[k])
    <2>1. f \in [0..n -> S] /\ f[0] = Nothing /\ \A k \in 1..n : f[k] = G[k][f[k - 1]]
        BY <1>5, Zenon DEF TakesAlone, Takes
    <2> HIDE DEF S, n, lines
    <2>2. \A k \in 1..n : f[k - 1] \in S
        BY <1>1, <2>1
    <2>3. QED
        BY <1>3, <2>1, <2>2
<1>7. Q(f)
    <2> HIDE DEF S, n, lines
    <2>1. \A k \in 0..n : f[k] = IF k = 0 THEN Nothing ELSE ReadLine(f[k - 1], lines[k])
        BY <1>1, <1>6
    <2>2. f = [k \in 0..n |-> f[k]]
        BY <1>6
    <2>3. QED
        BY <2>1, <2>2
<1>8. Q(g)
    <2> HIDE DEF Q
    <2>1. QED
        BY <1>7
<1>9. AfterLines(lines) = finish(g[n])
    BY DEF AfterLines
<1> HIDE DEF g
<1>10. g[0] = Nothing /\ \A k \in 1..n : g[k] = ReadLine(g[k - 1], lines[k])
    <2> HIDE DEF S, n, lines
    <2>1. QED
        BY <1>1, <1>8
<1>11. \A k \in 0..n : g[k] = f[k]
    <2> HIDE DEF S, n, lines
    <2>1. QED
        BY <1>3, <1>5, <1>10 DEF TakesAlone
<1>12. AfterLines(lines) = finish(f[n])
    BY <1>1, <1>9, <1>11
<1>13. LeadsThrough(f)
    BY <1>6, <1>12 DEF LeadsThrough
<1> QED
    BY <1>13, Zenon

\* The lines that begin an invariant, and the ones a record goes on over.
Opens(i) == run.lines[i].is = "pair" /\ run.lines[i].key = "invariant"
GoesOn(k) ==
    run.lines[k].is = "comment" \/ (run.lines[k].is = "pair" /\ run.lines[k].key # "invariant")

\* What the record of an invariant line says in the first k lines.
PairsTo(i, key, k) == {j \in Pairs(i, key) : j <= k}
SaidTo(i, key, k) == IF PairsTo(i, key, k) = {} THEN <<>> ELSE run.lines[Max(PairsTo(i, key, k))].value
Describes(rec, i, k) == \A key \in Keys : rec[key] = SaidTo(i, key, k)

\* What is recorded once the first k lines are read: every invariant they begin is
\* in a closed record or in the open one, and the closed ones are in order.
Recorded(s, k) ==
    /\ \A i \in 1..k : Opens(i) =>
          \/ s.open /\ (\A j \in (i + 1)..k : GoesOn(j)) /\ Describes(s.current, i, k)
          \/ \E rec \in ToSet(s.out) : Describes(rec, i, Len(run.lines))
    /\ \A rec \in ToSet(s.out) : validate(rec) /\ \E i \in 1..k : Opens(i) /\ Describes(rec, i, Len(run.lines))
    /\ s.open => \E i \in 1..k : Opens(i) /\ (\A j \in (i + 1)..k : GoesOn(j)) /\ Describes(s.current, i, k)

\* The largest of some numbers up to a bound.
LEMMA LargestIsThere ==
    ASSUME NEW n \in Nat, NEW N, N \subseteq 1..n, N # {}
    PROVE  Max(N) \in N /\ \A x \in N : x <= Max(N)
<1> DEFINE T == {k \in Nat : k <= n /\ (\E x \in N : n - k <= x) => \E x \in N : \A y \in N : y <= x}
<1>1. 0 \in T
    <2>1. \A x \in N : n - 0 <= x => \A y \in N : y <= x
        OBVIOUS
    <2>2. QED
        BY <2>1
<1>2. ASSUME NEW k \in T
      PROVE  k + 1 \in T
    <2> SUFFICES ASSUME k + 1 <= n, NEW x \in N, n - (k + 1) <= x
                 PROVE  \E z \in N : \A y \in N : y <= z
        <3>1. k \in Nat
            BY <1>2
        <3>2. QED
            BY <3>1
    <2>1. k \in Nat /\ ((\E z \in N : n - k <= z) => \E z \in N : \A y \in N : y <= z)
        BY <1>2
    <2>2. CASE \E z \in N : n - k <= z
        BY <2>1, <2>2
    <2>3. CASE ~\E z \in N : n - k <= z
        <3>1. \A y \in N : y <= x
            BY <2>1, <2>3
        <3>2. QED
            BY <3>1
    <2>4. QED
        BY <2>2, <2>3
<1>3. n \in T
    BY <1>1, <1>2, FromZero
<1>4. \E x \in N : n - n <= x
    <2>1. PICK x \in N : TRUE
        OBVIOUS
    <2>2. n - n <= x
        OBVIOUS
    <2>3. QED
        BY <2>2
<1>5. \E x \in N : \A y \in N : y <= x
    BY <1>3, <1>4
<1>6. \E x \in N : \A y \in N : x >= y
    BY <1>5
<1>7. Max(N) \in N /\ \A y \in N : Max(N) >= y
    BY <1>6 DEF Max
<1> QED
    BY <1>7

\* What a record says, line by line.
LEMMA SaidLineByLine ==
    ASSUME NEW i \in 1..Len(run.lines), Len(run.lines) \in Nat
    PROVE  /\ \A key : SaidTo(i, key, Len(run.lines)) = Said(i, key)
           /\ \A key : SaidTo(i, key, i) = <<>>
           /\ \A k \in 1..Len(run.lines) : i < k =>
                 /\ ~GoesOn(k) => \A key : SaidTo(i, key, Len(run.lines)) = SaidTo(i, key, k - 1)
                 /\ \A key : ~(run.lines[k].is = "pair" /\ run.lines[k].key = key) =>
                        SaidTo(i, key, k) = SaidTo(i, key, k - 1)
                 /\ run.lines[k].is = "pair" /\ run.lines[k].key # "invariant" /\ (\A j \in (i + 1)..(k - 1) : GoesOn(j)) =>
                        SaidTo(i, run.lines[k].key, k) = run.lines[k].value
<1> DEFINE n == Len(run.lines)
<1>1. ASSUME NEW key
      PROVE  /\ \A j \in Pairs(i, key) : /\ j \in (i + 1)..n /\ run.lines[j].is = "pair" /\ run.lines[j].key = key
                                         /\ \A k \in (i + 1)..j : GoesOn(k)
             /\ \A j \in (i + 1)..n : run.lines[j].is = "pair" /\ run.lines[j].key = key
                                      /\ (\A k \in (i + 1)..j : GoesOn(k)) => j \in Pairs(i, key)
    BY DEF Pairs, GoesOn
<1>2. \A key : PairsTo(i, key, n) = Pairs(i, key)
    <2> SUFFICES ASSUME NEW key
                 PROVE  PairsTo(i, key, n) = Pairs(i, key)
        OBVIOUS
    <2>1. QED
        BY <1>1 DEF PairsTo
<1>3. \A key : PairsTo(i, key, i) = {}
    <2> SUFFICES ASSUME NEW key
                 PROVE  PairsTo(i, key, i) = {}
        OBVIOUS
    <2>1. QED
        BY <1>1 DEF PairsTo
<1>4. ASSUME NEW k \in 1..n, i < k, NEW key, ~GoesOn(k)
      PROVE  PairsTo(i, key, n) = PairsTo(i, key, k - 1)
    <2>1. \A j \in Pairs(i, key) : j \in (i + 1)..n /\ (k <= j => k \in (i + 1)..j)
        BY <1>1, <1>4
    <2>2. \A j \in Pairs(i, key) : j <= k - 1
        BY <1>1, <1>4, <2>1
    <2>3. QED
        BY <2>1, <2>2 DEF PairsTo
<1>5. ASSUME NEW k \in 1..n, i < k, NEW key, ~(run.lines[k].is = "pair" /\ run.lines[k].key = key)
      PROVE  PairsTo(i, key, k) = PairsTo(i, key, k - 1)
    <2>1. \A j \in Pairs(i, key) : j # k /\ j \in (i + 1)..n
        BY <1>1, <1>5
    <2>2. QED
        BY <1>5, <2>1 DEF PairsTo
<1>6. ASSUME NEW k \in 1..n, i < k, run.lines[k].is = "pair", run.lines[k].key # "invariant",
             \A j \in (i + 1)..(k - 1) : GoesOn(j)
      PROVE  SaidTo(i, run.lines[k].key, k) = run.lines[k].value
    <2> DEFINE key == run.lines[k].key
               N == PairsTo(i, key, k)
    <2>1. GoesOn(k)
        BY <1>6 DEF GoesOn
    <2>2. \A j \in (i + 1)..k : GoesOn(j)
        BY <1>6, <2>1
    <2>3. k \in N
        <3>1. k \in (i + 1)..n
            BY <1>6
        <3>2. QED
            BY <1>1, <1>6, <2>2, <3>1 DEF PairsTo
    <2>4. N \subseteq 1..k
        BY <1>1 DEF PairsTo
    <2> HIDE DEF N
    <2>5. Max(N) = k
        <3>1. k \in Nat /\ N # {}
            BY <2>3
        <3>2. Max(N) \in N /\ \A x \in N : x <= Max(N)
            BY <2>4, <3>1, LargestIsThere
        <3> DEFINE m == Max(N)
        <3> HIDE DEF m
        <3>3. m \in N /\ k <= m
            BY <2>3, <3>2 DEF m
        <3>4. m \in 1..k /\ k \in Nat
            BY <2>4, <3>3
        <3>5. m = k
            BY <3>3, <3>4
        <3>6. QED
            BY <3>5 DEF m
    <2>6. QED
        BY <2>3, <2>5 DEF SaidTo, N
<1> QED
    BY <1>2, <1>3, <1>4, <1>5, <1>6 DEF SaidTo, Said

\* A sequence with one more element holds what it held and that.
LEMMA AppendHolds ==
    ASSUME NEW S, NEW s \in Seq(S), NEW x \in S
    PROVE  ToSet(Append(s, x)) = ToSet(s) \cup {x}
<1> DEFINE t == Append(s, x)
<1>1. t \in Seq(S) /\ Len(t) = Len(s) + 1 /\ t[Len(s) + 1] = x /\ (\A k \in 1..Len(s) : t[k] = s[k]) /\ Len(s) \in Nat
    BY Ends
<1> HIDE DEF t
<1>2. DOMAIN t = 1..Len(t) /\ DOMAIN s = 1..Len(s)
    BY <1>1
<1>3. ToSet(t) = {t[k] : k \in 1..Len(t)} /\ ToSet(s) = {s[k] : k \in 1..Len(s)}
    BY <1>2 DEF ToSet
<1>4. \A k \in 1..Len(t) : k \in 1..Len(s) \/ k = Len(s) + 1
    BY <1>1
<1>5. Len(s) + 1 \in 1..Len(t) /\ \A k \in 1..Len(s) : k \in 1..Len(t)
    BY <1>1
<1> QED
    BY <1>1, <1>3, <1>4, <1>5 DEF t

\* A record that comes to its end is closed, or refused.
LEMMA RecordsAreClosed ==
    ASSUME Len(run.lines) \in Nat, NEW k \in 0..Len(run.lines), NEW s \in Readings, Recorded(s, k),
           \/ k = Len(run.lines)
           \/ k + 1 \in 1..Len(run.lines) /\ ~GoesOn(k + 1),
           ~finish(s).refused
    PROVE  ~finish(s).open /\ Recorded(finish(s), k) /\ ~s.refused
<1> DEFINE n == Len(run.lines)
           t == finish(s)
<1>1. \A i \in 1..k : \A key : SaidTo(i, key, n) = SaidTo(i, key, k)
    <2> SUFFICES ASSUME NEW i \in 1..k, NEW key
                 PROVE  SaidTo(i, key, n) = SaidTo(i, key, k)
        OBVIOUS
    <2>1. i \in 1..n
        OBVIOUS
    <2>2. CASE k + 1 \in 1..n /\ ~GoesOn(k + 1)
        <3> DEFINE next == k + 1
        <3>1. i < next /\ next - 1 = k /\ next \in 1..n /\ ~GoesOn(next)
            BY <2>2
        <3> HIDE DEF next
        <3>2. \A j \in 1..n : i < j => (~GoesOn(j) => \A x : SaidTo(i, x, n) = SaidTo(i, x, j - 1))
            BY <2>1, SaidLineByLine
        <3>3. SaidTo(i, key, n) = SaidTo(i, key, next - 1)
            BY <3>1, <3>2
        <3>4. QED
            BY <3>1, <3>3
    <2>3. QED
        BY <2>2
<1>2. \A i \in 1..k : \A rec : Describes(rec, i, k) <=> Describes(rec, i, n)
    BY <1>1 DEF Describes
<1>3. CASE ~s.open
    <2>1. t = s
        BY <1>3 DEF finish
    <2>2. QED
        BY <1>3, <2>1
<1>4. CASE s.open
    <2>1. t = [s EXCEPT !.out = Append(@, s.current), !.open = FALSE] /\ validate(s.current)
        BY <1>4 DEF finish, Refuse, Readings
    <2>2. t.out = Append(s.out, s.current) /\ t.open = FALSE /\ t.refused = s.refused
        BY <2>1 DEF Readings
    <2>3. s.out \in Seq(Record) /\ s.current \in Record
        BY DEF Readings
    <2>4. ToSet(t.out) = ToSet(s.out) \cup {s.current}
        <3>1. ToSet(Append(s.out, s.current)) = ToSet(s.out) \cup {s.current}
            BY <2>3, AppendHolds
        <3>2. QED
            BY <2>2, <3>1, Zenon
    <2> HIDE DEF t
    <2>5. \A i \in 1..k : Opens(i) => \E rec \in ToSet(t.out) : Describes(rec, i, n)
        BY <1>2, <2>4 DEF Recorded
    <2>6. \A rec \in ToSet(t.out) : validate(rec) /\ \E i \in 1..k : Opens(i) /\ Describes(rec, i, n)
        BY <1>2, <1>4, <2>1, <2>4 DEF Recorded
    <2>7. Recorded(t, k)
        BY <2>2, <2>5, <2>6 DEF Recorded
    <2>8. QED
        BY <2>2, <2>7 DEF t
<1> QED
    BY <1>3, <1>4 DEF t

\* A line that is read leaves everything recorded.
LEMMA LinesAreRecorded ==
    ASSUME Len(run.lines) \in Nat, NEW k \in 1..Len(run.lines), NEW s \in Readings, Recorded(s, k - 1) \/ s.refused,
           ~ReadLine(s, run.lines[k]).refused
    PROVE  Recorded(ReadLine(s, run.lines[k]), k)
<1> DEFINE n == Len(run.lines)
           line == run.lines[k]
           t == ReadLine(s, line)
<1>1. ~s.refused /\ Recorded(s, k - 1)
    BY DEF ReadLine
<1>2. k - 1 \in 0..n /\ (k - 1) + 1 = k /\ k \in 1..n /\ \A i \in 1..(k - 1) : i \in 1..n /\ i < k
    OBVIOUS
<1>3. \A i \in 1..k : i \in 1..(k - 1) \/ i = k
    OBVIOUS
<1>4. \A i \in 1..(k - 1) : \A j \in (i + 1)..k : j \in (i + 1)..(k - 1) \/ j = k
    OBVIOUS
<1>5. ASSUME line.is # "pair"
      PROVE  \A i \in 1..(k - 1) : \A rec : Describes(rec, i, k) <=> Describes(rec, i, k - 1)
    BY <1>2, <1>5, SaidLineByLine DEF Describes
<1>6. CASE line.is = "comment"
    <2>1. t = s /\ GoesOn(k) /\ ~Opens(k)
        BY <1>1, <1>6 DEF ReadLine, GoesOn, Opens
    <2>2. \A i \in 1..(k - 1) : \A rec : Describes(rec, i, k) <=> Describes(rec, i, k - 1)
        BY <1>5, <1>6
    <2> HIDE DEF t
    <2>3. QED
        BY <1>1, <1>2, <1>3, <1>4, <2>1, <2>2 DEF Recorded, t
<1>7. CASE line.is = "blank"
    <2>1. t = finish(s) /\ ~GoesOn(k) /\ ~Opens(k)
        BY <1>1, <1>7 DEF ReadLine, GoesOn, Opens
    <2>2. ~t.open /\ Recorded(t, k - 1)
        BY <1>1, <1>2, <2>1, RecordsAreClosed
    <2> HIDE DEF t
    <2>3. QED
        BY <1>2, <1>3, <2>1, <2>2 DEF Recorded, t
<1>8. CASE line.is = "pair" /\ line.key = "invariant"
    <2> DEFINE u == finish(s)
               c == Invariant(line.value)
    <2>1. t = [u EXCEPT !.open = TRUE, !.current = c] /\ ~GoesOn(k) /\ Opens(k)
        <3>1. line.key \notin Keys
            BY <1>8 DEF Keys
        <3>2. t = Refuse(s) \/ t = [u EXCEPT !.open = TRUE, !.current = c]
            BY <1>1, <1>8, <3>1 DEF ReadLine
        <3>3. Refuse(s).refused
            BY DEF Refuse, Readings
        <3>4. QED
            BY <1>8, <3>2, <3>3 DEF GoesOn, Opens
    <2>2. u \in Readings
        BY ReadingsAreRead
    <2> HIDE DEF u, c
    <2>3. t.refused = u.refused /\ t.out = u.out /\ t.open = TRUE /\ t.current = c
        BY <2>1, <2>2 DEF Readings
    <2>4. ~u.open /\ Recorded(u, k - 1)
        BY <1>1, <1>2, <2>1, <2>3, RecordsAreClosed DEF u
    <2>5. Describes(c, k, k)
        <3>1. \A key \in Keys : c[key] = <<>>
            BY DEF c, Invariant, Keys
        <3>2. \A key : SaidTo(k, key, k) = <<>>
            BY <1>2, SaidLineByLine
        <3>3. QED
            BY <3>1, <3>2 DEF Describes
    <2>6. \A j \in (k + 1)..k : GoesOn(j)
        OBVIOUS
    <2> HIDE DEF t
    <2>7. \A i \in 1..(k - 1) : Opens(i) => \E rec \in ToSet(t.out) : Describes(rec, i, n)
        BY <2>3, <2>4 DEF Recorded
    <2>8. \A rec \in ToSet(t.out) : validate(rec) /\ \E i \in 1..k : Opens(i) /\ Describes(rec, i, n)
        BY <1>2, <2>3, <2>4 DEF Recorded
    <2>9. QED
        BY <1>2, <1>3, <2>1, <2>3, <2>5, <2>6, <2>7, <2>8 DEF Recorded, t
<1>9. CASE line.is = "pair" /\ line.key # "invariant"
    <2> DEFINE c == [s.current EXCEPT ![line.key] = line.value]
    <2>1. t = [s EXCEPT !.current[line.key] = line.value] /\ line.key \in Keys /\ s.open
        <3>1. Refuse(s).refused
            BY DEF Refuse, Readings
        <3>2. QED
            BY <1>1, <1>9, <3>1 DEF ReadLine
    <2>2. t.out = s.out /\ t.open = s.open /\ t.current = c
        BY <2>1 DEF Readings
    <2>3. GoesOn(k) /\ ~Opens(k)
        BY <1>9 DEF GoesOn, Opens
    <2>4. s.current \in Record
        BY DEF Readings
    <2>5. \A key \in Keys : c[key] = IF key = line.key THEN line.value ELSE s.current[key]
        BY <2>4 DEF Record
    <2> HIDE DEF t, c
    <2>6. ASSUME NEW i \in 1..(k - 1), \A j \in (i + 1)..(k - 1) : GoesOn(j), Describes(s.current, i, k - 1)
          PROVE  Describes(t.current, i, k) /\ \A j \in (i + 1)..k : GoesOn(j)
        <3>1. i \in 1..n /\ i < k
            BY <1>2
        <3>2. SaidTo(i, line.key, k) = line.value
            BY <1>2, <1>9, <2>6, <3>1, SaidLineByLine
        <3>3. \A key \in Keys : key # line.key => SaidTo(i, key, k) = SaidTo(i, key, k - 1)
            BY <1>2, <1>9, <3>1, SaidLineByLine
        <3>4. Describes(t.current, i, k)
            BY <2>2, <2>5, <2>6, <3>2, <3>3 DEF Describes
        <3>5. QED
            BY <1>4, <2>3, <2>6, <3>4
    <2>7. ASSUME NEW i \in 1..k, Opens(i)
          PROVE  \/ t.open /\ (\A j \in (i + 1)..k : GoesOn(j)) /\ Describes(t.current, i, k)
                 \/ \E rec \in ToSet(t.out) : Describes(rec, i, n)
        <3>1. i \in 1..(k - 1)
            BY <1>3, <2>3, <2>7
        <3>2. CASE (\A j \in (i + 1)..(k - 1) : GoesOn(j)) /\ Describes(s.current, i, k - 1)
            BY <2>1, <2>2, <2>6, <3>1, <3>2
        <3>3. CASE \E rec \in ToSet(s.out) : Describes(rec, i, n)
            BY <2>2, <3>3
        <3>4. QED
            BY <1>1, <2>7, <3>1, <3>2, <3>3 DEF Recorded
    <2>8. \A rec \in ToSet(t.out) : validate(rec) /\ \E i \in 1..k : Opens(i) /\ Describes(rec, i, n)
        BY <1>1, <1>2, <2>2 DEF Recorded
    <2>9. \E i \in 1..k : Opens(i) /\ (\A j \in (i + 1)..k : GoesOn(j)) /\ Describes(t.current, i, k)
        <3>1. PICK i \in 1..(k - 1) : Opens(i) /\ (\A j \in (i + 1)..(k - 1) : GoesOn(j)) /\ Describes(s.current, i, k - 1)
            BY <1>1, <2>1 DEF Recorded
        <3>2. i \in 1..k
            OBVIOUS
        <3>3. QED
            BY <2>6, <3>1, <3>2
    <2>10. QED
        BY <2>7, <2>8, <2>9 DEF Recorded, t
<1>10. CASE line.is \notin {"comment", "blank", "pair"}
    <2>1. t = Refuse(s)
        BY <1>1, <1>10 DEF ReadLine
    <2>2. QED
        BY <2>1 DEF Refuse, Readings
<1> QED
    BY <1>6, <1>7, <1>8, <1>9, <1>10

\* What a declaration comes to: each invariant line has a record that says what
\* was said last, and each record is the one of an invariant line.
LEMMA DeclarationsAreRecorded ==
    ASSUME OfRecords(run), Declares(run.lines)
    PROVE  LET records == ToSet(AfterLines(run.lines).out)
           IN  /\ records \subseteq Record /\ \A rec \in records : validate(rec)
               /\ \A i \in DOMAIN run.lines : Opens(i) =>
                      \E rec \in records : \A key \in Keys : rec[key] = Said(i, key)
               /\ \A rec \in records : \E i \in DOMAIN run.lines :
                      Opens(i) /\ \A key \in Keys : rec[key] = Said(i, key)
<1> DEFINE n == Len(run.lines)
           last == AfterLines(run.lines)
<1>1. n \in Nat /\ DOMAIN run.lines = 1..n
    <2> DEFINE lines == run.lines
               L == ToSet(run.lines)
    <2>1. lines \in Seq(L)
        BY DEF OfRecords
    <2> HIDE DEF lines, L
    <2>2. Len(lines) \in Nat /\ DOMAIN lines = 1..Len(lines)
        BY <2>1
    <2>3. QED
        BY <2>2 DEF lines
<1>2. PICK f : LeadsThrough(f)
    BY LinesLead, Zenon
<1>3. \A k \in 0..n : f[k] \in Readings
    BY <1>2 DEF LeadsThrough
<1> DEFINE T == {k \in Nat : k <= n => f[k].refused \/ Recorded(f[k], k)}
<1>4. 0 \in T
    <2>1. f[0].out = <<>> /\ f[0].open = FALSE
        BY <1>2 DEF LeadsThrough, Nothing
    <2>2. ToSet(<<>>) = {}
        BY DEF ToSet
    <2>3. Recorded(f[0], 0)
        <3>1. 1..0 = {}
            OBVIOUS
        <3>2. QED
            BY <2>1, <2>2, <3>1 DEF Recorded
    <2>4. QED
        BY <2>3
<1>5. ASSUME NEW k \in T
      PROVE  k + 1 \in T
    <2> SUFFICES ASSUME k + 1 <= n, ~f[k + 1].refused
                 PROVE  Recorded(f[k + 1], k + 1)
        BY <1>5
    <2>1. k \in Nat /\ k + 1 \in 1..n /\ (k + 1) - 1 = k /\ k \in 0..n
        BY <1>1, <1>5
    <2>2. f[k].refused \/ Recorded(f[k], k)
        BY <1>1, <1>5, <2>1
    <2>3. f[k + 1] = ReadLine(f[k], run.lines[k + 1]) /\ f[k] \in Readings
        BY <1>2, <1>3, <2>1 DEF LeadsThrough
    <2>4. QED
        BY <1>1, <2>1, <2>2, <2>3, LinesAreRecorded
<1>6. f[n].refused \/ Recorded(f[n], n)
    <2>1. n \in T
        BY <1>1, <1>4, <1>5, FromZero
    <2>2. QED
        BY <1>1, <2>1
<1>7. last = finish(f[n]) /\ ~last.refused /\ f[n] \in Readings
    BY <1>1, <1>2, <1>3 DEF LeadsThrough, Declares
<1>8. ~f[n].refused
    BY <1>7 DEF finish, Refuse, Readings
<1>9. ~last.open /\ Recorded(last, n)
    <2>1. n \in 0..n
        BY <1>1
    <2>2. QED
        BY <1>1, <1>6, <1>7, <1>8, <2>1, RecordsAreClosed
<1>10. ToSet(last.out) \subseteq Record
    <2>1. last \in Readings
        BY <1>7, ReadingsAreRead
    <2> HIDE DEF last
    <2> DEFINE out == last.out
    <2>2. out \in Seq(Record)
        BY <2>1 DEF Readings
    <2> HIDE DEF out
    <2>3. ToSet(out) \subseteq Record
        BY <2>2 DEF ToSet
    <2>4. QED
        BY <2>3 DEF out
<1>11. \A i \in 1..n : \A rec : Describes(rec, i, n) <=> \A key \in Keys : rec[key] = Said(i, key)
    BY <1>1, SaidLineByLine DEF Describes
<1> HIDE DEF last
<1>12. QED
    BY <1>1, <1>9, <1>10, <1>11 DEF Recorded, last

\* What an invariant line asks of a file.
Asks(i, f) ==
    /\ Has(i, "shape", "constrained-test-calls") =>
          \A called \in f.cases : (\E tag \in Tags : Said(i, "constraint") = <<tag>> /\ OnlyWith(f, tag)) =>
              \E name \in called : Has(i, "names", name)
    /\ \A w \in f.writings :
          /\ Has(i, "shape", "call-only-in") /\ w.is = "call" /\ Has(i, "names", w.fn) =>
                \E path \in Within[f.dir] : Has(i, "paths", path)
          /\ Has(i, "shape", "literal-argument") /\ w.is = "call" /\ Has(i, "names", w.fn) =>
                \A a \in ToSet(w.args), said \in Carrying :
                    a.form # "computed" /\ said[2] = a.host => ~Has(i, "words", said[1])
          /\ Has(i, "shape", "named-string-literal") /\ w.is = "binding" /\ w.filled =>
                \A said \in Carrying : said[2] = w.name => ~Has(i, "names", said[1])

\* A name carries no word when none of the pairs says so.
LEMMA NamesCarry ==
    ASSUME NEW words, NEW name
    PROVE  carries(words, name) <=> \E said \in Carrying : said[2] = name /\ said[1] \in ToSet(words)
<1>1. \A said \in Carrying : said = <<said[1], said[2]>>
    BY CarryingAssumption
<1> QED
    BY <1>1 DEF carries

\* A record finds nothing in a file exactly when the file is as the line asks.
LEMMA RecordsFindWhatIsAsked ==
    ASSUME NEW rec \in Record, validate(rec), NEW i, \A key \in Keys : rec[key] = Said(i, key),
           NEW f, f.built \subseteq SUBSET Tags
    PROVE  Operator(rec, f) = {} <=> Asks(i, f)
<1>1. /\ rec.shape = Said(i, "shape") /\ rec.names = Said(i, "names") /\ rec.paths = Said(i, "paths")
      /\ rec.words = Said(i, "words") /\ rec.constraint = Said(i, "constraint")
    BY DEF Keys
<1>2. rec.shape \in {<<shape>> : shape \in Shapes}
    BY DEF validate
<1>3. \A shape, other : other \in ToSet(<<shape>>) <=> other = shape
    <2> SUFFICES ASSUME NEW shape, NEW other
                 PROVE  other \in ToSet(<<shape>>) <=> other = shape
        OBVIOUS
    <2>1. DOMAIN <<shape>> = {1} /\ <<shape>>[1] = shape
        OBVIOUS
    <2>2. QED
        BY <2>1 DEF ToSet
<1>4. \A shape : rec.shape = <<shape>> => \A other : Has(i, "shape", other) <=> other = shape
    BY <1>1, <1>3 DEF Has
<1>5. \A shape \in Shapes : \A other \in Shapes : <<shape>> = <<other>> => shape = other
    <2> SUFFICES ASSUME NEW shape, NEW other, <<shape>> = <<other>>
                 PROVE  shape = other
        OBVIOUS
    <2>1. <<shape>>[1] = shape /\ <<other>>[1] = other
        OBVIOUS
    <2>2. QED
        BY <2>1, Zenon
<1>6. CASE rec.shape = <<"constrained-test-calls">>
    <2>1. Operator(rec, f) = constrainedTestCalls(rec, f)
        BY <1>5, <1>6 DEF Operator, Shapes
    <2>2. carriesConstraint(f, rec.constraint) <=>
              \E tag \in Tags : Said(i, "constraint") = <<tag>> /\ OnlyWith(f, tag)
        <3> DEFINE value == rec.constraint
        <3>1. value \in Seq(STRING)
            BY DEF Record, Values, Keys
        <3> HIDE DEF value
        <3>2. Len(value) = 1 => value = <<value[1]>>
            BY <3>1
        <3>3. \A tag : value = <<tag>> => Len(value) = 1 /\ value[1] = tag
            OBVIOUS
        <3>4. \A tag : {tag} \in f.built => tag \in Tags
            OBVIOUS
        <3>5. value = Said(i, "constraint")
            BY <1>1 DEF value
        <3>6. carriesConstraint(f, value) => \E tag \in Tags : value = <<tag>> /\ OnlyWith(f, tag)
            BY <3>2, <3>4 DEF carriesConstraint, OnlyWith
        <3>7. ASSUME NEW tag \in Tags, value = <<tag>>, OnlyWith(f, tag)
              PROVE  carriesConstraint(f, value)
            <4>1. Len(value) = 1 /\ value[1] = tag
                BY <3>3, <3>7
            <4>2. QED
                BY <3>7, <4>1 DEF carriesConstraint, OnlyWith
        <3>8. QED
            BY <3>5, <3>6, <3>7 DEF value
    <2>3. Operator(rec, f) = {} <=>
              (carriesConstraint(f, rec.constraint) => \A called \in f.cases : called \cap ToSet(rec.names) # {})
        BY <2>1 DEF constrainedTestCalls
    <2>4. Asks(i, f) <=> \A called \in f.cases : (\E tag \in Tags : Said(i, "constraint") = <<tag>> /\ OnlyWith(f, tag)) =>
              \E name \in called : Has(i, "names", name)
        BY <1>4, <1>6 DEF Asks
    <2>5. QED
        BY <1>1, <2>2, <2>3, <2>4 DEF Has
<1>7. CASE rec.shape = <<"call-only-in">>
    <2>1. Operator(rec, f) = callOnlyIn(rec, f)
        BY <1>5, <1>7 DEF Operator, Shapes
    <2>2. Asks(i, f) <=> \A w \in f.writings : w.is = "call" /\ Has(i, "names", w.fn) =>
              \E path \in Within[f.dir] : Has(i, "paths", path)
        BY <1>4, <1>7 DEF Asks
    <2>3. QED
        BY <1>1, <2>1, <2>2 DEF Has, callOnlyIn, Calls
<1>8. CASE rec.shape = <<"literal-argument">>
    <2>1. Operator(rec, f) = literalArgument(rec, f)
        BY <1>5, <1>8 DEF Operator, Shapes
    <2>2. Asks(i, f) <=> \A w \in f.writings : w.is = "call" /\ Has(i, "names", w.fn) =>
              \A a \in ToSet(w.args), said \in Carrying :
                  a.form # "computed" /\ said[2] = a.host => ~Has(i, "words", said[1])
        BY <1>4, <1>8 DEF Asks
    <2>3. ASSUME NEW w
          PROVE  (\E k \in DOMAIN w.args : w.args[k].form # "computed" /\ carries(rec.words, w.args[k].host)) <=>
                     ~\A a \in ToSet(w.args), said \in Carrying :
                         a.form # "computed" /\ said[2] = a.host => ~Has(i, "words", said[1])
        <3>1. \A a : carries(rec.words, a.host) <=> \E said \in Carrying : said[2] = a.host /\ Has(i, "words", said[1])
            BY <1>1, NamesCarry DEF Has
        <3>2. QED
            BY <3>1 DEF ToSet
    <2>4. Operator(rec, f) = {} <=> \A w \in f.writings : w.is = "call" /\ Has(i, "names", w.fn) =>
              ~\E k \in DOMAIN w.args : w.args[k].form # "computed" /\ carries(rec.words, w.args[k].host)
        BY <1>1, <2>1 DEF literalArgument, Calls, Has
    <2>5. QED
        BY <2>2, <2>3, <2>4
<1>9. CASE rec.shape = <<"named-string-literal">>
    <2>1. Operator(rec, f) = namedStringLiteral(rec, f)
        BY <1>5, <1>9 DEF Operator, Shapes
    <2>2. Asks(i, f) <=> \A w \in f.writings : w.is = "binding" /\ w.filled =>
              \A said \in Carrying : said[2] = w.name => ~Has(i, "names", said[1])
        BY <1>4, <1>9 DEF Asks
    <2>3. \A w : carries(rec.names, w.name) <=> ~\A said \in Carrying : said[2] = w.name => ~Has(i, "names", said[1])
        BY <1>1, NamesCarry DEF Has
    <2>4. QED
        BY <2>1, <2>2, <2>3 DEF namedStringLiteral
<1> QED
    BY <1>2, <1>6, <1>7, <1>8, <1>9 DEF Shapes

\* What is said of a tree is what the declared invariants forbid and is written.
LEMMA InvariantsSayWhatIsBroken ==
    ASSUME OfRecords(run), Declares(run.lines)
    PROVE  Violations(run.lines, Read(run.tree)) = {} <=> InvariantsAgree
<1> DEFINE records == ToSet(AfterLines(run.lines).out)
           files == Read(run.tree)
<1>1. \A f \in files : f.built \subseteq SUBSET Tags
    BY DEF OfRecords, Read
<1>2. /\ records \subseteq Record /\ \A rec \in records : validate(rec)
      /\ \A i \in DOMAIN run.lines : Opens(i) => \E rec \in records : \A key \in Keys : rec[key] = Said(i, key)
      /\ \A rec \in records : \E i \in DOMAIN run.lines : Opens(i) /\ \A key \in Keys : rec[key] = Said(i, key)
    BY DeclarationsAreRecorded
<1>3. InvariantsAgree <=> \A i \in DOMAIN run.lines : \A f \in files : Opens(i) => Asks(i, f)
    BY DEF InvariantsAgree, Opens, Asks
<1> HIDE DEF records, files
<1>4. Violations(run.lines, files) = {} <=> \A rec \in records : \A f \in files : Operator(rec, f) = {}
    <2>1. \A rec, f : {[rule |-> rec.invariant, file |-> f, what |-> w] : w \in Operator(rec, f)} = {} <=> Operator(rec, f) = {}
        OBVIOUS
    <2>2. Violations(run.lines, files)
              = UNION {{[rule |-> rec.invariant, file |-> f, what |-> w] : w \in Operator(rec, f)} : rec \in records, f \in files}
        BY DEF Violations, records
    <2> DEFINE V(rec, f) == {[rule |-> rec.invariant, file |-> f, what |-> w] : w \in Operator(rec, f)}
    <2>3. Violations(run.lines, files) = UNION {V(rec, f) : rec \in records, f \in files}
        BY <2>2
    <2>4. \A rec, f : V(rec, f) = {} <=> Operator(rec, f) = {}
        BY <2>1
    <2> HIDE DEF V
    <2>5. Violations(run.lines, files) = {} <=> \A rec \in records : \A f \in files : V(rec, f) = {}
        BY <2>3
    <2>6. QED
        BY <2>4, <2>5
<1>5. \A i, rec, f : rec \in records /\ f \in files /\ (\A key \in Keys : rec[key] = Said(i, key)) =>
          (Operator(rec, f) = {} <=> Asks(i, f))
    BY <1>1, <1>2, RecordsFindWhatIsAsked
<1>6. QED
    BY <1>2, <1>3, <1>4, <1>5 DEF files

\* A run that may be made is one of those that are assumed.
LEMMA RunsAreGiven ==
    ASSUME \E family \in DOMAIN Runs : run \in Runs[family]
    PROVE  /\ run.gate \in {"imports", "doclint"} => OfPackages(run)
           /\ run.gate = "imports" => OfFiles(run)
           /\ run.gate = "adapters" => OfAdapters(run)
           /\ run.gate = "testreach" => OfTests(run)
           /\ run.gate = "invariants" => OfRecords(run)
           /\ run.gate = "sourcecheck" => OfSource(run)
           /\ run.gate = "doclint" => OfDocuments(run)
           /\ run.gate = "prhygiene" => OfRequest(run)
           /\ run.gate = "coverfloor" => OfProfile(run)
           /\ run.gate = "scanfloor" => OfScan(run)
           /\ run.gate = "treefmt" => OfBytes(run)
           /\ run.gate = "cmdlint" => OfCommands(run)
BY RunsAssumption

\* A gate that holds what it reads against a list or a rule says nothing exactly
\* when they agree, whatever the declaration, the tree, the documents or the pull
\* request it is given (importrules.go:16-20, adapters.go:47-80,
\* invariants.go:80-164, sourcecheck.go:4-9, doclint.go:13-17, prhygiene.go:1-9), an adapter spread
\* over the files of its package excepted, which the register does not see.
THEOREM SilenceIsAlwaysAgreement == Spec => []SilenceIsAgreement
<1>1. Heard => SilenceIsAgreement
    <2> SUFFICES ASSUME Heard, pc = "printing"
                 PROVE  SilenceIsAgreement
        BY DEF SilenceIsAgreement, Judged
    <2>1. run.gate \in AllGates => found \in Judgements /\ \A k \in 1..Len(Inputs(run.gate)) : Accepts(Inputs(run.gate)[k])
        BY DEF Heard
    <2>2. \E family \in DOMAIN Runs : run \in Runs[family]
        BY DEF Heard
    <2>3. ASSUME run.gate = "imports"
          PROVE  found = {} <=> ImportsAgree
        <3>1. found \in {Check(Rules(run.lines), Graph(run.tree))}
            BY <2>1, <2>3 DEF AllGates, Judgements
        <3>2. Parses(run.lines)
            <4>1. Len(Inputs("imports")) = 3 /\ Inputs("imports")[2] = "import-rules"
                BY DEF Inputs
            <4>2. 2 \in 1..3
                OBVIOUS
            <4>3. Accepts("import-rules")
                BY <2>1, <2>3, <4>1, <4>2 DEF AllGates
            <4>4. QED
                BY <4>3 DEF Accepts
        <3>3. QED
            BY <2>2, <2>3, <3>1, <3>2, RunsAreGiven, ImportsSayWhatDiffers
    <2>4. ASSUME run.gate = "adapters"
          PROVE  found = {} <=> AdaptersAgree
        <3>1. found \in {CheckRegister(run.tree, run.registered)}
            BY <2>1, <2>4 DEF AllGates, Judgements
        <3>2. QED
            BY <2>2, <2>4, <3>1, RunsAreGiven, RegisterSaysWhatDiffers
    <2>5. ASSUME run.gate = "invariants"
          PROVE  found = {} <=> Read(run.tree) # {} /\ InvariantsAgree
        <3>1. found \in {IF Read(run.tree) = {} THEN {"nothing read"} ELSE Violations(run.lines, Read(run.tree))}
            BY <2>1, <2>5 DEF AllGates, Judgements
        <3>2. Declares(run.lines)
            <4>1. Len(Inputs("invariants")) = 2 /\ Inputs("invariants")[1] = "declaration"
                BY DEF Inputs
            <4>2. 1 \in 1..2
                OBVIOUS
            <4>3. Accepts("declaration")
                BY <2>1, <2>5, <4>1, <4>2 DEF AllGates
            <4>4. QED
                BY <4>3 DEF Accepts
        <3>3. QED
            BY <2>2, <2>5, <3>1, <3>2, RunsAreGiven, InvariantsSayWhatIsBroken
    <2>6. ASSUME run.gate = "sourcecheck"
          PROVE  found = {} <=> ReasonsAgree
        <3>1. found \in {Source!BareInTree(Read(run.tree))}
            BY <2>1, <2>6 DEF AllGates, Judgements
        <3>2. QED
            BY <2>2, <2>6, <3>1, RunsAreGiven, BareSaysWhatIsUnexplained
    <2>7. ASSUME run.gate = "doclint"
          PROVE  found = {} <=> DocumentsAgree
        <3>1. found \in {Doc!Check(Known, run.documents)}
            BY <2>1, <2>7 DEF AllGates, Judgements
        <3>2. QED
            BY <2>2, <2>7, <3>1, RunsAreGiven, DocumentsSayWhatIsMissing
    <2>8. ASSUME run.gate = "prhygiene"
          PROVE  found = {} <=> RequestAgrees
        <3>1. found \in {Pr!JudgeRequest(run).refusals}
            BY <2>1, <2>8 DEF AllGates, Judgements
        <3>2. Pr!ParsesLog(run.log)
            <4>1. Len(Inputs("prhygiene")) = 1 /\ Inputs("prhygiene")[1] = "commit list"
                BY DEF Inputs
            <4>2. 1 \in 1..1
                OBVIOUS
            <4>3. Accepts("commit list")
                BY <2>1, <2>8, <4>1, <4>2 DEF AllGates
            <4>4. QED
                BY <4>3 DEF Accepts
        <3>3. QED
            BY <2>2, <2>8, <3>1, <3>2, RunsAreGiven, RequestSaysWhatIsMissing
    <2>9. QED
        BY <2>3, <2>4, <2>5, <2>6, <2>7, <2>8 DEF SilenceIsAgreement, Judged
<1> QED
    BY <1>1, HeardAlways, PTL

-----------------------------------------------------------------------------
(* testreach                                                                 *)

\* A file that no platform keeps out is built on all of them at once.
LEMMA BuiltOnAll ==
    ASSUME NEW f, NEW p \in Platforms, {p} \in f.built, KeptOutByNone(f)
    PROVE  ~Marked(f)
<1> DEFINE T == {n \in Nat : \A P \in SUBSET Platforms :
                                IsFiniteSet(P) /\ Cardinality(P) = n => {p} \cup P \in f.built}
<1>1. 0 \in T
    <2>1. ASSUME NEW P \in SUBSET Platforms, IsFiniteSet(P), Cardinality(P) = 0
          PROVE  {p} \cup P \in f.built
        <3>1. P = {}
            BY <2>1, FS_EmptySet
        <3>2. {p} \cup P = {p}
            BY <3>1
        <3>3. QED
            BY <3>2
    <2>2. QED
        BY <2>1
<1>2. ASSUME NEW n \in T
      PROVE  n + 1 \in T
    <2>1. ASSUME NEW P \in SUBSET Platforms, IsFiniteSet(P), Cardinality(P) = n + 1
          PROVE  {p} \cup P \in f.built
        <3>1. n \in Nat /\ P # {}
            BY <1>2, <2>1, FS_EmptySet
        <3>2. PICK q \in P : TRUE
            BY <3>1
        <3>3. IsFiniteSet(P \ {q}) /\ Cardinality(P \ {q}) = n /\ P \ {q} \in SUBSET Platforms
            <4>1. IsFiniteSet(P \ {q}) /\ Cardinality(P \ {q}) = Cardinality(P) - 1
                BY <2>1, FS_RemoveElement
            <4>2. QED
                BY <2>1, <3>1, <4>1
        <3>4. {p} \cup (P \ {q}) \in f.built
            BY <1>2, <3>3
        <3>5. ({p} \cup (P \ {q})) \cup {q} \in f.built
            BY <3>4 DEF KeptOutByNone
        <3>6. ({p} \cup (P \ {q})) \cup {q} = {p} \cup P
            OBVIOUS
        <3>7. QED
            BY <3>5, <3>6
    <2>2. n + 1 \in Nat
        BY <1>2
    <2>3. QED
        BY <2>1, <2>2
<1>3. T = Nat
    BY <1>1, <1>2, FromZero
<1>4. IsFiniteSet(Platforms) /\ Cardinality(Platforms) \in Nat
    BY TagsAssumption, FS_RemoveElement, FS_CardinalityType DEF Platforms
<1>5. {p} \cup Platforms \in f.built
    <2>1. Cardinality(Platforms) \in T
        BY <1>3, <1>4
    <2>2. QED
        BY <1>4, <2>1
<1>6. {p} \cup Platforms = Tags \ {MarkTag}
    BY DEF Platforms
<1> QED
    BY <1>5, <1>6 DEF Marked

\* A call that reaches nothing is one that stays inside.
LEMMA CallsStayInside ==
    ASSUME NEW w, IsReacher(w), ~reachCall(w), w.args \in Seq([form : STRING, host : STRING])
    PROVE  w.fn \notin Lookups /\
              \E k \in DOMAIN w.args \cap {reachers[w.pkg][w.fn].addr} :
                  \/ w.args[k].host \in {"localhost", "loopback"}
                  \/ w.args[k].form = "computed" /\ w.reason >= minimumReasonWords
<1> DEFINE r == reachers[w.pkg][w.fn]
           args == w.args
           L == [form : STRING, host : STRING]
<1>1. /\ DOMAIN reachers = {"net", "http"} /\ DOMAIN reachers["net"] = HostPort \cup Lookups
      /\ DOMAIN reachers["http"] = URLs
      /\ \A fn \in HostPort \cup Lookups :
            reachers["net"][fn] = IF fn \in Lookups THEN [addr |-> 0, kind |-> "always"]
                                  ELSE [addr |-> 2, kind |-> "host:port"]
      /\ \A fn \in URLs : reachers["http"][fn] = [addr |-> 1, kind |-> "url"]
    BY DEF reachers
<1>2. \A fn \in Lookups : fn \notin URLs
    BY DEF Lookups, URLs
<1>3. r.kind # "always" /\ r.addr <= Len(args) /\ Excused(args[r.addr], r.kind, w.reason)
    <2>1. r.addr \in {0, 1, 2} /\ Len(args) \in Nat
        BY <1>1, <1>2 DEF IsReacher
    <2>2. QED
        BY <2>1 DEF reachCall
<1>4. w.fn \notin Lookups /\ r.addr \in {1, 2}
    BY <1>1, <1>2, <1>3 DEF IsReacher
<1> HIDE DEF r
<1>5. args \in Seq(L) /\ r.addr \in DOMAIN args
    <2>1. args \in Seq(L)
        OBVIOUS
    <2> HIDE DEF args, L
    <2>2. Len(args) \in Nat /\ DOMAIN args = 1..Len(args)
        BY <2>1
    <2>3. QED
        BY <1>3, <1>4, <2>1, <2>2
<1>6. \/ args[r.addr].host \in {"localhost", "loopback"}
      \/ args[r.addr].form = "computed" /\ w.reason >= minimumReasonWords
    BY <1>3 DEF Excused, isLoopback, hostOf
<1> QED
    BY <1>4, <1>5, <1>6 DEF r

\* What is joined, one operand after the other, holds each of them.
LEMMA JoinedHoldsEach ==
    ASSUME NEW seqs \in Seq(Seq(STRING))
    PROVE  /\ FlattenSeq(seqs) \in Seq(STRING)
           /\ \A i \in DOMAIN seqs : \A x : seqs[i] = <<x>> =>
                  \E j \in DOMAIN FlattenSeq(seqs) : FlattenSeq(seqs)[j] = x
<1> DEFINE n == Len(seqs)
<1>1. n \in Nat /\ DOMAIN seqs = 1..n /\ \A i \in 1..n : seqs[i] \in Seq(STRING)
    <2> DEFINE S == Seq(STRING)
    <2>1. seqs \in Seq(S)
        OBVIOUS
    <2> HIDE DEF S
    <2>2. Len(seqs) \in Nat /\ DOMAIN seqs = 1..Len(seqs) /\ \A i \in 1..Len(seqs) : seqs[i] \in S
        BY <2>1
    <2>3. QED
        BY <2>2 DEF S
<1>2. CASE n = 0
    <2>1. FlattenSeq(seqs) = seqs /\ seqs = <<>>
        BY <1>2 DEF FlattenSeq
    <2>2. <<>> \in Seq(STRING)
        OBVIOUS
    <2>3. QED
        BY <1>1, <1>2, <2>1, <2>2
<1>3. CASE n # 0
    <2> DEFINE g == CHOOSE g : Flattens(g, seqs, n)
               Holds(m) == /\ g[m] \in Seq(STRING)
                           /\ \A i \in 1..m : \A x : seqs[i] = <<x>> => \E j \in DOMAIN g[m] : g[m][j] = x
               T == {m \in Nat : m + 1 <= n => Holds(m + 1)}
    <2>1. Flattens(g, seqs, n)
        BY <1>1, Flattened, Zenon
    <2>2. FlattenSeq(seqs) = g[n]
        BY <1>3, Zenon DEF FlattenSeq, Flattens
    <2> HIDE DEF g
    <2>3. \A i \in 1..n : g[i] = IF i = 1 THEN seqs[i] ELSE g[i - 1] \o seqs[i]
        BY <2>1, Zenon DEF Flattens
    <2>4. \A x : <<x>>[1] = x /\ 1 \in DOMAIN <<x>> /\ Len(<<x>>) = 1
        OBVIOUS
    <2>5. 0 \in T
        <3>1. 0 + 1 = 1
            OBVIOUS
        <3>2. 1 <= n => Holds(1)
            <4> SUFFICES ASSUME 1 <= n
                         PROVE  Holds(1)
                OBVIOUS
            <4>1. 1 \in 1..n /\ g[1] = seqs[1]
                BY <1>1, <2>3
            <4>2. \A i \in 1..1 : i = 1
                OBVIOUS
            <4>3. QED
                BY <1>1, <2>4, <4>1, <4>2
        <3> HIDE DEF Holds
        <3>3. QED
            BY <3>1, <3>2
    <2>6. ASSUME NEW m \in T
          PROVE  m + 1 \in T
        <3> HIDE DEF Holds
        <3> SUFFICES ASSUME (m + 1) + 1 <= n
                     PROVE  Holds((m + 1) + 1)
            <4>1. m + 1 \in Nat
                BY <2>6
            <4>2. QED
                BY <4>1
        <3> DEFINE k == m + 1
        <3>1. k + 1 \in 1..n /\ (k + 1) - 1 = k /\ k + 1 # 1 /\ k \in 1..n /\ Holds(k) /\ k \in Nat
            <4>1. m \in Nat /\ n \in Nat /\ (m + 1 <= n => Holds(m + 1))
                BY <1>1, <2>6
            <4>2. m + 1 <= n
                BY <4>1
            <4>3. Holds(k)
                BY <4>1, <4>2
            <4>4. QED
                BY <4>1, <4>2, <4>3
        <3> HIDE DEF k
        <3>2. g[k + 1] = g[k] \o seqs[k + 1]
            BY <2>3, <3>1
        <3> DEFINE a == g[k]
                   b == seqs[k + 1]
                   c == g[k + 1]
        <3>3. a \in Seq(STRING) /\ b \in Seq(STRING)
            BY <1>1, <3>1 DEF Holds
        <3>4. c = a \o b
            BY <3>2
        <3>5. \A i \in 1..k : \A x : seqs[i] = <<x>> => \E j \in DOMAIN a : a[j] = x
            BY <3>1 DEF Holds
        <3>6. \A x : seqs[k + 1] = <<x>> => b = <<x>>
            OBVIOUS
        <3> HIDE DEF a, b, c
        <3>7. /\ c \in Seq(STRING) /\ Len(a) \in Nat /\ Len(b) \in Nat /\ Len(c) = Len(a) + Len(b)
              /\ DOMAIN a = 1..Len(a) /\ DOMAIN c = 1..Len(c)
              /\ \A j \in 1..Len(a) : c[j] = a[j]
              /\ 1 <= Len(b) => c[Len(a) + 1] = b[1]
            BY <3>3, <3>4
        <3>8. ASSUME NEW i \in 1..(k + 1), NEW x, seqs[i] = <<x>>
              PROVE  \E j \in DOMAIN c : c[j] = x
            <4>1. CASE i \in 1..k
                <5>1. PICK j \in DOMAIN a : a[j] = x
                    BY <3>5, <3>8, <4>1
                <5>2. j \in DOMAIN c /\ c[j] = x
                    BY <3>7, <5>1
                <5>3. QED
                    BY <5>2
            <4>2. CASE i = k + 1
                <5>1. b = <<x>> /\ Len(b) = 1 /\ b[1] = x
                    BY <2>4, <3>6, <3>8, <4>2
                <5>2. Len(a) + 1 \in DOMAIN c /\ c[Len(a) + 1] = x
                    BY <3>7, <5>1
                <5>3. QED
                    BY <5>2
            <4>3. i \in 1..k \/ i = k + 1
                BY <3>1, <3>8
            <4>4. QED
                BY <4>1, <4>2, <4>3
        <3>9. Holds(k + 1)
            BY <3>7, <3>8 DEF Holds, c
        <3>10. QED
            BY <3>9 DEF k
    <2>7. n - 1 \in T
        <3>1. n - 1 \in Nat
            BY <1>1, <1>3
        <3>2. T = Nat
            <4> HIDE DEF Holds
            <4>1. QED
                BY <2>5, <2>6, FromZero
        <3>3. QED
            BY <3>1, <3>2
    <2>8. Holds(n)
        <3>1. (n - 1) + 1 = n
            BY <1>1
        <3> HIDE DEF Holds
        <3>2. QED
            BY <1>1, <2>7, <3>1
    <2>9. QED
        BY <1>1, <2>2, <2>8
<1> QED
    BY <1>2, <1>3

\* A name of a device that is found to be none is none.
LEMMA TextsStayInside ==
    ASSUME NEW w, w.operands \in Seq(Seq(STRING)),
           ~\E s \in literalStrings(w.operands) : devicePath(s)
    PROVE  LET name == FlattenSeq(w.operands)
           IN  Len(name) = 2 /\ name[1] = "/dev/" => name[2] \in devicesThatAreNotDevices \cup {"computed"}
<1> DEFINE operands == w.operands
           name == FlattenSeq(operands)
           computed == {i \in DOMAIN operands : operands[i] = <<"computed">>}
<1> SUFFICES ASSUME Len(name) = 2, name[1] = "/dev/"
             PROVE  name[2] \in devicesThatAreNotDevices \cup {"computed"}
    OBVIOUS
<1>1. name \in Seq(STRING)
    BY JoinedHoldsEach
<1>2. CASE computed = {}
    <2>1. SubSeq(operands, 1, Len(operands)) = operands
        <3> DEFINE S == Seq(STRING)
        <3>1. operands \in Seq(S) /\ Len(operands) \in Nat
            OBVIOUS
        <3> HIDE DEF S, operands
        <3>2. Len(operands) \in 0..Len(operands)
            BY <3>1
        <3> DEFINE t == SubSeq(operands, 1, Len(operands))
        <3>3. t \in Seq(S) /\ Len(t) = Len(operands) /\ \A j \in 1..Len(operands) : t[j] = operands[j]
            BY <3>1, <3>2, Beginnings
        <3> HIDE DEF t
        <3>4. t = operands
            BY <3>1, <3>3, SeqEqual
        <3>5. QED
            BY <3>4 DEF t
    <2>2. name \in literalStrings(operands)
        BY <1>2, <2>1 DEF literalStrings
    <2>3. ~devicePath(name)
        BY <2>2
    <2> HIDE DEF name
    <2>4. Tail(name) \in {<<d>> : d \in devicesThatAreNotDevices}
        BY <2>3 DEF devicePath
    <2>5. Tail(name)[1] = name[2]
        <3>1. name # <<>>
            <4>1. Len(<<>>) = 0 /\ Len(name) = 2 /\ 0 # 2
                OBVIOUS
            <4>2. QED
                BY <4>1, Zenon
        <3>2. Len(Tail(name)) = 1 /\ \A i \in 1..Len(Tail(name)) : Tail(name)[i] = name[i + 1]
            BY <1>1, <3>1, HeadTailProperties
        <3>3. 1 \in 1..1 /\ 1 + 1 = 2
            OBVIOUS
        <3>4. QED
            BY <3>2, <3>3
    <2>6. \A d : <<d>>[1] = d
        OBVIOUS
    <2>7. QED
        BY <2>4, <2>5, <2>6
<1>3. CASE computed # {}
    <2>1. PICK i \in DOMAIN operands : operands[i] = <<"computed">>
        BY <1>3
    <2>2. PICK j \in DOMAIN name : name[j] = "computed"
        BY <2>1, JoinedHoldsEach
    <2> HIDE DEF name
    <2>3. j \in {1, 2}
        <3>1. DOMAIN name = 1..2
            BY <1>1
        <3>2. QED
            BY <2>2, <3>1
    <2>4. QED
        BY <2>2, <2>3
<1> QED
    BY <1>2, <1>3

\* A file in which nothing is found stays inside.
LEMMA FilesStayInside ==
    ASSUME OfTests(run), NEW f \in run.tree, InFile(f) = {}
    PROVE  StaysInside(f)
<1>1. ASSUME NEW w \in f.writings, IsReacher(w)
      PROVE  w.fn \notin Lookups /\
                \E k \in DOMAIN w.args \cap {reachers[w.pkg][w.fn].addr} :
                    \/ w.args[k].host \in {"localhost", "loopback"}
                    \/ w.args[k].form = "computed" /\ w.reason >= minimumReasonWords
    <2>1. ~reachCall(w)
        BY <1>1 DEF InFile
    <2>2. w.args \in Seq([form : STRING, host : STRING])
        BY <1>1 DEF OfTests, IsReacher
    <2>3. QED
        BY <1>1, <2>1, <2>2, CallsStayInside
<1>2. ASSUME NEW w \in f.writings, w.is = "text"
      PROVE  LET name == FlattenSeq(w.operands)
             IN  Len(name) = 2 /\ name[1] = "/dev/" => name[2] \in devicesThatAreNotDevices \cup {"computed"}
    <2>1. ~\E s \in literalStrings(w.operands) : devicePath(s)
        BY <1>2 DEF InFile
    <2>2. w.operands \in Seq(Seq(STRING))
        BY <1>2 DEF OfTests
    <2>3. QED
        BY <2>1, <2>2, TextsStayInside
<1> QED
    BY <1>1, <1>2 DEF StaysInside

\* What testreach finds nothing in keeps what it reaches outside to the marked.
LEMMA MarkedTestsReach ==
    ASSUME OfTests(run), InTree(run.tree) = {}
    PROVE  \A f \in Read(run.tree) : f.tests =>
               /\ StaysInside(f) \/ f.dir \in TestDirs
               /\ (\E p \in Platforms : {p} \in f.built) /\ KeptOutByNone(f) => StaysInside(f)
<1> SUFFICES ASSUME NEW f \in Read(run.tree), f.tests
             PROVE  /\ StaysInside(f) \/ f.dir \in TestDirs
                    /\ (\E p \in Platforms : {p} \in f.built) /\ KeptOutByNone(f) => StaysInside(f)
    OBVIOUS
<1>1. f \in run.tree /\ f \in Walked(run.tree)
    BY DEF Read, Walked
<1>2. Marked(f) => f.dir \in TestDirs
    BY <1>1 DEF InTree, UnderMarkedDir
<1>3. ~Marked(f) => StaysInside(f)
    <2> SUFFICES ASSUME ~Marked(f)
                 PROVE  StaysInside(f)
        OBVIOUS
    <2>1. f \in InDefaultRun(run.tree)
        BY <1>1 DEF InDefaultRun
    <2> DEFINE What(g) == {[file |-> g, what |-> w] : w \in InFile(g)}
    <2>2. What(f) \subseteq InTree(run.tree)
        BY <2>1 DEF InTree
    <2>3. InFile(f) = {}
        BY <2>2
    <2>4. QED
        BY <1>1, <2>3, FilesStayInside
<1>4. (\E p \in Platforms : {p} \in f.built) /\ KeptOutByNone(f) => ~Marked(f)
    BY BuiltOnAll
<1> QED
    BY <1>2, <1>3, <1>4

\* Where the declaration has the invariant, a marked case is asked for Start.
LEMMA MarkedCasesStart ==
    ASSUME OfRecords(run), InvariantsAgree, StartIsRequired, NEW f \in Read(run.tree),
           \A on \in SUBSET Platforms : on \notin f.built,
           NEW p \in Platforms, {p, MarkTag} \in f.built, WantedByNone(f), NEW called \in f.cases
    PROVE  "Start" \in called
<1>1. PICK i \in DOMAIN run.lines :
          /\ run.lines[i].is = "pair" /\ run.lines[i].key = "invariant"
          /\ Has(i, "shape", "constrained-test-calls") /\ Said(i, "constraint") = <<MarkTag>>
          /\ \A j \in Pairs(i, "names") : run.lines[j].value = <<"Start">>
    BY DEF StartIsRequired
<1>2. MarkTag \in Tags
    BY TagsAssumption
<1>3. {MarkTag} \in f.built
    <2>1. p # MarkTag
        BY DEF Platforms
    <2>2. {p, MarkTag} \ {p} = {MarkTag}
        BY <2>1
    <2>3. {p, MarkTag} \ {p} \in f.built
        BY DEF WantedByNone
    <2>4. QED
        BY <2>2, <2>3
<1>4. {} \notin f.built
    OBVIOUS
<1>5. OnlyWith(f, MarkTag)
    BY <1>3, <1>4 DEF OnlyWith
<1>6. PICK name \in called : Has(i, "names", name)
    <2>1. Asks(i, f)
        BY <1>1 DEF InvariantsAgree, Asks
    <2>2. \E tag \in Tags : Said(i, "constraint") = <<tag>> /\ OnlyWith(f, tag)
        BY <1>1, <1>2, <1>5
    <2>3. QED
        BY <1>1, <2>1, <2>2 DEF Asks
<1>7. Pairs(i, "names") # {}
    <2>1. ToSet(<<>>) = {}
        BY DEF ToSet
    <2>2. QED
        BY <1>6, <2>1 DEF Has, Said
<1>8. Max(Pairs(i, "names")) \in Pairs(i, "names")
    <2>1. Len(run.lines) \in Nat /\ DOMAIN run.lines = 1..Len(run.lines)
        <3> DEFINE lines == run.lines
                   L == ToSet(run.lines)
        <3>1. lines \in Seq(L)
            BY DEF OfRecords
        <3> HIDE DEF lines, L
        <3>2. Len(lines) \in Nat /\ DOMAIN lines = 1..Len(lines)
            BY <3>1
        <3>3. QED
            BY <3>2 DEF lines
    <2>2. Pairs(i, "names") \subseteq 1..Len(run.lines)
        BY <2>1 DEF Pairs
    <2>3. QED
        BY <1>7, <2>1, <2>2, LargestIsThere
<1>9. Said(i, "names") = <<"Start">>
    BY <1>1, <1>7, <1>8 DEF Said
<1>10. name = "Start"
    <2>1. DOMAIN <<"Start">> = {1} /\ <<"Start">>[1] = "Start"
        OBVIOUS
    <2>2. QED
        BY <1>6, <1>9, <2>1 DEF Has, ToSet
<1> QED
    BY <1>6, <1>10

\* No test falls between the default run and the marked one, whatever its
\* constraint and whatever it writes (testreach.go:148-172, 415-423;
\* invariants.go:379-414).
THEOREM MarksAreAlwaysHonoured == Spec => []MarksAreHonoured
<1>1. Heard /\ SilenceIsAgreement => MarksAreHonoured
    <2> SUFFICES ASSUME Heard, SilenceIsAgreement, pc = "printing", found = {}
                 PROVE  MarksAreHonoured
        BY DEF MarksAreHonoured, Judged
    <2>1. \E family \in DOMAIN Runs : run \in Runs[family]
        BY DEF Heard
    <2>2. ASSUME run.gate = "testreach"
          PROVE  InTree(run.tree) = {} /\ OfTests(run)
        <3>1. found \in {InTree(run.tree)}
            BY <2>2 DEF Heard, AllGates, Judgements
        <3>2. QED
            BY <2>1, <2>2, <3>1, RunsAreGiven
    <2>3. ASSUME run.gate = "invariants"
          PROVE  InvariantsAgree /\ OfRecords(run)
        BY <2>1, <2>3, RunsAreGiven DEF SilenceIsAgreement, Judged
    <2>4. ASSUME run.gate = "invariants", StartIsRequired, NEW f \in Read(run.tree),
                 \A on \in SUBSET Platforms : on \notin f.built,
                 \E p \in Platforms : {p, MarkTag} \in f.built, WantedByNone(f), NEW called \in f.cases
          PROVE  "Start" \in called
        BY <2>3, <2>4, MarkedCasesStart
    <2>5. QED
        BY <2>2, <2>4, MarkedTestsReach DEF MarksAreHonoured, Judged
<1> QED
    BY <1>1, HeardAlways, SilenceIsAlwaysAgreement, PTL

-----------------------------------------------------------------------------
(* coverfloor                                                                *)

\* What a sum over the subsets of S is computed by.
Sums(g, v, S) ==
    g = [s \in SUBSET S |-> IF s = {} THEN 0
                            ELSE v[CHOOSE x \in s : TRUE] + g[s \ {CHOOSE x \in s : TRUE}]]

\* The sum of the values of a function over a finite set is a number, and is
\* none exactly when each of them is none.
LEMMA Summed ==
    ASSUME NEW S, IsFiniteSet(S), NEW v \in [S -> Nat]
    PROVE  /\ \E g : Sums(g, v, S)
           /\ \A g : Sums(g, v, S) => g[S] \in Nat /\ (g[S] = 0 <=> \A x \in S : v[x] = 0)
<1> DEFINE pick(s) == CHOOSE x \in s : TRUE
           Upto(g, n) == /\ g \in [SUBSET S -> Nat]
                         /\ \A s \in SUBSET S : Cardinality(s) <= n =>
                               g[s] = IF s = {} THEN 0 ELSE v[pick(s)] + g[s \ {pick(s)}]
           T == {n \in Nat : \E g : Upto(g, n)}
<1>1. \A s \in SUBSET S : IsFiniteSet(s) /\ Cardinality(s) \in Nat
    BY FS_Subset, FS_CardinalityType
<1>2. ASSUME NEW s \in SUBSET S, s # {}
      PROVE  /\ pick(s) \in s /\ s \ {pick(s)} \in SUBSET S
             /\ Cardinality(s \ {pick(s)}) = Cardinality(s) - 1 /\ Cardinality(s) # 0
    <2>1. pick(s) \in s
        BY <1>2
    <2> HIDE DEF pick
    <2>2. Cardinality(s \ {pick(s)}) = Cardinality(s) - 1
        BY <1>1, <2>1, FS_RemoveElement
    <2>3. Cardinality(s) # 0
        BY <1>1, <1>2, FS_EmptySet
    <2>4. QED
        BY <2>1, <2>2, <2>3
<1> HIDE DEF pick
<1>3. 0 \in T
    <2> DEFINE g == [s \in SUBSET S |-> 0]
    <2>1. \A s \in SUBSET S : Cardinality(s) <= 0 => s = {}
        BY <1>1, FS_EmptySet
    <2>2. Upto(g, 0)
        BY <2>1
    <2>3. QED
        BY <2>2
<1>4. ASSUME NEW n \in T
      PROVE  n + 1 \in T
    <2>1. PICK g : Upto(g, n)
        BY <1>4
    <2> DEFINE h == [s \in SUBSET S |-> IF Cardinality(s) <= n THEN g[s]
                                        ELSE IF s = {} THEN 0 ELSE v[pick(s)] + g[s \ {pick(s)}]]
    <2>2. n \in Nat
        BY <1>4
    <2>3. h \in [SUBSET S -> Nat]
        <3> SUFFICES ASSUME NEW s \in SUBSET S
                     PROVE  h[s] \in Nat
            OBVIOUS
        <3>1. g[s] \in Nat
            BY <2>1
        <3>2. s # {} => v[pick(s)] \in Nat /\ g[s \ {pick(s)}] \in Nat
            BY <1>2, <2>1
        <3>3. QED
            BY <3>1, <3>2
    <2>4. ASSUME NEW s \in SUBSET S, Cardinality(s) <= n + 1
          PROVE  h[s] = IF s = {} THEN 0 ELSE v[pick(s)] + h[s \ {pick(s)}]
        <3>1. CASE s = {}
            <4>1. Cardinality(s) = 0
                BY <3>1, FS_EmptySet
            <4>2. QED
                BY <2>1, <2>2, <3>1, <4>1
        <3>2. CASE s # {}
            <4> DEFINE t == s \ {pick(s)}
            <4>1. t \in SUBSET S /\ Cardinality(t) <= n
                BY <1>1, <1>2, <2>2, <2>4, <3>2
            <4> HIDE DEF t
            <4>2. h[t] = g[t]
                BY <4>1
            <4>3. g[s] = v[pick(s)] + g[t] \/ ~(Cardinality(s) <= n)
                BY <2>1, <3>2 DEF t
            <4>4. h[s] = v[pick(s)] + g[t]
                BY <3>2, <4>3 DEF t
            <4>5. QED
                BY <3>2, <4>2, <4>4 DEF t
        <3>3. QED
            BY <3>1, <3>2
    <2> HIDE DEF h
    <2>5. Upto(h, n + 1)
        BY <2>3, <2>4
    <2>6. n + 1 \in Nat
        BY <2>2
    <2>7. QED
        BY <2>5, <2>6
<1>5. Cardinality(S) \in T
    <2> HIDE DEF Upto
    <2>1. QED
        BY <1>1, <1>3, <1>4, FromZero
<1>6. PICK g : Upto(g, Cardinality(S))
    BY <1>5
<1>7. Sums(g, v, S)
    <2>1. \A s \in SUBSET S : Cardinality(s) <= Cardinality(S)
        BY FS_Subset
    <2>2. \A s \in SUBSET S : g[s] = IF s = {} THEN 0 ELSE v[pick(s)] + g[s \ {pick(s)}]
        BY <1>6, <2>1
    <2>3. g = [s \in SUBSET S |-> g[s]]
        BY <1>6
    <2>4. g = [s \in SUBSET S |-> IF s = {} THEN 0 ELSE v[pick(s)] + g[s \ {pick(s)}]]
        BY <2>2, <2>3
    <2>5. QED
        BY <2>4 DEF Sums, pick
<1>8. ASSUME NEW f, Sums(f, v, S)
      PROVE  f[S] \in Nat /\ (f[S] = 0 <=> \A x \in S : v[x] = 0)
    <2>1. \A s \in SUBSET S : f[s] = IF s = {} THEN 0 ELSE v[pick(s)] + f[s \ {pick(s)}]
        BY <1>8 DEF Sums, pick
    <2> DEFINE Counts(s) == f[s] \in Nat /\ (f[s] = 0 <=> \A x \in s : v[x] = 0)
               A == {n \in Nat : \A s \in SUBSET S : Cardinality(s) = n => Counts(s)}
    <2>2. 0 \in A
        <3> SUFFICES ASSUME NEW s \in SUBSET S, Cardinality(s) = 0
                     PROVE  Counts(s)
            OBVIOUS
        <3>1. s = {}
            BY <1>1, FS_EmptySet
        <3>2. f[s] = 0
            BY <2>1, <3>1
        <3>3. QED
            BY <3>1, <3>2
    <2>3. ASSUME NEW n \in A
          PROVE  n + 1 \in A
        <3>1. ASSUME NEW s \in SUBSET S, Cardinality(s) = n + 1
              PROVE  Counts(s)
            <4>1. s # {}
                <5>1. n \in Nat /\ n + 1 # 0
                    BY <2>3
                <5>2. Cardinality(s) # 0
                    BY <3>1, <5>1
                <5>3. QED
                    BY <5>2, FS_EmptySet
            <4> DEFINE t == s \ {pick(s)}
            <4>2. t \in SUBSET S /\ Cardinality(t) = n /\ pick(s) \in s /\ s = t \cup {pick(s)}
                BY <1>2, <2>3, <3>1, <4>1
            <4> HIDE DEF t
            <4>3. f[s] = v[pick(s)] + f[t]
                BY <2>1, <4>1 DEF t
            <4>4. Counts(t)
                BY <2>3, <4>2
            <4>5. v[pick(s)] \in Nat
                BY <4>2
            <4>6. f[s] \in Nat /\ (f[s] = 0 <=> v[pick(s)] = 0 /\ f[t] = 0)
                BY <4>3, <4>4, <4>5
            <4>7. QED
                BY <4>2, <4>4, <4>6
        <3>2. n + 1 \in Nat
            BY <2>3
        <3> HIDE DEF Counts
        <3>3. QED
            BY <3>1, <3>2
    <2>4. A = Nat
        <3> HIDE DEF Counts
        <3>1. QED
            BY <2>2, <2>3, FromZero
    <2>5. QED
        BY <1>1, <2>4
<1> QED
    BY <1>7, <1>8

\* The numbers of the lines of a block, and the last of them.
LEMMA LinesAreNumbered ==
    ASSUME OfProfile(run), NEW block
    PROVE  /\ LinesOf(run.profile, block) \subseteq 1..Len(run.profile) /\ Len(run.profile) \in Nat
           /\ IsFiniteSet(LinesOf(run.profile, block))
           /\ DOMAIN run.profile = 1..Len(run.profile)
           /\ \A i \in 1..Len(run.profile) : run.profile[i].statements \in Int /\ run.profile[i].count \in Int
<1> DEFINE profile == run.profile
           L == [block : STRING, statements : Int, count : Int, parses : BOOLEAN]
<1>1. profile \in Seq(L) /\ \A l \in L : l.statements \in Int /\ l.count \in Int
    BY DEF OfProfile
<1> HIDE DEF profile, L
<1>2. /\ Len(profile) \in Nat /\ DOMAIN profile = 1..Len(profile)
      /\ \A i \in 1..Len(profile) : profile[i].statements \in Int /\ profile[i].count \in Int
    BY <1>1
<1>3. LinesOf(profile, block) \subseteq 1..Len(profile)
    BY <1>2 DEF LinesOf
<1>4. IsFiniteSet(LinesOf(profile, block))
    <2>1. IsFiniteSet(1..Len(profile))
        BY <1>2, FS_Interval
    <2>2. QED
        BY <1>3, <2>1, FS_Subset
<1> QED
    BY <1>2, <1>3, <1>4 DEF profile

\* The counts of a block add up to something when one of its lines has some.
LEMMA CountSaysIfEntered ==
    ASSUME OfProfile(run), Measures(run.profile), NEW block
    PROVE  Entered(run.profile, block) <=> \E l \in ToSet(run.profile) : l.block = block /\ l.count > 0
<1> DEFINE S == LinesOf(run.profile, block)
           v == [i \in S |-> run.profile[i].count]
           Q(g) == g = [s \in SUBSET S |-> IF s = {} THEN 0
                                           ELSE run.profile[CHOOSE x \in s : TRUE].count + g[s \ {CHOOSE x \in s : TRUE}]]
           g == CHOOSE g : Q(g)
<1>1. /\ S \subseteq 1..Len(run.profile) /\ IsFiniteSet(S) /\ DOMAIN run.profile = 1..Len(run.profile)
      /\ \A i \in 1..Len(run.profile) : run.profile[i].count \in Int
    BY LinesAreNumbered
<1>2. v \in [S -> Nat]
    BY <1>1 DEF Measures, ParseLine
<1>3. Count(run.profile, block) = g[S]
    BY DEF Count, MapThenSumSet, MapThenFoldSet
<1>4. \A i \in S : v[i] = run.profile[i].count
    OBVIOUS
<1>5. \A i : i \in S <=> i \in 1..Len(run.profile) /\ run.profile[i].block = block
    BY <1>1 DEF LinesOf
<1> HIDE DEF S, v
<1>6. \A f : Q(f) <=> Sums(f, v, S)
    <2>1. \A s \in SUBSET S : s # {} => v[CHOOSE x \in s : TRUE] = run.profile[CHOOSE x \in s : TRUE].count
        BY <1>4
    <2>2. \A f : [s \in SUBSET S |-> IF s = {} THEN 0
                                     ELSE run.profile[CHOOSE x \in s : TRUE].count + f[s \ {CHOOSE x \in s : TRUE}]]
                 = [s \in SUBSET S |-> IF s = {} THEN 0
                                       ELSE v[CHOOSE x \in s : TRUE] + f[s \ {CHOOSE x \in s : TRUE}]]
        BY <2>1
    <2>3. QED
        BY <2>2 DEF Sums
<1>7. Sums(g, v, S)
    <2>1. \E f : Sums(f, v, S)
        BY <1>1, <1>2, Summed
    <2>2. Q(g)
        <3> HIDE DEF Q
        <3>1. QED
            BY <1>6, <2>1
    <2> HIDE DEF Q, g
    <2>3. QED
        BY <1>6, <2>2
<1> HIDE DEF g
<1>8. g[S] \in Nat /\ (g[S] = 0 <=> \A i \in S : v[i] = 0)
    BY <1>1, <1>2, <1>7, Summed
<1>9. Entered(run.profile, block) <=> \E i \in S : run.profile[i].count > 0
    <2>1. \A i \in S : v[i] \in Nat
        BY <1>2
    <2>2. Entered(run.profile, block) <=> g[S] > 0
        BY <1>3 DEF Entered
    <2>3. QED
        BY <1>4, <1>8, <2>1, <2>2
<1> QED
    BY <1>1, <1>5, <1>9 DEF ToSet

\* The statements of some blocks add up to a number, which is none when none of
\* the blocks has any.
LEMMA StatementsAddUp ==
    ASSUME OfProfile(run), Measures(run.profile), NEW S \in SUBSET Blocks(run.profile)
    PROVE  LET sum == MapThenSumSet(LAMBDA b : Statements(run.profile, b), S)
           IN  sum \in Nat /\ (sum = 0 <=> \A b \in S : Statements(run.profile, b) = 0)
<1> DEFINE v == [b \in S |-> Statements(run.profile, b)]
           Q(g) == g = [s \in SUBSET S |-> IF s = {} THEN 0
                                           ELSE Statements(run.profile, CHOOSE x \in s : TRUE) + g[s \ {CHOOSE x \in s : TRUE}]]
           g == CHOOSE g : Q(g)
           sum == MapThenSumSet(LAMBDA b : Statements(run.profile, b), S)
           n == Len(run.profile)
<1>1. n \in Nat /\ DOMAIN run.profile = 1..n
    BY LinesAreNumbered
<1>2. IsFiniteSet(S)
    <2> DEFINE of == [i \in 1..n |-> run.profile[i].block]
    <2>1. Blocks(run.profile) = {run.profile[i].block : i \in 1..n}
        BY <1>1 DEF Blocks, ToSet
    <2>2. of \in Surjection(1..n, Blocks(run.profile))
        BY <2>1 DEF Surjection
    <2>3. IsFiniteSet(1..n)
        BY <1>1, FS_Interval
    <2> HIDE DEF of
    <2>4. IsFiniteSet(Blocks(run.profile))
        BY <2>2, <2>3, FS_Surjection
    <2>5. QED
        BY <2>4, FS_Subset
<1>3. ASSUME NEW b \in S
      PROVE  Statements(run.profile, b) \in Nat
    <2> DEFINE N == LinesOf(run.profile, b)
    <2>1. N \subseteq 1..n
        BY LinesAreNumbered
    <2>2. N # {}
        BY <1>1 DEF Blocks, ToSet, LinesOf
    <2> HIDE DEF N
    <2>3. Max(N) \in 1..n
        BY <1>1, <2>1, <2>2, LargestIsThere
    <2>4. \A i \in 1..n : run.profile[i].statements \in Int /\ run.profile[i].statements >= 0
        BY <1>1, LinesAreNumbered DEF Measures, ParseLine
    <2>5. QED
        BY <2>3, <2>4 DEF Statements, N
<1>4. v \in [S -> Nat]
    BY <1>3
<1>5. sum = g[S]
    BY DEF MapThenSumSet, MapThenFoldSet
<1>6. \A b \in S : v[b] = Statements(run.profile, b)
    OBVIOUS
<1> HIDE DEF v, sum
<1>7. \A f : Q(f) <=> Sums(f, v, S)
    <2>1. \A s \in SUBSET S : s # {} => v[CHOOSE x \in s : TRUE] = Statements(run.profile, CHOOSE x \in s : TRUE)
        BY <1>6
    <2>2. \A f : [s \in SUBSET S |-> IF s = {} THEN 0
                                     ELSE Statements(run.profile, CHOOSE x \in s : TRUE) + f[s \ {CHOOSE x \in s : TRUE}]]
                 = [s \in SUBSET S |-> IF s = {} THEN 0
                                       ELSE v[CHOOSE x \in s : TRUE] + f[s \ {CHOOSE x \in s : TRUE}]]
        BY <2>1
    <2>3. QED
        BY <2>2 DEF Sums
<1>8. Sums(g, v, S)
    <2>1. \E f : Sums(f, v, S)
        BY <1>2, <1>4, Summed
    <2>2. Q(g)
        <3> HIDE DEF Q
        <3>1. QED
            BY <1>7, <2>1
    <2> HIDE DEF Q, g
    <2>3. QED
        BY <1>7, <2>2
<1> HIDE DEF g
<1>9. g[S] \in Nat /\ (g[S] = 0 <=> \A b \in S : v[b] = 0)
    BY <1>2, <1>4, <1>8, Summed
<1> QED
    BY <1>5, <1>6, <1>9 DEF sum

\* A total and a floor are printed to a tenth each: the one clears the other when
\* it does so give or take both roundings.
LEMMA ClearsAsPrinted ==
    ASSUME NEW c \in Nat, NEW t \in Nat, t = 0 => c = 0, NEW floor \in Int,
           NEW clears \in Clears(floor, [statements |-> t, covered |-> c]), floor # NaN
    PROVE  /\ clears \in BOOLEAN
           /\ clears => 10000 * c >= (floor - 10) * t
           /\ ~clears => 10000 * c <= (floor + 10) * t
<1>1. PICK m \in Percent([statements |-> t, covered |-> c]), r \in Round1(floor, 1) : clears = (m >= r)
    BY DEF Clears
<1>2. r \in 0..1000 /\ 2 * (10 * r * 1 - floor) \in (-10 * 1)..(10 * 1)
    BY DEF Round1
<1>3. CASE t = 0
    <2>1. c = 0 /\ (floor - 10) * t = 0 /\ (floor + 10) * t = 0
        BY <1>3
    <2>2. clears \in BOOLEAN
        BY <1>1
    <2>3. QED
        BY <2>1, <2>2
<1>4. CASE t # 0
    <2>1. m \in 0..1000 /\ 2 * (10 * m * t - 10000 * c) \in (-10 * t)..(10 * t)
        BY <1>4 DEF Percent, Round1
    <2> DEFINE mt == m * t
               rt == r * t
               ft == floor * t
    <2>2. mt \in Int /\ rt \in Int /\ ft \in Int /\ 10 * m * t = 10 * mt
          /\ (floor - 10) * t = ft - 10 * t /\ (floor + 10) * t = ft + 10 * t
        BY <2>1, <1>2
    <2>3. 10 * r - floor <= 5 /\ 10 * r - floor >= -5 /\ r \in Int
        BY <1>2
    <2>4. 10 * rt - ft <= 5 * t /\ 10 * rt - ft >= -5 * t
        <3> DEFINE d == 10 * r - floor
        <3>1. d \in Int /\ d <= 5 /\ d >= -5
            BY <2>3
        <3>2. d * t = 10 * rt - ft
            BY <2>3
        <3> HIDE DEF d, rt, ft
        <3>3. d * t <= 5 * t /\ d * t >= -5 * t
            BY <3>1
        <3>4. QED
            BY <3>2, <3>3
    <2>5. (m >= r => mt >= rt) /\ (~(m >= r) => mt <= rt)
        <3>1. m \in Int /\ r \in Int
            BY <1>2, <2>1
        <3>2. QED
            BY <3>1
    <2>6. 10 * mt - 10000 * c <= 5 * t /\ 10 * mt - 10000 * c >= -5 * t
        <3>1. 2 * (10 * mt - 10000 * c) \in (-10 * t)..(10 * t)
            BY <2>1, <2>2
        <3> HIDE DEF mt
        <3>2. QED
            BY <2>2, <3>1
    <2> HIDE DEF mt, rt, ft
    <2>7. m >= r => 10000 * c >= ft - 10 * t
        BY <2>2, <2>4, <2>5, <2>6
    <2>8. ~(m >= r) => 10000 * c <= ft + 10 * t
        BY <2>2, <2>4, <2>5, <2>6
    <2>9. (floor - 10) * t = ft - 10 * t /\ (floor + 10) * t = ft + 10 * t
        BY <2>2
    <2>10. clears \in BOOLEAN
        BY <1>1
    <2>11. (clears => m >= r) /\ (~clears => ~(m >= r))
        BY <1>1
    <2>12. clears => 10000 * c >= (floor - 10) * t
        <3>1. SUFFICES ASSUME clears
                       PROVE  10000 * c >= (floor - 10) * t
            OBVIOUS
        <3>2. m >= r
            BY <2>11, <3>1, Zenon
        <3>3. QED
            BY <2>7, <2>9, <3>2
    <2>13. ~clears => 10000 * c <= (floor + 10) * t
        <3>1. SUFFICES ASSUME ~clears
                       PROVE  10000 * c <= (floor + 10) * t
            OBVIOUS
        <3>2. ~(m >= r)
            BY <2>11, <3>1, Zenon
        <3>3. QED
            BY <2>8, <2>9, <3>2
    <2>14. QED
        BY <2>10, <2>12, <2>13
<1> QED
    BY <1>3, <1>4

\* What is found is judged, and nothing is found before.
Gauged ==
    /\ Heard
    /\ pc \in {"reading", "writing", "printing", "ended"}
    /\ pc = "reading" => found = {} /\ exit = "none"
    /\ pc # "ended" => exit = "none"
    /\ pc = "writing" => run.gate = "treefmt"
    /\ run.gate \in AllGates /\ (found # {} \/ exit = "success") =>
          /\ \A k \in 1..Len(Inputs(run.gate)) : Accepts(Inputs(run.gate)[k])
          /\ found \in Judgements
    /\ exit = "success" /\ run.gate # "treefmt" => found = {}

\* At every step.
LEMMA GaugedAlways == Spec => []Gauged
<1>1. Init => (Heard => Gauged)
    BY DEF Init, Gauged
<1>2. Heard' /\ Gauged /\ [Next]_vars => Gauged'
    <2> SUFFICES ASSUME Heard', Gauged, [Next]_vars
                 PROVE  Gauged'
        OBVIOUS
    <2>1. run' = run
        BY DEF Next, vars, ReadInput, FailInput, Judge, WriteFile, FailWrite, FinishWriting, Report, FailReport
    <2>2. Judgements' = Judgements /\ (\A x : Accepts(x)' = Accepts(x)) /\ Inputs(run.gate)' = Inputs(run.gate)
        BY <2>1 DEF Judgements, Accepts, Formatted, Paths, Known, Read, Inputs
    <2>3. CASE ReadInput \/ WriteFile
        BY <2>1, <2>2, <2>3 DEF Gauged, ReadInput, WriteFile
    <2>4. CASE FailInput \/ FailWrite
        BY <2>1, <2>2, <2>4 DEF Gauged, FailInput, FailWrite, End
    <2>5. CASE Judge
        <3>1. pc' \in {"writing", "printing"} /\ exit' = "none" /\ (pc' = "writing" => run.gate = "treefmt")
            BY <2>5 DEF Judge, Gauged
        <3>2. run.gate \in AllGates =>
                  /\ \A k \in 1..Len(Inputs(run.gate)) : Accepts(Inputs(run.gate)[k])'
                  /\ found' \in Judgements'
            BY <2>1, <3>1 DEF Heard
        <3>3. QED
            BY <2>1, <2>2, <3>1, <3>2 DEF Gauged
    <2>6. CASE FinishWriting \/ Report \/ FailReport
        <3>1. /\ pc \in {"writing", "printing"} /\ pc' = "ended" /\ found' = found /\ exit' \in {"success", "failure"}
              /\ exit' = "success" /\ run.gate # "treefmt" => found = {}
            BY <2>6 DEF Gauged, FinishWriting, Report, FailReport, End
        <3>2. run.gate \in AllGates =>
                  /\ \A k \in 1..Len(Inputs(run.gate)) : Accepts(Inputs(run.gate)[k])
                  /\ found \in Judgements
            BY <3>1 DEF Heard, Gauged
        <3>3. QED
            BY <2>1, <2>2, <3>1, <3>2 DEF Gauged
    <2>7. CASE UNCHANGED vars
        BY <2>1, <2>2, <2>7 DEF Gauged, vars
    <2>8. QED
        BY <2>3, <2>4, <2>5, <2>6, <2>7 DEF Next
<1> QED
    BY <1>1, <1>2, HeardAlways, PTL DEF Spec

\* A coverage that clears the floor, or does not, really does.
LEMMA CoverIsMeasured ==
    ASSUME OfProfile(run), Measures(run.profile), ReadsFloor(run.floor), run.floor # <<NaN>>,
           NEW clears \in Clears(run.floor[1], Total(run.profile))
    PROVE  /\ run.profile # <<>> /\ clears \in BOOLEAN
           /\ clears => 10000 * Reached >= (run.floor[1] - 10) * All
           /\ ~clears => 10000 * Reached <= (run.floor[1] + 10) * All
<1> DEFINE profile == run.profile
           inside == {b \in Blocks(profile) : \E l \in ToSet(profile) : l.block = b /\ l.count > 0}
           floor == run.floor
<1>1. inside = {b \in Blocks(profile) : Entered(profile, b)}
    BY CountSaysIfEntered
<1>2. Total(profile) = [statements |-> All, covered |-> Reached]
    <2>1. Reached = MapThenSumSet(LAMBDA b : Statements(profile, b), inside)
        BY DEF Reached
    <2>2. Total(profile) = [statements |-> MapThenSumSet(LAMBDA b : Statements(profile, b), Blocks(profile)),
                            covered |-> MapThenSumSet(LAMBDA b : Statements(profile, b),
                                                      {b \in Blocks(profile) : Entered(profile, b)})]
        BY DEF Total
    <2>3. QED
        BY <1>1, <2>1, <2>2 DEF All
<1>3. Reached \in Nat /\ (Reached = 0 <=> \A b \in inside : Statements(profile, b) = 0)
    <2>1. inside \in SUBSET Blocks(profile)
        OBVIOUS
    <2>2. QED
        BY <2>1, StatementsAddUp DEF Reached
<1>4. All \in Nat /\ (All = 0 <=> \A b \in Blocks(profile) : Statements(profile, b) = 0)
    <2>1. Blocks(profile) \in SUBSET Blocks(profile)
        OBVIOUS
    <2>2. QED
        BY <2>1, StatementsAddUp DEF All
<1>5. All = 0 => Reached = 0
    BY <1>3, <1>4
<1>6. floor[1] \in Int /\ floor[1] # NaN
    <2>1. floor \in Seq(Numbers) /\ Len(floor) = 1 /\ floor[1] # Words
        BY DEF OfProfile, ReadsFloor, IsNumber
    <2>2. floor # <<NaN>>
        OBVIOUS
    <2> DEFINE N == Numbers
    <2> HIDE DEF floor, N
    <2>3. floor = <<floor[1]>> /\ floor[1] \in N
        <3>1. floor \in Seq(N) /\ Len(floor) = 1
            BY <2>1 DEF N
        <3>2. floor[1] \in N
            <4>1. floor \in Seq(N) /\ 1 \in 1..Len(floor)
                BY <3>1
            <4>2. QED
                BY <4>1, ElementOfSeq
        <3>3. floor = <<floor[1]>>
            BY <3>1
        <3>4. QED
            BY <3>2, <3>3
    <2>4. floor[1] # NaN
        BY <2>2, <2>3
    <2>5. QED
        BY <2>1, <2>3, <2>4 DEF Numbers, N
<1>7. profile # <<>>
    BY DEF Measures
<1>8. clears \in Clears(floor[1], [statements |-> All, covered |-> Reached])
    BY <1>2
<1> HIDE DEF floor, profile, inside
<1>9. /\ clears \in BOOLEAN
      /\ clears => 10000 * Reached >= (floor[1] - 10) * All
      /\ ~clears => 10000 * Reached <= (floor[1] + 10) * All
    BY <1>3, <1>4, <1>5, <1>6, <1>8, ClearsAsPrinted
<1> QED
    BY <1>7, <1>9 DEF floor, profile

\* Where no result blocks, each has a severity its run declares, below the floor.
LEMMA ScanIsBelow ==
    ASSUME OfScan(run), Scans(run.document), ReadsScanFloor(run.floor), run.floor[1] # NaN,
           Blocking(run.document, run.floor[1]) = {}
    PROVE  /\ run.document # <<>>
           /\ \A scan \in ToSet(run.document) : \A rule \in ToSet(scan.results) :
                 \E r \in ToSet(scan.rules) :
                     r.id = rule /\ (r.severity = NaN \/ Less(r.severity, run.floor[1]))
<1> DEFINE floor == run.floor
<1>1. floor[1] \in Int
    <2>1. floor \in Seq(Numbers) /\ floor # <<>> /\ floor[1] # Words
        BY DEF OfScan, ReadsScanFloor, IsNumber
    <2> HIDE DEF floor
    <2>2. floor[1] \in Numbers
        BY <2>1
    <2>3. QED
        BY <2>1, <2>2 DEF Numbers, floor
<1>2. ASSUME NEW k \in DOMAIN run.document, NEW i \in DOMAIN run.document[k].results
      PROVE  ~BlocksRun(run.document[k], run.document[k].results[i], floor[1])
    <2> DEFINE document == run.document
               blocked(j) == {n \in DOMAIN document[j].results :
                                 BlocksRun(document[j], document[j].results[n], run.floor[1])}
               each == {{j} \X blocked(j) : j \in DOMAIN document}
    <2>1. UNION each = {}
        BY DEF Blocking
    <2>2. {k} \X blocked(k) \in each
        BY <1>2
    <2> HIDE DEF each
    <2>3. {k} \X blocked(k) = {}
        BY <2>1, <2>2
    <2>4. i \notin blocked(k)
        <3> HIDE DEF blocked
        <3>1. SUFFICES ASSUME i \in blocked(k)
                       PROVE  FALSE
            OBVIOUS
        <3>2. <<k, i>> \in {k} \X blocked(k)
            BY <3>1
        <3>3. QED
            BY <2>3, <3>2
    <2>5. QED
        BY <1>2, <2>4
<1>3. ASSUME NEW scan \in ToSet(run.document), NEW rule, ~BlocksRun(scan, rule, floor[1])
      PROVE  \E r \in ToSet(scan.rules) : r.id = rule /\ (r.severity = NaN \/ Less(r.severity, floor[1]))
    <2> DEFINE rules == scan.rules
               R == [id : STRING, severity : Numbers]
               said == {i \in DOMAIN rules : rules[i].id = rule /\ rule # "" /\ IsNumber(rules[i].severity)}
    <2>1. rules \in Seq(R)
        BY <1>3 DEF OfScan
    <2>2. SeverityOf(scan, rule) = IF said = {} THEN Words ELSE rules[Max(said)].severity
        BY DEF SeverityOf
    <2>3. IsNumber(SeverityOf(scan, rule)) /\ ~AtLeast(SeverityOf(scan, rule), floor[1])
        BY <1>3 DEF BlocksRun
    <2>4. said # {}
        BY <2>2, <2>3 DEF IsNumber
    <2>5. Max(said) \in said
        <3> HIDE DEF rules, R
        <3>1. Len(rules) \in Nat /\ DOMAIN rules = 1..Len(rules)
            BY <2>1
        <3>2. said \subseteq 1..Len(rules)
            BY <3>1
        <3> HIDE DEF said
        <3>3. QED
            BY <2>4, <3>1, <3>2, LargestIsThere
    <2> DEFINE m == Max(said)
    <2>6. m \in DOMAIN rules /\ rules[m].id = rule
        BY <2>5
    <2>7. SeverityOf(scan, rule) = rules[m].severity
        BY <2>2, <2>4
    <2> HIDE DEF rules, R, said, m
    <2>8. rules[m].severity \in Numbers
        <3>1. rules[m] \in R
            BY <2>1, <2>6
        <3>2. QED
            BY <3>1 DEF R
    <2>9. rules[m].severity = NaN \/ Less(rules[m].severity, floor[1])
        <3> DEFINE s == rules[m].severity
        <3>1. s \in Numbers /\ s # Words /\ ~AtLeast(s, floor[1])
            BY <2>3, <2>7, <2>8 DEF IsNumber
        <3> HIDE DEF s, floor
        <3>2. s = NaN \/ s \in Int
            BY <3>1 DEF Numbers
        <3>3. s \in Int => Less(s, floor[1])
            BY <1>1, <3>1 DEF AtLeast, Less
        <3>4. QED
            BY <3>2, <3>3 DEF s
    <2>10. rules[m] \in ToSet(rules)
        BY <2>6 DEF ToSet
    <2>11. QED
        BY <2>6, <2>9, <2>10 DEF rules
<1>4. run.document # <<>>
    BY DEF Scans
<1>5. ASSUME NEW scan \in ToSet(run.document), NEW rule \in ToSet(scan.results)
      PROVE  ~BlocksRun(scan, rule, floor[1])
    <2>1. PICK k \in DOMAIN run.document : scan = run.document[k]
        BY DEF ToSet
    <2>2. PICK i \in DOMAIN scan.results : rule = scan.results[i]
        BY DEF ToSet
    <2>3. QED
        BY <1>2, <2>1, <2>2
<1> QED
    BY <1>3, <1>4, <1>5

\* A green floor was earned and a red one was missed, whatever the profile of the
\* tests and whatever a scan says (coverfloor.go:64-69, 179-185; scanfloor.go:122-127,
\* 180-185).
THEOREM FloorsAreAlwaysCleared == Spec => []FloorsAreCleared
<1>1. Gauged => FloorsAreCleared
    <2> SUFFICES ASSUME Gauged
                 PROVE  FloorsAreCleared
        OBVIOUS
    <2>1. \E family \in DOMAIN Runs : run \in Runs[family]
        BY DEF Gauged, Heard
    <2>2. ASSUME run.gate = "coverfloor", run.floor # <<NaN>>, found # {} \/ exit = "success"
          PROVE  /\ exit = "success" => run.profile # <<>> /\ 10000 * Reached >= (run.floor[1] - 10) * All
                 /\ found # {} => 10000 * Reached <= (run.floor[1] + 10) * All
        <3>1. OfProfile(run)
            BY <2>1, <2>2, RunsAreGiven
        <3>2. /\ \A k \in 1..Len(Inputs("coverfloor")) : Accepts(Inputs("coverfloor")[k])
              /\ found \in Judgements /\ (exit = "success" => found = {})
            BY <2>2 DEF Gauged, AllGates
        <3>3. Measures(run.profile) /\ ReadsFloor(run.floor)
            <4>1. Len(Inputs("coverfloor")) = 2 /\ Inputs("coverfloor")[1] = "profile" /\ Inputs("coverfloor")[2] = "floor"
                BY DEF Inputs
            <4>2. 1 \in 1..2 /\ 2 \in 1..2
                OBVIOUS
            <4>3. Accepts("profile") /\ Accepts("floor")
                BY <3>2, <4>1, <4>2
            <4>4. QED
                BY <4>3 DEF Accepts
        <3>4. PICK clears \in Clears(run.floor[1], Total(run.profile)) : found = IF clears THEN {} ELSE {"below"}
            BY <2>2, <3>2 DEF Judgements
        <3>5. /\ run.profile # <<>> /\ clears \in BOOLEAN
              /\ clears => 10000 * Reached >= (run.floor[1] - 10) * All
              /\ ~clears => 10000 * Reached <= (run.floor[1] + 10) * All
            BY <2>2, <3>1, <3>3, <3>4, CoverIsMeasured
        <3>6. (found = {} => clears) /\ (found # {} => ~clears)
            BY <3>4, <3>5
        <3>7. QED
            BY <3>2, <3>5, <3>6
    <2>3. ASSUME Green("scanfloor"), run.floor[1] # NaN
          PROVE  /\ run.document # <<>>
                 /\ \A scan \in ToSet(run.document) : \A rule \in ToSet(scan.results) :
                       \E r \in ToSet(scan.rules) :
                           r.id = rule /\ (r.severity = NaN \/ Less(r.severity, run.floor[1]))
        <3>1. run.gate = "scanfloor" /\ exit = "success"
            BY <2>3 DEF Green
        <3>2. OfScan(run)
            BY <2>1, <3>1, RunsAreGiven
        <3>3. /\ \A k \in 1..Len(Inputs("scanfloor")) : Accepts(Inputs("scanfloor")[k])
              /\ found \in Judgements /\ found = {}
            BY <3>1 DEF Gauged, AllGates
        <3>4. Scans(run.document) /\ ReadsScanFloor(run.floor)
            <4>1. Len(Inputs("scanfloor")) = 2 /\ Inputs("scanfloor")[1] = "sarif" /\ Inputs("scanfloor")[2] = "scan floor"
                BY DEF Inputs
            <4>2. 1 \in 1..2 /\ 2 \in 1..2
                OBVIOUS
            <4>3. Accepts("sarif") /\ Accepts("scan floor")
                BY <3>3, <4>1, <4>2
            <4>4. QED
                BY <4>3 DEF Accepts
        <3>5. Blocking(run.document, run.floor[1]) = {}
            BY <3>1, <3>3 DEF Judgements
        <3>6. QED
            BY <2>3, <3>2, <3>4, <3>5, ScanIsBelow
    <2>4. QED
        BY <2>2, <2>3 DEF FloorsAreCleared
<1> QED
    BY <1>1, GaugedAlways, PTL

-----------------------------------------------------------------------------
(* treefmt                                                                   *)

\* Which of the pieces each byte of what is joined of them is from, in their
\* order, none but an empty piece left out.
From(m, r, c, k) ==
    /\ m \in [1..Len(r) -> 1..k]
    /\ \A p \in 1..Len(r) : \E q \in 1..Len(c[m[p]]) : r[p] = c[m[p]][q]
    /\ \A p, q \in 1..Len(r) : p < q => m[p] <= m[q] /\ (m[p] = m[q] => Len(c[m[p]]) > 1)
    /\ \A i \in 1..k : c[i] = <<>> \/ \E p \in 1..Len(r) : m[p] = i

\* One piece more.
LEMMA FromOneMore ==
    ASSUME NEW B, NEW n \in Nat, NEW c \in [1..n -> Seq(B)], NEW k \in Nat, k + 1 <= n,
           NEW a \in Seq(B), NEW m, From(m, a, c, k)
    PROVE  \E w : From(w, a \o c[k + 1], c, k + 1)
<1> DEFINE b == c[k + 1]
           r == a \o b
           w == [p \in 1..Len(r) |-> IF p <= Len(a) THEN m[p] ELSE k + 1]
<1>1. b \in Seq(B)
    BY DEF b
<1> HIDE DEF b
<1>2. /\ Len(a) \in Nat /\ Len(b) \in Nat /\ Len(r) = Len(a) + Len(b)
      /\ \A p \in 1..Len(a) : r[p] = a[p]
      /\ \A p \in (Len(a) + 1)..Len(r) : p - Len(a) \in 1..Len(b) /\ r[p] = b[p - Len(a)]
    BY <1>1
<1> HIDE DEF r
<1>3. \A p \in 1..Len(r) : /\ p <= Len(a) => p \in 1..Len(a) /\ w[p] = m[p] /\ m[p] \in 1..k /\ m[p] \in 1..(k + 1)
                           /\ ~(p <= Len(a)) => p \in (Len(a) + 1)..Len(r) /\ w[p] = k + 1
    <2>1. m \in [1..Len(a) -> 1..k]
        BY DEF From
    <2>2. \A p \in 1..Len(a) : m[p] \in 1..k /\ m[p] \in 1..(k + 1)
        BY <2>1
    <2>3. QED
        BY <1>2, <2>2
<1>4. w \in [1..Len(r) -> 1..(k + 1)]
    <2>1. k + 1 \in 1..(k + 1)
        OBVIOUS
    <2>2. \A p \in 1..Len(r) : w[p] \in 1..(k + 1)
        <3> HIDE DEF w
        <3>1. QED
            BY <1>3, <2>1
    <2>3. QED
        BY <2>2
<1> HIDE DEF w
<1>5. ASSUME NEW p \in 1..Len(r)
      PROVE  \E q \in 1..Len(c[w[p]]) : r[p] = c[w[p]][q]
    <2>1. CASE p <= Len(a)
        <3>1. p \in 1..Len(a) /\ w[p] = m[p] /\ r[p] = a[p]
            BY <1>2, <1>3, <2>1
        <3>2. QED
            BY <3>1 DEF From
    <2>2. CASE ~(p <= Len(a))
        <3>1. p - Len(a) \in 1..Len(b) /\ r[p] = b[p - Len(a)] /\ w[p] = k + 1
            BY <1>2, <1>3, <2>2
        <3>2. QED
            BY <3>1 DEF b
    <2>3. QED
        BY <2>1, <2>2
<1>6. ASSUME NEW p \in 1..Len(r), NEW q \in 1..Len(r), p < q
      PROVE  w[p] <= w[q] /\ (w[p] = w[q] => Len(c[w[p]]) > 1)
    <2>1. CASE q <= Len(a)
        <3>1. p \in 1..Len(a) /\ q \in 1..Len(a) /\ w[p] = m[p] /\ w[q] = m[q]
            <4>1. p <= Len(a)
                BY <1>2, <1>6, <2>1
            <4>2. QED
                BY <1>3, <2>1, <4>1
        <3>2. QED
            BY <1>6, <3>1 DEF From
    <2>2. CASE p <= Len(a) /\ ~(q <= Len(a))
        <3>1. w[p] \in 1..k /\ w[q] = k + 1
            BY <1>3, <2>2
        <3>2. QED
            BY <3>1
    <2>3. CASE ~(p <= Len(a)) /\ ~(q <= Len(a))
        <3>1. w[p] = k + 1 /\ w[q] = k + 1 /\ p \in (Len(a) + 1)..Len(r) /\ q \in (Len(a) + 1)..Len(r)
            BY <1>3, <2>3
        <3>2. Len(b) > 1
            BY <1>2, <1>6, <3>1
        <3>3. QED
            BY <3>1, <3>2 DEF b
    <2>4. p <= Len(a) \/ ~(q <= Len(a))
        BY <1>2, <1>6
    <2>5. QED
        BY <2>1, <2>2, <2>3, <2>4
<1>7. ASSUME NEW i \in 1..(k + 1)
      PROVE  c[i] = <<>> \/ \E p \in 1..Len(r) : w[p] = i
    <2>1. CASE i \in 1..k
        <3>1. c[i] = <<>> \/ \E p \in 1..Len(a) : m[p] = i
            BY <2>1 DEF From
        <3>2. \A p \in 1..Len(a) : p \in 1..Len(r) /\ p <= Len(a)
            BY <1>2
        <3>3. QED
            BY <1>3, <3>1, <3>2
    <2>2. CASE i = k + 1
        <3>1. CASE Len(b) = 0
            <4>1. b = <<>>
                BY <1>1, <3>1
            <4>2. QED
                BY <2>2, <4>1 DEF b
        <3>2. CASE Len(b) # 0
            <4>1. Len(r) \in 1..Len(r) /\ ~(Len(r) <= Len(a))
                BY <1>2, <3>2
            <4>2. QED
                BY <1>3, <2>2, <4>1
        <3>3. QED
            BY <3>1, <3>2
    <2>3. QED
        BY <2>1, <2>2
<1>8. From(w, r, c, k + 1)
    BY <1>4, <1>5, <1>6, <1>7 DEF From
<1>9. QED
    BY <1>8 DEF r, b

\* What is joined of pieces is of bytes, each from one of them.
LEMMA JoinedFrom ==
    ASSUME NEW B, NEW n \in Nat, NEW c \in [1..n -> Seq(B)]
    PROVE  FlattenSeq(c) \in Seq(B) /\ \E m : From(m, FlattenSeq(c), c, n)
<1>0. Len(c) = n
    OBVIOUS
<1>1. CASE n = 0
    <2>1. FlattenSeq(c) = c
        BY <1>0, <1>1, Zenon DEF FlattenSeq
    <2>2. c = <<>>
        BY <1>1
    <2> DEFINE m == [p \in 1..0 |-> 0]
    <2>3. Len(c) = 0 /\ c \in Seq(B) /\ m \in [1..0 -> 1..0] /\ \A p \in 1..0 : FALSE
        BY <1>1, <2>2
    <2> HIDE DEF m
    <2>4. From(m, c, c, 0)
        BY <2>3 DEF From
    <2>5. QED
        BY <1>1, <2>1, <2>3, <2>4
<1>2. CASE n # 0
    <2> DEFINE g == CHOOSE g : Flattens(g, c, n)
               Holds(k) == g[k] \in Seq(B) /\ \E m : From(m, g[k], c, k)
               T == {k \in Nat : k + 1 <= n => Holds(k + 1)}
    <2>1. Flattens(g, c, n)
        BY Flattened, Zenon
    <2>2. FlattenSeq(c) = g[n]
        BY <1>0, <1>2, Zenon DEF FlattenSeq, Flattens
    <2> HIDE DEF g
    <2>3. \A i \in 1..n : g[i] = IF i = 1 THEN c[i] ELSE g[i - 1] \o c[i]
        BY <2>1, Zenon DEF Flattens
    <2>4. 0 \in T
        <3>1. Holds(1)
            <4>1. 1 \in 1..n /\ g[1] = c[1] /\ c[1] \in Seq(B) /\ 0 + 1 = 1 /\ 0 + 1 <= n
                BY <1>2, <2>3
            <4> DEFINE e == [p \in 1..0 |-> 0]
                       none == <<>>
            <4>2. Len(none) = 0 /\ none \in Seq(B) /\ e \in [1..0 -> 1..0] /\ \A p \in 1..0 : FALSE
                OBVIOUS
            <4> HIDE DEF e, none
            <4>3. From(e, none, c, 0)
                BY <4>2 DEF From
            <4> DEFINE z == 0
            <4>4. z \in Nat /\ z + 1 <= n /\ z + 1 = 1 /\ From(e, none, c, z)
                BY <4>1, <4>3
            <4> HIDE DEF z
            <4>5. \E w : From(w, none \o c[z + 1], c, z + 1)
                BY <4>2, <4>4, FromOneMore
            <4>6. none \o c[1] = c[1]
                BY <4>1 DEF none
            <4>7. \E w : From(w, c[1], c, 1)
                BY <4>5, <4>6, <4>4
            <4>8. QED
                BY <4>1, <4>7
        <3> HIDE DEF Holds
        <3>2. 0 + 1 = 1
            OBVIOUS
        <3>3. QED
            BY <3>1, <3>2
    <2>5. ASSUME NEW j \in T
          PROVE  j + 1 \in T
        <3> HIDE DEF Holds
        <3> SUFFICES ASSUME (j + 1) + 1 <= n
                     PROVE  Holds((j + 1) + 1)
            <4>1. j + 1 \in Nat
                BY <2>5
            <4>2. QED
                BY <4>1
        <3> DEFINE k == j + 1
        <3>1. k + 1 <= n /\ k + 1 \in 1..n /\ (k + 1) - 1 = k /\ k + 1 # 1 /\ k \in Nat /\ Holds(k)
            <4>1. j \in Nat /\ (j + 1 <= n => Holds(j + 1))
                BY <2>5
            <4>2. j + 1 <= n
                BY <4>1
            <4>3. Holds(k)
                BY <4>1, <4>2
            <4>4. QED
                BY <4>1, <4>2, <4>3
        <3> HIDE DEF k
        <3>2. g[k + 1] = g[k] \o c[k + 1]
            BY <2>3, <3>1
        <3>3. g[k] \in Seq(B) /\ c[k + 1] \in Seq(B)
            BY <3>1 DEF Holds
        <3>4. PICK m : From(m, g[k], c, k)
            BY <3>1 DEF Holds
        <3>5. \E w : From(w, g[k] \o c[k + 1], c, k + 1)
            BY <3>1, <3>3, <3>4, FromOneMore
        <3>6. g[k] \o c[k + 1] \in Seq(B)
            BY <3>3
        <3>7. Holds(k + 1)
            BY <3>2, <3>5, <3>6 DEF Holds
        <3>8. QED
            BY <3>7 DEF k
    <2>6. Holds(n)
        <3> HIDE DEF Holds
        <3>1. n - 1 \in Nat /\ (n - 1) + 1 = n /\ n <= n
            BY <1>2
        <3>2. T = Nat
            BY <2>4, <2>5, FromZero
        <3>3. n - 1 \in T
            BY <3>1, <3>2
        <3>4. (n - 1) + 1 <= n => Holds((n - 1) + 1)
            BY <3>3
        <3>5. QED
            BY <3>1, <3>4
    <2>7. QED
        BY <2>2, <2>6
<1> QED
    BY <1>1, <1>2

\* Where nothing is left out and nothing added, nothing changes.
LEMMA JoinedWhole ==
    ASSUME NEW B, NEW src \in Seq(B),
           NEW c, c = [i \in DOMAIN src |-> <<src[i]>>]
    PROVE  FlattenSeq(c) = src
<1> DEFINE n == Len(src)
           r == FlattenSeq(c)
<1>1. n \in Nat /\ DOMAIN src = 1..n /\ \A i \in 1..n : src[i] \in B
    BY ElementOfSeq
<1>2. c \in [1..n -> Seq(B)] /\ \A i \in 1..n : c[i] = <<src[i]>>
    BY <1>1
<1>3. r \in Seq(B) /\ \E m : From(m, r, c, n)
    <2> HIDE DEF n
    <2>1. QED
        BY <1>1, <1>2, JoinedFrom
<1>4. PICK m : From(m, r, c, n)
    BY <1>3
<1> HIDE DEF r, n
<1>5. \A i \in 1..n : Len(c[i]) = 1 /\ c[i][1] = src[i] /\ c[i] # <<>>
    <2>1. ASSUME NEW i \in 1..n
          PROVE  Len(c[i]) = 1 /\ c[i][1] = src[i] /\ c[i] # <<>>
        <3> DEFINE x == src[i]
        <3>1. c[i] = <<x>>
            BY <1>2
        <3> HIDE DEF x
        <3>2. QED
            BY <3>1 DEF x
    <2>2. QED
        BY <2>1
<1>6. m \in [1..Len(r) -> 1..n] /\ Len(r) \in Nat /\ DOMAIN r = 1..Len(r)
    BY <1>3, <1>4 DEF From
<1>7. \A p \in 1..Len(r) : r[p] = src[m[p]]
    <2>1. ASSUME NEW p \in 1..Len(r)
          PROVE  r[p] = src[m[p]]
        <3>1. PICK q \in 1..Len(c[m[p]]) : r[p] = c[m[p]][q]
            BY <1>4 DEF From
        <3>2. m[p] \in 1..n
            BY <1>6
        <3>3. Len(c[m[p]]) = 1 /\ c[m[p]][1] = src[m[p]]
            BY <1>5, <3>2, Zenon
        <3>4. \A z \in 1..1 : z = 1
            OBVIOUS
        <3>5. QED
            BY <3>1, <3>3, <3>4, Zenon
    <2>2. QED
        BY <2>1
<1>8. \A p, q \in 1..Len(r) : p < q => m[p] < m[q]
    <2>1. ASSUME NEW p \in 1..Len(r), NEW q \in 1..Len(r), p < q
          PROVE  m[p] < m[q]
        <3>1. m[p] <= m[q] /\ (m[p] = m[q] => Len(c[m[p]]) > 1)
            BY <1>4, <2>1 DEF From
        <3>2. m[p] \in 1..n /\ m[q] \in 1..n
            BY <1>6
        <3>3. m[p] # m[q]
            <4>1. Len(c[m[p]]) = 1
                BY <1>5, <3>2, Zenon
            <4>2. ~(1 > 1)
                OBVIOUS
            <4>3. QED
                BY <3>1, <4>1, <4>2, Zenon
        <3>4. QED
            BY <1>1, <3>1, <3>2, <3>3
    <2>2. QED
        BY <2>1
<1>9. \A i \in 1..n : \E p \in 1..Len(r) : m[p] = i
    BY <1>4, <1>5 DEF From
<1> DEFINE T == {j \in Nat : \A p \in 1..Len(r) : p <= j => m[p] = p}
<1>10. 0 \in T
    BY <1>6
<1>11. ASSUME NEW j \in T
       PROVE  j + 1 \in T
    <2>1. j \in Nat /\ \A p \in 1..Len(r) : p <= j => m[p] = p
        BY <1>11
    <2>2. ASSUME j + 1 \in 1..Len(r)
          PROVE  m[j + 1] = j + 1
        <3>1. m[j + 1] \in 1..n
            BY <1>6, <2>2
        <3>2. m[j + 1] > j
            <4>1. CASE j = 0
                BY <3>1, <4>1
            <4>2. CASE j # 0
                <5>1. j \in 1..Len(r) /\ j < j + 1
                    BY <1>6, <2>1, <2>2, <4>2
                <5>2. m[j] = j /\ m[j] < m[j + 1]
                    BY <1>8, <2>1, <2>2, <5>1
                <5>3. QED
                    BY <2>1, <3>1, <5>2
            <4>3. QED
                BY <4>1, <4>2
        <3>3. j + 1 \in 1..n
            BY <1>1, <2>1, <3>1, <3>2
        <3>4. PICK q \in 1..Len(r) : m[q] = j + 1
            BY <1>9, <3>3
        <3>5. ~(q < j + 1)
            <4>1. q <= j => m[q] = q
                BY <2>1
            <4>2. QED
                BY <1>6, <2>1, <3>4, <4>1
        <3>6. ~(j + 1 < q)
            <4>1. j + 1 < q => m[j + 1] < m[q]
                BY <1>8, <2>2
            <4>2. QED
                BY <1>1, <2>1, <3>1, <3>2, <3>4, <4>1
        <3>7. q = j + 1
            BY <1>6, <2>1, <3>5, <3>6
        <3>8. QED
            BY <3>4, <3>7
    <2>3. \A p \in 1..Len(r) : p <= j + 1 => m[p] = p
        <3>1. ASSUME NEW p \in 1..Len(r), p <= j + 1
              PROVE  m[p] = p
            <4>1. p <= j \/ p = j + 1
                BY <1>6, <2>1, <3>1
            <4>2. QED
                BY <2>1, <2>2, <4>1
        <3>2. QED
            BY <3>1
    <2>4. QED
        BY <2>1, <2>3
<1>12. \A p \in 1..Len(r) : m[p] = p
    <2>1. T = Nat
        <3> HIDE DEF T
        <3>1. T \in SUBSET Nat
            BY DEF T
        <3>2. QED
            BY <1>10, <1>11, <3>1, FromZero
    <2>2. Len(r) \in T /\ \A p \in 1..Len(r) : p <= Len(r)
        BY <1>6, <2>1
    <2>3. QED
        BY <2>2
<1>13. Len(r) = n
    <2>1. ~(n < Len(r))
        <3>1. Len(r) \in 1..Len(r) => m[Len(r)] = Len(r) /\ m[Len(r)] \in 1..n
            BY <1>6, <1>12
        <3>2. QED
            BY <1>1, <1>6, <3>1
    <2>2. ~(Len(r) < n)
        <3>1. n \in 1..n => \E p \in 1..Len(r) : p = n
            BY <1>9, <1>12
        <3>2. QED
            BY <1>1, <1>6, <3>1
    <2>3. n \in Nat /\ Len(r) \in Nat
        BY <1>1, <1>6
    <2>4. QED
        BY <2>1, <2>2, <2>3
<1>14. \A p \in 1..n : r[p] = src[p]
    BY <1>7, <1>12, <1>13
<1>15. QED
    BY <1>1, <1>3, <1>13, <1>14, SeqEqual DEF r, n

\* Where the bytes that are picked stood, in their order, none left out.
Stood(m, r, src, places) ==
    /\ m \in [1..Len(r) -> 1..Len(src)]
    /\ \A p \in 1..Len(r) : m[p] \in places /\ r[p] = src[m[p]]
    /\ \A p, q \in 1..Len(r) : p < q => m[p] < m[q]
    /\ \A i \in 1..Len(src) : i \in places => \E p \in 1..Len(r) : m[p] = i

\* What is picked of bytes are bytes, each from its place; and all of them are
\* what they are picked of.
LEMMA PickedFrom ==
    ASSUME NEW B, NEW src \in Seq(B), NEW places
    PROVE  /\ Pick(src, places) \in Seq(B)
           /\ \E m : Stood(m, Pick(src, places), src, places)
           /\ (\A i \in 1..Len(src) : i \in places) => Pick(src, places) = src
<1> DEFINE n == Len(src)
           c == [i \in DOMAIN src |-> IF i \in places THEN <<src[i]>> ELSE <<>>]
           r == FlattenSeq(c)
<1>1. n \in Nat /\ DOMAIN src = 1..n /\ \A i \in 1..n : src[i] \in B
    BY ElementOfSeq
<1>2. \A i \in 1..n : /\ i \in places => Len(c[i]) = 1 /\ c[i][1] = src[i] /\ c[i] # <<>>
                      /\ i \notin places => c[i] = <<>> /\ Len(c[i]) = 0
                      /\ c[i] \in Seq(B)
    <2>1. ASSUME NEW i \in 1..n
          PROVE  /\ i \in places => Len(c[i]) = 1 /\ c[i][1] = src[i] /\ c[i] # <<>>
                 /\ i \notin places => c[i] = <<>> /\ Len(c[i]) = 0
                 /\ c[i] \in Seq(B)
        <3> DEFINE x == src[i]
                   one == c[i]
        <3>1. one = (IF i \in places THEN <<x>> ELSE <<>>) /\ x \in B
            BY <1>1
        <3> HIDE DEF x, c, one
        <3>2. /\ i \in places => Len(one) = 1 /\ one[1] = x /\ one # <<>>
              /\ i \notin places => one = <<>> /\ Len(one) = 0
              /\ one \in Seq(B)
            BY <3>1
        <3>3. QED
            BY <3>2 DEF x, one
    <2>2. QED
        BY <2>1
<1>3. c \in [1..n -> Seq(B)]
    <2>1. DOMAIN c = 1..n /\ c = [i \in DOMAIN c |-> c[i]]
        BY <1>1
    <2> HIDE DEF c
    <2>2. QED
        BY <1>2, <2>1
<1>4. Pick(src, places) = r
    BY DEF Pick
<1>5. (\A i \in 1..n : i \in places) => r = src
    <2> SUFFICES ASSUME \A i \in 1..n : i \in places
                 PROVE  r = src
        OBVIOUS
    <2>1. c = [i \in DOMAIN src |-> <<src[i]>>]
        BY <1>1
    <2> HIDE DEF c
    <2>2. QED
        BY <2>1, JoinedWhole
<1> HIDE DEF c
<1>6. r \in Seq(B) /\ \E m : From(m, r, c, n)
    <2> HIDE DEF n
    <2>1. QED
        BY <1>1, <1>3, JoinedFrom
<1>7. PICK m : From(m, r, c, n)
    BY <1>6
<1> HIDE DEF r
<1>8. m \in [1..Len(r) -> 1..n]
    BY <1>7 DEF From
<1>9. ASSUME NEW p \in 1..Len(r)
      PROVE  m[p] \in places /\ r[p] = src[m[p]] /\ Len(c[m[p]]) = 1
    <2>1. PICK q \in 1..Len(c[m[p]]) : r[p] = c[m[p]][q]
        BY <1>7 DEF From
    <2>2. m[p] \in 1..n
        BY <1>8
    <2>3. m[p] \in places
        BY <1>2, <2>1, <2>2
    <2>4. q = 1
        BY <1>2, <2>1, <2>2, <2>3
    <2>5. QED
        BY <1>2, <2>1, <2>2, <2>3, <2>4
<1>10. ASSUME NEW p \in 1..Len(r), NEW q \in 1..Len(r), p < q
       PROVE  m[p] < m[q]
    <2>1. m[p] <= m[q] /\ (m[p] = m[q] => Len(c[m[p]]) > 1)
        BY <1>7, <1>10 DEF From
    <2>2. Len(c[m[p]]) = 1 /\ m[p] \in 1..n /\ m[q] \in 1..n
        BY <1>8, <1>9
    <2>3. QED
        BY <1>1, <2>1, <2>2
<1>11. ASSUME NEW i \in 1..n, i \in places
       PROVE  \E p \in 1..Len(r) : m[p] = i
    BY <1>2, <1>7, <1>11 DEF From
<1>12. Stood(m, r, src, places)
    BY <1>8, <1>9, <1>10, <1>11 DEF Stood
<1>13. QED
    BY <1>4, <1>5, <1>6, <1>12

\* What each transformation leaves behind.
Unix(src) == "cr" \notin ToSet(src)
Tidy(src) == \A i \in 1..Len(src) : Blank(src[i]) => i + 1 \in 1..Len(src) /\ src[i + 1] # "lf"
Unindented(src) == \A i \in 1..Len(src) : src[i] = "tab" => ~Leads(src, i)
Ended(src) == src = <<>> \/ Last(src) = "lf"

\* The line endings, put right, are right; and stay, once they are.
LEMMA EndingsSettle ==
    ASSUME NEW B, "lf" \in B, NEW src \in Seq(B)
    PROVE  /\ ApplyLF(src) \in Seq(B) /\ Unix(ApplyLF(src))
           /\ ToSet(ApplyLF(src)) \subseteq ToSet(src) \cup {"lf"}
           /\ Unix(src) => ApplyLF(src) = src
<1> DEFINE paired(i) == src[i] = "cr" /\ i < Len(src) /\ src[i + 1] = "lf"
           single == [i \in DOMAIN src |-> IF src[i] = "cr" /\ ~paired(i) THEN "lf" ELSE src[i]]
           places == {i \in DOMAIN src : ~paired(i)}
           r == Pick(single, places)
<1>1. ApplyLF(src) = r
    BY DEF ApplyLF
<1>2. Len(src) \in Nat /\ DOMAIN src = 1..Len(src) /\ \A i \in 1..Len(src) : src[i] \in B
    BY ElementOfSeq
<1>3. single \in Seq(B) /\ Len(single) = Len(src)
    <2>1. single \in [1..Len(src) -> B]
        <3>1. DOMAIN single = 1..Len(src) /\ single = [i \in DOMAIN single |-> single[i]]
            BY <1>2
        <3>2. \A i \in 1..Len(src) : single[i] = "lf" \/ single[i] = src[i]
            BY <1>2
        <3> HIDE DEF single
        <3>3. QED
            BY <1>2, <3>1, <3>2
    <2> HIDE DEF single
    <2>2. QED
        BY <1>2, <2>1
<1>4. \A i \in 1..Len(src) : i \in places => single[i] # "cr" /\ (single[i] = "lf" \/ single[i] = src[i])
    BY <1>2
<1>5. Unix(src) => single = src /\ \A i \in 1..Len(src) : i \in places
    <2> SUFFICES ASSUME Unix(src)
                 PROVE  single = src /\ \A i \in 1..Len(src) : i \in places
        OBVIOUS
    <2>1. \A i \in 1..Len(src) : src[i] # "cr"
        BY <1>2 DEF Unix, ToSet
    <2>2. \A i \in DOMAIN src : src[i] # "cr"
        BY <1>2, <2>1
    <2>3. single = [i \in DOMAIN src |-> src[i]]
        BY <2>2
    <2>4. src = [i \in DOMAIN src |-> src[i]]
        BY <1>2
    <2>5. \A i \in 1..Len(src) : i \in places
        BY <1>2, <2>1
    <2>6. QED
        BY <2>3, <2>4, <2>5
<1> HIDE DEF single, places
<1>6. r \in Seq(B) /\ \E m : Stood(m, r, single, places)
    BY <1>3, PickedFrom
<1>7. (\A i \in 1..Len(src) : i \in places) => r = single
    BY <1>3, PickedFrom
<1>8. PICK m : Stood(m, r, single, places)
    BY <1>6
<1> HIDE DEF r
<1>9. ASSUME NEW p \in 1..Len(r)
      PROVE  r[p] # "cr" /\ (r[p] = "lf" \/ r[p] \in ToSet(src))
    <2>1. m[p] \in 1..Len(src) /\ m[p] \in places /\ r[p] = single[m[p]]
        BY <1>3, <1>8 DEF Stood
    <2>2. single[m[p]] # "cr" /\ (single[m[p]] = "lf" \/ single[m[p]] = src[m[p]])
        BY <1>4, <2>1
    <2>3. src[m[p]] \in ToSet(src)
        BY <1>2, <2>1 DEF ToSet
    <2>4. QED
        BY <2>1, <2>2, <2>3
<1>10. DOMAIN r = 1..Len(r)
    BY <1>6
<1>11. Unix(r) /\ ToSet(r) \subseteq ToSet(src) \cup {"lf"}
    BY <1>9, <1>10 DEF Unix, ToSet
<1>12. QED
    BY <1>1, <1>5, <1>6, <1>7, <1>11

\* What trails has none but blanks between it and the end of its line.
LEMMA TrimSettles ==
    ASSUME NEW B, NEW src \in Seq(B)
    PROVE  /\ ApplyTrim(src) \in Seq(B) /\ Tidy(ApplyTrim(src))
           /\ ToSet(ApplyTrim(src)) \subseteq ToSet(src)
           /\ Tidy(src) => ApplyTrim(src) = src
<1> DEFINE n == Len(src)
           places == {i \in DOMAIN src : ~Trails(src, i)}
           r == Pick(src, places)
<1>1. ApplyTrim(src) = r
    BY DEF ApplyTrim
<1>2. n \in Nat /\ DOMAIN src = 1..n
    OBVIOUS
<1>3. r \in Seq(B) /\ \E m : Stood(m, r, src, places)
    <2> HIDE DEF places
    <2>1. QED
        BY PickedFrom
<1>4. (\A i \in 1..n : i \in places) => r = src
    <2> HIDE DEF places
    <2>1. QED
        BY PickedFrom
<1>5. PICK m : Stood(m, r, src, places)
    BY <1>3
<1>6. \A i \in 1..n : i \in places <=> ~Trails(src, i)
    BY <1>2
<1> HIDE DEF r, places, n
<1>7. Len(r) \in Nat /\ DOMAIN r = 1..Len(r) /\ \A p \in 1..Len(r) : m[p] \in 1..n /\ r[p] = src[m[p]] /\ ~Trails(src, m[p])
    <2>1. Len(r) \in Nat /\ DOMAIN r = 1..Len(r)
        BY <1>3
    <2>2. \A p \in 1..Len(r) : m[p] \in 1..n /\ m[p] \in places /\ r[p] = src[m[p]]
        BY <1>5 DEF Stood, n
    <2>3. QED
        BY <1>6, <2>1, <2>2
<1>8. ToSet(r) \subseteq ToSet(src)
    BY <1>2, <1>7 DEF ToSet
<1>9. Tidy(src) => r = src
    <2> SUFFICES ASSUME Tidy(src), NEW i \in 1..n, Trails(src, i)
                 PROVE  FALSE
        BY <1>4, <1>6
    <2>1. PICK j \in i..n : (\A k \in i..j : Blank(src[k])) /\ (j = n \/ src[j + 1] = "lf")
        BY DEF Trails, n
    <2>2. j \in 1..n /\ j \in i..j
        BY <1>2, <2>1
    <2>3. Blank(src[j])
        BY <2>1, <2>2
    <2>4. j + 1 \in 1..n /\ src[j + 1] # "lf"
        BY <2>2, <2>3 DEF Tidy, n
    <2>5. QED
        BY <1>2, <2>1, <2>4
<1>10. ASSUME NEW i \in 1..n, Blank(src[i]), ~Trails(src, i),
              NEW j \in i..n, \A k \in (i + 1)..j : Trails(src, k)
       PROVE  j # n /\ src[j + 1] # "lf"
    <2>1. \A k \in i..j : Blank(src[k])
        <3> SUFFICES ASSUME NEW k \in i..j
                     PROVE  Blank(src[k])
            OBVIOUS
        <3>1. k = i \/ k \in (i + 1)..j
            BY <1>2, <1>10
        <3>2. k \in (i + 1)..j => Blank(src[k])
            <4> SUFFICES ASSUME k \in (i + 1)..j
                         PROVE  Blank(src[k])
                OBVIOUS
            <4>1. Trails(src, k) /\ k \in k..k
                BY <1>10
            <4>2. PICK l \in k..n : \A h \in k..l : Blank(src[h])
                BY <4>1 DEF Trails, n
            <4>3. k \in k..l
                BY <4>2
            <4>4. QED
                BY <4>2, <4>3
        <3>3. QED
            BY <1>10, <3>1, <3>2
    <2>2. QED
        BY <1>10, <2>1 DEF Trails, n
<1>11. ASSUME NEW p \in 1..Len(r), Blank(r[p])
       PROVE  p + 1 \in 1..Len(r) /\ r[p + 1] # "lf"
    <2> DEFINE i == m[p]
    <2>1. i \in 1..n /\ Blank(src[i]) /\ ~Trails(src, i)
        BY <1>7, <1>11
    <2>2. ASSUME NEW k \in 1..n, i < k, ~Trails(src, k)
          PROVE  \E q \in 1..Len(r) : m[q] = k /\ p < q
        <3>1. PICK q \in 1..Len(r) : m[q] = k
            BY <1>5, <1>6, <2>2 DEF Stood, n
        <3>2. ~(q < p) /\ q # p
            <4>1. q < p => m[q] < m[p]
                BY <1>5 DEF Stood
            <4>2. m[q] \in 1..n /\ m[p] \in 1..n
                BY <1>7
            <4>3. QED
                BY <2>2, <3>1, <4>1, <4>2
        <3>3. p < q
            BY <1>7, <3>2
        <3>4. QED
            BY <3>1, <3>3
    <2> HIDE DEF i
    <2>3. p + 1 \in 1..Len(r)
        <3> SUFFICES ASSUME p + 1 \notin 1..Len(r)
                     PROVE  FALSE
            OBVIOUS
        <3>1. \A q \in 1..Len(r) : ~(p < q)
            BY <1>7
        <3>2. \A k \in (i + 1)..n : Trails(src, k)
            <4>1. \A k \in (i + 1)..n : k \in 1..n /\ i < k
                BY <1>2, <2>1
            <4>2. QED
                BY <2>2, <3>1, <4>1
        <3>3. n \in i..n
            BY <1>2, <2>1
        <3>4. QED
            BY <1>10, <2>1, <3>2, <3>3
    <2>4. r[p + 1] # "lf"
        <3> DEFINE l == m[p + 1]
        <3>1. l \in 1..n /\ r[p + 1] = src[l] /\ i < l
            <4>1. p < p + 1
                BY <1>7
            <4>2. m[p] < m[p + 1]
                BY <1>5, <2>3, <4>1 DEF Stood
            <4>3. QED
                BY <1>7, <2>3, <4>2 DEF i
        <3> HIDE DEF l
        <3>2. ASSUME NEW k \in (i + 1)..(l - 1)
              PROVE  Trails(src, k)
            <4>1. k \in 1..n /\ i < k /\ k < l
                BY <1>2, <2>1, <3>1
            <4> SUFFICES ASSUME ~Trails(src, k)
                         PROVE  FALSE
                OBVIOUS
            <4>2. PICK q \in 1..Len(r) : m[q] = k /\ p < q
                BY <2>2, <4>1
            <4>3. p + 1 < q => m[p + 1] < m[q]
                BY <1>5, <2>3 DEF Stood
            <4>4. p + 1 < q \/ q = p + 1
                BY <1>7, <4>2
            <4>5. k # l /\ ~(l < k)
                BY <1>2, <3>1, <4>1
            <4>6. QED
                BY <4>2, <4>3, <4>4, <4>5 DEF l
        <3>3. l - 1 \in i..n /\ (l - 1) + 1 = l
            BY <1>2, <2>1, <3>1
        <3>4. src[(l - 1) + 1] # "lf"
            BY <1>10, <2>1, <3>2, <3>3
        <3>5. QED
            BY <3>1, <3>3, <3>4
    <2>5. QED
        BY <2>3, <2>4
<1>12. QED
    BY <1>1, <1>3, <1>8, <1>9, <1>11 DEF Tidy

\* A line feed put behind the last byte disturbs nothing before it.
LEMMA EndSettles ==
    ASSUME NEW B, "lf" \in B, NEW src \in Seq(B)
    PROVE  /\ ApplyFinalNewline(src) \in Seq(B) /\ Ended(ApplyFinalNewline(src))
           /\ ToSet(ApplyFinalNewline(src)) \subseteq ToSet(src) \cup {"lf"}
           /\ Tidy(src) => Tidy(ApplyFinalNewline(src))
           /\ Unindented(src) => Unindented(ApplyFinalNewline(src))
           /\ Ended(src) => ApplyFinalNewline(src) = src
<1> DEFINE r == Append(src, "lf")
           n == Len(src)
<1>1. CASE Ended(src)
    BY <1>1 DEF ApplyFinalNewline, Ended
<1>2. CASE ~Ended(src)
    <2>1. ApplyFinalNewline(src) = r
        BY <1>2 DEF ApplyFinalNewline, Ended
    <2>2. /\ r \in Seq(B) /\ n \in Nat /\ Len(r) = n + 1 /\ r[n + 1] = "lf" /\ r # <<>>
          /\ \A i \in 1..n : r[i] = src[i]
          /\ DOMAIN r = 1..(n + 1) /\ DOMAIN src = 1..n
        <3>1. /\ r \in Seq(B) /\ n \in Nat /\ Len(r) = n + 1 /\ r[n + 1] = "lf"
              /\ \A i \in 1..n : r[i] = src[i]
            BY AppendProperties
        <3>2. DOMAIN r = 1..Len(r) /\ DOMAIN src = 1..n /\ Len(<<>>) = 0
            BY <3>1
        <3>3. n + 1 # 0
            BY <3>1
        <3>4. QED
            BY <3>1, <3>2, <3>3
    <2> HIDE DEF r, n
    <2>3. Ended(r)
        BY <2>2 DEF Ended, Last
    <2>4. ToSet(r) \subseteq ToSet(src) \cup {"lf"}
        <3>1. \A i \in 1..(n + 1) : i \in 1..n \/ i = n + 1
            BY <2>2
        <3>2. QED
            BY <2>2, <3>1 DEF ToSet
    <2>5. ASSUME Tidy(src)
          PROVE  Tidy(r)
        <3>1. ASSUME NEW i \in 1..(n + 1), Blank(r[i])
              PROVE  i + 1 \in 1..(n + 1) /\ r[i + 1] # "lf"
            <4>1. i # n + 1
                BY <2>2, <3>1 DEF Blank
            <4>2. i \in 1..n /\ r[i] = src[i]
                BY <2>2, <3>1, <4>1
            <4>3. i + 1 \in 1..n /\ src[i + 1] # "lf"
                BY <2>5, <3>1, <4>2 DEF Tidy, n
            <4>4. QED
                BY <2>2, <4>3
        <3>2. QED
            BY <2>2, <3>1 DEF Tidy
    <2>6. ASSUME Unindented(src)
          PROVE  Unindented(r)
        <3>1. ASSUME NEW i \in 1..(n + 1), r[i] = "tab", Leads(r, i)
              PROVE  FALSE
            <4>1. i # n + 1
                BY <2>2, <3>1
            <4>2. i \in 1..n /\ src[i] = "tab"
                BY <2>2, <3>1, <4>1
            <4>3. PICK j \in 1..i : Begins(r, j) /\ \A k \in j..i : Blank(r[k])
                BY <3>1 DEF Leads
            <4>4. \A k \in j..i : k \in 1..n
                BY <2>2, <4>2
            <4>5. \A k \in j..i : Blank(src[k])
                BY <2>2, <4>3, <4>4
            <4>6. Begins(src, j)
                <5>1. j = 1 \/ j - 1 \in 1..n
                    BY <2>2, <4>2
                <5>2. QED
                    BY <2>2, <4>3, <5>1 DEF Begins
            <4>7. Leads(src, i)
                BY <4>5, <4>6 DEF Leads
            <4>8. QED
                BY <2>6, <4>2, <4>7 DEF Unindented, n
        <3>2. QED
            BY <2>2, <3>1 DEF Unindented
    <2>7. QED
        BY <1>2, <2>1, <2>2, <2>3, <2>4, <2>5, <2>6
<1>3. QED
    BY <1>1, <1>2

\* A byte of the indent is blank, and begins a line or has one of the indent
\* before it; and a blank with one before it is one.
LEMMA LeadsFrom ==
    ASSUME NEW src, NEW i \in Nat \ {0}
    PROVE  /\ Leads(src, i) => Blank(src[i]) /\ (Begins(src, i) \/ (i # 1 /\ Leads(src, i - 1)))
           /\ Blank(src[i]) /\ Begins(src, i) => Leads(src, i)
           /\ Blank(src[i]) /\ i # 1 /\ Leads(src, i - 1) => Leads(src, i)
<1>1. ASSUME Leads(src, i)
      PROVE  Blank(src[i]) /\ (Begins(src, i) \/ (i # 1 /\ Leads(src, i - 1)))
    <2>1. PICK j \in 1..i : Begins(src, j) /\ \A k \in j..i : Blank(src[k])
        BY <1>1 DEF Leads
    <2>2. i \in j..i
        BY <2>1
    <2>3. CASE j # i
        <3>1. i # 1 /\ j \in 1..(i - 1) /\ \A k \in j..(i - 1) : k \in j..i
            BY <2>1, <2>3
        <3>2. QED
            BY <2>1, <2>2, <3>1 DEF Leads
    <2>4. QED
        BY <2>1, <2>2, <2>3
<1>2. ASSUME Blank(src[i]), Begins(src, i)
      PROVE  Leads(src, i)
    <2>1. i \in 1..i /\ \A k \in i..i : k = i
        OBVIOUS
    <2>2. QED
        BY <1>2, <2>1 DEF Leads
<1>3. ASSUME Blank(src[i]), i # 1, Leads(src, i - 1)
      PROVE  Leads(src, i)
    <2>1. PICK j \in 1..(i - 1) : Begins(src, j) /\ \A k \in j..(i - 1) : Blank(src[k])
        BY <1>3 DEF Leads
    <2>2. j \in 1..i /\ \A k \in j..i : k \in j..(i - 1) \/ k = i
        BY <2>1
    <2>3. QED
        BY <1>3, <2>1, <2>2 DEF Leads
<1> QED
    BY <1>1, <1>2, <1>3

\* Indented with spaces a line has no tab before its text, and no blank behind
\* it that was not there; and what has none is left.
LEMMA IndentSettles ==
    ASSUME NEW B, "space" \in B, NEW src \in Seq(B), NEW size
    PROVE  /\ ApplySpaceIndent(src, size) \in Seq(B) /\ Unindented(ApplySpaceIndent(src, size))
           /\ ToSet(ApplySpaceIndent(src, size)) \subseteq ToSet(src) \cup {"space"}
           /\ Tidy(src) => Tidy(ApplySpaceIndent(src, size))
           /\ Unindented(src) => ApplySpaceIndent(src, size) = src
<1> DEFINE n == Len(src)
           width == IF size = "2" THEN 2 ELSE 4
           spaces == [k \in 1..width |-> "space"]
           wide(i) == Leads(src, i) /\ src[i] = "tab"
           c == [i \in DOMAIN src |-> IF wide(i) THEN spaces ELSE <<src[i]>>]
           r == FlattenSeq(c)
<1>1. ApplySpaceIndent(src, size) = r
    BY DEF ApplySpaceIndent
<1>2. n \in Nat /\ DOMAIN src = 1..n /\ \A i \in 1..n : src[i] \in B
    BY ElementOfSeq
<1>3. /\ spaces \in Seq(B) /\ Len(spaces) = width /\ width \in {2, 4} /\ spaces # <<>>
      /\ \A k \in 1..width : spaces[k] = "space"
    <2>1. width \in {2, 4}
        OBVIOUS
    <2> HIDE DEF width
    <2>2. spaces \in Seq(B) /\ Len(spaces) = width /\ \A k \in 1..width : spaces[k] = "space"
        BY <2>1
    <2>3. spaces # <<>>
        <3> HIDE DEF spaces
        <3>1. Len(<<>>) = 0 /\ width # 0
            BY <2>1
        <3>2. QED
            BY <2>2, <3>1, Zenon
    <2>4. QED
        BY <2>1, <2>2, <2>3
<1> HIDE DEF width, spaces
<1>4. ASSUME NEW i \in 1..n
      PROVE  /\ c[i] \in Seq(B) /\ c[i] # <<>> /\ Len(c[i]) \in Nat
             /\ wide(i) => \A k \in 1..Len(c[i]) : c[i][k] = "space"
             /\ ~wide(i) => Len(c[i]) = 1 /\ c[i][1] = src[i]
    <2> DEFINE x == src[i]
               piece == c[i]
               W == wide(i)
    <2>1. piece = (IF W THEN spaces ELSE <<x>>) /\ x \in B
        BY <1>2
    <2> HIDE DEF x, piece, c, W
    <2>2. CASE W
        BY <1>3, <2>1, <2>2 DEF piece, W
    <2>3. CASE ~W
        <3>1. piece \in Seq(B) /\ Len(piece) = 1 /\ piece[1] = x /\ piece # <<>>
            BY <2>1, <2>3
        <3>2. QED
            BY <2>3, <3>1 DEF piece, W, x
    <2>4. QED
        BY <2>2, <2>3
<1>5. c \in [1..n -> Seq(B)]
    <2>1. DOMAIN c = 1..n /\ c = [i \in DOMAIN c |-> c[i]]
        BY <1>2
    <2> HIDE DEF c
    <2>2. QED
        BY <1>4, <2>1
<1>6. Unindented(src) => r = src
    <2> SUFFICES ASSUME Unindented(src)
                 PROVE  r = src
        OBVIOUS
    <2>1. \A i \in DOMAIN src : ~wide(i)
        BY <1>2 DEF Unindented
    <2>2. c = [i \in DOMAIN src |-> <<src[i]>>]
        BY <2>1
    <2> HIDE DEF c
    <2>3. QED
        BY <2>2, JoinedWhole
<1> HIDE DEF c
<1>7. r \in Seq(B) /\ \E m : From(m, r, c, n)
    <2> HIDE DEF n
    <2>1. QED
        BY <1>2, <1>5, JoinedFrom
<1>8. PICK m : From(m, r, c, n)
    BY <1>7
<1> HIDE DEF r, n
<1>9. Len(r) \in Nat /\ DOMAIN r = 1..Len(r) /\ \A p \in 1..Len(r) : m[p] \in 1..n
    <2>1. Len(r) \in Nat /\ DOMAIN r = 1..Len(r)
        BY <1>7
    <2>2. m \in [1..Len(r) -> 1..n]
        BY <1>8 DEF From
    <2>3. QED
        BY <2>1, <2>2
<1>10. ASSUME NEW p \in 1..Len(r)
       PROVE  /\ wide(m[p]) => r[p] = "space"
              /\ ~wide(m[p]) => r[p] = src[m[p]] /\ Len(c[m[p]]) = 1
    <2>1. PICK q \in 1..Len(c[m[p]]) : r[p] = c[m[p]][q]
        BY <1>8 DEF From
    <2>2. m[p] \in 1..n
        BY <1>9
    <2>3. wide(m[p]) => r[p] = "space"
        BY <1>4, <2>1, <2>2
    <2>4. ASSUME ~wide(m[p])
          PROVE  r[p] = src[m[p]] /\ Len(c[m[p]]) = 1
        <3>1. Len(c[m[p]]) = 1 /\ c[m[p]][1] = src[m[p]]
            BY <1>4, <2>2, <2>4
        <3>2. \A z \in 1..1 : z = 1
            OBVIOUS
        <3>3. QED
            BY <2>1, <3>1, <3>2, Zenon
    <2>5. QED
        BY <2>3, <2>4
<1>11. \A i \in 1..n : \E p \in 1..Len(r) : m[p] = i
    BY <1>4, <1>8 DEF From
\* The next byte is from the same one, a tab, or from the next.
<1>12. ASSUME NEW p \in 1..Len(r), p + 1 \in 1..Len(r)
       PROVE  (m[p + 1] = m[p] /\ wide(m[p])) \/ m[p + 1] = m[p] + 1
    <2>1. m[p] \in 1..n /\ m[p + 1] \in 1..n /\ p < p + 1
        BY <1>9, <1>12
    <2>2. m[p] <= m[p + 1] /\ (m[p] = m[p + 1] => Len(c[m[p]]) > 1)
        BY <1>8, <1>12, <2>1 DEF From
    <2>3. m[p] = m[p + 1] => wide(m[p])
        <3>1. ~wide(m[p]) => Len(c[m[p]]) = 1
            BY <1>10
        <3>2. ~(1 > 1)
            OBVIOUS
        <3>3. QED
            BY <2>2, <3>1, <3>2, Zenon
    <2>4. ~(m[p] + 1 < m[p + 1])
        <3> SUFFICES ASSUME m[p] + 1 < m[p + 1]
                     PROVE  FALSE
            OBVIOUS
        <3>1. m[p] + 1 \in 1..n
            BY <1>2, <2>1 DEF n
        <3>2. PICK q \in 1..Len(r) : m[q] = m[p] + 1
            BY <1>11, <3>1
        <3>3. q < p => m[q] <= m[p]
            BY <1>8 DEF From
        <3>4. p + 1 < q => m[p + 1] <= m[q]
            BY <1>8, <1>12 DEF From
        <3>5. q < p \/ q = p \/ q = p + 1 \/ p + 1 < q
            BY <1>9
        <3>6. m[p] \in Int /\ m[p + 1] \in Int
            BY <2>1
        <3>7. QED
            BY <3>2, <3>3, <3>4, <3>5, <3>6
    <2>5. QED
        BY <2>1, <2>2, <2>3, <2>4
<1>13. Len(r) # 0 => m[1] = 1 /\ m[Len(r)] = n
    <2> SUFFICES ASSUME Len(r) # 0
                 PROVE  m[1] = 1 /\ m[Len(r)] = n
        OBVIOUS
    <2>1. 1 \in 1..Len(r) /\ Len(r) \in 1..Len(r) /\ m[1] \in 1..n /\ m[Len(r)] \in 1..n
        BY <1>9
    <2>2. n \in Nat /\ 1 \in 1..n /\ n \in 1..n
        BY <1>2, <2>1 DEF n
    <2>3. PICK p \in 1..Len(r) : m[p] = 1
        BY <1>11, <2>2
    <2>4. PICK q \in 1..Len(r) : m[q] = n
        BY <1>11, <2>2
    <2>5. 1 < p => m[1] <= m[p]
        BY <1>8, <2>1 DEF From
    <2>6. q < Len(r) => m[q] <= m[Len(r)]
        BY <1>8, <2>1 DEF From
    <2>7. m[1] = 1
        BY <2>1, <2>2, <2>3, <2>5
    <2>8. m[Len(r)] = n
        BY <1>9, <2>1, <2>2, <2>4, <2>6
    <2>9. QED
        BY <2>7, <2>8
<1>14. ToSet(r) \subseteq ToSet(src) \cup {"space"}
    <2>1. \A p \in 1..Len(r) : r[p] = "space" \/ r[p] = src[m[p]]
        BY <1>10
    <2>2. \A i \in 1..n : src[i] \in ToSet(src)
        BY <1>2 DEF ToSet
    <2>3. QED
        BY <1>9, <2>1, <2>2 DEF ToSet
<1>15. \A p \in 1..Len(r) : Blank(r[p]) => Blank(src[m[p]])
    BY <1>10 DEF Blank
<1>16. \A p \in 1..Len(r) : r[p] = "lf" => src[m[p]] = "lf" /\ ~wide(m[p])
    BY <1>10
<1>17. ASSUME Tidy(src)
       PROVE  Tidy(r)
    <2>1. ASSUME NEW p \in 1..Len(r), Blank(r[p])
          PROVE  p + 1 \in 1..Len(r) /\ r[p + 1] # "lf"
        <3>1. m[p] \in 1..n /\ Blank(src[m[p]])
            BY <1>9, <1>15, <2>1
        <3>2. m[p] + 1 \in 1..n /\ src[m[p] + 1] # "lf"
            BY <1>17, <3>1 DEF Tidy, n
        <3>3. p # Len(r)
            <4> SUFFICES ASSUME p = Len(r)
                         PROVE  FALSE
                OBVIOUS
            <4>1. m[p] = n
                BY <1>9, <1>13
            <4>2. QED
                BY <1>2, <3>2, <4>1 DEF n
        <3>4. p + 1 \in 1..Len(r)
            <4>1. Len(r) \in Nat /\ p \in 1..Len(r)
                BY <1>9
            <4>2. QED
                BY <3>3, <4>1
        <3>5. r[p + 1] = "lf" => src[m[p + 1]] = "lf"
            BY <1>16, <3>4
        <3>6. m[p + 1] = m[p] \/ m[p + 1] = m[p] + 1
            BY <1>12, <3>4
        <3>7. src[m[p]] # "lf"
            BY <3>1 DEF Blank
        <3>8. QED
            BY <3>2, <3>4, <3>5, <3>6, <3>7
    <2>2. QED
        BY <2>1 DEF Tidy
<1> DEFINE T == {k \in Nat : \A p \in 1..Len(r) : p <= k /\ Leads(r, p) => Leads(src, m[p])}
<1>18. 0 \in T
    BY <1>9
<1>19. ASSUME NEW k \in T
       PROVE  k + 1 \in T
    <2>1. k \in Nat /\ \A p \in 1..Len(r) : p <= k /\ Leads(r, p) => Leads(src, m[p])
        BY <1>19
    <2>2. ASSUME NEW p \in 1..Len(r), p = k + 1, Leads(r, p)
          PROVE  Leads(src, m[p])
        <3>1. p \in Nat \ {0} /\ m[p] \in Nat \ {0}
            BY <1>9
        <3>2. Blank(r[p]) /\ (Begins(r, p) \/ (p # 1 /\ Leads(r, p - 1)))
            BY <2>2, <3>1, LeadsFrom
        <3>3. Blank(src[m[p]])
            BY <1>15, <3>2
        <3>4. CASE p = 1
            <4>1. m[p] = 1
                BY <1>9, <1>13, <3>4
            <4>2. Begins(src, m[p])
                BY <4>1 DEF Begins
            <4>3. QED
                BY <3>1, <3>3, <4>2, LeadsFrom
        <3>5. CASE p # 1
            <4>1. p - 1 \in 1..Len(r) /\ (p - 1) + 1 = p /\ p - 1 = k /\ k <= k
                BY <1>9, <2>1, <2>2, <3>5
            <4>2. (m[p] = m[p - 1] /\ wide(m[p - 1])) \/ m[p] = m[p - 1] + 1
                BY <1>12, <4>1
            <4>3. m[p - 1] \in 1..n
                BY <1>9, <4>1
            <4>4. CASE r[p - 1] = "lf"
                <5>1. src[m[p - 1]] = "lf" /\ ~wide(m[p - 1])
                    BY <1>16, <4>1, <4>4
                <5>2. m[p] = m[p - 1] + 1
                    BY <4>2, <5>1
                <5>3. m[p] - 1 = m[p - 1]
                    BY <4>3, <5>2
                <5>4. Begins(src, m[p])
                    BY <5>1, <5>3 DEF Begins
                <5>5. QED
                    BY <3>1, <3>3, <5>4, LeadsFrom
            <4>5. CASE r[p - 1] # "lf"
                <5>1. Leads(r, p - 1)
                    BY <3>2, <3>5, <4>5 DEF Begins
                <5>2. Leads(src, m[p - 1])
                    BY <2>1, <4>1, <5>1
                <5>3. CASE m[p] = m[p - 1] + 1
                    <6>1. m[p] - 1 = m[p - 1] /\ m[p] # 1
                        BY <4>3, <5>3
                    <6>2. QED
                        BY <3>1, <3>3, <5>2, <6>1, LeadsFrom
                <5>4. QED
                    BY <4>2, <5>2, <5>3
            <4>6. QED
                BY <4>4, <4>5
        <3>6. QED
            BY <3>4, <3>5
    <2>3. \A p \in 1..Len(r) : p <= k + 1 => p <= k \/ p = k + 1
        BY <1>9, <2>1
    <2>4. k + 1 \in Nat
        BY <2>1
    <2>5. QED
        BY <2>1, <2>2, <2>3, <2>4
<1>20. Unindented(r)
    <2>1. T = Nat
        <3> HIDE DEF T
        <3>1. T \in SUBSET Nat
            BY DEF T
        <3>2. QED
            BY <1>18, <1>19, <3>1, FromZero
    <2>2. Len(r) \in T /\ \A p \in 1..Len(r) : p <= Len(r)
        BY <1>9, <2>1
    <2>3. ASSUME NEW p \in 1..Len(r), r[p] = "tab", Leads(r, p)
          PROVE  FALSE
        <3>1. Leads(src, m[p])
            BY <2>2, <2>3
        <3>2. ~wide(m[p])
            BY <1>10, <2>3
        <3>3. r[p] = src[m[p]]
            BY <1>10, <3>2
        <3>4. QED
            BY <2>3, <3>1, <3>2, <3>3
    <2>4. QED
        BY <2>3 DEF Unindented
<1>21. QED
    BY <1>1, <1>6, <1>7, <1>14, <1>17, <1>20

\* What a rewrite of these bytes would be a guess for, or leave.
Guesses(path, b, rules) ==
    \/ ~Valid(b) \/ (path \in GoPaths /\ ~GoParses(b))
    \/ (rules.indent_style = "tab" /\ IndentedWithSpace(b))
    \/ (b # <<>> /\ b[1] = "mark")

\* The bytes of a file before a rule on its lines is laid over them.
AfterMark(src, rules) == IF rules.charset = "utf-8" THEN ApplyCharset(src) ELSE src
AfterEndings(src, rules) ==
    IF rules.end_of_line = "lf" THEN ApplyLF(AfterMark(src, rules)) ELSE AfterMark(src, rules)

\* Bytes that hold what each rule wants are found nothing in.
LEMMA NothingLeft ==
    ASSUME NEW B, "lf" \in B, "space" \in B, NEW b \in Seq(B), NEW path, NEW rules, ~Guesses(path, b, rules),
           rules.end_of_line = "lf" => Unix(b),
           path \in GoPaths => Tidy(b) /\ Ended(b),
           path \notin GoPaths =>
               /\ rules.trim_trailing_whitespace = "true" => Tidy(b)
               /\ rules.indent_style = "space" /\ rules.indent_size # "unset" => Unindented(b)
               /\ rules.insert_final_newline = "true" => Ended(b)
    PROVE  Format(path, b, rules).found = {}
<1> DEFINE decoded == AfterMark(b, rules)
           ended == AfterEndings(b, rules)
           departed == Departs("charset", b, decoded) \cup Departs("end_of_line", decoded, ended)
<1>1. Format(path, b, rules) =
          IF rules.charset = "utf-8" /\ ~Valid(decoded) THEN Unrepaired(b, {"charset"})
          ELSE IF path \in GoPaths THEN FormatGo(b, ended, departed) ELSE FormatLines(ended, departed, rules)
    BY DEF Format, AfterMark, AfterEndings
<1>2. decoded = b
    BY DEF Guesses, ApplyCharset, AfterMark
<1>3. ended = b
    BY <1>2, EndingsSettle DEF AfterEndings
<1> HIDE DEF decoded, ended
<1>4. departed = {}
    BY <1>2, <1>3 DEF Departs
<1> HIDE DEF departed
<1>5. Valid(decoded)
    BY <1>2 DEF Guesses
<1>6. CASE path \in GoPaths
    <2>1. GoFormatted(b) = b
        <3>1. ApplyTrim(b) = b
            BY <1>6, TrimSettles
        <3>2. ApplyFinalNewline(b) = b
            BY <1>6, EndSettles
        <3>3. QED
            BY <3>1, <3>2 DEF GoFormatted
    <2>2. Format(path, b, rules) = FormatGo(b, b, {})
        BY <1>1, <1>3, <1>4, <1>5, <1>6
    <2>3. GoParses(b)
        BY <1>6 DEF Guesses
    <2>4. FormatGo(b, b, {}) = [bytes |-> GoFormatted(b), found |-> {} \cup Departs("gofmt", b, GoFormatted(b))]
        BY <2>3 DEF FormatGo
    <2>5. QED
        BY <2>1, <2>2, <2>4 DEF Departs
<1>7. CASE path \notin GoPaths
    <2> DEFINE trimmed == IF rules.trim_trailing_whitespace = "true" THEN ApplyTrim(b) ELSE b
               indented == IF rules.indent_style = "space" /\ rules.indent_size # "unset"
                           THEN ApplySpaceIndent(trimmed, rules.indent_size) ELSE trimmed
               last == IF rules.insert_final_newline = "true" THEN ApplyFinalNewline(indented) ELSE indented
               byTab == IF rules.indent_style = "tab" /\ IndentedWithSpace(trimmed) THEN {"indent_style"} ELSE {}
    <2>1. Format(path, b, rules) = FormatLines(b, {}, rules)
        BY <1>1, <1>3, <1>4, <1>5, <1>7
    <2>2. FormatLines(b, {}, rules).found =
              UNION {{}, Departs("trim_trailing_whitespace", b, trimmed),
                     Departs("indent_style", trimmed, indented), byTab,
                     Departs("insert_final_newline", indented, last)}
        BY DEF FormatLines
    <2>3. trimmed = b
        BY <1>7, TrimSettles
    <2> HIDE DEF trimmed
    <2>4. indented = b
        BY <1>7, <2>3, IndentSettles
    <2> HIDE DEF indented
    <2>5. last = b
        BY <1>7, <2>4, EndSettles
    <2> HIDE DEF last
    <2>6. byTab = {}
        BY <2>3 DEF Guesses
    <2> HIDE DEF byTab
    <2>7. QED
        BY <2>1, <2>2, <2>3, <2>4, <2>5, <2>6 DEF Departs
<1>8. QED
    BY <1>6, <1>7

\* They have the mark taken off and their line endings put right.
LEMMA BeforeTheLines ==
    ASSUME NEW B, "lf" \in B, NEW src \in Seq(B), NEW rules
    PROVE  /\ AfterMark(src, rules) \in Seq(B) /\ AfterEndings(src, rules) \in Seq(B)
           /\ rules.end_of_line = "lf" => Unix(AfterEndings(src, rules))
           /\ ToSet(AfterEndings(src, rules)) \subseteq ToSet(AfterMark(src, rules)) \cup {"lf"}
           /\ (src = <<>> \/ src[1] # "mark") => AfterMark(src, rules) = src
<1> DEFINE decoded == AfterMark(src, rules)
<1>1. decoded \in Seq(B)
    <2>1. src # <<>> => Tail(src) \in Seq(B)
        BY HeadTailProperties
    <2>2. QED
        BY <2>1 DEF ApplyCharset, AfterMark
<1>2. (src = <<>> \/ src[1] # "mark") => decoded = src
    BY DEF ApplyCharset, AfterMark
<1> HIDE DEF decoded
<1>3. CASE rules.end_of_line = "lf"
    <2>1. AfterEndings(src, rules) = ApplyLF(decoded)
        BY <1>3 DEF AfterEndings, decoded
    <2>2. QED
        BY <1>1, <1>2, <2>1, EndingsSettle DEF decoded
<1>4. CASE rules.end_of_line # "lf"
    <2>1. AfterEndings(src, rules) = decoded
        BY <1>4 DEF AfterEndings, decoded
    <2>2. QED
        BY <1>1, <1>2, <1>4, <2>1 DEF decoded
<1>5. QED
    BY <1>3, <1>4

\* What formatting a file leaves is found nothing in, unless a rewrite would have
\* to guess.
LEMMA FormatAgain ==
    ASSUME NEW B, "lf" \in B, "space" \in B, NEW src \in Seq(B), NEW path, NEW rules,
           NEW b, b = Format(path, src, rules).bytes
    PROVE  b \in Seq(B) /\ (Format(path, b, rules).found = {} \/ Guesses(path, b, rules))
<1> DEFINE decoded == AfterMark(src, rules)
           ended == AfterEndings(src, rules)
           departed == Departs("charset", src, decoded) \cup Departs("end_of_line", decoded, ended)
<1>1. Format(path, src, rules) =
          IF rules.charset = "utf-8" /\ ~Valid(decoded) THEN Unrepaired(src, {"charset"})
          ELSE IF path \in GoPaths THEN FormatGo(src, ended, departed) ELSE FormatLines(ended, departed, rules)
    BY DEF Format, AfterMark, AfterEndings
<1>2. /\ decoded \in Seq(B) /\ ended \in Seq(B)
      /\ rules.end_of_line = "lf" => Unix(ended)
      /\ ToSet(ended) \subseteq ToSet(decoded) \cup {"lf"}
      /\ (src = <<>> \/ src[1] # "mark") => decoded = src
    BY BeforeTheLines
<1> HIDE DEF decoded, ended, departed
<1>3. CASE rules.charset = "utf-8" /\ ~Valid(decoded)
    <2>1. b = src
        BY <1>1, <1>3 DEF Unrepaired
    <2>2. QED
        BY <1>2, <1>3, <2>1 DEF Guesses
<1>4. CASE ~(rules.charset = "utf-8" /\ ~Valid(decoded)) /\ path \in GoPaths
    <2>1. Format(path, src, rules) = FormatGo(src, ended, departed)
        BY <1>1, <1>4
    <2>2. CASE ~GoParses(ended)
        <3>1. b = src
            BY <2>1, <2>2 DEF FormatGo, Unrepaired
        <3>2. decoded = src => ~GoParses(src)
            <4> SUFFICES ASSUME decoded = src, GoParses(src)
                         PROVE  GoParses(ended)
                BY <2>2
            <4>1. \A x \in ToSet(src) : x \notin {"bad", "mark", "broken"}
                BY DEF GoParses, ToSet
            <4>2. \A i \in DOMAIN ended : ended[i] \in ToSet(ended)
                BY DEF ToSet
            <4>3. \A i \in DOMAIN ended : ended[i] \in ToSet(src) \/ ended[i] = "lf"
                BY <1>2, <4>2
            <4>4. QED
                BY <4>1, <4>3 DEF GoParses
        <3>3. QED
            BY <1>2, <1>4, <3>1, <3>2 DEF Guesses
    <2>3. CASE GoParses(ended)
        <3> DEFINE trimmed == ApplyTrim(ended)
                   last == ApplyFinalNewline(trimmed)
        <3>1. b = last
            BY <2>1, <2>3 DEF FormatGo, GoFormatted
        <3>2. trimmed \in Seq(B) /\ Tidy(trimmed) /\ ToSet(trimmed) \subseteq ToSet(ended)
            BY <1>2, TrimSettles
        <3> HIDE DEF trimmed
        <3>3. last \in Seq(B) /\ Ended(last) /\ Tidy(last) /\ ToSet(last) \subseteq ToSet(trimmed) \cup {"lf"}
            BY <3>2, EndSettles
        <3> HIDE DEF last
        <3>4. rules.end_of_line = "lf" => Unix(last)
            BY <1>2, <3>2, <3>3 DEF Unix
        <3>5. QED
            BY <1>4, <3>1, <3>3, <3>4, NothingLeft
    <2>4. QED
        BY <2>2, <2>3
<1>5. CASE ~(rules.charset = "utf-8" /\ ~Valid(decoded)) /\ path \notin GoPaths
    <2> DEFINE trimmed == IF rules.trim_trailing_whitespace = "true" THEN ApplyTrim(ended) ELSE ended
               indented == IF rules.indent_style = "space" /\ rules.indent_size # "unset"
                           THEN ApplySpaceIndent(trimmed, rules.indent_size) ELSE trimmed
               last == IF rules.insert_final_newline = "true" THEN ApplyFinalNewline(indented) ELSE indented
               bySpace == rules.indent_style = "space" /\ rules.indent_size # "unset"
    <2>1. Format(path, src, rules) = FormatLines(ended, departed, rules)
        BY <1>1, <1>5
    <2>2. b = last
        BY <2>1 DEF FormatLines
    <2>3. /\ trimmed \in Seq(B) /\ ToSet(trimmed) \subseteq ToSet(ended)
          /\ rules.trim_trailing_whitespace = "true" => Tidy(trimmed)
        BY <1>2, TrimSettles
    <2> HIDE DEF trimmed
    <2>4. /\ indented \in Seq(B) /\ ToSet(indented) \subseteq ToSet(trimmed) \cup {"space"}
          /\ bySpace => Unindented(indented)
          /\ Tidy(trimmed) => Tidy(indented)
        BY <2>3, IndentSettles
    <2> HIDE DEF indented
    <2>5. /\ last \in Seq(B) /\ ToSet(last) \subseteq ToSet(indented) \cup {"lf"}
          /\ Tidy(indented) => Tidy(last)
          /\ Unindented(indented) => Unindented(last)
          /\ rules.insert_final_newline = "true" => Ended(last)
        BY <2>4, EndSettles
    <2> HIDE DEF last
    <2>6. rules.end_of_line = "lf" => Unix(last)
        BY <1>2, <2>3, <2>4, <2>5 DEF Unix
    <2>7. /\ rules.trim_trailing_whitespace = "true" => Tidy(last)
          /\ bySpace => Unindented(last)
        BY <2>3, <2>4, <2>5
    <2>8. QED
        BY <1>5, <2>2, <2>5, <2>6, <2>7, NothingLeft
<1>6. QED
    BY <1>3, <1>4, <1>5

\* A file nothing is found in is left as it is.
LEMMA NothingFound ==
    ASSUME NEW path, NEW src, NEW rules, Format(path, src, rules).found = {}
    PROVE  Format(path, src, rules).bytes = src
<1> DEFINE decoded == AfterMark(src, rules)
           ended == AfterEndings(src, rules)
           departed == Departs("charset", src, decoded) \cup Departs("end_of_line", decoded, ended)
<1>1. Format(path, src, rules) =
          IF rules.charset = "utf-8" /\ ~Valid(decoded) THEN Unrepaired(src, {"charset"})
          ELSE IF path \in GoPaths THEN FormatGo(src, ended, departed) ELSE FormatLines(ended, departed, rules)
    BY DEF Format, AfterMark, AfterEndings
<1> HIDE DEF decoded, ended
<1>2. CASE rules.charset = "utf-8" /\ ~Valid(decoded)
    BY <1>1, <1>2 DEF Unrepaired
<1>3. departed = {} => src = decoded /\ decoded = ended
    BY DEF Departs
<1> HIDE DEF departed
<1>4. CASE ~(rules.charset = "utf-8" /\ ~Valid(decoded)) /\ path \in GoPaths
    <2>1. Format(path, src, rules) = FormatGo(src, ended, departed)
        BY <1>1, <1>4
    <2>2. CASE ~GoParses(ended)
        BY <2>1, <2>2 DEF FormatGo, Unrepaired
    <2>3. CASE GoParses(ended)
        <3>1. /\ Format(path, src, rules).bytes = GoFormatted(ended)
              /\ Format(path, src, rules).found = departed \cup Departs("gofmt", ended, GoFormatted(ended))
            BY <2>1, <2>3 DEF FormatGo
        <3>2. departed = {} /\ ended = GoFormatted(ended)
            BY <3>1 DEF Departs
        <3>3. QED
            BY <1>3, <3>1, <3>2
    <2>4. QED
        BY <2>2, <2>3
<1>5. CASE ~(rules.charset = "utf-8" /\ ~Valid(decoded)) /\ path \notin GoPaths
    <2> DEFINE trimmed == IF rules.trim_trailing_whitespace = "true" THEN ApplyTrim(ended) ELSE ended
               indented == IF rules.indent_style = "space" /\ rules.indent_size # "unset"
                           THEN ApplySpaceIndent(trimmed, rules.indent_size) ELSE trimmed
               last == IF rules.insert_final_newline = "true" THEN ApplyFinalNewline(indented) ELSE indented
               byTab == IF rules.indent_style = "tab" /\ IndentedWithSpace(trimmed) THEN {"indent_style"} ELSE {}
    <2>1. Format(path, src, rules) = FormatLines(ended, departed, rules)
        BY <1>1, <1>5
    <2>2. /\ FormatLines(ended, departed, rules).bytes = last
          /\ FormatLines(ended, departed, rules).found =
              UNION {departed, Departs("trim_trailing_whitespace", ended, trimmed),
                     Departs("indent_style", trimmed, indented), byTab,
                     Departs("insert_final_newline", indented, last)}
        BY DEF FormatLines
    <2> HIDE DEF trimmed, indented, last, byTab
    <2>3. departed = {} /\ ended = trimmed /\ trimmed = indented /\ indented = last
        BY <2>1, <2>2 DEF Departs
    <2>4. QED
        BY <1>3, <2>1, <2>2, <2>3
<1>6. QED
    BY <1>2, <1>4, <1>5

\* The files behind are as they should be, the ones ahead as they were read, and
\* none is anything else but the one a rewrite failed at.
Rewritten ==
    run.gate = "treefmt" =>
        /\ DOMAIN disk = Paths
        /\ \A k \in Paths :
              /\ pc \in {"reading", "printing"} => disk[k] = run.files[k].bytes
              /\ pc = "writing" =>
                    disk[k] = IF k < at THEN Formatted(k).bytes ELSE run.files[k].bytes
              /\ exit = "success" =>
                    disk[k] = IF run.write THEN Formatted(k).bytes ELSE run.files[k].bytes
              /\ \/ disk[k] \in {run.files[k].bytes, Formatted(k).bytes}
                 \/ exit = "failure" /\ at = k
        /\ pc = "writing" => run.write
        /\ pc = "printing" => ~run.write
        /\ exit = "success" /\ ~run.write => found = {}

\* At every step.
LEMMA RewrittenAlways == Spec => []Rewritten
<1>1. Init => Rewritten
    <2> SUFFICES ASSUME Init
                 PROVE  Rewritten
        OBVIOUS
    <2>1. disk = [k \in Paths |-> run.files[k].bytes] /\ pc = "reading" /\ exit = "none"
        BY DEF Init
    <2>2. DOMAIN disk = Paths /\ \A k \in Paths : disk[k] = run.files[k].bytes
        BY <2>1
    <2>3. QED
        BY <2>1, <2>2 DEF Rewritten
<1>2. Gauged /\ Rewritten /\ [Next]_vars => Rewritten'
    <2> SUFFICES ASSUME Gauged, Rewritten, [Next]_vars
                 PROVE  Rewritten'
        OBVIOUS
    <2>1. run' = run
        BY DEF Next, vars, ReadInput, FailInput, Judge, WriteFile, FailWrite, FinishWriting, Report, FailReport
    <2> SUFFICES ASSUME run.gate = "treefmt"
                 PROVE  Rewritten'
        BY <2>1 DEF Rewritten
    <2>2. Paths' = Paths /\ Paths = DOMAIN run.files /\ (\A k : Formatted(k)' = Formatted(k))
        BY <2>1 DEF Formatted, Paths
    <2>3. DOMAIN run.files = 1..Len(run.files) /\ Len(run.files) \in Nat /\ at \in Nat
        <3>1. run.files \in Seq([path : STRING, bytes : Seq(STRING)])
            BY RunsAreGiven DEF Gauged, Heard, OfBytes
        <3>2. at \in Nat
            BY DEF Gauged, Heard
        <3> HIDE DEF Gauged, Rewritten
        <3>3. QED
            BY <3>1, <3>2
    <2> DEFINE was(k) == run.files[k].bytes
               shall(k) == Formatted(k).bytes
    <2>4. /\ DOMAIN disk = Paths
          /\ \A k \in Paths :
                /\ pc \in {"reading", "printing"} => disk[k] = was(k)
                /\ pc = "writing" => disk[k] = IF k < at THEN shall(k) ELSE was(k)
                /\ exit = "success" => disk[k] = IF run.write THEN shall(k) ELSE was(k)
                /\ disk[k] \in {was(k), shall(k)} \/ (exit = "failure" /\ at = k)
          /\ pc = "writing" => run.write
          /\ pc = "printing" => ~run.write
          /\ exit = "success" /\ ~run.write => found = {}
        BY DEF Rewritten
    <2>5. pc # "ended" => exit = "none"
        BY DEF Gauged
    <2>6. SUFFICES /\ DOMAIN disk' = Paths
                   /\ \A k \in Paths :
                         /\ pc' \in {"reading", "printing"} => disk'[k] = was(k)
                         /\ pc' = "writing" => disk'[k] = IF k < at' THEN shall(k) ELSE was(k)
                         /\ exit' = "success" => disk'[k] = IF run.write THEN shall(k) ELSE was(k)
                         /\ disk'[k] \in {was(k), shall(k)} \/ (exit' = "failure" /\ at' = k)
                   /\ pc' = "writing" => run.write
                   /\ pc' = "printing" => ~run.write
                   /\ exit' = "success" /\ ~run.write => found' = {}
        BY <2>1, <2>2 DEF Rewritten
    <2> HIDE DEF was, shall
    <2>7. \A k \in Paths : Formatted(k).found = {} => shall(k) = was(k)
        BY NothingFound DEF Formatted, was, shall
    <2> DEFINE Goal == /\ DOMAIN disk' = Paths
                       /\ \A k \in Paths :
                             /\ pc' \in {"reading", "printing"} => disk'[k] = was(k)
                             /\ pc' = "writing" => disk'[k] = IF k < at' THEN shall(k) ELSE was(k)
                             /\ exit' = "success" => disk'[k] = IF run.write THEN shall(k) ELSE was(k)
                             /\ disk'[k] \in {was(k), shall(k)} \/ (exit' = "failure" /\ at' = k)
                       /\ pc' = "writing" => run.write
                       /\ pc' = "printing" => ~run.write
                       /\ exit' = "success" /\ ~run.write => found' = {}
    <2>8. CASE ReadInput \/ FailInput
        <3>1. disk' = disk /\ pc = "reading" /\ exit = "none"
            BY <2>5, <2>8 DEF ReadInput, FailInput
        <3>2. (pc' = "reading" /\ exit' = "none") \/ (pc' = "ended" /\ exit' = "failure")
            BY <2>8, <3>1 DEF ReadInput, FailInput, End
        <3>3. QED
            BY <2>4, <3>1, <3>2
    <2>9. CASE Judge
        <3>1. disk' = disk /\ pc = "reading" /\ exit' = "none" /\ at' = 1
            BY <2>5, <2>9 DEF Judge
        <3>2. pc' = (IF run.write THEN "writing" ELSE "printing")
            BY <2>9 DEF Judge
        <3>3. \A k \in Paths : ~(k < 1)
            BY <2>2, <2>3
        <3>4. QED
            BY <2>4, <3>1, <3>2, <3>3
    <2>10. CASE WriteFile
        <3>1. /\ pc = "writing" /\ at <= Len(run.files) /\ at' = at + 1 /\ pc' = pc /\ exit' = exit /\ exit = "none"
              /\ disk' = IF Formatted(at).found = {} THEN disk ELSE [disk EXCEPT ![at] = shall(at)]
            BY <2>5, <2>10 DEF WriteFile, shall
        <3>2. \A k \in Paths : k \in Int /\ (k < at + 1 <=> (k < at \/ k = at))
            BY <2>2, <2>3
        <3>3. \A k \in Paths : disk'[k] = IF k < at + 1 THEN shall(k) ELSE was(k)
            <4> SUFFICES ASSUME NEW k \in Paths
                         PROVE  disk'[k] = IF k < at + 1 THEN shall(k) ELSE was(k)
                OBVIOUS
            <4>1. disk[k] = IF k < at THEN shall(k) ELSE was(k)
                BY <2>4, <3>1
            <4>2. CASE k = at
                <5>1. Formatted(at).found = {} => disk'[k] = was(k) /\ shall(k) = was(k)
                    <6>1. ~(at < at)
                        BY <2>3
                    <6>2. QED
                        BY <2>7, <3>1, <4>1, <4>2, <6>1
                <5>2. Formatted(at).found # {} => disk'[k] = shall(k)
                    BY <2>4, <3>1, <4>2
                <5>3. k < at + 1
                    BY <3>2, <4>2
                <5>4. QED
                    BY <5>1, <5>2, <5>3
            <4>3. CASE k # at
                <5>1. disk'[k] = disk[k]
                    BY <2>4, <3>1, <4>3
                <5>2. QED
                    BY <3>2, <4>1, <4>3, <5>1
            <4>4. QED
                BY <4>2, <4>3
        <3>4. DOMAIN disk' = Paths
            BY <2>4, <3>1
        <3>5. QED
            BY <2>4, <3>1, <3>3, <3>4
    <2>11. CASE FailWrite
        <3>1. pc = "writing" /\ at' = at /\ pc' = "ended" /\ exit' = "failure" /\ DOMAIN disk' = DOMAIN disk
              /\ \A k \in Paths : k # at => disk'[k] = disk[k]
            BY <2>4, <2>11 DEF FailWrite, End
        <3>2. QED
            BY <2>4, <3>1
    <2>12. CASE FinishWriting
        <3>1. pc = "writing" /\ at > Len(run.files) /\ pc' = "ended" /\ exit' = "success" /\ disk' = disk
            BY <2>12 DEF FinishWriting, End
        <3>2. \A k \in Paths : k < at
            BY <2>2, <2>3, <3>1
        <3>3. QED
            BY <2>4, <3>1, <3>2
    <2>13. CASE Report
        <3>1. /\ pc = "printing" /\ pc' = "ended" /\ disk' = disk /\ found' = found
              /\ exit' = (IF found = {} THEN "success" ELSE "failure")
            BY <2>13 DEF Report, End
        <3>2. QED
            BY <2>4, <3>1
    <2>14. CASE FailReport
        <3>1. pc \in {"printing", "writing"} /\ pc' = "ended" /\ exit' = "failure" /\ disk' = disk
            BY <2>14 DEF FailReport, End
        <3>2. QED
            BY <2>4, <3>1
    <2>15. CASE UNCHANGED vars
        BY <2>4, <2>15 DEF vars
    <2>16. QED
        BY <2>8, <2>9, <2>10, <2>11, <2>12, <2>13, <2>14, <2>15 DEF Next
<1> QED
    BY <1>1, <1>2, GaugedAlways, PTL DEF Spec

\* Formatting settles, whatever the files and the rules: what was rewritten is as
\* a check wants it, or no rewrite changes it; a check that is green means one
\* would change nothing; and one that fails part way has spoilt no other file
\* (treefmt.go:62-71, run.go:13-19).
THEOREM FormattingAlwaysSettles == Spec => []FormatSettles
<1>1. Gauged /\ Rewritten => FormatSettles
    <2> SUFFICES ASSUME Gauged, Rewritten, run.gate = "treefmt"
                 PROVE  FormatSettles
        BY DEF FormatSettles, Green
    <2>1. \A k \in Paths : disk[k] \in {run.files[k].bytes, Formatted(k).bytes} \/ (exit = "failure" /\ at = k)
        BY DEF Rewritten
    <2>2. ASSUME exit = "success", NEW k \in Paths
          PROVE  IF run.write
                 THEN Format(run.files[k].path, disk[k], RulesFor(run.rules, run.files[k].path)).found = {}
                      \/ Unrepairable(k)
                 ELSE Format(run.files[k].path, disk[k], RulesFor(run.rules, run.files[k].path)).bytes = disk[k]
        <3> DEFINE path == run.files[k].path
                   src == run.files[k].bytes
                   rules == RulesFor(run.rules, path)
        <3>1. CASE run.write
            <4>1. disk[k] = Format(path, src, rules).bytes
                BY <2>2, <3>1 DEF Rewritten, Formatted
            <4> DEFINE B == STRING \cup {"lf", "space"}
                       S == Seq(STRING)
            <4>2. src \in S
                <5>1. run.files \in Seq([path : STRING, bytes : S])
                    BY RunsAreGiven DEF Gauged, Heard, OfBytes
                <5>2. k \in DOMAIN run.files
                    BY DEF Paths
                <5> DEFINE R == [path : STRING, bytes : S]
                           files == run.files
                <5> HIDE DEF S
                <5>3. files[k] \in R
                    <6>1. files \in Seq(R) /\ k \in DOMAIN files
                        BY <5>1, <5>2
                    <6> HIDE DEF R, files
                    <6>2. k \in 1..Len(files)
                        BY <6>1
                    <6>3. QED
                        BY <6>1, <6>2, ElementOfSeq
                <5>4. QED
                    BY <5>3
            <4>3. src \in Seq(B) /\ "lf" \in B /\ "space" \in B
                <5>1. STRING \subseteq B /\ "lf" \in B /\ "space" \in B
                    OBVIOUS
                <5>2. src \in Seq(STRING)
                    BY <4>2
                <5> HIDE DEF B, src
                <5>3. QED
                    BY <5>1, <5>2, SeqMonotonic
            <4> HIDE DEF B, src, rules, path
            <4>4. Format(path, disk[k], rules).found = {} \/ Guesses(path, disk[k], rules)
                BY <4>1, <4>3, FormatAgain
            <4>5. Guesses(path, disk[k], rules) => Unrepairable(k)
                BY DEF Guesses, Unrepairable, path, rules
            <4>6. QED
                BY <3>1, <4>4, <4>5 DEF path, rules
        <3>2. CASE ~run.write
            <4>1. disk[k] = src /\ found = {}
                BY <2>2, <3>2 DEF Rewritten
            <4>2. found \in Judgements
                <5>1. run.gate \in AllGates
                    BY DEF AllGates
                <5>2. QED
                    BY <2>2, <5>1 DEF Gauged
            <4>3. found = UNION {{j} \X Formatted(j).found : j \in Paths}
                BY <4>2 DEF Judgements
            <4>4. Formatted(k).found = {}
                <5> DEFINE each == {{j} \X Formatted(j).found : j \in Paths}
                           mine == Formatted(k).found
                <5>1. {k} \X mine \in each
                    OBVIOUS
                <5> HIDE DEF each
                <5>2. {k} \X mine = {}
                    BY <4>1, <4>3, <5>1 DEF each
                <5> HIDE DEF mine
                <5>3. SUFFICES ASSUME NEW x \in mine
                               PROVE  FALSE
                    BY DEF mine
                <5>4. <<k, x>> \in {k} \X mine
                    OBVIOUS
                <5>5. QED
                    BY <5>2, <5>4
            <4>5. Format(path, src, rules).bytes = src
                <5>1. Format(path, src, rules).found = {}
                    BY <4>4 DEF Formatted
                <5> HIDE DEF path, src, rules
                <5>2. QED
                    BY <5>1, NothingFound
            <4>6. QED
                BY <3>2, <4>1, <4>5
        <3>3. QED
            BY <3>1, <3>2
    <2>3. QED
        BY <2>1, <2>2 DEF FormatSettles, Green
<1> QED
    BY <1>1, GaugedAlways, RewrittenAlways, PTL

=============================================================================
