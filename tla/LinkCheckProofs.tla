-------------------------- MODULE LinkCheckProofs --------------------------
(***************************************************************************)
(* For any documents, addresses and number of attempts: nothing is asked in   *)
(* vain, a run is red only on the word of the other end, and its numbers and  *)
(* findings are the links behind it.                                          *)
(***************************************************************************)
EXTENDS LinkCheck, FiniteSetTheorems, WellFoundedInduction, TLAPS

-----------------------------------------------------------------------------
(* Sequences of sequences                                                    *)

\* A set of naturals has a least member, which is what induction rests on here.
LEMMA LeastNat ==
    ASSUME NEW T \in SUBSET Nat, T # {}
    PROVE  \E n \in T : \A m \in T : n <= m
<1> DEFINE R == OpToRel(<, Nat)
<1>1. IsWellFoundedOn(R, Nat)
    BY NatLessThanWellFounded, Zenon
<1>2. \A x, y \in Nat : y < x => <<y, x>> \in R
    BY Zenon DEF OpToRel
<1> HIDE DEF R
<1>3. PICK x \in T : \A y \in T : <<y, x>> \notin R
    BY <1>1, WFMin
<1>4. \A y \in T : ~(y < x)
    BY <1>2, <1>3
<1> QED
    BY <1>3, <1>4

\* What FlattenSeq is computed by, along any prefix.
Flattens(g, seqs, n) ==
    g = [i \in 1 .. n |-> IF i = 1 THEN seqs[i] ELSE g[i - 1] \o seqs[i]]

\* There is such a function, however long the sequence.
LEMMA Flattened ==
    ASSUME NEW seqs, NEW n \in Nat
    PROVE  \E g : Flattens(g, seqs, n)
<1> DEFINE T == {m \in Nat : ~\E g : Flattens(g, seqs, m)}
<1> SUFFICES ASSUME T # {}
             PROVE  FALSE
    OBVIOUS
<1>1. PICK m \in T : \A k \in T : m <= k
    BY LeastNat
<1>2. CASE m = 0
    <2> DEFINE g == [i \in 1 .. 0 |-> seqs[i]]
    <2>1. Flattens(g, seqs, 0)
        BY DEF Flattens
    <2>2. QED
        BY <1>1, <1>2, <2>1
<1>3. CASE m # 0
    <2>1. m \in Nat \ {0} /\ m - 1 \in Nat /\ m - 1 \notin T
        BY <1>1, <1>3
    <2>2. PICK g : Flattens(g, seqs, m - 1)
        BY <2>1
    <2> DEFINE h == [i \in 1 .. m |-> IF i < m THEN g[i]
                                      ELSE IF i = 1 THEN seqs[i] ELSE g[i - 1] \o seqs[i]]
    <2>3. \A i \in 1 .. m - 1 : g[i] = IF i = 1 THEN seqs[i] ELSE g[i - 1] \o seqs[i]
        BY <2>2, Zenon DEF Flattens
    <2>4. ASSUME NEW i \in 1 .. m
          PROVE  h[i] = IF i = 1 THEN seqs[i] ELSE h[i - 1] \o seqs[i]
        BY <2>1, <2>3
    <2>5. h = [i \in 1 .. m |-> h[i]]
        OBVIOUS
    <2> HIDE DEF h
    <2>6. Flattens(h, seqs, m)
        BY <2>4, <2>5 DEF Flattens
    <2>7. QED
        BY <1>1, <2>6
<1> QED
    BY <1>2, <1>3

\* Putting sequences over a set one after the other makes one over it.
LEMMA FlattenSeqType ==
    ASSUME NEW S, NEW seqs \in Seq(Seq(S))
    PROVE  FlattenSeq(seqs) \in Seq(S)
<1>1. CASE Len(seqs) = 0
    BY <1>1 DEF FlattenSeq
<1>2. CASE Len(seqs) # 0
    <2> DEFINE n == Len(seqs)
               g == CHOOSE g : Flattens(g, seqs, n)
               T == {i \in Nat : i \in 1 .. n /\ g[i] \notin Seq(S)}
    <2>1. n \in Nat \ {0}
        BY <1>2
    <2>2. Flattens(g, seqs, n)
        BY <2>1, Flattened
    <2>3. FlattenSeq(seqs) = g[n]
        BY <1>2 DEF FlattenSeq, Flattens
    <2> HIDE DEF g
    <2>4. \A i \in 1 .. n : g[i] = IF i = 1 THEN seqs[i] ELSE g[i - 1] \o seqs[i]
        BY <2>2, Zenon DEF Flattens
    <2>5. \A i \in 1 .. n : seqs[i] \in Seq(S)
        OBVIOUS
    <2>6. CASE T # {}
        <3>1. PICK i \in T : \A k \in T : i <= k
            BY <2>6, LeastNat
        <3>2. i # 1
            BY <2>4, <2>5, <3>1
        <3>3. i - 1 \in 1 .. n /\ i - 1 \notin T
            BY <3>1, <3>2
        <3>4. g[i - 1] \in Seq(S) /\ seqs[i] \in Seq(S)
            BY <2>5, <3>1, <3>3
        <3>5. g[i] = g[i - 1] \o seqs[i]
            BY <2>4, <3>1, <3>2
        <3>6. g[i - 1] \o seqs[i] \in Seq(S)
            BY <3>4
        <3>7. QED
            BY <3>1, <3>5, <3>6
    <2>7. CASE T = {}
        BY <2>1, <2>3, <2>7
    <2>8. QED
        BY <2>6, <2>7
<1> QED
    BY <1>1, <1>2

-----------------------------------------------------------------------------
(* What is kept                                                              *)

Typed ==
    /\ budget \in Int
    /\ pc \in {"list", "link", "probe", "pause", "count", "done"}
    /\ links \in Seq(LinkOf) /\ at \in Nat \ {0} /\ attempt \in Nat
    /\ DOMAIN judged \subseteq URLs /\ \A u \in DOMAIN judged : judged[u] \in Verdicts
    /\ findings \in Seq(FindingOf)
    /\ heard \in [URLs -> Seq(Answers)]

\* Where the run is in its list, which it begins with nothing of.
Placed ==
    /\ at <= Len(links) + 1
    /\ pc \in {"probe", "pause", "count"} => at <= Len(links)
    /\ pc = "list" => at = 1 /\ findings = <<>> /\ outcome = "none"
    /\ outcome \in {"green", "red"} => pc = "done"

\* An address has been judged by the last it said, once it has been come to, and
\* the one that is being asked has said nothing yet that means anything.
Asked ==
    /\ \A u \in DOMAIN judged : heard[u] # <<>> /\ judged[u] = Classify(Last(heard[u]))
    /\ \A u \in URLs \ DOMAIN judged : heard[u] = <<>> \/ (pc \in {"probe", "pause"} /\ u = url)
    /\ pc \in {"probe", "pause"} =>
          /\ url \notin DOMAIN judged
          /\ Len(heard[url]) = attempt /\ attempt < Attempts
          /\ \A k \in DOMAIN heard[url] : Classify(heard[url][k]) = "transient"
    /\ pc = "count" => url \in DOMAIN judged
    /\ \A k \in Behind : links[k].url \in DOMAIN judged
    /\ \A u \in DOMAIN judged : (\E k \in Behind : links[k].url = u) \/ (pc = "count" /\ u = url)

\* The links behind it whose address was judged so.
Saying(v) == {k \in Behind : judged[links[k].url] = v}
Unreached == Saying("gone") \cup Saying("transient")

Ordered(fs) ==
    \A j, k \in DOMAIN fs : j < k =>
        fs[j].file < fs[k].file \/ (fs[j].file = fs[k].file /\ fs[j].line <= fs[k].line)

\* What is printed is what is behind.
Counted ==
    /\ report = [reachable |-> Cardinality(Saying("reachable")),
                 gone |-> Cardinality(Saying("gone")),
                 unjudged |-> Cardinality(Saying("transient"))]
    /\ Len(findings) = Cardinality(Unreached)
    /\ ToSet(findings) = {Finding(k, judged[links[k].url] = "gone") : k \in Unreached}
    /\ outcome \in {"green", "red"} =>
          /\ Ordered(findings)
          /\ outcome = "red" <=> \E k \in DOMAIN findings : findings[k].refused

Inv == Typed /\ Placed /\ Asked /\ Counted

-----------------------------------------------------------------------------
(* Types                                                                     *)

\* What is read from a list of documents is a list of links.
LEMMA LinksType ==
    files \in Trees => FlattenSeq([f \in DOMAIN files |-> Links(f)]) \in Seq(LinkOf)
<1> SUFFICES ASSUME files \in Trees
             PROVE  FlattenSeq([f \in DOMAIN files |-> Links(f)]) \in Seq(LinkOf)
    OBVIOUS
<1> DEFINE LineOf == [mark : {"prose", "indented", "fence"}, targets : Seq(Targets)]
<1>1. files \in Seq([name : Nat, lines : Seq(LineOf)])
    BY TreesAssumption
<1>2. \A S : \A q \in Seq(S) : DOMAIN q = 1 .. Len(q) /\ Len(q) \in Nat /\ \A x \in DOMAIN q : q[x] \in S
    OBVIOUS
<1>3. ASSUME NEW f \in DOMAIN files
      PROVE  Links(f) \in Seq(LinkOf)
    <2>1. files[f] \in [name : Nat, lines : Seq(LineOf)]
        BY <1>1, <1>2, Zenon
    <2> DEFINE doc == files[f].lines
    <2>2. files[f].name \in Nat /\ doc \in Seq(LineOf)
        BY <2>1
    <2>3. DOMAIN doc = 1 .. Len(doc) /\ Len(doc) \in Nat /\ \A n \in DOMAIN doc : doc[n] \in LineOf
        BY <1>2, <2>2, Zenon
    <2>4. ASSUME NEW n \in DOMAIN doc
          PROVE  LinksOn(f, n) \in Seq(LinkOf)
        <3> DEFINE targets == doc[n].targets
                   One(k) == IF targets[k] \in URLs
                             THEN <<[file |-> files[f].name, line |-> n, url |-> targets[k]]>> ELSE <<>>
                   all == [k \in DOMAIN targets |-> One(k)]
        <3>1. targets \in Seq(Targets) /\ n \in Nat
            BY <2>3
        <3>2. DOMAIN targets = 1 .. Len(targets) /\ Len(targets) \in Nat
            BY <3>1
        <3>3. ASSUME NEW k \in DOMAIN targets
              PROVE  One(k) \in Seq(LinkOf)
            <4>1. CASE targets[k] \in URLs
                <5>1. [file |-> files[f].name, line |-> n, url |-> targets[k]] \in LinkOf
                    BY <2>2, <3>1, <4>1 DEF LinkOf
                <5>2. QED
                    BY <4>1, <5>1
            <4>2. CASE targets[k] \notin URLs
                BY <4>2
            <4>3. QED
                BY <4>1, <4>2
        <3>4. all \in Seq(Seq(LinkOf))
            BY <3>2, <3>3
        <3>5. LinksOn(f, n) = FlattenSeq(all)
            BY DEF LinksOn
        <3>6. QED
            BY <3>4, <3>5, FlattenSeqType
    <2> DEFINE all == [n \in DOMAIN doc |-> IF Read(doc, n) THEN LinksOn(f, n) ELSE <<>>]
    <2>5. \A n \in DOMAIN doc : all[n] \in Seq(LinkOf)
        BY <2>4
    <2>6. Links(f) = FlattenSeq(all)
        BY DEF Links
    <2> DEFINE len == Len(doc)
    <2>7. all \in Seq(Seq(LinkOf))
        <3>1. all = [n \in 1 .. len |-> all[n]] /\ len \in Nat /\ \A n \in 1 .. len : all[n] \in Seq(LinkOf)
            BY <2>3, <2>5
        <3> HIDE DEF all, len
        <3>2. QED
            BY <3>1
    <2> HIDE DEF all
    <2>8. QED
        BY <2>6, <2>7, FlattenSeqType
<1>4. DOMAIN files = 1 .. Len(files) /\ Len(files) \in Nat
    BY <1>1
<1>5. [f \in DOMAIN files |-> Links(f)] \in Seq(Seq(LinkOf))
    BY <1>3, <1>4
<1> QED
    BY <1>5, FlattenSeqType

-----------------------------------------------------------------------------
(* What is printed, in order                                                 *)

\* One finding comes before another: by the file, by the line, by the place it
\* was found at.
Before(fs, j, k) ==
    \/ fs[j].file < fs[k].file
    \/ fs[j].file = fs[k].file /\ fs[j].line < fs[k].line
    \/ fs[j].file = fs[k].file /\ fs[j].line = fs[k].line /\ j < k

Under(fs, k) == {j \in DOMAIN fs : Before(fs, j, k)}
Rank(fs, k) == Cardinality(Under(fs, k)) + 1

\* Every place has one finding that belongs there.
LEMMA Ranks ==
    ASSUME NEW fs \in Seq(FindingOf)
    PROVE  /\ \A k \in DOMAIN fs : Rank(fs, k) \in DOMAIN fs
           /\ \A j, k \in DOMAIN fs : j # k => Before(fs, j, k) \/ Before(fs, k, j)
           /\ \A j, k \in DOMAIN fs : Before(fs, j, k) => Rank(fs, j) < Rank(fs, k)
           /\ \A r \in DOMAIN fs : \E k \in DOMAIN fs : Rank(fs, k) = r
<1> DEFINE D == DOMAIN fs
           n == Len(fs)
<1>1. n \in Nat /\ D = 1 .. n /\ IsFiniteSet(D) /\ Cardinality(D) = n
    <2>1. n \in Nat /\ D = 1 .. n
        OBVIOUS
    <2> HIDE DEF D, n
    <2>2. IsFiniteSet(1 .. n) /\ Cardinality(1 .. n) = n
        BY <2>1, FS_Interval
    <2>3. QED
        BY <2>1, <2>2
<1>2. \A k \in D : fs[k].file \in Nat /\ fs[k].line \in Nat
    <2>1. \A k \in D : fs[k] \in FindingOf
        OBVIOUS
    <2>2. QED
        BY <2>1 DEF FindingOf
<1> HIDE DEF D, n
<1>3. /\ \A j, k, l \in D : Before(fs, j, k) /\ Before(fs, k, l) => Before(fs, j, l)
      /\ \A k \in D : ~Before(fs, k, k)
      /\ \A j, k \in D : j # k => Before(fs, j, k) \/ Before(fs, k, j)
    <2>1. D \subseteq Nat
        BY <1>1
    <2>2. ASSUME NEW j \in D, NEW k \in D, NEW l \in D, Before(fs, j, k), Before(fs, k, l)
          PROVE  Before(fs, j, l)
        BY <1>2, <2>1, <2>2 DEF Before
    <2>3. ASSUME NEW k \in D
          PROVE  ~Before(fs, k, k)
        BY <1>2, <2>1 DEF Before
    <2>4. ASSUME NEW j \in D, NEW k \in D, j # k
          PROVE  Before(fs, j, k) \/ Before(fs, k, j)
        BY <1>2, <2>1, <2>4 DEF Before
    <2>5. QED
        BY <2>2, <2>3, <2>4
<1>4. ASSUME NEW k \in D
      PROVE  /\ IsFiniteSet(Under(fs, k)) /\ Cardinality(Under(fs, k)) \in Nat
             /\ Rank(fs, k) \in D
    <2>1. Under(fs, k) \subseteq D \ {k}
        BY <1>3 DEF Under, D
    <2>2. IsFiniteSet(D \ {k}) /\ Cardinality(D \ {k}) = n - 1
        BY <1>1, FS_RemoveElement
    <2>3. IsFiniteSet(Under(fs, k)) /\ Cardinality(Under(fs, k)) <= n - 1
        BY <2>1, <2>2, FS_Subset
    <2>4. Cardinality(Under(fs, k)) \in Nat
        BY <2>3, FS_CardinalityType
    <2>5. QED
        BY <1>1, <2>3, <2>4 DEF Rank
<1>5. ASSUME NEW j \in D, NEW k \in D, Before(fs, j, k)
      PROVE  Rank(fs, j) < Rank(fs, k)
    <2>1. Under(fs, j) \cup {j} \subseteq Under(fs, k) /\ j \notin Under(fs, j)
        BY <1>3, <1>5 DEF Under, D
    <2>2. Cardinality(Under(fs, j) \cup {j}) = Cardinality(Under(fs, j)) + 1
        BY <1>4, <2>1, FS_AddElement
    <2>3. Cardinality(Under(fs, j) \cup {j}) <= Cardinality(Under(fs, k))
        BY <1>4, <2>1, FS_Subset
    <2>4. QED
        BY <1>4, <2>2, <2>3 DEF Rank
<1>6. ASSUME NEW r \in D
      PROVE  \E k \in D : Rank(fs, k) = r
    <2> DEFINE f == [k \in D |-> Rank(fs, k)]
    <2>1. f \in [D -> D]
        BY <1>4
    <2>2. ASSUME NEW j \in D, NEW k \in D, j # k
          PROVE  Rank(fs, j) # Rank(fs, k)
        <3>1. Rank(fs, j) < Rank(fs, k) \/ Rank(fs, k) < Rank(fs, j)
            BY <1>3, <1>5, <2>2
        <3>2. Rank(fs, j) \in Int /\ Rank(fs, k) \in Int
            BY <1>1, <1>4
        <3>3. QED
            BY <3>1, <3>2
    <2>3. \A j, k \in D : f[j] = f[k] => j = k
        BY <2>2
    <2>4. f \in Injection(D, D)
        BY <2>1, <2>3, Zenon DEF Injection, IsInjective
    <2>5. f \in Surjection(D, D)
        BY <1>1, <2>4, FS_Injection
    <2>6. \E k \in D : f[k] = r
        BY <2>5, Zenon DEF Surjection
    <2>7. QED
        BY <2>6
<1> QED
    BY <1>3, <1>4, <1>5, <1>6 DEF D

\* Sorting keeps what there is to print, and puts it in order.
LEMMA SortedIs ==
    ASSUME NEW fs \in Seq(FindingOf)
    PROVE  /\ Sorted(fs) \in Seq(FindingOf) /\ Len(Sorted(fs)) = Len(fs)
           /\ ToSet(Sorted(fs)) = ToSet(fs) /\ Ordered(Sorted(fs))
<1> DEFINE D == DOMAIN fs
           n == Len(fs)
           K(r) == CHOOSE k \in D : Rank(fs, k) = r
           s == Sorted(fs)
<1>1. n \in Nat /\ D = 1 .. n /\ \A k \in D : fs[k] \in FindingOf
    OBVIOUS
<1>2. s = [r \in D |-> fs[K(r)]]
    BY DEF Sorted, Rank, Under, Before
<1>3. \A r \in D : K(r) \in D /\ Rank(fs, K(r)) = r
    BY Ranks
<1>4. ASSUME NEW k \in D
      PROVE  Rank(fs, k) \in D /\ K(Rank(fs, k)) = k
    <2>1. Rank(fs, k) \in D
        BY Ranks
    <2> DEFINE j == K(Rank(fs, k))
    <2>2. j \in D /\ Rank(fs, j) = Rank(fs, k)
        BY <1>3, <2>1
    <2> HIDE DEF j
    <2>3. Rank(fs, k) \in Int
        BY <1>1, <2>1
    <2>4. ~(Rank(fs, j) < Rank(fs, k)) /\ ~(Rank(fs, k) < Rank(fs, j))
        BY <2>2, <2>3
    <2>5. ~Before(fs, j, k) /\ ~Before(fs, k, j)
        BY <2>2, <2>4, Ranks
    <2>6. j = k
        BY <2>2, <2>5, Ranks
    <2>7. QED
        BY <2>1, <2>6 DEF j
<1> HIDE DEF K, s
<1>5. DOMAIN s = 1 .. n /\ \A r \in 1 .. n : s[r] = fs[K(r)] /\ s[r] \in FindingOf
    BY <1>1, <1>2, <1>3
<1>6. s = [r \in 1 .. n |-> s[r]]
    BY <1>1, <1>2
<1> HIDE DEF n
<1>7. s \in Seq(FindingOf) /\ Len(s) = n
    BY <1>1, <1>5, <1>6
<1>8. ToSet(s) = ToSet(fs)
    <2>1. \A r \in D : s[r] \in ToSet(fs)
        BY <1>1, <1>3, <1>5 DEF ToSet
    <2>2. \A k \in D : \E r \in D : s[r] = fs[k]
        BY <1>1, <1>4, <1>5
    <2>3. QED
        BY <1>1, <1>5, <2>1, <2>2 DEF ToSet
<1>9. Ordered(s)
    <2> SUFFICES ASSUME NEW i \in D, NEW r \in D, i < r
                 PROVE  \/ s[i].file < s[r].file
                        \/ s[i].file = s[r].file /\ s[i].line <= s[r].line
        BY <1>1, <1>5 DEF Ordered
    <2>1. /\ K(i) \in D /\ K(r) \in D /\ Rank(fs, K(i)) = i /\ Rank(fs, K(r)) = r
          /\ i \in Int /\ r \in Int
        BY <1>1, <1>3
    <2>2. K(i) # K(r) /\ ~(Rank(fs, K(r)) < Rank(fs, K(i)))
        BY <2>1
    <2>3. Before(fs, K(i), K(r))
        <3>1. ~Before(fs, K(r), K(i))
            BY <2>1, <2>2, Ranks
        <3>2. QED
            BY <2>1, <2>2, <3>1, Ranks
    <2>4. s[i] = fs[K(i)] /\ s[r] = fs[K(r)]
        BY <1>1, <1>5
    <2>5. fs[K(i)] \in FindingOf /\ fs[K(r)] \in FindingOf
        BY <1>1, <2>1
    <2>6. QED
        BY <2>3, <2>4, <2>5 DEF Before, FindingOf
<1> QED
    BY <1>7, <1>8, <1>9 DEF s, n

-----------------------------------------------------------------------------
(* The steps                                                                 *)

\* Every answer says one thing, and two of them that nothing is there.
LEMMA Classified ==
    \A a \in Answers : /\ Classify(a) \in Verdicts
                       /\ Classify(a) = "gone" <=> a \in {"absent", "unresolved"}
    BY DEF Answers, Verdicts, Classify

\* What the loop is at is a link.
LEMMA LinkIs ==
    ASSUME Typed, NEW k \in 1 .. Len(links)
    PROVE  /\ links[k] \in LinkOf /\ links[k].url \in URLs
           /\ \A b \in BOOLEAN : Finding(k, b) \in FindingOf
<1>1. links[k] \in LinkOf
    BY DEF Typed
<1> QED
    BY <1>1 DEF LinkOf, FindingOf, Finding

\* An answer is heard by the address that was asked and kept if it is the last.
LEMMA ProbeIs ==
    ASSUME Typed, Placed, Probe
    PROVE  /\ url \in URLs /\ at \in 1 .. Len(links)
           /\ \E a \in Answers :
                 /\ heard'[url] = Append(heard[url], a)
                 /\ \/ /\ Classify(a) = "transient" /\ attempt + 1 < Attempts
                       /\ pc' = "pause" /\ judged' = judged
                    \/ /\ pc' = "count" /\ DOMAIN judged' = DOMAIN judged \cup {url}
                       /\ judged'[url] = Classify(a)
           /\ \A u \in URLs \ {url} : heard'[u] = heard[u]
           /\ \A u \in DOMAIN judged \ {url} : judged'[u] = judged[u]
           /\ heard' \in [URLs -> Seq(Answers)]
           /\ attempt' = attempt + 1
           /\ UNCHANGED <<budget, files, links, at, findings, report, outcome>>
<1>1. at \in 1 .. Len(links)
    BY DEF Typed, Placed, Probe
<1>2. url \in URLs
    BY <1>1, LinkIs DEF url
<1>3. PICK a \in Answers :
         /\ heard' = [heard EXCEPT ![url] = Append(@, a)]
         /\ attempt' = attempt + 1
         /\ IF Classify(a) = "transient" /\ attempt + 1 < Attempts
            THEN pc' = "pause" /\ UNCHANGED judged
            ELSE pc' = "count" /\ Keep(Classify(a))
    BY DEF Probe
<1>4. heard \in [URLs -> Seq(Answers)] /\ Append(heard[url], a) \in Seq(Answers)
    BY <1>2 DEF Typed
<1>5. /\ heard'[url] = Append(heard[url], a) /\ heard' \in [URLs -> Seq(Answers)]
      /\ \A u \in URLs \ {url} : heard'[u] = heard[u]
    BY <1>2, <1>3, <1>4
<1>6. \/ /\ Classify(a) = "transient" /\ attempt + 1 < Attempts
         /\ pc' = "pause" /\ judged' = judged
      \/ pc' = "count" /\ Keep(Classify(a))
    BY <1>3
<1>7. Keep(Classify(a)) => /\ DOMAIN judged' = DOMAIN judged \cup {url}
                           /\ judged'[url] = Classify(a)
                           /\ \A u \in DOMAIN judged \ {url} : judged'[u] = judged[u]
    BY DEF Keep
<1>8. UNCHANGED <<budget, files, links, at, findings, report, outcome>>
    BY DEF Probe, inputVars
<1>9. attempt' = attempt + 1
    BY <1>3
<1> QED
    BY <1>1, <1>2, <1>5, <1>6, <1>7, <1>8, <1>9, Zenon

\* A link is counted once, and printed unless it was reached.
LEMMA CountIs ==
    ASSUME Typed, Placed, Count
    PROVE  /\ at \in 1 .. Len(links) /\ at' = at + 1 /\ pc' = "link"
           /\ UNCHANGED <<budget, files, links, attempt, judged, outcome, heard>>
           /\ \/ judged[url] = "reachable" /\ findings' = findings
              \/ judged[url] \in {"gone", "transient"}
                 /\ findings' = Append(findings, Finding(at, judged[url] = "gone"))
           /\ findings' \in Seq(FindingOf)
<1>1. at \in 1 .. Len(links)
    BY DEF Typed, Placed, Count
<1>2. \A b \in BOOLEAN : Finding(at, b) \in FindingOf
    BY <1>1, LinkIs
<1>3. /\ at' = at + 1 /\ pc' = "link"
      /\ UNCHANGED <<budget, files, links, attempt, judged, outcome, heard>>
    BY DEF Count, inputVars
<1>4. \/ judged[url] = "reachable" /\ findings' = findings
      \/ judged[url] = "gone" /\ findings' = Append(findings, Finding(at, TRUE))
      \/ judged[url] = "transient" /\ findings' = Append(findings, Finding(at, FALSE))
    BY DEF Count, CountReachable, CountGone, CountUnjudged, Found
<1>5. \/ judged[url] = "reachable" /\ findings' = findings
      \/ judged[url] \in {"gone", "transient"}
         /\ findings' = Append(findings, Finding(at, judged[url] = "gone"))
    <2>1. judged[url] = "gone" => (judged[url] = "gone") = TRUE
        BY Zenon
    <2>2. judged[url] = "transient" => (judged[url] = "gone") = FALSE
        OBVIOUS
    <2>3. QED
        BY <1>4, <2>1, <2>2
<1>6. findings' \in Seq(FindingOf)
    <2>1. findings \in Seq(FindingOf) /\ \A e \in FindingOf : Append(findings, e) \in Seq(FindingOf)
        BY DEF Typed
    <2>2. Finding(at, TRUE) \in FindingOf /\ Finding(at, FALSE) \in FindingOf
        BY <1>2
    <2>3. QED
        BY <1>4, <2>1, <2>2
<1> QED
    BY <1>1, <1>3, <1>5, <1>6, Zenon

\* Types, and the place in the list.
LEMMA TypesStay == Inv /\ Next => Typed' /\ Placed'
<1> SUFFICES ASSUME Inv, Next
             PROVE  Typed' /\ Placed'
    OBVIOUS
<1>1. Typed /\ Placed
    BY DEF Inv
<1>2. CASE ListFails
    BY <1>1, <1>2 DEF ListFails, inputVars, loopVars, outVars, Typed, Placed
<1>3. CASE List
    <2>1. (files \in Trees => FlattenSeq([f \in DOMAIN files |-> Links(f)]) \in Seq(LinkOf))'
        BY LinksType, PTL
    <2>2. links' \in Seq(LinkOf)
        BY <1>3, <2>1, Zenon DEF List
    <2>3. pc = "list" /\ pc' = "link" /\ UNCHANGED <<budget, at, attempt, judged, findings, report, outcome, heard>>
        BY <1>3 DEF List, outVars
    <2>4. Len(links') \in Nat
        BY <2>2
    <2>5. QED
        BY <1>1, <2>2, <2>3, <2>4 DEF Typed, Placed
<1>4. CASE Take
    <2>1. /\ pc' \in {"count", "probe"} /\ at <= Len(links) /\ attempt' = 0 /\ pc = "link"
          /\ UNCHANGED <<budget, files, links, at, judged, findings, report, outcome, heard>>
        BY <1>4 DEF Take, inputVars, outVars
    <2>2. QED
        BY <1>1, <2>1 DEF Typed, Placed
<1>5. CASE Probe
    <2>1. PICK a \in Answers :
             \/ pc' = "pause" /\ judged' = judged
             \/ /\ pc' = "count" /\ DOMAIN judged' = DOMAIN judged \cup {url}
                /\ judged'[url] = Classify(a)
        BY <1>1, <1>5, ProbeIs
    <2>2. /\ url \in URLs /\ at \in 1 .. Len(links) /\ \A u \in DOMAIN judged \ {url} : judged'[u] = judged[u]
          /\ heard' \in [URLs -> Seq(Answers)] /\ attempt' = attempt + 1
          /\ UNCHANGED <<budget, files, links, at, findings, report, outcome>>
        BY <1>1, <1>5, ProbeIs
    <2>3. pc = "probe"
        BY <1>5 DEF Probe
    <2>4. DOMAIN judged' \subseteq URLs /\ \A u \in DOMAIN judged' : judged'[u] \in Verdicts
        BY <1>1, <2>1, <2>2, Classified DEF Typed
    <2>5. QED
        BY <1>1, <2>1, <2>2, <2>3, <2>4 DEF Typed, Placed
<1>6. CASE Pause
    BY <1>1, <1>6 DEF Pause, inputVars, loopVars, outVars, Typed, Placed
<1>7. CASE Count
    BY <1>1, <1>7, CountIs DEF Count, Typed, Placed
<1>8. CASE Finish
    <2>1. findings' \in Seq(FindingOf)
        BY <1>1, <1>8, SortedIs DEF Finish, Typed
    <2>2. QED
        BY <1>1, <1>8, <2>1 DEF Finish, inputVars, loopVars, Typed, Placed
<1> QED
    BY <1>2, <1>3, <1>4, <1>5, <1>6, <1>7, <1>8 DEF Next

\* What an address has said is kept, and it is asked no more once it has said
\* something.
LEMMA AsksStay == Inv /\ Next => Asked'
<1> SUFFICES ASSUME Inv, Next
             PROVE  Asked'
    OBVIOUS
<1>1. Typed /\ Placed /\ Asked /\ Typed' /\ Placed'
    BY TypesStay DEF Inv
<1>2. CASE ListFails
    BY <1>1, <1>2 DEF ListFails, inputVars, loopVars, outVars, Placed, Asked, Behind, url
<1>3. CASE List
    <2>1. /\ pc = "list" /\ pc' = "link" /\ at = 1 /\ UNCHANGED <<at, judged, heard>>
        BY <1>1, <1>3 DEF List, outVars, Placed
    <2>2. DOMAIN judged = {} /\ \A u \in URLs : heard[u] = <<>>
        <3>1. Behind = {}
            BY <2>1 DEF Behind
        <3>2. \A u \in DOMAIN judged : (\E k \in Behind : links[k].url = u) \/ (pc = "count" /\ u = url)
            BY <1>1 DEF Asked
        <3>3. \A u \in URLs \ DOMAIN judged : heard[u] = <<>> \/ (pc \in {"probe", "pause"} /\ u = url)
            BY <1>1 DEF Asked
        <3>4. DOMAIN judged = {}
            BY <2>1, <3>1, <3>2
        <3>5. QED
            BY <2>1, <3>3, <3>4
    <2>3. QED
        BY <1>1, <2>1, <2>2 DEF Asked, Behind
<1>4. CASE Take
    <2>1. /\ pc = "link" /\ at <= Len(links) /\ attempt' = 0
          /\ pc' = IF url \in DOMAIN judged THEN "count" ELSE "probe"
          /\ UNCHANGED <<budget, links, at, judged, heard>> /\ url' = url
        BY <1>4 DEF Take, Judged, inputVars, outVars, url
    <2>2. url \in URLs
        BY <1>1, <2>1, LinkIs DEF Typed, url
    <2>3. url \notin DOMAIN judged => heard[url] = <<>>
        BY <1>1, <2>1, <2>2 DEF Asked
    <2>4. 0 < Attempts' /\ Behind' = Behind
        BY <1>1, <2>1 DEF Attempts, Typed, Behind
    <2>5. QED
        BY <1>1, <2>1, <2>3, <2>4 DEF Asked
<1>5. CASE Probe
    <2>1. PICK a \in Answers :
             /\ heard'[url] = Append(heard[url], a)
             /\ \/ /\ Classify(a) = "transient" /\ attempt + 1 < Attempts
                   /\ pc' = "pause" /\ judged' = judged
                \/ /\ pc' = "count" /\ DOMAIN judged' = DOMAIN judged \cup {url}
                   /\ judged'[url] = Classify(a)
        BY <1>1, <1>5, ProbeIs
    <2>2. /\ url \in URLs /\ at \in 1 .. Len(links) /\ attempt' = attempt + 1
          /\ \A u \in URLs \ {url} : heard'[u] = heard[u]
          /\ \A u \in DOMAIN judged \ {url} : judged'[u] = judged[u]
          /\ UNCHANGED <<budget, links, at>>
        BY <1>1, <1>5, ProbeIs
    <2>3. /\ pc = "probe" /\ url' = url /\ Behind' = Behind /\ Attempts' = Attempts
        BY <1>5, <2>2 DEF Probe, url, Behind, Attempts
    <2>4. heard[url] \in Seq(Answers)
        BY <1>1, <2>2 DEF Typed
    <2>5. /\ heard'[url] # <<>> /\ Last(heard'[url]) = a /\ Len(heard'[url]) = Len(heard[url]) + 1
          /\ \A k \in DOMAIN heard'[url] : heard'[url][k] = a \/ (k \in DOMAIN heard[url]
                                                                 /\ heard'[url][k] = heard[url][k])
        BY <2>1, <2>4 DEF Last
    <2>6. /\ url \notin DOMAIN judged /\ Len(heard[url]) = attempt
          /\ \A k \in DOMAIN heard[url] : Classify(heard[url][k]) = "transient"
        BY <1>1, <2>3 DEF Asked
    <2>7. \A u \in DOMAIN judged : u \in URLs \ {url} /\ judged'[u] = judged[u] /\ heard'[u] = heard[u]
        BY <1>1, <2>2, <2>6 DEF Typed
    <2>8. CASE pc' = "pause"
        <3>1. Classify(a) = "transient" /\ attempt' < Attempts' /\ judged' = judged
            BY <2>1, <2>2, <2>3, <2>8
        <3>2. \A k \in DOMAIN heard'[url] : Classify(heard'[url][k]) = "transient"
            BY <2>5, <2>6, <3>1
        <3>3. Len(heard'[url]) = attempt'
            BY <2>2, <2>5, <2>6
        <3>4. \A u \in URLs \ DOMAIN judged' : heard'[u] = <<>> \/ u = url
            BY <1>1, <2>2, <2>3, <3>1 DEF Asked
        <3>5. QED
            BY <1>1, <2>2, <2>3, <2>6, <2>7, <2>8, <3>1, <3>2, <3>3, <3>4 DEF Asked
    <2>9. CASE pc' = "count"
        <3>1. DOMAIN judged' = DOMAIN judged \cup {url} /\ judged'[url] = Classify(a)
            BY <2>1, <2>9
        <3>2. \A u \in URLs \ DOMAIN judged' : heard'[u] = <<>>
            BY <1>1, <2>2, <2>3, <3>1 DEF Asked
        <3>3. \A u \in DOMAIN judged' : heard'[u] # <<>> /\ judged'[u] = Classify(Last(heard'[u]))
            BY <1>1, <2>5, <2>7, <3>1 DEF Asked
        <3>4. /\ \A k \in Behind' : links'[k].url \in DOMAIN judged'
              /\ \A u \in DOMAIN judged' : (\E k \in Behind' : links'[k].url = u) \/ u = url'
            BY <1>1, <2>2, <2>3, <3>1 DEF Asked
        <3>5. QED
            BY <2>3, <2>9, <3>1, <3>2, <3>3, <3>4 DEF Asked
    <2>10. QED
        BY <2>1, <2>8, <2>9
<1>6. CASE Pause
    BY <1>1, <1>6 DEF Pause, inputVars, loopVars, outVars, Asked, Behind, Attempts, url
<1>7. CASE Count
    <2>1. /\ at' = at + 1 /\ pc = "count" /\ pc' = "link" /\ at \in Nat \ {0}
          /\ UNCHANGED <<links, judged, heard>>
        BY <1>1, <1>7, CountIs DEF Count, Typed
    <2>2. Behind' = Behind \cup {at}
        BY <2>1 DEF Behind
    <2>3. QED
        BY <1>1, <2>1, <2>2 DEF Asked, url
<1>8. CASE Finish
    BY <1>1, <1>8 DEF Finish, inputVars, loopVars, Asked, Behind, url
<1> QED
    BY <1>2, <1>3, <1>4, <1>5, <1>6, <1>7, <1>8 DEF Next

\* Numbers that are the sizes of what was counted.
LEMMA SayingFinite ==
    ASSUME at \in Nat \ {0}, NEW v
    PROVE  /\ IsFiniteSet(Saying(v)) /\ Cardinality(Saying(v)) \in Nat /\ at \notin Saying(v)
           /\ IsFiniteSet(Unreached) /\ at \notin Unreached
<1>1. IsFiniteSet(Behind) /\ at \notin Behind
    BY FS_Interval DEF Behind
<1>2. Saying(v) \subseteq Behind /\ Unreached \subseteq Behind
    BY DEF Saying, Unreached
<1>3. IsFiniteSet(Saying(v)) /\ IsFiniteSet(Unreached)
    BY <1>1, <1>2, FS_Subset
<1> QED
    BY <1>1, <1>2, <1>3, FS_CardinalityType

\* What is behind stays as it was judged while the run stays at its link.
LEMMA StillSaying ==
    ASSUME UNCHANGED <<at, links>>, \A k \in Behind : judged'[links[k].url] = judged[links[k].url]
    PROVE  /\ \A v : Saying(v)' = Saying(v)
           /\ Unreached' = Unreached
           /\ {Finding(k, judged[links[k].url] = "gone") : k \in Unreached}'
                  = {Finding(k, judged[links[k].url] = "gone") : k \in Unreached}
<1>1. Behind' = Behind
    BY DEF Behind
<1>2. \A v : Saying(v)' = Saying(v)
    BY <1>1 DEF Saying
<1>3. Unreached' = Unreached /\ Unreached \subseteq Behind
    BY <1>2 DEF Unreached, Saying
<1>4. \A k \in Unreached :
          (Finding(k, judged[links[k].url] = "gone"))' = Finding(k, judged[links[k].url] = "gone")
    BY <1>3 DEF Finding
<1> QED
    BY <1>2, <1>3, <1>4

\* One more link is one more of what its address said, and of nothing else.
LEMMA OneMoreCounted ==
    ASSUME Typed, Placed, Asked, Counted, Count
    PROVE  Counted'
<1>1. /\ at \in 1 .. Len(links) /\ at' = at + 1 /\ pc' = "link" /\ at \in Nat \ {0}
      /\ UNCHANGED <<links, judged, outcome>>
      /\ \/ judged[url] = "reachable" /\ findings' = findings
         \/ judged[url] \in {"gone", "transient"}
            /\ findings' = Append(findings, Finding(at, judged[url] = "gone"))
    BY CountIs DEF Typed
<1>2. Behind' = Behind \cup {at} /\ at \notin Behind
    BY <1>1 DEF Behind
<1>3. \A v : Saying(v)' = IF judged[url] = v THEN Saying(v) \cup {at} ELSE Saying(v)
    BY <1>1, <1>2 DEF Saying, url
<1>4. \A v : Cardinality(Saying(v)') = IF judged[url] = v THEN Cardinality(Saying(v)) + 1
                                        ELSE Cardinality(Saying(v))
    BY <1>1, <1>3, SayingFinite, FS_AddElement
<1>5. report' = [reachable |-> Cardinality(Saying("reachable")'),
                 gone |-> Cardinality(Saying("gone")'),
                 unjudged |-> Cardinality(Saying("transient")')]
    <2>1. report = [reachable |-> Cardinality(Saying("reachable")),
                    gone |-> Cardinality(Saying("gone")),
                    unjudged |-> Cardinality(Saying("transient"))]
        BY DEF Counted
    <2>2. CASE CountReachable
        BY <1>4, <2>1, <2>2 DEF CountReachable
    <2>3. CASE CountGone
        BY <1>4, <2>1, <2>3 DEF CountGone
    <2>4. CASE CountUnjudged
        BY <1>4, <2>1, <2>4 DEF CountUnjudged
    <2>5. QED
        BY <2>2, <2>3, <2>4 DEF Count
<1>6. Unreached' = IF judged[url] \in {"gone", "transient"} THEN Unreached \cup {at} ELSE Unreached
    BY <1>3 DEF Unreached
<1> DEFINE F(k) == Finding(k, judged[links[k].url] = "gone")
<1>7. \A k : F(k)' = F(k)
    BY <1>1 DEF Finding
<1>8. /\ Len(findings) = Cardinality(Unreached) /\ ToSet(findings) = {F(k) : k \in Unreached}
      /\ findings \in Seq(FindingOf)
    BY DEF Counted, Typed
<1>9. Len(findings') = Cardinality(Unreached') /\ ToSet(findings') = {F(k)' : k \in Unreached'}
    <2>1. CASE judged[url] = "reachable" /\ findings' = findings
        <3>1. Unreached' = Unreached
            BY <1>6, <2>1
        <3>2. QED
            BY <1>7, <1>8, <2>1, <3>1
    <2>2. CASE judged[url] \in {"gone", "transient"} /\ findings' = Append(findings, F(at))
        <3>1. Unreached' = Unreached \cup {at}
            BY <1>6, <2>2
        <3>2. Cardinality(Unreached') = Cardinality(Unreached) + 1
            BY <1>1, <3>1, SayingFinite, FS_AddElement
        <3> DEFINE e == F(at)
        <3>3. findings' = Append(findings, e)
            BY <2>2
        <3>4. {F(k)' : k \in Unreached'} = {F(k) : k \in Unreached} \cup {e}
            BY <1>7, <3>1
        <3> HIDE DEF e, F
        <3>5. \A S, x : \A q \in Seq(S) : /\ Len(Append(q, x)) = Len(q) + 1
                                          /\ ToSet(Append(q, x)) = ToSet(q) \cup {x}
            BY DEF ToSet
        <3>6. QED
            BY <1>8, <3>2, <3>3, <3>4, <3>5
    <2>3. QED
        BY <1>1, <2>1, <2>2 DEF url
<1>10. outcome' \notin {"green", "red"}
    BY <1>1 DEF Placed, Count
<1> QED
    BY <1>5, <1>9, <1>10 DEF Counted

\* The numbers and the findings are those of the links behind.
LEMMA CountsStay == Inv /\ Next => Counted'
<1> SUFFICES ASSUME Inv, Next
             PROVE  Counted'
    OBVIOUS
<1>1. Typed /\ Placed /\ Asked /\ Counted
    BY DEF Inv
<1>2. ASSUME UNCHANGED <<at, links, findings, report>>,
             \A k \in Behind : judged'[links[k].url] = judged[links[k].url],
             outcome' \notin {"green", "red"}
      PROVE  Counted'
    <2>1. /\ \A v : Saying(v)' = Saying(v)
          /\ Unreached' = Unreached
          /\ {Finding(k, judged[links[k].url] = "gone") : k \in Unreached}'
                 = {Finding(k, judged[links[k].url] = "gone") : k \in Unreached}
        BY <1>2, StillSaying
    <2>2. QED
        BY <1>1, <1>2, <2>1 DEF Counted
<1>3. CASE ListFails
    BY <1>2, <1>3 DEF ListFails, loopVars, outVars
<1>4. CASE List
    <2>1. at = 1 /\ at' = 1 /\ UNCHANGED <<findings, report, judged>> /\ outcome' = "none"
        BY <1>1, <1>4 DEF List, outVars, Placed
    <2>2. Behind = {} /\ Behind' = {}
        BY <2>1 DEF Behind
    <2>3. \A v : Saying(v)' = {} /\ Saying(v) = {}
        BY <2>2 DEF Saying
    <2>4. Unreached' = {} /\ Unreached = {}
        BY <2>3 DEF Unreached
    <2>5. QED
        BY <1>1, <2>1, <2>3, <2>4 DEF Counted
<1>5. CASE Take
    BY <1>1, <1>2, <1>5 DEF Take, outVars, Placed
<1>6. CASE Probe
    <2>1. /\ \A u \in DOMAIN judged \ {url} : judged'[u] = judged[u]
          /\ UNCHANGED <<links, at, findings, report, outcome>>
        BY <1>1, <1>6, ProbeIs
    <2>2. pc = "probe" /\ url \notin DOMAIN judged
        BY <1>1, <1>6 DEF Probe, Asked
    <2>3. \A k \in Behind : links[k].url \in DOMAIN judged
        BY <1>1 DEF Asked
    <2>4. QED
        BY <1>1, <1>2, <2>1, <2>2, <2>3 DEF Placed
<1>7. CASE Pause
    BY <1>1, <1>2, <1>7 DEF Pause, loopVars, outVars, Placed
<1>8. CASE Count
    BY <1>1, <1>8, OneMoreCounted
<1>9. CASE Finish
    <2>1. /\ findings' = Sorted(findings) /\ UNCHANGED <<at, links, judged, report>>
          /\ outcome' = IF \E k \in DOMAIN findings : findings[k].refused THEN "red" ELSE "green"
        BY <1>9 DEF Finish, loopVars
    <2>2. findings \in Seq(FindingOf)
        BY <1>1 DEF Typed
    <2>3. /\ Len(findings') = Len(findings) /\ ToSet(findings') = ToSet(findings)
          /\ Ordered(findings')
        BY <2>1, <2>2, SortedIs
    <2>4. /\ \A v : Saying(v)' = Saying(v)
          /\ Unreached' = Unreached
          /\ {Finding(k, judged[links[k].url] = "gone") : k \in Unreached}'
                 = {Finding(k, judged[links[k].url] = "gone") : k \in Unreached}
        BY <2>1, StillSaying
    <2>5. (\E k \in DOMAIN findings' : findings'[k].refused)
              <=> \E k \in DOMAIN findings : findings[k].refused
        <3>1. \A s : (\E k \in DOMAIN s : s[k].refused) <=> \E e \in ToSet(s) : e.refused
            BY DEF ToSet
        <3>2. QED
            BY <2>3, <3>1, Zenon
    <2>6. outcome' = "red" <=> \E k \in DOMAIN findings' : findings'[k].refused
        BY <2>1, <2>5
    <2>7. Ordered(findings)'
        BY <2>3 DEF Ordered
    <2>8. QED
        BY <1>1, <2>1, <2>3, <2>4, <2>6, <2>7 DEF Counted
<1> QED
    BY <1>3, <1>4, <1>5, <1>6, <1>7, <1>8, <1>9 DEF Next

\* Whatever the other end answers, the run keeps its count.
LEMMA InvInductive == Spec => []Inv
<1>1. Init => Inv
    <2> SUFFICES ASSUME Init
                 PROVE  Inv
        OBVIOUS
    <2>1. Typed
        BY BudgetsAssumption DEF Init, Typed, Nothing
    <2>2. Placed
        BY DEF Init, Placed
    <2>3. Behind = {} /\ DOMAIN judged = {}
        BY DEF Init, Behind, Nothing
    <2>4. Asked
        BY <2>3 DEF Init, Asked
    <2>5. \A v : Saying(v) = {}
        BY <2>3 DEF Saying
    <2>6. Unreached = {}
        BY <2>5 DEF Unreached
    <2>7. Counted
        <3>1. Cardinality({}) = 0
            BY FS_EmptySet
        <3>2. /\ report = [reachable |-> 0, gone |-> 0, unjudged |-> 0]
              /\ Len(findings) = 0 /\ ToSet(findings) = {} /\ outcome = "none"
            BY DEF Init, ToSet
        <3>3. {Finding(k, judged[links[k].url] = "gone") : k \in Unreached} = {}
            BY <2>6
        <3>4. /\ report = [reachable |-> Cardinality(Saying("reachable")),
                           gone |-> Cardinality(Saying("gone")),
                           unjudged |-> Cardinality(Saying("transient"))]
              /\ Len(findings) = Cardinality(Unreached)
            BY <2>5, <2>6, <3>1, <3>2
        <3>5. QED
            BY <3>2, <3>3, <3>4 DEF Counted
    <2>8. QED
        BY <2>1, <2>2, <2>4, <2>7 DEF Inv
<1>2. Inv /\ UNCHANGED vars => Inv'
    <2> SUFFICES ASSUME Inv, UNCHANGED vars
                 PROVE  Inv'
        OBVIOUS
    <2>1. UNCHANGED <<budget, pc, links, at, attempt, judged, findings, report, outcome, heard>>
        BY DEF vars, inputVars, loopVars, outVars
    <2>2. Typed' /\ Placed' /\ Asked'
        BY <2>1 DEF Inv, Typed, Placed, Asked, Behind, Attempts, url
    <2>3. /\ \A v : Saying(v)' = Saying(v)
          /\ Unreached' = Unreached
          /\ {Finding(k, judged[links[k].url] = "gone") : k \in Unreached}'
                 = {Finding(k, judged[links[k].url] = "gone") : k \in Unreached}
        BY <2>1, StillSaying
    <2>4. Counted'
        BY <2>1, <2>3 DEF Inv, Counted, Ordered
    <2>5. QED
        BY <2>2, <2>4 DEF Inv
<1>3. Inv /\ [Next]_vars => Inv'
    BY <1>2, TypesStay, AsksStay, CountsStay DEF Inv
<1> QED
    BY <1>1, <1>3, PTL DEF Spec

-----------------------------------------------------------------------------

\* For any documents: an address is asked within the attempts, not after it has
\* said something, and not again for another document.
THEOREM NothingIsAskedInVain == Spec => NeverAsksInVain
<1>1. ASSUME Inv, Next, NEW u \in URLs, heard'[u] # heard[u]
      PROVE  /\ Len(heard'[u]) <= Attempts
             /\ u \notin DOMAIN judged
             /\ \A k \in DOMAIN heard[u] : Classify(heard[u][k]) = "transient"
    <2>1. Typed /\ Placed /\ Asked
        BY <1>1 DEF Inv
    <2>2. Probe
        BY <1>1 DEF Next, ListFails, List, Take, Pause, Count, Finish
    <2>3. pc = "probe"
        BY <2>2 DEF Probe
    <2>4. /\ u = url /\ url \in URLs
          /\ \E a \in Answers : heard'[url] = Append(heard[url], a)
        BY <1>1, <2>1, <2>2, ProbeIs
    <2>5. heard[url] \in Seq(Answers)
        BY <2>1, <2>4 DEF Typed
    <2>6. Len(heard'[url]) = Len(heard[url]) + 1
        BY <2>4, <2>5
    <2>7. /\ url \notin DOMAIN judged /\ Len(heard[url]) = attempt /\ attempt < Attempts
          /\ \A k \in DOMAIN heard[url] : Classify(heard[url][k]) = "transient"
        BY <2>1, <2>3 DEF Asked
    <2>8. attempt \in Nat /\ Attempts \in Int
        BY <2>1 DEF Typed, Attempts
    <2>9. QED
        BY <2>4, <2>6, <2>7, <2>8
<1>2. Inv /\ [Next]_vars =>
          [\A u \in URLs : heard'[u] # heard[u] =>
              /\ Len(heard'[u]) <= Attempts
              /\ u \notin DOMAIN judged
              /\ \A k \in DOMAIN heard[u] : Classify(heard[u][k]) = "transient"]_vars
    BY <1>1
<1> QED
    BY <1>2, InvInductive, PTL DEF Spec, NeverAsksInVain

\* An address is told to be gone just when it was judged so.
LEMMA ToldIs ==
    ASSUME Inv, NEW u \in DOMAIN judged
    PROVE  Told(u) <=> judged[u] = "gone"
<1>1. heard[u] # <<>> /\ judged[u] = Classify(Last(heard[u])) /\ heard[u] \in Seq(Answers)
    BY DEF Inv, Asked, Typed
<1>2. Last(heard[u]) \in Answers
    BY <1>1 DEF Last
<1> QED
    BY <1>1, <1>2, Classified DEF Told

\* For any answers in any order: a run that ends is red if and only if some
\* address it pointed at said that it is not there.
THEOREM RedIsOnlyOnItsWord == Spec => []RedOnlyOnItsWord
<1>1. Inv => RedOnlyOnItsWord
    <2> SUFFICES ASSUME Inv, outcome \in {"green", "red"}
                 PROVE  outcome = "red" <=> \E u \in URLs : Told(u)
        BY DEF RedOnlyOnItsWord
    <2>1. Typed /\ Placed /\ Asked /\ Counted /\ pc = "done"
        BY DEF Inv, Placed
    <2>2. outcome = "red" <=> \E e \in ToSet(findings) : e.refused
        BY <2>1 DEF Counted, ToSet
    <2>3. (\E e \in ToSet(findings) : e.refused) <=> \E k \in Behind : judged[links[k].url] = "gone"
        <3>1. ToSet(findings) = {Finding(k, judged[links[k].url] = "gone") : k \in Unreached}
            BY <2>1 DEF Counted
        <3>2. \A k : Finding(k, judged[links[k].url] = "gone").refused <=> judged[links[k].url] = "gone"
            BY Zenon DEF Finding
        <3>3. (\E e \in ToSet(findings) : e.refused) <=> \E k \in Unreached : judged[links[k].url] = "gone"
            BY <3>1, <3>2
        <3>4. QED
            BY <3>3 DEF Unreached, Saying
    <2>4. (\E k \in Behind : judged[links[k].url] = "gone") <=> \E u \in DOMAIN judged : judged[u] = "gone"
        BY <2>1 DEF Asked
    <2>5. \A u \in URLs \ DOMAIN judged : ~Told(u)
        BY <2>1 DEF Asked, Told
    <2>6. QED
        BY <2>1, <2>2, <2>3, <2>4, <2>5, ToldIs DEF Typed
<1> QED
    BY <1>1, InvInductive, PTL

\* For any documents: the numbers add up to the links behind, and what is printed
\* is those that were not reached, in order.
THEOREM LinksAreAlwaysAccounted == Spec => []Accounted
<1>1. Inv => Accounted
    <2> SUFFICES ASSUME Inv
                 PROVE  Accounted
        OBVIOUS
    <2> DEFINE Said(v) == {k \in Behind : Classify(Last(heard[links[k].url])) = v}
               all == Said("gone") \cup Said("transient")
    <2>1. Typed /\ Placed /\ Asked /\ Counted
        BY DEF Inv
    <2>2. \A k \in Behind : /\ links[k].url \in DOMAIN judged
                            /\ Classify(Last(heard[links[k].url])) = judged[links[k].url]
                            /\ Told(links[k].url) <=> judged[links[k].url] = "gone"
        BY <2>1, ToldIs DEF Asked
    <2>3. \A v : Said(v) = Saying(v)
        BY <2>2 DEF Saying
    <2>4. all = Unreached /\ Unreached \subseteq Behind
        BY <2>3 DEF Unreached, Saying
    <2>5. \A k \in Unreached : Finding(k, Told(links[k].url)) = Finding(k, judged[links[k].url] = "gone")
        <3>1. \A k \in Unreached : Told(links[k].url) = (judged[links[k].url] = "gone")
            BY <2>2, <2>4, Zenon DEF Told
        <3>2. QED
            BY <3>1, Zenon
    <2>6. {Finding(k, Told(links[k].url)) : k \in all}
              = {Finding(k, judged[links[k].url] = "gone") : k \in Unreached}
        BY <2>4, <2>5
    <2> HIDE DEF all, Said
    <2>7. /\ report = [reachable |-> Cardinality(Said("reachable")), gone |-> Cardinality(Said("gone")),
                       unjudged |-> Cardinality(Said("transient"))]
          /\ Len(findings) = Cardinality(all)
          /\ ToSet(findings) = {Finding(k, Told(links[k].url)) : k \in all}
        BY <2>1, <2>3, <2>4, <2>6 DEF Counted
    <2>8. outcome \in {"green", "red"} =>
              \A j, k \in DOMAIN findings : j < k =>
                  \/ findings[j].file < findings[k].file
                  \/ findings[j].file = findings[k].file /\ findings[j].line <= findings[k].line
        BY <2>1 DEF Counted, Ordered
    <2>9. QED
        BY <2>7, <2>8, Zenon DEF Accounted, all, Said
<1> QED
    BY <1>1, InvInductive, PTL

=============================================================================
