---------------------------- MODULE JobListProofs ----------------------------
(***************************************************************************)
(* Proofs about JobList.                                                   *)
(*                                                                         *)
(* While an operation is under way its pointers spell neither the lists of *)
(* before nor those of after, so the invariant speaks of the statements    *)
(* that are left (Ongoing): from the memory as it is they lead, one after  *)
(* the other, to a memory that spells queue and results, and on the way    *)
(* each uses only places that are there (Does) and leaves only what        *)
(* SIGTERM may find (Seen).  A statement is then the head of that plan,    *)
(* and the work is in the beginning of an operation, whose plan is made    *)
(* from the lists as they are: a Chain is a list as the pointers spell it, *)
(* Sound says that both are there and have no job in common, and the       *)
(* lemmas about Sound and Stage say what unlinking, linking behind the     *)
(* last one, exchanging and destroying do to the two.                      *)
(***************************************************************************)
EXTENDS JobList, ListLemmas, FiniteSetTheorems

Pointers == JobIds \cup {NULL, Garbage}

(* Where a list in m ends.                                                 *)
Nowhere == {NULL, Garbage}

(* The pointers of memory m lead from a[1] over jobs of the set made to    *)
(* the last element of a, where they end.                                  *)
Chain(m, made, a) ==
    /\ a \in Seq(Pointers) /\ Len(a) # 0
    /\ \A n \in 1 .. (Len(a) - 1) : a[n] \in made /\ m[N(a[n])] = a[n + 1]
    /\ a[Len(a)] \in Nowhere

(* Such a list begins in head.                                             *)
Spelled(m, made, head, a) == Chain(m, made, a) /\ m[head] = a[1]

-----------------------------------------------------------------------------
(* The places of memory are different from each other.                     *)
LEMMA CellFacts ==
    /\ {FIRST, FINISHED, TMP} \subseteq Cells
    /\ \A j \in JobIds : N(j) \in Cells /\ N(j) \notin {FIRST, FINISHED, TMP}
    /\ \A i, j \in JobIds : N(i) = N(j) => i = j
    /\ FIRST # FINISHED /\ FIRST # TMP /\ FINISHED # TMP
    /\ NULL \notin JobIds /\ Garbage \notin JobIds /\ NULL # Garbage
  <1>1. JobIdBound \in Nat
    BY ListAssumption
  <1>2. NULL \notin JobIds /\ Garbage \notin JobIds /\ NULL # Garbage
    BY <1>1 DEF NULL, Garbage, JobIds
  <1>3. FIRST # FINISHED /\ FIRST # TMP /\ FINISHED # TMP
    BY DEF FIRST, FINISHED, TMP
  <1>4. \A j : N(j) \notin {FIRST, FINISHED, TMP}
    BY DEF FIRST, FINISHED, TMP, N
  <1>5. \A i, j : N(i) = N(j) => i = j
    BY DEF N
  <1>. QED  BY <1>2, <1>3, <1>4, <1>5 DEF Cells

(* What a chain is made of.                                                *)
LEMMA ChainFacts ==
    ASSUME NEW m, NEW made, made \subseteq JobIds, NEW a, Chain(m, made, a)
    PROVE  /\ Len(a) \in Nat \ {0} /\ DOMAIN a = 1 .. Len(a)
           /\ a \in [1 .. Len(a) -> Pointers]
           /\ \A n \in 1 .. (Len(a) - 1) : a[n] \in JobIds
           /\ a[Len(a)] \notin JobIds
  <1>1. a \in Seq(Pointers) /\ Len(a) # 0
    BY DEF Chain
  <1>2. Len(a) \in Nat /\ DOMAIN a = 1 .. Len(a) /\ a \in [1 .. Len(a) -> Pointers]
    BY <1>1, LenProperties
  <1>. QED  BY <1>1, <1>2, CellFacts DEF Chain, Nowhere

(* A list that comes to an end meets no job twice.                         *)
LEMMA ChainOnce ==
    ASSUME NEW m, NEW made, made \subseteq JobIds, NEW a, Chain(m, made, a)
    PROVE  \A i, j \in 1 .. Len(a) : a[i] = a[j] => i = j
  <1>0. /\ Len(a) \in Nat \ {0}
        /\ \A n \in 1 .. (Len(a) - 1) : a[n] \in JobIds
        /\ a[Len(a)] \notin JobIds
    BY ChainFacts
  <1>1. SUFFICES ASSUME NEW i \in 1 .. Len(a), NEW j \in 1 .. Len(a), i < j,
                        a[i] = a[j]
                 PROVE  FALSE
    BY <1>0
  <1> DEFINE T == {d \in 0 .. (Len(a) - j) : a[i + d] # a[j + d]}
  <1>2. Len(a) - j \in T
    <2>1. i + (Len(a) - j) \in 1 .. (Len(a) - 1) /\ j + (Len(a) - j) = Len(a)
          /\ Len(a) - j \in 0 .. (Len(a) - j)
      BY <1>0, <1>1
    <2>. QED  BY <1>0, <2>1
  <1>3. T \subseteq Nat
    BY <1>0
  <1>4. PICK d \in T : \A e \in T : d <= e
    BY <1>2, <1>3, LeastOf
  <1>5. d \in 0 .. (Len(a) - j) /\ a[i + d] # a[j + d]
    BY <1>4
  <1>6. d # 0
    BY <1>0, <1>1, <1>5
  <1>7. d - 1 \in 0 .. (Len(a) - j) /\ ~(d <= d - 1)
    BY <1>0, <1>5, <1>6
  <1>8. a[i + (d - 1)] = a[j + (d - 1)]
    BY <1>4, <1>7
  <1>9. /\ i + (d - 1) \in 1 .. (Len(a) - 1) /\ j + (d - 1) \in 1 .. (Len(a) - 1)
        /\ (i + (d - 1)) + 1 = i + d /\ (j + (d - 1)) + 1 = j + d
    BY <1>0, <1>1, <1>5, <1>6
  <1>10. /\ m[N(a[i + (d - 1)])] = a[i + d]
         /\ m[N(a[j + (d - 1)])] = a[j + d]
    BY <1>9 DEF Chain
  <1>. QED  BY <1>5, <1>8, <1>10

(* It is no longer than there are jobs.                                    *)
LEMMA ChainBounded ==
    ASSUME NEW m, NEW made, made \subseteq JobIds, NEW a, Chain(m, made, a)
    PROVE  Len(a) <= JobIdBound + 1
  <1>0. /\ Len(a) \in Nat \ {0} /\ JobIdBound \in Nat
        /\ \A n \in 1 .. (Len(a) - 1) : a[n] \in JobIds
        /\ \A i, j \in 1 .. Len(a) : a[i] = a[j] => i = j
    BY ChainFacts, ChainOnce, ListAssumption
  <1>1. SUFFICES ASSUME JobIdBound < Len(a) - 1 PROVE FALSE
    BY <1>0
  <1> DEFINE S == 1 .. (Len(a) - 1)
             f == [n \in S |-> a[n]]
  <1>2. IsFiniteSet(S) /\ Cardinality(S) = Len(a) - 1
    <2>1. Len(a) - 1 \in Int /\ 1 \in Int
      BY <1>0
    <2>2. /\ IsFiniteSet(S)
          /\ Cardinality(S) = IF 1 > Len(a) - 1 THEN 0 ELSE Len(a) - 1 - 1 + 1
      BY <2>1, FS_Interval
    <2>. QED  BY <1>0, <2>2
  <1>3. IsFiniteSet(JobIds) /\ Cardinality(JobIds) = JobIdBound
    <2>1. JobIdBound - 1 \in Int /\ 0 \in Int
      BY <1>0
    <2>2. /\ IsFiniteSet(JobIds)
          /\ Cardinality(JobIds) = IF 0 > JobIdBound - 1 THEN 0
                                   ELSE JobIdBound - 1 - 0 + 1
      BY <2>1, FS_Interval DEF JobIds
    <2>. QED  BY <1>0, <2>2
  <1>4. f \in [S -> JobIds]
    BY <1>0
  <1>5. \E x, y \in S : x # y /\ f[x] = f[y]
    <2> HIDE DEF S, f
    <2>. QED  BY <1>1, <1>2, <1>3, <1>4, FS_PigeonHole
  <1>. QED  BY <1>0, <1>5

(* The jobs that have been made and not freed.                             *)
Made == {j \in JobIds : job[j] = "made"}

(* findjob and joblist_dump: what a walk meets is the list.                *)
LEMMA WalkIs ==
    ASSUME NEW a, Chain(mem, Made, a)
    PROVE  Walk(a[1]) = a
  <1>0. /\ Len(a) \in Nat \ {0} /\ JobIdBound \in Nat /\ Made \subseteq JobIds
        /\ \A n \in 1 .. (Len(a) - 1) : a[n] \in JobIds
        /\ a[Len(a)] \notin JobIds
        /\ a \in Seq(Pointers) /\ Len(a) <= JobIdBound + 1
        /\ \A n \in 1 .. (Len(a) - 1) : a[n] \in Made /\ mem[N(a[n])] = a[n + 1]
    BY ChainFacts, ChainBounded, ListAssumption DEF Chain, Made
  <1> DEFINE Met(n) == IF n + 1 <= Len(a) THEN n + 1 ELSE Len(a)
             D == 0 .. (JobIdBound + 1)
             Going(s) == Last(s) \in JobIds /\ job[Last(s)] = "made"
             Further(s) == IF Going(s) THEN Append(s, mem[N(Last(s))]) ELSE s
             IsPath(f) == f = [n \in D |-> IF n = 0 THEN <<a[1]>>
                                           ELSE Further(f[n - 1])]
             g == [n \in D |-> SubSeq(a, 1, Met(n))]
  <1>1. \A n \in Nat : Met(n) \in 1 .. Len(a)
    BY <1>0
  <1>2. ASSUME NEW k \in 1 .. Len(a)
        PROVE  /\ SubSeq(a, 1, k) \in Seq(Pointers) /\ Len(SubSeq(a, 1, k)) = k
               /\ \A n \in 1 .. k : SubSeq(a, 1, k)[n] = a[n]
               /\ Last(SubSeq(a, 1, k)) = a[k]
    <2>1. \A n \in 1 .. k : a[n] \in Pointers
      BY <1>0, ElementOfSeq
    <2>2. /\ SubSeq(a, 1, k) \in Seq(Pointers) /\ Len(SubSeq(a, 1, k)) = k
          /\ \A n \in 1 .. k : SubSeq(a, 1, k)[n] = a[n]
      BY <1>0, <2>1, SubSeqProperties, 1 \in Int, k \in Int
    <2>. QED  BY <2>2 DEF Last
  <1>3. SubSeq(a, 1, 1) = <<a[1]>>
    <2>1. a[1] \in Pointers
      BY <1>0, ElementOfSeq
    <2>2. <<a[1]>> \in Seq(Pointers) /\ Len(<<a[1]>>) = 1 /\ <<a[1]>>[1] = a[1]
      BY <2>1
    <2>3. PICK s : s = <<a[1]>>
      OBVIOUS
    <2>4. s \in Seq(Pointers) /\ Len(s) = 1 /\ s[1] = a[1]
      BY <2>2, <2>3
    <2>5. 1 \in 1 .. Len(a)
      BY <1>0
    <2>6. PICK t : t = SubSeq(a, 1, 1)
      OBVIOUS
    <2>9. t \in Seq(Pointers) /\ Len(t) = 1 /\ \A n \in 1 .. 1 : t[n] = a[n]
      BY <1>2, <2>5, <2>6
    <2>7. \A i \in 1 .. Len(s) : s[i] = t[i]
      BY <2>4, <2>9
    <2>8. s = t
      BY <2>4, <2>9, <2>7, SeqEqual
    <2>. QED  BY <2>3, <2>6, <2>8
  <1>4. ASSUME NEW k \in 1 .. (Len(a) - 1)
        PROVE  SubSeq(a, 1, k + 1) = Append(SubSeq(a, 1, k), a[k + 1])
    <2>1. a[k + 1] \in Pointers /\ k + 1 \in 1 .. Len(a) /\ k \in 1 .. Len(a)
      BY <1>0, ElementOfSeq
    <2>2. PICK s \in Seq(Pointers) : s = SubSeq(a, 1, k)
      BY <1>2, <2>1
    <2>3. Len(s) = k /\ \A n \in 1 .. k : s[n] = a[n]
      BY <1>2, <2>1, <2>2
    <2>4. /\ Append(s, a[k + 1]) \in Seq(Pointers)
          /\ Len(Append(s, a[k + 1])) = k + 1
          /\ \A n \in 1 .. (k + 1) : Append(s, a[k + 1])[n] = a[n]
      BY <2>1, <2>3, AppendProperties
    <2>. QED  BY <1>2, <2>1, <2>2, <2>4, SeqEqual
  <1>5. ASSUME NEW n \in D, n # 0
        PROVE  SubSeq(a, 1, Met(n)) = Further(SubSeq(a, 1, Met(n - 1)))
    <2>1. PICK k \in 1 .. Len(a) : k = Met(n - 1)
      BY <1>0, <1>1, <1>5
    <2>2. Last(SubSeq(a, 1, k)) = a[k]
      BY <1>2
    <2>3. CASE k < Len(a)
      <3>1. Met(n) = k + 1 /\ k \in 1 .. (Len(a) - 1)
        BY <1>0, <1>5, <2>1, <2>3
      <3>2. a[k] \in JobIds /\ job[a[k]] = "made" /\ mem[N(a[k])] = a[k + 1]
        BY <1>0, <3>1 DEF Made
      <3>3. SubSeq(a, 1, k + 1) = Append(SubSeq(a, 1, k), a[k + 1])
        BY <1>4, <3>1
      <3>. QED  BY <2>1, <2>2, <3>1, <3>2, <3>3
    <2>4. CASE k = Len(a)
      <3>1. Met(n) = k
        BY <1>0, <1>5, <2>1, <2>4
      <3>. QED  BY <1>0, <2>1, <2>2, <2>4, <3>1
    <2>. QED  BY <1>0, <2>3, <2>4
  <1>6. IsPath(g)
    <2>1. ASSUME NEW n \in D
          PROVE  SubSeq(a, 1, Met(n)) = IF n = 0 THEN <<a[1]>> ELSE Further(g[n - 1])
      <3>1. CASE n = 0
        BY <1>0, <1>3, <3>1
      <3>2. CASE n # 0
        <4>1. n - 1 \in D
          BY <1>0, <3>2
        <4>2. g[n - 1] = SubSeq(a, 1, Met(n - 1))
          BY <4>1
        <4> HIDE DEF g, Further, Met
        <4>. QED  BY <1>5, <3>2, <4>2
      <3>. QED  BY <3>1, <3>2
    <2> HIDE DEF Met, Further
    <2>. QED  BY <2>1
  <1>7. ASSUME NEW f, IsPath(f)
        PROVE  f[JobIdBound + 1] = a
    <2> DEFINE T == {n \in D : f[n] # SubSeq(a, 1, Met(n))}
    <2> HIDE DEF Further, Met
    <2>1. T = {}
      <3>1. SUFFICES ASSUME T # {} PROVE FALSE
        OBVIOUS
      <3>2. T \subseteq Nat
        BY <1>0
      <3>3. PICK n \in T : \A k \in T : n <= k
        BY <3>1, <3>2, LeastOf
      <3>4. n \in D /\ f[n] # SubSeq(a, 1, Met(n))
        BY <3>3
      <3>5. n # 0
        <4>1. Met(0) = 1
          BY <1>0 DEF Met
        <4>2. 0 \in D
          BY <1>0
        <4>. QED  BY <1>3, <1>7, <3>4, <4>1, <4>2
      <3>6. n - 1 \in D /\ ~(n <= n - 1)
        BY <1>0, <3>4, <3>5
      <3>7. f[n - 1] = SubSeq(a, 1, Met(n - 1))
        BY <3>3, <3>6
      <3>8. f[n] = Further(f[n - 1])
        BY <1>7, <3>4, <3>5
      <3>. QED  BY <1>5, <3>4, <3>5, <3>7, <3>8
    <2>2. JobIdBound + 1 \in D /\ Met(JobIdBound + 1) = Len(a)
      BY <1>0 DEF Met
    <2>3. f[JobIdBound + 1] = SubSeq(a, 1, Len(a))
      BY <2>1, <2>2
    <2>4. SubSeq(a, 1, Len(a)) = a
      <3>1. Len(a) \in 1 .. Len(a)
        BY <1>0
      <3>. QED  BY <1>0, <1>2, <3>1, SeqEqual
    <2>. QED  BY <2>3, <2>4
  <1>8. Walk(a[1]) = (CHOOSE f : IsPath(f))[JobIdBound + 1]
    BY DEF Walk
  <1> HIDE DEF IsPath, g
  <1>. QED  BY <1>6, <1>7, <1>8

(* The end of a list is a list.                                            *)
LEMMA SubChain ==
    ASSUME NEW m, NEW made, made \subseteq JobIds, NEW a, Chain(m, made, a),
           NEW k \in 1 .. Len(a)
    PROVE  /\ Chain(m, made, SubSeq(a, k, Len(a)))
           /\ Len(SubSeq(a, k, Len(a))) = Len(a) - k + 1
           /\ \A n \in 1 .. (Len(a) - k + 1) : SubSeq(a, k, Len(a))[n] = a[k + n - 1]
  <1>0. /\ Len(a) \in Nat \ {0} /\ a \in Seq(Pointers)
        /\ \A n \in 1 .. Len(a) : a[n] \in Pointers
    BY ChainFacts DEF Chain
  <1> DEFINE c == SubSeq(a, k, Len(a))
  <1>1. c \in Seq(Pointers) /\ Len(c) = Len(a) - k + 1
        /\ \A n \in 1 .. (Len(a) - k + 1) : c[n] = a[k + n - 1]
    <2>1. \A n \in k .. Len(a) : a[n] \in Pointers
      BY <1>0
    <2>. QED  BY <1>0, <2>1, SubSeqProperties, k \in Int, Len(a) \in Int
  <1> HIDE DEF c
  <1>2. ASSUME NEW n \in 1 .. (Len(c) - 1)
        PROVE  c[n] \in made /\ m[N(c[n])] = c[n + 1]
    <2>1. /\ k + n - 1 \in 1 .. (Len(a) - 1) /\ (k + n - 1) + 1 = k + (n + 1) - 1
          /\ n \in 1 .. (Len(a) - k + 1) /\ n + 1 \in 1 .. (Len(a) - k + 1)
      BY <1>0, <1>1
    <2>2. c[n] = a[k + n - 1] /\ c[n + 1] = a[(k + n - 1) + 1]
      BY <1>1, <2>1, SMTT(25)
    <2>. QED  BY <2>1, <2>2 DEF Chain
  <1>3. c[Len(c)] = a[Len(a)] /\ Len(c) # 0
    BY <1>0, <1>1
  <1>4. Chain(m, made, c)
    BY <1>1, <1>2, <1>3 DEF Chain
  <1>. QED  BY <1>1, <1>4 DEF c

(* An assignment to a place that does not belong to a list, and a call of  *)
(* destroy_job for a job that is not in it, leave it alone.                *)
LEMMA Elsewhere ==
    ASSUME NEW m \in [Cells -> Pointers], NEW made, NEW made2, made \subseteq JobIds,
           NEW a, Chain(m, made, a), NEW x \in Cells, NEW v,
           \A n \in 1 .. (Len(a) - 1) : x # N(a[n]) /\ a[n] \in made2
    PROVE  /\ Chain([m EXCEPT ![x] = v], made2, a)
           /\ \A head \in Cells \ {x} : m[head] = a[1] =>
                Spelled([m EXCEPT ![x] = v], made2, head, a)
  <1>1. \A n \in 1 .. (Len(a) - 1) : N(a[n]) \in Cells
    BY CellFacts DEF Chain
  <1>2. Chain([m EXCEPT ![x] = v], made2, a)
    BY <1>1 DEF Chain
  <1>. QED  BY <1>2 DEF Spelled

(* An assignment to one of the places of a list: what was before the place *)
(* is left, and what the new pointer leads to follows.                     *)
LEMMA Relink ==
    ASSUME NEW m \in [Cells -> Pointers], NEW made, made \subseteq JobIds,
           NEW head \in {FIRST, FINISHED}, NEW a, Spelled(m, made, head, a),
           NEW k \in 1 .. Len(a), NEW c, Chain(m, made, c),
           k # 1 => \A n \in 1 .. (Len(c) - 1) : c[n] # a[k - 1]
    PROVE  /\ Place(head, a, k) \in Cells
           /\ Spelled([m EXCEPT ![Place(head, a, k)] = c[1]], made, head,
                      SubSeq(a, 1, k - 1) \o c)
           /\ \A n \in 1 .. (k - 1) : (SubSeq(a, 1, k - 1) \o c)[n] = a[n]
           /\ \A n \in 1 .. Len(c) : (SubSeq(a, 1, k - 1) \o c)[k - 1 + n] = c[n]
           /\ Len(SubSeq(a, 1, k - 1) \o c) = k - 1 + Len(c)
  <1> DEFINE b == SubSeq(a, 1, k - 1) \o c
             x == Place(head, a, k)
             m2 == [m EXCEPT ![x] = c[1]]
  <1>0. /\ Len(a) \in Nat \ {0} /\ a \in Seq(Pointers) /\ c \in Seq(Pointers)
        /\ Len(c) \in Nat \ {0} /\ c[Len(c)] \in Nowhere
        /\ \A n \in 1 .. Len(a) : a[n] \in Pointers
        /\ \A n \in 1 .. (Len(a) - 1) : a[n] \in made /\ m[N(a[n])] = a[n + 1]
        /\ \A n \in 1 .. (Len(c) - 1) : c[n] \in made /\ m[N(c[n])] = c[n + 1]
        /\ m[head] = a[1] /\ head \in Cells
        /\ \A i, j \in 1 .. Len(a) : a[i] = a[j] => i = j
    <2>1. Chain(m, made, a) /\ m[head] = a[1]
      BY DEF Spelled
    <2>2. /\ Len(a) \in Nat \ {0} /\ Len(c) \in Nat \ {0}
          /\ \A n \in 1 .. Len(a) : a[n] \in Pointers
      BY <2>1, ChainFacts
    <2>3. \A i, j \in 1 .. Len(a) : a[i] = a[j] => i = j
      BY <2>1, ChainOnce
    <2>. QED  BY <2>1, <2>2, <2>3, CellFacts DEF Chain
  <1>1. /\ SubSeq(a, 1, k - 1) \in Seq(Pointers) /\ Len(SubSeq(a, 1, k - 1)) = k - 1
        /\ \A n \in 1 .. (k - 1) : SubSeq(a, 1, k - 1)[n] = a[n]
    <2>1. \A n \in 1 .. (k - 1) : a[n] \in Pointers
      BY <1>0
    <2>2. 1 \in Int /\ k - 1 \in Int
      BY <1>0
    <2>3. /\ SubSeq(a, 1, k - 1) \in Seq(Pointers)
          /\ Len(SubSeq(a, 1, k - 1)) = IF 1 <= k - 1 THEN k - 1 - 1 + 1 ELSE 0
          /\ \A n \in 1 .. (k - 1 - 1 + 1) : SubSeq(a, 1, k - 1)[n] = a[1 + n - 1]
      BY <1>0, <2>1, <2>2, SubSeqProperties
    <2>. QED  BY <1>0, <2>3
  <1>2. /\ b \in Seq(Pointers) /\ Len(b) = k - 1 + Len(c)
        /\ \A n \in 1 .. (k - 1 + Len(c)) :
             b[n] = IF n <= k - 1 THEN a[n] ELSE c[n - (k - 1)]
    <2>1. PICK s : s = SubSeq(a, 1, k - 1)
      OBVIOUS
    <2>2. s \in Seq(Pointers) /\ Len(s) = k - 1 /\ \A n \in 1 .. (k - 1) : s[n] = a[n]
      BY <1>1, <2>1
    <2>3. /\ s \o c \in Seq(Pointers) /\ Len(s \o c) = Len(s) + Len(c)
          /\ \A n \in 1 .. (Len(s) + Len(c)) :
               (s \o c)[n] = IF n <= Len(s) THEN s[n] ELSE c[n - Len(s)]
      <3>1. s \in Seq(Pointers) /\ c \in Seq(Pointers)
        BY <1>0, <2>2
      <3>. QED  BY <3>1, ConcatProperties
    <2>4. b = s \o c
      BY <2>1
    <2> HIDE DEF b
    <2>. QED  BY <1>0, <2>2, <2>3, <2>4
  <1> HIDE DEF b
  <1>3. /\ x \in Cells /\ (k = 1 => x = head)
        /\ (k # 1 => x = N(a[k - 1]) /\ a[k - 1] \in made /\ x # head)
    <2>1. CASE k = 1
      BY <1>0, <2>1 DEF Place
    <2>2. CASE k # 1
      <3>1. k - 1 \in 1 .. (Len(a) - 1)
        BY <1>0, <2>2
      <3>. QED  BY <1>0, <2>2, <3>1, CellFacts DEF Place
    <2>. QED  BY <2>1, <2>2
  <1> HIDE DEF x
  <1>4. ASSUME NEW n \in 1 .. (Len(b) - 1)
        PROVE  b[n] \in made /\ m2[N(b[n])] = b[n + 1]
    <2>0. n \in 1 .. (k - 1 + Len(c)) /\ n + 1 \in 1 .. (k - 1 + Len(c)) /\ k \in Nat
      BY <1>0, <1>2
    <2>1. CASE n < k - 1
      <3>1. /\ n \in 1 .. (Len(a) - 1) /\ n \in 1 .. Len(a) /\ k - 1 \in 1 .. Len(a)
            /\ n # k - 1 /\ k # 1 /\ n <= k - 1 /\ n + 1 <= k - 1
        BY <1>0, <2>0, <2>1
      <3>2. b[n] = a[n] /\ b[n + 1] = a[n + 1]
        BY <1>2, <2>0, <3>1
      <3>3. a[n] # a[k - 1] /\ a[n] \in JobIds /\ a[k - 1] \in JobIds
        BY <1>0, <1>3, <3>1
      <3>4. N(a[n]) # x /\ N(a[n]) \in Cells
        BY <1>3, <3>1, <3>3, CellFacts
      <3>. QED  BY <1>0, <3>1, <3>2, <3>4
    <2>2. CASE n = k - 1
      <3>1. /\ k # 1 /\ n <= k - 1 /\ ~(n + 1 <= k - 1) /\ n + 1 - (k - 1) = 1
        BY <2>0, <2>2
      <3>2. b[n] = a[k - 1] /\ b[n + 1] = c[1]
        BY <1>2, <2>0, <2>2, <3>1
      <3>. QED  BY <1>3, <3>1, <3>2
    <2>3. CASE n > k - 1
      <3>1. /\ ~(n <= k - 1) /\ ~(n + 1 <= k - 1)
            /\ n - (k - 1) \in 1 .. (Len(c) - 1)
            /\ n + 1 - (k - 1) = (n - (k - 1)) + 1
        BY <1>0, <1>2, <2>0, <2>3
      <3>2. b[n] = c[n - (k - 1)] /\ b[n + 1] = c[(n - (k - 1)) + 1]
        BY <1>2, <2>0, <3>1
      <3>3. N(b[n]) # x /\ N(b[n]) \in Cells
        BY <1>0, <1>3, <3>1, <3>2, CellFacts
      <3>. QED  BY <1>0, <3>1, <3>2, <3>3
    <2>. QED  BY <2>0, <2>1, <2>2, <2>3
  <1>5. b[Len(b)] \in Nowhere /\ Len(b) # 0
    <2>1. /\ Len(b) \in 1 .. (k - 1 + Len(c)) /\ ~(Len(b) <= k - 1)
          /\ Len(b) - (k - 1) = Len(c) /\ Len(b) # 0
      BY <1>0, <1>2
    <2>. QED  BY <1>0, <1>2, <2>1
  <1>6. m2[head] = b[1]
    <2>1. 1 \in 1 .. (k - 1 + Len(c))
      BY <1>0
    <2>2. CASE k = 1
      BY <1>0, <1>2, <1>3, <2>1, <2>2
    <2>3. CASE k # 1
      <3>1. 1 <= k - 1
        BY <1>0, <2>3
      <3>. QED  BY <1>0, <1>2, <1>3, <2>1, <2>3, <3>1
    <2>. QED  BY <2>2, <2>3
  <1>7. Spelled(m2, made, head, b)
    BY <1>2, <1>4, <1>5, <1>6 DEF Spelled, Chain
  <1>8. /\ \A n \in 1 .. (k - 1) : b[n] = a[n]
        /\ \A n \in 1 .. Len(c) : b[k - 1 + n] = c[n]
    <2>1. \A n \in 1 .. (k - 1) : n \in 1 .. (k - 1 + Len(c)) /\ n <= k - 1
      BY <1>0
    <2>2. \A n \in 1 .. Len(c) : /\ k - 1 + n \in 1 .. (k - 1 + Len(c))
                                 /\ ~(k - 1 + n <= k - 1) /\ k - 1 + n - (k - 1) = n
      BY <1>0
    <2>. QED  BY <1>2, <2>1, <2>2
  <1>. QED  BY <1>2, <1>3, <1>7, <1>8 DEF b, x

-----------------------------------------------------------------------------
(* What is there before and after each statement of an operation: the      *)
(* memory, the jobs that are made, and what walks over the queue and over  *)
(* the results meet.                                                       *)
At(m, made, a, b) == [mem |-> m, made |-> made, a |-> a, b |-> b]

Statements == [op: {"set", "copy", "free", "receive"},
               to: Cells, from: Cells, value: Pointers]

(* The places that a statement may use.                                    *)
Usable(made) == {FIRST, FINISHED, TMP} \cup {N(j) : j \in made}

(* What statement s makes of the memory, as in Statement.                  *)
Exec(m, s) ==
    CASE s.op = "set"  -> [m EXCEPT ![s.to] = s.value]
      [] s.op = "copy" -> [m EXCEPT ![s.to] = m[s.from]]
      [] s.op = "free" -> [m EXCEPT ![s.to] = Garbage]
      [] OTHER -> m

Does(c, s, d) ==
    /\ s.to \in Usable(c.made) /\ s.from \in Usable(c.made)
    /\ d.mem = Exec(c.mem, s)
    /\ d.made = IF s.op = "free" THEN c.made \ {s.value} ELSE c.made

Lists(c) == Spelled(c.mem, c.made, FIRST, c.a) /\ Spelled(c.mem, c.made, FINISHED, c.b)

(* What SIGTERM would save here, in the operation at that is to make the   *)
(* queue q.                                                                *)
Seen(c, at, q) ==
    /\ c.mem \in [Cells -> Pointers] /\ c.made \subseteq JobIds
    /\ at.op # "swap" =>
         /\ Lists(c)
         /\ c.b[Len(c.b)] = NULL
         /\ c.a[Len(c.a)] = NULL \/ at.op = "newjob"
         /\ Range(q) \ Range(c.a) \subseteq MayMiss(at)

(* The statements prog of the operation at lead from c to d.               *)
Planned(c, prog, d, at, q) ==
    \E cs : /\ cs[1] = c /\ cs[Len(prog) + 1] = d
            /\ \A n \in 1 .. Len(prog) : Does(cs[n], prog[n], cs[n + 1])
            /\ \A n \in 1 .. (Len(prog) + 1) : Seen(cs[n], at, q)

(* The queue and the results are what they should be.                      *)
Reached(c, q, r) == Lists(c) /\ c.a = Append(q, NULL) /\ c.b = Append(r, NULL)

(* No statements.                                                          *)
LEMMA PlanEmpty ==
    ASSUME NEW c, NEW d, NEW at, NEW q
    PROVE  Planned(c, <<>>, d, at, q) <=> d = c /\ Seen(c, at, q)
  <1>1. Len(<<>>) = 0
    OBVIOUS
  <1>2. ASSUME d = c, Seen(c, at, q)
        PROVE  Planned(c, <<>>, d, at, q)
    <2>1. PICK cs : cs = [n \in 1 .. 1 |-> c]
      OBVIOUS
    <2>. QED  BY <1>1, <1>2, <2>1 DEF Planned
  <1>3. ASSUME Planned(c, <<>>, d, at, q)
        PROVE  d = c /\ Seen(c, at, q)
    BY <1>1, <1>3 DEF Planned
  <1>. QED  BY <1>2, <1>3

(* One more statement.                                                     *)
LEMMA PlanAppend ==
    ASSUME NEW c, NEW d, NEW e, NEW at, NEW q, NEW prog \in Seq(Statements),
           NEW s \in Statements, Planned(c, prog, d, at, q),
           Does(d, s, e), Seen(e, at, q)
    PROVE  Planned(c, Append(prog, s), e, at, q)
  <1>0. PICK p : p = Append(prog, s)
    OBVIOUS
  <1>1. /\ Len(prog) \in Nat /\ Len(p) = Len(prog) + 1
        /\ \A n \in 1 .. Len(prog) : p[n] = prog[n]
        /\ p[Len(prog) + 1] = s
    BY <1>0, AppendProperties, LenProperties
  <1>2. PICK cs : /\ cs[1] = c /\ cs[Len(prog) + 1] = d
                  /\ \A n \in 1 .. Len(prog) : Does(cs[n], prog[n], cs[n + 1])
                  /\ \A n \in 1 .. (Len(prog) + 1) : Seen(cs[n], at, q)
    BY DEF Planned
  <1>3. PICK ds : ds = [n \in 1 .. (Len(prog) + 2) |->
                          IF n = Len(prog) + 2 THEN e ELSE cs[n]]
    OBVIOUS
  <1>4. ds[1] = c /\ ds[Len(p) + 1] = e
    BY <1>1, <1>2, <1>3
  <1>5. ASSUME NEW n \in 1 .. Len(p)
        PROVE  Does(ds[n], p[n], ds[n + 1])
    <2>1. CASE n = Len(prog) + 1
      <3>1. ds[n] = d /\ ds[n + 1] = e /\ p[n] = s
        BY <1>1, <1>2, <1>3, <2>1
      <3>. QED  BY <3>1
    <2>2. CASE n \in 1 .. Len(prog)
      <3>1. ds[n] = cs[n] /\ ds[n + 1] = cs[n + 1] /\ p[n] = prog[n]
        BY <1>1, <1>3, <2>2
      <3>. QED  BY <1>2, <2>2, <3>1
    <2>. QED  BY <1>1, <2>1, <2>2
  <1>6. ASSUME NEW n \in 1 .. (Len(p) + 1)
        PROVE  Seen(ds[n], at, q)
    <2>1. CASE n = Len(prog) + 2
      BY <1>1, <1>3, <2>1
    <2>2. CASE n \in 1 .. (Len(prog) + 1)
      <3>1. ds[n] = cs[n]
        BY <1>1, <1>3, <2>2
      <3>. QED  BY <1>2, <2>2, <3>1
    <2>. QED  BY <1>1, <2>1, <2>2
  <1>. QED  BY <1>0, <1>4, <1>5, <1>6 DEF Planned

(* The first of the statements is done.                                    *)
LEMMA PlanTail ==
    ASSUME NEW c, NEW e, NEW at, NEW q, NEW prog \in Seq(Statements),
           prog # <<>>, Planned(c, prog, e, at, q)
    PROVE  \E d : Does(c, Head(prog), d) /\ Planned(d, Tail(prog), e, at, q)
  <1>0. PICK p : p = Tail(prog)
    OBVIOUS
  <1>1. /\ Len(prog) \in Nat \ {0} /\ Len(p) = Len(prog) - 1
        /\ \A n \in 1 .. (Len(prog) - 1) : p[n] = prog[n + 1]
        /\ Head(prog) = prog[1]
    BY <1>0, HeadTailProperties, LenProperties, EmptySeq
  <1>2. PICK cs : /\ cs[1] = c /\ cs[Len(prog) + 1] = e
                  /\ \A n \in 1 .. Len(prog) : Does(cs[n], prog[n], cs[n + 1])
                  /\ \A n \in 1 .. (Len(prog) + 1) : Seen(cs[n], at, q)
    BY DEF Planned
  <1>3. PICK ds : ds = [n \in 1 .. Len(prog) |-> cs[n + 1]]
    OBVIOUS
  <1>4. ds[1] = cs[2] /\ ds[Len(p) + 1] = e
    BY <1>1, <1>2, <1>3
  <1>5. ASSUME NEW n \in 1 .. Len(p)
        PROVE  Does(ds[n], p[n], ds[n + 1])
    <2>1. /\ ds[n] = cs[n + 1] /\ ds[n + 1] = cs[n + 1 + 1] /\ p[n] = prog[n + 1]
          /\ n + 1 \in 1 .. Len(prog)
      BY <1>1, <1>3
    <2>. QED  BY <1>2, <2>1
  <1>6. ASSUME NEW n \in 1 .. (Len(p) + 1)
        PROVE  Seen(ds[n], at, q)
    <2>1. ds[n] = cs[n + 1] /\ n + 1 \in 1 .. (Len(prog) + 1)
      BY <1>1, <1>3
    <2>. QED  BY <1>2, <2>1
  <1>7. Does(c, Head(prog), ds[1])
    <2>1. 1 \in 1 .. Len(prog) /\ 1 + 1 = 2
      BY <1>1
    <2>. QED  BY <1>1, <1>2, <1>4, <2>1
  <1>8. Planned(ds[1], p, e, at, q)
    BY <1>4, <1>5, <1>6 DEF Planned
  <1>. QED  BY <1>0, <1>7, <1>8

(* Before the first statement, and behind the last one.                    *)
LEMMA PlanEnds ==
    ASSUME NEW c, NEW d, NEW at, NEW q, NEW prog \in Seq(Statements),
           Planned(c, prog, d, at, q)
    PROVE  Seen(c, at, q) /\ Seen(d, at, q)
  <1>1. Len(prog) \in Nat
    BY LenProperties
  <1>2. 1 \in 1 .. (Len(prog) + 1) /\ Len(prog) + 1 \in 1 .. (Len(prog) + 1)
    BY <1>1
  <1>. QED  BY <1>2 DEF Planned

-----------------------------------------------------------------------------
(* The inductive invariant: what is still to be done makes the lists what  *)
(* they should be, with nothing on the way that may not be seen.           *)
Types ==
    /\ mem \in [Cells -> Pointers]
    /\ job \in [JobIds -> {"unused", "made", "freed"}]
    /\ todo \in Seq(Statements)
    /\ todo = <<>> => doing = Idle
    /\ queue \in Seq(JobIds) /\ results \in Seq(JobIds)

Apart == Range(queue) \cap Range(results) = {}

Unused == \A j \in JobIds : job[j] = "unused" => mem[N(j)] = Garbage

Ongoing ==
    \E c, d : /\ c.mem = mem /\ c.made = Made
              /\ Planned(c, todo, d, doing, queue) /\ Reached(d, queue, results)

IInv == Types /\ Apart /\ Unused /\ Ongoing /\ SavedOnSigterm

(* What a list with NULL at its end is made of.                            *)
LEMMA Terminated ==
    ASSUME NEW s \in Seq(JobIds)
    PROVE  /\ Append(s, NULL) \in Seq(Pointers)
           /\ Len(s) \in Nat /\ Len(Append(s, NULL)) = Len(s) + 1
           /\ DOMAIN s = 1 .. Len(s)
           /\ \A n \in 1 .. Len(s) : Append(s, NULL)[n] = s[n] /\ s[n] \in JobIds
           /\ Append(s, NULL)[Len(s) + 1] = NULL
           /\ Range(s) \subseteq Range(Append(s, NULL))
  <1>1. s \in Seq(Pointers) /\ NULL \in Pointers
    BY SeqMonotonic DEF Pointers
  <1>2. /\ Len(s) \in Nat /\ DOMAIN s = 1 .. Len(s)
        /\ \A n \in 1 .. Len(s) : s[n] \in JobIds
    BY LenProperties
  <1>3. PICK t : t = Append(s, NULL)
    OBVIOUS
  <1>4. /\ t \in Seq(Pointers) /\ Len(t) = Len(s) + 1
        /\ \A n \in 1 .. Len(s) : t[n] = s[n]
        /\ t[Len(s) + 1] = NULL
    BY <1>1, <1>3, AppendProperties
  <1>5. DOMAIN t = 1 .. (Len(s) + 1)
    BY <1>4, LenProperties
  <1>6. Range(s) \subseteq Range(t)
    BY <1>2, <1>4, <1>5 DEF Range
  <1>. QED  BY <1>2, <1>3, <1>4, <1>6

(* Between operations.                                                     *)
LEMMA ReadyFacts ==
    ASSUME IInv, Ready
    PROVE  /\ Spelled(mem, Made, FIRST, Append(queue, NULL))
           /\ Spelled(mem, Made, FINISHED, Append(results, NULL))
           /\ QueueWalk = Append(queue, NULL)
           /\ FinishedWalk = Append(results, NULL)
           /\ doing = Idle
  <1>1. PICK c, d : /\ c.mem = mem /\ c.made = Made
                    /\ Planned(c, todo, d, doing, queue)
                    /\ Reached(d, queue, results)
    BY DEF IInv, Ongoing
  <1>2. d = c
    BY <1>1, PlanEmpty DEF Ready
  <1>3. /\ Spelled(mem, Made, FIRST, Append(queue, NULL))
        /\ Spelled(mem, Made, FINISHED, Append(results, NULL))
    BY <1>1, <1>2 DEF Reached, Lists
  <1>4. QueueWalk = Append(queue, NULL) /\ FinishedWalk = Append(results, NULL)
    BY <1>3, WalkIs DEF Spelled, QueueWalk, FinishedWalk
  <1>. QED  BY <1>3, <1>4 DEF IInv, Types, Ready

(* The empty lists.                                                        *)
LEMMA InitIInv == Init => IInv
  <1> SUFFICES ASSUME Init PROVE IInv
    OBVIOUS
  <1>1. Types
    BY CellFacts DEF Init, Types, Pointers
  <1>2. Apart
    BY DEF Init, Apart, Range
  <1>3. Unused
    BY CellFacts DEF Init, Unused
  <1>4. PICK a : a = Append(<<>>, NULL)
    OBVIOUS
  <1>5. PICK s : s = <<>> /\ s \in Seq(JobIds)
    BY EmptySeq
  <1>6. a \in Seq(Pointers) /\ Len(a) = 1 /\ a[1] = NULL
    <2>1. Len(s) = 0
      BY <1>5
    <2>2. a \in Seq(Pointers) /\ Len(a) = Len(s) + 1 /\ a[Len(s) + 1] = NULL
      BY <1>4, <1>5, Terminated
    <2>. QED  BY <2>1, <2>2
  <1>7. Spelled(mem, Made, FIRST, a) /\ Spelled(mem, Made, FINISHED, a)
    BY <1>6, CellFacts DEF Init, Spelled, Chain, Nowhere
  <1>8. PICK c : c = At(mem, Made, a, a)
    OBVIOUS
  <1>9. c.mem = mem /\ c.made = Made /\ c.a = a /\ c.b = a
    BY <1>8 DEF At
  <1>10. Lists(c) /\ Reached(c, <<>>, <<>>)
    BY <1>4, <1>7, <1>9 DEF Lists, Reached
  <1>11. Seen(c, Idle, <<>>)
    <2>1. Range(<<>>) = {}
      BY DEF Range
    <2>. QED  BY <1>1, <1>6, <1>9, <1>10, <2>1 DEF Seen, Types, Made
  <1>12. Planned(c, <<>>, c, Idle, <<>>)
    BY <1>11, PlanEmpty
  <1>13. Ongoing
    BY <1>9, <1>10, <1>12 DEF Init, Ongoing
  <1>14. SavedOnSigterm
    BY DEF Init, SavedOnSigterm
  <1>. QED  BY <1>1, <1>2, <1>3, <1>13, <1>14 DEF IInv

(* A statement of an operation.                                            *)
LEMMA StatementStep ==
    ASSUME IInv, Statement
    PROVE  IInv'
  <1>0. PICK s : s = Head(todo)
    OBVIOUS
  <1>1. /\ todo \in Seq(Statements) /\ todo # <<>> /\ todo' = Tail(todo)
        /\ s \in Statements /\ todo' \in Seq(Statements)
        /\ UNCHANGED <<running, server, saved, queue, results>> /\ server = "up"
        /\ Len(todo) \in Nat /\ Len(todo') = Len(todo) - 1
    BY <1>0, HeadTailProperties, LenProperties DEF Statement, IInv, Types
  <1>2. PICK c, d : /\ c.mem = mem /\ c.made = Made
                    /\ Planned(c, todo, d, doing, queue)
                    /\ Reached(d, queue, results)
    BY DEF IInv, Ongoing
  <1>3. PICK e : Does(c, s, e) /\ Planned(e, todo', d, doing, queue)
    BY <1>0, <1>1, <1>2, PlanTail
  <1>4. Seen(e, doing, queue)
    BY <1>1, <1>3, PlanEnds
  <1>5. /\ mem' = IF Len(todo) = 1 THEN [e.mem EXCEPT ![TMP] = Garbage] ELSE e.mem
        /\ doing' = IF Len(todo) = 1 THEN Idle ELSE doing
        /\ job' = IF s.op = "free" THEN [job EXCEPT ![s.value] = "freed"] ELSE job
    <2>1. e.mem = Exec(mem, s)
      BY <1>2, <1>3 DEF Does
    <2>. QED  BY <1>0, <2>1 DEF Statement, Exec
  <1>6. mem' \in [Cells -> Pointers] /\ job' \in [JobIds -> {"unused", "made", "freed"}]
    BY <1>4, <1>5, CellFacts DEF Seen, Pointers, IInv, Types
  <1>7. e.made = Made'
    BY <1>2, <1>3, <1>5 DEF Does, Made, IInv, Types
  <1>8. Types'
    <2>1. todo' = <<>> => Len(todo) = 1
      <3>1. todo' = <<>> => Len(todo') = 0
        BY <1>1, EmptySeq
      <3>. QED  BY <1>1, <3>1
    <2>. QED  BY <1>1, <1>5, <1>6, <2>1 DEF IInv, Types
  <1>9. Apart' /\ SavedOnSigterm'
    BY <1>1 DEF IInv, Apart, SavedOnSigterm
  <1>10. Unused'
    <2>1. s.to \in Usable(Made)
      BY <1>2, <1>3 DEF Does
    <2>2. ASSUME NEW j \in JobIds, job'[j] = "unused"
          PROVE  mem'[N(j)] = Garbage
      <3>1. job[j] = "unused" /\ mem[N(j)] = Garbage
        BY <1>5, <2>2 DEF IInv, Types, Unused
      <3>2. N(j) # s.to /\ N(j) # TMP /\ N(j) \in Cells
        <4>1. j \notin Made
          BY <3>1 DEF Made
        <4>2. Made \subseteq JobIds
          BY DEF Made
        <4>. QED  BY <2>1, <4>1, <4>2, CellFacts DEF Usable
      <3>3. e.mem[N(j)] = Garbage
        <4>1. e.mem = Exec(mem, s) /\ mem \in [Cells -> Pointers]
          BY <1>2, <1>3 DEF Does, IInv, Types
        <4>2. Exec(mem, s)[N(j)] = mem[N(j)]
          BY <3>2, <4>1 DEF Exec
        <4>. QED  BY <3>1, <4>1, <4>2
      <3>. QED  BY <1>4, <1>5, <3>2, <3>3 DEF Seen
    <2>. QED  BY <2>2 DEF Unused
  <1>11. Ongoing'
    <2>1. CASE Len(todo) # 1
      BY <1>1, <1>2, <1>3, <1>5, <1>7, <2>1 DEF Ongoing
    <2>2. CASE Len(todo) = 1
      <3>1. todo' = <<>>
        BY <1>1, <2>2, EmptySeq
      <3>2. d = e
        BY <1>3, <3>1, PlanEmpty
      <3>3. PICK f : f = At(mem', e.made, e.a, e.b)
        OBVIOUS
      <3>4. f.mem = mem' /\ f.made = e.made /\ f.a = e.a /\ f.b = e.b
        BY <3>3 DEF At
      <3>5. /\ Lists(e) /\ e.a = Append(queue, NULL) /\ e.b = Append(results, NULL)
            /\ e.mem \in [Cells -> Pointers] /\ e.made \subseteq JobIds
        BY <1>2, <1>4, <3>2 DEF Reached, Seen
      <3>6. \A j \in JobIds : TMP # N(j)
        BY CellFacts
      <3>7. Lists(f)
        <4>1. mem' = [e.mem EXCEPT ![TMP] = Garbage]
          BY <1>5, <2>2
        <4>2. /\ FIRST \in Cells \ {TMP} /\ FINISHED \in Cells \ {TMP} /\ TMP \in Cells
          BY CellFacts
        <4>3. /\ Chain(e.mem, e.made, e.a) /\ e.mem[FIRST] = e.a[1]
              /\ Chain(e.mem, e.made, e.b) /\ e.mem[FINISHED] = e.b[1]
          BY <3>5 DEF Lists, Spelled
        <4>4. \A n \in 1 .. (Len(e.a) - 1) : TMP # N(e.a[n]) /\ e.a[n] \in e.made
          BY <3>5, <3>6, <4>3 DEF Chain
        <4>5. \A n \in 1 .. (Len(e.b) - 1) : TMP # N(e.b[n]) /\ e.b[n] \in e.made
          BY <3>5, <3>6, <4>3 DEF Chain
        <4>6. Spelled(mem', e.made, FIRST, e.a)
          BY <3>5, <4>1, <4>2, <4>3, <4>4, Elsewhere
        <4>7. Spelled(mem', e.made, FINISHED, e.b)
          BY <3>5, <4>1, <4>2, <4>3, <4>5, Elsewhere
        <4>. QED  BY <3>4, <4>6, <4>7 DEF Lists
      <3>8. Seen(f, Idle, queue)
        <4>1. queue \in Seq(JobIds) /\ results \in Seq(JobIds)
          BY DEF IInv, Types
        <4>2. /\ e.a[Len(e.a)] = NULL /\ e.b[Len(e.b)] = NULL
              /\ Range(queue) \subseteq Range(e.a)
          BY <3>5, <4>1, Terminated
        <4>. QED  BY <1>6, <3>4, <3>5, <3>7, <4>2 DEF Seen
      <3>9. Planned(f, <<>>, f, Idle, queue)
        BY <3>8, PlanEmpty
      <3>10. Reached(f, queue, results)
        BY <3>4, <3>5, <3>7 DEF Reached
      <3>. QED  BY <1>1, <1>5, <1>7, <2>2, <3>1, <3>4, <3>9, <3>10 DEF Ongoing
    <2>. QED  BY <2>1, <2>2
  <1>. QED  BY <1>8, <1>9, <1>10, <1>11 DEF IInv

(* SIGTERM: the handler sees what the plan says.                           *)
LEMMA SigtermStep ==
    ASSUME IInv, Sigterm
    PROVE  IInv'
  <1>1. PICK c, d : /\ c.mem = mem /\ c.made = Made
                    /\ Planned(c, todo, d, doing, queue)
                    /\ Reached(d, queue, results)
    BY DEF IInv, Ongoing
  <1>2. Seen(c, doing, queue)
    BY <1>1, PlanEnds DEF IInv, Types
  <1>3. /\ saved'.at = doing /\ saved'.queue = QueueWalk
        /\ saved'.results = FinishedWalk /\ saved'.should = queue
        /\ UNCHANGED <<mem, job, todo, doing, queue, results>>
    BY DEF Sigterm
  <1>4. SavedOnSigterm'
    <2>1. SUFFICES ASSUME doing.op # "swap"
                   PROVE  /\ Ends(FinishedWalk)
                          /\ Ends(QueueWalk) \/ doing.op = "newjob"
                          /\ Range(queue) \ Range(QueueWalk) \subseteq MayMiss(doing)
      BY <1>3 DEF SavedOnSigterm, Ends, MayMiss
    <2>2. /\ Chain(mem, Made, c.a) /\ mem[FIRST] = c.a[1]
          /\ Chain(mem, Made, c.b) /\ mem[FINISHED] = c.b[1]
          /\ c.b[Len(c.b)] = NULL /\ (c.a[Len(c.a)] = NULL \/ doing.op = "newjob")
          /\ Range(queue) \ Range(c.a) \subseteq MayMiss(doing)
      BY <1>1, <1>2, <2>1 DEF Seen, Lists, Spelled
    <2>3. QueueWalk = c.a /\ FinishedWalk = c.b
      BY <2>2, WalkIs DEF QueueWalk, FinishedWalk
    <2>. QED  BY <2>2, <2>3 DEF Ends, Last
  <1>5. Ongoing'
    BY <1>1, <1>3 DEF Ongoing, Made
  <1>. QED  BY <1>3, <1>4, <1>5 DEF IInv, Types, Apart, Unused

(* What touches neither lists nor jobs.                                    *)
LEMMA SameLists ==
    ASSUME IInv, UNCHANGED <<mem, job, todo, doing, queue, results>>,
           UNCHANGED <<server, saved>> \/ (server' = "fault" /\ UNCHANGED saved)
    PROVE  IInv'
  <1>1. Ongoing'
    BY DEF IInv, Ongoing, Made
  <1>2. SavedOnSigterm'
    BY DEF IInv, SavedOnSigterm
  <1>. QED  BY <1>1, <1>2 DEF IInv, Types, Apart, Unused

(* An operation begins, with a plan.                                       *)
LEMMA BeginStep ==
    ASSUME IInv, Ready, NEW op, NEW j, NEW prog \in Seq(Statements), prog # <<>>,
           NEW q \in Seq(JobIds), NEW r \in Seq(JobIds), Begin(op, j, prog, q, r),
           Range(q) \cap Range(r) = {},
           job' \in [JobIds -> {"unused", "made", "freed"}],
           \A x \in JobIds : job'[x] = "unused" => job[x] = "unused",
           NEW c, NEW d, c.mem = mem, c.made = Made',
           Planned(c, prog, d, [op |-> op, job |-> j, behind |-> Behind(j)], q),
           Reached(d, q, r)
    PROVE  IInv'
  <1>1. /\ todo' = prog /\ queue' = q /\ results' = r
        /\ doing' = [op |-> op, job |-> j, behind |-> Behind(j)]
        /\ UNCHANGED <<mem, server, saved>>
    BY DEF Begin
  <1>2. Types' /\ Apart' /\ Unused'
    BY <1>1 DEF IInv, Types, Apart, Unused
  <1>3. Ongoing'
    BY <1>1 DEF Ongoing
  <1>4. SavedOnSigterm'
    BY <1>1 DEF Ready, SavedOnSigterm
  <1>. QED  BY <1>2, <1>3, <1>4 DEF IInv

-----------------------------------------------------------------------------
(* findjob and find_previous_job: where a job stands, and its place.       *)
LEMMA PlaceFacts ==
    ASSUME IInv, Ready, NEW head \in {FIRST, FINISHED}, NEW s \in Seq(JobIds),
           Spelled(mem, Made, head, Append(s, NULL)), NEW k \in 1 .. Len(s)
    PROVE  /\ Before(head, s[k]) = Place(head, Append(s, NULL), k)
           /\ \A n \in 1 .. Len(s) : s[n] = s[k] => n = k
           /\ Without(s, s[k]) = RemoveAt(s, k)
           /\ s[k] \in Made
  <1> DEFINE L == Append(s, NULL)
  <1>0. /\ L \in Seq(Pointers) /\ Len(s) \in Nat /\ Len(L) = Len(s) + 1
        /\ \A n \in 1 .. Len(s) : L[n] = s[n] /\ s[n] \in JobIds
        /\ L[Len(s) + 1] = NULL /\ DOMAIN s = 1 .. Len(s)
    BY Terminated
  <1> HIDE DEF L
  <1>1. Spelled(mem, Made, head, L) /\ Made \subseteq JobIds
    BY DEF L, Made
  <1>2. Walk(mem[head]) = L
    BY <1>1, WalkIs DEF Spelled
  <1>3. \A i, n \in 1 .. Len(L) : L[i] = L[n] => i = n
    BY <1>1, ChainOnce DEF Spelled
  <1>4. DOMAIN L = 1 .. (Len(s) + 1)
    BY <1>0, LenProperties
  <1>5. k \in 1 .. Len(L) /\ L[k] = s[k]
    BY <1>0
  <1>6. IndexOf(L, s[k]) = k
    BY <1>0, <1>3, <1>4, <1>5 DEF IndexOf
  <1>7. Before(head, s[k]) = Place(head, L, k)
    BY <1>2, <1>6 DEF Before
  <1>8. \A n \in 1 .. Len(s) : s[n] = s[k] => n = k
    <2>1. ASSUME NEW n \in 1 .. Len(s), s[n] = s[k]
          PROVE  n = k
      <3>1. n \in 1 .. Len(L) /\ L[n] = L[k]
        BY <1>0, <1>5, <2>1
      <3>. QED  BY <1>3, <1>5, <3>1
    <2>. QED  BY <2>1
  <1>9. IndexOf(s, s[k]) = k
    BY <1>0, <1>8 DEF IndexOf
  <1>10. s[k] \in Made
    <2>1. k \in 1 .. (Len(L) - 1)
      BY <1>0
    <2>. QED  BY <1>1, <1>5, <2>1 DEF Spelled, Chain
  <1>. QED  BY <1>7, <1>8, <1>9, <1>10 DEF L, Without

(* Statements, and what they do.                                           *)
LEMMA StatementFacts ==
    ASSUME NEW m \in [Cells -> Pointers], NEW made, made \subseteq JobIds,
           NEW x \in Usable(made), NEW a, NEW b, NEW a2, NEW b2
    PROVE  /\ x \in Cells
           /\ \A v \in Pointers :
                /\ Set(x, v) \in Statements
                /\ [m EXCEPT ![x] = v] \in [Cells -> Pointers]
                /\ Does(At(m, made, a, b), Set(x, v),
                        At([m EXCEPT ![x] = v], made, a2, b2))
           /\ \A y \in Usable(made) :
                /\ Copy(x, y) \in Statements /\ m[y] \in Pointers
                /\ Does(At(m, made, a, b), Copy(x, y),
                        At([m EXCEPT ![x] = m[y]], made, a2, b2))
           /\ \A j \in made :
                /\ Free(j) \in Statements /\ Receive(j) \in Statements
                /\ [m EXCEPT ![N(j)] = Garbage] \in [Cells -> Pointers]
                /\ Does(At(m, made, a, b), Free(j),
                        At([m EXCEPT ![N(j)] = Garbage], made \ {j}, a2, b2))
                /\ Does(At(m, made, a, b), Receive(j), At(m, made, a2, b2))
  <1>1. /\ \A y \in Usable(made) : y \in Cells
        /\ \A j \in made : N(j) \in Cells /\ N(j) \in Usable(made) /\ j \in Pointers
    BY CellFacts DEF Usable, Pointers
  <1>2. NULL \in Pointers /\ Garbage \in Pointers
    BY DEF Pointers
  <1>3. ASSUME NEW v \in Pointers
        PROVE  /\ Set(x, v) \in Statements
               /\ [m EXCEPT ![x] = v] \in [Cells -> Pointers]
               /\ Does(At(m, made, a, b), Set(x, v),
                       At([m EXCEPT ![x] = v], made, a2, b2))
    BY <1>1 DEF Set, Statements, Does, At, Exec
  <1>4. ASSUME NEW y \in Usable(made)
        PROVE  /\ Copy(x, y) \in Statements /\ m[y] \in Pointers
               /\ Does(At(m, made, a, b), Copy(x, y),
                       At([m EXCEPT ![x] = m[y]], made, a2, b2))
    BY <1>1, <1>2 DEF Copy, Statements, Does, At, Exec
  <1>5. ASSUME NEW j \in made
        PROVE  /\ Free(j) \in Statements /\ Receive(j) \in Statements
               /\ [m EXCEPT ![N(j)] = Garbage] \in [Cells -> Pointers]
               /\ Does(At(m, made, a, b), Free(j),
                       At([m EXCEPT ![N(j)] = Garbage], made \ {j}, a2, b2))
               /\ Does(At(m, made, a, b), Receive(j), At(m, made, a2, b2))
    BY <1>1, <1>2 DEF Free, Receive, Statements, Does, At, Exec
  <1>. QED  BY <1>1, <1>3, <1>4, <1>5

(* What may be seen, for a state with its lists.                           *)
LEMMA SeenAt ==
    ASSUME NEW m \in [Cells -> Pointers], NEW made, made \subseteq JobIds,
           NEW a, NEW b, Spelled(m, made, FIRST, a), Spelled(m, made, FINISHED, b),
           NEW at, NEW q, b[Len(b)] = NULL, a[Len(a)] = NULL \/ at.op = "newjob",
           Range(q) \ Range(a) \subseteq MayMiss(at)
    PROVE  Seen(At(m, made, a, b), at, q) /\ Lists(At(m, made, a, b))
  BY DEF Seen, Lists, At

(* One more statement of a program.                                        *)
LEMMA PlanOne ==
    ASSUME NEW c, NEW d, NEW e, NEW at, NEW q, NEW prog \in Seq(Statements),
           NEW s \in Statements, Planned(c, prog, d, at, q),
           Does(d, s, e), Seen(e, at, q)
    PROVE  /\ prog \o <<s>> \in Seq(Statements)
           /\ prog \o <<s>> # <<>>
           /\ Planned(c, prog \o <<s>>, e, at, q)
  <1>1. prog \o <<s>> = Append(prog, s)
    OBVIOUS
  <1>2. Append(prog, s) \in Seq(Statements) /\ Append(prog, s) # <<>>
    BY AppendProperties
  <1>. QED  BY <1>1, <1>2, PlanAppend

(* Two more statements.                                                    *)
LEMMA PlanTwo ==
    ASSUME NEW c, NEW d, NEW e, NEW f, NEW at, NEW q, NEW prog \in Seq(Statements),
           NEW s \in Statements, NEW t \in Statements, Planned(c, prog, d, at, q),
           Does(d, s, e), Seen(e, at, q), Does(e, t, f), Seen(f, at, q)
    PROVE  /\ prog \o <<s, t>> \in Seq(Statements)
           /\ prog \o <<s, t>> # <<>>
           /\ Planned(c, prog \o <<s, t>>, f, at, q)
  <1>1. PICK p : p = prog \o <<s>>
    OBVIOUS
  <1>2. p \in Seq(Statements) /\ Planned(c, p, e, at, q)
    BY <1>1, PlanOne
  <1>3. PICK r : r = p \o <<t>>
    OBVIOUS
  <1>4. r \in Seq(Statements) /\ r # <<>> /\ Planned(c, r, f, at, q)
    BY <1>2, <1>3, PlanOne
  <1>5. r = prog \o <<s, t>>
    <2>1. /\ <<s, t>> = <<s>> \o <<t>> /\ <<s>> \in Seq(Statements)
          /\ <<t>> \in Seq(Statements)
      <3>1. <<s>> \in Seq(Statements) /\ <<t>> \in Seq(Statements)
        OBVIOUS
      <3>2. Append(<<s>>, t) = <<s, t>>
        BY AppendPair
      <3>3. <<s>> \o <<t>> = Append(<<s>>, t)
        OBVIOUS
      <3>. QED  BY <3>1, <3>2, <3>3
    <2>2. (prog \o <<s>>) \o <<t>> = prog \o (<<s>> \o <<t>>)
      BY <2>1, ConcatAssociative
    <2>. QED  BY <1>1, <1>3, <2>1, <2>2
  <1>. QED  BY <1>4, <1>5

-----------------------------------------------------------------------------
(* No job is in both lists.                                                *)
Separate(a, b) ==
    \A i \in 1 .. (Len(a) - 1) : \A n \in 1 .. (Len(b) - 1) : a[i] # b[n]

Heads == {FIRST, FINISHED}

(* The places of a list may be used, and the jobs behind them.             *)
LEMMA PlaceUsable ==
    ASSUME NEW m, NEW made, made \subseteq JobIds, NEW head \in Heads, NEW a,
           Spelled(m, made, head, a), NEW k \in 1 .. Len(a)
    PROVE  /\ Place(head, a, k) \in Usable(made)
           /\ m[Place(head, a, k)] = a[k]
           /\ \A j \in JobIds : (k = 1 \/ a[k - 1] # j) => Place(head, a, k) # N(j)
           /\ k # 1 => Place(head, a, k) = N(a[k - 1]) /\ k - 1 \in 1 .. (Len(a) - 1)
           /\ a[k] \in Pointers
  <1>1. Chain(m, made, a) /\ m[head] = a[1] /\ head \in {FIRST, FINISHED}
    BY DEF Spelled, Heads
  <1>2. Len(a) \in Nat \ {0} /\ a[k] \in Pointers
    BY <1>1, ChainFacts
  <1>3. CASE k = 1
    BY <1>1, <1>2, <1>3, CellFacts DEF Place, Usable
  <1>4. CASE k # 1
    <2>1. k - 1 \in 1 .. (Len(a) - 1) /\ (k - 1) + 1 = k
      BY <1>2, <1>4
    <2>2. a[k - 1] \in made /\ m[N(a[k - 1])] = a[(k - 1) + 1]
      BY <1>1, <2>1 DEF Chain
    <2>3. Place(head, a, k) = N(a[k - 1])
      BY <1>4 DEF Place
    <2>. QED  BY <1>2, <1>4, <2>1, <2>2, <2>3, CellFacts DEF Usable
  <1>. QED  BY <1>3, <1>4

(* An assignment to a place of one list does not change the other.         *)
LEMMA Aside ==
    ASSUME NEW m \in [Cells -> Pointers], NEW made, made \subseteq JobIds,
           NEW head \in Heads, NEW head2 \in Heads \ {head}, NEW a, NEW b,
           Spelled(m, made, head, a), Spelled(m, made, head2, b),
           Separate(a, b), NEW k \in 1 .. Len(a), NEW v
    PROVE  Spelled([m EXCEPT ![Place(head, a, k)] = v], made, head2, b)
  <1>1. PICK x : x = Place(head, a, k)
    OBVIOUS
  <1>2. /\ x \in Usable(made)
        /\ \A j \in JobIds : (k = 1 \/ a[k - 1] # j) => x # N(j)
        /\ k = 1 => x = head
        /\ k # 1 => x = N(a[k - 1]) /\ k - 1 \in 1 .. (Len(a) - 1)
    <2>1. k = 1 => x = head
      BY <1>1 DEF Place
    <2>2. Place(head, a, k) \in Usable(made)
      BY PlaceUsable
    <2>3. k # 1 => Place(head, a, k) = N(a[k - 1]) /\ k - 1 \in 1 .. (Len(a) - 1)
      BY PlaceUsable
    <2>4. k # 1 => a[k - 1] \in JobIds
      BY <2>3, ChainFacts DEF Spelled
    <2>5. ASSUME NEW j \in JobIds, k = 1 \/ a[k - 1] # j
          PROVE  Place(head, a, k) # N(j)
      <3>1. CASE k = 1
        BY <1>1, <2>1, <3>1, CellFacts DEF Heads
      <3>2. CASE k # 1
        BY <2>5, <2>3, <2>4, <3>2, CellFacts
      <3>. QED  BY <3>1, <3>2
    <2>. QED  BY <1>1, <2>1, <2>2, <2>5, <2>3
  <1>3. Chain(m, made, b) /\ m[head2] = b[1] /\ Chain(m, made, a)
    BY DEF Spelled
  <1>4. \A n \in 1 .. (Len(b) - 1) : b[n] \in made /\ b[n] \in JobIds
    BY <1>3 DEF Chain
  <1>5. \A n \in 1 .. (Len(b) - 1) : x # N(b[n]) /\ b[n] \in made
    BY <1>2, <1>4 DEF Separate
  <1>6. x \in Cells /\ head2 \in Cells \ {x}
    <2>1. k # 1 => a[k - 1] \in JobIds
      BY <1>2, <1>3 DEF Chain
    <2>. QED  BY <1>2, <2>1, CellFacts DEF Usable, Heads
  <1>. QED  BY <1>1, <1>3, <1>5, <1>6, Elsewhere

(* The same, for a place x.                                                *)
LEMMA AsideAt ==
    ASSUME NEW m \in [Cells -> Pointers], NEW made, made \subseteq JobIds,
           NEW head \in Heads, NEW head2 \in Heads \ {head}, NEW a, NEW b,
           Spelled(m, made, head, a), Spelled(m, made, head2, b),
           Separate(a, b), NEW k \in 1 .. Len(a), NEW x, x = Place(head, a, k), NEW v,
           NEW m2, m2 = [m EXCEPT ![x] = v]
    PROVE  Spelled(m2, made, head2, b)
  BY Aside

(* destroy_job, or an assignment to next, of a job that is not in a list.  *)
LEMMA Destroyed ==
    ASSUME NEW m \in [Cells -> Pointers], NEW made, made \subseteq JobIds,
           NEW made2 \in SUBSET made, NEW head \in Heads, NEW a,
           Spelled(m, made, head, a), NEW j \in JobIds, NEW v,
           \A n \in 1 .. (Len(a) - 1) : a[n] # j, made \ {j} \subseteq made2
    PROVE  Spelled([m EXCEPT ![N(j)] = v], made2, head, a)
  <1>1. Chain(m, made, a) /\ m[head] = a[1]
    BY DEF Spelled
  <1>2. N(j) \in Cells /\ head \in Cells \ {N(j)}
    BY CellFacts DEF Heads
  <1>3. \A n \in 1 .. (Len(a) - 1) : N(j) # N(a[n]) /\ a[n] \in made2
    BY <1>1, CellFacts DEF Chain
  <1>. QED  BY <1>1, <1>2, <1>3, Elsewhere

(* A list without one of its jobs.                                         *)
LEMMA CutGone ==
    ASSUME NEW m, NEW made, made \subseteq JobIds, NEW a, Chain(m, made, a),
           NEW k \in 1 .. (Len(a) - 1)
    PROVE  /\ Len(RemoveAt(a, k)) = Len(a) - 1
           /\ \A n \in 1 .. (Len(a) - 1) : RemoveAt(a, k)[n] # a[k]
  <1>1. /\ Len(a) \in Nat \ {0} /\ a \in Seq(Pointers) /\ DOMAIN a = 1 .. Len(a)
        /\ \A n \in 1 .. Len(a) : a[n] \in Pointers
    BY ChainFacts DEF Chain
  <1>2. \A i, j \in 1 .. Len(a) : a[i] = a[j] => i = j
    BY ChainOnce
  <1>3. k + 1 \in 1 .. Len(a) /\ k \in 1 .. Len(a)
    BY <1>1
  <1>5. /\ Len(RemoveAt(a, k)) = Len(a) - 1
        /\ \A n \in 1 .. (Len(a) - 1) :
             RemoveAt(a, k)[n] = IF n < k THEN a[n] ELSE a[n + 1]
    <2>1. k \in DOMAIN a
      BY <1>1, <1>3
    <2>. QED  BY <1>1, <2>1, RemoveAtSeq
  <1>6. ASSUME NEW n \in 1 .. (Len(a) - 1)
        PROVE  RemoveAt(a, k)[n] # a[k]
    <2>1. CASE n < k
      <3>1. n \in 1 .. Len(a) /\ n # k
        BY <1>1, <2>1
      <3>. QED  BY <1>2, <1>3, <1>5, <2>1, <3>1
    <2>2. CASE ~(n < k)
      <3>1. n + 1 \in 1 .. Len(a) /\ n + 1 # k
        BY <1>1, <2>2
      <3>. QED  BY <1>2, <1>3, <1>5, <2>2, <3>1
    <2>. QED  BY <2>1, <2>2
  <1>. QED  BY <1>5, <1>6

(* A job is taken out of a list.                                           *)
LEMMA CutOut ==
    ASSUME NEW m \in [Cells -> Pointers], NEW made, made \subseteq JobIds,
           NEW head \in Heads, NEW a, Spelled(m, made, head, a),
           NEW k \in 1 .. (Len(a) - 1)
    PROVE  Spelled([m EXCEPT ![Place(head, a, k)] = a[k + 1]], made, head,
                   RemoveAt(a, k))
  <1>1. Chain(m, made, a) /\ m[head] = a[1] /\ head \in {FIRST, FINISHED}
    BY DEF Spelled, Heads
  <1>2. /\ Len(a) \in Nat \ {0} /\ a \in Seq(Pointers) /\ DOMAIN a = 1 .. Len(a)
        /\ \A n \in 1 .. Len(a) : a[n] \in Pointers
        /\ \A i, j \in 1 .. Len(a) : a[i] = a[j] => i = j
    <2>1. /\ Len(a) \in Nat \ {0} /\ DOMAIN a = 1 .. Len(a)
          /\ \A n \in 1 .. Len(a) : a[n] \in Pointers
      BY <1>1, ChainFacts
    <2>2. \A i, j \in 1 .. Len(a) : a[i] = a[j] => i = j
      BY <1>1, ChainOnce
    <2>. QED  BY <1>1, <2>1, <2>2 DEF Chain
  <1>3. PICK c : c = SubSeq(a, k + 1, Len(a))
    OBVIOUS
  <1>4. k + 1 \in 1 .. Len(a) /\ k \in 1 .. Len(a)
    BY <1>2
  <1>5. /\ Chain(m, made, c) /\ Len(c) = Len(a) - (k + 1) + 1
        /\ \A n \in 1 .. (Len(a) - (k + 1) + 1) : c[n] = a[(k + 1) + n - 1]
    <2>1. PICK l \in 1 .. Len(a) : l = k + 1
      BY <1>4
    <2>2. /\ Chain(m, made, SubSeq(a, l, Len(a)))
          /\ Len(SubSeq(a, l, Len(a))) = Len(a) - l + 1
          /\ \A n \in 1 .. (Len(a) - l + 1) : SubSeq(a, l, Len(a))[n] = a[l + n - 1]
      BY <1>1, SubChain
    <2>. QED  BY <1>3, <2>1, <2>2
  <1>6. c[1] = a[k + 1]
    <2>1. 1 \in 1 .. (Len(a) - (k + 1) + 1) /\ (k + 1) + 1 - 1 = k + 1
      BY <1>2, <1>4
    <2>. QED  BY <1>5, <2>1
  <1>7. ASSUME k # 1, NEW n \in 1 .. (Len(c) - 1)
        PROVE  c[n] # a[k - 1]
    <2>1. /\ n \in 1 .. (Len(a) - (k + 1) + 1) /\ (k + 1) + n - 1 \in 1 .. Len(a)
          /\ (k + 1) + n - 1 # k - 1 /\ k - 1 \in 1 .. Len(a)
      BY <1>2, <1>4, <1>5, <1>7
    <2>. QED  BY <1>2, <1>5, <2>1
  <1>8. Spelled([m EXCEPT ![Place(head, a, k)] = c[1]], made, head,
                SubSeq(a, 1, k - 1) \o c)
    BY <1>1, <1>4, <1>5, <1>7, Relink
  <1>9. RemoveAt(a, k) = SubSeq(a, 1, k - 1) \o c
    BY <1>3 DEF RemoveAt
  <1>. QED  BY <1>6, <1>8, <1>9

(* The NULL at the end does not matter.                                    *)
LEMMA RemoveTerminated ==
    ASSUME NEW s \in Seq(JobIds), NEW k \in 1 .. Len(s)
    PROVE  /\ RemoveAt(Append(s, NULL), k) = Append(RemoveAt(s, k), NULL)
           /\ RemoveAt(s, k) \in Seq(JobIds)
  <1> DEFINE L == Append(s, NULL)
             r == RemoveAt(s, k)
             R == Append(r, NULL)
  <1>1. /\ L \in Seq(Pointers) /\ Len(s) \in Nat /\ Len(L) = Len(s) + 1
        /\ \A n \in 1 .. Len(s) : L[n] = s[n]
        /\ L[Len(s) + 1] = NULL /\ DOMAIN s = 1 .. Len(s)
    BY Terminated
  <1>2. /\ r \in Seq(JobIds) /\ Len(r) = Len(s) - 1
        /\ \A n \in 1 .. (Len(s) - 1) : r[n] = IF n < k THEN s[n] ELSE s[n + 1]
    BY <1>1, RemoveAtSeq
  <1> HIDE DEF r
  <1>3. /\ R \in Seq(Pointers) /\ Len(R) = Len(r) + 1
        /\ \A n \in 1 .. Len(r) : R[n] = r[n]
        /\ R[Len(r) + 1] = NULL
    BY <1>2, Terminated
  <1> HIDE DEF L, R
  <1>4. /\ RemoveAt(L, k) \in Seq(Pointers) /\ Len(RemoveAt(L, k)) = Len(L) - 1
        /\ \A n \in 1 .. (Len(L) - 1) :
             RemoveAt(L, k)[n] = IF n < k THEN L[n] ELSE L[n + 1]
    <2>1. k \in DOMAIN L
      BY <1>1, LenProperties
    <2>. QED  BY <1>1, <2>1, RemoveAtSeq
  <1>5. ASSUME NEW n \in 1 .. Len(s)
        PROVE  RemoveAt(L, k)[n] = R[n]
    <2>1. RemoveAt(L, k)[n] = IF n < k THEN L[n] ELSE L[n + 1]
      BY <1>1, <1>4
    <2>2. CASE n < k
      <3>1. n \in 1 .. (Len(s) - 1) /\ n \in 1 .. Len(r)
        BY <1>1, <1>2, <2>2
      <3>. QED  BY <1>1, <1>2, <1>3, <2>1, <2>2, <3>1
    <2>3. CASE ~(n < k) /\ n # Len(s)
      <3>0. Len(s) \in Nat
        BY <1>1
      <3>1. n \in 1 .. (Len(s) - 1) /\ n + 1 \in 1 .. Len(s)
        BY <2>3, <3>0
      <3>2. n \in 1 .. Len(r)
        BY <1>2, <3>1
      <3>. QED  BY <1>1, <1>2, <1>3, <2>1, <2>3, <3>1, <3>2
    <2>4. CASE ~(n < k) /\ n = Len(s)
      <3>1. n + 1 = Len(s) + 1 /\ n = Len(r) + 1
        BY <1>1, <1>2, <2>4
      <3>. QED  BY <1>1, <1>3, <2>1, <2>4, <3>1
    <2>. QED  BY <2>2, <2>3, <2>4
  <1>6. RemoveAt(L, k) = R
    <2>1. Len(R) = Len(s) /\ Len(RemoveAt(L, k)) = Len(s)
      BY <1>1, <1>2, <1>3, <1>4
    <2>. QED  BY <1>3, <1>4, <1>5, <2>1, SeqEqual
  <1>. QED  BY <1>2, <1>6 DEF L, R, r

(* Job j is not in the list.                                               *)
Absent(j, a) == \A n \in 1 .. (Len(a) - 1) : a[n] # j

(* Two lists that end, in the memory m.                                    *)
Sound(m, made, head, a, head2, b) ==
    /\ m \in [Cells -> Pointers] /\ made \subseteq JobIds
    /\ Spelled(m, made, head, a) /\ Spelled(m, made, head2, b)
    /\ Separate(a, b)
    /\ a[Len(a)] = NULL /\ b[Len(b)] = NULL

(* Neither of them is the first.                                           *)
LEMMA SoundTurned ==
    ASSUME NEW m, NEW made, NEW head, NEW a, NEW head2, NEW b,
           Sound(m, made, head, a, head2, b)
    PROVE  Sound(m, made, head2, b, head, a)
  BY DEF Sound, Separate

(* A job is taken out of one of them.                                      *)
LEMMA SoundCut ==
    ASSUME NEW m, NEW made, NEW head \in Heads, NEW head2 \in Heads \ {head},
           NEW a, NEW b, Sound(m, made, head, a, head2, b),
           NEW k \in 1 .. (Len(a) - 1)
    PROVE  /\ Sound([m EXCEPT ![Place(head, a, k)] = a[k + 1]], made,
                    head, RemoveAt(a, k), head2, b)
           /\ Place(head, a, k) \in Usable(made) /\ N(a[k]) \in Usable(made)
           /\ a[k] \in made /\ m[N(a[k])] = a[k + 1] /\ a[k + 1] \in Pointers
           /\ Absent(a[k], RemoveAt(a, k)) /\ Absent(a[k], b)
  <1>1. /\ m \in [Cells -> Pointers] /\ made \subseteq JobIds
        /\ Spelled(m, made, head, a) /\ Spelled(m, made, head2, b)
        /\ Separate(a, b) /\ a[Len(a)] = NULL /\ b[Len(b)] = NULL
    BY DEF Sound
  <1>2. Len(a) \in Nat \ {0} /\ Len(b) \in Nat \ {0}
    BY <1>1, ChainFacts DEF Spelled
  <1>3. /\ a[k] \in made /\ m[N(a[k])] = a[k + 1] /\ a[k + 1] \in Pointers
    <2>1. Chain(m, made, a) /\ \A n \in 1 .. Len(a) : a[n] \in Pointers
      BY <1>1, ChainFacts DEF Spelled
    <2>2. k + 1 \in 1 .. Len(a)
      BY <1>2
    <2>. QED  BY <2>1, <2>2 DEF Chain
  <1>4. /\ Len(RemoveAt(a, k)) = Len(a) - 1
        /\ \A n \in 1 .. (Len(a) - 1) :
             RemoveAt(a, k)[n] = IF n < k THEN a[n] ELSE a[n + 1]
        /\ \A n \in 1 .. (Len(a) - 1) : RemoveAt(a, k)[n] # a[k]
    <2>0. Chain(m, made, a) /\ made \subseteq JobIds
      BY <1>1 DEF Spelled
    <2>1. Len(RemoveAt(a, k)) = Len(a) - 1
      BY <2>0, CutGone
    <2>2. \A n \in 1 .. (Len(a) - 1) :
            RemoveAt(a, k)[n] = IF n < k THEN a[n] ELSE a[n + 1]
      <3>1. a \in Seq(Pointers) /\ k \in DOMAIN a
        BY <1>2, <2>0, LenProperties DEF Chain
      <3>. QED  BY <3>1, RemoveAtSeq
    <2>3. \A n \in 1 .. (Len(a) - 1) : RemoveAt(a, k)[n] # a[k]
      BY <2>0, CutGone
    <2>. QED  BY <2>1, <2>2, <2>3
  <1>5. PICK m2 : m2 = [m EXCEPT ![Place(head, a, k)] = a[k + 1]]
    OBVIOUS
  <1>6. Spelled(m2, made, head, RemoveAt(a, k))
    BY <1>1, <1>5, CutOut
  <1>7. k \in 1 .. Len(a)
    BY <1>2
  <1>8. Place(head, a, k) \in Usable(made)
    BY <1>1, <1>7, PlaceUsable
  <1>9. m2 \in [Cells -> Pointers]
    BY <1>1, <1>3, <1>5, <1>8, StatementFacts
  <1>10. Spelled(m2, made, head2, b)
    BY <1>1, <1>5, <1>7, Aside
  <1>11. PICK r : r = RemoveAt(a, k)
    OBVIOUS
  <1>12. Separate(r, b)
    <2>1. ASSUME NEW i \in 1 .. (Len(r) - 1), NEW n \in 1 .. (Len(b) - 1)
          PROVE  r[i] # b[n]
      <3>1. i \in 1 .. (Len(a) - 1) /\ (~(i < k) => i + 1 \in 1 .. (Len(a) - 1))
        BY <1>2, <1>4, <1>11
      <3>. QED  BY <1>1, <1>4, <1>11, <3>1 DEF Separate
    <2>. QED  BY <2>1 DEF Separate
  <1>13. r[Len(r)] = NULL
    <2>1. /\ Len(r) \in 1 .. (Len(a) - 1) /\ ~(Len(r) < k) /\ Len(r) + 1 = Len(a)
      BY <1>2, <1>4, <1>11
    <2>. QED  BY <1>1, <1>4, <1>11, <2>1
  <1>14. Absent(a[k], r) /\ Absent(a[k], b)
    <2>1. \A n \in 1 .. (Len(r) - 1) : n \in 1 .. (Len(a) - 1)
      BY <1>2, <1>4, <1>11
    <2>. QED  BY <1>1, <1>4, <1>11, <2>1 DEF Absent, Separate
  <1>15. N(a[k]) \in Usable(made)
    BY <1>3 DEF Usable
  <1>16. Sound(m2, made, head, r, head2, b)
    BY <1>1, <1>6, <1>9, <1>10, <1>11, <1>12, <1>13 DEF Sound
  <1>. QED  BY <1>3, <1>4, <1>5, <1>8, <1>11, <1>14, <1>15, <1>16

(* The next pointer of a job that is in neither is changed, and the job    *)
(* may be destroyed.                                                       *)
LEMMA SoundStray ==
    ASSUME NEW m, NEW made, NEW head \in Heads, NEW head2 \in Heads \ {head},
           NEW a, NEW b, Sound(m, made, head, a, head2, b), NEW j \in made,
           Absent(j, a), Absent(j, b),
           NEW v \in Pointers, NEW made2, made2 \subseteq made, made \ {j} \subseteq made2
    PROVE  Sound([m EXCEPT ![N(j)] = v], made2, head, a, head2, b)
  <1>1. /\ m \in [Cells -> Pointers] /\ made \subseteq JobIds /\ j \in JobIds
        /\ Spelled(m, made, head, a) /\ Spelled(m, made, head2, b)
        /\ Separate(a, b) /\ a[Len(a)] = NULL /\ b[Len(b)] = NULL
        /\ made2 \in SUBSET made
        /\ made2 \subseteq JobIds /\ head2 \in Heads
    BY DEF Sound
  <1>2. PICK m2 : m2 = [m EXCEPT ![N(j)] = v]
    OBVIOUS
  <1>3. Spelled(m2, made2, head, a)
    BY <1>1, <1>2, Destroyed DEF Absent
  <1>4. Spelled(m2, made2, head2, b)
    BY <1>1, <1>2, Destroyed DEF Absent
  <1>5. m2 \in [Cells -> Pointers]
    BY <1>1, <1>2, CellFacts
  <1>. QED  BY <1>1, <1>2, <1>3, <1>4, <1>5 DEF Sound

(* The statements prog of an operation lead from c to these lists.         *)
Stage(c, prog, m, made, a, b, at, q) ==
    /\ prog \in Seq(Statements)
    /\ Sound(m, made, FIRST, a, FINISHED, b)
    /\ Planned(c, prog, At(m, made, a, b), at, q)

(* What may be seen of sound lists.                                        *)
LEMMA SoundSeen ==
    ASSUME NEW m, NEW made, NEW a, NEW b, Sound(m, made, FIRST, a, FINISHED, b),
           NEW at, NEW q, Range(q) \ Range(a) \subseteq MayMiss(at)
    PROVE  Seen(At(m, made, a, b), at, q) /\ Lists(At(m, made, a, b))
  BY SeenAt DEF Sound

(* What Server calls the queue and the results.                            *)
LEMMA SoundNow ==
    ASSUME IInv, Ready
    PROVE  Sound(mem, Made, FIRST, Append(queue, NULL), FINISHED, Append(results, NULL))
  <1>1. /\ Spelled(mem, Made, FIRST, Append(queue, NULL))
        /\ Spelled(mem, Made, FINISHED, Append(results, NULL))
    BY ReadyFacts
  <1>2. /\ mem \in [Cells -> Pointers] /\ queue \in Seq(JobIds) /\ results \in Seq(JobIds)
        /\ Apart /\ Made \subseteq JobIds
    BY DEF IInv, Types, Made
  <1>3. PICK a, b : a = Append(queue, NULL) /\ b = Append(results, NULL)
    OBVIOUS
  <1>4. /\ Len(queue) \in Nat /\ Len(a) = Len(queue) + 1 /\ DOMAIN queue = 1 .. Len(queue)
        /\ \A n \in 1 .. Len(queue) : a[n] = queue[n]
        /\ a[Len(queue) + 1] = NULL
    BY <1>2, <1>3, Terminated
  <1>5. /\ Len(results) \in Nat /\ Len(b) = Len(results) + 1
        /\ DOMAIN results = 1 .. Len(results)
        /\ \A n \in 1 .. Len(results) : b[n] = results[n]
        /\ b[Len(results) + 1] = NULL
    BY <1>2, <1>3, Terminated
  <1>6. Separate(a, b)
    <2>1. \A i \in 1 .. Len(queue) : a[i] \in Range(queue)
      BY <1>4 DEF Range
    <2>2. \A i \in 1 .. Len(results) : b[i] \in Range(results)
      BY <1>5 DEF Range
    <2>3. Len(a) - 1 = Len(queue) /\ Len(b) - 1 = Len(results)
      BY <1>4, <1>5
    <2>. QED  BY <1>2, <2>1, <2>2, <2>3 DEF Separate, Apart
  <1>. QED  BY <1>1, <1>2, <1>3, <1>4, <1>5, <1>6 DEF Sound

(* Before the first statement.                                             *)
LEMMA StageStart ==
    ASSUME IInv, Ready, NEW at, NEW q, Range(q) \ Range(queue) \subseteq MayMiss(at)
    PROVE  Stage(At(mem, Made, Append(queue, NULL), Append(results, NULL)), <<>>,
                 mem, Made, Append(queue, NULL), Append(results, NULL), at, q)
  <1>1. PICK a, b : a = Append(queue, NULL) /\ b = Append(results, NULL)
    OBVIOUS
  <1>2. Sound(mem, Made, FIRST, a, FINISHED, b)
    BY <1>1, SoundNow
  <1>3. Range(queue) \subseteq Range(a)
    BY <1>1, Terminated DEF IInv, Types
  <1>4. Seen(At(mem, Made, a, b), at, q)
    BY <1>2, <1>3, SoundSeen
  <1>5. <<>> \in Seq(Statements)
    BY EmptySeq
  <1>. QED  BY <1>1, <1>2, <1>4, <1>5, PlanEmpty DEF Stage

(* Behind the last statement.                                              *)
LEMMA StageEnd ==
    ASSUME IInv, Ready, NEW op, NEW j, NEW prog, prog # <<>>,
           NEW q \in Seq(JobIds), NEW r \in Seq(JobIds), Begin(op, j, prog, q, r),
           Range(q) \cap Range(r) = {},
           job' \in [JobIds -> {"unused", "made", "freed"}],
           \A x \in JobIds : job'[x] = "unused" => job[x] = "unused",
           NEW a, NEW b, NEW m, NEW made,
           Stage(At(mem, Made', a, b), prog, m, made, Append(q, NULL), Append(r, NULL),
                 [op |-> op, job |-> j, behind |-> Behind(j)], q)
    PROVE  IInv'
  <1>1. PICK c : c = At(mem, Made', a, b)
    OBVIOUS
  <1>2. PICK d : d = At(m, made, Append(q, NULL), Append(r, NULL))
    OBVIOUS
  <1>3. /\ prog \in Seq(Statements)
        /\ Planned(c, prog, d, [op |-> op, job |-> j, behind |-> Behind(j)], q)
        /\ Sound(m, made, FIRST, Append(q, NULL), FINISHED, Append(r, NULL))
    BY <1>1, <1>2 DEF Stage
  <1>4. c.mem = mem /\ c.made = Made'
    BY <1>1 DEF At
  <1>5. Reached(d, q, r)
    BY <1>2, <1>3 DEF Reached, Lists, At, Sound
  <1>. QED  BY <1>3, <1>4, <1>5, BeginStep

-----------------------------------------------------------------------------
(* s_remove_job, the end of the oldest result and destroy_finished_job: a  *)
(* job is taken out of its list and destroyed.                             *)
LEMMA SoundDestroy ==
    ASSUME NEW m, NEW made, NEW head \in Heads, NEW head2 \in Heads \ {head},
           NEW a, NEW b, Sound(m, made, head, a, head2, b),
           NEW k \in 1 .. (Len(a) - 1),
           NEW m2, m2 = [m EXCEPT ![Place(head, a, k)] = a[k + 1]],
           NEW m3, m3 = [m2 EXCEPT ![N(a[k])] = Garbage]
    PROVE  /\ Sound(m2, made, head, RemoveAt(a, k), head2, b)
           /\ Sound(m3, made \ {a[k]}, head, RemoveAt(a, k), head2, b)
  <1>1. PICK r : r = RemoveAt(a, k)
    OBVIOUS
  <1>2. PICK j : j = a[k]
    OBVIOUS
  <1>3. Sound(m2, made, head, r, head2, b)
    BY <1>1, SoundCut
  <1>4. j \in made /\ Absent(j, r) /\ Absent(j, b)
    BY <1>1, <1>2, SoundCut
  <1>7. Garbage \in Pointers
    BY DEF Pointers
  <1>8. Sound([m2 EXCEPT ![N(j)] = Garbage], made \ {j}, head, r, head2, b)
    <2>1. PICK made2 : made2 = made \ {j}
      OBVIOUS
    <2>2. Sound([m2 EXCEPT ![N(j)] = Garbage], made2, head, r, head2, b)
      BY <1>3, <1>4, <1>7, <2>1, SoundStray
    <2>. QED  BY <2>1, <2>2
  <1>. QED  BY <1>1, <1>2, <1>3, <1>8

(* The two statements for it.                                              *)
LEMMA DestroyDoes ==
    ASSUME NEW m \in [Cells -> Pointers], NEW made, made \subseteq JobIds,
           NEW x \in Usable(made), NEW j \in made,
           NEW m2, m2 = [m EXCEPT ![x] = m[N(j)]],
           NEW m3, m3 = [m2 EXCEPT ![N(j)] = Garbage],
           NEW a, NEW b, NEW a2, NEW b2
    PROVE  /\ Copy(x, N(j)) \in Statements /\ Free(j) \in Statements
           /\ Does(At(m, made, a, b), Copy(x, N(j)), At(m2, made, a2, b2))
           /\ Does(At(m2, made, a2, b2), Free(j), At(m3, made \ {j}, a2, b2))
  <1>1. N(j) \in Usable(made)
    BY DEF Usable
  <1>2. /\ Copy(x, N(j)) \in Statements /\ m[N(j)] \in Pointers
        /\ Does(At(m, made, a, b), Copy(x, N(j)), At(m2, made, a2, b2))
    BY <1>1, StatementFacts
  <1>3. m2 \in [Cells -> Pointers]
    BY <1>2, StatementFacts
  <1>4. /\ Free(j) \in Statements
        /\ Does(At(m2, made, a2, b2), Free(j), At(m3, made \ {j}, a2, b2))
    BY <1>3, StatementFacts
  <1>. QED  BY <1>2, <1>4

(* From the queue.                                                         *)
LEMMA StageDestroyQueued ==
    ASSUME NEW c, NEW prog, NEW m, NEW made, NEW a, NEW b, NEW at, NEW q,
           Stage(c, prog, m, made, a, b, at, q), NEW k \in 1 .. (Len(a) - 1),
           Range(q) \ Range(RemoveAt(a, k)) \subseteq MayMiss(at),
           NEW p, p = prog \o <<Copy(Place(FIRST, a, k), N(a[k])), Free(a[k])>>
    PROVE  /\ p # <<>>
           /\ \E m3 : Stage(c, p, m3, made \ {a[k]}, RemoveAt(a, k), b, at, q)
  <1>0. FIRST \in Heads /\ FINISHED \in Heads \ {FIRST}
    BY CellFacts DEF Heads
  <1>1. Sound(m, made, FIRST, a, FINISHED, b) /\ prog \in Seq(Statements)
    BY DEF Stage
  <1>2. PICK x, j, r : x = Place(FIRST, a, k) /\ j = a[k] /\ r = RemoveAt(a, k)
    OBVIOUS
  <1>3. PICK m2 : m2 = [m EXCEPT ![x] = a[k + 1]]
    OBVIOUS
  <1>4. PICK m3 : m3 = [m2 EXCEPT ![N(j)] = Garbage]
    OBVIOUS
  <1>5. /\ Sound(m2, made, FIRST, r, FINISHED, b)
        /\ Sound(m3, made \ {j}, FIRST, r, FINISHED, b)
    BY <1>0, <1>1, <1>2, <1>3, <1>4, SoundDestroy
  <1>6. x \in Usable(made) /\ j \in made /\ m[N(j)] = a[k + 1]
    <2>1. Place(FIRST, a, k) \in Usable(made)
      BY <1>0, <1>1, SoundCut
    <2>2. a[k] \in made /\ m[N(a[k])] = a[k + 1]
      BY <1>1 DEF Sound, Spelled, Chain
    <2>. QED  BY <1>2, <2>1, <2>2
  <1>7. m \in [Cells -> Pointers] /\ made \subseteq JobIds
    BY <1>1 DEF Sound
  <1>8. PICK s, t : s = Copy(x, N(j)) /\ t = Free(j)
    OBVIOUS
  <1>9. m2 = [m EXCEPT ![x] = m[N(j)]]
    BY <1>3, <1>6
  <1>10. /\ s \in Statements /\ t \in Statements
         /\ Does(At(m, made, a, b), s, At(m2, made, r, b))
         /\ Does(At(m2, made, r, b), t, At(m3, made \ {j}, r, b))
    BY <1>4, <1>6, <1>7, <1>8, <1>9, DestroyDoes
  <1>11. Seen(At(m2, made, r, b), at, q) /\ Seen(At(m3, made \ {j}, r, b), at, q)
    BY <1>2, <1>5, SoundSeen
  <1>12. Planned(c, prog, At(m, made, a, b), at, q)
    BY DEF Stage
  <1>13. p = prog \o <<s, t>>
    BY <1>2, <1>8
  <1>14. p \in Seq(Statements) /\ p # <<>> /\ Planned(c, p, At(m3, made \ {j}, r, b), at, q)
    BY <1>1, <1>10, <1>11, <1>12, <1>13, PlanTwo
  <1>15. Stage(c, p, m3, made \ {j}, r, b, at, q)
    BY <1>5, <1>14 DEF Stage
  <1>. QED  BY <1>2, <1>14, <1>15

(* From the list of results.                                               *)
LEMMA StageDestroyFinished ==
    ASSUME NEW c, NEW prog, NEW m, NEW made, NEW a, NEW b, NEW at, NEW q,
           Stage(c, prog, m, made, a, b, at, q), NEW k \in 1 .. (Len(b) - 1),
           Range(q) \ Range(a) \subseteq MayMiss(at),
           NEW p, p = prog \o <<Copy(Place(FINISHED, b, k), N(b[k])), Free(b[k])>>
    PROVE  /\ p # <<>>
           /\ \E m3 : Stage(c, p, m3, made \ {b[k]}, a, RemoveAt(b, k), at, q)
  <1>0. FINISHED \in Heads /\ FIRST \in Heads \ {FINISHED}
    BY CellFacts DEF Heads
  <1>1. Sound(m, made, FINISHED, b, FIRST, a) /\ prog \in Seq(Statements)
    BY SoundTurned DEF Stage
  <1>2. PICK x, j, r : x = Place(FINISHED, b, k) /\ j = b[k] /\ r = RemoveAt(b, k)
    OBVIOUS
  <1>3. PICK m2 : m2 = [m EXCEPT ![x] = b[k + 1]]
    OBVIOUS
  <1>4. PICK m3 : m3 = [m2 EXCEPT ![N(j)] = Garbage]
    OBVIOUS
  <1>5. /\ Sound(m2, made, FINISHED, r, FIRST, a)
        /\ Sound(m3, made \ {j}, FINISHED, r, FIRST, a)
    BY <1>0, <1>1, <1>2, <1>3, <1>4, SoundDestroy
  <1>6. x \in Usable(made) /\ j \in made /\ m[N(j)] = b[k + 1]
    <2>1. Place(FINISHED, b, k) \in Usable(made)
      BY <1>0, <1>1, SoundCut
    <2>2. b[k] \in made /\ m[N(b[k])] = b[k + 1]
      BY <1>1 DEF Sound, Spelled, Chain
    <2>. QED  BY <1>2, <2>1, <2>2
  <1>7. m \in [Cells -> Pointers] /\ made \subseteq JobIds
    BY <1>1 DEF Sound
  <1>8. PICK s, t : s = Copy(x, N(j)) /\ t = Free(j)
    OBVIOUS
  <1>9. m2 = [m EXCEPT ![x] = m[N(j)]]
    BY <1>3, <1>6
  <1>10. /\ s \in Statements /\ t \in Statements
         /\ Does(At(m, made, a, b), s, At(m2, made, a, r))
         /\ Does(At(m2, made, a, r), t, At(m3, made \ {j}, a, r))
    BY <1>4, <1>6, <1>7, <1>8, <1>9, DestroyDoes
  <1>11. /\ Sound(m2, made, FIRST, a, FINISHED, r)
         /\ Sound(m3, made \ {j}, FIRST, a, FINISHED, r)
    BY <1>5, SoundTurned
  <1>12. Seen(At(m2, made, a, r), at, q) /\ Seen(At(m3, made \ {j}, a, r), at, q)
    BY <1>11, SoundSeen
  <1>13. Planned(c, prog, At(m, made, a, b), at, q)
    BY DEF Stage
  <1>14. p = prog \o <<s, t>>
    BY <1>2, <1>8
  <1>15. p \in Seq(Statements) /\ p # <<>> /\ Planned(c, p, At(m3, made \ {j}, a, r), at, q)
    BY <1>1, <1>10, <1>12, <1>13, <1>14, PlanTwo
  <1>16. Stage(c, p, m3, made \ {j}, a, r, at, q)
    BY <1>11, <1>15 DEF Stage
  <1>. QED  BY <1>2, <1>15, <1>16

-----------------------------------------------------------------------------
(* Where job j stands in the list s, which begins in head, and what is     *)
(* left of the list without it.                                            *)
Stands(head, s, j, k) ==
    /\ k \in 1 .. Len(s) /\ k \in 1 .. (Len(Append(s, NULL)) - 1)
    /\ s[k] = j /\ Append(s, NULL)[k] = j
    /\ j \in Made
    /\ Before(head, j) = Place(head, Append(s, NULL), k)
    /\ Without(s, j) = RemoveAt(s, k) /\ Without(s, j) \in Seq(JobIds)
    /\ RemoveAt(Append(s, NULL), k) = Append(Without(s, j), NULL)
    /\ Range(Without(s, j)) = Range(s) \ {j}

(* Every job of a list stands somewhere.                                   *)
LEMMA StandsSomewhere ==
    ASSUME IInv, Ready, NEW head \in {FIRST, FINISHED}, NEW s \in Seq(JobIds),
           Spelled(mem, Made, head, Append(s, NULL)), NEW j \in Range(s)
    PROVE  \E k : Stands(head, s, j, k)
  <1>1. PICK a : a = Append(s, NULL)
    OBVIOUS
  <1>2. /\ Len(s) \in Nat /\ Len(a) = Len(s) + 1 /\ DOMAIN s = 1 .. Len(s)
        /\ \A n \in 1 .. Len(s) : a[n] = s[n] /\ s[n] \in JobIds
    BY <1>1, Terminated
  <1>3. PICK k \in 1 .. Len(s) : s[k] = j
    BY <1>2 DEF Range
  <1>4. /\ Before(head, s[k]) = Place(head, a, k)
        /\ Without(s, s[k]) = RemoveAt(s, k) /\ s[k] \in Made
    BY <1>1, PlaceFacts
  <1>5. IsInjective(s)
    <2>1. ASSUME NEW m \in 1 .. Len(s), NEW n \in 1 .. Len(s), s[m] = s[n]
          PROVE  m = n
      <3>1. \A i \in 1 .. Len(s) : s[i] = s[n] => i = n
        BY PlaceFacts
      <3>. QED  BY <2>1, <3>1
    <2>. QED  BY <1>2, <2>1 DEF IsInjective
  <1>6. k \in DOMAIN s
    BY <1>2
  <1>7. RemoveAt(a, k) = Append(RemoveAt(s, k), NULL) /\ RemoveAt(s, k) \in Seq(JobIds)
    BY <1>1, RemoveTerminated
  <1>8. Range(RemoveAt(s, k)) = Range(s) \ {s[k]}
    BY <1>5, <1>6, RemoveAtInjective
  <1>9. k \in 1 .. (Len(a) - 1) /\ a[k] = j
    BY <1>2, <1>3
  <1>. QED  BY <1>1, <1>3, <1>4, <1>7, <1>8, <1>9 DEF Stands

(* A job of the queue.                                                     *)
LEMMA StandsInQueue ==
    ASSUME IInv, Ready, NEW j \in Range(queue)
    PROVE  \E k : Stands(FIRST, queue, j, k)
  <1>1. Spelled(mem, Made, FIRST, Append(queue, NULL))
    BY ReadyFacts
  <1>2. queue \in Seq(JobIds)
    BY DEF IInv, Types
  <1>. QED  BY <1>1, <1>2, StandsSomewhere

(* And a job of the list of results.                                       *)
LEMMA StandsInResults ==
    ASSUME IInv, Ready, NEW j \in Range(results)
    PROVE  \E k : Stands(FINISHED, results, j, k)
  <1>1. Spelled(mem, Made, FINISHED, Append(results, NULL))
    BY ReadyFacts
  <1>2. results \in Seq(JobIds)
    BY DEF IInv, Types
  <1>. QED  BY <1>1, <1>2, StandsSomewhere

(* The jobs behind the first one are in the queue.                         *)
LEMMA NotFirstInQueue ==
    ASSUME queue \in Seq(JobIds), NEW j \in NotFirst
    PROVE  j \in Range(queue) /\ \E n \in 2 .. Len(queue) : queue[n] = j
  <1>1. Len(queue) \in Nat /\ DOMAIN queue = 1 .. Len(queue)
    BY LenProperties
  <1>2. PICK n \in 2 .. Len(queue) : queue[n] = j
    BY DEF NotFirst
  <1>3. n \in DOMAIN queue
    BY <1>1
  <1>. QED  BY <1>2, <1>3 DEF Range

(* s_remove_job, for a job of the queue.                                   *)
LEMMA RemoveQueuedStep ==
    ASSUME IInv, NEW p \in JobIds, RemoveQueued(p)
    PROVE  IInv'
  <1>1. /\ Ready /\ p \in NotFirst
        /\ Begin("remove", p, RemoveStatements(Before(FIRST, p), p),
                 Without(queue, p), results)
        /\ UNCHANGED job
    BY DEF RemoveQueued
  <1>2. /\ queue \in Seq(JobIds) /\ results \in Seq(JobIds) /\ Apart
        /\ job \in [JobIds -> {"unused", "made", "freed"}]
    BY DEF IInv, Types
  <1>3. PICK a, b : a = Append(queue, NULL) /\ b = Append(results, NULL)
    OBVIOUS
  <1>4. p \in Range(queue)
    BY <1>1, <1>2, NotFirstInQueue
  <1>5. PICK k : Stands(FIRST, queue, p, k)
    BY <1>1, <1>4, StandsInQueue
  <1>6. PICK q : q = Without(queue, p)
    OBVIOUS
  <1>7. PICK at : at = [op |-> "remove", job |-> p, behind |-> Behind(p)]
    OBVIOUS
  <1>8. /\ k \in 1 .. (Len(a) - 1) /\ a[k] = p /\ Before(FIRST, p) = Place(FIRST, a, k)
        /\ q \in Seq(JobIds) /\ RemoveAt(a, k) = Append(q, NULL)
        /\ Range(q) = Range(queue) \ {p}
    BY <1>3, <1>5, <1>6 DEF Stands
  <1>9. Stage(At(mem, Made, a, b), <<>>, mem, Made, a, b, at, q)
    BY <1>1, <1>3, <1>8, StageStart
  <1>10. Range(q) \ Range(RemoveAt(a, k)) \subseteq MayMiss(at)
    BY <1>8, Terminated
  <1>11. PICK prog : prog = RemoveStatements(Before(FIRST, p), p)
    OBVIOUS
  <1>12. prog = <<>> \o <<Copy(Place(FIRST, a, k), N(a[k])), Free(a[k])>>
    BY <1>8, <1>11 DEF RemoveStatements
  <1>13. PICK m3 : /\ prog # <<>>
                   /\ Stage(At(mem, Made, a, b), prog, m3, Made \ {a[k]},
                            RemoveAt(a, k), b, at, q)
    BY <1>8, <1>9, <1>10, <1>12, StageDestroyQueued
  <1>14. Stage(At(mem, Made', a, b), prog, m3, Made \ {a[k]}, Append(q, NULL),
               Append(results, NULL), at, q)
    BY <1>1, <1>3, <1>8, <1>13 DEF Made
  <1>15. Range(q) \cap Range(results) = {}
    BY <1>2, <1>8 DEF Apart
  <1>16. Begin("remove", p, prog, q, results)
    BY <1>1, <1>6, <1>11
  <1>. QED  BY <1>1, <1>2, <1>7, <1>8, <1>13, <1>14, <1>15, <1>16, StageEnd

(* And for one of the results.                                             *)
LEMMA RemoveFinishedStep ==
    ASSUME IInv, NEW p \in JobIds, RemoveFinished(p)
    PROVE  IInv'
  <1>1. /\ Ready /\ p \in Range(results)
        /\ Begin("remove", p, RemoveStatements(Before(FINISHED, p), p),
                 queue, Without(results, p))
        /\ UNCHANGED job
    BY DEF RemoveFinished
  <1>2. /\ queue \in Seq(JobIds) /\ results \in Seq(JobIds) /\ Apart
        /\ job \in [JobIds -> {"unused", "made", "freed"}]
    BY DEF IInv, Types
  <1>3. PICK a, b : a = Append(queue, NULL) /\ b = Append(results, NULL)
    OBVIOUS
  <1>4. PICK k : Stands(FINISHED, results, p, k)
    BY <1>1, StandsInResults
  <1>5. PICK r : r = Without(results, p)
    OBVIOUS
  <1>6. PICK at : at = [op |-> "remove", job |-> p, behind |-> Behind(p)]
    OBVIOUS
  <1>7. /\ k \in 1 .. (Len(b) - 1) /\ b[k] = p
        /\ Before(FINISHED, p) = Place(FINISHED, b, k)
        /\ r \in Seq(JobIds) /\ RemoveAt(b, k) = Append(r, NULL)
        /\ Range(r) = Range(results) \ {p}
    BY <1>3, <1>4, <1>5 DEF Stands
  <1>8. Stage(At(mem, Made, a, b), <<>>, mem, Made, a, b, at, queue)
    BY <1>1, <1>3, StageStart
  <1>9. Range(queue) \ Range(a) \subseteq MayMiss(at)
    BY <1>2, <1>3, Terminated
  <1>10. PICK prog : prog = RemoveStatements(Before(FINISHED, p), p)
    OBVIOUS
  <1>11. prog = <<>> \o <<Copy(Place(FINISHED, b, k), N(b[k])), Free(b[k])>>
    BY <1>7, <1>10 DEF RemoveStatements
  <1>12. PICK m3 : /\ prog # <<>>
                   /\ Stage(At(mem, Made, a, b), prog, m3, Made \ {b[k]},
                            a, RemoveAt(b, k), at, queue)
    BY <1>7, <1>8, <1>9, <1>11, StageDestroyFinished
  <1>13. Stage(At(mem, Made', a, b), prog, m3, Made \ {b[k]}, Append(queue, NULL),
               Append(r, NULL), at, queue)
    BY <1>1, <1>3, <1>7, <1>12 DEF Made
  <1>14. Range(queue) \cap Range(r) = {}
    BY <1>2, <1>7 DEF Apart
  <1>15. Begin("remove", p, prog, queue, r)
    BY <1>1, <1>5, <1>10
  <1>. QED  BY <1>1, <1>2, <1>6, <1>7, <1>12, <1>13, <1>14, <1>15, StageEnd

-----------------------------------------------------------------------------
(* The list that consists of NULL.                                         *)
LEMMA NullChain ==
    ASSUME NEW v \in Nowhere
    PROVE  /\ \A m, made : Chain(m, made, <<v>>)
           /\ Len(<<v>>) = 1 /\ <<v>>[1] = v
  <1>1. PICK t : t = <<v>>
    OBVIOUS
  <1>2. v \in Pointers
    BY DEF Nowhere, Pointers
  <1>3. t \in Seq(Pointers) /\ Len(t) = 1 /\ t[1] = v
    BY <1>1, <1>2
  <1>4. ASSUME NEW m, NEW made
        PROVE  Chain(m, made, t)
    BY <1>3 DEF Chain
  <1>. QED  BY <1>1, <1>3, <1>4

(* A list a up to place k, and the list c from there.                      *)
Joined(a, k, c) == SubSeq(a, 1, k - 1) \o c

(* None of the jobs of c owns place k of a.                                *)
Clear(a, k, c) == k = 1 \/ Absent(a[k - 1], c)

(* Relink, with the places of the joined list.                             *)
LEMMA Joins ==
    ASSUME NEW m \in [Cells -> Pointers], NEW made, made \subseteq JobIds,
           NEW head \in Heads, NEW a, Spelled(m, made, head, a),
           NEW k \in 1 .. Len(a), NEW c, Chain(m, made, c), Clear(a, k, c),
           NEW x, x = Place(head, a, k), NEW v, v = c[1]
    PROVE  Spelled([m EXCEPT ![x] = v], made, head, Joined(a, k, c))
  <1>1. head \in {FIRST, FINISHED}
    BY DEF Heads
  <1>2. k # 1 => \A n \in 1 .. (Len(c) - 1) : c[n] # a[k - 1]
    BY DEF Clear, Absent
  <1>3. Spelled([m EXCEPT ![Place(head, a, k)] = c[1]], made, head,
                SubSeq(a, 1, k - 1) \o c)
    BY <1>1, <1>2, Relink
  <1>. QED  BY <1>3 DEF Joined

(* What the joined list is made of.                                        *)
LEMMA JoinedFacts ==
    ASSUME NEW a \in Seq(Pointers), NEW c \in Seq(Pointers), NEW k \in 1 .. Len(a)
    PROVE  /\ Joined(a, k, c) \in Seq(Pointers)
           /\ Len(Joined(a, k, c)) = k - 1 + Len(c)
           /\ \A n \in 1 .. (k - 1 + Len(c)) :
                /\ n < k => Joined(a, k, c)[n] = a[n]
                /\ ~(n < k) => Joined(a, k, c)[n] = c[n - (k - 1)]
  <1>0. /\ Len(a) \in Nat /\ Len(c) \in Nat
        /\ \A n \in 1 .. Len(a) : a[n] \in Pointers
    BY LenProperties
  <1>1. PICK s : s = SubSeq(a, 1, k - 1)
    OBVIOUS
  <1>2. s \in Seq(Pointers) /\ Len(s) = k - 1 /\ \A n \in 1 .. (k - 1) : s[n] = a[n]
    <2>1. \A n \in 1 .. (k - 1) : a[n] \in Pointers
      BY <1>0
    <2>2. 1 \in Int /\ k - 1 \in Int
      BY <1>0
    <2>3. /\ SubSeq(a, 1, k - 1) \in Seq(Pointers)
          /\ Len(SubSeq(a, 1, k - 1)) = IF 1 <= k - 1 THEN k - 1 - 1 + 1 ELSE 0
          /\ \A n \in 1 .. (k - 1 - 1 + 1) : SubSeq(a, 1, k - 1)[n] = a[1 + n - 1]
      BY <1>0, <2>1, <2>2, SubSeqProperties
    <2>. QED  BY <1>0, <1>1, <2>3
  <1>3. PICK b : b = s \o c
    OBVIOUS
  <1>4. /\ b \in Seq(Pointers) /\ Len(b) = Len(s) + Len(c)
        /\ \A n \in 1 .. (Len(s) + Len(c)) :
             b[n] = IF n <= Len(s) THEN s[n] ELSE c[n - Len(s)]
    BY <1>2, <1>3, ConcatProperties
  <1>5. ASSUME NEW n \in 1 .. (k - 1 + Len(c))
        PROVE  /\ n < k => b[n] = a[n]
               /\ ~(n < k) => b[n] = c[n - (k - 1)]
    BY <1>0, <1>2, <1>4
  <1>6. b = Joined(a, k, c)
    BY <1>1, <1>3 DEF Joined
  <1>. QED  BY <1>2, <1>4, <1>5, <1>6

(* new_finished_job and job_finished: job j, which stands at place k of    *)
(* the queue a, is linked behind the results b, whose end it becomes, and  *)
(* then taken out of the queue.                                            *)
LEMMA Handed ==
    ASSUME NEW m, NEW made, NEW a, NEW b, Sound(m, made, FIRST, a, FINISHED, b),
           NEW k \in 1 .. (Len(a) - 1), NEW j, j = a[k],
           NEW x, x = Place(FINISHED, b, Len(b)),
           NEW m1, m1 = [m EXCEPT ![x] = j],
           NEW m2, m2 = [m1 EXCEPT ![N(j)] = NULL],
           NEW m3, m3 = [m2 EXCEPT ![Place(FIRST, a, k)] = a[k + 1]]
    PROVE  /\ m1 \in [Cells -> Pointers] /\ m2 \in [Cells -> Pointers]
           /\ Spelled(m1, made, FIRST, a)
           /\ Spelled(m1, made, FINISHED, Joined(b, Len(b), SubSeq(a, k, Len(a))))
           /\ Spelled(m2, made, FIRST, Joined(a, k + 1, <<NULL>>))
           /\ Spelled(m2, made, FINISHED, Joined(b, Len(b), <<j, NULL>>))
           /\ Sound(m3, made, FIRST, RemoveAt(a, k),
                    FINISHED, Joined(b, Len(b), <<j, NULL>>))
  <1>1. /\ m \in [Cells -> Pointers] /\ made \subseteq JobIds
        /\ Spelled(m, made, FIRST, a) /\ Spelled(m, made, FINISHED, b)
        /\ Separate(a, b) /\ a[Len(a)] = NULL /\ b[Len(b)] = NULL
        /\ FIRST \in Heads /\ FINISHED \in Heads \ {FIRST} /\ FIRST \in Heads \ {FINISHED}
    BY CellFacts DEF Sound, Heads
  <1>2. Chain(m, made, a) /\ Chain(m, made, b)
    BY <1>1 DEF Spelled
  <1>3. /\ Len(a) \in Nat \ {0} /\ a \in Seq(Pointers)
        /\ Len(b) \in Nat \ {0} /\ b \in Seq(Pointers)
    BY <1>1, <1>2, ChainFacts DEF Chain
  <1>4. \A i, n \in 1 .. Len(a) : a[i] = a[n] => i = n
    BY <1>1, <1>2, ChainOnce
  <1>5. PICK l : l = Len(b)
    OBVIOUS
  <1>6. l \in 1 .. Len(b) /\ k \in 1 .. Len(a) /\ k + 1 \in 1 .. Len(a)
    BY <1>3, <1>5
  <1>7. j \in made /\ j \in JobIds /\ j \in Pointers /\ NULL \in Pointers /\ NULL \in Nowhere
    BY <1>1, <1>2 DEF Chain, Pointers, Nowhere
  <1>8. x = Place(FINISHED, b, l) /\ x \in Usable(made)
    BY <1>1, <1>5, <1>6, PlaceUsable
  <1>9. x # N(j)
    <2>1. CASE l = 1
      BY <1>7, <1>8, <2>1, CellFacts DEF Place
    <2>2. CASE l # 1
      <3>1. l - 1 \in 1 .. (Len(b) - 1)
        BY <1>3, <1>5, <2>2
      <3>2. b[l - 1] # j /\ b[l - 1] \in JobIds
        BY <1>1, <1>2, <3>1 DEF Separate, Chain
      <3>3. x = N(b[l - 1])
        BY <1>8, <2>2 DEF Place
      <3>. QED  BY <1>7, <3>2, <3>3, CellFacts
    <2>. QED  BY <2>1, <2>2
  <1>10. m1 \in [Cells -> Pointers]
    BY <1>1, <1>7, <1>8, StatementFacts
  <1>11. m2 \in [Cells -> Pointers]
    BY <1>7, <1>10, CellFacts
  <1>12. Spelled(m1, made, FIRST, a)
    <2>1. Separate(b, a)
      BY <1>1 DEF Separate
    <2>2. Spelled([m EXCEPT ![Place(FINISHED, b, l)] = j], made, FIRST, a)
      BY <1>1, <1>6, <2>1, Aside
    <2>. QED  BY <1>8, <2>2
  <1>13. Spelled(m1, made, FINISHED, Joined(b, Len(b), SubSeq(a, k, Len(a))))
    <2>1. PICK c : c = SubSeq(a, k, Len(a))
      OBVIOUS
    <2>2. /\ Chain(m, made, c) /\ Len(c) = Len(a) - k + 1
          /\ \A n \in 1 .. (Len(a) - k + 1) : c[n] = a[k + n - 1]
      <3>1. made \subseteq JobIds /\ Chain(m, made, a) /\ k \in 1 .. Len(a)
        BY <1>1, <1>2, <1>6
      <3>2. Chain(m, made, SubSeq(a, k, Len(a)))
        BY <3>1, SubChain
      <3>3. Len(SubSeq(a, k, Len(a))) = Len(a) - k + 1
        BY <3>1, SubChain
      <3>4. \A n \in 1 .. (Len(a) - k + 1) : SubSeq(a, k, Len(a))[n] = a[k + n - 1]
        BY <3>1, SubChain
      <3>. QED  BY <2>1, <3>2, <3>3, <3>4
    <2>3. c[1] = j
      <3>1. 1 \in 1 .. (Len(a) - k + 1) /\ k + 1 - 1 = k
        BY <1>3, <1>6
      <3>. QED  BY <2>2, <3>1
    <2>4. Clear(b, l, c)
      <3>1. ASSUME l # 1, NEW n \in 1 .. (Len(c) - 1)
            PROVE  c[n] # b[l - 1]
        <4>1. k + n - 1 \in 1 .. (Len(a) - 1) /\ n \in 1 .. (Len(a) - k + 1)
          BY <1>3, <1>6, <2>2
        <4>2. l - 1 \in 1 .. (Len(b) - 1)
          BY <1>3, <1>5, <3>1
        <4>. QED  BY <1>1, <2>2, <4>1, <4>2 DEF Separate
      <3>. QED  BY <3>1 DEF Clear, Absent
    <2>5. Spelled([m EXCEPT ![x] = j], made, FINISHED, Joined(b, l, c))
      BY <1>1, <1>6, <1>8, <2>2, <2>3, <2>4, Joins
    <2>. QED  BY <1>5, <2>1, <2>5
  <1>14. Spelled(m2, made, FIRST, Joined(a, k + 1, <<NULL>>))
    <2>1. PICK c : c = <<NULL>>
      OBVIOUS
    <2>2. Chain(m1, made, c) /\ Len(c) = 1 /\ c[1] = NULL
      BY <1>7, <2>1, NullChain
    <2>3. PICK n : n = k + 1
      OBVIOUS
    <2>4. Clear(a, n, c)
      BY <2>2 DEF Clear, Absent
    <2>5. N(j) = Place(FIRST, a, n)
      <3>1. n # 1 /\ n - 1 = k
        BY <1>6, <2>3
      <3>. QED  BY <3>1 DEF Place
    <2>6. n \in 1 .. Len(a)
      BY <1>6, <2>3
    <2>7. Spelled([m1 EXCEPT ![N(j)] = NULL], made, FIRST, Joined(a, n, c))
      BY <1>1, <1>10, <1>12, <2>2, <2>4, <2>5, <2>6, Joins
    <2>. QED  BY <2>1, <2>3, <2>7
  <1>15. PICK b2 : b2 = Joined(b, Len(b), <<j, NULL>>)
    OBVIOUS
  <1>16. PICK t : t = <<j, NULL>>
    OBVIOUS
  <1>17. t \in Seq(Pointers) /\ Len(t) = 2 /\ t[1] = j /\ t[2] = NULL
    BY <1>7, <1>16
  <1>18. Spelled(m2, made, FINISHED, b2)
    <2>1. PICK n1 : n1 = [m EXCEPT ![N(j)] = NULL]
      OBVIOUS
    <2>2. n1 \in [Cells -> Pointers]
      BY <1>1, <1>7, <2>1, CellFacts
    <2>3. \A n \in 1 .. (Len(b) - 1) : b[n] # j
      BY <1>1 DEF Separate
    <2>4. Spelled(n1, made, FINISHED, b)
      BY <1>1, <1>7, <2>1, <2>3, Destroyed
    <2>5. Chain(n1, made, t)
      <3>1. n1[N(j)] = NULL
        BY <1>1, <1>7, <2>1, CellFacts
      <3>2. \A n \in 1 .. (Len(t) - 1) : n = 1
        BY <1>17
      <3>. QED  BY <1>7, <1>17, <3>1, <3>2 DEF Chain
    <2>6. Clear(b, l, t)
      <3>1. ASSUME l # 1, NEW n \in 1 .. (Len(t) - 1)
            PROVE  t[n] # b[l - 1]
        <4>1. n = 1 /\ l - 1 \in 1 .. (Len(b) - 1)
          BY <1>3, <1>5, <1>17, <3>1
        <4>. QED  BY <1>17, <2>3, <4>1
      <3>. QED  BY <3>1 DEF Clear, Absent
    <2>7. Spelled([n1 EXCEPT ![x] = j], made, FINISHED, Joined(b, l, t))
      BY <1>1, <1>6, <1>8, <1>17, <2>2, <2>4, <2>5, <2>6, Joins
    <2>8. m2 = [n1 EXCEPT ![x] = j]
      <3>1. x \in Cells /\ N(j) \in Cells
        BY <1>1, <1>7, <1>8, CellFacts, StatementFacts
      <3>2. m2 \in [Cells -> Pointers] /\ [n1 EXCEPT ![x] = j] \in [Cells -> Pointers]
        BY <1>7, <1>11, <2>2
      <3>3. \A y \in Cells : m2[y] = [n1 EXCEPT ![x] = j][y]
        BY <1>1, <1>9, <1>10, <2>1, <2>2, <3>1
      <3>. QED  BY <3>2, <3>3
    <2>. QED  BY <1>5, <1>15, <1>16, <2>7, <2>8
  <1>19. PICK r : r = RemoveAt(a, k)
    OBVIOUS
  <1>20. /\ r \in Seq(Pointers) /\ Len(r) = Len(a) - 1
         /\ \A n \in 1 .. (Len(a) - 1) : r[n] = IF n < k THEN a[n] ELSE a[n + 1]
    <2>1. k \in DOMAIN a
      BY <1>3, <1>6
    <2>. QED  BY <1>3, <1>19, <2>1, RemoveAtSeq
  <1>21. PICK y : y = Place(FIRST, a, k)
    OBVIOUS
  <1>22. y \in Usable(made)
    BY <1>1, <1>6, <1>21, PlaceUsable
  <1>23. PICK c : c = SubSeq(a, k + 1, Len(a))
    OBVIOUS
  <1>24. /\ Chain(m, made, c) /\ Len(c) = Len(a) - k
         /\ \A n \in 1 .. (Len(a) - k) : c[n] = a[k + n]
    <2>1. PICK h \in 1 .. Len(a) : h = k + 1
      BY <1>6
    <2>2. /\ Chain(m, made, SubSeq(a, h, Len(a)))
          /\ Len(SubSeq(a, h, Len(a))) = Len(a) - h + 1
          /\ \A n \in 1 .. (Len(a) - h + 1) : SubSeq(a, h, Len(a))[n] = a[h + n - 1]
      <3>1. made \subseteq JobIds /\ Chain(m, made, a)
        BY <1>1, <1>2
      <3>2. Chain(m, made, SubSeq(a, h, Len(a)))
        BY <3>1, SubChain
      <3>3. Len(SubSeq(a, h, Len(a))) = Len(a) - h + 1
        BY <3>1, SubChain
      <3>4. \A n \in 1 .. (Len(a) - h + 1) : SubSeq(a, h, Len(a))[n] = a[h + n - 1]
        BY <3>1, SubChain
      <3>. QED  BY <3>2, <3>3, <3>4
    <2>3. /\ Chain(m, made, c) /\ Len(c) = Len(a) - h + 1
          /\ \A n \in 1 .. (Len(a) - h + 1) : c[n] = a[h + n - 1]
      BY <1>23, <2>1, <2>2
    <2>4. Len(a) - h + 1 = Len(a) - k /\ \A n \in 1 .. (Len(a) - k) : h + n - 1 = k + n
      BY <1>3, <1>6, <2>1
    <2>. QED  BY <2>3, <2>4
  <1>25. Absent(j, c) /\ \A n \in 1 .. (Len(c) - 1) : k + n \in 1 .. (Len(a) - 1) /\ c[n] = a[k + n]
    <2>1. \A n \in 1 .. (Len(c) - 1) : /\ k + n \in 1 .. (Len(a) - 1) /\ k + n # k
                                         /\ k + n \in 1 .. Len(a) /\ n \in 1 .. (Len(a) - k)
      BY <1>3, <1>6, <1>24
    <2>2. \A n \in 1 .. (Len(c) - 1) : c[n] = a[k + n] /\ a[k + n] # a[k]
      BY <1>4, <1>6, <1>24, <2>1
    <2>. QED  BY <2>1, <2>2 DEF Absent
  <1>26. Chain(m2, made, c)
    <2>1. \A n \in 1 .. (Len(c) - 1) : c[n] \in made /\ c[n] \in JobIds
      BY <1>1, <1>24 DEF Chain
    <2>2. \A n \in 1 .. (Len(c) - 1) : x # N(c[n])
      <3>1. ASSUME NEW n \in 1 .. (Len(c) - 1)
            PROVE  x # N(c[n])
        <4>1. CASE l = 1
          BY <1>8, <2>1, <4>1, CellFacts DEF Place
        <4>2. CASE l # 1
          <5>1. l - 1 \in 1 .. (Len(b) - 1)
            BY <1>3, <1>5, <4>2
          <5>2. b[l - 1] # c[n]
            <6>1. k + n \in 1 .. (Len(a) - 1) /\ c[n] = a[k + n]
              BY <1>25
            <6>2. PICK h \in 1 .. (Len(a) - 1) : h = k + n
              BY <6>1
            <6>3. PICK i \in 1 .. (Len(b) - 1) : i = l - 1
              BY <5>1
            <6>4. a[h] # b[i]
              BY <1>1 DEF Separate
            <6>. QED  BY <6>1, <6>2, <6>3, <6>4
          <5>4. b[l - 1] \in JobIds
            BY <1>1, <1>2, <5>1 DEF Chain
          <5>3. x = N(b[l - 1])
            BY <1>8, <4>2 DEF Place
          <5>. QED  BY <2>1, <5>2, <5>3, <5>4, CellFacts
        <4>. QED  BY <4>1, <4>2
      <3>. QED  BY <3>1
    <2>3. x \in Cells /\ N(j) \in Cells
      BY <1>1, <1>7, <1>8, CellFacts, StatementFacts
    <2>4. Chain(m1, made, c)
      BY <1>1, <1>24, <2>1, <2>2, <2>3, Elsewhere
    <2>5. \A n \in 1 .. (Len(c) - 1) : N(j) # N(c[n]) /\ c[n] \in made
      BY <1>7, <1>25, <2>1, CellFacts DEF Absent
    <2>. QED  BY <1>1, <1>10, <2>3, <2>4, <2>5, Elsewhere
  <1>27. PICK a2 : a2 = Joined(a, k + 1, <<NULL>>)
    OBVIOUS
  <1>28. /\ a2 \in Seq(Pointers) /\ Len(a2) = k + 1
         /\ \A n \in 1 .. k : a2[n] = a[n]
    <2>1. PICK h \in 1 .. Len(a) : h = k + 1
      BY <1>6
    <2>2. PICK d : d = <<NULL>>
      OBVIOUS
    <2>3. d \in Seq(Pointers) /\ Len(d) = 1
      BY <1>7, <2>2
    <2>4. /\ Joined(a, h, d) \in Seq(Pointers) /\ Len(Joined(a, h, d)) = h - 1 + Len(d)
          /\ \A n \in 1 .. (h - 1 + Len(d)) : n < h => Joined(a, h, d)[n] = a[n]
      BY <1>3, <2>3, JoinedFacts, ZenonT(40)
    <2>5. a2 = Joined(a, h, d)
      BY <1>27, <2>1, <2>2
    <2>6. h - 1 + Len(d) = k + 1 /\ \A n \in 1 .. k : n \in 1 .. (h - 1 + Len(d)) /\ n < h
      BY <1>6, <2>1, <2>3
    <2>. QED  BY <2>4, <2>5, <2>6
  <1>29. Spelled(m3, made, FIRST, Joined(a2, k, c))
    <2>1. Place(FIRST, a2, k) = y
      <3>1. k # 1 => k - 1 \in 1 .. k
        BY <1>6
      <3>2. k # 1 => a2[k - 1] = a[k - 1]
        BY <1>28, <3>1
      <3>. QED  BY <1>21, <3>2 DEF Place
    <2>2. Clear(a2, k, c)
      <3>1. ASSUME k # 1, NEW n \in 1 .. (Len(c) - 1)
            PROVE  c[n] # a2[k - 1]
        <4>1. /\ k - 1 \in 1 .. k /\ k - 1 \in 1 .. Len(a) /\ k + n # k - 1
              /\ k + n \in 1 .. Len(a)
          BY <1>3, <1>6, <1>25, <3>1
        <4>. QED  BY <1>4, <1>25, <1>28, <4>1
      <3>. QED  BY <3>1 DEF Clear, Absent
    <2>3. c[1] = a[k + 1]
      <3>1. 1 \in 1 .. (Len(a) - k)
        BY <1>3, <1>6
      <3>. QED  BY <1>24, <3>1
    <2>4. k \in 1 .. Len(a2)
      BY <1>6, <1>28
    <2>5. Spelled([m2 EXCEPT ![y] = a[k + 1]], made, FIRST, Joined(a2, k, c))
      BY <1>1, <1>11, <1>14, <1>26, <1>27, <2>1, <2>2, <2>3, <2>4, Joins
    <2>. QED  BY <1>21, <2>5
  <1>30. Joined(a2, k, c) = r
    <2>1. PICK d : d = Joined(a2, k, c)
      OBVIOUS
    <2>2. /\ c \in Seq(Pointers) /\ k \in 1 .. Len(a2) /\ Len(c) = Len(a) - k
      BY <1>6, <1>24, <1>28 DEF Chain
    <2>3. /\ d \in Seq(Pointers) /\ Len(d) = k - 1 + Len(c)
          /\ \A n \in 1 .. (k - 1 + Len(c)) :
               /\ n < k => d[n] = a2[n]
               /\ ~(n < k) => d[n] = c[n - (k - 1)]
      <3>1. /\ Joined(a2, k, c) \in Seq(Pointers)
            /\ Len(Joined(a2, k, c)) = k - 1 + Len(c)
            /\ \A n \in 1 .. (k - 1 + Len(c)) :
                 /\ n < k => Joined(a2, k, c)[n] = a2[n]
                 /\ ~(n < k) => Joined(a2, k, c)[n] = c[n - (k - 1)]
        BY <1>28, <2>2, JoinedFacts
      <3>. QED  BY <2>1, <3>1
    <2>4. Len(d) = Len(r)
      BY <1>3, <1>6, <1>20, <2>2, <2>3
    <2>5. ASSUME NEW n \in 1 .. Len(d)
          PROVE  d[n] = r[n]
      <3>0. n \in 1 .. (k - 1 + Len(c)) /\ n \in 1 .. (Len(a) - 1)
        BY <1>20, <2>3, <2>4
      <3>1. CASE n < k
        <4>1. n \in 1 .. k
          BY <1>6, <3>0, <3>1
        <4>2. d[n] = a2[n] /\ a2[n] = a[n]
          BY <1>28, <2>3, <3>0, <3>1, <4>1
        <4>. QED  BY <1>20, <3>0, <3>1, <4>2
      <3>2. CASE ~(n < k)
        <4>1. n - (k - 1) \in 1 .. (Len(a) - k) /\ k + (n - (k - 1)) = n + 1
          BY <1>3, <1>6, <3>0, <3>2
        <4>2. d[n] = c[n - (k - 1)]
          BY <2>3, <3>0, <3>2
        <4>3. c[n - (k - 1)] = a[n + 1]
          BY <1>24, <4>1
        <4>. QED  BY <1>20, <3>0, <3>2, <4>2, <4>3
      <3>. QED  BY <3>1, <3>2
    <2>. QED  BY <1>20, <2>1, <2>3, <2>4, <2>5, SeqEqual
  <1>31. /\ b2 \in Seq(Pointers) /\ Len(b2) = l + 1
         /\ \A n \in 1 .. (l - 1) : b2[n] = b[n]
         /\ b2[l] = j /\ b2[l + 1] = NULL
    <2>1. b2 = Joined(b, l, t)
      BY <1>5, <1>15, <1>16
    <2>2. /\ Joined(b, l, t) \in Seq(Pointers) /\ Len(Joined(b, l, t)) = l - 1 + Len(t)
          /\ \A n \in 1 .. (l - 1 + Len(t)) :
               /\ n < l => Joined(b, l, t)[n] = b[n]
               /\ ~(n < l) => Joined(b, l, t)[n] = t[n - (l - 1)]
      BY <1>3, <1>6, <1>17, JoinedFacts
    <2>3. /\ l - 1 + Len(t) = l + 1 /\ l - (l - 1) = 1 /\ l + 1 - (l - 1) = 2
          /\ \A n \in 1 .. (l - 1) : n \in 1 .. (l + 1) /\ n < l
          /\ l \in 1 .. (l + 1) /\ l + 1 \in 1 .. (l + 1) /\ ~(l < l) /\ ~(l + 1 < l)
      BY <1>6, <1>17
    <2>4. /\ b2 \in Seq(Pointers) /\ Len(b2) = l + 1
          /\ \A n \in 1 .. (l + 1) : /\ n < l => b2[n] = b[n]
                                     /\ ~(n < l) => b2[n] = t[n - (l - 1)]
      BY <2>1, <2>2, <2>3
    <2>5. \A n \in 1 .. (l - 1) : b2[n] = b[n]
      BY <2>3, <2>4
    <2>6. b2[l] = t[l - (l - 1)] /\ b2[l + 1] = t[l + 1 - (l - 1)]
      BY <2>3, <2>4
    <2>. QED  BY <1>17, <2>3, <2>4, <2>5, <2>6
  <1>32. Spelled(m3, made, FINISHED, b2)
    <2>1. Chain(m2, made, b2) /\ m2[FINISHED] = b2[1]
      BY <1>18 DEF Spelled
    <2>2. y \in Cells /\ y # FINISHED
      <3>1. CASE k = 1
        BY <1>21, <3>1, CellFacts DEF Place
      <3>2. CASE k # 1
        <4>1. y = N(a[k - 1]) /\ k - 1 \in 1 .. (Len(a) - 1)
          BY <1>3, <1>6, <1>21, <3>2 DEF Place
        <4>2. a[k - 1] \in JobIds
          BY <1>1, <1>2, <4>1 DEF Chain
        <4>. QED  BY <4>1, <4>2, CellFacts
      <3>. QED  BY <3>1, <3>2
    <2>3. ASSUME NEW n \in 1 .. (Len(b2) - 1)
          PROVE  y # N(b2[n]) /\ b2[n] \in made
      <3>1. b2[n] \in made /\ b2[n] \in JobIds
        BY <1>1, <2>1 DEF Chain
      <3>2. CASE k = 1
        BY <1>21, <3>1, <3>2, CellFacts DEF Place
      <3>3. CASE k # 1
        <4>1. /\ y = N(a[k - 1]) /\ k - 1 \in 1 .. (Len(a) - 1)
              /\ k - 1 \in 1 .. Len(a) /\ k - 1 # k
          BY <1>3, <1>6, <1>21, <3>3 DEF Place
        <4>2. a[k - 1] \in JobIds
          BY <1>1, <1>2, <4>1 DEF Chain
        <4>3. a[k - 1] # b2[n]
          <5>1. CASE n = l
            BY <1>4, <1>6, <1>31, <4>1, <5>1
          <5>2. CASE n # l
            <6>1. n \in 1 .. (l - 1) /\ n \in 1 .. (Len(b) - 1)
              BY <1>5, <1>6, <1>31, <5>2
            <6>. QED  BY <1>1, <1>31, <4>1, <6>1 DEF Separate
          <5>. QED  BY <5>1, <5>2
        <4>. QED  BY <3>1, <4>1, <4>2, <4>3, CellFacts
      <3>. QED  BY <3>1, <3>2, <3>3
    <2>4. FINISHED \in Cells \ {y}
      BY <2>2, CellFacts
    <2>. QED  BY <1>1, <1>11, <1>21, <2>1, <2>2, <2>3, <2>4, Elsewhere
  <1>33. Separate(r, b2)
    <2>1. ASSUME NEW i \in 1 .. (Len(r) - 1), NEW n \in 1 .. (Len(b2) - 1)
          PROVE  r[i] # b2[n]
      <3>1. PICK h \in 1 .. (Len(a) - 1) : h # k /\ r[i] = a[h]
        <4>1. i \in 1 .. (Len(a) - 1)
          BY <1>3, <1>20
        <4>2. CASE i < k
          BY <1>20, <4>1, <4>2
        <4>3. CASE ~(i < k)
          <5>1. i + 1 \in 1 .. (Len(a) - 1) /\ i + 1 # k
            BY <1>3, <1>6, <1>20, <4>3
          <5>. QED  BY <1>20, <4>1, <4>3, <5>1
        <4>. QED  BY <4>2, <4>3
      <3>2. CASE n = l
        <4>1. h \in 1 .. Len(a)
          BY <1>3
        <4>. QED  BY <1>4, <1>6, <1>31, <3>1, <3>2, <4>1
      <3>3. CASE n # l
        <4>1. n \in 1 .. (l - 1) /\ n \in 1 .. (Len(b) - 1)
          BY <1>5, <1>6, <1>31, <3>3
        <4>. QED  BY <1>1, <1>31, <3>1, <4>1 DEF Separate
      <3>. QED  BY <3>2, <3>3
    <2>. QED  BY <2>1 DEF Separate
  <1>34. r[Len(r)] = NULL /\ b2[Len(b2)] = NULL
    <2>1. Len(r) \in 1 .. (Len(a) - 1) /\ ~(Len(r) < k) /\ Len(r) + 1 = Len(a)
      BY <1>3, <1>6, <1>20
    <2>. QED  BY <1>1, <1>20, <1>31, <2>1
  <1>35. m3 \in [Cells -> Pointers]
    <2>1. a[k + 1] \in Pointers
      BY <1>3, <1>6, ElementOfSeq
    <2>. QED  BY <1>1, <1>11, <1>21, <1>22, <2>1, StatementFacts
  <1>36. Sound(m3, made, FIRST, r, FINISHED, b2)
    BY <1>1, <1>29, <1>30, <1>32, <1>33, <1>34, <1>35 DEF Sound
  <1>. QED  BY <1>10, <1>11, <1>12, <1>13, <1>14, <1>15, <1>18, <1>19, <1>36

(* A joined list ends as its second part does.                             *)
LEMMA JoinedLast ==
    ASSUME NEW a \in Seq(Pointers), NEW c \in Seq(Pointers), NEW k \in 1 .. Len(a),
           Len(c) # 0, NEW b, b = Joined(a, k, c)
    PROVE  b[Len(b)] = c[Len(c)]
  <1>2. Len(a) \in Nat /\ Len(c) \in Nat \ {0}
    BY LenProperties
  <1>3. Len(b) = k - 1 + Len(c)
    BY JoinedFacts
  <1>4. \A n \in 1 .. (k - 1 + Len(c)) : ~(n < k) => b[n] = c[n - (k - 1)]
    BY JoinedFacts
  <1>5. /\ Len(b) \in 1 .. (k - 1 + Len(c)) /\ ~(Len(b) < k)
        /\ Len(b) - (k - 1) = Len(c)
    BY <1>2, <1>3
  <1>6. b[Len(b)] = c[Len(b) - (k - 1)]
    BY <1>4, <1>5
  <1>. QED  BY <1>5, <1>6

(* What may be seen while the job at place k of a ends: the jobs in front  *)
(* of it, in every list x that begins like a.                              *)
Kept(q, a, k, at) ==
    \A j \in Range(q) : j \in MayMiss(at) \/ \E n \in 1 .. (k - 1) : a[n] = j

Agrees(x, a, k) == k - 1 <= Len(x) /\ \A n \in 1 .. (k - 1) : x[n] = a[n]

(* Such a list has all that SIGTERM has to save.                           *)
LEMMA KeptIn ==
    ASSUME NEW q, NEW a, NEW k \in Nat, NEW at, Kept(q, a, k, at),
           NEW x \in Seq(Pointers), Agrees(x, a, k)
    PROVE  Range(q) \ Range(x) \subseteq MayMiss(at)
  <1>1. \A n \in 1 .. (k - 1) : n \in DOMAIN x
    BY LenProperties DEF Agrees
  <1>2. \A n \in 1 .. (k - 1) : a[n] \in Range(x)
    BY <1>1 DEF Range, Agrees
  <1>. QED  BY <1>2 DEF Kept

(* The statements of new_finished_job and job_finished.                    *)
LEMMA StageHanded ==
    ASSUME NEW c, NEW prog, NEW m, NEW made, NEW a, NEW b, NEW at, NEW q,
           Stage(c, prog, m, made, a, b, at, q), NEW k \in 1 .. (Len(a) - 1),
           Kept(q, a, k, at),
           NEW p, p = (prog \o <<Set(Place(FINISHED, b, Len(b)), a[k]),
                                 Set(N(a[k]), NULL)>>)
                      \o <<Set(Place(FIRST, a, k), a[k + 1])>>
    PROVE  /\ p # <<>>
           /\ \E m3 : Stage(c, p, m3, made, RemoveAt(a, k),
                            Joined(b, Len(b), <<a[k], NULL>>), at, q)
  <1>1. Sound(m, made, FIRST, a, FINISHED, b) /\ prog \in Seq(Statements)
    BY DEF Stage
  <1>2. /\ m \in [Cells -> Pointers] /\ made \subseteq JobIds
        /\ Spelled(m, made, FIRST, a) /\ Spelled(m, made, FINISHED, b)
        /\ Separate(a, b) /\ a[Len(a)] = NULL /\ b[Len(b)] = NULL
        /\ FIRST \in Heads /\ FINISHED \in Heads
    BY <1>1 DEF Sound, Heads
  <1>3. Chain(m, made, a) /\ Chain(m, made, b)
    BY <1>2 DEF Spelled
  <1>4. /\ Len(a) \in Nat \ {0} /\ a \in Seq(Pointers)
        /\ Len(b) \in Nat \ {0} /\ b \in Seq(Pointers)
    BY <1>2, <1>3, ChainFacts DEF Chain
  <1>5. PICK j, x, y : j = a[k] /\ x = Place(FINISHED, b, Len(b)) /\ y = Place(FIRST, a, k)
    OBVIOUS
  <1>6. PICK m1 : m1 = [m EXCEPT ![x] = j]
    OBVIOUS
  <1>7. PICK m2 : m2 = [m1 EXCEPT ![N(j)] = NULL]
    OBVIOUS
  <1>8. PICK m3 : m3 = [m2 EXCEPT ![y] = a[k + 1]]
    OBVIOUS
  <1>9. PICK d : d = SubSeq(a, k, Len(a))
    OBVIOUS
  <1>10. PICK b1, a2, b2, r : /\ b1 = Joined(b, Len(b), d)
                              /\ a2 = Joined(a, k + 1, <<NULL>>)
                              /\ b2 = Joined(b, Len(b), <<j, NULL>>)
                              /\ r = RemoveAt(a, k)
    OBVIOUS
  <1>11. /\ m1 \in [Cells -> Pointers] /\ m2 \in [Cells -> Pointers]
         /\ Spelled(m1, made, FIRST, a) /\ Spelled(m1, made, FINISHED, b1)
         /\ Spelled(m2, made, FIRST, a2) /\ Spelled(m2, made, FINISHED, b2)
         /\ Sound(m3, made, FIRST, r, FINISHED, b2)
    <2>1. /\ x = Place(FINISHED, b, Len(b))
          /\ m3 = [m2 EXCEPT ![Place(FIRST, a, k)] = a[k + 1]]
      BY <1>5, <1>8
    <2>2. m1 \in [Cells -> Pointers]
      BY <1>1, <1>5, <1>6, <1>7, <2>1, Handed
    <2>6. m2 \in [Cells -> Pointers]
      <3>1. j \in JobIds /\ NULL \in Pointers
        BY <1>2, <1>3, <1>5 DEF Chain, Pointers
      <3>. QED  BY <1>7, <2>2, <3>1, CellFacts
    <2>3. /\ Spelled(m1, made, FIRST, a)
          /\ Spelled(m1, made, FINISHED, Joined(b, Len(b), SubSeq(a, k, Len(a))))
      BY <1>1, <1>5, <1>6, <1>7, <2>1, Handed
    <2>4. /\ Spelled(m2, made, FIRST, Joined(a, k + 1, <<NULL>>))
          /\ Spelled(m2, made, FINISHED, Joined(b, Len(b), <<j, NULL>>))
      BY <1>1, <1>5, <1>6, <1>7, <2>1, Handed
    <2>5. Sound(m3, made, FIRST, RemoveAt(a, k),
                FINISHED, Joined(b, Len(b), <<j, NULL>>))
      BY <1>1, <1>5, <1>6, <1>7, <2>1, Handed
    <2>. QED  BY <1>9, <1>10, <2>2, <2>3, <2>4, <2>5, <2>6
  <1>12. /\ j \in made /\ j \in Pointers /\ NULL \in Pointers /\ a[k + 1] \in Pointers
         /\ k \in 1 .. Len(a) /\ k + 1 \in 1 .. Len(a) /\ Len(b) \in 1 .. Len(b)
    <2>1. k \in 1 .. Len(a) /\ k + 1 \in 1 .. Len(a) /\ Len(b) \in 1 .. Len(b)
      BY <1>4
    <2>2. a[k + 1] \in Pointers
      BY <1>4, <2>1, ElementOfSeq
    <2>. QED  BY <1>2, <1>3, <1>5, <2>1, <2>2 DEF Chain, Pointers
  <1>13. x \in Usable(made) /\ y \in Usable(made) /\ N(j) \in Usable(made)
    <2>1. PICK l \in 1 .. Len(b) : l = Len(b)
      BY <1>12
    <2>2. Place(FINISHED, b, l) \in Usable(made)
      BY <1>2, PlaceUsable
    <2>3. Place(FIRST, a, k) \in Usable(made)
      BY <1>2, <1>12, PlaceUsable
    <2>. QED  BY <1>5, <1>12, <2>1, <2>2, <2>3 DEF Usable
  <1>14. PICK s, t, u : s = Set(x, j) /\ t = Set(N(j), NULL) /\ u = Set(y, a[k + 1])
    OBVIOUS
  <1>15. s \in Statements /\ Does(At(m, made, a, b), s, At(m1, made, a, b1))
    BY <1>2, <1>6, <1>12, <1>13, <1>14, StatementFacts
  <1>16. t \in Statements /\ Does(At(m1, made, a, b1), t, At(m2, made, a2, b2))
    BY <1>2, <1>7, <1>11, <1>12, <1>13, <1>14, StatementFacts
  <1>17. u \in Statements /\ Does(At(m2, made, a2, b2), u, At(m3, made, r, b2))
    BY <1>2, <1>8, <1>11, <1>12, <1>13, <1>14, StatementFacts
  <1>18. d \in Seq(Pointers) /\ Len(d) # 0 /\ d[Len(d)] = NULL
    <2>1. /\ Chain(m, made, d) /\ Len(d) = Len(a) - k + 1
      BY <1>2, <1>3, <1>9, <1>12, SubChain, ZenonT(40)
    <2>2. \A n \in 1 .. (Len(a) - k + 1) : d[n] = a[k + n - 1]
      <3>1. made \subseteq JobIds /\ Chain(m, made, a) /\ k \in 1 .. Len(a)
        BY <1>2, <1>3, <1>12
      <3>2. \A n \in 1 .. (Len(a) - k + 1) : SubSeq(a, k, Len(a))[n] = a[k + n - 1]
        BY <3>1, SubChain
      <3>. QED  BY <1>9, <3>2
    <2>3. Len(d) \in 1 .. (Len(a) - k + 1) /\ k + Len(d) - 1 = Len(a) /\ Len(d) # 0
      BY <1>4, <1>12, <2>1
    <2>. QED  BY <1>2, <2>1, <2>2, <2>3 DEF Chain
  <1>19. b1[Len(b1)] = NULL
    <2>1. PICK l \in 1 .. Len(b) : l = Len(b)
      BY <1>12
    <2>2. b1 = Joined(b, l, d)
      BY <1>10, <2>1
    <2>3. b1[Len(b1)] = d[Len(d)]
      BY <1>4, <1>18, <2>2, JoinedLast
    <2>. QED  BY <1>18, <2>3
  <1>20. PICK h \in 1 .. Len(a) : h = k + 1
    BY <1>12
  <1>21. PICK e : e = <<NULL>>
    OBVIOUS
  <1>22. e \in Seq(Pointers) /\ Len(e) = 1 /\ e[1] = NULL /\ a2 = Joined(a, h, e)
    BY <1>10, <1>12, <1>20, <1>21
  <1>23. a2[Len(a2)] = NULL
    <2>1. e \in Seq(Pointers) /\ Len(e) # 0 /\ a2 = Joined(a, h, e)
      BY <1>22
    <2>2. a2[Len(a2)] = e[Len(e)]
      BY <1>4, <2>1, JoinedLast
    <2>. QED  BY <1>22, <2>2
  <1>24. b2[Len(b2)] = NULL
    BY <1>11 DEF Sound
  <1>25. /\ a2 \in Seq(Pointers) /\ Len(a2) = k + 1
         /\ \A n \in 1 .. (k - 1) : a2[n] = a[n]
    <2>1. Joined(a, h, e) \in Seq(Pointers) /\ Len(Joined(a, h, e)) = h - 1 + Len(e)
      BY <1>4, <1>22, JoinedFacts
    <2>2. \A n \in 1 .. (h - 1 + Len(e)) : n < h => Joined(a, h, e)[n] = a[n]
      BY <1>4, <1>22, JoinedFacts, ZenonT(40)
    <2>3. h - 1 + Len(e) = k + 1 /\ \A n \in 1 .. (k - 1) : n \in 1 .. (h - 1 + Len(e)) /\ n < h
      BY <1>12, <1>20, <1>22
    <2>. QED  BY <1>22, <2>1, <2>2, <2>3
  <1>26. r \in Seq(Pointers) /\ Len(r) = Len(a) - 1 /\ \A n \in 1 .. (k - 1) : r[n] = a[n]
    <2>1. k \in DOMAIN a
      BY <1>4, <1>12
    <2>2. /\ r \in Seq(Pointers) /\ Len(r) = Len(a) - 1
          /\ \A n \in 1 .. (Len(a) - 1) : r[n] = IF n < k THEN a[n] ELSE a[n + 1]
      BY <1>4, <1>10, <2>1, RemoveAtSeq
    <2>3. \A n \in 1 .. (k - 1) : n < k /\ n \in 1 .. (Len(a) - 1)
      BY <1>4, <1>12
    <2>. QED  BY <2>2, <2>3
  <1>27. k \in Nat /\ Agrees(a, a, k) /\ Agrees(a2, a, k) /\ Agrees(r, a, k)
    BY <1>4, <1>12, <1>25, <1>26 DEF Agrees
  <1>28. Range(q) \ Range(a) \subseteq MayMiss(at)
    BY <1>4, <1>27, KeptIn
  <1>29. Range(q) \ Range(a2) \subseteq MayMiss(at)
    BY <1>25, <1>27, KeptIn
  <1>30. Range(q) \ Range(r) \subseteq MayMiss(at)
    BY <1>26, <1>27, KeptIn
  <1>31. Seen(At(m1, made, a, b1), at, q)
    BY <1>2, <1>11, <1>19, <1>28, SeenAt
  <1>32. Seen(At(m2, made, a2, b2), at, q)
    BY <1>2, <1>11, <1>23, <1>24, <1>29, SeenAt
  <1>33. Seen(At(m3, made, r, b2), at, q)
    BY <1>11, <1>30, SoundSeen
  <1>34. PICK p1 : p1 = prog \o <<s, t>>
    OBVIOUS
  <1>35. p1 \in Seq(Statements) /\ Planned(c, p1, At(m2, made, a2, b2), at, q)
    <2>1. Planned(c, prog, At(m, made, a, b), at, q)
      BY DEF Stage
    <2>. QED  BY <1>1, <1>15, <1>16, <1>31, <1>32, <1>34, <2>1, PlanTwo
  <1>36. p = p1 \o <<u>>
    BY <1>5, <1>14, <1>34
  <1>37. /\ p \in Seq(Statements) /\ p # <<>>
         /\ Planned(c, p, At(m3, made, r, b2), at, q)
    <2>1. PICK f, g : f = At(m2, made, a2, b2) /\ g = At(m3, made, r, b2)
      OBVIOUS
    <2>2. Does(f, u, g) /\ Seen(g, at, q) /\ Planned(c, p1, f, at, q)
      BY <1>17, <1>33, <1>35, <2>1
    <2>3. /\ p1 \o <<u>> \in Seq(Statements) /\ p1 \o <<u>> # <<>>
          /\ Planned(c, p1 \o <<u>>, g, at, q)
      BY <1>17, <1>35, <2>2, PlanOne
    <2>. QED  BY <1>36, <2>1, <2>3
  <1>38. Stage(c, p, m3, made, r, b2, at, q)
    BY <1>11, <1>37 DEF Stage
  <1>. QED  BY <1>5, <1>10, <1>37, <1>38

-----------------------------------------------------------------------------
(* A list without its first job, and without its last one.                 *)
LEMMA TailIsRemoved ==
    ASSUME NEW s \in Seq(JobIds), s # <<>>
    PROVE  /\ RemoveAt(s, 1) = Tail(s) /\ Tail(s) \in Seq(JobIds)
           /\ Len(Tail(s)) = Len(s) - 1 /\ Range(Tail(s)) \subseteq Range(s)
  <1>0. /\ Len(s) \in Nat \ {0} /\ DOMAIN s = 1 .. Len(s)
    <2>1. Len(s) \in Nat /\ DOMAIN s = 1 .. Len(s)
      BY LenProperties
    <2>2. Len(s) # 0
      BY EmptySeq
    <2>. QED  BY <2>1, <2>2
  <1>1. PICK r, t : r = RemoveAt(s, 1) /\ t = Tail(s)
    OBVIOUS
  <1>2. /\ t \in Seq(JobIds) /\ Len(t) = Len(s) - 1
        /\ \A n \in 1 .. (Len(s) - 1) : t[n] = s[n + 1]
    BY <1>0, <1>1, HeadTailProperties
  <1>3. /\ r \in Seq(JobIds) /\ Len(r) = Len(s) - 1
        /\ \A n \in 1 .. (Len(s) - 1) : r[n] = IF n < 1 THEN s[n] ELSE s[n + 1]
    <2>1. 1 \in DOMAIN s
      BY <1>0
    <2>. QED  BY <1>1, <2>1, RemoveAtSeq
  <1>4. \A n \in 1 .. Len(r) : r[n] = t[n]
    BY <1>2, <1>3
  <1>5. r = t
    BY <1>2, <1>3, <1>4, SeqEqual
  <1>6. Range(t) \subseteq Range(s)
    <2>1. DOMAIN t = 1 .. (Len(s) - 1)
      BY <1>2, LenProperties
    <2>2. \A n \in 1 .. (Len(s) - 1) : n + 1 \in DOMAIN s
      BY <1>0
    <2>. QED  BY <1>2, <2>1, <2>2 DEF Range
  <1>. QED  BY <1>1, <1>2, <1>5, <1>6

(* The list without its last job, which stands before NULL.                *)
LEMMA FrontIsRemoved ==
    ASSUME NEW r \in Seq(JobIds), NEW j \in JobIds, NEW s, s = Append(r, j)
    PROVE  /\ Front(s) = r /\ RemoveAt(s, Len(s)) = r
           /\ Len(s) = Len(r) + 1 /\ s[Len(s)] = j /\ s \in Seq(JobIds)
           /\ \A n \in 1 .. Len(r) : s[n] = r[n]
  <1>1. /\ Len(r) \in Nat /\ s \in Seq(JobIds) /\ Len(s) = Len(r) + 1
        /\ \A n \in 1 .. Len(r) : s[n] = r[n]
        /\ s[Len(r) + 1] = j
    BY AppendProperties, LenProperties
  <1>2. Front(s) = r
    BY FrontOfAppend
  <1>3. PICK l \in DOMAIN s : l = Len(s)
    BY <1>1, LenProperties
  <1>4. /\ RemoveAt(s, l) \in Seq(JobIds) /\ Len(RemoveAt(s, l)) = Len(s) - 1
        /\ \A n \in 1 .. (Len(s) - 1) :
             RemoveAt(s, l)[n] = IF n < l THEN s[n] ELSE s[n + 1]
    BY <1>1, RemoveAtSeq
  <1>5. PICK t : t = RemoveAt(s, l)
    OBVIOUS
  <1>6. Len(t) = Len(r) /\ \A n \in 1 .. Len(r) : t[n] = r[n]
    BY <1>1, <1>3, <1>4, <1>5
  <1>7. t = r
    BY <1>4, <1>5, <1>6, SeqEqual
  <1>. QED  BY <1>1, <1>2, <1>3, <1>5, <1>7

(* One more job at the end.                                                *)
LEMMA JoinedAppend ==
    ASSUME NEW r \in Seq(JobIds), NEW j \in JobIds, NEW b, b = Append(r, NULL)
    PROVE  Joined(b, Len(b), <<j, NULL>>) = Append(Append(r, j), NULL)
  <1>1. /\ b \in Seq(Pointers) /\ Len(r) \in Nat /\ Len(b) = Len(r) + 1
        /\ \A n \in 1 .. Len(r) : b[n] = r[n]
    BY Terminated
  <1>2. PICK s : s = Append(r, j)
    OBVIOUS
  <1>3. /\ s \in Seq(JobIds) /\ Len(s) = Len(r) + 1
        /\ \A n \in 1 .. Len(r) : s[n] = r[n]
        /\ s[Len(r) + 1] = j
    BY <1>2, AppendProperties
  <1>4. PICK t : t = Append(s, NULL)
    OBVIOUS
  <1>5. /\ t \in Seq(Pointers) /\ Len(t) = Len(s) + 1
        /\ \A n \in 1 .. Len(s) : t[n] = s[n]
        /\ t[Len(s) + 1] = NULL
    BY <1>3, <1>4, Terminated
  <1>6. PICK c : c = <<j, NULL>>
    OBVIOUS
  <1>7. c \in Seq(Pointers) /\ Len(c) = 2 /\ c[1] = j /\ c[2] = NULL
    BY <1>6 DEF Pointers
  <1>8. PICK l \in 1 .. Len(b) : l = Len(b)
    BY <1>1
  <1>9. PICK d : d = Joined(b, l, c)
    OBVIOUS
  <1>10. /\ d \in Seq(Pointers) /\ Len(d) = l - 1 + Len(c)
         /\ \A n \in 1 .. (l - 1 + Len(c)) :
              /\ n < l => d[n] = b[n]
              /\ ~(n < l) => d[n] = c[n - (l - 1)]
    <2>1. /\ Joined(b, l, c) \in Seq(Pointers) /\ Len(Joined(b, l, c)) = l - 1 + Len(c)
          /\ \A n \in 1 .. (l - 1 + Len(c)) :
               /\ n < l => Joined(b, l, c)[n] = b[n]
               /\ ~(n < l) => Joined(b, l, c)[n] = c[n - (l - 1)]
      BY <1>1, <1>7, JoinedFacts, ZenonT(40)
    <2>. QED  BY <1>9, <2>1
  <1>11. Len(d) = Len(t) /\ Len(d) = Len(r) + 2 /\ l = Len(r) + 1
    BY <1>1, <1>3, <1>5, <1>7, <1>8, <1>10
  <1>12. ASSUME NEW n \in 1 .. Len(d)
         PROVE  d[n] = t[n]
    <2>0. n \in 1 .. (l - 1 + Len(c))
      BY <1>10
    <2>1. CASE n < l
      <3>1. n \in 1 .. Len(r) /\ n \in 1 .. Len(s)
        BY <1>1, <1>3, <1>11, <2>1
      <3>. QED  BY <1>1, <1>3, <1>5, <1>10, <2>0, <2>1, <3>1
    <2>2. CASE n = l
      <3>1. ~(n < l) /\ n - (l - 1) = 1 /\ n = Len(r) + 1 /\ n \in 1 .. Len(s)
        BY <1>1, <1>3, <1>11, <2>2
      <3>2. d[n] = c[n - (l - 1)]
        BY <1>10, <2>0, <3>1
      <3>3. t[n] = s[Len(r) + 1]
        BY <1>5, <3>1
      <3>. QED  BY <1>3, <1>7, <3>1, <3>2, <3>3
    <2>3. CASE n = l + 1
      <3>1. ~(n < l) /\ n - (l - 1) = 2 /\ n = Len(s) + 1
        BY <1>1, <1>3, <1>11, <2>3
      <3>2. d[n] = c[n - (l - 1)]
        BY <1>10, <2>0, <3>1
      <3>. QED  BY <1>5, <1>7, <3>1, <3>2
    <2>4. n < l \/ n = l \/ n = l + 1
      BY <1>1, <1>11
    <2>. QED  BY <2>1, <2>2, <2>3, <2>4
  <1>13. d = t
    BY <1>5, <1>10, <1>11, <1>12, SeqEqual
  <1>. QED  BY <1>2, <1>4, <1>6, <1>8, <1>9, <1>13

(* Behind a job that ends.                                                 *)
LEMMA FinishKeeps ==
    ASSUME NEW j, NEW k, Stands(FIRST, queue, j, k), queue \in Seq(JobIds),
           NEW at, at = [op |-> "finish", job |-> j, behind |-> Behind(j)]
    PROVE  Kept(Without(queue, j), Append(queue, NULL), k, at)
  <1>1. /\ k \in 1 .. Len(queue) /\ queue[k] = j
        /\ Range(Without(queue, j)) = Range(queue) \ {j}
    BY DEF Stands
  <1>2. /\ Len(queue) \in Nat /\ DOMAIN queue = 1 .. Len(queue)
        /\ \A n \in 1 .. Len(queue) : Append(queue, NULL)[n] = queue[n]
    BY Terminated
  <1>3. MayMiss(at) = Behind(j)
    BY DEF MayMiss
  <1>4. ASSUME NEW x \in Range(queue) \ {j}
        PROVE  x \in Behind(j) \/ \E n \in 1 .. (k - 1) : Append(queue, NULL)[n] = x
    <2>1. PICK n \in 1 .. Len(queue) : queue[n] = x
      BY <1>2 DEF Range
    <2>2. n # k
      BY <1>1, <1>4, <2>1
    <2>3. CASE n < k
      <3>1. n \in 1 .. (k - 1)
        BY <1>1, <2>3
      <3>. QED  BY <1>2, <2>1, <3>1
    <2>4. CASE n > k
      <3>1. k \in 1 .. n - 1 /\ n \in DOMAIN queue
        BY <1>1, <1>2, <2>4
      <3>. QED  BY <1>1, <2>1, <3>1 DEF Behind
    <2>. QED  BY <1>1, <2>2, <2>3, <2>4
  <1>. QED  BY <1>1, <1>3, <1>4 DEF Kept

(* The statements of new_finished_job and job_finished put job j from the  *)
(* queue at the end of the results, the oldest of which may be destroyed.  *)
LEMMA FinishStage ==
    ASSUME IInv, MaxFinished >= 2, Ready, NEW j \in Range(queue),
           NEW at, at = [op |-> "finish", job |-> j, behind |-> Behind(j)],
           NEW prog, prog = NewFinishedJob(j) \o Unlink(j),
           NEW q, q = Without(queue, j)
    PROVE  /\ prog # <<>>
           /\ \E m3, made :
                Stage(At(mem, Made, Append(queue, NULL), Append(results, NULL)), prog,
                      m3, made, Append(q, NULL), Append(Stored(j), NULL), at, q)
           /\ \E r \in Seq(JobIds) : /\ Stored(j) = Append(r, j)
                                     /\ Range(r) \subseteq Range(results)
  <1>1. /\ queue \in Seq(JobIds) /\ results \in Seq(JobIds)
    BY DEF IInv, Types
  <1>2. PICK a, b : a = Append(queue, NULL) /\ b = Append(results, NULL)
    OBVIOUS
  <1>3. PICK k : Stands(FIRST, queue, j, k)
    BY StandsInQueue
  <1>4. /\ k \in 1 .. (Len(a) - 1) /\ a[k] = j /\ Before(FIRST, j) = Place(FIRST, a, k)
        /\ RemoveAt(a, k) = Append(q, NULL)
    BY <1>2, <1>3 DEF Stands
  <1>5. Kept(q, a, k, at)
    BY <1>1, <1>2, <1>3, FinishKeeps
  <1>6. j \in JobIds /\ mem[N(j)] = a[k + 1]
    <2>1. Chain(mem, Made, a)
      BY <1>2, ReadyFacts DEF Spelled
    <2>. QED  BY <1>4, <2>1 DEF Chain, Made
  <1>7. PICK c : c = At(mem, Made, a, b)
    OBVIOUS
  <1>8. Stage(c, <<>>, mem, Made, a, b, at, q)
    <2>1. Range(q) \ Range(queue) \subseteq MayMiss(at)
      BY <1>3 DEF Stands
    <2>. QED  BY <1>2, <1>7, <2>1, StageStart
  <1>9. Unlink(j) = <<Set(Place(FIRST, a, k), a[k + 1])>>
    BY <1>4, <1>6 DEF Unlink
  <1>10. /\ Len(results) \in Nat /\ Len(b) = Len(results) + 1
         /\ \A n \in 1 .. Len(results) : b[n] = results[n]
    BY <1>1, <1>2, Terminated
  <1>11. FinishedWalk = b
    BY <1>2, ReadyFacts
  <1>12. ASSUME NEW p0, NEW m0, NEW made, NEW r \in Seq(JobIds), NEW b0, b0 = Append(r, NULL),
                Stage(c, p0, m0, made, a, b0, at, q),
                NewFinishedJob(j) = p0 \o <<Set(Place(FINISHED, b0, Len(b0)), j),
                                            Set(N(j), NULL)>>,
                Stored(j) = Append(r, j)
         PROVE  /\ prog # <<>>
                /\ \E m3 : Stage(c, prog, m3, made, Append(q, NULL),
                                 Append(Stored(j), NULL), at, q)
    <2>1. prog = (p0 \o <<Set(Place(FINISHED, b0, Len(b0)), a[k]), Set(N(a[k]), NULL)>>)
                 \o <<Set(Place(FIRST, a, k), a[k + 1])>>
      BY <1>4, <1>9, <1>12
    <2>2. prog # <<>>
      BY <1>4, <1>5, <1>12, <2>1, StageHanded
    <2>3. PICK m3 : Stage(c, prog, m3, made, RemoveAt(a, k),
                          Joined(b0, Len(b0), <<a[k], NULL>>), at, q)
      BY <1>4, <1>5, <1>12, <2>1, StageHanded
    <2>4. Joined(b0, Len(b0), <<a[k], NULL>>) = Append(Stored(j), NULL)
      BY <1>4, <1>6, <1>12, JoinedAppend
    <2>. QED  BY <1>4, <2>2, <2>3, <2>4
  <1>13. CASE results = <<>>
    <2>1. Len(results) = 0
      BY <1>13
    <2>2. Len(b) = 1 /\ Place(FINISHED, b, Len(b)) = FINISHED
      BY <1>10, <2>1 DEF Place
    <2>3. NewFinishedJob(j) = <<>> \o <<Set(Place(FINISHED, b, Len(b)), j), Set(N(j), NULL)>>
      BY <1>13, <2>2 DEF NewFinishedJob
    <2>4. Stored(j) = Append(results, j)
      BY <2>1, ListAssumption DEF Stored
    <2>5. /\ prog # <<>>
          /\ \E m3 : Stage(c, prog, m3, Made, Append(q, NULL), Append(Stored(j), NULL), at, q)
      BY <1>1, <1>2, <1>8, <1>12, <2>3, <2>4
    <2>. QED  BY <1>1, <1>2, <1>7, <2>4, <2>5
  <1>14. CASE results # <<>>
    <2>1. Len(results) \in Nat \ {0}
      <3>1. Len(results) # 0
        BY <1>1, <1>14, EmptySeq
      <3>. QED  BY <1>10, <3>1
    <2>2. /\ N(LastOf(FinishedWalk)) = Place(FINISHED, b, Len(b))
      BY <1>10, <1>11, <2>1 DEF LastOf, Place
    <2>3. CASE ~(Len(results) >= MaxFinished)
      <3>1. NewFinishedJob(j)
            = <<>> \o <<Set(Place(FINISHED, b, Len(b)), j), Set(N(j), NULL)>>
        BY <1>14, <2>2, <2>3 DEF NewFinishedJob
      <3>2. Stored(j) = Append(results, j)
        BY <2>3 DEF Stored
      <3>3. /\ prog # <<>>
            /\ \E m3 : Stage(c, prog, m3, Made, Append(q, NULL), Append(Stored(j), NULL),
                             at, q)
        BY <1>1, <1>2, <1>8, <1>12, <3>1, <3>2
      <3>. QED  BY <1>1, <1>2, <1>7, <3>2, <3>3
    <2>4. CASE Len(results) >= MaxFinished
      <3>1. Len(results) >= 2 /\ 1 \in 1 .. (Len(b) - 1) /\ 1 \in 1 .. Len(results)
        BY <1>10, <2>1, <2>4, ListAssumption
      <3>2. PICK r, b0 : r = Tail(results) /\ b0 = Append(r, NULL)
        OBVIOUS
      <3>3. /\ r \in Seq(JobIds) /\ Len(r) = Len(results) - 1
            /\ Range(r) \subseteq Range(results) /\ RemoveAt(results, 1) = r
        BY <1>1, <1>14, <3>2, TailIsRemoved
      <3>4. RemoveAt(b, 1) = b0
        BY <1>1, <1>2, <3>1, <3>2, <3>3, RemoveTerminated
      <3>5. PICK first : first = b[1]
        OBVIOUS
      <3>6. PICK wipe : wipe = <<Copy(FINISHED, N(first)), Free(first)>>
        OBVIOUS
      <3>7. wipe = <<>> \o <<Copy(Place(FINISHED, b, 1), N(b[1])), Free(b[1])>>
        BY <3>5, <3>6 DEF Place
      <3>8. Range(q) \ Range(a) \subseteq MayMiss(at)
        <4>1. Range(q) \subseteq Range(a)
          BY <1>1, <1>2, <1>3, Terminated DEF Stands
        <4>. QED  BY <4>1
      <3>9. PICK m0 : Stage(c, wipe, m0, Made \ {b[1]}, a, RemoveAt(b, 1), at, q)
        BY <1>8, <3>1, <3>7, <3>8, StageDestroyFinished
      <3>10. FirstOf(FinishedWalk) = first
        BY <1>11, <3>5 DEF FirstOf
      <3>11. N(LastOf(FinishedWalk)) = Place(FINISHED, b0, Len(b0))
        <4>1. /\ Len(b0) = Len(r) + 1
              /\ \A n \in 1 .. Len(r) : b0[n] = r[n]
          BY <3>2, <3>3, Terminated
        <4>2. Len(r) \in 1 .. Len(r) /\ Len(b0) - 1 = Len(r) /\ Len(b0) # 1
          BY <2>1, <3>1, <3>3, <4>1
        <4>3. r[Len(r)] = results[Len(results)]
          <5>1. \A n \in 1 .. (Len(results) - 1) : r[n] = results[n + 1]
            BY <1>1, <1>14, <3>2, HeadTailProperties
          <5>2. Len(r) \in 1 .. (Len(results) - 1) /\ Len(r) + 1 = Len(results)
            BY <2>1, <3>1, <3>3
          <5>. QED  BY <5>1, <5>2
        <4>4. LastOf(FinishedWalk) = results[Len(results)]
          <5>1. Len(b) - 1 = Len(results) /\ Len(results) \in 1 .. Len(results)
            BY <1>10, <2>1
          <5>. QED  BY <1>10, <1>11, <5>1 DEF LastOf
        <4>5. b0[Len(b0) - 1] = r[Len(r)]
          BY <4>1, <4>2
        <4>. QED  BY <4>2, <4>3, <4>4, <4>5 DEF Place
      <3>12. NewFinishedJob(j) = wipe \o <<Set(Place(FINISHED, b0, Len(b0)), j), Set(N(j), NULL)>>
        BY <1>14, <2>4, <3>6, <3>10, <3>11 DEF NewFinishedJob
      <3>13. Stored(j) = Append(r, j)
        BY <2>4, <3>2 DEF Stored
      <3>14. /\ prog # <<>>
             /\ \E m3 : Stage(c, prog, m3, Made \ {b[1]}, Append(q, NULL),
                              Append(Stored(j), NULL), at, q)
        BY <1>12, <3>2, <3>3, <3>4, <3>9, <3>12, <3>13
      <3>. QED  BY <1>2, <1>7, <3>3, <3>13, <3>14
    <2>. QED  BY <2>3, <2>4
  <1>. QED  BY <1>13, <1>14

(* A job ends whose result is kept.                                        *)
LEMMA FinishKeptStep ==
    ASSUME IInv, MaxFinished >= 2, NEW j \in JobIds, FinishKept(j)
    PROVE  IInv'
  <1>1. PICK prog, q, r : prog = NewFinishedJob(j) \o Unlink(j) /\ q = Without(queue, j)
                          /\ r = Stored(j)
    OBVIOUS
  <1>2. /\ Ready /\ j \in Range(queue) /\ Begin("finish", j, prog, q, r)
        /\ UNCHANGED job
    BY <1>1 DEF FinishKept
  <1>3. /\ queue \in Seq(JobIds) /\ results \in Seq(JobIds) /\ Apart
        /\ job \in [JobIds -> {"unused", "made", "freed"}]
    BY DEF IInv, Types
  <1>4. PICK k : Stands(FIRST, queue, j, k)
    BY <1>2, StandsInQueue
  <1>5. q \in Seq(JobIds) /\ Range(q) = Range(queue) \ {j}
    BY <1>1, <1>4 DEF Stands
  <1>6. PICK at : at = [op |-> "finish", job |-> j, behind |-> Behind(j)]
    OBVIOUS
  <1>7. PICK a, b : a = Append(queue, NULL) /\ b = Append(results, NULL)
    OBVIOUS
  <1>8. /\ prog # <<>>
        /\ \E m3, made : Stage(At(mem, Made, a, b), prog, m3, made,
                               Append(q, NULL), Append(r, NULL), at, q)
    BY <1>1, <1>2, <1>6, <1>7, FinishStage
  <1>9. PICK s \in Seq(JobIds) : r = Append(s, j) /\ Range(s) \subseteq Range(results)
    BY <1>1, <1>2, <1>6, FinishStage
  <1>10. r \in Seq(JobIds) /\ Range(r) = Range(s) \cup {j}
    BY <1>9, RangeOfAppend
  <1>11. Range(q) \cap Range(r) = {}
    BY <1>3, <1>5, <1>9, <1>10 DEF Apart
  <1>12. Made' = Made
    BY <1>2 DEF Made
  <1>13. PICK m3, made : Stage(At(mem, Made', a, b), prog, m3, made,
                               Append(q, NULL), Append(r, NULL), at, q)
    BY <1>8, <1>12
  <1>. QED  BY <1>2, <1>3, <1>5, <1>6, <1>8, <1>10, <1>11, <1>13, StageEnd

(* A job ends whose result is not kept.                                    *)
LEMMA FinishUnkeptStep ==
    ASSUME IInv, NEW j \in JobIds, FinishUnkept(j)
    PROVE  IInv'
  <1>1. PICK prog, q : prog = Unlink(j) /\ q = Without(queue, j)
    OBVIOUS
  <1>2. /\ Ready /\ j \in Range(queue) /\ Begin("finish", j, prog, q, results)
        /\ UNCHANGED job
    BY <1>1 DEF FinishUnkept
  <1>3. /\ queue \in Seq(JobIds) /\ results \in Seq(JobIds) /\ Apart
        /\ job \in [JobIds -> {"unused", "made", "freed"}]
    BY DEF IInv, Types
  <1>4. PICK a, b : a = Append(queue, NULL) /\ b = Append(results, NULL)
    OBVIOUS
  <1>5. PICK k : Stands(FIRST, queue, j, k)
    BY <1>2, StandsInQueue
  <1>6. /\ q \in Seq(JobIds) /\ Range(q) = Range(queue) \ {j}
        /\ k \in 1 .. (Len(a) - 1) /\ a[k] = j /\ Before(FIRST, j) = Place(FIRST, a, k)
        /\ RemoveAt(a, k) = Append(q, NULL)
    BY <1>1, <1>4, <1>5 DEF Stands
  <1>7. PICK at : at = [op |-> "finish", job |-> j, behind |-> Behind(j)]
    OBVIOUS
  <1>8. Stage(At(mem, Made, a, b), <<>>, mem, Made, a, b, at, q)
    BY <1>2, <1>4, <1>6, StageStart
  <1>9. Sound(mem, Made, FIRST, a, FINISHED, b)
    BY <1>8 DEF Stage
  <1>10. FIRST \in Heads /\ FINISHED \in Heads \ {FIRST}
    BY CellFacts DEF Heads
  <1>11. PICK x : x = Place(FIRST, a, k)
    OBVIOUS
  <1>12. PICK m2 : m2 = [mem EXCEPT ![x] = a[k + 1]]
    OBVIOUS
  <1>13. Sound(m2, Made, FIRST, RemoveAt(a, k), FINISHED, b)
    BY <1>6, <1>9, <1>10, <1>11, <1>12, SoundCut
  <1>14. x \in Usable(Made)
    BY <1>6, <1>9, <1>10, <1>11, SoundCut
  <1>15. mem[N(j)] = a[k + 1] /\ a[k + 1] \in Pointers
    <2>1. Chain(mem, Made, a)
      BY <1>9 DEF Sound, Spelled
    <2>2. mem[N(j)] = a[k + 1]
      BY <1>6, <2>1 DEF Chain
    <2>3. Len(a) \in Nat /\ a \in Seq(Pointers)
      BY <2>1, LenProperties DEF Chain
    <2>4. k + 1 \in 1 .. Len(a)
      BY <1>6, <2>3
    <2>. QED  BY <2>2, <2>3, <2>4, ElementOfSeq
  <1>16. PICK s : s = Set(x, a[k + 1])
    OBVIOUS
  <1>17. prog = <<>> \o <<s>>
    BY <1>1, <1>6, <1>11, <1>15, <1>16 DEF Unlink
  <1>18. mem \in [Cells -> Pointers] /\ Made \subseteq JobIds
    BY <1>9 DEF Sound
  <1>19. PICK r : r = RemoveAt(a, k)
    OBVIOUS
  <1>20. s \in Statements /\ Does(At(mem, Made, a, b), s, At(m2, Made, r, b))
    BY <1>12, <1>14, <1>15, <1>16, <1>18, StatementFacts
  <1>21. Seen(At(m2, Made, r, b), at, q)
    <2>1. Range(q) \ Range(r) \subseteq MayMiss(at)
      BY <1>6, <1>19, Terminated
    <2>. QED  BY <1>13, <1>19, <2>1, SoundSeen
  <1>22. PICK c, d : c = At(mem, Made, a, b) /\ d = At(m2, Made, r, b)
    OBVIOUS
  <1>23. /\ prog \in Seq(Statements) /\ prog # <<>> /\ Planned(c, prog, d, at, q)
    <2>1. Planned(c, <<>>, c, at, q) /\ <<>> \in Seq(Statements)
      BY <1>8, <1>22 DEF Stage
    <2>2. Does(c, s, d) /\ Seen(d, at, q)
      BY <1>20, <1>21, <1>22
    <2>3. PICK p0 \in Seq(Statements) : p0 = <<>>
      BY <2>1
    <2>4. /\ p0 \o <<s>> \in Seq(Statements) /\ p0 \o <<s>> # <<>>
          /\ Planned(c, p0 \o <<s>>, d, at, q)
      BY <1>20, <2>1, <2>2, <2>3, PlanOne
    <2>. QED  BY <1>17, <2>3, <2>4
  <1>24. Stage(At(mem, Made', a, b), prog, m2, Made, Append(q, NULL),
               Append(results, NULL), at, q)
    <2>1. Made' = Made
      BY <1>2 DEF Made
    <2>. QED  BY <1>4, <1>6, <1>13, <1>19, <1>22, <1>23, <2>1 DEF Stage
  <1>25. Range(q) \cap Range(results) = {}
    BY <1>3, <1>6 DEF Apart
  <1>. QED  BY <1>2, <1>3, <1>6, <1>7, <1>23, <1>24, <1>25, StageEnd

(* A job of ts -nf ends that is waited for.                                *)
LEMMA FinishWaitedStep ==
    ASSUME IInv, MaxFinished >= 2, NEW j \in JobIds, FinishWaited(j)
    PROVE  IInv'
  <1>1. PICK p0, q, r : p0 = NewFinishedJob(j) \o Unlink(j) /\ q = Without(queue, j)
                        /\ r = Front(Stored(j))
    OBVIOUS
  <1>2. PICK prog : prog = p0 \o <<Copy(IF r = <<>> THEN FINISHED ELSE N(r[1]), N(j)), Free(j)>>
    OBVIOUS
  <1>3. /\ Ready /\ j \in Range(queue) /\ Begin("finish", j, prog, q, r)
        /\ Len(r) < 2 /\ UNCHANGED job
    BY <1>1, <1>2 DEF FinishWaited
  <1>4. /\ queue \in Seq(JobIds) /\ results \in Seq(JobIds) /\ Apart
        /\ job \in [JobIds -> {"unused", "made", "freed"}]
    BY DEF IInv, Types
  <1>5. PICK k : Stands(FIRST, queue, j, k)
    BY <1>3, StandsInQueue
  <1>6. q \in Seq(JobIds) /\ Range(q) = Range(queue) \ {j}
    BY <1>1, <1>5 DEF Stands
  <1>7. PICK at : at = [op |-> "finish", job |-> j, behind |-> Behind(j)]
    OBVIOUS
  <1>8. PICK a, b : a = Append(queue, NULL) /\ b = Append(results, NULL)
    OBVIOUS
  <1>9. PICK m3, made : Stage(At(mem, Made, a, b), p0, m3, made,
                              Append(q, NULL), Append(Stored(j), NULL), at, q)
    BY <1>1, <1>3, <1>7, <1>8, FinishStage
  <1>10. PICK s \in Seq(JobIds) : Stored(j) = Append(s, j) /\ Range(s) \subseteq Range(results)
    BY <1>1, <1>3, <1>7, FinishStage
  <1>11. /\ r = s /\ RemoveAt(Stored(j), Len(Stored(j))) = r /\ Stored(j) \in Seq(JobIds)
         /\ Len(Stored(j)) = Len(r) + 1 /\ Stored(j)[Len(Stored(j))] = j
    <2>1. PICK t : t = Stored(j)
      OBVIOUS
    <2>2. j \in JobIds /\ t = Append(s, j)
      BY <1>10, <2>1
    <2>3. /\ Front(t) = s /\ RemoveAt(t, Len(t)) = s
          /\ Len(t) = Len(s) + 1 /\ t[Len(t)] = j /\ t \in Seq(JobIds)
      <3>1. Front(t) = s /\ RemoveAt(t, Len(t)) = s
        BY <2>2, FrontIsRemoved
      <3>2. Len(t) = Len(s) + 1
        BY <2>2, FrontIsRemoved
      <3>3. t[Len(t)] = j /\ t \in Seq(JobIds)
        BY <2>2, FrontIsRemoved
      <3>. QED  BY <3>1, <3>2, <3>3
    <2>. QED  BY <1>1, <2>1, <2>3
  <1>12. \A n \in 1 .. Len(r) : Stored(j)[n] = r[n]
    BY <1>10, <1>11, FrontIsRemoved
  <1>13. PICK b2, l : b2 = Append(Stored(j), NULL) /\ l = Len(Stored(j))
    OBVIOUS
  <1>14. /\ Len(b2) = l + 1 /\ \A n \in 1 .. l : b2[n] = Stored(j)[n]
    BY <1>11, <1>13, Terminated
  <1>15. Len(r) \in Nat /\ l = Len(r) + 1
    BY <1>10, <1>11, <1>13, LenProperties
  <1>16. l \in 1 .. (Len(b2) - 1) /\ l \in 1 .. l /\ b2[l] = j
    BY <1>11, <1>13, <1>14, <1>15
  <1>17. (IF r = <<>> THEN FINISHED ELSE N(r[1])) = Place(FINISHED, b2, l)
    <2>1. CASE r = <<>>
      <3>1. Len(r) = 0
        BY <2>1
      <3>. QED  BY <1>15, <2>1, <3>1 DEF Place
    <2>2. CASE r # <<>>
      <3>1. Len(r) # 0
        BY <1>10, <1>11, <2>2, EmptySeq
      <3>2. l = 2 /\ 1 \in 1 .. Len(r) /\ 1 \in 1 .. l /\ l - 1 = 1
        <4>1. Len(r) < 2
          BY <1>3
        <4>2. PICK h \in Nat : h = Len(r)
          BY <1>15
        <4>3. h = 1
          BY <3>1, <4>1, <4>2
        <4>4. Len(r) = 1
          BY <4>2, <4>3
        <4>. QED  BY <1>15, <4>4
      <3>3. b2[l - 1] = r[1]
        BY <1>12, <1>14, <3>2
      <3>. QED  BY <2>2, <3>2, <3>3 DEF Place
    <2>. QED  BY <2>1, <2>2
  <1>18. RemoveAt(b2, l) = Append(r, NULL)
    <2>1. PICK t \in Seq(JobIds) : t = Stored(j)
      BY <1>11
    <2>2. l \in 1 .. Len(t)
      BY <1>13, <1>16, <2>1
    <2>3. RemoveAt(Append(t, NULL), l) = Append(RemoveAt(t, l), NULL)
      BY <2>2, RemoveTerminated
    <2>. QED  BY <1>11, <1>13, <2>1, <2>3
  <1>19. Range(q) \ Range(Append(q, NULL)) \subseteq MayMiss(at)
    BY <1>6, Terminated
  <1>20. PICK a2 : a2 = Append(q, NULL)
    OBVIOUS
  <1>21. prog = p0 \o <<Copy(Place(FINISHED, b2, l), N(b2[l])), Free(b2[l])>>
    BY <1>2, <1>16, <1>17
  <1>22. Stage(At(mem, Made, a, b), p0, m3, made, a2, b2, at, q)
    BY <1>9, <1>13, <1>20
  <1>23. Range(q) \ Range(a2) \subseteq MayMiss(at)
    BY <1>19, <1>20
  <1>24. PICK m4 : /\ prog # <<>>
                   /\ Stage(At(mem, Made, a, b), prog, m4, made \ {b2[l]}, a2,
                            RemoveAt(b2, l), at, q)
    BY <1>16, <1>21, <1>22, <1>23, StageDestroyFinished
  <1>25. Made' = Made
    BY <1>3 DEF Made
  <1>26. Stage(At(mem, Made', a, b), prog, m4, made \ {b2[l]}, Append(q, NULL),
               Append(r, NULL), at, q)
    BY <1>18, <1>20, <1>24, <1>25
  <1>27. r \in Seq(JobIds) /\ Range(q) \cap Range(r) = {}
    BY <1>4, <1>6, <1>10, <1>11 DEF Apart
  <1>. QED  BY <1>3, <1>4, <1>6, <1>7, <1>24, <1>26, <1>27, StageEnd

-----------------------------------------------------------------------------
(* A program of three statements.                                          *)
LEMMA PlanThree ==
    ASSUME NEW c, NEW d, NEW e, NEW f, NEW at, NEW q, NEW s \in Statements,
           NEW t \in Statements, NEW u \in Statements, Seen(c, at, q),
           Does(c, s, d), Seen(d, at, q), Does(d, t, e), Seen(e, at, q),
           Does(e, u, f), Seen(f, at, q), NEW prog, prog = <<s, t, u>>
    PROVE  prog \in Seq(Statements) /\ prog # <<>> /\ Planned(c, prog, f, at, q)
  <1>1. PICK p0 \in Seq(Statements) : p0 = <<>>
    BY EmptySeq
  <1>2. Planned(c, p0, c, at, q)
    BY <1>1, PlanEmpty
  <1>3. PICK p : p = p0 \o <<s, t>>
    OBVIOUS
  <1>4. p \in Seq(Statements) /\ Planned(c, p, e, at, q)
    BY <1>2, <1>3, PlanTwo
  <1>5. PICK r : r = p \o <<u>>
    OBVIOUS
  <1>6. r \in Seq(Statements) /\ r # <<>> /\ Planned(c, r, f, at, q)
    BY <1>4, <1>5, PlanOne
  <1>7. r = prog
    <2>1. p = <<s, t>>
      <3>1. <<s, t>> \in Seq(Statements)
        OBVIOUS
      <3>. QED  BY <1>1, <1>3, <3>1, ConcatEmptySeq
    <2>2. Len(p) = 2 /\ p[1] = s /\ p[2] = t
      BY <2>1
    <2>3. r = Append(p, u)
      BY <1>4, <1>5
    <2>4. Len(r) = 3 /\ r[1] = s /\ r[2] = t /\ r[3] = u
      BY <1>4, <2>2, <2>3, AppendProperties, SMTT(25)
    <2>5. prog \in Seq(Statements) /\ Len(prog) = 3 /\ prog[1] = s /\ prog[2] = t /\ prog[3] = u
      OBVIOUS
    <2>6. \A n \in 1 .. Len(r) : r[n] = prog[n]
      <3>1. \A n \in 1 .. Len(r) : n = 1 \/ n = 2 \/ n = 3
        BY <2>4
      <3>. QED  BY <2>4, <2>5, <3>1
    <2>. QED  BY <1>6, <2>4, <2>5, <2>6, SeqEqual
  <1>. QED  BY <1>6, <1>7

(* A new job changes nothing for the lists.                                *)
LEMMA SoundMore ==
    ASSUME NEW m, NEW made, NEW head, NEW a, NEW head2, NEW b,
           Sound(m, made, head, a, head2, b), NEW made2, made \subseteq made2,
           made2 \subseteq JobIds
    PROVE  Sound(m, made2, head, a, head2, b)
  BY DEF Sound, Spelled, Chain

(* newjobptr and init_job: a job that is made goes to the end of the queue.*)
LEMMA Queued ==
    ASSUME NEW m, NEW made, NEW r \in Seq(JobIds), NEW a, a = Append(r, NULL), NEW b,
           Sound(m, made, FIRST, a, FINISHED, b),
           NEW j \in made, Absent(j, a), Absent(j, b), m[N(j)] = Garbage,
           NEW x, x = Place(FIRST, a, Len(a)),
           NEW m1, m1 = [m EXCEPT ![x] = j],
           NEW m2, m2 = [m1 EXCEPT ![N(j)] = NULL]
    PROVE  /\ x \in Usable(made) /\ m1 \in [Cells -> Pointers]
           /\ Spelled(m1, made, FIRST, Joined(a, Len(a), <<j, Garbage>>))
           /\ Spelled(m1, made, FINISHED, b)
           /\ Sound(m2, made, FIRST, Append(Append(r, j), NULL), FINISHED, b)
  <1>1. /\ m \in [Cells -> Pointers] /\ made \subseteq JobIds
        /\ Spelled(m, made, FIRST, a) /\ Spelled(m, made, FINISHED, b)
        /\ Separate(a, b) /\ b[Len(b)] = NULL
        /\ FIRST \in Heads /\ FINISHED \in Heads \ {FIRST}
    BY CellFacts DEF Sound, Heads
  <1>2. /\ a \in Seq(Pointers) /\ Len(r) \in Nat /\ Len(a) = Len(r) + 1
        /\ \A n \in 1 .. Len(r) : a[n] = r[n]
    BY Terminated
  <1>3. PICK l \in 1 .. Len(a) : l = Len(a)
    BY <1>2
  <1>4. j \in JobIds /\ j \in Pointers /\ NULL \in Pointers /\ Garbage \in Pointers
    BY <1>1 DEF Pointers
  <1>5. x = Place(FIRST, a, l) /\ x \in Usable(made)
    BY <1>1, <1>3, PlaceUsable
  <1>6. x \in Cells /\ N(j) \in Cells
    BY <1>1, <1>4, <1>5, CellFacts, StatementFacts
  <1>7. x # N(j)
    <2>1. CASE l = 1
      BY <1>4, <1>5, <2>1, CellFacts DEF Place
    <2>2. CASE l # 1
      <3>1. l - 1 \in 1 .. (Len(a) - 1)
        BY <1>2, <1>3, <2>2
      <3>2. a[l - 1] # j /\ a[l - 1] \in JobIds
        BY <1>1, <3>1 DEF Absent, Spelled, Chain
      <3>. QED  BY <1>4, <1>5, <2>2, <3>2, CellFacts DEF Place
    <2>. QED  BY <2>1, <2>2
  <1>8. m1 \in [Cells -> Pointers]
    BY <1>1, <1>4, <1>6
  <1>9. ASSUME NEW v \in Nowhere, NEW t, t = <<j, v>>
        PROVE  /\ t \in Seq(Pointers) /\ Len(t) = 2 /\ t[1] = j /\ t[2] = v
               /\ Clear(a, l, t)
    <2>1. v \in Pointers
      BY DEF Nowhere, Pointers
    <2>2. t \in Seq(Pointers) /\ Len(t) = 2 /\ t[1] = j /\ t[2] = v
      BY <1>4, <1>9, <2>1
    <2>3. ASSUME l # 1, NEW n \in 1 .. (Len(t) - 1)
          PROVE  t[n] # a[l - 1]
      <3>1. n = 1 /\ l - 1 \in 1 .. (Len(a) - 1)
        BY <1>2, <1>3, <2>2, <2>3
      <3>. QED  BY <2>2, <3>1 DEF Absent
    <2>. QED  BY <2>2, <2>3 DEF Clear, Absent
  <1>10. ASSUME NEW v \in Nowhere, NEW t, t = <<j, v>>, NEW n1, n1[N(j)] = v
         PROVE  Chain(n1, made, t)
    <2>1. t \in Seq(Pointers) /\ Len(t) = 2 /\ t[1] = j /\ t[2] = v
      BY <1>9, <1>10
    <2>2. \A n \in 1 .. (Len(t) - 1) : n = 1
      BY <2>1
    <2>. QED  BY <1>10, <2>1, <2>2 DEF Chain
  <1>11. Spelled(m1, made, FIRST, Joined(a, Len(a), <<j, Garbage>>))
    <2>1. PICK t : t = <<j, Garbage>>
      OBVIOUS
    <2>2. Garbage \in Nowhere
      BY DEF Nowhere
    <2>3. t[1] = j /\ Clear(a, l, t)
      BY <1>9, <2>1, <2>2
    <2>4. Chain(m, made, t)
      BY <1>10, <2>1, <2>2
    <2>5. Spelled([m EXCEPT ![x] = j], made, FIRST, Joined(a, l, t))
      BY <1>1, <1>5, <2>3, <2>4, Joins
    <2>. QED  BY <1>3, <2>1, <2>5
  <1>12. Spelled(m1, made, FINISHED, b)
    <2>1. Spelled([m EXCEPT ![Place(FIRST, a, l)] = j], made, FINISHED, b)
      BY <1>1, Aside
    <2>. QED  BY <1>5, <2>1
  <1>13. PICK n1 : n1 = [m EXCEPT ![N(j)] = NULL]
    OBVIOUS
  <1>14. Sound(n1, made, FIRST, a, FINISHED, b)
    <2>1. made \subseteq made /\ made \ {j} \subseteq made
      OBVIOUS
    <2>. QED  BY <1>1, <1>4, <1>13, <2>1, SoundStray
  <1>15. /\ n1 \in [Cells -> Pointers] /\ Spelled(n1, made, FIRST, a)
         /\ Spelled(n1, made, FINISHED, b)
    BY <1>14 DEF Sound
  <1>16. m2 = [n1 EXCEPT ![x] = j]
    <2>1. m2 \in [Cells -> Pointers] /\ [n1 EXCEPT ![x] = j] \in [Cells -> Pointers]
      BY <1>4, <1>8, <1>15
    <2>2. \A y \in Cells : m2[y] = [n1 EXCEPT ![x] = j][y]
      BY <1>1, <1>6, <1>7, <1>8, <1>13, <1>15
    <2>. QED  BY <2>1, <2>2
  <1>17. PICK t : t = <<j, NULL>>
    OBVIOUS
  <1>18. NULL \in Nowhere /\ t[1] = j /\ Clear(a, l, t)
    <2>1. NULL \in Nowhere
      BY DEF Nowhere
    <2>. QED  BY <1>9, <1>17, <2>1
  <1>19. PICK a2 : a2 = Append(Append(r, j), NULL)
    OBVIOUS
  <1>20. Spelled(m2, made, FIRST, a2)
    <2>1. n1[N(j)] = NULL
      BY <1>1, <1>6, <1>13
    <2>2. Chain(n1, made, t)
      BY <1>10, <1>17, <1>18, <2>1
    <2>3. Spelled([n1 EXCEPT ![x] = j], made, FIRST, Joined(a, l, t))
      BY <1>1, <1>5, <1>15, <1>18, <2>2, Joins
    <2>4. Joined(a, l, t) = a2
      BY <1>3, <1>4, <1>17, <1>19, JoinedAppend
    <2>. QED  BY <1>16, <2>3, <2>4
  <1>21. Spelled(m2, made, FINISHED, b)
    <2>1. Spelled([n1 EXCEPT ![Place(FIRST, a, l)] = j], made, FINISHED, b)
      BY <1>1, <1>15, Aside
    <2>. QED  BY <1>5, <1>16, <2>1
  <1>22. m2 \in [Cells -> Pointers]
    BY <1>4, <1>8
  <1>23. Separate(a2, b) /\ a2[Len(a2)] = NULL
    <2>1. PICK s : s = Append(r, j)
      OBVIOUS
    <2>2. s \in Seq(JobIds) /\ Len(s) = Len(r) + 1 /\ \A n \in 1 .. Len(r) : s[n] = r[n]
      BY <1>4, <2>1, AppendProperties
    <2>3. s[Len(r) + 1] = j
      BY <1>4, <2>1, AppendProperties
    <2>4. /\ Len(a2) = Len(s) + 1 /\ \A n \in 1 .. Len(s) : a2[n] = s[n]
          /\ a2[Len(s) + 1] = NULL
      BY <1>19, <2>1, <2>2, Terminated
    <2>5. ASSUME NEW i \in 1 .. (Len(a2) - 1), NEW n \in 1 .. (Len(b) - 1)
          PROVE  a2[i] # b[n]
      <3>1. i \in 1 .. Len(s)
        BY <1>2, <2>2, <2>4
      <3>2. CASE i = Len(r) + 1
        BY <2>3, <2>4, <3>1, <3>2 DEF Absent
      <3>3. CASE i # Len(r) + 1
        <4>1. i \in 1 .. Len(r) /\ i \in 1 .. (Len(a) - 1)
          BY <1>2, <2>2, <3>1, <3>3
        <4>2. a2[i] = a[i]
          BY <1>2, <2>2, <2>4, <3>1, <4>1
        <4>. QED  BY <1>1, <4>1, <4>2 DEF Separate
      <3>. QED  BY <3>2, <3>3
    <2>. QED  BY <2>4, <2>5 DEF Separate
  <1>24. Sound(m2, made, FIRST, a2, FINISHED, b)
    BY <1>1, <1>20, <1>21, <1>22, <1>23 DEF Sound
  <1>. QED  BY <1>5, <1>8, <1>11, <1>12, <1>19, <1>24

(* newjobptr and s_newjob.                                                 *)
LEMMA NewJobStep ==
    ASSUME IInv, NEW j \in JobIds, NewJob(j)
    PROVE  IInv'
  <1>1. PICK x, q : x = (IF queue = <<>> THEN FIRST ELSE N(LastOf(QueueWalk)))
                    /\ q = Append(queue, j)
    OBVIOUS
  <1>2. PICK prog : prog = <<Set(x, j), Set(N(j), NULL), Receive(j)>>
    OBVIOUS
  <1>3. /\ Ready /\ job[j] = "unused" /\ job' = [job EXCEPT ![j] = "made"]
        /\ Begin("newjob", j, prog, q, results)
    BY <1>1, <1>2 DEF NewJob, NewJobStatements
  <1>4. /\ queue \in Seq(JobIds) /\ results \in Seq(JobIds) /\ Apart
        /\ job \in [JobIds -> {"unused", "made", "freed"}]
        /\ mem[N(j)] = Garbage
    BY <1>3 DEF IInv, Types, Unused
  <1>5. PICK a, b : a = Append(queue, NULL) /\ b = Append(results, NULL)
    OBVIOUS
  <1>6. Made' = Made \cup {j} /\ j \notin Made /\ Made \subseteq JobIds
    BY <1>3, <1>4 DEF Made
  <1>7. PICK made : made = Made \cup {j}
    OBVIOUS
  <1>8. Sound(mem, Made, FIRST, a, FINISHED, b)
    BY <1>3, <1>5, SoundNow
  <1>9. Sound(mem, made, FIRST, a, FINISHED, b)
    <2>1. Made \subseteq made /\ made \subseteq JobIds
      BY <1>6, <1>7
    <2>. QED  BY <1>8, <2>1, SoundMore
  <1>10. Absent(j, a) /\ Absent(j, b)
    BY <1>6, <1>8 DEF Absent, Sound, Spelled, Chain
  <1>11. /\ a \in Seq(Pointers) /\ Len(queue) \in Nat /\ Len(a) = Len(queue) + 1
         /\ DOMAIN queue = 1 .. Len(queue)
         /\ \A n \in 1 .. Len(queue) : a[n] = queue[n]
    BY <1>4, <1>5, Terminated
  <1>12. x = Place(FIRST, a, Len(a))
    <2>1. QueueWalk = a
      BY <1>3, <1>5, ReadyFacts
    <2>2. CASE queue = <<>>
      <3>1. Len(queue) = 0
        BY <2>2
      <3>2. Len(a) = 1
        BY <1>11, <3>1
      <3>. QED  BY <1>1, <2>2, <3>2 DEF Place
    <2>3. CASE queue # <<>>
      <3>1. Len(queue) # 0
        BY <1>4, <2>3, EmptySeq
      <3>2. Len(a) # 1
        BY <1>11, <3>1
      <3>. QED  BY <1>1, <2>1, <2>3, <3>2 DEF Place, LastOf
    <2>. QED  BY <2>2, <2>3
  <1>13. PICK m1 : m1 = [mem EXCEPT ![x] = j]
    OBVIOUS
  <1>14. PICK m2 : m2 = [m1 EXCEPT ![N(j)] = NULL]
    OBVIOUS
  <1>15. PICK t, a1, a2 : /\ t = <<j, Garbage>> /\ a1 = Joined(a, Len(a), t)
                          /\ a2 = Append(q, NULL)
    OBVIOUS
  <1>16. j \in made
    BY <1>7
  <1>17. x \in Usable(made) /\ m1 \in [Cells -> Pointers]
    <2>1. x \in Usable(made)
      BY <1>4, <1>5, <1>9, <1>10, <1>12, <1>13, <1>14, <1>16, Queued
    <2>2. m1 \in [Cells -> Pointers]
      <3>1. mem \in [Cells -> Pointers] /\ made \subseteq JobIds /\ j \in Pointers
        BY <1>9 DEF Sound, Pointers
      <3>. QED  BY <1>13, <2>1, <3>1, StatementFacts
    <2>. QED  BY <2>1, <2>2
  <1>18. Spelled(m1, made, FIRST, a1) /\ Spelled(m1, made, FINISHED, b)
    BY <1>4, <1>5, <1>9, <1>10, <1>12, <1>13, <1>14, <1>15, <1>16, Queued
  <1>19. Sound(m2, made, FIRST, a2, FINISHED, b)
    BY <1>1, <1>4, <1>5, <1>9, <1>10, <1>12, <1>13, <1>14, <1>15, <1>16, Queued
  <1>20. q \in Seq(JobIds) /\ Range(q) = Range(queue) \cup {j}
    BY <1>1, <1>4, RangeOfAppend
  <1>21. PICK at : at = [op |-> "newjob", job |-> j, behind |-> Behind(j)]
    OBVIOUS
  <1>22. MayMiss(at) = {j} /\ at.op = "newjob"
    BY <1>21 DEF MayMiss
  <1>23. t \in Seq(Pointers) /\ Len(t) = 2
    BY <1>4, <1>15 DEF Pointers
  <1>24. PICK l \in 1 .. Len(a) : l = Len(a)
    BY <1>11
  <1>25. Kept(q, a, l, at)
    <2>1. ASSUME NEW i \in Range(queue)
          PROVE  \E n \in 1 .. (l - 1) : a[n] = i
      <3>1. PICK n \in 1 .. Len(queue) : queue[n] = i
        BY <1>11 DEF Range
      <3>2. n \in 1 .. (l - 1)
        BY <1>11, <1>24
      <3>. QED  BY <1>11, <3>1, <3>2
    <2>. QED  BY <1>20, <1>22, <2>1 DEF Kept
  <1>26. a1 \in Seq(Pointers) /\ Agrees(a1, a, l)
    <2>1. a1 = Joined(a, l, t)
      BY <1>15, <1>24
    <2>2. Joined(a, l, t) \in Seq(Pointers) /\ Len(Joined(a, l, t)) = l - 1 + Len(t)
      BY <1>11, <1>23, JoinedFacts
    <2>3. \A n \in 1 .. (l - 1 + Len(t)) : n < l => Joined(a, l, t)[n] = a[n]
      BY <1>11, <1>23, JoinedFacts
    <2>4. /\ l - 1 <= l - 1 + Len(t)
          /\ \A n \in 1 .. (l - 1) : n \in 1 .. (l - 1 + Len(t)) /\ n < l
      BY <1>11, <1>23
    <2>. QED  BY <2>1, <2>2, <2>3, <2>4 DEF Agrees
  <1>27. l \in Nat
    BY <1>11
  <1>28. Range(q) \ Range(a1) \subseteq MayMiss(at)
    BY <1>25, <1>26, <1>27, KeptIn
  <1>29. Range(q) \ Range(a) \subseteq MayMiss(at) /\ Range(q) \ Range(a2) \subseteq MayMiss(at)
    BY <1>4, <1>5, <1>15, <1>20, <1>22, Terminated
  <1>30. PICK c, d, e : /\ c = At(mem, made, a, b) /\ d = At(m1, made, a1, b)
                        /\ e = At(m2, made, a2, b)
    OBVIOUS
  <1>31. Seen(c, at, q)
    BY <1>9, <1>29, <1>30, SoundSeen
  <1>32. Seen(e, at, q)
    BY <1>19, <1>29, <1>30, SoundSeen
  <1>33. Seen(d, at, q)
    <2>1. b[Len(b)] = NULL /\ made \subseteq JobIds
      BY <1>9 DEF Sound
    <2>. QED  BY <1>17, <1>18, <1>22, <1>28, <1>30, <2>1, SeenAt
  <1>34. PICK s, u, v : s = Set(x, j) /\ u = Set(N(j), NULL) /\ v = Receive(j)
    OBVIOUS
  <1>35. /\ N(j) \in Usable(made) /\ j \in Pointers /\ NULL \in Pointers
         /\ made \subseteq JobIds /\ mem \in [Cells -> Pointers] /\ m2 \in [Cells -> Pointers]
    BY <1>9, <1>16, <1>19 DEF Sound, Usable, Pointers
  <1>36. s \in Statements /\ Does(c, s, d)
    BY <1>13, <1>17, <1>30, <1>34, <1>35, StatementFacts
  <1>37. u \in Statements /\ Does(d, u, e)
    BY <1>14, <1>17, <1>30, <1>34, <1>35, StatementFacts
  <1>38. v \in Statements /\ Does(e, v, e)
    BY <1>16, <1>17, <1>30, <1>34, <1>35, StatementFacts
  <1>39. prog \in Seq(Statements) /\ prog # <<>> /\ Planned(c, prog, e, at, q)
    <2>1. prog = <<s, u, v>>
      BY <1>2, <1>34
    <2>. QED  BY <1>31, <1>32, <1>33, <1>36, <1>37, <1>38, <2>1, PlanThree
  <1>40. Stage(At(mem, Made', a, b), prog, m2, made, Append(q, NULL),
               Append(results, NULL), at, q)
    <2>1. Made' = made
      BY <1>6, <1>7
    <2>. QED  BY <1>5, <1>15, <1>19, <1>30, <1>39, <2>1 DEF Stage
  <1>41. Range(q) \cap Range(results) = {}
    <2>1. j \notin Range(results)
      <3>1. /\ Len(b) = Len(results) + 1 /\ Len(results) \in Nat
            /\ \A n \in 1 .. Len(results) : b[n] = results[n]
            /\ DOMAIN results = 1 .. Len(results)
        BY <1>4, <1>5, Terminated
      <3>2. \A n \in 1 .. Len(results) : n \in 1 .. (Len(b) - 1)
        BY <3>1
      <3>. QED  BY <1>10, <3>1, <3>2 DEF Absent, Range
    <2>. QED  BY <1>4, <1>20, <2>1 DEF Apart
  <1>42. /\ job' \in [JobIds -> {"unused", "made", "freed"}]
         /\ \A i \in JobIds : job'[i] = "unused" => job[i] = "unused"
    BY <1>3, <1>4
  <1>. QED  BY <1>3, <1>4, <1>20, <1>21, <1>39, <1>40, <1>41, <1>42, StageEnd

(* What touches no list.                                                   *)
LEMMA FaultStep ==
    ASSUME IInv, Fault
    PROVE  IInv'
  BY SameLists DEF Fault

(* s_mark_job_running.                                                     *)
LEMMA MarkRunningStep ==
    ASSUME IInv, NEW j \in JobIds, MarkRunning(j)
    PROVE  IInv'
  BY SameLists DEF MarkRunning

-----------------------------------------------------------------------------
(* What s_move_urgent makes of a queue.                                    *)
Urgent(s, p) == <<Head(s), p>> \o Without(Tail(s), p)

(* Job p, from place k, is the second.                                     *)
LEMMA UrgentIs ==
    ASSUME NEW s \in Seq(JobIds), NEW k \in 2 .. Len(s), NEW p, p = s[k],
           \A n \in 1 .. Len(s) : s[n] = p => n = k,
           NEW q, q = Urgent(s, p),
           NEW w, w = RemoveAt(s, k)
    PROVE  /\ q \in Seq(JobIds) /\ Len(q) = Len(s)
           /\ q[1] = s[1] /\ q[2] = p
           /\ \A n \in 3 .. Len(s) : q[n] = w[n - 1]
           /\ Range(q) = Range(s)
  <1>1. /\ Len(s) \in Nat /\ DOMAIN s = 1 .. Len(s)
        /\ \A n \in 1 .. Len(s) : s[n] \in JobIds
    BY LenProperties
  <1>2. s # <<>> /\ k \in 1 .. Len(s) /\ 1 \in 1 .. Len(s) /\ k - 1 \in 1 .. (Len(s) - 1)
    <2>1. Len(s) # 0
      BY <1>1
    <2>. QED  BY <1>1, <2>1
  <1>3. PICK t : t = Tail(s)
    OBVIOUS
  <1>4. /\ Head(s) = s[1] /\ t \in Seq(JobIds) /\ Len(t) = Len(s) - 1
        /\ \A n \in 1 .. (Len(s) - 1) : t[n] = s[n + 1]
    <2>1. /\ Head(s) = s[1] /\ Tail(s) \in Seq(JobIds) /\ Len(Tail(s)) = Len(s) - 1
          /\ \A n \in 1 .. Len(Tail(s)) : Tail(s)[n] = s[n + 1]
      BY <1>2, HeadTailProperties
    <2>. QED  BY <1>3, <2>1
  <1>5. DOMAIN t = 1 .. (Len(s) - 1)
    BY <1>4, LenProperties
  <1>6. IndexOf(t, p) = k - 1
    <2>1. t[k - 1] = p
      <3>1. (k - 1) + 1 = k
        BY <1>1
      <3>. QED  BY <1>2, <1>4, <3>1
    <2>2. ASSUME NEW n \in DOMAIN t, t[n] = p
          PROVE  n = k - 1
      <3>1. n + 1 \in 1 .. Len(s) /\ s[n + 1] = p
        BY <1>1, <1>4, <1>5, <2>2
      <3>2. n + 1 = k
        BY <3>1
      <3>. QED  BY <1>5, <3>2
    <2>. QED  BY <1>2, <1>5, <2>1, <2>2 DEF IndexOf
  <1>7. PICK u : u = Without(t, p)
    OBVIOUS
  <1>8. /\ u \in Seq(JobIds) /\ Len(u) = Len(s) - 2
        /\ \A n \in 1 .. (Len(s) - 2) : u[n] = IF n < k - 1 THEN t[n] ELSE t[n + 1]
    <2>1. PICK l \in DOMAIN t : l = k - 1
      BY <1>2, <1>5
    <2>2. /\ RemoveAt(t, l) \in Seq(JobIds) /\ Len(RemoveAt(t, l)) = Len(t) - 1
          /\ \A n \in 1 .. (Len(t) - 1) :
               RemoveAt(t, l)[n] = IF n < l THEN t[n] ELSE t[n + 1]
      BY <1>4, RemoveAtSeq
    <2>3. u = RemoveAt(t, l)
      BY <1>6, <1>7, <2>1 DEF Without
    <2>4. Len(t) - 1 = Len(s) - 2
      BY <1>1, <1>4
    <2>. QED  BY <2>1, <2>2, <2>3, <2>4
  <1>9. PICK h : h = <<Head(s), p>>
    OBVIOUS
  <1>10. h \in Seq(JobIds) /\ Len(h) = 2 /\ h[1] = s[1] /\ h[2] = p
    BY <1>1, <1>2, <1>4, <1>9
  <1>11. q = h \o u
    BY <1>3, <1>7, <1>9 DEF Urgent
  <1>12. /\ q \in Seq(JobIds) /\ Len(q) = Len(h) + Len(u)
         /\ \A n \in 1 .. (Len(h) + Len(u)) :
              q[n] = IF n <= Len(h) THEN h[n] ELSE u[n - Len(h)]
    <2>1. /\ h \o u \in Seq(JobIds) /\ Len(h \o u) = Len(h) + Len(u)
          /\ \A n \in 1 .. (Len(h) + Len(u)) :
               (h \o u)[n] = IF n <= Len(h) THEN h[n] ELSE u[n - Len(h)]
      <3>1. h \in Seq(JobIds) /\ u \in Seq(JobIds)
        BY <1>8, <1>10
      <3>. QED  BY <3>1, ConcatProperties
    <2>. QED  BY <1>11, <2>1
  <1>13. Len(h) + Len(u) = Len(s)
    BY <1>1, <1>8, <1>10
  <1>14. q[1] = s[1] /\ q[2] = p
    <2>1. 1 \in 1 .. Len(s) /\ 2 \in 1 .. Len(s) /\ 1 <= Len(h) /\ 2 <= Len(h)
      BY <1>1, <1>10
    <2>. QED  BY <1>10, <1>12, <1>13, <2>1
  <1>15. /\ w \in Seq(JobIds) /\ Len(w) = Len(s) - 1
         /\ \A n \in 1 .. (Len(s) - 1) : w[n] = IF n < k THEN s[n] ELSE s[n + 1]
    <2>1. k \in DOMAIN s
      BY <1>1, <1>2
    <2>. QED  BY <2>1, RemoveAtSeq
  <1>16. ASSUME NEW n \in 3 .. Len(s)
         PROVE  q[n] = w[n - 1]
    <2>1. /\ n \in 1 .. (Len(h) + Len(u)) /\ ~(n <= Len(h)) /\ n - Len(h) = n - 2
          /\ n - 2 \in 1 .. (Len(s) - 2) /\ n - 1 \in 1 .. (Len(s) - 1)
      BY <1>1, <1>10, <1>13
    <2>2. q[n] = u[n - 2]
      BY <1>12, <2>1
    <2>3. CASE n - 1 < k
      <3>1. n - 2 < k - 1 /\ n - 2 \in 1 .. (Len(s) - 1) /\ n - 2 + 1 = n - 1
        BY <1>1, <2>3
      <3>2. u[n - 2] = t[n - 2]
        BY <1>8, <2>1, <3>1
      <3>3. t[n - 2] = s[n - 1]
        BY <1>4, <3>1
      <3>. QED  BY <1>15, <2>1, <2>2, <2>3, <3>2, <3>3
    <2>4. CASE ~(n - 1 < k)
      <3>1. /\ ~(n - 2 < k - 1) /\ n - 2 + 1 = n - 1 /\ n - 1 + 1 = n
        BY <1>1, <2>4
      <3>2. u[n - 2] = t[n - 1]
        BY <1>8, <2>1, <3>1
      <3>3. t[n - 1] = s[n]
        BY <1>4, <2>1, <3>1
      <3>4. w[n - 1] = s[n]
        BY <1>15, <2>1, <2>4, <3>1
      <3>. QED  BY <2>2, <3>2, <3>3, <3>4
    <2>. QED  BY <2>3, <2>4
  <1>17. Range(q) = Range(s)
    <2>1. DOMAIN q = 1 .. Len(s)
      BY <1>12, <1>13, LenProperties
    <2>2. ASSUME NEW n \in 1 .. Len(s)
          PROVE  q[n] \in Range(s)
      <3>1. CASE n = 1 \/ n = 2
        BY <1>1, <1>2, <1>14, <3>1 DEF Range
      <3>2. CASE n # 1 /\ n # 2
        <4>1. n \in 3 .. Len(s) /\ n - 1 \in 1 .. (Len(s) - 1)
          BY <1>1, <3>2
        <4>2. q[n] = w[n - 1]
          BY <1>16, <4>1
        <4>3. n - 1 \in DOMAIN s /\ (n - 1) + 1 \in DOMAIN s
          BY <1>1, <4>1
        <4>. QED  BY <1>15, <4>1, <4>2, <4>3 DEF Range
      <3>. QED  BY <3>1, <3>2
    <2>3. ASSUME NEW n \in 1 .. Len(s)
          PROVE  s[n] \in Range(q)
      <3>1. CASE n = 1 \/ n = k
        <4>0. 1 \in 1 .. Len(s) /\ 2 \in 1 .. Len(s)
          BY <1>1
        <4>1. 1 \in DOMAIN q /\ 2 \in DOMAIN q
          BY <2>1, <4>0
        <4>. QED  BY <1>14, <3>1, <4>1 DEF Range
      <3>2. CASE n # 1 /\ n < k
        <4>1. n + 1 \in 3 .. Len(s) /\ (n + 1) - 1 = n /\ n \in 1 .. (Len(s) - 1)
          BY <1>1, <3>2
        <4>2. q[n + 1] = w[n]
          BY <1>16, <4>1
        <4>3. w[n] = s[n]
          BY <1>15, <3>2, <4>1
        <4>0. n + 1 \in 1 .. Len(s)
          BY <1>1, <4>1
        <4>4. n + 1 \in DOMAIN q
          BY <2>1, <4>0
        <4>. QED  BY <4>2, <4>3, <4>4 DEF Range
      <3>3. CASE n > k
        <4>1. n \in 3 .. Len(s) /\ n - 1 \in 1 .. (Len(s) - 1) /\ ~(n - 1 < k) /\ (n - 1) + 1 = n
          BY <1>1, <3>3
        <4>2. q[n] = w[n - 1]
          BY <1>16, <4>1
        <4>3. w[n - 1] = s[n]
          BY <1>15, <4>1
        <4>. QED  BY <2>1, <4>2, <4>3 DEF Range
      <3>. QED  BY <1>1, <3>1, <3>2, <3>3
    <2>. QED  BY <1>1, <2>1, <2>2, <2>3 DEF Range
  <1>. QED  BY <1>12, <1>13, <1>14, <1>16, <1>17

(* The list r with p for its first job.                                    *)
Fronted(c, r, p) ==
    /\ c \in Seq(Pointers) /\ Len(c) = Len(r) /\ c[1] = p
    /\ \A n \in 2 .. Len(r) : c[n] = r[n]

(* The three stores of s_move_urgent: job p goes out of its place k of the *)
(* queue a, points at the second of those that are left, r, and the first  *)
(* of them, f, points at it.                                               *)
Promotes(m, a, k, p, f, r, m1, m2, m3) ==
    /\ p = a[k] /\ f = a[1] /\ r = RemoveAt(a, k)
    /\ m1 = [m EXCEPT ![Place(FIRST, a, k)] = a[k + 1]]
    /\ m2 = [m1 EXCEPT ![N(p)] = m1[N(f)]]
    /\ m3 = [m2 EXCEPT ![N(f)] = p]

(* The lists that they make.                                               *)
LEMMA Promoted ==
    ASSUME NEW m, NEW made, NEW a, NEW b, Sound(m, made, FIRST, a, FINISHED, b),
           NEW k \in 2 .. (Len(a) - 1), NEW p, NEW f, NEW r, NEW m1, NEW m2, NEW m3,
           Promotes(m, a, k, p, f, r, m1, m2, m3), NEW c, Fronted(c, r, p)
    PROVE  /\ p \in made /\ f \in made
           /\ Sound(m1, made, FIRST, r, FINISHED, b)
           /\ Sound(m2, made, FIRST, r, FINISHED, b)
           /\ Sound(m3, made, FIRST, Joined(r, 2, c), FINISHED, b)
           /\ r \in Seq(Pointers) /\ Len(r) = Len(a) - 1 /\ r[1] = f /\ r[Len(r)] = NULL
  <1>0. FIRST \in Heads /\ FINISHED \in Heads \ {FIRST}
    BY CellFacts DEF Heads
  <1>a. /\ c \in Seq(Pointers) /\ Len(c) = Len(r) /\ c[1] = p
        /\ \A n \in 2 .. Len(r) : c[n] = r[n]
    BY DEF Fronted
  <1>b. /\ p = a[k] /\ f = a[1] /\ r = RemoveAt(a, k)
        /\ m1 = [m EXCEPT ![Place(FIRST, a, k)] = a[k + 1]]
        /\ m2 = [m1 EXCEPT ![N(p)] = m1[N(f)]]
        /\ m3 = [m2 EXCEPT ![N(f)] = p]
    BY DEF Promotes
  <1>1. Chain(m, made, a) /\ made \subseteq JobIds
    BY DEF Sound, Spelled
  <1>2. Len(a) \in Nat \ {0} /\ DOMAIN a = 1 .. Len(a)
    BY <1>1, ChainFacts
  <1>3. k \in 1 .. (Len(a) - 1) /\ 1 \in 1 .. (Len(a) - 1) /\ k \in DOMAIN a
    BY <1>2
  <1>4. Sound(m1, made, FIRST, r, FINISHED, b)
    <2>1. Sound([m EXCEPT ![Place(FIRST, a, k)] = a[k + 1]], made, FIRST,
                RemoveAt(a, k), FINISHED, b)
      BY <1>0, <1>3, SoundCut
    <2>. QED  BY <1>b, <2>1
  <1>5. p \in made /\ Absent(p, r) /\ Absent(p, b)
    <2>1. Absent(a[k], RemoveAt(a, k)) /\ Absent(a[k], b)
      BY <1>0, <1>3, SoundCut
    <2>2. a[k] \in made
      BY <1>1, <1>3 DEF Chain
    <2>. QED  BY <1>b, <2>1, <2>2
  <1>6. f \in made
    BY <1>b, <1>1, <1>3 DEF Chain
  <1>7. Len(r) = Len(a) - 1 /\ r[1] = f
    <2>1. a \in Seq(Pointers)
      BY <1>1 DEF Chain
    <2>2. /\ Len(RemoveAt(a, k)) = Len(a) - 1
          /\ \A n \in 1 .. (Len(a) - 1) :
               RemoveAt(a, k)[n] = IF n < k THEN a[n] ELSE a[n + 1]
      BY <1>3, <2>1, RemoveAtSeq
    <2>3. 1 < k
      BY <1>2
    <2>. QED  BY <1>b, <1>3, <2>2, <2>3
  <1>8. /\ Chain(m1, made, r) /\ r[Len(r)] = NULL /\ m1 \in [Cells -> Pointers]
        /\ Separate(r, b) /\ b[Len(b)] = NULL /\ r \in Seq(Pointers)
    BY <1>4 DEF Sound, Spelled, Chain
  <1>9. /\ Len(r) \in Nat /\ Len(r) >= 2 /\ 1 \in 1 .. (Len(r) - 1)
        /\ 2 \in 1 .. Len(r)
    BY <1>2, <1>7
  <1>10. m1[N(f)] = r[2] /\ r[2] \in Pointers
    <2>1. m1[N(r[1])] = r[1 + 1]
      BY <1>8, <1>9 DEF Chain
    <2>2. \A n \in 1 .. Len(r) : r[n] \in Pointers
      BY <1>8, LenProperties
    <2>. QED  BY <1>7, <1>9, <2>1, <2>2
  <1>11. Sound(m2, made, FIRST, r, FINISHED, b)
    <2>1. Sound([m1 EXCEPT ![N(p)] = r[2]], made, FIRST, r, FINISHED, b)
      BY <1>0, <1>4, <1>5, <1>10, SoundStray
    <2>. QED  BY <1>b, <1>10, <2>1
  <1>12. /\ m2 \in [Cells -> Pointers] /\ Spelled(m2, made, FIRST, r)
         /\ Spelled(m2, made, FINISHED, b) /\ Chain(m2, made, r)
    BY <1>11 DEF Sound, Spelled
  <1>13. m2[N(p)] = r[2]
    BY <1>b, <1>1, <1>5, <1>8, <1>10, CellFacts
  <1>14. Chain(m2, made, c)
    <2>1. ASSUME NEW n \in 1 .. (Len(c) - 1)
          PROVE  c[n] \in made /\ m2[N(c[n])] = c[n + 1]
      <3>1. n \in 1 .. (Len(r) - 1) /\ n + 1 \in 2 .. Len(r)
        BY <1>a, <1>9
      <3>2. c[n + 1] = r[n + 1]
        BY <1>a, <3>1
      <3>3. CASE n = 1
        <4>1. n + 1 = 2
          BY <3>3
        <4>. QED  BY <1>a, <1>5, <1>13, <3>2, <3>3, <4>1
      <3>4. CASE n # 1
        <4>1. n \in 2 .. Len(r)
          BY <1>9, <3>1, <3>4
        <4>2. c[n] = r[n]
          BY <1>a, <4>1
        <4>3. r[n] \in made /\ m2[N(r[n])] = r[n + 1]
          BY <1>12, <3>1 DEF Chain
        <4>. QED  BY <3>2, <4>2, <4>3
      <3>. QED  BY <3>3, <3>4
    <2>2. Len(c) # 0 /\ c[Len(c)] \in Nowhere
      <3>1. Len(r) \in 2 .. Len(r)
        BY <1>9
      <3>. QED  BY <1>a, <1>8, <1>9, <3>1 DEF Nowhere
    <2>. QED  BY <1>a, <2>1, <2>2 DEF Chain
  <1>15. Clear(r, 2, c)
    <2>1. ASSUME NEW n \in 1 .. (Len(c) - 1)
          PROVE  c[n] # r[1]
      <3>1. CASE n = 1
        BY <1>a, <1>5, <1>7, <1>9, <3>1 DEF Absent
      <3>2. CASE n # 1
        <4>1. n \in 2 .. Len(r) /\ n \in 1 .. Len(r) /\ 1 \in 1 .. Len(r)
          BY <1>a, <1>9, <3>2
        <4>2. c[n] = r[n]
          BY <1>a, <4>1
        <4>3. r[n] # r[1]
          BY <1>1, <1>12, <3>2, <4>1, ChainOnce
        <4>. QED  BY <4>2, <4>3
      <3>. QED  BY <3>1, <3>2
    <2>2. 2 - 1 = 1
      OBVIOUS
    <2>. QED  BY <2>1, <2>2 DEF Clear, Absent
  <1>16. N(f) = Place(FIRST, r, 2)
    <2>1. 2 # 1 /\ 2 - 1 = 1
      OBVIOUS
    <2>. QED  BY <1>7, <2>1 DEF Place
  <1>17. PICK g : g = Joined(r, 2, c)
    OBVIOUS
  <1>18. Spelled(m3, made, FIRST, g)
    <2>1. PICK y, v : y = N(f) /\ v = p
      OBVIOUS
    <2>2. y = Place(FIRST, r, 2) /\ v = c[1] /\ 2 \in 1 .. Len(r)
      BY <1>a, <1>9, <1>16, <2>1
    <2>3. /\ m2 \in [Cells -> Pointers] /\ Spelled(m2, made, FIRST, r)
          /\ made \subseteq JobIds /\ FIRST \in Heads
      BY <1>0, <1>1, <1>12
    <2>4. Spelled([m2 EXCEPT ![y] = v], made, FIRST, Joined(r, 2, c))
      BY <1>14, <1>15, <2>2, <2>3, Joins
    <2>. QED  BY <1>b, <1>17, <2>1, <2>4
  <1>19. Spelled(m3, made, FINISHED, b)
    <2>0. /\ m2 \in [Cells -> Pointers] /\ made \subseteq JobIds
          /\ Spelled(m2, made, FIRST, r) /\ Spelled(m2, made, FINISHED, b)
          /\ Separate(r, b) /\ 2 \in 1 .. Len(r)
      BY <1>1, <1>8, <1>9, <1>12
    <2>1. PICK y : y = N(f)
      OBVIOUS
    <2>2. y = Place(FIRST, r, 2)
      BY <1>16, <2>1
    <2>3. PICK m4 : m4 = [m2 EXCEPT ![y] = p]
      OBVIOUS
    <2>4. Spelled(m4, made, FINISHED, b)
      BY <1>0, <2>0, <2>2, <2>3, AsideAt
    <2>. QED  BY <1>b, <2>1, <2>3, <2>4
  <1>20. /\ Len(g) = 2 - 1 + Len(c) /\ g \in Seq(Pointers)
         /\ \A n \in 1 .. (2 - 1 + Len(c)) :
              /\ n < 2 => g[n] = r[n]
              /\ ~(n < 2) => g[n] = c[n - (2 - 1)]
    <2>1. r \in Seq(Pointers) /\ 2 \in 1 .. Len(r) /\ c \in Seq(Pointers)
      BY <1>a, <1>8, <1>9
    <2>2. /\ Joined(r, 2, c) \in Seq(Pointers)
          /\ Len(Joined(r, 2, c)) = 2 - 1 + Len(c)
      BY <2>1, JoinedFacts, SMTT(25)
    <2>3. \A n \in 1 .. (2 - 1 + Len(c)) : n < 2 => Joined(r, 2, c)[n] = r[n]
      BY <2>1, JoinedFacts
    <2>4. \A n \in 1 .. (2 - 1 + Len(c)) :
            ~(n < 2) => Joined(r, 2, c)[n] = c[n - (2 - 1)]
      BY <2>1, JoinedFacts
    <2>. QED  BY <1>17, <2>2, <2>3, <2>4
  <1>21. Len(g) = Len(r) + 1
    BY <1>a, <1>9, <1>20
  <1>22. Separate(g, b)
    <2>1. ASSUME NEW i \in 1 .. (Len(g) - 1), NEW n \in 1 .. (Len(b) - 1)
          PROVE  g[i] # b[n]
      <3>1. i \in 1 .. (2 - 1 + Len(c))
        BY <1>a, <1>9, <1>21
      <3>2. CASE i = 1
        <4>1. g[i] = r[1]
          BY <1>20, <3>1, <3>2
        <4>. QED  BY <1>8, <1>9, <4>1 DEF Separate
      <3>3. CASE i = 2
        <4>1. g[i] = c[1]
          BY <1>20, <3>1, <3>3
        <4>. QED  BY <1>a, <1>5, <4>1 DEF Absent
      <3>4. CASE i # 1 /\ i # 2
        <4>1. /\ i - 1 \in 1 .. (Len(r) - 1) /\ ~(i < 2) /\ i - (2 - 1) = i - 1
              /\ i - 1 \in 2 .. Len(r)
          BY <1>9, <1>21, <3>4
        <4>2. g[i] = c[i - 1]
          BY <1>20, <3>1, <4>1
        <4>3. c[i - 1] = r[i - 1]
          BY <1>a, <4>1
        <4>. QED  BY <1>8, <4>1, <4>2, <4>3 DEF Separate
      <3>. QED  BY <3>2, <3>3, <3>4
    <2>. QED  BY <2>1 DEF Separate
  <1>23. g[Len(g)] = NULL
    <2>1. /\ Len(g) \in 1 .. (2 - 1 + Len(c)) /\ ~(Len(g) < 2)
          /\ Len(g) - (2 - 1) = Len(r) /\ Len(r) \in 2 .. Len(r)
      BY <1>a, <1>9, <1>21
    <2>2. g[Len(g)] = c[Len(r)]
      BY <1>20, <2>1
    <2>. QED  BY <1>a, <1>8, <2>1, <2>2
  <1>24. m3 \in [Cells -> Pointers]
    BY <1>b, <1>1, <1>5, <1>12 DEF Pointers
  <1>25. Sound(m3, made, FIRST, g, FINISHED, b)
    BY <1>1, <1>8, <1>18, <1>19, <1>22, <1>23, <1>24 DEF Sound
  <1>. QED  BY <1>4, <1>5, <1>6, <1>7, <1>8, <1>11, <1>17, <1>25

(* And that is the queue that should result.                               *)
LEMMA PromotedIs ==
    ASSUME NEW s \in Seq(JobIds), NEW k \in 2 .. Len(s), NEW p, p = s[k],
           \A n \in 1 .. Len(s) : s[n] = p => n = k,
           NEW q, q = Urgent(s, p),
           NEW r, r = RemoveAt(Append(s, NULL), k),
           NEW c, Fronted(c, r, p)
    PROVE  Joined(r, 2, c) = Append(q, NULL)
  <1>a. /\ c \in Seq(Pointers) /\ Len(c) = Len(r) /\ c[1] = p
        /\ \A n \in 2 .. Len(r) : c[n] = r[n]
    BY DEF Fronted
  <1>1. PICK w : w = RemoveAt(s, k)
    OBVIOUS
  <1>2. /\ q \in Seq(JobIds) /\ Len(q) = Len(s) /\ q[1] = s[1] /\ q[2] = p
        /\ \A n \in 3 .. Len(s) : q[n] = w[n - 1]
    BY <1>1, UrgentIs
  <1>3. \A n \in 3 .. Len(s) : q[n] = w[n - 1]
    BY <1>2
  <1>4. Len(s) \in Nat /\ DOMAIN s = 1 .. Len(s) /\ k \in 1 .. Len(s) /\ k \in DOMAIN s
    <2>1. Len(s) \in Nat /\ DOMAIN s = 1 .. Len(s)
      BY LenProperties
    <2>. QED  BY <2>1
  <1>5. r = Append(w, NULL) /\ w \in Seq(JobIds)
    BY <1>1, <1>4, RemoveTerminated
  <1>6. /\ Len(w) = Len(s) - 1 /\ w[1] = s[1]
    <2>1. /\ Len(RemoveAt(s, k)) = Len(s) - 1
          /\ \A n \in 1 .. (Len(s) - 1) :
               RemoveAt(s, k)[n] = IF n < k THEN s[n] ELSE s[n + 1]
      BY <1>4, RemoveAtSeq
    <2>2. 1 \in 1 .. (Len(s) - 1) /\ 1 < k
      BY <1>4
    <2>. QED  BY <1>1, <2>1, <2>2
  <1>7. /\ r \in Seq(Pointers) /\ Len(w) \in Nat /\ Len(r) = Len(w) + 1
        /\ \A n \in 1 .. Len(w) : r[n] = w[n]
        /\ r[Len(w) + 1] = NULL
    BY <1>5, Terminated
  <1>8. Len(r) = Len(s) /\ 2 \in 1 .. Len(r) /\ 1 \in 1 .. Len(w) /\ Len(s) \in 2 .. Len(r)
    BY <1>4, <1>6, <1>7
  <1>9. PICK g : g = Joined(r, 2, c)
    OBVIOUS
  <1>10. /\ Len(g) = 2 - 1 + Len(c) /\ g \in Seq(Pointers)
         /\ \A n \in 1 .. (2 - 1 + Len(c)) :
              /\ n < 2 => g[n] = r[n]
              /\ ~(n < 2) => g[n] = c[n - (2 - 1)]
    <2>1. r \in Seq(Pointers) /\ 2 \in 1 .. Len(r) /\ c \in Seq(Pointers)
      BY <1>a, <1>7, <1>8
    <2>2. /\ Joined(r, 2, c) \in Seq(Pointers)
          /\ Len(Joined(r, 2, c)) = 2 - 1 + Len(c)
      BY <2>1, JoinedFacts
    <2>3. \A n \in 1 .. (2 - 1 + Len(c)) : n < 2 => Joined(r, 2, c)[n] = r[n]
      BY <2>1, JoinedFacts
    <2>4. \A n \in 1 .. (2 - 1 + Len(c)) :
            ~(n < 2) => Joined(r, 2, c)[n] = c[n - (2 - 1)]
      BY <2>1, JoinedFacts, ZenonT(40)
    <2>. QED  BY <1>9, <2>2, <2>3, <2>4
  <1>11. PICK h : h = Append(q, NULL)
    OBVIOUS
  <1>12. /\ h \in Seq(Pointers) /\ Len(h) = Len(q) + 1
         /\ \A n \in 1 .. Len(q) : h[n] = q[n]
         /\ h[Len(q) + 1] = NULL
    BY <1>2, <1>11, Terminated
  <1>13. Len(g) = Len(s) + 1 /\ Len(h) = Len(s) + 1
    BY <1>a, <1>2, <1>4, <1>8, <1>10, <1>12
  <1>14. ASSUME NEW n \in 1 .. (Len(s) + 1)
         PROVE  g[n] = h[n]
    <2>0. n \in 1 .. (2 - 1 + Len(c))
      BY <1>a, <1>4, <1>8
    <2>1. CASE n = 1
      <3>1. g[n] = r[1]
        BY <1>10, <2>0, <2>1
      <3>2. r[1] = s[1]
        BY <1>6, <1>7, <1>8
      <3>3. n \in 1 .. Len(q)
        BY <1>4, <1>13, <1>12, <2>1
      <3>. QED  BY <1>2, <1>12, <2>1, <3>1, <3>2, <3>3
    <2>2. CASE n = 2
      <3>1. g[n] = c[1]
        BY <1>10, <2>0, <2>2
      <3>2. n \in 1 .. Len(q)
        BY <1>4, <1>13, <1>12, <2>2
      <3>. QED  BY <1>a, <1>2, <1>12, <2>2, <3>1, <3>2
    <2>3. CASE n \in 3 .. Len(s)
      <3>1. /\ ~(n < 2) /\ n - (2 - 1) = n - 1 /\ n - 1 \in 2 .. Len(r)
            /\ n - 1 \in 1 .. Len(w) /\ n \in 1 .. Len(q)
        BY <1>2, <1>4, <1>6, <1>8, <2>3
      <3>2. g[n] = c[n - 1]
        BY <1>10, <2>0, <3>1
      <3>3. c[n - 1] = r[n - 1]
        BY <1>a, <3>1
      <3>4. r[n - 1] = w[n - 1]
        BY <1>7, <3>1
      <3>5. h[n] = q[n]
        BY <1>12, <3>1
      <3>6. q[n] = w[n - 1]
        BY <1>3, <2>3
      <3>. QED  BY <3>2, <3>3, <3>4, <3>5, <3>6
    <2>4. CASE n = Len(s) + 1
      <3>1. ~(n < 2) /\ n - (2 - 1) = Len(s) /\ Len(s) = Len(w) + 1
        BY <1>4, <1>6, <2>4
      <3>2. g[n] = c[Len(s)]
        BY <1>10, <2>0, <3>1
      <3>3. c[Len(s)] = r[Len(s)]
        BY <1>a, <1>8
      <3>4. r[Len(s)] = NULL
        BY <1>7, <3>1
      <3>5. h[n] = NULL
        BY <1>2, <1>12, <2>4
      <3>. QED  BY <3>2, <3>3, <3>4, <3>5
    <2>. QED  BY <1>4, <2>1, <2>2, <2>3, <2>4
  <1>15. g = h
    BY <1>10, <1>12, <1>13, <1>14, SeqEqual
  <1>. QED  BY <1>9, <1>11, <1>15

(* s_move_urgent.                                                          *)
LEMMA MoveUrgentStep ==
    ASSUME IInv, NEW p \in JobIds, MoveUrgent(p)
    PROVE  IInv'
  <1>1. PICK q, prog : q = Urgent(queue, p) /\ prog = UrgentStatements(p)
    OBVIOUS
  <1>2. /\ Ready /\ p \in NotFirst /\ Begin("urgent", p, prog, q, results)
        /\ UNCHANGED job
    BY <1>1 DEF MoveUrgent, Urgent
  <1>3. /\ queue \in Seq(JobIds) /\ results \in Seq(JobIds) /\ Apart
        /\ job \in [JobIds -> {"unused", "made", "freed"}]
    BY DEF IInv, Types
  <1>4. PICK a, b : a = Append(queue, NULL) /\ b = Append(results, NULL)
    OBVIOUS
  <1>5. /\ Len(queue) \in Nat /\ Len(a) = Len(queue) + 1 /\ a \in Seq(Pointers)
    BY <1>3, <1>4, Terminated
  <1>6. p \in Range(queue)
    BY <1>2, <1>3, NotFirstInQueue
  <1>7. PICK l : Stands(FIRST, queue, p, l)
    BY <1>2, <1>6, StandsInQueue
  <1>8. PICK w : w = Without(queue, p)
    OBVIOUS
  <1>9. /\ l \in 1 .. Len(queue) /\ queue[l] = p /\ a[l] = p
        /\ Before(FIRST, p) = Place(FIRST, a, l)
        /\ w \in Seq(JobIds) /\ RemoveAt(a, l) = Append(w, NULL)
        /\ Range(w) = Range(queue) \ {p}
    BY <1>4, <1>7, <1>8 DEF Stands
  <1>10. \A n \in 1 .. Len(queue) : queue[n] = p => n = l
    <2>1. Spelled(mem, Made, FIRST, Append(queue, NULL))
      BY <1>2, ReadyFacts
    <2>2. \A n \in 1 .. Len(queue) : queue[n] = queue[l] => n = l
      BY <1>2, <1>3, <1>9, <2>1, PlaceFacts
    <2>. QED  BY <1>9, <2>2
  <1>11. l \in 2 .. Len(queue) /\ l \in 2 .. (Len(a) - 1)
    <2>1. PICK n \in 2 .. Len(queue) : queue[n] = p
      BY <1>2 DEF NotFirst
    <2>2. n \in 1 .. Len(queue)
      BY <1>5
    <2>3. n = l
      BY <1>10, <2>1, <2>2
    <2>. QED  BY <1>5, <2>1, <2>3
  <1>12. PICK k \in 2 .. (Len(a) - 1) : k = l
    BY <1>11
  <1>13. PICK f, x, r : f = a[1] /\ x = Place(FIRST, a, k) /\ r = RemoveAt(a, k)
    OBVIOUS
  <1>14. PICK m1 : m1 = [mem EXCEPT ![x] = a[k + 1]]
    OBVIOUS
  <1>15. PICK m2 : m2 = [m1 EXCEPT ![N(p)] = m1[N(f)]]
    OBVIOUS
  <1>16. PICK m3 : m3 = [m2 EXCEPT ![N(f)] = p]
    OBVIOUS
  <1>17. PICK c : c = [n \in 1 .. Len(r) |-> IF n = 1 THEN p ELSE r[n]]
    OBVIOUS
  <1>18. r = Append(w, NULL) /\ r \in Seq(Pointers) /\ Len(r) \in Nat
         /\ \A n \in 1 .. Len(r) : r[n] \in Pointers
    <2>1. r = Append(w, NULL)
      BY <1>9, <1>12, <1>13
    <2>2. r \in Seq(Pointers)
      BY <1>9, <2>1, Terminated
    <2>. QED  BY <2>1, <2>2, LenProperties
  <1>19. Len(r) = Len(a) - 1 /\ Len(r) >= 2
    <2>1. /\ l \in DOMAIN queue
      BY <1>3, <1>9, LenProperties
    <2>2. l \in DOMAIN a
      BY <1>5, <1>9, LenProperties
    <2>3. Len(RemoveAt(a, l)) = Len(a) - 1
      BY <1>5, <2>2, RemoveAtSeq
    <2>4. Len(r) = Len(a) - 1
      BY <1>12, <1>13, <2>3
    <2>. QED  BY <1>5, <1>11, <2>4
  <1>20. Fronted(c, r, p)
    <2>1. p \in Pointers
      BY DEF Pointers
    <2>2. c \in Seq(Pointers) /\ Len(c) = Len(r)
      BY <1>17, <1>18, <2>1
    <2>. QED  BY <1>17, <1>18, <1>19, <2>2 DEF Fronted
  <1>21. Sound(mem, Made, FIRST, a, FINISHED, b)
    BY <1>2, <1>4, SoundNow
  <1>22. p = a[k] /\ x = Place(FIRST, a, k)
    BY <1>9, <1>12, <1>13, <1>14
  <1>23. PICK g : g = Joined(r, 2, c)
    OBVIOUS
  <1>24. /\ p \in Made /\ f \in Made
         /\ Sound(m1, Made, FIRST, r, FINISHED, b)
         /\ Sound(m2, Made, FIRST, r, FINISHED, b)
         /\ Sound(m3, Made, FIRST, g, FINISHED, b)
    <2>1. Promotes(mem, a, k, p, f, r, m1, m2, m3)
      BY <1>13, <1>14, <1>15, <1>16, <1>22 DEF Promotes
    <2>2. p \in Made /\ f \in Made
      BY <1>20, <1>21, <2>1, Promoted
    <2>3. Sound(m1, Made, FIRST, r, FINISHED, b)
      BY <1>20, <1>21, <2>1, Promoted
    <2>4. Sound(m2, Made, FIRST, r, FINISHED, b)
      BY <1>20, <1>21, <2>1, Promoted
    <2>5. Sound(m3, Made, FIRST, Joined(r, 2, c), FINISHED, b)
      BY <1>20, <1>21, <2>1, Promoted
    <2>. QED  BY <1>23, <2>2, <2>3, <2>4, <2>5
  <1>25. g = Append(q, NULL)
    <2>1. PICK i \in 2 .. Len(queue) : i = l
      BY <1>11
    <2>2. /\ p = queue[i] /\ \A n \in 1 .. Len(queue) : queue[n] = p => n = i
          /\ r = RemoveAt(Append(queue, NULL), i)
      BY <1>4, <1>9, <1>10, <1>12, <1>13, <2>1
    <2>. QED  BY <1>1, <1>3, <1>20, <1>23, <2>2, PromotedIs
  <1>26. q \in Seq(JobIds) /\ Range(q) = Range(queue)
    <2>1. PICK i \in 2 .. Len(queue) : i = l
      BY <1>11
    <2>2. p = queue[i] /\ \A n \in 1 .. Len(queue) : queue[n] = p => n = i
      BY <1>9, <1>10, <2>1
    <2>3. PICK v : v = RemoveAt(queue, i)
      OBVIOUS
    <2>. QED  BY <1>1, <1>3, <2>2, <2>3, UrgentIs, SMTT(25)
  <1>27. PICK at : at = [op |-> "urgent", job |-> p, behind |-> Behind(p)]
    OBVIOUS
  <1>28. MayMiss(at) = {p}
    BY <1>27 DEF MayMiss
  <1>29. /\ Range(q) \ Range(a) \subseteq MayMiss(at)
         /\ Range(q) \ Range(r) \subseteq MayMiss(at)
         /\ Range(q) \ Range(g) \subseteq MayMiss(at)
    <2>1. Range(queue) \subseteq Range(a) /\ Range(q) \subseteq Range(g)
      BY <1>3, <1>4, <1>25, <1>26, Terminated
    <2>2. Range(w) \subseteq Range(r)
      BY <1>9, <1>18, Terminated
    <2>. QED  BY <1>9, <1>26, <1>28, <2>1, <2>2
  <1>30. PICK c0, c1, c2, c3 : /\ c0 = At(mem, Made, a, b) /\ c1 = At(m1, Made, r, b)
                               /\ c2 = At(m2, Made, r, b) /\ c3 = At(m3, Made, g, b)
    OBVIOUS
  <1>31. Seen(c0, at, q) /\ Seen(c1, at, q)
    BY <1>21, <1>24, <1>29, <1>30, SoundSeen
  <1>32. Seen(c2, at, q) /\ Seen(c3, at, q)
    BY <1>24, <1>29, <1>30, SoundSeen
  <1>33. PICK s, t, u : s = Copy(x, N(p)) /\ t = Copy(N(p), N(f)) /\ u = Set(N(f), p)
    OBVIOUS
  <1>34. prog = <<s, t, u>>
    <2>1. mem[FIRST] = f
      BY <1>13, <1>21 DEF Sound, Spelled
    <2>2. Before(FIRST, p) = x
      BY <1>9, <1>12, <1>13
    <2>. QED  BY <1>1, <1>33, <2>1, <2>2 DEF UrgentStatements
  <1>35. /\ x \in Usable(Made) /\ mem[N(p)] = a[k + 1]
    <2>1. k \in 1 .. (Len(a) - 1) /\ FIRST \in Heads /\ FINISHED \in Heads \ {FIRST}
      BY <1>5, CellFacts DEF Heads
    <2>2. Place(FIRST, a, k) \in Usable(Made)
      BY <1>21, <2>1, SoundCut
    <2>3. mem[N(a[k])] = a[k + 1]
      BY <1>21, <2>1 DEF Sound, Spelled, Chain
    <2>. QED  BY <1>13, <1>22, <2>2, <2>3
  <1>36. /\ N(p) \in Usable(Made) /\ N(f) \in Usable(Made) /\ p \in Pointers
         /\ Made \subseteq JobIds /\ mem \in [Cells -> Pointers]
         /\ m1 \in [Cells -> Pointers] /\ m2 \in [Cells -> Pointers]
    BY <1>21, <1>24 DEF Sound, Usable, Pointers
  <1>37. s \in Statements /\ Does(c0, s, c1)
    <2>1. m1 = [mem EXCEPT ![x] = mem[N(p)]]
      BY <1>14, <1>35
    <2>. QED  BY <1>30, <1>33, <1>35, <1>36, <2>1, StatementFacts
  <1>38. t \in Statements /\ Does(c1, t, c2)
    BY <1>15, <1>30, <1>33, <1>36, StatementFacts
  <1>39. u \in Statements /\ Does(c2, u, c3)
    BY <1>16, <1>30, <1>33, <1>36, StatementFacts
  <1>40. prog \in Seq(Statements) /\ prog # <<>> /\ Planned(c0, prog, c3, at, q)
    BY <1>31, <1>32, <1>34, <1>37, <1>38, <1>39, PlanThree
  <1>41. Stage(At(mem, Made', a, b), prog, m3, Made, Append(q, NULL),
               Append(results, NULL), at, q)
    <2>1. Made' = Made
      BY <1>2 DEF Made
    <2>. QED  BY <1>4, <1>24, <1>25, <1>30, <1>40, <2>1 DEF Stage
  <1>42. Range(q) \cap Range(results) = {}
    BY <1>3, <1>26 DEF Apart
  <1>. QED  BY <1>2, <1>3, <1>26, <1>27, <1>40, <1>41, <1>42, StageEnd

-----------------------------------------------------------------------------
(* s_clear_finished: the list of results s is empty, and the first i of    *)
(* its jobs are destroyed.                                                 *)
Wiped(m, s, i) ==
    [x \in Cells |-> IF x = FINISHED THEN NULL
                     ELSE IF \E n \in 1 .. i : x = N(s[n]) THEN Garbage ELSE m[x]]

Left(made, s, i) == {j \in made : \A n \in 1 .. i : j # s[n]}

(* What the list of results tells of its jobs.                             *)
LEMMA ResultsFacts ==
    ASSUME NEW m, NEW made, NEW a, NEW s \in Seq(JobIds),
           Sound(m, made, FIRST, a, FINISHED, Append(s, NULL))
    PROVE  /\ Len(s) \in Nat
           /\ \A n \in 1 .. Len(s) : s[n] \in JobIds
           /\ \A n \in 1 .. Len(s) : s[n] \in made
           /\ \A n \in 1 .. Len(s) : Absent(s[n], a)
           /\ \A i, n \in 1 .. Len(s) : s[i] = s[n] => i = n
  <1>1. PICK b : b = Append(s, NULL)
    OBVIOUS
  <1>2. /\ Len(s) \in Nat /\ Len(b) = Len(s) + 1
        /\ \A n \in 1 .. Len(s) : b[n] = s[n] /\ s[n] \in JobIds
    BY <1>1, Terminated
  <1>3. Chain(m, made, b) /\ Separate(a, b) /\ made \subseteq JobIds
    BY <1>1 DEF Sound, Spelled
  <1>4. \A n \in 1 .. Len(s) : n \in 1 .. (Len(b) - 1) /\ n \in 1 .. Len(b)
    BY <1>2
  <1>5. \A n \in 1 .. Len(s) : s[n] \in made
    BY <1>2, <1>3, <1>4 DEF Chain
  <1>6. \A n \in 1 .. Len(s) : Absent(s[n], a)
    BY <1>2, <1>3, <1>4 DEF Separate, Absent
  <1>7. \A i, n \in 1 .. Len(s) : s[i] = s[n] => i = n
    <2>1. \A i, n \in 1 .. Len(b) : b[i] = b[n] => i = n
      BY <1>3, ChainOnce
    <2>. QED  BY <1>2, <1>4, <2>1
  <1>. QED  BY <1>2, <1>5, <1>6, <1>7

(* The queue stays as it is, and the results end at once.                  *)
LEMMA WipedSound ==
    ASSUME NEW m, NEW made, NEW a, NEW s \in Seq(JobIds),
           Sound(m, made, FIRST, a, FINISHED, Append(s, NULL)),
           NEW i \in 0 .. Len(s)
    PROVE  Sound(Wiped(m, s, i), Left(made, s, i), FIRST, a, FINISHED, <<NULL>>)
  <1>1. PICK m2, made2, e : /\ m2 = Wiped(m, s, i) /\ made2 = Left(made, s, i)
                            /\ e = <<NULL>>
    OBVIOUS
  <1>2. /\ Chain(m, made, a) /\ m[FIRST] = a[1] /\ made \subseteq JobIds
        /\ m \in [Cells -> Pointers] /\ a[Len(a)] = NULL
    BY DEF Sound, Spelled
  <1>3. Len(s) \in Nat /\ \A n \in 1 .. Len(s) : s[n] \in JobIds
    BY ResultsFacts
  <1>4. \A n \in 1 .. Len(s) : Absent(s[n], a)
    BY ResultsFacts
  <1>5. /\ \A n \in 1 .. i : n \in 1 .. Len(s)
        /\ \A n \in 1 .. i : s[n] \in JobIds
    BY <1>3
  <1>6. /\ m2 \in [Cells -> Pointers] /\ m2[FINISHED] = NULL
        /\ \A x \in Cells \ {FINISHED} : (\A n \in 1 .. i : x # N(s[n])) => m2[x] = m[x]
    <2>1. NULL \in Pointers /\ Garbage \in Pointers /\ FINISHED \in Cells
      BY CellFacts DEF Pointers
    <2>. QED  BY <1>1, <1>2, <2>1 DEF Wiped
  <1>7. made2 \subseteq JobIds /\ made2 \subseteq made
    BY <1>1, <1>2 DEF Left
  <1>8. ASSUME NEW n \in 1 .. (Len(a) - 1)
        PROVE  a[n] \in made2 /\ m2[N(a[n])] = a[n + 1]
    <2>1. a[n] \in made /\ m[N(a[n])] = a[n + 1]
      BY <1>2 DEF Chain
    <2>2. \A l \in 1 .. i : a[n] # s[l]
      BY <1>4, <1>5 DEF Absent
    <2>3. N(a[n]) \in Cells \ {FINISHED}
      BY <1>2, <2>1, CellFacts
    <2>4. \A l \in 1 .. i : N(a[n]) # N(s[l])
      BY <1>2, <1>5, <2>1, <2>2, CellFacts
    <2>. QED  BY <1>1, <1>6, <2>1, <2>2, <2>3, <2>4 DEF Left
  <1>9. m2[FIRST] = a[1]
    <2>1. FIRST \in Cells \ {FINISHED} /\ \A n \in 1 .. i : FIRST # N(s[n])
      BY <1>5, CellFacts
    <2>. QED  BY <1>2, <1>6, <2>1
  <1>10. Spelled(m2, made2, FIRST, a)
    BY <1>2, <1>8, <1>9 DEF Spelled, Chain
  <1>11. Chain(m2, made2, e) /\ Len(e) = 1 /\ e[1] = NULL
    BY <1>1, NullChain DEF Nowhere
  <1>12. Separate(a, e)
    BY <1>11 DEF Separate
  <1>13. Spelled(m2, made2, FINISHED, e)
    BY <1>6, <1>11 DEF Spelled
  <1>14. Sound(m2, made2, FIRST, a, FINISHED, e)
    BY <1>2, <1>6, <1>7, <1>10, <1>11, <1>12, <1>13 DEF Sound
  <1>. QED  BY <1>1, <1>14

(* The next of the jobs is destroyed.                                      *)
LEMMA WipedMore ==
    ASSUME NEW m, NEW made, NEW a, NEW s \in Seq(JobIds),
           Sound(m, made, FIRST, a, FINISHED, Append(s, NULL)),
           NEW i \in 1 .. Len(s)
    PROVE  /\ s[i] \in Left(made, s, i - 1)
           /\ Wiped(m, s, i) = [Wiped(m, s, i - 1) EXCEPT ![N(s[i])] = Garbage]
           /\ Left(made, s, i) = Left(made, s, i - 1) \ {s[i]}
  <1>1. Len(s) \in Nat /\ \A n \in 1 .. Len(s) : s[n] \in JobIds /\ s[n] \in made
    BY ResultsFacts
  <1>2. \A l, n \in 1 .. Len(s) : s[l] = s[n] => l = n
    BY ResultsFacts
  <1>3. /\ \A n \in 1 .. (i - 1) : n \in 1 .. Len(s) /\ n # i /\ n \in 1 .. i
        /\ \A n \in 1 .. i : n = i \/ n \in 1 .. (i - 1)
        /\ i \in 1 .. i
    BY <1>1
  <1>4. s[i] \in Left(made, s, i - 1)
    BY <1>1, <1>2, <1>3 DEF Left
  <1>5. Left(made, s, i) = Left(made, s, i - 1) \ {s[i]}
    BY <1>3 DEF Left
  <1>6. N(s[i]) \in Cells /\ N(s[i]) # FINISHED
    BY <1>1, CellFacts
  <1>7. PICK w, v : w = Wiped(m, s, i) /\ v = Wiped(m, s, i - 1)
    OBVIOUS
  <1>8. w = [v EXCEPT ![N(s[i])] = Garbage]
    BY <1>3, <1>6, <1>7 DEF Wiped
  <1>. QED  BY <1>4, <1>5, <1>7, <1>8

(* None of them is.                                                        *)
LEMMA WipedFirst ==
    ASSUME NEW m \in [Cells -> Pointers], NEW made, NEW s
    PROVE  /\ Wiped(m, s, 0) = [m EXCEPT ![FINISHED] = NULL]
           /\ Left(made, s, 0) = made
  <1>1. 1 .. 0 = {}
    OBVIOUS
  <1>. QED  BY <1>1 DEF Wiped, Left

(* The statements of s_clear_finished.                                     *)
LEMMA WipedPlan ==
    ASSUME NEW m, NEW made, NEW a, NEW s \in Seq(JobIds), NEW b, b = Append(s, NULL),
           Sound(m, made, FIRST, a, FINISHED, b), NEW at, NEW q,
           Range(q) \ Range(a) \subseteq MayMiss(at),
           NEW prog, prog = <<Set(FINISHED, NULL)>> \o [n \in 1 .. Len(s) |-> Free(s[n])]
    PROVE  /\ prog \in Seq(Statements) /\ prog # <<>>
           /\ Planned(At(m, made, a, b), prog,
                      At(Wiped(m, s, Len(s)), Left(made, s, Len(s)), a, <<NULL>>), at, q)
  <1>1. /\ Sound(m, made, FIRST, a, FINISHED, Append(s, NULL))
        /\ m \in [Cells -> Pointers] /\ made \subseteq JobIds
    BY DEF Sound
  <1>2. Len(s) \in Nat /\ \A n \in 1 .. Len(s) : s[n] \in JobIds /\ s[n] \in made
    BY <1>1, ResultsFacts
  <1>3. PICK K \in Nat : K = Len(s)
    BY <1>2
  <1>4. PICK h, f : h = <<Set(FINISHED, NULL)>> /\ f = [n \in 1 .. K |-> Free(s[n])]
    OBVIOUS
  <1>5. Set(FINISHED, NULL) \in Statements /\ \A n \in 1 .. K : Free(s[n]) \in Statements
    <2>1. FINISHED \in Usable(made) /\ NULL \in Pointers
      BY DEF Usable, Pointers
    <2>2. Set(FINISHED, NULL) \in Statements
      BY <1>1, <2>1, StatementFacts
    <2>3. \A j \in made : Free(j) \in Statements
      BY <1>1, <2>1, StatementFacts
    <2>. QED  BY <1>2, <1>3, <2>2, <2>3
  <1>6. h \in Seq(Statements) /\ Len(h) = 1 /\ h[1] = Set(FINISHED, NULL)
    BY <1>4, <1>5
  <1>7. f \in Seq(Statements) /\ Len(f) = K
    BY <1>4, <1>5
  <1>8. /\ prog \in Seq(Statements) /\ Len(prog) = Len(h) + Len(f)
        /\ \A n \in 1 .. (Len(h) + Len(f)) :
             prog[n] = IF n <= Len(h) THEN h[n] ELSE f[n - Len(h)]
    <2>1. /\ h \o f \in Seq(Statements) /\ Len(h \o f) = Len(h) + Len(f)
          /\ \A n \in 1 .. (Len(h) + Len(f)) :
               (h \o f)[n] = IF n <= Len(h) THEN h[n] ELSE f[n - Len(h)]
      BY <1>6, <1>7, ConcatProperties
    <2>2. prog = h \o f
      BY <1>3, <1>4
    <2>. QED  BY <2>1, <2>2
  <1>9. /\ Len(prog) = K + 1 /\ prog[1] = Set(FINISHED, NULL)
        /\ \A n \in 2 .. (K + 1) : prog[n] = Free(s[n - 1])
    <2>1. Len(prog) = K + 1 /\ prog[1] = Set(FINISHED, NULL)
      BY <1>6, <1>7, <1>8
    <2>2. ASSUME NEW n \in 2 .. (K + 1)
          PROVE  prog[n] = Free(s[n - 1])
      <3>1. /\ n \in 1 .. (Len(h) + Len(f)) /\ ~(n <= Len(h)) /\ n - Len(h) = n - 1
            /\ n - 1 \in 1 .. K
        BY <1>6, <1>7
      <3>. QED  BY <1>4, <1>8, <3>1
    <2>. QED  BY <2>1, <2>2
  <1>10. prog # <<>>
    BY <1>8, <1>9, EmptySeq
  <1>11. PICK e : e = <<NULL>>
    OBVIOUS
  <1>12. PICK cs : cs = [n \in 1 .. (K + 2) |->
                           IF n = 1 THEN At(m, made, a, b)
                           ELSE At(Wiped(m, s, n - 2), Left(made, s, n - 2), a, e)]
    OBVIOUS
  <1>13. cs[1] = At(m, made, a, b)
    BY <1>12
  <1>14. \A n \in 2 .. (K + 2) :
           cs[n] = At(Wiped(m, s, n - 2), Left(made, s, n - 2), a, e)
    BY <1>12
  <1>15. ASSUME NEW i \in 0 .. K
         PROVE  /\ Sound(Wiped(m, s, i), Left(made, s, i), FIRST, a, FINISHED, e)
                /\ Seen(At(Wiped(m, s, i), Left(made, s, i), a, e), at, q)
    <2>1. Sound(Wiped(m, s, i), Left(made, s, i), FIRST, a, FINISHED, e)
      BY <1>1, <1>3, <1>11, WipedSound
    <2>. QED  BY <2>1, SoundSeen
  <1>16. ASSUME NEW n \in 1 .. (K + 2)
         PROVE  Seen(cs[n], at, q)
    <2>1. CASE n = 1
      BY <1>13, <2>1, SoundSeen
    <2>2. CASE n # 1
      <3>1. n \in 2 .. (K + 2) /\ n - 2 \in 0 .. K
        BY <2>2
      <3>. QED  BY <1>14, <1>15, <3>1
    <2>. QED  BY <2>1, <2>2
  <1>17. ASSUME NEW n \in 1 .. (K + 1)
         PROVE  Does(cs[n], prog[n], cs[n + 1])
    <2>1. CASE n = 1
      <3>1. cs[n + 1] = At(Wiped(m, s, 0), Left(made, s, 0), a, e)
        <4>1. n + 1 \in 2 .. (K + 2) /\ (n + 1) - 2 = 0
          BY <2>1
        <4>. QED  BY <1>14, <4>1
      <3>2. /\ Wiped(m, s, 0) = [m EXCEPT ![FINISHED] = NULL]
            /\ Left(made, s, 0) = made
        BY <1>1, WipedFirst
      <3>3. FINISHED \in Usable(made) /\ NULL \in Pointers
        BY DEF Usable, Pointers
      <3>4. Does(At(m, made, a, b), Set(FINISHED, NULL),
                 At([m EXCEPT ![FINISHED] = NULL], made, a, e))
        BY <1>1, <3>3, StatementFacts
      <3>. QED  BY <1>9, <1>13, <2>1, <3>1, <3>2, <3>4
    <2>2. CASE n # 1
      <3>1. PICK i \in 1 .. Len(s) : i = n - 1
        BY <1>3, <2>2
      <3>2. PICK w, v, l, g : /\ w = Wiped(m, s, i - 1) /\ v = Wiped(m, s, i)
                              /\ l = Left(made, s, i - 1) /\ g = Left(made, s, i)
        OBVIOUS
      <3>3. cs[n] = At(w, l, a, e)
        <4>1. n \in 2 .. (K + 2) /\ n - 2 = i - 1
          BY <2>2, <3>1
        <4>. QED  BY <1>14, <3>2, <4>1
      <3>4. cs[n + 1] = At(v, g, a, e)
        <4>1. n + 1 \in 2 .. (K + 2) /\ (n + 1) - 2 = i
          BY <2>2, <3>1
        <4>. QED  BY <1>14, <3>2, <4>1
      <3>5. prog[n] = Free(s[i])
        <4>1. n \in 2 .. (K + 1)
          BY <2>2
        <4>. QED  BY <1>9, <3>1, <4>1
      <3>6. PICK j : j = s[i]
        OBVIOUS
      <3>7. j \in l /\ v = [w EXCEPT ![N(j)] = Garbage] /\ g = l \ {j}
        BY <1>1, <3>2, <3>6, WipedMore
      <3>8. w \in [Cells -> Pointers] /\ l \subseteq JobIds
        <4>1. i - 1 \in 0 .. K
          BY <1>3
        <4>. QED  BY <1>15, <3>2, <4>1 DEF Sound
      <3>9. FINISHED \in Usable(l)
        BY DEF Usable
      <3>10. Does(At(w, l, a, e), Free(j), At([w EXCEPT ![N(j)] = Garbage], l \ {j}, a, e))
        BY <3>7, <3>8, <3>9, StatementFacts
      <3>. QED  BY <3>3, <3>4, <3>5, <3>6, <3>7, <3>10
    <2>. QED  BY <2>1, <2>2
  <1>18. PICK d : d = At(Wiped(m, s, K), Left(made, s, K), a, e)
    OBVIOUS
  <1>19. cs[Len(prog) + 1] = d
    <2>1. K + 2 \in 2 .. (K + 2) /\ K + 2 - 2 = K /\ Len(prog) + 1 = K + 2
      BY <1>9
    <2>. QED  BY <1>14, <1>18, <2>1
  <1>20. Planned(At(m, made, a, b), prog, d, at, q)
    <2>1. Len(prog) + 1 = K + 2
      BY <1>9
    <2>. QED  BY <1>9, <1>13, <1>16, <1>17, <1>19, <2>1 DEF Planned
  <1>. QED  BY <1>3, <1>8, <1>10, <1>11, <1>18, <1>20

(* s_clear_finished.                                                       *)
LEMMA ClearFinishedStep ==
    ASSUME IInv, ClearFinished
    PROVE  IInv'
  <1>1. PICK prog : prog = ClearStatements
    OBVIOUS
  <1>2. Ready /\ Begin("clear", NULL, prog, queue, <<>>) /\ UNCHANGED job
    BY <1>1 DEF ClearFinished
  <1>3. /\ queue \in Seq(JobIds) /\ results \in Seq(JobIds)
        /\ job \in [JobIds -> {"unused", "made", "freed"}]
    BY DEF IInv, Types
  <1>4. PICK a, b, e : a = Append(queue, NULL) /\ b = Append(results, NULL) /\ e = <<NULL>>
    OBVIOUS
  <1>5. Sound(mem, Made, FIRST, a, FINISHED, b)
    BY <1>2, <1>4, SoundNow
  <1>6. PICK at : at = [op |-> "clear", job |-> NULL, behind |-> Behind(NULL)]
    OBVIOUS
  <1>7. Range(queue) \ Range(a) \subseteq MayMiss(at)
    BY <1>3, <1>4, Terminated
  <1>8. prog = <<Set(FINISHED, NULL)>> \o [n \in 1 .. Len(results) |-> Free(results[n])]
    BY <1>1 DEF ClearStatements
  <1>9. PICK m, made : /\ m = Wiped(mem, results, Len(results))
                       /\ made = Left(Made, results, Len(results))
    OBVIOUS
  <1>10. prog \in Seq(Statements) /\ prog # <<>>
    BY <1>3, <1>4, <1>5, <1>7, <1>8, WipedPlan
  <1>11. Planned(At(mem, Made, a, b), prog, At(m, made, a, e), at, queue)
    BY <1>3, <1>4, <1>5, <1>7, <1>8, <1>9, WipedPlan
  <1>12. Sound(m, made, FIRST, a, FINISHED, e)
    <2>1. PICK i \in 0 .. Len(results) : i = Len(results)
      BY <1>3, LenProperties
    <2>. QED  BY <1>3, <1>4, <1>5, <1>9, <2>1, WipedSound
  <1>13. e = Append(<<>>, NULL) /\ <<>> \in Seq(JobIds)
    BY <1>4, EmptySeq
  <1>14. Stage(At(mem, Made', a, b), prog, m, made, Append(queue, NULL),
               Append(<<>>, NULL), at, queue)
    <2>1. Made' = Made
      BY <1>2 DEF Made
    <2>. QED  BY <1>4, <1>10, <1>11, <1>12, <1>13, <2>1 DEF Stage
  <1>15. PICK r \in Seq(JobIds) : r = <<>>
    BY <1>13
  <1>16. Range(queue) \cap Range(r) = {}
    <2>1. DOMAIN r = {}
      BY <1>15
    <2>. QED  BY <2>1 DEF Range
  <1>17. Begin("clear", NULL, prog, queue, r)
    BY <1>2, <1>15
  <1>18. Stage(At(mem, Made', a, b), prog, m, made, Append(queue, NULL),
               Append(r, NULL), at, queue)
    BY <1>14, <1>15
  <1>. QED  BY <1>2, <1>3, <1>6, <1>10, <1>16, <1>17, <1>18, StageEnd

-----------------------------------------------------------------------------
(* The five stores of s_swap_jobs: p1 and p2 stand at the places k1 and k2 *)
(* of the queue a.                                                         *)
Swaps(m, a, k1, k2, p1, p2, m1, m2, m3, m4, m5) ==
    /\ p1 = a[k1] /\ p2 = a[k2]
    /\ m1 = [m EXCEPT ![Place(FIRST, a, k1)] = p2]
    /\ m2 = [m1 EXCEPT ![Place(FIRST, a, k2)] = p1]
    /\ m3 = [m2 EXCEPT ![TMP] = m2[N(p1)]]
    /\ m4 = [m3 EXCEPT ![N(p1)] = m3[N(p2)]]
    /\ m5 = [m4 EXCEPT ![N(p2)] = m4[TMP]]

(* Whether c is a with the two of them in each other's place.              *)
Exchanged(c, a, k1, k2) ==
    /\ c \in Seq(Pointers) /\ Len(c) = Len(a) /\ c[Len(a)] = NULL
    /\ \A n \in 1 .. (Len(a) - 1) :
         c[n] = IF n = k1 THEN a[k2] ELSE IF n = k2 THEN a[k1] ELSE a[n]

(* The memory after each of them has its type.                             *)
LEMMA SwapsTypes ==
    ASSUME NEW m, NEW made, NEW a, NEW b, Sound(m, made, FIRST, a, FINISHED, b),
           NEW k1 \in 2 .. (Len(a) - 1), NEW k2 \in 2 .. (Len(a) - 1),
           NEW p1, NEW p2, NEW m1, NEW m2, NEW m3, NEW m4, NEW m5,
           Swaps(m, a, k1, k2, p1, p2, m1, m2, m3, m4, m5)
    PROVE  /\ p1 \in made /\ p2 \in made
           /\ Place(FIRST, a, k1) = N(a[k1 - 1]) /\ Place(FIRST, a, k2) = N(a[k2 - 1])
           /\ Place(FIRST, a, k1) \in Usable(made) /\ Place(FIRST, a, k2) \in Usable(made)
           /\ m1 \in [Cells -> Pointers] /\ m2 \in [Cells -> Pointers]
           /\ m3 \in [Cells -> Pointers] /\ m4 \in [Cells -> Pointers]
           /\ m5 \in [Cells -> Pointers]
  <1>1. /\ Chain(m, made, a) /\ made \subseteq JobIds /\ m \in [Cells -> Pointers]
        /\ Spelled(m, made, FIRST, a)
    BY DEF Sound, Spelled
  <1>2. Len(a) \in Nat \ {0}
    BY <1>1, ChainFacts
  <1>3. /\ k1 \in 1 .. (Len(a) - 1) /\ k1 \in 1 .. Len(a) /\ k1 # 1
        /\ k2 \in 1 .. (Len(a) - 1) /\ k2 \in 1 .. Len(a) /\ k2 # 1
    BY <1>2
  <1>4. /\ p1 = a[k1] /\ p2 = a[k2]
        /\ m1 = [m EXCEPT ![Place(FIRST, a, k1)] = p2]
        /\ m2 = [m1 EXCEPT ![Place(FIRST, a, k2)] = p1]
        /\ m3 = [m2 EXCEPT ![TMP] = m2[N(p1)]]
        /\ m4 = [m3 EXCEPT ![N(p1)] = m3[N(p2)]]
        /\ m5 = [m4 EXCEPT ![N(p2)] = m4[TMP]]
    BY DEF Swaps
  <1>5. p1 \in made /\ p2 \in made
    BY <1>1, <1>3, <1>4 DEF Chain
  <1>6. FIRST \in Heads
    BY DEF Heads
  <1>7. Place(FIRST, a, k1) \in Usable(made) /\ Place(FIRST, a, k1) = N(a[k1 - 1])
    <2>1. PICK l \in 1 .. Len(a) : l = k1
      BY <1>3
    <2>2. Place(FIRST, a, l) \in Usable(made)
      BY <1>1, <1>6, PlaceUsable
    <2>3. Place(FIRST, a, l) = N(a[l - 1])
      BY <1>3, <2>1 DEF Place
    <2>. QED  BY <2>1, <2>2, <2>3
  <1>8. Place(FIRST, a, k2) \in Usable(made) /\ Place(FIRST, a, k2) = N(a[k2 - 1])
    <2>1. PICK l \in 1 .. Len(a) : l = k2
      BY <1>3
    <2>2. Place(FIRST, a, l) \in Usable(made)
      BY <1>1, <1>6, PlaceUsable
    <2>3. Place(FIRST, a, l) = N(a[l - 1])
      BY <1>3, <2>1 DEF Place
    <2>. QED  BY <2>1, <2>2, <2>3
  <1>9. p1 \in Pointers /\ p2 \in Pointers
    BY <1>1, <1>5 DEF Pointers
  <1>10. N(p1) \in Cells /\ N(p2) \in Cells /\ TMP \in Cells
    BY <1>1, <1>5, CellFacts
  <1>11. m1 \in [Cells -> Pointers]
    BY <1>1, <1>4, <1>9
  <1>12. m2 \in [Cells -> Pointers]
    BY <1>4, <1>9, <1>11
  <1>13. m3 \in [Cells -> Pointers]
    BY <1>4, <1>10, <1>12
  <1>14. m4 \in [Cells -> Pointers]
    BY <1>4, <1>10, <1>13
  <1>15. m5 \in [Cells -> Pointers]
    BY <1>4, <1>10, <1>14
  <1>. QED  BY <1>5, <1>7, <1>8, <1>11, <1>12, <1>13, <1>14, <1>15

(* After the first two, the pointers to p1 and p2 are changed.             *)
LEMMA SwapsHalf ==
    ASSUME NEW m, NEW made, NEW a, NEW b, Sound(m, made, FIRST, a, FINISHED, b),
           NEW k1 \in 2 .. (Len(a) - 1), NEW k2 \in 2 .. (Len(a) - 1),
           NEW p1, NEW p2, NEW m1, NEW m2, NEW m3, NEW m4, NEW m5,
           Swaps(m, a, k1, k2, p1, p2, m1, m2, m3, m4, m5),
           NEW c, Exchanged(c, a, k1, k2)
    PROVE  \A n \in 1 .. (Len(a) - 1) : m2[N(a[n])] = c[n + 1]
  <1>1. /\ Chain(m, made, a) /\ made \subseteq JobIds /\ m \in [Cells -> Pointers]
        /\ a[Len(a)] = NULL
    BY DEF Sound, Spelled
  <1>2. Len(a) \in Nat \ {0} /\ \A n \in 1 .. (Len(a) - 1) : a[n] \in JobIds
    BY <1>1, ChainFacts
  <1>3. \A i, n \in 1 .. Len(a) : a[i] = a[n] => i = n
    BY <1>1, ChainOnce
  <1>4. /\ p1 = a[k1] /\ p2 = a[k2]
        /\ m1 = [m EXCEPT ![Place(FIRST, a, k1)] = p2]
        /\ m2 = [m1 EXCEPT ![Place(FIRST, a, k2)] = p1]
    BY DEF Swaps
  <1>5. Place(FIRST, a, k1) = N(a[k1 - 1]) /\ Place(FIRST, a, k2) = N(a[k2 - 1])
    BY SwapsTypes
  <1>6. m1 \in [Cells -> Pointers] /\ m2 \in [Cells -> Pointers]
    BY SwapsTypes
  <1>7. /\ k1 - 1 \in 1 .. (Len(a) - 1) /\ k2 - 1 \in 1 .. (Len(a) - 1)
        /\ (k1 - 1) + 1 = k1 /\ (k2 - 1) + 1 = k2
        /\ k1 - 1 \in 1 .. Len(a) /\ k2 - 1 \in 1 .. Len(a)
    BY <1>2
  <1>8. \A n \in 1 .. (Len(a) - 1) :
          c[n] = IF n = k1 THEN a[k2] ELSE IF n = k2 THEN a[k1] ELSE a[n]
    BY DEF Exchanged
  <1>9. c[Len(a)] = NULL
    BY DEF Exchanged
  <1>10. ASSUME NEW n \in 1 .. (Len(a) - 1)
         PROVE  m2[N(a[n])] = c[n + 1]
    <2>1. n \in 1 .. Len(a) /\ a[n] \in JobIds /\ N(a[n]) \in Cells
      BY <1>2, CellFacts
    <2>2. m[N(a[n])] = a[n + 1]
      BY <1>1 DEF Chain
    <2>3. /\ n # k1 - 1 => N(a[n]) # N(a[k1 - 1])
          /\ n # k2 - 1 => N(a[n]) # N(a[k2 - 1])
      <3>1. a[k1 - 1] \in JobIds /\ a[k2 - 1] \in JobIds
        BY <1>2, <1>7
      <3>2. /\ n # k1 - 1 => a[n] # a[k1 - 1]
            /\ n # k2 - 1 => a[n] # a[k2 - 1]
        BY <1>3, <1>7, <2>1
      <3>. QED  BY <2>1, <3>1, <3>2, CellFacts
    <2>4. CASE n = k2 - 1
      <3>1. m2[N(a[n])] = a[k1]
        BY <1>4, <1>5, <1>6, <2>1, <2>4
      <3>2. c[n + 1] = a[k1]
        <4>1. n + 1 = k2
          BY <1>7, <2>4
        <4>. QED  BY <1>2, <1>8, <4>1
      <3>. QED  BY <3>1, <3>2
    <2>5. CASE n # k2 - 1 /\ n = k1 - 1
      <3>1. m2[N(a[n])] = a[k2]
        BY <1>1, <1>4, <1>5, <1>6, <2>1, <2>3, <2>5
      <3>2. c[n + 1] = a[k2]
        <4>1. n + 1 = k1
          BY <1>7, <2>5
        <4>. QED  BY <1>2, <1>8, <4>1
      <3>. QED  BY <3>1, <3>2
    <2>6. CASE n # k2 - 1 /\ n # k1 - 1
      <3>1. m2[N(a[n])] = a[n + 1]
        BY <1>1, <1>4, <1>5, <1>6, <2>1, <2>2, <2>3, <2>6
      <3>2. c[n + 1] = a[n + 1]
        <4>1. CASE n + 1 = Len(a)
          BY <1>1, <1>9, <4>1
        <4>2. CASE n + 1 # Len(a)
          <5>1. n + 1 \in 1 .. (Len(a) - 1) /\ n + 1 # k1 /\ n + 1 # k2
            BY <1>2, <2>6, <4>2
          <5>. QED  BY <1>8, <5>1
        <4>. QED  BY <4>1, <4>2
      <3>. QED  BY <3>1, <3>2
    <2>. QED  BY <2>4, <2>5, <2>6
  <1>. QED  BY <1>10

(* What p1 and p2 point at is exchanged, from m2 to m5.                    *)
Turned(m2, m5, p1, p2) ==
    /\ m5[N(p1)] = m2[N(p2)] /\ m5[N(p2)] = m2[N(p1)]
    /\ \A j \in JobIds \ {p1, p2} : m5[N(j)] = m2[N(j)]

(* Where the lists begin, and the jobs that are not in the queue a.        *)
Untouched(m, m5, a) ==
    /\ \A x \in Heads : m5[x] = m[x]
    /\ \A j \in JobIds : Absent(j, a) => m5[N(j)] = m[N(j)]

(* And the others do that.                                                 *)
LEMMA SwapsRest ==
    ASSUME NEW m, NEW made, NEW a, NEW b, Sound(m, made, FIRST, a, FINISHED, b),
           NEW k1 \in 2 .. (Len(a) - 1), NEW k2 \in 2 .. (Len(a) - 1),
           NEW p1, NEW p2, NEW m1, NEW m2, NEW m3, NEW m4, NEW m5,
           Swaps(m, a, k1, k2, p1, p2, m1, m2, m3, m4, m5)
    PROVE  Turned(m2, m5, p1, p2) /\ Untouched(m, m5, a)
  <1>1. /\ Chain(m, made, a) /\ made \subseteq JobIds /\ m \in [Cells -> Pointers]
    BY DEF Sound, Spelled
  <1>2. Len(a) \in Nat \ {0} /\ \A n \in 1 .. (Len(a) - 1) : a[n] \in JobIds
    BY <1>1, ChainFacts
  <1>3. /\ p1 = a[k1] /\ p2 = a[k2]
        /\ m1 = [m EXCEPT ![Place(FIRST, a, k1)] = p2]
        /\ m2 = [m1 EXCEPT ![Place(FIRST, a, k2)] = p1]
        /\ m3 = [m2 EXCEPT ![TMP] = m2[N(p1)]]
        /\ m4 = [m3 EXCEPT ![N(p1)] = m3[N(p2)]]
        /\ m5 = [m4 EXCEPT ![N(p2)] = m4[TMP]]
    BY DEF Swaps
  <1>4. Place(FIRST, a, k1) = N(a[k1 - 1]) /\ Place(FIRST, a, k2) = N(a[k2 - 1])
    BY SwapsTypes
  <1>5. p1 \in made /\ p2 \in made
    BY SwapsTypes
  <1>6. /\ m1 \in [Cells -> Pointers] /\ m2 \in [Cells -> Pointers]
        /\ m3 \in [Cells -> Pointers] /\ m4 \in [Cells -> Pointers]
        /\ m5 \in [Cells -> Pointers]
    BY SwapsTypes
  <1>7. /\ p1 \in JobIds /\ p2 \in JobIds
        /\ N(p1) \in Cells /\ N(p2) \in Cells /\ TMP \in Cells
        /\ N(p1) # TMP /\ N(p2) # TMP
    BY <1>1, <1>5, CellFacts
  <1>8. m3[TMP] = m2[N(p1)] /\ m4[TMP] = m2[N(p1)]
    BY <1>3, <1>6, <1>7
  <1>9. m5[N(p2)] = m2[N(p1)]
    BY <1>3, <1>6, <1>7, <1>8
  <1>10. m3[N(p2)] = m2[N(p2)] /\ m4[N(p1)] = m2[N(p2)]
    BY <1>3, <1>6, <1>7
  <1>11. m5[N(p1)] = m2[N(p2)]
    <2>1. CASE p1 = p2
      BY <1>9, <2>1
    <2>2. CASE p1 # p2
      <3>1. N(p1) # N(p2)
        BY <1>7, <2>2, CellFacts
      <3>. QED  BY <1>3, <1>6, <1>7, <1>10, <3>1
    <2>. QED  BY <2>1, <2>2
  <1>12. \A x \in Cells : x # TMP /\ x # N(p1) /\ x # N(p2) => m5[x] = m2[x]
    BY <1>3, <1>6
  <1>13. \A x \in Cells : x # N(a[k1 - 1]) /\ x # N(a[k2 - 1]) => m2[x] = m[x]
    BY <1>1, <1>3, <1>4, <1>6
  <1>14. ASSUME NEW j \in JobIds \ {p1, p2}
         PROVE  m5[N(j)] = m2[N(j)]
    <2>1. N(j) \in Cells /\ N(j) # TMP /\ N(j) # N(p1) /\ N(j) # N(p2)
      BY <1>7, CellFacts
    <2>. QED  BY <1>12, <2>1
  <1>15. /\ k1 \in 1 .. (Len(a) - 1) /\ k2 \in 1 .. (Len(a) - 1)
         /\ k1 - 1 \in 1 .. (Len(a) - 1) /\ k2 - 1 \in 1 .. (Len(a) - 1)
    BY <1>2
  <1>16. a[k1 - 1] \in JobIds /\ a[k2 - 1] \in JobIds
    BY <1>2, <1>15
  <1>17. ASSUME NEW x \in Heads
         PROVE  m5[x] = m[x]
    <2>1. /\ x \in Cells /\ x # TMP /\ x # N(p1) /\ x # N(p2)
          /\ x # N(a[k1 - 1]) /\ x # N(a[k2 - 1])
      BY <1>7, <1>16, CellFacts DEF Heads
    <2>. QED  BY <1>12, <1>13, <2>1
  <1>18. ASSUME NEW j \in JobIds, Absent(j, a)
         PROVE  m5[N(j)] = m[N(j)]
    <2>1. j # p1 /\ j # p2 /\ j # a[k1 - 1] /\ j # a[k2 - 1]
      BY <1>3, <1>15, <1>18 DEF Absent
    <2>2. /\ N(j) \in Cells /\ N(j) # TMP /\ N(j) # N(p1) /\ N(j) # N(p2)
          /\ N(j) # N(a[k1 - 1]) /\ N(j) # N(a[k2 - 1])
      BY <1>7, <1>16, <2>1, CellFacts
    <2>. QED  BY <1>12, <1>13, <2>2
  <1>19. Turned(m2, m5, p1, p2)
    BY <1>9, <1>11, <1>14 DEF Turned
  <1>20. Untouched(m, m5, a)
    BY <1>17, <1>18 DEF Untouched
  <1>. QED  BY <1>19, <1>20

(* So the queue is exchanged, and the results are what they were.          *)
LEMMA SwapsSound ==
    ASSUME NEW m, NEW made, NEW a, NEW b, Sound(m, made, FIRST, a, FINISHED, b),
           NEW k1 \in 2 .. (Len(a) - 1), NEW k2 \in 2 .. (Len(a) - 1),
           NEW p1, NEW p2, NEW m1, NEW m2, NEW m3, NEW m4, NEW m5,
           Swaps(m, a, k1, k2, p1, p2, m1, m2, m3, m4, m5),
           NEW c, Exchanged(c, a, k1, k2)
    PROVE  Sound(m5, made, FIRST, c, FINISHED, b)
  <1>1. /\ Chain(m, made, a) /\ made \subseteq JobIds /\ m \in [Cells -> Pointers]
        /\ m[FIRST] = a[1] /\ Chain(m, made, b) /\ m[FINISHED] = b[1]
        /\ Separate(a, b) /\ b[Len(b)] = NULL
    BY DEF Sound, Spelled
  <1>2. Len(a) \in Nat \ {0} /\ \A n \in 1 .. (Len(a) - 1) : a[n] \in JobIds
    BY <1>1, ChainFacts
  <1>3. \A i, n \in 1 .. Len(a) : a[i] = a[n] => i = n
    BY <1>1, ChainOnce
  <1>4. p1 = a[k1] /\ p2 = a[k2]
    BY DEF Swaps
  <1>5. /\ k1 \in 1 .. (Len(a) - 1) /\ k2 \in 1 .. (Len(a) - 1)
        /\ k1 \in 1 .. Len(a) /\ k2 \in 1 .. Len(a)
        /\ 1 \in 1 .. (Len(a) - 1) /\ 1 # k1 /\ 1 # k2
    BY <1>2
  <1>6. \A n \in 1 .. (Len(a) - 1) : m2[N(a[n])] = c[n + 1]
    BY SwapsHalf
  <1>a. Turned(m2, m5, p1, p2)
    BY SwapsRest
  <1>7. m5[N(p1)] = m2[N(p2)] /\ m5[N(p2)] = m2[N(p1)]
    BY <1>a DEF Turned
  <1>8. \A j \in JobIds \ {p1, p2} : m5[N(j)] = m2[N(j)]
    BY <1>a DEF Turned
  <1>b. Untouched(m, m5, a)
    BY SwapsRest
  <1>9. \A x \in Heads : m5[x] = m[x]
    BY <1>b DEF Untouched
  <1>10. \A j \in JobIds : Absent(j, a) => m5[N(j)] = m[N(j)]
    BY <1>b DEF Untouched
  <1>11. m5 \in [Cells -> Pointers] /\ p1 \in made /\ p2 \in made
    BY SwapsTypes
  <1>12. /\ c \in Seq(Pointers) /\ Len(c) = Len(a) /\ c[Len(a)] = NULL
         /\ \A n \in 1 .. (Len(a) - 1) :
              c[n] = IF n = k1 THEN a[k2] ELSE IF n = k2 THEN a[k1] ELSE a[n]
    BY DEF Exchanged
  <1>13. ASSUME NEW n \in 1 .. (Len(a) - 1)
         PROVE  c[n] \in made /\ m5[N(c[n])] = c[n + 1]
    <2>1. CASE n = k1
      <3>1. c[n] = p2
        BY <1>4, <1>12, <2>1
      <3>2. m2[N(p1)] = c[n + 1]
        BY <1>4, <1>6, <2>1
      <3>. QED  BY <1>7, <1>11, <3>1, <3>2
    <2>2. CASE n # k1 /\ n = k2
      <3>1. c[n] = p1
        BY <1>4, <1>12, <2>2
      <3>2. m2[N(p2)] = c[n + 1]
        BY <1>4, <1>6, <2>2
      <3>. QED  BY <1>7, <1>11, <3>1, <3>2
    <2>3. CASE n # k1 /\ n # k2
      <3>1. c[n] = a[n]
        BY <1>12, <2>3
      <3>2. n \in 1 .. Len(a)
        BY <1>2
      <3>3. a[n] # p1 /\ a[n] # p2
        BY <1>3, <1>4, <1>5, <2>3, <3>2
      <3>4. a[n] \in JobIds \ {p1, p2}
        BY <1>2, <3>3
      <3>5. m5[N(a[n])] = m2[N(a[n])]
        BY <1>8, <3>4
      <3>6. a[n] \in made
        BY <1>1 DEF Chain
      <3>. QED  BY <1>6, <3>1, <3>5, <3>6
    <2>. QED  BY <2>1, <2>2, <2>3
  <1>14. Chain(m5, made, c)
    <2>1. Len(c) # 0 /\ c[Len(c)] \in Nowhere
      BY <1>2, <1>12 DEF Nowhere
    <2>. QED  BY <1>12, <1>13, <2>1 DEF Chain
  <1>15. m5[FIRST] = c[1]
    <2>1. m5[FIRST] = m[FIRST]
      BY <1>9 DEF Heads
    <2>2. c[1] = a[1]
      BY <1>5, <1>12
    <2>. QED  BY <1>1, <2>1, <2>2
  <1>16. Spelled(m5, made, FINISHED, b)
    <2>1. ASSUME NEW n \in 1 .. (Len(b) - 1)
          PROVE  b[n] \in made /\ m5[N(b[n])] = b[n + 1]
      <3>1. b[n] \in made /\ m[N(b[n])] = b[n + 1]
        BY <1>1 DEF Chain
      <3>2. Absent(b[n], a)
        BY <1>1 DEF Separate, Absent
      <3>. QED  BY <1>1, <1>10, <3>1, <3>2
    <2>2. m5[FINISHED] = b[1]
      BY <1>1, <1>9 DEF Heads
    <2>. QED  BY <1>1, <2>1, <2>2 DEF Chain, Spelled
  <1>17. Separate(c, b)
    <2>1. ASSUME NEW i \in 1 .. (Len(c) - 1), NEW n \in 1 .. (Len(b) - 1)
          PROVE  c[i] # b[n]
      <3>1. i \in 1 .. (Len(a) - 1)
        BY <1>12
      <3>2. c[i] = a[k1] \/ c[i] = a[k2] \/ c[i] = a[i]
        BY <1>12, <3>1
      <3>. QED  BY <1>1, <1>5, <3>1, <3>2 DEF Separate
    <2>. QED  BY <2>1 DEF Separate
  <1>18. Spelled(m5, made, FIRST, c)
    BY <1>14, <1>15 DEF Spelled
  <1>. QED  BY <1>1, <1>11, <1>12, <1>16, <1>17, <1>18 DEF Sound

(* A program of five statements.                                           *)
LEMMA PlanFive ==
    ASSUME NEW c0, NEW c1, NEW c2, NEW c3, NEW c4, NEW c5, NEW at, NEW q,
           NEW s1 \in Statements, NEW s2 \in Statements, NEW s3 \in Statements,
           NEW s4 \in Statements, NEW s5 \in Statements,
           Seen(c0, at, q), Seen(c1, at, q), Seen(c2, at, q), Seen(c3, at, q),
           Seen(c4, at, q), Seen(c5, at, q),
           Does(c0, s1, c1), Does(c1, s2, c2), Does(c2, s3, c3), Does(c3, s4, c4),
           Does(c4, s5, c5), NEW prog, prog = <<s1, s2, s3, s4, s5>>
    PROVE  prog \in Seq(Statements) /\ prog # <<>> /\ Planned(c0, prog, c5, at, q)
  <1>1. PICK p : p = <<s1, s2, s3>>
    OBVIOUS
  <1>2. p \in Seq(Statements) /\ Planned(c0, p, c3, at, q)
    BY <1>1, PlanThree
  <1>3. PICK r : r = p \o <<s4, s5>>
    OBVIOUS
  <1>4. r \in Seq(Statements) /\ r # <<>> /\ Planned(c0, r, c5, at, q)
    BY <1>2, <1>3, PlanTwo
  <1>5. r = prog
    <2>1. Len(p) = 3 /\ p[1] = s1 /\ p[2] = s2 /\ p[3] = s3
      BY <1>1
    <2>2. PICK t : t = <<s4, s5>>
      OBVIOUS
    <2>3. t \in Seq(Statements) /\ Len(t) = 2 /\ t[1] = s4 /\ t[2] = s5
      BY <2>2
    <2>4. /\ p \o t \in Seq(Statements) /\ Len(p \o t) = Len(p) + Len(t)
          /\ \A n \in 1 .. (Len(p) + Len(t)) :
               (p \o t)[n] = IF n <= Len(p) THEN p[n] ELSE t[n - Len(p)]
      BY <1>2, <2>3, ConcatProperties
    <2>5. r = p \o t
      BY <1>3, <2>2
    <2>6. Len(r) = 5 /\ \A n \in 1 .. 5 : r[n] = IF n <= 3 THEN p[n] ELSE t[n - 3]
      BY <2>1, <2>3, <2>4, <2>5
    <2>7. r[1] = s1 /\ r[2] = s2 /\ r[3] = s3 /\ r[4] = s4 /\ r[5] = s5
      <3>1. r[1] = s1 /\ r[2] = s2 /\ r[3] = s3
        BY <2>1, <2>6
      <3>2. r[4] = t[4 - 3] /\ r[5] = t[5 - 3]
        BY <2>6
      <3>. QED  BY <2>3, <3>1, <3>2
    <2>8. /\ prog \in Seq(Statements) /\ Len(prog) = 5 /\ prog[1] = s1 /\ prog[2] = s2
          /\ prog[3] = s3 /\ prog[4] = s4 /\ prog[5] = s5
      OBVIOUS
    <2>9. \A n \in 1 .. Len(r) : r[n] = prog[n]
      <3>1. \A n \in 1 .. Len(r) : n = 1 \/ n = 2 \/ n = 3 \/ n = 4 \/ n = 5
        BY <2>6
      <3>. QED  BY <2>7, <2>8, <3>1
    <2>10. Len(r) = Len(prog)
      BY <2>6, <2>8
    <2>. QED  BY <1>4, <2>8, <2>9, <2>10, SeqEqual
  <1>. QED  BY <1>4, <1>5

(* Job p stands at place k of the queue, not at its first, and nowhere     *)
(* else.                                                                   *)
Later(a, p, k) ==
    /\ k \in 2 .. (Len(a) - 1) /\ k \in 2 .. Len(queue)
    /\ queue[k] = p /\ a[k] = p
    /\ Before(FIRST, p) = Place(FIRST, a, k)
    /\ \A n \in 1 .. Len(queue) : queue[n] = p => n = k

(* A job that is not the first has such a place.                           *)
LEMMA StandsBehind ==
    ASSUME IInv, Ready, NEW p, p \in NotFirst, NEW a, a = Append(queue, NULL)
    PROVE  \E k : Later(a, p, k)
  <1>1. queue \in Seq(JobIds)
    BY DEF IInv, Types
  <1>2. Len(queue) \in Nat /\ Len(a) = Len(queue) + 1
    BY <1>1, Terminated
  <1>3. PICK k \in 2 .. Len(queue) : queue[k] = p
    BY DEF NotFirst
  <1>4. k \in 1 .. Len(queue) /\ k \in 2 .. (Len(a) - 1)
    BY <1>2
  <1>5. a[k] = p
    BY <1>1, <1>3, <1>4, Terminated
  <1>6. Spelled(mem, Made, FIRST, Append(queue, NULL))
    BY ReadyFacts
  <1>7. Before(FIRST, queue[k]) = Place(FIRST, a, k)
    BY <1>1, <1>4, <1>6, PlaceFacts
  <1>8. \A n \in 1 .. Len(queue) : queue[n] = queue[k] => n = k
    BY <1>1, <1>4, <1>6, PlaceFacts
  <1>. QED  BY <1>3, <1>4, <1>5, <1>7, <1>8 DEF Later

(* What is made of the queue.                                              *)
LEMMA SwappedIs ==
    ASSUME NEW a, queue \in Seq(JobIds), a = Append(queue, NULL),
           NEW k1 \in 1 .. Len(queue), NEW k2 \in 1 .. Len(queue), NEW p1, NEW p2,
           queue[k1] = p1, queue[k2] = p2,
           \A n \in 1 .. Len(queue) : queue[n] = p1 => n = k1,
           \A n \in 1 .. Len(queue) : queue[n] = p2 => n = k2,
           NEW q, q = Swapped(p1, p2)
    PROVE  /\ q \in Seq(JobIds) /\ Range(q) \subseteq Range(queue)
           /\ Exchanged(Append(q, NULL), a, k1, k2)
  <1>1. /\ Len(queue) \in Nat /\ Len(a) = Len(queue) + 1
        /\ DOMAIN queue = 1 .. Len(queue)
        /\ \A n \in 1 .. Len(queue) : a[n] = queue[n] /\ queue[n] \in JobIds
    BY Terminated
  <1>2. q = [n \in 1 .. Len(queue) |-> IF queue[n] = p1 THEN p2
                                       ELSE IF queue[n] = p2 THEN p1 ELSE queue[n]]
    BY <1>1 DEF Swapped
  <1>3. \A n \in 1 .. Len(queue) : q[n] = queue[k1] \/ q[n] = queue[k2] \/ q[n] = queue[n]
    BY <1>2
  <1>4. \A n \in 1 .. Len(queue) : q[n] \in JobIds
    BY <1>1, <1>3
  <1>5. q \in Seq(JobIds) /\ Len(q) = Len(queue) /\ DOMAIN q = 1 .. Len(queue)
    BY <1>1, <1>2, <1>4
  <1>6. Range(q) \subseteq Range(queue)
    BY <1>1, <1>3, <1>5 DEF Range
  <1>7. PICK c : c = Append(q, NULL)
    OBVIOUS
  <1>8. /\ c \in Seq(Pointers) /\ Len(c) = Len(q) + 1 /\ c[Len(q) + 1] = NULL
        /\ \A n \in 1 .. Len(q) : c[n] = q[n]
    BY <1>5, <1>7, Terminated
  <1>9. Len(c) = Len(a) /\ c[Len(a)] = NULL /\ Len(a) - 1 = Len(queue)
    BY <1>1, <1>5, <1>8
  <1>10. ASSUME NEW n \in 1 .. (Len(a) - 1)
         PROVE  c[n] = IF n = k1 THEN a[k2] ELSE IF n = k2 THEN a[k1] ELSE a[n]
    <2>1. n \in 1 .. Len(queue) /\ n \in 1 .. Len(q)
      BY <1>5, <1>9
    <2>2. c[n] = q[n] /\ a[n] = queue[n] /\ a[k1] = p1 /\ a[k2] = p2
      BY <1>1, <1>8, <2>1
    <2>3. (queue[n] = p1) <=> (n = k1)
      BY <2>1
    <2>4. (queue[n] = p2) <=> (n = k2)
      BY <2>1
    <2>5. q[n] = IF n = k1 THEN p2 ELSE IF n = k2 THEN p1 ELSE queue[n]
      BY <1>2, <2>1, <2>3, <2>4
    <2>. QED  BY <2>2, <2>5
  <1>11. Exchanged(c, a, k1, k2)
    BY <1>8, <1>9, <1>10 DEF Exchanged
  <1>. QED  BY <1>5, <1>6, <1>7, <1>11

(* s_swap_jobs.                                                            *)
LEMMA SwapJobsStep ==
    ASSUME IInv, NEW p1 \in JobIds, NEW p2 \in JobIds, SwapJobs(p1, p2)
    PROVE  IInv'
  <1>1. PICK q, prog : q = Swapped(p1, p2) /\ prog = SwapStatements(p1, p2)
    OBVIOUS
  <1>2. /\ Ready /\ p1 \in NotFirst /\ p2 \in NotFirst
        /\ Begin("swap", p1, prog, q, results) /\ UNCHANGED job
    BY <1>1 DEF SwapJobs
  <1>3. /\ queue \in Seq(JobIds) /\ results \in Seq(JobIds) /\ Apart
        /\ job \in [JobIds -> {"unused", "made", "freed"}]
    BY DEF IInv, Types
  <1>4. PICK a, b : a = Append(queue, NULL) /\ b = Append(results, NULL)
    OBVIOUS
  <1>5. PICK k1 \in 2 .. (Len(a) - 1) :
          /\ k1 \in 2 .. Len(queue) /\ queue[k1] = p1 /\ a[k1] = p1
          /\ Before(FIRST, p1) = Place(FIRST, a, k1)
          /\ \A n \in 1 .. Len(queue) : queue[n] = p1 => n = k1
    <2>1. PICK k : Later(a, p1, k)
      BY <1>2, <1>4, StandsBehind
    <2>. QED  BY <2>1 DEF Later
  <1>6. PICK k2 \in 2 .. (Len(a) - 1) :
          /\ k2 \in 2 .. Len(queue) /\ queue[k2] = p2 /\ a[k2] = p2
          /\ Before(FIRST, p2) = Place(FIRST, a, k2)
          /\ \A n \in 1 .. Len(queue) : queue[n] = p2 => n = k2
    <2>1. PICK k : Later(a, p2, k)
      BY <1>2, <1>4, StandsBehind
    <2>. QED  BY <2>1 DEF Later
  <1>7. k1 \in 1 .. Len(queue) /\ k2 \in 1 .. Len(queue)
    BY <1>3, <1>5, <1>6, LenProperties
  <1>8. PICK c : c = Append(q, NULL)
    OBVIOUS
  <1>9. q \in Seq(JobIds) /\ Range(q) \subseteq Range(queue) /\ Exchanged(c, a, k1, k2)
    <2>1. \A n \in 1 .. Len(queue) : queue[n] = p1 => n = k1
      BY <1>5
    <2>2. \A n \in 1 .. Len(queue) : queue[n] = p2 => n = k2
      BY <1>6
    <2>3. queue[k1] = p1 /\ queue[k2] = p2
      BY <1>5, <1>6
    <2>4. q \in Seq(JobIds) /\ Range(q) \subseteq Range(queue)
      BY <1>1, <1>3, <1>4, <1>7, <2>1, <2>2, <2>3, SwappedIs
    <2>5. Exchanged(Append(q, NULL), a, k1, k2)
      BY <1>1, <1>3, <1>4, <1>7, <2>1, <2>2, <2>3, SwappedIs
    <2>. QED  BY <1>8, <2>4, <2>5
  <1>10. PICK x1, x2 : x1 = Place(FIRST, a, k1) /\ x2 = Place(FIRST, a, k2)
    OBVIOUS
  <1>11. PICK m1 : m1 = [mem EXCEPT ![x1] = p2]
    OBVIOUS
  <1>12. PICK m2 : m2 = [m1 EXCEPT ![x2] = p1]
    OBVIOUS
  <1>13. PICK m3 : m3 = [m2 EXCEPT ![TMP] = m2[N(p1)]]
    OBVIOUS
  <1>14. PICK m4 : m4 = [m3 EXCEPT ![N(p1)] = m3[N(p2)]]
    OBVIOUS
  <1>15. PICK m5 : m5 = [m4 EXCEPT ![N(p2)] = m4[TMP]]
    OBVIOUS
  <1>16. Swaps(mem, a, k1, k2, p1, p2, m1, m2, m3, m4, m5)
    BY <1>5, <1>6, <1>10, <1>11, <1>12, <1>13, <1>14, <1>15 DEF Swaps
  <1>17. Sound(mem, Made, FIRST, a, FINISHED, b)
    BY <1>2, <1>4, SoundNow
  <1>18. Sound(m5, Made, FIRST, c, FINISHED, b)
    BY <1>9, <1>16, <1>17, SwapsSound
  <1>19. p1 \in Made /\ p2 \in Made
    BY <1>16, <1>17, SwapsTypes
  <1>20. x1 \in Usable(Made) /\ x2 \in Usable(Made)
    BY <1>10, <1>16, <1>17, SwapsTypes
  <1>21. /\ m1 \in [Cells -> Pointers] /\ m2 \in [Cells -> Pointers]
         /\ m3 \in [Cells -> Pointers] /\ m4 \in [Cells -> Pointers]
         /\ m5 \in [Cells -> Pointers]
    BY <1>16, <1>17, SwapsTypes
  <1>22. mem \in [Cells -> Pointers] /\ Made \subseteq JobIds
    BY <1>17 DEF Sound
  <1>23. PICK at : at = [op |-> "swap", job |-> p1, behind |-> Behind(p1)]
    OBVIOUS
  <1>24. PICK c0, c1, c2 : /\ c0 = At(mem, Made, a, b) /\ c1 = At(m1, Made, a, b)
                           /\ c2 = At(m2, Made, a, b)
    OBVIOUS
  <1>25. PICK c3, c4, c5 : /\ c3 = At(m3, Made, a, b) /\ c4 = At(m4, Made, a, b)
                           /\ c5 = At(m5, Made, c, b)
    OBVIOUS
  <1>26. at.op = "swap"
    BY <1>23
  <1>27. Seen(c0, at, q) /\ Seen(c1, at, q) /\ Seen(c2, at, q)
    BY <1>21, <1>22, <1>24, <1>26 DEF Seen, At
  <1>28. Seen(c3, at, q) /\ Seen(c4, at, q) /\ Seen(c5, at, q)
    BY <1>21, <1>22, <1>25, <1>26 DEF Seen, At
  <1>29. PICK s1, s2, s3, s4, s5 :
           /\ s1 = Set(x1, p2) /\ s2 = Set(x2, p1) /\ s3 = Copy(TMP, N(p1))
           /\ s4 = Copy(N(p1), N(p2)) /\ s5 = Copy(N(p2), TMP)
    OBVIOUS
  <1>30. prog = <<s1, s2, s3, s4, s5>>
    BY <1>1, <1>5, <1>6, <1>10, <1>29 DEF SwapStatements
  <1>31. /\ N(p1) \in Usable(Made) /\ N(p2) \in Usable(Made) /\ TMP \in Usable(Made)
         /\ p1 \in Pointers /\ p2 \in Pointers
    BY <1>19 DEF Usable, Pointers
  <1>32. s1 \in Statements /\ Does(c0, s1, c1)
    BY <1>11, <1>20, <1>22, <1>24, <1>29, <1>31, StatementFacts
  <1>33. s2 \in Statements /\ Does(c1, s2, c2)
    BY <1>12, <1>20, <1>21, <1>22, <1>24, <1>29, <1>31, StatementFacts
  <1>34. s3 \in Statements /\ Does(c2, s3, c3)
    BY <1>13, <1>21, <1>22, <1>24, <1>25, <1>29, <1>31, StatementFacts
  <1>35. s4 \in Statements /\ Does(c3, s4, c4)
    BY <1>14, <1>21, <1>22, <1>25, <1>29, <1>31, StatementFacts
  <1>36. s5 \in Statements /\ Does(c4, s5, c5)
    BY <1>15, <1>21, <1>22, <1>25, <1>29, <1>31, StatementFacts
  <1>37. prog \in Seq(Statements) /\ prog # <<>> /\ Planned(c0, prog, c5, at, q)
    BY <1>27, <1>28, <1>30, <1>32, <1>33, <1>34, <1>35, <1>36, PlanFive
  <1>38. Stage(At(mem, Made', a, b), prog, m5, Made, Append(q, NULL),
               Append(results, NULL), at, q)
    <2>1. Made' = Made
      BY <1>2 DEF Made
    <2>. QED  BY <1>4, <1>8, <1>18, <1>24, <1>25, <1>37, <2>1 DEF Stage
  <1>39. Range(q) \cap Range(results) = {}
    BY <1>3, <1>9 DEF Apart
  <1>. QED  BY <1>2, <1>3, <1>9, <1>23, <1>37, <1>38, <1>39, StageEnd

-----------------------------------------------------------------------------
(* Every step keeps the invariant.                                         *)
LEMMA NextIInv ==
    ASSUME MaxFinished >= 2
    PROVE  IInv /\ [Next]_vars => IInv'
  <1> SUFFICES ASSUME IInv, [Next]_vars
               PROVE  IInv'
    OBVIOUS
  <1>1. CASE Statement
    BY <1>1, StatementStep
  <1>2. CASE Sigterm
    BY <1>2, SigtermStep
  <1>3. CASE ClearFinished
    BY <1>3, ClearFinishedStep
  <1>4. CASE MoveUrgentFaults
    BY <1>4, FaultStep DEF MoveUrgentFaults
  <1>5. ASSUME NEW j \in JobIds, NewJob(j)
        PROVE  IInv'
    BY <1>5, NewJobStep
  <1>6. ASSUME NEW j \in JobIds, MarkRunning(j)
        PROVE  IInv'
    BY <1>6, MarkRunningStep
  <1>7. ASSUME NEW j \in JobIds, FinishKept(j)
        PROVE  IInv'
    BY <1>7, FinishKeptStep
  <1>8. ASSUME NEW j \in JobIds, FinishUnkept(j)
        PROVE  IInv'
    BY <1>8, FinishUnkeptStep
  <1>9. ASSUME NEW j \in JobIds, FinishWaited(j)
        PROVE  IInv'
    BY <1>9, FinishWaitedStep
  <1>10. ASSUME NEW j \in JobIds, FinishWaitedFaults(j)
         PROVE  IInv'
    BY <1>10, FaultStep DEF FinishWaitedFaults
  <1>11. ASSUME NEW j \in JobIds, MoveUrgent(j)
         PROVE  IInv'
    BY <1>11, MoveUrgentStep
  <1>12. ASSUME NEW j \in JobIds, RemoveQueued(j)
         PROVE  IInv'
    BY <1>12, RemoveQueuedStep
  <1>13. ASSUME NEW j \in JobIds, RemoveFinished(j)
         PROVE  IInv'
    BY <1>13, RemoveFinishedStep
  <1>14. ASSUME NEW j \in JobIds, NEW p \in JobIds, SwapJobs(j, p)
         PROVE  IInv'
    BY <1>14, SwapJobsStep
  <1>15. CASE UNCHANGED vars
    BY <1>15, SameLists DEF vars
  <1>. QED  BY <1>1, <1>2, <1>3, <1>4, <1>5, <1>6, <1>7, <1>8, <1>9, <1>10, <1>11,
               <1>12, <1>13, <1>14, <1>15 DEF Next

(* It holds always.                                                        *)
LEMMA Invariance ==
    ASSUME MaxFinished >= 2
    PROVE  Spec => []IInv
  <1>1. IInv /\ [Next]_vars => IInv'
    BY NextIInv
  <1>. QED  BY InitIInv, <1>1, PTL DEF Spec

(* What is used next has not been freed.                                   *)
LEMMA NextIsUsable == IInv => NoUseAfterFree
  <1> SUFFICES ASSUME IInv, todo # <<>>
               PROVE  ~Freed(Head(todo).to) /\ ~Freed(Head(todo).from)
    BY DEF NoUseAfterFree
  <1>1. PICK c, d : c.made = Made /\ Planned(c, todo, d, doing, queue)
    BY DEF IInv, Ongoing
  <1>2. todo \in Seq(Statements)
    BY DEF IInv, Types
  <1>3. PICK e : Does(c, Head(todo), e)
    BY <1>1, <1>2, PlanTail
  <1>4. Head(todo).to \in Usable(Made) /\ Head(todo).from \in Usable(Made)
    BY <1>1, <1>3 DEF Does
  <1>5. ASSUME NEW x \in Usable(Made)
        PROVE  ~Freed(x)
    BY CellFacts DEF Freed, Usable, Made
  <1>. QED  BY <1>4, <1>5

(* Between operations the pointers of the job list spell the queue and the *)
(* results: whatever was linked, unlinked, swapped, made urgent, removed,  *)
(* stored, wiped out or cleared before (newjobptr, s_move_urgent,          *)
(* s_swap_jobs, s_remove_job, new_finished_job, job_finished,              *)
(* destroy_finished_job, s_clear_finished).  Like the next two, this is so *)
(* for TS_MAXFINISHED of 2 and more: with 1, new_finished_job links the    *)
(* second result behind the job it has just freed.                         *)
THEOREM ListsAlwaysSpell ==
    ASSUME MaxFinished >= 2
    PROVE  Spec => []ListsAreSequences
  <1>1. IInv => ListsAreSequences
    BY ReadyFacts DEF ListsAreSequences
  <1>2. Spec => []IInv
    BY Invariance
  <1>. QED  BY <1>1, <1>2, PTL

(* No statement of these operations uses the next of a struct Job that     *)
(* destroy_job has freed, for TS_MAXFINISHED of 2 and more.                *)
THEOREM FreedIsNeverUsed ==
    ASSUME MaxFinished >= 2
    PROVE  Spec => []NoUseAfterFree
  <1>1. Spec => []IInv
    BY Invariance
  <1>. QED  BY <1>1, NextIsUsable, PTL

(* SIGTERM may come between any two statements: what sigterm_handler meets *)
(* is the list, but for the job on the move and those behind one that      *)
(* ends, and its walks come to an end.                                     *)
THEOREM SigtermAlwaysSaves ==
    ASSUME MaxFinished >= 2
    PROVE  Spec => []SavedOnSigterm
  <1>1. IInv => SavedOnSigterm
    BY DEF IInv
  <1>2. Spec => []IInv
    BY Invariance
  <1>. QED  BY <1>1, <1>2, PTL
=============================================================================
