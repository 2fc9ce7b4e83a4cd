----------------------------- MODULE ListLemmas -----------------------------
(***************************************************************************)
(* Facts about the operations on lists of jobs and of connections that     *)
(* jobs.c and server.c write with pointers and memcpy: taking an element   *)
(* out, adding one at the end, dropping the first or the last, rearranging.*)
(***************************************************************************)
EXTENDS Integers, Sequences, SequencesExt, SequenceTheorems,
        WellFoundedInduction, TLAPS

(* Every nonempty set of naturals has a least element.                     *)
LEMMA LeastOf ==
    ASSUME NEW T, T \subseteq Nat, T # {}
    PROVE  \E m \in T : \A n \in T : m <= n
  <1> DEFINE R == OpToRel(<, Nat)
  <1>1. IsWellFoundedOn(R, Nat)
    BY NatLessThanWellFounded
  <1>2. \A m, n \in Nat : <<n, m>> \in R <=> n < m
    BY DEF OpToRel
  <1> HIDE DEF R
  <1>3. PICK m \in T : \A n \in T : ~(<<n, m>> \in R)
    BY <1>1, WFMin
  <1>4. ASSUME NEW n \in T PROVE m <= n
    <2>1. m \in Nat /\ n \in Nat /\ ~(n < m)
      BY <1>2, <1>3
    <2>. QED  BY <2>1
  <1>. QED  BY <1>3, <1>4

(* Taking the element at place q out of a list shifts the later ones down  *)
(* by one place, as remove_connection and s_remove_job do.                 *)
LEMMA RemoveAtSeq ==
    ASSUME NEW S, NEW s \in Seq(S), NEW q \in DOMAIN s
    PROVE  /\ RemoveAt(s, q) \in Seq(S)
           /\ Len(RemoveAt(s, q)) = Len(s) - 1
           /\ \A n \in 1 .. (Len(s) - 1) :
                RemoveAt(s, q)[n] = IF n < q THEN s[n] ELSE s[n + 1]
  <1>0. /\ Len(s) \in Nat /\ DOMAIN s = 1 .. Len(s) /\ q \in 1 .. Len(s)
        /\ \A n \in 1 .. Len(s) : s[n] \in S
    BY LenProperties
  <1> DEFINE a == SubSeq(s, 1, q - 1)
             b == SubSeq(s, q + 1, Len(s))
  <1>1. /\ a \in Seq(S) /\ Len(a) = q - 1
        /\ \A n \in 1 .. (q - 1) : a[n] = s[n]
    <2>1. \A n \in 1 .. (q - 1) : s[n] \in S
      BY <1>0
    <2>. QED  BY <1>0, <2>1, SubSeqProperties
  <1>2. /\ b \in Seq(S) /\ Len(b) = Len(s) - q
        /\ \A n \in 1 .. (Len(s) - q) : b[n] = s[n + q]
    <2>1. \A n \in (q + 1) .. Len(s) : s[n] \in S
      BY <1>0
    <2>2. /\ b \in Seq(S)
          /\ Len(b) = IF q + 1 <= Len(s) THEN Len(s) - (q + 1) + 1 ELSE 0
          /\ \A n \in 1 .. (Len(s) - (q + 1) + 1) : b[n] = s[(q + 1) + n - 1]
      BY <1>0, <2>1, SubSeqProperties, q + 1 \in Int, Len(s) \in Int
    <2> HIDE DEF b
    <2>3. Len(b) = Len(s) - q
      <3>1. CASE q + 1 <= Len(s)
        BY <1>0, <2>2, <3>1
      <3>2. CASE ~(q + 1 <= Len(s))
        <4>1. q = Len(s)
          BY <1>0, <3>2
        <4>. QED  BY <1>0, <2>2, <3>2, <4>1
      <3>. QED  BY <3>1, <3>2
    <2>4. ASSUME NEW n \in 1 .. (Len(s) - q)
          PROVE  b[n] = s[n + q]
      <3>1. /\ n \in 1 .. (Len(s) - (q + 1) + 1)
            /\ (q + 1) + n - 1 = n + q
        BY <1>0
      <3>2. b[n] = s[(q + 1) + n - 1]
        BY <2>2, <3>1
      <3>. QED  BY <3>1, <3>2
    <2>. QED  BY <2>2, <2>3, <2>4
  <1>3. /\ a \o b \in Seq(S) /\ Len(a \o b) = Len(a) + Len(b)
        /\ \A n \in 1 .. Len(a) + Len(b) :
             (a \o b)[n] = IF n <= Len(a) THEN a[n] ELSE b[n - Len(a)]
    BY <1>1, <1>2, ConcatProperties
  <1>4. RemoveAt(s, q) = a \o b
    BY DEF RemoveAt
  <1> HIDE DEF a, b
  <1>5. Len(a \o b) = Len(s) - 1
    BY <1>0, <1>1, <1>2, <1>3
  <1>6. ASSUME NEW n \in 1 .. (Len(s) - 1)
        PROVE  (a \o b)[n] = IF n < q THEN s[n] ELSE s[n + 1]
    <2>0. n \in 1 .. Len(a) + Len(b) /\ Len(a) = q - 1
      BY <1>0, <1>1, <1>2
    <2>1. (a \o b)[n] = IF n <= q - 1 THEN a[n] ELSE b[n - (q - 1)]
      BY <1>3, <2>0
    <2>2. CASE n < q
      BY <1>0, <1>1, <2>1, <2>2
    <2>3. CASE ~(n < q)
      <3>1. /\ n - (q - 1) \in 1 .. (Len(s) - q)
            /\ n - (q - 1) + q = n + 1
        BY <1>0, <2>3
      <3>2. b[n - (q - 1)] = s[n + 1]
        BY <1>2, <3>1
      <3>. QED  BY <1>0, <2>1, <2>3, <3>2
    <2>. QED  BY <2>2, <2>3
  <1>. QED  BY <1>3, <1>4, <1>5, <1>6

(* A list without repetitions stays so, and loses exactly that element.    *)
LEMMA RemoveAtInjective ==
    ASSUME NEW S, NEW s \in Seq(S), IsInjective(s), NEW q \in DOMAIN s
    PROVE  /\ IsInjective(RemoveAt(s, q))
           /\ Range(RemoveAt(s, q)) = Range(s) \ {s[q]}
  <1> DEFINE r == RemoveAt(s, q)
  <1>0. /\ Len(s) \in Nat /\ DOMAIN s = 1 .. Len(s) /\ q \in 1 .. Len(s)
        /\ DOMAIN r = 1 .. (Len(s) - 1)
        /\ \A n \in 1 .. (Len(s) - 1) : r[n] = IF n < q THEN s[n] ELSE s[n + 1]
    BY RemoveAtSeq, LenProperties
  <1> HIDE DEF r
  <1>1. \A m, n \in 1 .. Len(s) : s[m] = s[n] => m = n
    BY <1>0 DEF IsInjective
  <1>2. IsInjective(r)
    BY <1>0, <1>1 DEF IsInjective
  <1>3. ASSUME NEW x \in Range(r)
        PROVE  x \in Range(s) /\ x # s[q]
    <2>1. PICK n \in 1 .. (Len(s) - 1) : x = r[n]
      BY <1>0 DEF Range
    <2>2. PICK m \in 1 .. Len(s) : m # q /\ x = s[m]
      BY <1>0, <2>1
    <2>. QED  BY <1>0, <1>1, <2>2 DEF Range
  <1>4. ASSUME NEW x \in Range(s), x # s[q]
        PROVE  x \in Range(r)
    <2>1. PICK m \in 1 .. Len(s) : x = s[m]
      BY <1>0 DEF Range
    <2>2. CASE m < q
      BY <1>0, <2>1, <2>2 DEF Range
    <2>3. CASE m > q
      <3>1. m - 1 \in 1 .. (Len(s) - 1) /\ r[m - 1] = x
        BY <1>0, <2>1, <2>3
      <3>. QED  BY <1>0, <3>1 DEF Range
    <2>. QED  BY <1>0, <1>4, <2>1, <2>2, <2>3
  <1>. QED  BY <1>2, <1>3, <1>4 DEF r

(* Adding a new element at the end of a list without repetitions.          *)
LEMMA AppendIsInjective ==
    ASSUME NEW S, NEW s \in Seq(S), IsInjective(s), NEW e \in S,
           e \notin Range(s)
    PROVE  /\ IsInjective(Append(s, e))
           /\ Range(Append(s, e)) = Range(s) \cup {e}
  BY AppendProperties DEF IsInjective, Range

(* Dropping the first element of a list without repetitions.               *)
LEMMA TailIsInjective ==
    ASSUME NEW S, NEW s \in Seq(S), IsInjective(s), s # <<>>
    PROVE  /\ Tail(s) \in Seq(S)
           /\ IsInjective(Tail(s))
           /\ Range(Tail(s)) = Range(s) \ {s[1]}
  <1> DEFINE r == Tail(s)
  <1>0. /\ Len(s) \in Nat \ {0} /\ DOMAIN s = 1 .. Len(s)
        /\ r \in Seq(S)
        /\ DOMAIN r = 1 .. (Len(s) - 1)
        /\ \A n \in 1 .. (Len(s) - 1) : r[n] = s[n + 1]
    BY LenProperties, HeadTailProperties, EmptySeq
  <1> HIDE DEF r
  <1>1. \A m, n \in 1 .. Len(s) : s[m] = s[n] => m = n
    BY <1>0 DEF IsInjective
  <1>2. IsInjective(r)
    BY <1>0, <1>1 DEF IsInjective
  <1>3. ASSUME NEW x \in Range(s), x # s[1]
        PROVE  x \in Range(r)
    <2>1. PICK m \in 1 .. Len(s) : x = s[m]
      BY <1>0 DEF Range
    <2>2. m - 1 \in 1 .. (Len(s) - 1) /\ r[m - 1] = x
      BY <1>0, <1>3, <2>1
    <2>. QED  BY <1>0, <2>2 DEF Range
  <1>4. ASSUME NEW x \in Range(r)
        PROVE  x \in Range(s) /\ x # s[1]
    <2>1. PICK n \in 1 .. (Len(s) - 1) : x = s[n + 1]
      BY <1>0 DEF Range
    <2>2. n + 1 \in 1 .. Len(s) /\ n + 1 # 1 /\ 1 \in 1 .. Len(s)
      BY <1>0
    <2>. QED  BY <1>0, <1>1, <2>1, <2>2 DEF Range
  <1>. QED  BY <1>0, <1>2, <1>3, <1>4 DEF r

(* Dropping what has just been added.                                      *)
LEMMA FrontOfAppend ==
    ASSUME NEW S, NEW s \in Seq(S), NEW e \in S
    PROVE  Front(Append(s, e)) = s
  BY DEF Front

(* r is the list s with the element of place p[n] at place n, where p is a *)
(* permutation of the places.                                              *)
Rearranges(r, s, p) ==
    /\ p \in [DOMAIN s -> DOMAIN s]
    /\ \A m, n \in DOMAIN s : p[m] = p[n] => m = n
    /\ \A m \in DOMAIN s : \E n \in DOMAIN s : p[n] = m
    /\ r = [n \in DOMAIN s |-> s[p[n]]]

(* A rearrangement of a list has the elements of the list, each once.      *)
LEMMA Rearranged ==
    ASSUME NEW S, NEW s \in Seq(S), IsInjective(s), NEW p, NEW r,
           Rearranges(r, s, p)
    PROVE  r \in Seq(S) /\ IsInjective(r) /\ Range(r) = Range(s)
  <1> USE DEF Rearranges
  <1>1. Len(s) \in Nat /\ DOMAIN s = 1 .. Len(s) /\ s \in [1 .. Len(s) -> S]
    BY LenProperties
  <1>2. r \in [1 .. Len(s) -> S]
    BY <1>1
  <1>3. r \in Seq(S)
    BY <1>1, <1>2, SeqDef
  <1>4. IsInjective(r)
    BY DEF IsInjective
  <1>5. Range(r) = Range(s)
    BY DEF Range
  <1>. QED  BY <1>3, <1>4, <1>5

(* A list of two.                                                          *)
LEMMA AppendPair ==
    ASSUME NEW S, NEW a \in S, NEW b \in S
    PROVE  Append(<<a>>, b) = <<a, b>>
  <1> DEFINE s == Append(<<a>>, b)
             t == <<a, b>>
  <1>1. s \in Seq(S) /\ Len(s) = 2 /\ s[1] = a /\ s[2] = b
    BY AppendProperties
  <1>2. t \in Seq(S) /\ Len(t) = 2 /\ t[1] = a /\ t[2] = b
    OBVIOUS
  <1> HIDE DEF s, t
  <1>3. s = t
    BY <1>1, <1>2, SeqEqual
  <1>. QED  BY <1>3 DEF s, t

(* What is in a list after something was added at the end.                 *)
LEMMA RangeOfAppend ==
    ASSUME NEW S, NEW s \in Seq(S), NEW e \in S
    PROVE  /\ Append(s, e) \in Seq(S)
           /\ Range(Append(s, e)) = Range(s) \cup {e}
  <1> DEFINE r == Append(s, e)
  <1>1. /\ Len(s) \in Nat /\ DOMAIN s = 1 .. Len(s)
        /\ r \in Seq(S) /\ DOMAIN r = 1 .. (Len(s) + 1)
        /\ \A n \in 1 .. Len(s) : r[n] = s[n]
        /\ r[Len(s) + 1] = e
    BY AppendProperties, LenProperties
  <1> HIDE DEF r
  <1>2. ASSUME NEW x \in Range(r) PROVE x \in Range(s) \cup {e}
    BY <1>1, <1>2 DEF Range
  <1>3. ASSUME NEW x \in Range(s) PROVE x \in Range(r)
    BY <1>1, <1>3 DEF Range
  <1>4. e \in Range(r)
    BY <1>1 DEF Range
  <1>. QED  BY <1>1, <1>2, <1>3, <1>4 DEF r
=============================================================================
