---------------------------- MODULE Stores_proofs ----------------------------
(***************************************************************************)
(* Proofs about the parts that MC_Stores puts side by side, for any names, *)
(* values, keys, calls, paths and bounds: they implement their maps, lose  *)
(* nothing but to an overlap, and bring into the VFS what was to come.     *)
(*                                                                         *)
(* The secret store implements a map because what is in it can always be   *)
(* read with the current key, and a snapshot's checksum was made of what   *)
(* is in it or of more (VaultIInv); the state store because what a file    *)
(* or a writer holds was the store's content once (StateIInv); the first   *)
(* date of a configuration stays because every save that has read holds    *)
(* the date of what it read (ConfigIInv).  A mount, a checkout and a       *)
(* container each keep the account of what has come and what has been      *)
(* changed since, over trees in which every node can be listed unless the  *)
(* session has misused them (TreeIInv).                                    *)
(***************************************************************************)
EXTENDS MC_Stores, FiniteSetTheorems, SequenceTheorems, TLAPS

----------------------------------------------------------------------------
(* Paths: which lie on the way to another, and where they go when moved.   *)

LEMMA PathSeq ==
    ASSUME NEW p \in Path
    PROVE  p \in Seq(STRING) /\ Len(p) \in Nat /\ Len(p) > 0
<1>1. p \in Seq(STRING) /\ p # <<>>
    BY PathAssumption
<1> QED
    BY <1>1, EmptySeq

LEMMA PrefixOfPrefix ==
    ASSUME NEW S, NEW s \in Seq(S), NEW n \in 0 .. Len(s), NEW m \in 0 .. n
    PROVE  /\ SubSeq(SubSeq(s, 1, n), 1, m) = SubSeq(s, 1, m)
           /\ Len(SubSeq(s, 1, n)) = n
<1> DEFINE u == SubSeq(s, 1, n)
<1>0. Len(s) \in Nat /\ \A i \in 1 .. Len(s) : s[i] \in S
    BY LenProperties
<1>1. u \in Seq(S) /\ Len(u) = n
    <2>1. \A i \in 1 .. n : s[i] \in S
        BY <1>0
    <2>2. u \in Seq(S) /\ Len(u) = IF 1 <= n THEN n - 1 + 1 ELSE 0
        BY <1>0, <2>1, SubSeqProperties
    <2> QED
        BY <1>0, <2>2
<1>2. u = Restrict(s, 1 .. n) /\ SubSeq(s, 1, m) = Restrict(s, 1 .. m)
    BY <1>0, SubSeqRestrict
<1>3. SubSeq(u, 1, m) = Restrict(u, 1 .. m)
    BY <1>1, SubSeqRestrict
<1>4. \A i \in 1 .. m : u[i] = s[i]
    BY <1>0, <1>2 DEF Restrict
<1> HIDE DEF u
<1>5. Restrict(u, 1 .. m) = Restrict(s, 1 .. m)
    BY <1>4 DEF Restrict
<1> QED
    BY <1>1, <1>2, <1>3, <1>5 DEF u

LEMMA OnTheWay ==
    ASSUME NEW p \in Path, NEW q \in Above(p)
    PROVE  q \in Path /\ q # p /\ Len(q) < Len(p) /\ q = SubSeq(p, 1, Len(q))
    BY PathSeq DEF Above

LEMMA AboveTransitive ==
    ASSUME NEW p \in Path, NEW q \in Above(p), NEW r \in Above(q)
    PROVE  r \in Above(p)
<1>1. /\ q \in Path /\ Len(q) < Len(p) /\ q = SubSeq(p, 1, Len(q))
      /\ r \in Path /\ Len(r) < Len(q) /\ r = SubSeq(q, 1, Len(r))
    BY OnTheWay
<1>2. Len(q) \in 0 .. Len(p) /\ Len(r) \in 0 .. Len(q) /\ Len(p) \in Nat
    BY <1>1, PathSeq
<1>3. SubSeq(q, 1, Len(r)) = SubSeq(p, 1, Len(r))
    <2>1. SubSeq(SubSeq(p, 1, Len(q)), 1, Len(r)) = SubSeq(p, 1, Len(r))
        BY <1>2, PathSeq, PrefixOfPrefix
    <2> QED
        BY <1>1, <2>1
<1> QED
    BY <1>1, <1>2, <1>3 DEF Above

LEMMA BelowTransitive ==
    ASSUME NEW p \in Path, NEW q \in {p} \cup Below(p), NEW x \in Path, q \in Above(x)
    PROVE  x \in Below(p)
    BY AboveTransitive DEF Below

\* The n first names of a path are a path on the way to it, or all of it.
LEMMA PrefixOnTheWay ==
    ASSUME NEW p \in Path, NEW n \in 1 .. Len(p)
    PROVE  /\ SubSeq(p, 1, n) \in {p} \cup Above(p)
           /\ SubSeq(p, 1, n) \in Path
           /\ Len(SubSeq(p, 1, n)) = n
           /\ \A q \in Above(p) : Len(q) < n => q \in Above(SubSeq(p, 1, n))
<1> DEFINE u == SubSeq(p, 1, n)
<1>0. p \in Seq(STRING) /\ Len(p) \in Nat /\ n \in 0 .. Len(p)
    BY PathSeq
<1>1. Len(u) = n
    BY <1>0, PrefixOfPrefix
<1>2. u \in Path
    BY PathAssumption
<1>3. u \in {p} \cup Above(p)
    <2>1. CASE n = Len(p)
        BY <1>0, <2>1, SubSeqFull
    <2>2. CASE n < Len(p)
        <3> HIDE DEF u
        <3>1. Len(u) < Len(p) /\ u = SubSeq(p, 1, Len(u))
            BY <1>1, <2>2 DEF u
        <3> QED
            BY <1>2, <3>1 DEF Above
    <2> QED
        BY <1>0, <2>1, <2>2
<1>4. ASSUME NEW q \in Above(p), Len(q) < n
      PROVE  q \in Above(u)
    <2>1. q \in Path /\ q = SubSeq(p, 1, Len(q)) /\ Len(q) \in Nat
        BY OnTheWay, PathSeq
    <2>2. Len(q) \in 0 .. n
        BY <1>0, <1>4, <2>1
    <2>3. SubSeq(u, 1, Len(q)) = SubSeq(p, 1, Len(q))
        BY <1>0, <2>2, PrefixOfPrefix
    <2> HIDE DEF u
    <2> QED
        BY <1>1, <1>4, <2>1, <2>3 DEF Above
<1> QED
    BY <1>1, <1>2, <1>3, <1>4

\* What was below a path is below where it is moved.
LEMMA RebaseIsBelow ==
    ASSUME NEW from \in Path, NEW to \in Path, NEW q \in Below(from), Rebase(q, from, to) \in Path
    PROVE  Rebase(q, from, to) \in Below(to) /\ Rebase(q, from, to) # to
<1> DEFINE rest == SubSeq(q, Len(from) + 1, Len(q))
           u == to \o rest
<1>1. /\ q \in Path /\ Len(from) < Len(q) /\ q \in Seq(STRING)
      /\ Len(from) \in Nat /\ Len(q) \in Nat /\ to \in Seq(STRING) /\ Len(to) \in Nat
    BY PathSeq, OnTheWay DEF Below
<1>2. rest \in Seq(STRING) /\ Len(rest) \in Nat /\ Len(rest) > 0
    <2>1. \A i \in Len(from) + 1 .. Len(q) : q[i] \in STRING
        BY <1>1, ElementOfSeq
    <2>2. /\ rest \in Seq(STRING)
          /\ Len(rest) = IF Len(from) + 1 <= Len(q) THEN Len(q) - (Len(from) + 1) + 1 ELSE 0
        BY <1>1, <2>1, SubSeqProperties
    <2> QED
        BY <1>1, <2>2
<1> HIDE DEF rest
<1>3. u \in Seq(STRING) /\ Len(u) = Len(to) + Len(rest) /\ \A i \in 1 .. Len(to) : u[i] = to[i]
    BY <1>1, <1>2, ConcatProperties
<1>4. Len(to) \in 0 .. Len(u) /\ Len(to) < Len(u)
    BY <1>1, <1>2, <1>3
<1> HIDE DEF u
<1>5. SubSeq(u, 1, Len(to)) = to
    <2>1. SubSeq(u, 1, Len(to)) = Restrict(u, 1 .. Len(to))
        BY <1>3, <1>4, SubSeqRestrict
    <2>2. to = Restrict(to, 1 .. Len(to))
        <3>1. SubSeq(to, 1, Len(to)) = Restrict(to, 1 .. Len(to))
            BY <1>1, SubSeqRestrict
        <3> QED
            BY <1>1, <3>1, SubSeqFull
    <2>3. Restrict(u, 1 .. Len(to)) = Restrict(to, 1 .. Len(to))
        BY <1>3 DEF Restrict
    <2> QED
        BY <2>1, <2>2, <2>3
<1>6. u = Rebase(q, from, to)
    BY DEF u, rest, Rebase
<1> QED
    BY <1>4, <1>5, <1>6 DEF Below, Above

\* A path is on the way to another when it is shorter and has the same names.
LEMMA AboveIs ==
    ASSUME NEW p \in Path, NEW q \in Path
    PROVE  q \in Above(p) <=> Len(q) < Len(p) /\ \A i \in 1 .. Len(q) : q[i] = p[i]
<1>1. p \in Seq(STRING) /\ q \in Seq(STRING) /\ Len(p) \in Nat /\ Len(q) \in Nat
    BY PathSeq
<1>2. ASSUME Len(q) < Len(p)
      PROVE  q = SubSeq(p, 1, Len(q)) <=> \A i \in 1 .. Len(q) : q[i] = p[i]
    <2> DEFINE u == SubSeq(p, 1, Len(q))
    <2>1. \A i \in 1 .. Len(q) : p[i] \in STRING
        BY <1>1, <1>2, ElementOfSeq
    <2>2. u \in Seq(STRING) /\ Len(u) = Len(q) /\ \A i \in 1 .. Len(q) : u[i] = p[i]
        <3>1. u = Restrict(p, 1 .. Len(q))
            BY <1>1, <1>2, SubSeqRestrict
        <3>2. u \in Seq(STRING) /\ Len(u) = IF 1 <= Len(q) THEN Len(q) - 1 + 1 ELSE 0
            BY <1>1, <2>1, SubSeqProperties
        <3> QED
            BY <1>1, <3>1, <3>2 DEF Restrict
    <2> HIDE DEF u
    <2>3. (\A i \in 1 .. Len(q) : q[i] = u[i]) => q = u
        BY <1>1, <2>2, SeqEqual
    <2> QED
        BY <2>2, <2>3 DEF u
<1> QED
    BY <1>2 DEF Above

\* Of two directories on the way to a path one is on the way to the other.
LEMMA OneAboveTheOther ==
    ASSUME NEW x \in Path, NEW p \in Above(x), NEW q \in Above(x)
    PROVE  p = q \/ p \in Above(q) \/ q \in Above(p)
<1>1. p \in Path /\ q \in Path /\ Len(p) \in Nat /\ Len(q) \in Nat
      /\ p = SubSeq(x, 1, Len(p)) /\ q = SubSeq(x, 1, Len(q))
    BY OnTheWay, PathSeq
<1>2. CASE Len(p) < Len(q)
    BY <1>1, <1>2, AboveIs, OnTheWay, PathSeq
<1>3. CASE Len(q) < Len(p)
    BY <1>1, <1>3, AboveIs, OnTheWay, PathSeq
<1>4. CASE Len(p) = Len(q)
    BY <1>1, <1>4
<1>5. Len(p) < Len(q) \/ Len(q) < Len(p) \/ Len(p) = Len(q)
    <2>1. Len(p) \in Nat /\ Len(q) \in Nat
        BY <1>1
    <2>2. \A m, n \in Nat : m < n \/ n < m \/ m = n
        OBVIOUS
    <2> QED
        BY <2>1, <2>2, Zenon
<1> QED
    BY <1>2, <1>3, <1>4, <1>5, Zenon

LEMMA RebaseAt ==
    ASSUME NEW from \in Path, NEW to \in Path, NEW q \in Below(from)
    PROVE  LET u == Rebase(q, from, to)
           IN  /\ u \in Seq(STRING)
               /\ Len(u) = Len(to) + Len(q) - Len(from)
               /\ \A i \in 1 .. Len(to) : u[i] = to[i]
               /\ \A i \in 1 .. Len(from) : q[i] = from[i]
               /\ \A i \in Len(from) + 1 .. Len(q) : u[i - Len(from) + Len(to)] = q[i]
<1> DEFINE rest == SubSeq(q, Len(from) + 1, Len(q))
           u == Rebase(q, from, to)
<1>1. /\ q \in Path /\ Len(from) < Len(q) /\ q \in Seq(STRING) /\ from \in Above(q)
      /\ Len(from) \in Nat /\ Len(q) \in Nat /\ to \in Seq(STRING) /\ Len(to) \in Nat
    BY PathSeq, OnTheWay DEF Below
<1>2. /\ rest \in Seq(STRING) /\ Len(rest) = Len(q) - Len(from)
      /\ \A i \in 1 .. Len(rest) : rest[i] = q[Len(from) + i]
    <2>1. \A i \in Len(from) + 1 .. Len(q) : q[i] \in STRING
        BY <1>1, ElementOfSeq
    <2>2. /\ rest \in Seq(STRING)
          /\ Len(rest) = IF Len(from) + 1 <= Len(q) THEN Len(q) - (Len(from) + 1) + 1 ELSE 0
          /\ \A i \in 1 .. Len(q) - (Len(from) + 1) + 1 : rest[i] = q[Len(from) + 1 + i - 1]
        BY <1>1, <2>1, SubSeqProperties
    <2>3. Len(rest) = Len(q) - Len(from)
        BY <1>1, <2>2
    <2>4. ASSUME NEW i \in 1 .. Len(rest) PROVE rest[i] = q[Len(from) + i]
        <3>1. i \in 1 .. Len(q) - (Len(from) + 1) + 1 /\ Len(from) + 1 + i - 1 = Len(from) + i
            BY <1>1, <2>3, <2>4
        <3> QED
            BY <2>2, <3>1
    <2> QED
        BY <2>2, <2>3, <2>4
<1> HIDE DEF rest
<1>3. /\ u \in Seq(STRING) /\ Len(u) = Len(to) + Len(rest)
      /\ \A i \in 1 .. Len(to) : u[i] = to[i]
      /\ \A i \in 1 .. Len(rest) : u[Len(to) + i] = rest[i]
    <2>1. u = to \o rest
        BY DEF Rebase, rest
    <2> HIDE DEF u
    <2>2. /\ u \in Seq(STRING) /\ Len(u) = Len(to) + Len(rest)
          /\ \A i \in 1 .. Len(to) + Len(rest) : u[i] = IF i <= Len(to) THEN to[i] ELSE rest[i - Len(to)]
        BY <1>1, <1>2, <2>1, ConcatProperties
    <2>3. ASSUME NEW i \in 1 .. Len(rest) PROVE u[Len(to) + i] = rest[i]
        <3>1. /\ Len(to) + i \in 1 .. Len(to) + Len(rest) /\ ~ (Len(to) + i <= Len(to))
              /\ Len(to) + i - Len(to) = i
            BY <1>1, <1>2
        <3> DEFINE k == Len(to) + i
        <3>2. k \in 1 .. Len(to) + Len(rest) /\ ~ (k <= Len(to)) /\ k - Len(to) = i
            BY <3>1
        <3> HIDE DEF k
        <3>3. u[k] = rest[k - Len(to)]
            BY <2>2, <3>2
        <3> QED
            BY <3>2, <3>3 DEF k
    <2>4. \A i \in 1 .. Len(to) : i \in 1 .. Len(to) + Len(rest) /\ i <= Len(to)
        BY <1>1, <1>2
    <2> QED
        BY <2>2, <2>3, <2>4
<1> HIDE DEF u
<1>4. ASSUME NEW i \in Len(from) + 1 .. Len(q) PROVE u[i - Len(from) + Len(to)] = q[i]
    <2>1. i - Len(from) \in 1 .. Len(rest)
        BY <1>1, <1>2
    <2>2. /\ u[Len(to) + (i - Len(from))] = rest[i - Len(from)]
          /\ rest[i - Len(from)] = q[Len(from) + (i - Len(from))]
        BY <1>2, <1>3, <2>1
    <2>3. Len(to) + (i - Len(from)) = i - Len(from) + Len(to) /\ Len(from) + (i - Len(from)) = i
        BY <1>1
    <2> QED
        BY <2>2, <2>3
<1>5. \A i \in 1 .. Len(from) : q[i] = from[i]
    BY <1>1, AboveIs
<1>6. Len(u) = Len(to) + Len(q) - Len(from)
    BY <1>1, <1>2, <1>3
<1> QED
    BY <1>3, <1>4, <1>5, <1>6 DEF u

LEMMA RebaseSame ==
    ASSUME NEW from \in Path, NEW q \in Below(from)
    PROVE  Rebase(q, from, from) = q
<1> DEFINE u == Rebase(q, from, from)
<1>1. /\ q \in Path /\ q \in Seq(STRING) /\ Len(from) < Len(q)
      /\ Len(from) \in Nat /\ Len(q) \in Nat
    BY PathSeq, OnTheWay DEF Below
<1>2. /\ u \in Seq(STRING) /\ Len(u) = Len(from) + Len(q) - Len(from)
      /\ \A i \in 1 .. Len(from) : u[i] = from[i]
      /\ \A i \in 1 .. Len(from) : q[i] = from[i]
      /\ \A i \in Len(from) + 1 .. Len(q) : u[i - Len(from) + Len(from)] = q[i]
    BY RebaseAt
<1> HIDE DEF u
<1>3. Len(u) = Len(q)
    BY <1>1, <1>2
<1>4. ASSUME NEW i \in 1 .. Len(q) PROVE u[i] = q[i]
    <2>1. CASE i <= Len(from)
        BY <1>1, <1>2, <2>1
    <2>2. CASE i > Len(from)
        <3>1. i \in Len(from) + 1 .. Len(q) /\ i - Len(from) + Len(from) = i
            BY <1>1, <2>2
        <3> QED
            BY <1>2, <3>1
    <2> QED
        BY <1>1, <2>1, <2>2
<1>5. u = q
    BY <1>1, <1>2, <1>3, <1>4, SeqEqual
<1> QED
    BY <1>5 DEF u

\* A move keeps apart what was apart, and a directory above what was in it.
LEMMA RebaseReflects ==
    ASSUME NEW from \in Path, NEW to \in Path, NEW c \in Below(from), NEW d \in Below(from),
           Rebase(d, from, to) \in Path, Rebase(c, from, to) \in Above(Rebase(d, from, to))
    PROVE  c \in Above(d)
<1> DEFINE x == Rebase(c, from, to)
           y == Rebase(d, from, to)
<1>1. /\ c \in Path /\ d \in Path
      /\ Len(from) \in Nat /\ Len(to) \in Nat /\ Len(c) \in Nat /\ Len(d) \in Nat
      /\ Len(from) < Len(c) /\ Len(from) < Len(d)
    BY PathSeq, OnTheWay DEF Below
<1>2. /\ Len(x) = Len(to) + Len(c) - Len(from)
      /\ \A i \in 1 .. Len(from) : c[i] = from[i]
      /\ \A i \in Len(from) + 1 .. Len(c) : x[i - Len(from) + Len(to)] = c[i]
    BY RebaseAt
<1>3. /\ Len(y) = Len(to) + Len(d) - Len(from)
      /\ \A i \in 1 .. Len(from) : d[i] = from[i]
      /\ \A i \in Len(from) + 1 .. Len(d) : y[i - Len(from) + Len(to)] = d[i]
    BY RebaseAt
<1>4. Len(x) < Len(y) /\ \A i \in 1 .. Len(x) : x[i] = y[i]
    <2>1. x \in Path /\ y \in Path /\ x \in Above(y)
        BY OnTheWay
    <2> HIDE DEF x, y
    <2> QED
        BY <2>1, AboveIs
<1> HIDE DEF x, y
<1>5. Len(c) < Len(d)
    BY <1>1, <1>2, <1>3, <1>4
<1>6. ASSUME NEW i \in 1 .. Len(c) PROVE c[i] = d[i]
    <2>1. CASE i <= Len(from)
        BY <1>1, <1>2, <1>3, <2>1
    <2>2. CASE i > Len(from)
        <3>1. /\ i \in Len(from) + 1 .. Len(c) /\ i \in Len(from) + 1 .. Len(d)
              /\ i - Len(from) + Len(to) \in 1 .. Len(x)
            BY <1>1, <1>2, <1>5, <2>2
        <3> QED
            BY <1>2, <1>3, <1>4, <3>1
    <2> QED
        BY <1>1, <2>1, <2>2
<1> QED
    BY <1>1, <1>5, <1>6, AboveIs

\* What lies between the target of a move and a node that went there came from
\* above that node.
LEMMA RebaseBetween ==
    ASSUME NEW from \in Path, NEW to \in Path, NEW d \in Below(from), NEW r \in Below(to),
           Rebase(d, from, to) \in Path, r \in Above(Rebase(d, from, to))
    PROVE  \E s \in Above(d) : s \in Below(from) /\ Rebase(s, from, to) = r
<1> DEFINE y == Rebase(d, from, to)
           n == Len(r) - Len(to) + Len(from)
           s == SubSeq(d, 1, n)
           x == Rebase(s, from, to)
<1>1. /\ r \in Path /\ d \in Path /\ r \in Seq(STRING)
      /\ Len(from) \in Nat /\ Len(to) \in Nat /\ Len(r) \in Nat /\ Len(d) \in Nat
      /\ Len(to) < Len(r) /\ Len(from) < Len(d) /\ from \in Above(d) /\ to \in Above(r)
    BY PathSeq, OnTheWay DEF Below
<1>2. /\ Len(y) = Len(to) + Len(d) - Len(from)
      /\ \A i \in Len(from) + 1 .. Len(d) : y[i - Len(from) + Len(to)] = d[i]
    BY RebaseAt
<1>3. Len(r) < Len(y) /\ \A i \in 1 .. Len(r) : r[i] = y[i]
    <2> HIDE DEF y
    <2> QED
        BY <1>1, AboveIs DEF y
<1>4. \A i \in 1 .. Len(to) : to[i] = r[i]
    BY <1>1, AboveIs
<1> HIDE DEF y
<1>5. n \in 1 .. Len(d) /\ n < Len(d) /\ Len(from) < n
    BY <1>1, <1>2, <1>3
<1>6. s \in Above(d) /\ s \in Path /\ Len(s) = n /\ from \in Above(s)
    <2> HIDE DEF n
    <2>1. s \in {d} \cup Above(d) /\ s \in Path /\ Len(s) = n /\ from \in Above(s)
        BY <1>1, <1>5, PrefixOnTheWay
    <2> QED
        BY <1>1, <1>5, <2>1
<1> HIDE DEF s
<1>7. s \in Below(from)
    BY <1>6 DEF Below
<1>8. /\ x \in Seq(STRING) /\ Len(x) = Len(to) + Len(s) - Len(from)
      /\ \A i \in 1 .. Len(to) : x[i] = to[i]
      /\ \A i \in Len(from) + 1 .. Len(s) : x[i - Len(from) + Len(to)] = s[i]
    BY <1>7, RebaseAt
<1>9. \A i \in 1 .. Len(s) : s[i] = d[i]
    BY <1>1, <1>6, AboveIs
<1> HIDE DEF x
<1>10. Len(x) = Len(r)
    BY <1>1, <1>6, <1>8
<1>11. ASSUME NEW i \in 1 .. Len(r) PROVE x[i] = r[i]
    <2>1. CASE i <= Len(to)
        BY <1>1, <1>4, <1>8, <2>1
    <2>2. CASE i > Len(to)
        <3> DEFINE j == i - Len(to) + Len(from)
        <3>1. /\ j \in Len(from) + 1 .. Len(s) /\ j \in Len(from) + 1 .. Len(d) /\ j \in 1 .. Len(s)
              /\ j - Len(from) + Len(to) = i
            BY <1>1, <1>5, <1>6, <2>2
        <3> HIDE DEF j
        <3>2. x[i] = s[j] /\ s[j] = d[j] /\ y[i] = d[j] /\ r[i] = y[i]
            BY <1>2, <1>3, <1>8, <1>9, <3>1
        <3> QED
            BY <3>2
    <2> QED
        BY <1>1, <2>1, <2>2
<1>12. x = r
    BY <1>1, <1>8, <1>10, <1>11, SeqEqual
<1> QED
    BY <1>6, <1>7, <1>12 DEF x

----------------------------------------------------------------------------
(* Trees in which every node is reached by listing directories.            *)

Listed(t) == \A q \in Path : t[q] # None => \A r \in Above(q) : t[r] = Folder

LEMMA PutListed ==
    ASSUME NEW t \in Tree, NEW p \in Path, NEW x \in Node
    PROVE  /\ Put(t, p, x) \in Tree
           /\ Put(t, p, x)[p] = x
           /\ \A q \in Path \ {p} : Put(t, p, x)[q] = IF q \in Above(p) /\ t[q] = None THEN Folder ELSE t[q]
           /\ Listed(t) /\ (\A q \in Above(p) : t[q] \notin Content) /\ (t[p] = Folder => x = Folder)
                => Listed(Put(t, p, x))
<1> DEFINE u == Put(t, p, x)
<1>1. u \in Tree
    BY DEF Put, Tree, Node
<1>2. u[p] = x /\ \A q \in Path \ {p} : u[q] = IF q \in Above(p) /\ t[q] = None THEN Folder ELSE t[q]
    BY DEF Put
<1> HIDE DEF u
<1>3. ASSUME Listed(t), \A q \in Above(p) : t[q] \notin Content, t[p] = Folder => x = Folder,
             NEW q \in Path, u[q] # None, NEW r \in Above(q)
      PROVE  u[r] = Folder
    <2>1. r \in Path /\ r # q
        BY OnTheWay
    <2>2. CASE r = p
        <3>1. q \notin Above(p)
            <4>1. q \in Above(p) => q \in Above(q)
                BY <2>2, AboveTransitive
            <4> QED
                BY <4>1, OnTheWay
        <3> QED
            BY <1>2, <1>3, <2>1, <2>2, <3>1 DEF Listed
    <2>3. CASE r # p /\ r \in Above(p)
        <3>1. t[r] \in Node /\ t[r] \notin Content
            BY <1>3, <2>1, <2>3 DEF Tree
        <3> QED
            BY <1>2, <2>1, <2>3, <3>1 DEF Node
    <2>4. CASE r # p /\ r \notin Above(p)
        <3>1. q # p /\ q \notin Above(p)
            BY <2>4, AboveTransitive
        <3> QED
            BY <1>2, <1>3, <2>1, <2>4, <3>1 DEF Listed
    <2> QED
        BY <2>2, <2>3, <2>4
<1> QED
    BY <1>1, <1>2, <1>3 DEF Listed, u

\* The node alone is set: every directory on the way is there.
LEMMA SetListed ==
    ASSUME NEW t \in Tree, NEW p \in Path, NEW x \in Node, Listed(t),
           \A q \in Above(p) : t[q] = Folder, t[p] = Folder => x = Folder
    PROVE  Listed([t EXCEPT ![p] = x])
<1>1. [t EXCEPT ![p] = x] = [q \in Path |-> IF q = p THEN x ELSE t[q]]
    BY DEF Tree
<1>2. Put(t, p, x) = [q \in Path |-> IF q = p THEN x ELSE t[q]]
    BY NodeAssumption DEF Put
<1>3. \A q \in Above(p) : t[q] \notin Content
    BY NodeAssumption
<1> QED
    BY <1>1, <1>2, <1>3, PutListed

\* A file is replaced where it is.
LEMMA ChangeListed ==
    ASSUME NEW t \in Tree, NEW p \in Path, NEW x \in Content, Listed(t), t[p] \in Content
    PROVE  Listed([t EXCEPT ![p] = x])
<1> DEFINE u == [t EXCEPT ![p] = x]
<1>1. u[p] = x /\ \A q \in Path \ {p} : u[q] = t[q]
    BY DEF Tree
<1> HIDE DEF u
<1>2. ASSUME NEW q \in Path, u[q] # None, NEW r \in Above(q) PROVE u[r] = Folder
    <2>1. t[q] # None /\ r \in Path
        BY <1>1, <1>2, NodeAssumption, OnTheWay
    <2>2. t[r] = Folder
        BY <2>1 DEF Listed
    <2> QED
        BY <1>1, <2>1, <2>2, NodeAssumption
<1> QED
    BY <1>2 DEF Listed, u

\* Some nodes are taken out, with everything below the directories among them.
LEMMA WithoutListed ==
    ASSUME NEW t \in Tree, NEW gone \in SUBSET Path, Listed(t),
           \A r \in gone, q \in Path : t[r] = Folder /\ r \in Above(q) /\ t[q] # None => q \in gone
    PROVE  Listed([q \in Path |-> IF q \in gone THEN None ELSE t[q]])
<1> DEFINE u == [q \in Path |-> IF q \in gone THEN None ELSE t[q]]
<1>1. \A q \in Path : u[q] = IF q \in gone THEN None ELSE t[q]
    OBVIOUS
<1> HIDE DEF u
<1>2. ASSUME NEW q \in Path, u[q] # None, NEW r \in Above(q) PROVE u[r] = Folder
    <2>1. q \notin gone /\ t[q] # None /\ r \in Path
        BY <1>1, <1>2, OnTheWay
    <2>2. t[r] = Folder
        BY <2>1 DEF Listed
    <2>3. r \notin gone
        BY <2>1, <2>2
    <2> QED
        BY <1>1, <2>1, <2>2, <2>3
<1> QED
    BY <1>2 DEF Listed, u

LEMMA RemovedListed ==
    ASSUME NEW t \in Tree, NEW p \in Path, NEW recursive \in BOOLEAN
    PROVE  /\ Removed(t, p, recursive) \in Tree
           /\ Listed(t) /\ (t[p] = Folder => recursive) => Listed(Removed(t, p, recursive))
<1>1. CASE t[p] = None
    BY <1>1 DEF Removed
<1>2. CASE t[p] # None /\ recursive
    <2> DEFINE gone == {p} \cup Below(p)
    <2>1. Removed(t, p, recursive) = [q \in Path |-> IF q \in gone THEN None ELSE t[q]]
        BY <1>2 DEF Removed, Prune
    <2>2. gone \in SUBSET Path
        BY DEF Below
    <2>3. \A r \in gone, q \in Path : r \in Above(q) => q \in gone
        BY BelowTransitive
    <2> HIDE DEF gone
    <2>4. [q \in Path |-> IF q \in gone THEN None ELSE t[q]] \in Tree
        BY DEF Tree, Node
    <2> QED
        BY <2>1, <2>2, <2>3, <2>4, WithoutListed
<1>3. CASE t[p] # None /\ ~ recursive
    <2>1. Removed(t, p, recursive) = [q \in Path |-> IF q \in {p} THEN None ELSE t[q]]
        BY <1>3 DEF Removed, Take, Tree
    <2>2. [q \in Path |-> IF q \in {p} THEN None ELSE t[q]] \in Tree
        BY DEF Tree, Node
    <2>3. ASSUME Listed(t), t[p] # Folder
          PROVE  Listed([q \in Path |-> IF q \in {p} THEN None ELSE t[q]])
        BY <2>3, WithoutListed
    <2> QED
        BY <1>3, <2>1, <2>2, <2>3
<1> QED
    BY <1>1, <1>2, <1>3

\* A move, seen place by place.
Movers(t, from) == {q \in Below(from) : t[from] = Folder /\ t[q] # None}

LEMMA MovedAt ==
    ASSUME NEW t \in Tree, NEW from \in Path, NEW to \in Path, NEW q \in Path
    PROVE  LET moved == Movers(t, from)
               u == Put(t, to, t[from])
               v == Moved(t, from, to)
           IN  /\ v \in Tree
               /\ q = from \/ q \in moved => v[q] = None
               /\ q # from /\ q \notin moved =>
                    \/ \E c \in moved : Rebase(c, from, to) = q /\ v[q] = t[c]
                    \/ v[q] = u[q] /\ \A c \in moved : Rebase(c, from, to) # q
<1> DEFINE moved == Movers(t, from)
           u == Put(t, to, t[from])
           v == Moved(t, from, to)
           came(r) == \E c \in moved : Rebase(c, from, to) = r
           source(r) == CHOOSE c \in moved : Rebase(c, from, to) = r
<1>1. v = [r \in Path |-> IF r = from \/ r \in moved THEN None
                          ELSE IF came(r) THEN t[source(r)] ELSE u[r]]
    BY DEF Moved, Movers
<1>2. ASSUME NEW r \in Path, came(r)
      PROVE  source(r) \in moved /\ Rebase(source(r), from, to) = r
    <2>1. PICK c \in moved : Rebase(c, from, to) = r
        BY <1>2
    <2> QED
        BY <2>1
<1>3. u \in Tree /\ t[from] \in Node
    BY PutListed DEF Tree
<1>4. \A c \in moved : t[c] \in Node
    BY DEF Movers, Below, Tree
<1> HIDE DEF moved, u, source
<1>5. v \in Tree
    <2>1. \A r \in Path : (IF r = from \/ r \in moved THEN None
                           ELSE IF came(r) THEN t[source(r)] ELSE u[r]) \in Node
        <3> HIDE DEF came
        <3>1. \A r \in Path : came(r) => t[source(r)] \in Node
            BY <1>2, <1>4
        <3>2. \A r \in Path : u[r] \in Node
            BY <1>3 DEF Tree
        <3> QED
            BY <3>1, <3>2 DEF Node
    <2> HIDE DEF came, v
    <2> QED
        BY <1>1, <2>1 DEF Tree
<1>6. v[q] = IF q = from \/ q \in moved THEN None ELSE IF came(q) THEN t[source(q)] ELSE u[q]
    <2> HIDE DEF came, v
    <2> QED
        BY <1>1
<1> HIDE DEF v
<1> QED
    BY <1>2, <1>5, <1>6 DEF moved, u, v

LEMMA MovedListed ==
    ASSUME NEW t \in Tree, NEW from \in Path, NEW to \in Path, Listed(t),
           t[from] # None, to \notin Below(from), Rebased(t, from, to) \subseteq Path,
           \A q \in Above(to) : t[q] \notin Content, t[to] = Folder => from = to
    PROVE  Listed(Moved(t, from, to))
<1> DEFINE moved == Movers(t, from)
           u == Put(t, to, t[from])
           v == Moved(t, from, to)
<1>1. /\ t[from] \in Node
      /\ \A c \in moved : /\ c \in Below(from) /\ c \in Path /\ t[c] # None /\ t[from] = Folder
                          /\ Rebase(c, from, to) \in Path
      /\ \A c \in Below(from) : t[c] # None => c \in moved
    <2>1. \A c \in Below(from) : t[c] # None => t[from] = Folder
        BY DEF Listed, Below
    <2> QED
        BY <2>1 DEF Movers, Rebased, Tree, Below
<1>2. /\ u \in Tree /\ u[to] = t[from] /\ Listed(u)
      /\ \A q \in Path \ {to} : u[q] = IF q \in Above(to) /\ t[q] = None THEN Folder ELSE t[q]
    <2>1. t[to] = Folder => t[from] = Folder
        OBVIOUS
    <2> QED
        BY <1>1, <2>1, PutListed
<1>3. \A q \in Path : q = from \/ q \in moved => v[q] = None
    BY MovedAt
<1>4. \A q \in Path : q # from /\ q \notin moved =>
                    \/ \E c \in moved : Rebase(c, from, to) = q /\ v[q] = t[c]
                    \/ v[q] = u[q] /\ \A c \in moved : Rebase(c, from, to) # q
    BY MovedAt
<1> HIDE DEF moved, u, v
<1>5. \A c \in moved : Rebase(c, from, to) \in Below(to)
    BY <1>1, RebaseIsBelow
\* The places below the old and the new one.
<1>6. \A q \in Below(from) : q \in Path /\ q # to /\ q \notin Above(to)
    BY AboveTransitive DEF Below
<1>7. \A q \in Below(to) : q \in Path /\ q # to /\ q \notin Above(to)
    <2> SUFFICES ASSUME NEW q \in Below(to), q \in Above(to) PROVE FALSE
        BY OnTheWay DEF Below
    <2>1. q \in Path /\ to \in Above(q)
        BY DEF Below
    <2>2. q \in Above(q)
        BY <2>1, AboveTransitive
    <2> QED
        BY <2>1, <2>2, OnTheWay
\* A node that is not taken away, nor put there by the move, is not below the old place.
<1>8. ASSUME NEW q \in Below(from), q \notin moved, v[q] # None
      PROVE  \E c \in moved : Rebase(c, from, to) = q /\ v[q] = t[c]
    <2>1. q \in Path /\ q # from
        BY OnTheWay DEF Below
    <2>2. u[q] = t[q]
        BY <1>2, <1>6, <2>1
    <2>3. t[q] = None
        BY <1>1, <1>8
    <2> QED
        BY <1>4, <1>8, <2>1, <2>2, <2>3
<1>9. ASSUME NEW q \in Path, v[q] # None, NEW r \in Above(q) PROVE v[r] = Folder
    <2>0. r \in Path /\ q # from /\ q \notin moved
        BY <1>3, <1>9, OnTheWay
    <2>1. ASSUME r = from \/ r \in moved PROVE FALSE
        <3>1. q \in Below(from)
            BY <1>1, <2>1, BelowTransitive DEF Below
        <3>2. PICK c \in moved : Rebase(c, from, to) = q
            BY <1>8, <1>9, <2>0, <3>1
        <3>3. to \in Above(q) /\ from \in Above(q)
            BY <1>5, <3>1, <3>2 DEF Below
        <3>4. to = from \/ to \in Above(from)
            BY <3>3, OneAboveTheOther DEF Below
        <3>5. CASE to = from
            BY <1>1, <2>0, <3>2, <3>5, RebaseSame
        <3>6. CASE to \in Above(from)
            <4>1. t[to] = Folder /\ to # from
                BY <3>6, OnTheWay DEF Listed
            <4> QED
                BY <4>1
        <3> QED
            BY <3>4, <3>5, <3>6
    <2>2. ASSUME NEW c \in moved, Rebase(c, from, to) = r, v[r] = t[c] PROVE v[r] = Folder
        <3>1. r \in Below(to) /\ q \in Below(to)
            BY <1>5, <2>2, BelowTransitive
        <3>2. PICK d \in moved : Rebase(d, from, to) = q
            <4>1. CASE u[q] = v[q]
                <5>1. t[q] # None
                    BY <1>2, <1>7, <1>9, <3>1, <4>1
                <5>2. t[to] = Folder
                    BY <3>1, <5>1 DEF Listed, Below
                <5>3. q \in Below(from) /\ t[q] # None
                    BY <3>1, <5>1, <5>2
                <5> QED
                    BY <1>1, <2>0, <5>3
            <4> QED
                BY <1>4, <2>0, <4>1
        <3>3. c \in Above(d)
            BY <1>1, <2>2, <3>2, RebaseReflects
        <3>4. t[c] = Folder
            BY <1>1, <3>3 DEF Listed
        <3> QED
            BY <2>2, <3>4
    <2>3. ASSUME v[r] = u[r], \A c \in moved : Rebase(c, from, to) # r PROVE v[r] = Folder
        <3>1. CASE v[q] = u[q]
            BY <1>2, <1>9, <2>3, <3>1 DEF Listed
        <3>2. ASSUME NEW d \in moved, Rebase(d, from, to) = q PROVE v[r] = Folder
            <4>1. to \in Above(q)
                BY <1>5, <3>2 DEF Below
            <4>2. CASE r = to
                BY <1>1, <1>2, <2>3, <3>2, <4>2
            <4>3. CASE r \in Above(to)
                <5>1. t[r] \in Node /\ t[r] \notin Content /\ r # to
                    BY <2>0, <4>3, OnTheWay DEF Tree
                <5> QED
                    BY <1>2, <2>0, <2>3, <4>3, <5>1 DEF Node
            <4>4. CASE to \in Above(r)
                <5>1. r \in Below(to)
                    BY <2>0, <4>4 DEF Below
                <5>2. PICK s \in Above(d) : s \in Below(from) /\ Rebase(s, from, to) = r
                    BY <1>1, <1>9, <3>2, <5>1, RebaseBetween
                <5>3. t[s] = Folder
                    BY <1>1, <3>2 DEF Listed
                <5>4. s \in moved
                    BY <1>1, <5>2, <5>3, NodeAssumption
                <5> QED
                    BY <2>3, <5>2, <5>4
            <4> QED
                BY <4>1, <4>2, <4>3, <4>4, OneAboveTheOther
        <3> QED
            BY <1>4, <2>0, <3>1, <3>2
    <2> QED
        BY <1>4, <2>0, <2>1, <2>2, <2>3
<1> QED
    BY <1>9 DEF Listed, v

----------------------------------------------------------------------------

----------------------------------------------------------------------------
(* The secret store.                                                       *)

Vault == [Name -> StoredSecret \cup {None}]
Snapshot == [secrets : Vault, hmac : Vault \X Master]

\* Everything in a vault was encrypted under the one key.
Under(data, key) == \A n \in Name : data[n] # None => data[n].under = key

\* What is in the store can be read with the current key; a snapshot is what
\* its checksum was made of, or has lost some of it.
VaultIInv ==
  /\ secrets \in Vault
  /\ currentKey \in Master
  /\ snapshots \subseteq Snapshot
  /\ lastRead \in Text \cup {None}
  /\ now \in 0 .. MaxTime
  /\ Under(secrets, currentKey)
  /\ \A s \in snapshots : Under(s.hmac[1], s.hmac[2])
  /\ \A s \in snapshots, n \in Name : s.secrets[n] \in {None, s.hmac[1][n]}

LiveAt(s, t) == s # None /\ (s.expires = Never \/ t <= s.expires)

\* What a reader finds in a vault at a time.
View(data, t) ==
  [n \in Name |-> IF LiveAt(data[n], t) THEN [value |-> data[n].text, until |-> data[n].expires]
                  ELSE None]

LEMMA DateShape ==
    ASSUME NEW s \in StoredSecret
    PROVE  /\ s.text \in Text /\ s.under \in Master
           /\ s.expires \in Nat \/ s.expires = Never
           /\ s # None
           /\ [value |-> s.text, until |-> s.expires] # None
<1>1. s.text \in Text /\ s.under \in Master /\ s.expires \in Date
    BY DEF StoredSecret
<1>2. Date \subseteq Nat \cup {Never}
    BY ClockAssumption DEF Date
<1>3. s \in [text : Text, under : Master, expires : Nat \cup {Never}]
    BY <1>2 DEF StoredSecret
<1>4. [value |-> s.text, until |-> s.expires] \in [value : Text, until : Nat \cup {Never}]
    BY <1>1, <1>2
<1> QED
    BY <1>1, <1>2, <1>3, <1>4, SecretAssumption

\* When a secret is live.
LEMMA LiveIs ==
    ASSUME NEW s \in StoredSecret \cup {None}, now \in Nat
    PROVE  IsLive(s) <=> LiveAt(s, now)
<1>1. CASE s = None
    BY <1>1 DEF IsLive, LiveAt
<1>2. CASE s \in StoredSecret
    BY <1>2, DateShape, ClockAssumption DEF IsLive, IsExpired, LiveAt
<1> QED
    BY <1>1, <1>2

LEMMA ViewTyped ==
    ASSUME NEW data \in Vault, NEW t, NEW n \in Name
    PROVE  /\ View(data, t)[n] # None <=> LiveAt(data[n], t)
           /\ LiveAt(data[n], t) => /\ data[n] \in StoredSecret
                                    /\ View(data, t)[n].value = data[n].text
                                    /\ View(data, t)[n].until = data[n].expires
<1>1. LiveAt(data[n], t) => data[n] \in StoredSecret
    BY DEF Vault, LiveAt
<1> QED
    BY <1>1, DateShape DEF View

\* A view grows old like the map.
LEMMA ViewAges ==
    ASSUME NEW data \in Vault, NEW t \in Nat, NEW u \in Nat, t <= u
    PROVE  PlainMap!Pruned(View(data, t), u) = View(data, u)
<1> DEFINE old == View(data, t)
<1>1. ASSUME NEW n \in Name
      PROVE  (IF PlainMap!Lasts(old[n], u) THEN old[n] ELSE None) = View(data, u)[n]
    <2>1. PlainMap!Lasts(old[n], u) <=> LiveAt(data[n], u)
        <3>1. CASE ~ LiveAt(data[n], t)
            <4>1. ~ LiveAt(data[n], u)
                <5> SUFFICES ASSUME LiveAt(data[n], u) PROVE FALSE
                    OBVIOUS
                <5>1. data[n] \in StoredSecret
                    BY DEF LiveAt, Vault
                <5> QED
                    BY <3>1, <5>1, DateShape DEF LiveAt
            <4> QED
                BY <3>1, <4>1, ViewTyped DEF PlainMap!Lasts
        <3>2. CASE LiveAt(data[n], t)
            BY <3>2, ViewTyped DEF PlainMap!Lasts, LiveAt
        <3> QED
            BY <3>1, <3>2
    <2>2. LiveAt(data[n], u) => LiveAt(data[n], t)
        BY <2>1, ViewTyped DEF PlainMap!Lasts
    <2> QED
        BY <2>1, <2>2 DEF View
<1> HIDE DEF old
<1>2. [n \in Name |-> IF PlainMap!Lasts(old[n], u) THEN old[n] ELSE None] = [n \in Name |-> View(data, u)[n]]
    BY <1>1
<1>3. View(data, u) = [n \in Name |-> View(data, u)[n]]
    BY DEF View
<1> QED
    BY <1>2, <1>3 DEF PlainMap!Pruned, old

LEMMA VaultHas ==
    ASSUME VaultIInv
    PROVE  /\ now \in Nat
           /\ \A n \in Name : IsLive(secrets[n]) <=> LiveAt(secrets[n], now)
           /\ \A n \in Name : LiveAt(secrets[n], now) =>
                 /\ secrets[n] \in StoredSecret /\ secrets[n].under = currentKey
           /\ Readable(secrets, currentKey) = View(secrets, now)
<1>1. now \in Nat /\ secrets \in Vault /\ Under(secrets, currentKey)
    BY ClockAssumption DEF VaultIInv
<1>2. \A n \in Name : IsLive(secrets[n]) <=> LiveAt(secrets[n], now)
    BY <1>1, LiveIs DEF Vault
<1>3. \A n \in Name : LiveAt(secrets[n], now) =>
                 /\ secrets[n] \in StoredSecret /\ secrets[n].under = currentKey
    BY <1>1 DEF Vault, Under, LiveAt
<1>4. Readable(secrets, currentKey) = View(secrets, now)
    BY <1>2, <1>3 DEF Readable, View
<1> QED
    BY <1>1, <1>2, <1>3, <1>4

LEMMA DropsAreVaults ==
    ASSUME VaultIInv, NEW n \in Name
    PROVE  /\ DeleteIfExpired(n) \in Vault /\ Under(DeleteIfExpired(n), currentKey)
           /\ View(DeleteIfExpired(n), now) = View(secrets, now)
<1>1. secrets \in Vault /\ Under(secrets, currentKey)
    BY DEF VaultIInv
<1>2. CASE DeleteIfExpired(n) = secrets
    BY <1>1, <1>2
<1>3. CASE DeleteIfExpired(n) = [secrets EXCEPT ![n] = None] /\ ~ LiveAt(secrets[n], now)
    <2>1. DeleteIfExpired(n) \in Vault /\ Under(DeleteIfExpired(n), currentKey)
        BY <1>1, <1>3 DEF Vault, Under
    <2>2. ~ LiveAt(None, now)
        BY DEF LiveAt
    <2>3. \A m \in Name : LiveAt(DeleteIfExpired(n)[m], now) <=> LiveAt(secrets[m], now)
        BY <1>1, <1>3, <2>2 DEF Vault
    <2>4. \A m \in Name : LiveAt(secrets[m], now) => DeleteIfExpired(n)[m] = secrets[m]
        BY <1>1, <1>3 DEF Vault
    <2> QED
        BY <2>1, <2>3, <2>4 DEF View
<1> QED
    BY <1>2, <1>3, VaultHas DEF DeleteIfExpired

\* The live part of a store.
Purified == [n \in Name |-> IF IsLive(secrets[n]) THEN secrets[n] ELSE None]

LEMMA PurifiedIsVault ==
    ASSUME VaultIInv
    PROVE  /\ Purified \in Vault /\ Under(Purified, currentKey)
           /\ View(Purified, now) = View(secrets, now)
<1>1. secrets \in Vault /\ Under(secrets, currentKey)
    BY DEF VaultIInv
<1>2. Purified \in Vault /\ Under(Purified, currentKey)
    BY <1>1 DEF Vault, Under, Purified
<1>3. ~ LiveAt(None, now)
    BY DEF LiveAt
<1>4. \A m \in Name : LiveAt(Purified[m], now) <=> LiveAt(secrets[m], now)
    BY <1>3, VaultHas DEF Purified
<1>5. \A m \in Name : LiveAt(secrets[m], now) => Purified[m] = secrets[m]
    BY VaultHas DEF Purified
<1> QED
    BY <1>2, <1>4, <1>5 DEF View

LEMMA VaultKept ==
    ASSUME VaultIInv, secrets' \in Vault, currentKey' \in Master, Under(secrets', currentKey'),
           snapshots' = snapshots, lastRead' \in Text \cup {None}, now' \in 0 .. MaxTime
    PROVE  VaultIInv'
    BY DEF VaultIInv

\* rotateKey(): every live text under the new key.
LEMMA RotatedIsVault ==
    ASSUME VaultIInv, NEW key \in Master, RotateKey(key)
    PROVE  /\ secrets' \in Vault /\ Under(secrets', key)
           /\ View(secrets', now) = View(secrets, now)
<1> DEFINE moved(n) == [secrets[n] EXCEPT !.text = DecryptValue(secrets[n], currentKey), !.under = key]
<1>1. secrets' = [n \in Name |-> IF IsLive(secrets[n]) THEN moved(n) ELSE None]
    BY DEF RotateKey
<1>2. ASSUME NEW n \in Name, LiveAt(secrets[n], now)
      PROVE  /\ moved(n) \in StoredSecret /\ moved(n).under = key
             /\ moved(n).text = secrets[n].text /\ moved(n).expires = secrets[n].expires
             /\ LiveAt(moved(n), now)
    <2>1. secrets[n] \in StoredSecret /\ DecryptValue(secrets[n], currentKey) = secrets[n].text
        BY <1>2, VaultHas DEF DecryptValue
    <2>2. /\ moved(n) \in StoredSecret /\ moved(n).under = key
          /\ moved(n).text = secrets[n].text /\ moved(n).expires = secrets[n].expires
        BY <2>1 DEF StoredSecret
    <2> HIDE DEF moved
    <2> QED
        BY <1>2, <2>2, DateShape DEF LiveAt
<1> HIDE DEF moved
<1>3. \A n \in Name : secrets'[n] = IF LiveAt(secrets[n], now) THEN moved(n) ELSE None
    BY <1>1, VaultHas
<1>4. secrets' \in Vault /\ Under(secrets', key)
    BY <1>1, <1>2, <1>3 DEF Vault, Under
<1>5. ~ LiveAt(None, now)
    BY DEF LiveAt
<1> QED
    BY <1>2, <1>3, <1>4, <1>5 DEF View

\* With a malformed key nothing that is live goes.
LEMMA MalformedIsVault ==
    ASSUME VaultIInv, NEW key \in Master, RotateToMalformed(key)
    PROVE  /\ secrets' \in Vault /\ Under(secrets', currentKey') /\ currentKey' \in Master
           /\ View(secrets', now) = View(secrets, now)
<1> DEFINE live == {n \in Name : IsLive(secrets[n])}
<1>1. PICK dropped \in SUBSET {n \in Name : ~ IsLive(secrets[n])} :
          /\ live = {} => dropped = Name
          /\ secrets' = [n \in Name |-> IF n \in dropped THEN None ELSE secrets[n]]
          /\ currentKey' = IF live = {} THEN key ELSE currentKey
    BY DEF RotateToMalformed
<1>2. secrets \in Vault /\ Under(secrets, currentKey) /\ currentKey \in Master
    BY DEF VaultIInv
<1>3. secrets' \in Vault /\ Under(secrets', currentKey)
    BY <1>1, <1>2 DEF Vault, Under
<1>4. live = {} => \A n \in Name : secrets'[n] = None
    BY <1>1
<1>5. Under(secrets', currentKey') /\ currentKey' \in Master
    BY <1>1, <1>2, <1>3, <1>4 DEF Under
<1>6. ~ LiveAt(None, now)
    BY DEF LiveAt
<1>7. \A n \in Name : LiveAt(secrets[n], now) => n \notin dropped
    BY VaultHas
<1>8. \A m \in Name : LiveAt(secrets'[m], now) <=> LiveAt(secrets[m], now)
    BY <1>1, <1>6, <1>7
<1>9. \A m \in Name : LiveAt(secrets[m], now) => secrets'[m] = secrets[m]
    BY <1>1, <1>7
<1> QED
    BY <1>3, <1>5, <1>8, <1>9 DEF View

LEMMA InitVault == SecretInit => VaultIInv
<1> SUFFICES ASSUME SecretInit PROVE VaultIInv
    OBVIOUS
<1>1. NoSecrets \in Vault /\ \A n \in Name : NoSecrets[n] = None
    BY DEF NoSecrets, Vault
<1>2. 0 \in 0 .. MaxTime
    BY ClockAssumption
<1> QED
    BY <1>1, <1>2 DEF SecretInit, VaultIInv, Under

LEMMA NextVault == VaultIInv /\ [SecretNext]_secretVars => VaultIInv'
<1> SUFFICES ASSUME VaultIInv, [SecretNext]_secretVars PROVE VaultIInv'
    OBVIOUS
<1>0. /\ secrets \in Vault /\ currentKey \in Master /\ Under(secrets, currentKey)
      /\ snapshots \subseteq Snapshot /\ lastRead \in Text \cup {None} /\ now \in 0 .. MaxTime
    BY DEF VaultIInv
<1>1. CASE UNCHANGED secretVars
    BY <1>0, <1>1, VaultKept DEF secretVars, inVaultVars
<1>2. ASSUME NEW n \in Name, SecretSet(n) PROVE VaultIInv'
    <2>1. PICK t \in Text, d \in Date :
              secrets' = [secrets EXCEPT ![n] = [text |-> t, under |-> currentKey, expires |-> d]]
        BY <1>2 DEF SecretSet
    <2>2. secrets' \in Vault /\ Under(secrets', currentKey)
        BY <1>0, <2>1 DEF Vault, StoredSecret, Under
    <2> QED
        BY <1>0, <1>2, <2>2, VaultKept DEF SecretSet
<1>3. ASSUME NEW n \in Name, SecretGet(n) PROVE VaultIInv'
    <2>1. lastRead' \in Text \cup {None}
        <3>1. CASE LiveAt(secrets[n], now)
            BY <1>3, <3>1, VaultHas, DateShape DEF SecretGet, DecryptValue
        <3>2. CASE ~ LiveAt(secrets[n], now)
            BY <1>3, <3>2, VaultHas DEF SecretGet
        <3> QED
            BY <3>1, <3>2
    <2> QED
        BY <1>0, <1>3, <2>1, DropsAreVaults, VaultKept DEF SecretGet
<1>4. ASSUME NEW n \in Name, SecretHas(n) PROVE VaultIInv'
    BY <1>0, <1>4, DropsAreVaults, VaultKept DEF SecretHas
<1>5. ASSUME NEW n \in Name, SecretDelete(n) PROVE VaultIInv'
    <2>1. secrets' \in Vault /\ Under(secrets', currentKey)
        BY <1>0, <1>5 DEF SecretDelete, Vault, Under
    <2> QED
        BY <1>0, <1>5, <2>1, VaultKept DEF SecretDelete
<1>6. ASSUME NEW key \in Master, RotateKey(key) PROVE VaultIInv'
    BY <1>0, <1>6, RotatedIsVault, VaultKept DEF RotateKey
<1>7. ASSUME NEW key \in Master, RotateToMalformed(key) PROVE VaultIInv'
    BY <1>0, <1>7, MalformedIsVault, VaultKept DEF RotateToMalformed
<1>8. CASE SecretCount
    BY <1>0, <1>8, PurifiedIsVault, VaultKept DEF SecretCount, Purified
<1>9. CASE TakeSnapshot
    <2> DEFINE new == [secrets |-> Purified, hmac |-> <<Purified, currentKey>>]
    <2>1. snapshots' = snapshots \cup {new} /\ UNCHANGED <<secrets, currentKey, lastRead, now>>
        BY <1>9 DEF TakeSnapshot, Purified, ComputeHmac
    <2>2. new \in Snapshot
        BY <1>0, PurifiedIsVault DEF Snapshot
    <2>3. Under(new.hmac[1], new.hmac[2]) /\ \A n \in Name : new.secrets[n] = new.hmac[1][n]
        BY PurifiedIsVault
    <2> HIDE DEF new
    <2> QED
        BY <1>0, <2>1, <2>2, <2>3 DEF VaultIInv
<1>10. CASE Damage
    <2>1. PICK s \in snapshots, n \in Name :
              /\ s.secrets[n] # None
              /\ snapshots' = (snapshots \ {s}) \cup {[s EXCEPT !.secrets[n] = None]}
              /\ UNCHANGED <<secrets, currentKey, lastRead, now>>
        BY <1>10 DEF Damage
    <2> DEFINE t == [s EXCEPT !.secrets[n] = None]
    <2>2. s \in Snapshot /\ Under(s.hmac[1], s.hmac[2])
          /\ \A m \in Name : s.secrets[m] \in {None, s.hmac[1][m]}
        BY DEF VaultIInv
    <2>3. t \in Snapshot /\ t.hmac = s.hmac
          /\ \A m \in Name : t.secrets[m] = IF m = n THEN None ELSE s.secrets[m]
        BY <2>2 DEF Snapshot, Vault
    <2>4. snapshots' \subseteq snapshots \cup {t}
        BY <2>1
    <2> HIDE DEF t
    <2> QED
        BY <1>0, <2>1, <2>2, <2>3, <2>4 DEF VaultIInv
<1>11. CASE SecretRestore
    <2>1. PICK s \in snapshots : /\ Intact(s, currentKey) /\ secrets' = s.secrets
                                 /\ UNCHANGED <<currentKey, snapshots, lastRead, now>>
        BY <1>11 DEF SecretRestore
    <2>2. s \in Snapshot /\ Under(s.hmac[1], s.hmac[2])
        BY DEF VaultIInv
    <2>3. s.hmac = <<s.secrets, currentKey>> /\ s.secrets \in Vault
        BY <2>1, <2>2 DEF Intact, ComputeHmac, Snapshot
    <2>4. s.hmac[1] = s.secrets /\ s.hmac[2] = currentKey
        BY <2>3
    <2> QED
        BY <1>0, <2>1, <2>2, <2>3, <2>4, VaultKept
<1>12. CASE SecretTick
    <2>1. now' \in 0 .. MaxTime
        BY <1>0, <1>12, ClockAssumption DEF SecretTick, Tick
    <2> QED
        BY <1>0, <1>12, <2>1, VaultKept DEF SecretTick, inVaultVars
<1> QED
    BY <1>1, <1>2, <1>3, <1>4, <1>5, <1>6, <1>7, <1>8, <1>9, <1>10, <1>11, <1>12 DEF SecretNext

THEOREM VaultInvariant == SecretSpec => []VaultIInv
    BY InitVault, NextVault, PTL DEF SecretSpec

\* The snapshots that can be restored, as the map knows them.
Restorable == {Kept(s) : s \in {t \in snapshots : Intact(t, t.hmac[2])}}

\* A step of the map, with what the store shows of itself.
LEMMA MapStep ==
    ASSUME VaultIInv, VaultIInv'
    PROVE  /\ Readable(secrets, currentKey) = View(secrets, now)
           /\ Readable(secrets, currentKey)' = View(secrets', now')
<1>1. Readable(secrets, currentKey) = View(secrets, now)
    BY VaultHas
<1>2. now' \in Nat /\ secrets' \in Vault /\ Under(secrets', currentKey')
    BY ClockAssumption DEF VaultIInv
<1>3. ASSUME NEW n \in Name
      PROVE  (IsLive(secrets[n])' /\ secrets'[n].under = currentKey') <=> LiveAt(secrets'[n], now')
    <2>1. CASE secrets'[n] = None
        BY <2>1 DEF IsLive, LiveAt
    <2>2. CASE secrets'[n] \in StoredSecret
        BY <1>2, <2>2, DateShape, ClockAssumption DEF IsLive, IsExpired, LiveAt, Under
    <2> QED
        BY <1>2, <2>1, <2>2 DEF Vault
<1>4. Readable(secrets, currentKey)' = View(secrets', now')
    BY <1>3 DEF Readable, View
<1> QED
    BY <1>1, <1>4

LEMMA SecretStep == VaultIInv /\ VaultIInv' /\ [SecretNext]_secretVars => [PlainMap!Next]_(PlainMap!mapVars)
<1> DEFINE map == Readable(secrets, currentKey)
<1> SUFFICES ASSUME VaultIInv, VaultIInv', [SecretNext]_secretVars
             PROVE  \/ PlainMap!Next
                    \/ map' = map /\ Restorable' = Restorable /\ lastRead' = lastRead /\ now' = now
    BY DEF PlainMap!mapVars, Restorable
<1>0. /\ secrets \in Vault /\ currentKey \in Master /\ Under(secrets, currentKey) /\ now \in Nat
      /\ map = View(secrets, now) /\ map' = View(secrets', now')
      /\ secrets' \in Vault
    BY MapStep, VaultHas DEF VaultIInv
<1> HIDE DEF map
<1>s. snapshots' = snapshots => Restorable' = Restorable
    BY DEF Restorable
<1>1. CASE UNCHANGED secretVars
    BY <1>0, <1>1, <1>s DEF secretVars, inVaultVars
<1>2. ASSUME NEW n \in Name, SecretSet(n) PROVE PlainMap!Put(n)
    <2>1. PICK t \in Text, d \in Date :
              secrets' = [secrets EXCEPT ![n] = [text |-> t, under |-> currentKey, expires |-> d]]
        BY <1>2 DEF SecretSet
    <2> DEFINE wide == [map EXCEPT ![n] = [value |-> t, until |-> d]]
    <2>2. now' = now /\ snapshots' = snapshots /\ lastRead' = lastRead
        BY <1>2 DEF SecretSet
    <2>3. map' = PlainMap!Pruned(wide, now)
        <3>1. secrets'[n] = [text |-> t, under |-> currentKey, expires |-> d]
              /\ \A m \in Name : m # n => secrets'[m] = secrets[m]
            BY <1>0, <2>1 DEF Vault
        <3>2. secrets'[n] \in StoredSecret
            BY <1>0, <3>1 DEF StoredSecret
        <3>3. wide[n] = [value |-> t, until |-> d] /\ \A m \in Name : m # n => wide[m] = View(secrets, now)[m]
            BY <1>0 DEF View
        <3>4. (IF PlainMap!Lasts(wide[n], now) THEN wide[n] ELSE None) = View(secrets', now)[n]
            BY <3>1, <3>2, <3>3, DateShape DEF PlainMap!Lasts, View, LiveAt
        <3>5. ASSUME NEW m \in Name, m # n
              PROVE  (IF PlainMap!Lasts(wide[m], now) THEN wide[m] ELSE None) = View(secrets', now)[m]
            <4>1. View(secrets', now)[m] = View(secrets, now)[m]
                BY <3>1, <3>5 DEF View
            <4>2. wide[m] = View(secrets, now)[m]
                BY <3>3, <3>5
            <4> QED
                BY <1>0, <4>1, <4>2, ViewTyped DEF PlainMap!Lasts, LiveAt
        <3> HIDE DEF wide
        <3>6. [m \in Name |-> IF PlainMap!Lasts(wide[m], now) THEN wide[m] ELSE None]
                  = [m \in Name |-> View(secrets', now)[m]]
            BY <3>4, <3>5
        <3>7. View(secrets', now) = [m \in Name |-> View(secrets', now)[m]]
            BY DEF View
        <3> QED
            BY <1>0, <2>2, <3>6, <3>7 DEF PlainMap!Pruned
    <2> QED
        BY <1>s, <2>2, <2>3 DEF PlainMap!Put, map, Restorable
<1>3. ASSUME NEW n \in Name, SecretGet(n) PROVE PlainMap!Read(n)
    <2>1. map' = map /\ Restorable' = Restorable /\ now' = now
        BY <1>0, <1>3, <1>s, DropsAreVaults DEF SecretGet
    <2>2. lastRead' = IF map[n] = None THEN None ELSE map[n].value
        <3>1. CASE LiveAt(secrets[n], now)
            BY <1>0, <1>3, <3>1, VaultHas, ViewTyped DEF SecretGet, DecryptValue
        <3>2. CASE ~ LiveAt(secrets[n], now)
            BY <1>0, <1>3, <3>2, VaultHas, ViewTyped DEF SecretGet
        <3> QED
            BY <3>1, <3>2
    <2> QED
        BY <2>1, <2>2 DEF PlainMap!Read, map, Restorable
<1>4. ASSUME NEW n \in Name, SecretHas(n)
      PROVE  map' = map /\ Restorable' = Restorable /\ lastRead' = lastRead /\ now' = now
    BY <1>0, <1>4, <1>s, DropsAreVaults DEF SecretHas
<1>5. ASSUME NEW n \in Name, SecretDelete(n) PROVE PlainMap!Drop(n)
    <2>1. /\ secrets' = [secrets EXCEPT ![n] = None] /\ now' = now /\ snapshots' = snapshots
          /\ lastRead' = lastRead
        BY <1>5 DEF SecretDelete
    <2>2. \A m \in Name : View(secrets', now)[m] = IF m = n THEN None ELSE View(secrets, now)[m]
        BY <1>0, <2>1 DEF View, LiveAt, Vault
    <2>3. map' = [map EXCEPT ![n] = None]
        BY <1>0, <2>1, <2>2 DEF View
    <2> QED
        BY <1>s, <2>1, <2>3 DEF PlainMap!Drop, map, Restorable
<1>6. ASSUME NEW key \in Master, RotateKey(key)
      PROVE  map' = map /\ Restorable' = Restorable /\ lastRead' = lastRead /\ now' = now
    BY <1>0, <1>6, <1>s, RotatedIsVault DEF RotateKey
<1>7. ASSUME NEW key \in Master, RotateToMalformed(key)
      PROVE  map' = map /\ Restorable' = Restorable /\ lastRead' = lastRead /\ now' = now
    BY <1>0, <1>7, <1>s, MalformedIsVault DEF RotateToMalformed
<1>8. ASSUME SecretCount
      PROVE  map' = map /\ Restorable' = Restorable /\ lastRead' = lastRead /\ now' = now
    BY <1>0, <1>8, <1>s, PurifiedIsVault DEF SecretCount, Purified
<1>9. CASE TakeSnapshot
    <2> DEFINE new == [secrets |-> Purified, hmac |-> <<Purified, currentKey>>]
    <2>1. snapshots' = snapshots \cup {new} /\ UNCHANGED <<secrets, currentKey, lastRead, now>>
        BY <1>9 DEF TakeSnapshot, Purified, ComputeHmac
    <2>2. /\ new.secrets = Purified /\ new.hmac = <<Purified, currentKey>>
          /\ new.hmac[2] = currentKey /\ Intact(new, currentKey)
        BY DEF Intact, ComputeHmac
    <2>3. Kept(new) = map
        <3>1. \A n \in Name : Purified[n] = IF LiveAt(secrets[n], now) THEN secrets[n] ELSE None
            BY VaultHas DEF Purified
        <3>2. \A n \in Name : LiveAt(secrets[n], now) => secrets[n] # None /\ secrets[n].under = currentKey
            BY VaultHas DEF LiveAt
        <3> HIDE DEF new
        <3> QED
            BY <1>0, <2>2, <3>1, <3>2 DEF Kept, View
    <2> HIDE DEF new
    <2>4. Restorable' = Restorable \cup {map}
        <3>1. Intact(new, new.hmac[2])
            BY <2>2
        <3> QED
            BY <2>1, <2>3, <3>1 DEF Restorable
    <2>5. map' = map
        BY <1>0, <2>1
    <2> QED
        BY <2>1, <2>4, <2>5 DEF PlainMap!Save, PlainMap!Next, map, Restorable
<1>10. CASE Damage
    <2>1. PICK s \in snapshots, n \in Name :
              /\ s.secrets[n] # None
              /\ snapshots' = (snapshots \ {s}) \cup {[s EXCEPT !.secrets[n] = None]}
              /\ UNCHANGED <<secrets, currentKey, lastRead, now>>
        BY <1>10 DEF Damage
    <2> DEFINE t == [s EXCEPT !.secrets[n] = None]
    <2>2. s \in Snapshot /\ s.secrets[n] = s.hmac[1][n]
        BY <2>1 DEF VaultIInv
    <2>3. t.secrets[n] = None /\ t.hmac = s.hmac
        BY <2>2 DEF Snapshot, Vault
    <2>4. snapshots' \subseteq snapshots \cup {t}
        BY <2>1
    <2> HIDE DEF t
    <2>5. ~ Intact(t, t.hmac[2])
        <3> SUFFICES ASSUME t.hmac = <<t.secrets, t.hmac[2]>> PROVE FALSE
            BY DEF Intact, ComputeHmac
        <3>1. t.hmac[1] = t.secrets
            OBVIOUS
        <3> QED
            BY <2>1, <2>2, <2>3, <3>1
    <2>6. Restorable' \in SUBSET Restorable
        BY <2>4, <2>5 DEF Restorable
    <2>7. map' = map
        BY <1>0, <2>1
    <2> QED
        BY <2>1, <2>6, <2>7 DEF PlainMap!Forget, PlainMap!Next, map, Restorable
<1>11. CASE SecretRestore
    <2>1. PICK s \in snapshots : /\ Intact(s, currentKey) /\ secrets' = s.secrets
                                 /\ UNCHANGED <<currentKey, snapshots, lastRead, now>>
        BY <1>11 DEF SecretRestore
    <2>2. s \in Snapshot /\ Under(s.hmac[1], s.hmac[2])
        BY DEF VaultIInv
    <2>3. s.hmac = <<s.secrets, currentKey>> /\ s.secrets \in Vault
        BY <2>1, <2>2 DEF Intact, ComputeHmac, Snapshot
    <2>4. s.hmac[1] = s.secrets /\ s.hmac[2] = currentKey
        BY <2>3
    <2>5. Kept(s) \in Restorable
        BY <2>1, <2>4 DEF Restorable
    <2>6. map' = PlainMap!Pruned(Kept(s), now)
        <3>1. \A n \in Name : s.secrets[n] # None => s.secrets[n].under = s.hmac[2]
            BY <2>2, <2>4 DEF Under
        <3>2. ASSUME NEW n \in Name
              PROVE  (IF PlainMap!Lasts(Kept(s)[n], now) THEN Kept(s)[n] ELSE None) = View(secrets', now)[n]
            <4>1. CASE s.secrets[n] = None
                BY <2>1, <4>1 DEF Kept, View, LiveAt, PlainMap!Lasts
            <4>2. CASE s.secrets[n] \in StoredSecret
                <5>1. Kept(s)[n] = [value |-> s.secrets[n].text, until |-> s.secrets[n].expires] /\ Kept(s)[n] # None
                    BY <3>1, <4>2, DateShape DEF Kept
                <5>2. Kept(s)[n].until = s.secrets[n].expires
                    BY <5>1
                <5>3. PlainMap!Lasts(Kept(s)[n], now) <=> LiveAt(secrets'[n], now)
                    BY <2>1, <4>2, <5>1, <5>2, DateShape DEF PlainMap!Lasts, LiveAt
                <5> QED
                    BY <2>1, <5>1, <5>3 DEF View
            <4> QED
                BY <2>3, <4>1, <4>2 DEF Vault
        <3>3. [n \in Name |-> IF PlainMap!Lasts(Kept(s)[n], now) THEN Kept(s)[n] ELSE None]
                  = [n \in Name |-> View(secrets', now)[n]]
            BY <3>2
        <3>4. View(secrets', now) = [n \in Name |-> View(secrets', now)[n]]
            BY DEF View
        <3> QED
            BY <1>0, <2>1, <3>3, <3>4 DEF PlainMap!Pruned
    <2>7. Restorable' = Restorable
        BY <1>s, <2>1
    <2> QED
        BY <2>1, <2>5, <2>6, <2>7 DEF PlainMap!Restore, PlainMap!Next, map, Restorable
<1>12. CASE SecretTick
    <2>1. now' = now + 1 /\ UNCHANGED <<secrets, currentKey, snapshots, lastRead>>
        BY <1>12 DEF SecretTick, Tick, inVaultVars
    <2>2. map' = PlainMap!Pruned(map, now')
        BY <1>0, <2>1, ViewAges
    <2> QED
        BY <1>s, <2>1, <2>2 DEF PlainMap!Pass, PlainMap!Next, map, Restorable
<1> QED
    BY <1>1, <1>2, <1>3, <1>4, <1>5, <1>6, <1>7, <1>8, <1>9, <1>10, <1>11, <1>12
       DEF SecretNext, PlainMap!Next

\* The secret store is a map with expiry to its users: rotation, purging,
\* encryption and rejected snapshots do not show (secrets/store.ts).
THEOREM SecretsImplementMap == SecretSpec => SecretStoreIsMap
<1>1. SecretInit => PlainMap!Init
    <2> SUFFICES ASSUME SecretInit PROVE PlainMap!Init
        OBVIOUS
    <2>1. secrets = [n \in Name |-> None] /\ snapshots = {} /\ lastRead = None /\ now = 0
        BY DEF SecretInit, NoSecrets
    <2>2. Readable(secrets, currentKey) = [n \in Name |-> None]
        BY <2>1 DEF Readable, IsLive
    <2> QED
        BY <2>1, <2>2 DEF PlainMap!Init
<1> QED
    BY <1>1, VaultInvariant, SecretStep, PTL DEF SecretSpec, SecretStoreIsMap, PlainMap!Spec

----------------------------------------------------------------------------
(* The state store.                                                        *)

\* What can be loaded or restored was taken as a snapshot.
StateIInv ==
  /\ entries \in Data
  /\ kept \subseteq Data
  /\ file \in [is : {"none", "torn", "whole"}, data : Data]
  /\ saving \in [Saver -> [is : {"idle", "writing", "over"}, data : Data]]
  /\ loading \subseteq kept
  /\ lastState \in Value \cup {None}
  /\ now \in 0 .. MaxTime
  /\ file.is = "whole" => file.data \in kept
  /\ \A s \in Saver : saving[s].is = "writing" => saving[s].data \in kept

PresentAt(e, t) == e # None /\ (e.ttl = 0 \/ t <= e.updatedAt + e.ttl)

Shown(e) == [value |-> e.value, until |-> EndsAt(e)]

StateView(data, t) == [k \in Key |-> IF PresentAt(data[k], t) THEN Shown(data[k]) ELSE None]

LEMMA EntryShape ==
    ASSUME NEW e \in StateEntry
    PROVE  /\ e # None /\ e.value \in Value /\ e.updatedAt \in Nat /\ e.ttl \in Nat
           /\ EndsAt(e) \in 0 .. (MaxTime + MaxTtl) \cup {Never}
           /\ Shown(e) # None /\ Shown(e).value = e.value /\ Shown(e).until = EndsAt(e)
           /\ \A t \in Nat : PlainState!Lasts(Shown(e), t) <=> PresentAt(e, t)
<1>1. /\ e.value \in Value /\ e.updatedAt \in 0 .. MaxTime /\ e.ttl \in 0 .. MaxTtl
      /\ MaxTime \in Nat /\ MaxTtl \in Nat /\ Never \notin Nat
    BY ClockAssumption, StateAssumption DEF StateEntry
<1>2. e \in [value : Value, updatedAt : Nat, ttl : Nat]
    BY <1>1 DEF StateEntry
<1>3. EndsAt(e) \in 0 .. (MaxTime + MaxTtl) \cup {Never} /\ EndsAt(e) \in Nat \cup {Never}
    BY <1>1 DEF EndsAt
<1>4. Shown(e) \in [value : Value, until : Nat \cup {Never}]
    BY <1>1, <1>3 DEF Shown
<1>5. e # None /\ Shown(e) # None
    BY <1>2, <1>4, StateAssumption
<1>6. Shown(e).value = e.value /\ Shown(e).until = EndsAt(e)
    BY DEF Shown
<1>7. \A t \in Nat : PlainState!Lasts(Shown(e), t) <=> PresentAt(e, t)
    BY <1>1, <1>5, <1>6 DEF PlainState!Lasts, PresentAt, EndsAt
<1> QED
    BY <1>1, <1>3, <1>5, <1>6, <1>7

LEMMA StateViewAt ==
    ASSUME NEW data \in Data, NEW t \in Nat, NEW k \in Key
    PROVE  /\ data[k] \in StateEntry \/ data[k] = None
           /\ PresentAt(data[k], t) => data[k] \in StateEntry /\ StateView(data, t)[k] = Shown(data[k])
           /\ ~ PresentAt(data[k], t) => StateView(data, t)[k] = None
           /\ StateView(data, t)[k] # None <=> PresentAt(data[k], t)
<1>1. data[k] \in StateEntry \/ data[k] = None
    BY DEF Data
<1>2. PresentAt(data[k], t) => data[k] \in StateEntry
    BY <1>1 DEF PresentAt
<1> QED
    BY <1>1, <1>2, EntryShape DEF StateView

\* Pruning does not show.
LEMMA PrunedShows ==
    ASSUME NEW data \in Data, now \in Nat
    PROVE  /\ Pruned(data) \in Data
           /\ StateView(Pruned(data), now) = StateView(data, now)
           /\ Plain(Pruned(data)) = StateView(data, now)
<1>1. \A e : Present(e) <=> PresentAt(e, now)
    BY DEF Present, PresentAt
<1>2. Pruned(data) \in Data
    BY DEF Pruned, Data
<1>3. ~ PresentAt(None, now)
    BY DEF PresentAt
<1>4. \A k \in Key : Pruned(data)[k] = IF PresentAt(data[k], now) THEN data[k] ELSE None
    BY <1>1 DEF Pruned
<1>5. StateView(Pruned(data), now) = StateView(data, now)
    BY <1>3, <1>4 DEF StateView
<1>6. \A k \in Key : PresentAt(data[k], now) => data[k] # None
    BY DEF PresentAt
<1>7. Plain(Pruned(data)) = StateView(data, now)
    BY <1>4, <1>6 DEF Plain, StateView, Shown
<1> QED
    BY <1>2, <1>5, <1>7

\* A view grows old like the map, and so does what was saved.
LEMMA StateAges ==
    ASSUME NEW data \in Data, NEW u \in Nat
    PROVE  /\ PlainState!Pruned(Plain(data), u) = StateView(data, u)
           /\ \A t \in Nat : t <= u => PlainState!Pruned(StateView(data, t), u) = StateView(data, u)
<1>0. \A k \in Key : data[k] \in StateEntry \/ data[k] = None
    BY DEF Data
<1>1. ASSUME NEW k \in Key
      PROVE  (IF PlainState!Lasts(Plain(data)[k], u) THEN Plain(data)[k] ELSE None) = StateView(data, u)[k]
    <2>1. CASE data[k] = None
        BY <2>1 DEF Plain, StateView, PresentAt, PlainState!Lasts
    <2>2. CASE data[k] \in StateEntry
        <3>1. Plain(data)[k] = Shown(data[k])
            BY <2>2, EntryShape DEF Plain, Shown
        <3> QED
            BY <2>2, <3>1, EntryShape, StateViewAt
    <2> QED
        BY <1>0, <2>1, <2>2
<1>2. ASSUME NEW t \in Nat, t <= u, NEW k \in Key
      PROVE  (IF PlainState!Lasts(StateView(data, t)[k], u) THEN StateView(data, t)[k] ELSE None)
                 = StateView(data, u)[k]
    <2>1. CASE PresentAt(data[k], t)
        BY <2>1, EntryShape, StateViewAt
    <2>2. CASE ~ PresentAt(data[k], t)
        <3>1. ~ PresentAt(data[k], u)
            BY <1>0, <1>2, <2>2, EntryShape DEF PresentAt
        <3> QED
            BY <2>2, <3>1, StateViewAt DEF PlainState!Lasts
    <2> QED
        BY <2>1, <2>2
<1>3. \A t : StateView(data, t) = [k \in Key |-> StateView(data, t)[k]]
    BY DEF StateView
<1>4. PlainState!Pruned(Plain(data), u) = StateView(data, u)
    <2>1. [k \in Key |-> IF PlainState!Lasts(Plain(data)[k], u) THEN Plain(data)[k] ELSE None]
              = [k \in Key |-> StateView(data, u)[k]]
        BY <1>1
    <2> QED
        BY <1>3, <2>1 DEF PlainState!Pruned
<1>5. ASSUME NEW t \in Nat, t <= u PROVE PlainState!Pruned(StateView(data, t), u) = StateView(data, u)
    <2> DEFINE old == StateView(data, t)
    <2>1. \A k \in Key : (IF PlainState!Lasts(old[k], u) THEN old[k] ELSE None) = StateView(data, u)[k]
        BY <1>2, <1>5
    <2> HIDE DEF old
    <2>2. [k \in Key |-> IF PlainState!Lasts(old[k], u) THEN old[k] ELSE None]
              = [k \in Key |-> StateView(data, u)[k]]
        BY <2>1
    <2> QED
        BY <1>3, <2>2 DEF PlainState!Pruned, old
<1> QED
    BY <1>4, <1>5

LEMMA StateStoreHas ==
    ASSUME StateIInv
    PROVE  /\ now \in Nat /\ entries \in Data
           /\ Purged \in Data
           /\ StateView(Purged, now) = StateView(entries, now)
           /\ Plain(Purged) = StateView(entries, now)
           /\ \A k \in Key : /\ Dropped(k) \in Data
                             /\ StateView(Dropped(k), now) = StateView(entries, now)
           /\ \A e : Present(e) <=> PresentAt(e, now)
<1>1. now \in Nat /\ entries \in Data
    BY ClockAssumption DEF StateIInv
<1>2. \A e : Present(e) <=> PresentAt(e, now)
    BY DEF Present, PresentAt
<1>3. ASSUME NEW k \in Key
      PROVE  Dropped(k) \in Data /\ StateView(Dropped(k), now) = StateView(entries, now)
    <2>1. CASE Dropped(k) = entries
        BY <1>1, <2>1
    <2>2. CASE Dropped(k) = [entries EXCEPT ![k] = None] /\ ~ PresentAt(entries[k], now)
        <3>1. ~ PresentAt(None, now)
            BY DEF PresentAt
        <3>2. \A j \in Key : Dropped(k)[j] = IF j = k THEN None ELSE entries[j]
            BY <1>1, <2>2 DEF Data
        <3> QED
            BY <1>1, <2>2, <3>1, <3>2 DEF StateView, Data
    <2> QED
        BY <1>2, <2>1, <2>2 DEF Dropped
<1> QED
    BY <1>1, <1>2, <1>3, PrunedShows DEF Purged

LEMMA InitState == StateInit => StateIInv
<1> SUFFICES ASSUME StateInit PROVE StateIInv
    OBVIOUS
<1>1. NoEntries \in Data /\ 0 \in 0 .. MaxTime
    BY ClockAssumption DEF NoEntries, Data
<1> QED
    BY <1>1 DEF StateInit, StateIInv

LEMMA NextState == StateIInv /\ [StateNext]_stateVars => StateIInv'
<1> SUFFICES ASSUME StateIInv, [StateNext]_stateVars PROVE StateIInv'
    OBVIOUS
<1>1. CASE UNCHANGED stateVars
    BY <1>1 DEF StateIInv, stateVars, inStoreVars
<1>2. ASSUME UNCHANGED <<kept, Files, now>>, entries' \in Data, lastState' \in Value \cup {None}
      PROVE  StateIInv'
    BY <1>2 DEF StateIInv, Files
<1>3. ASSUME NEW k \in Key, StateSet(k) PROVE StateIInv'
    <2>1. PICK v \in Value, ttl \in 0 .. MaxTtl :
              entries' = [entries EXCEPT ![k] = [value |-> v, updatedAt |-> now, ttl |-> ttl]]
        BY <1>3 DEF StateSet
    <2>2. entries' \in Data
        BY <2>1 DEF StateIInv, Data, StateEntry
    <2> QED
        BY <1>2, <1>3, <2>2 DEF StateSet, StateIInv
<1>4. ASSUME NEW k \in Key, StateGet(k) PROVE StateIInv'
    <2>1. Present(entries[k]) => entries[k] \in StateEntry
        BY StateStoreHas DEF Data, Present
    <2>2. lastState' \in Value \cup {None}
        BY <1>4, <2>1, EntryShape DEF StateGet
    <2> QED
        BY <1>2, <1>4, <2>2, StateStoreHas DEF StateGet
<1>5. ASSUME NEW k \in Key, StateHas(k) PROVE StateIInv'
    BY <1>2, <1>5, StateStoreHas DEF StateHas, StateIInv
<1>6. ASSUME NEW k \in Key, StateDelete(k) PROVE StateIInv'
    <2>1. entries' \in Data
        BY <1>6 DEF StateDelete, StateIInv, Data
    <2> QED
        BY <1>2, <1>6, <2>1 DEF StateDelete, StateIInv
<1>7. CASE StateKeys
    BY <1>2, <1>7, StateStoreHas DEF StateKeys, StateIInv
<1>8. CASE StateSnapshot
    <2>1. /\ entries' = Purged /\ kept' = kept \cup {Purged}
          /\ UNCHANGED <<lastState, file, saving, loading, now>>
        BY <1>8 DEF StateSnapshot, Keeps, Files
    <2> QED
        BY <2>1, StateStoreHas DEF StateIInv
<1>9. CASE StateRestore
    <2>1. PICK data \in kept : entries' = Pruned(data)
        BY <1>9 DEF StateRestore
    <2>2. entries' \in Data
        BY <2>1, StateStoreHas, PrunedShows DEF StateIInv
    <2> QED
        BY <1>2, <1>9, <2>2 DEF StateRestore, StateIInv
<1>10. ASSUME NEW s \in Saver, SaveStart(s) PROVE StateIInv'
    <2>1. /\ entries' = Purged /\ kept' = kept \cup {Purged}
          /\ saving' = [saving EXCEPT ![s] = [is |-> "writing", data |-> Purged]]
          /\ file' = [is |-> "torn", data |-> NoEntries]
          /\ UNCHANGED <<lastState, loading, now>>
        BY <1>10 DEF SaveStart, Keeps, Torn
    <2>2. NoEntries \in Data /\ Purged \in Data
        BY StateStoreHas DEF NoEntries, Data
    <2>3. saving' \in [Saver -> [is : {"idle", "writing", "over"}, data : Data]]
        BY <2>1, <2>2 DEF StateIInv
    <2>4. \A r \in Saver : saving'[r].is = "writing" => saving'[r].data \in kept'
        BY <2>1 DEF StateIInv
    <2>5. file' \in [is : {"none", "torn", "whole"}, data : Data] /\ file'.is = "torn"
        BY <2>1, <2>2
    <2> QED
        BY <2>1, <2>2, <2>3, <2>4, <2>5 DEF StateIInv
<1>11. ASSUME NEW s \in Saver, SaveEnds(s) PROVE StateIInv'
    <2>1. /\ saving[s].is = "writing" /\ saving' = [saving EXCEPT ![s].is = "over"]
          /\ UNCHANGED <<entries, kept, lastState, loading, now>>
          /\ \/ file' = [is |-> "whole", data |-> saving[s].data]
             \/ file' = [is |-> "torn", data |-> NoEntries]
        BY <1>11 DEF SaveEnds, Torn
    <2>2. saving[s].data \in kept /\ saving[s].data \in Data /\ NoEntries \in Data
        BY <2>1 DEF StateIInv, NoEntries, Data
    <2>3. saving' \in [Saver -> [is : {"idle", "writing", "over"}, data : Data]]
        BY <2>1 DEF StateIInv
    <2>4. \A r \in Saver : saving'[r].is = "writing" => saving[r].is = "writing" /\ saving'[r].data = saving[r].data
        BY <2>1 DEF StateIInv
    <2>5. /\ file' \in [is : {"none", "torn", "whole"}, data : Data]
          /\ file'.is = "whole" => file'.data \in kept
        BY <2>1, <2>2
    <2> QED
        BY <2>1, <2>3, <2>4, <2>5 DEF StateIInv
<1>12. CASE LoadRead
    <2>1. /\ file.is = "whole" /\ loading' = {file.data}
          /\ UNCHANGED <<entries, kept, lastState, file, saving, now>>
        BY <1>12 DEF LoadRead
    <2> QED
        BY <2>1 DEF StateIInv
<1>13. CASE LoadRestore
    <2>1. PICK data \in loading : entries' = Pruned(data)
        BY <1>13 DEF LoadRestore
    <2>2. entries' \in Data
        BY <2>1, StateStoreHas, PrunedShows DEF StateIInv
    <2> QED
        BY <1>13, <2>2 DEF LoadRestore, StateIInv
<1>14. CASE StateTick
    <2>1. now' \in 0 .. MaxTime
        BY <1>14, ClockAssumption DEF StateTick, Tick, StateIInv
    <2> QED
        BY <1>14, <2>1 DEF StateTick, inStoreVars, StateIInv
<1> QED
    BY <1>1, <1>3, <1>4, <1>5, <1>6, <1>7, <1>8, <1>9, <1>10, <1>11, <1>12, <1>13, <1>14 DEF StateNext

THEOREM StateInvariant == StateSpec => []StateIInv
    BY InitState, NextState, PTL DEF StateSpec

LEMMA StateStep == StateIInv /\ StateIInv' /\ [StateNext]_stateVars => [PlainState!Next]_(PlainState!mapVars)
<1> DEFINE map == Plain(Purged)
           saved == {Plain(data) : data \in kept}
<1> SUFFICES ASSUME StateIInv, StateIInv', [StateNext]_stateVars
             PROVE  \/ PlainState!Next
                    \/ map' = map /\ saved' = saved /\ lastState' = lastState /\ now' = now
    BY DEF PlainState!mapVars
<1>0. /\ map = StateView(entries, now) /\ now \in Nat /\ entries \in Data /\ entries' \in Data /\ now' \in Nat
      /\ kept \subseteq Data
    BY StateStoreHas, ClockAssumption DEF StateIInv
<1>v. map' = StateView(entries', now')
    <2>1. \A e : Present(e)' <=> PresentAt(e, now')
        BY DEF Present, PresentAt
    <2>2. \A k \in Key : Purged'[k] = IF PresentAt(entries'[k], now') THEN entries'[k] ELSE None
        BY DEF Purged, Pruned, Present, PresentAt
    <2>3. \A k \in Key : PresentAt(entries'[k], now') => entries'[k] # None
        BY DEF PresentAt
    <2> QED
        BY <2>2, <2>3 DEF Plain, StateView, Shown
<1>k. kept' = kept => saved' = saved
    OBVIOUS
<1> HIDE DEF map
<1>1. CASE UNCHANGED stateVars
    BY <1>0, <1>v, <1>1 DEF stateVars, inStoreVars
<1>2. ASSUME NEW k \in Key, StateSet(k) PROVE PlainState!Put(k)
    <2>1. PICK v \in Value, ttl \in 0 .. MaxTtl :
              entries' = [entries EXCEPT ![k] = [value |-> v, updatedAt |-> now, ttl |-> ttl]]
        BY <1>2 DEF StateSet
    <2> DEFINE e == [value |-> v, updatedAt |-> now, ttl |-> ttl]
               wide == [map EXCEPT ![k] = [value |-> v, until |-> EndsAt(e)]]
    <2>2. now' = now /\ kept' = kept /\ lastState' = lastState
        BY <1>2 DEF StateSet, Files
    <2>3. e \in StateEntry /\ Shown(e) = [value |-> v, until |-> EndsAt(e)]
        BY DEF StateEntry, Shown, StateIInv
    <2>4. entries'[k] = e /\ \A j \in Key : j # k => entries'[j] = entries[j]
        BY <1>0, <2>1 DEF Data
    <2>5. wide[k] = Shown(e) /\ \A j \in Key : j # k => wide[j] = StateView(entries, now)[j]
        BY <1>0, <2>3 DEF StateView
    <2>6. EndsAt(e) \in 0 .. (MaxTime + MaxTtl) \cup {Never}
        BY <2>3, EntryShape
    <2> HIDE DEF e, wide
    <2>7. ASSUME NEW j \in Key
          PROVE  (IF PlainState!Lasts(wide[j], now) THEN wide[j] ELSE None) = StateView(entries', now)[j]
        <3>1. CASE j = k
            BY <1>0, <2>3, <2>4, <2>5, <3>1, EntryShape, StateViewAt
        <3>2. CASE j # k /\ PresentAt(entries[j], now)
            BY <1>0, <2>4, <2>5, <3>2, EntryShape, StateViewAt
        <3>3. CASE j # k /\ ~ PresentAt(entries[j], now)
            BY <1>0, <2>4, <2>5, <3>3, StateViewAt DEF PlainState!Lasts
        <3> QED
            BY <3>1, <3>2, <3>3
    <2>8. map' = PlainState!Pruned(wide, now)
        <3>1. [j \in Key |-> IF PlainState!Lasts(wide[j], now) THEN wide[j] ELSE None]
                  = [j \in Key |-> StateView(entries', now)[j]]
            BY <2>7
        <3>2. StateView(entries', now) = [j \in Key |-> StateView(entries', now)[j]]
            BY DEF StateView
        <3> QED
            BY <1>v, <2>2, <3>1, <3>2 DEF PlainState!Pruned
    <2> QED
        BY <1>k, <2>2, <2>6, <2>8 DEF PlainState!Put, map, wide
<1>3. ASSUME NEW k \in Key, StateGet(k) PROVE PlainState!Read(k)
    <2>1. map' = map /\ saved' = saved /\ now' = now
        BY <1>0, <1>v, <1>3, <1>k, StateStoreHas DEF StateGet
    <2>2. lastState' = IF map[k] = None THEN None ELSE map[k].value
        <3>1. CASE PresentAt(entries[k], now)
            BY <1>0, <1>3, <3>1, StateStoreHas, StateViewAt, EntryShape DEF StateGet
        <3>2. CASE ~ PresentAt(entries[k], now)
            BY <1>0, <1>3, <3>2, StateStoreHas, StateViewAt DEF StateGet
        <3> QED
            BY <3>1, <3>2
    <2> QED
        BY <2>1, <2>2 DEF PlainState!Read, map
<1>4. ASSUME NEW k \in Key, StateHas(k)
      PROVE  map' = map /\ saved' = saved /\ lastState' = lastState /\ now' = now
    BY <1>0, <1>v, <1>4, <1>k, StateStoreHas DEF StateHas
<1>5. ASSUME NEW k \in Key, StateDelete(k) PROVE PlainState!Drop(k)
    <2>1. entries' = [entries EXCEPT ![k] = None] /\ now' = now /\ kept' = kept /\ lastState' = lastState
        BY <1>5 DEF StateDelete
    <2>2. \A j \in Key : StateView(entries', now)[j] = IF j = k THEN None ELSE StateView(entries, now)[j]
        BY <1>0, <2>1 DEF StateView, PresentAt, Data
    <2>3. map' = [map EXCEPT ![k] = None]
        BY <1>0, <1>v, <2>1, <2>2 DEF StateView
    <2> QED
        BY <1>k, <2>1, <2>3 DEF PlainState!Drop, map
<1>6. ASSUME StateKeys PROVE map' = map /\ saved' = saved /\ lastState' = lastState /\ now' = now
    BY <1>0, <1>v, <1>6, <1>k, StateStoreHas DEF StateKeys
<1>7. ASSUME Keeps, UNCHANGED <<lastState, now>> PROVE PlainState!Save
    <2>1. entries' = Purged /\ kept' = kept \cup {Purged}
        BY <1>7 DEF Keeps
    <2>2. map' = map
        BY <1>0, <1>v, <1>7, <2>1, StateStoreHas
    <2>3. saved' = saved \cup {map}
        BY <2>1 DEF map
    <2> QED
        BY <1>7, <2>2, <2>3 DEF PlainState!Save, map
<1>8. ASSUME NEW data \in kept, entries' = Pruned(data), UNCHANGED <<kept, lastState, now>>
      PROVE  PlainState!Restore
    <2>1. data \in Data /\ StateView(entries', now) = StateView(data, now)
        BY <1>0, <1>8, PrunedShows
    <2>2. map' = PlainState!Pruned(Plain(data), now)
        BY <1>0, <1>v, <1>8, <2>1, StateAges
    <2> QED
        BY <1>k, <1>8, <2>2 DEF PlainState!Restore, map
<1>9. CASE StateRestore
    BY <1>8, <1>9 DEF StateRestore, PlainState!Next
<1>10. CASE LoadRestore
    BY <1>8, <1>10 DEF LoadRestore, PlainState!Next, StateIInv
<1>11. CASE StateSnapshot
    BY <1>7, <1>11 DEF StateSnapshot, PlainState!Next
<1>12. ASSUME NEW s \in Saver, SaveStart(s) PROVE PlainState!Next
    BY <1>7, <1>12 DEF SaveStart, PlainState!Next
<1>13. ASSUME (\E s \in Saver : SaveEnds(s)) \/ LoadRead
       PROVE  map' = map /\ saved' = saved /\ lastState' = lastState /\ now' = now
    BY <1>0, <1>v, <1>k, <1>13 DEF SaveEnds, LoadRead
<1>14. CASE StateTick
    <2>1. now' = now + 1 /\ UNCHANGED <<entries, kept, lastState>>
        BY <1>14 DEF StateTick, Tick, inStoreVars
    <2>2. map' = PlainState!Pruned(map, now')
        BY <1>0, <1>v, <2>1, StateAges
    <2> QED
        BY <1>k, <2>1, <2>2 DEF PlainState!Pass, PlainState!Next, map
<1> QED
    BY <1>1, <1>2, <1>3, <1>4, <1>5, <1>6, <1>9, <1>10, <1>11, <1>12, <1>13, <1>14
       DEF StateNext, PlainState!Next

\* The state store is a map with expiry to its users, whatever saves and loads
\* overlap: a load puts back one snapshot as it was taken (secrets/state.ts).
THEOREM StatesImplementMap == StateSpec => StateStoreIsMap
<1>1. StateInit => PlainState!Init
    <2> SUFFICES ASSUME StateInit PROVE PlainState!Init
        OBVIOUS
    <2>1. entries = [k \in Key |-> None] /\ kept = {} /\ lastState = None /\ now = 0
        BY DEF StateInit, NoEntries
    <2>2. Plain(Purged) = [k \in Key |-> None]
        BY <2>1 DEF Plain, Purged, Pruned, Present
    <2>3. {Plain(data) : data \in kept} = {}
        BY <2>1
    <2> QED
        BY <2>1, <2>2, <2>3 DEF PlainState!Init
<1> QED
    BY <1>1, StateInvariant, StateStep, PTL DEF StateSpec, StateStoreIsMap, PlainState!Spec

----------------------------------------------------------------------------
(* The cookie jar.                                                         *)

LEMMA CookieShape ==
    ASSUME NEW v \in CookieValue, NEW t \in CookieDate
    PROVE  [content |-> v, expiresAt |-> t] \in [content : CookieValue, expiresAt : CookieDate] \ {None}
<1>1. CookieDate \subseteq Nat \cup {Never}
    BY ClockAssumption DEF CookieDate
<1> QED
    BY <1>1, CookieAssumption

\* What a reader is given of a domain are cookies, and the live ones are among them.
LEMMA CookiesRead ==
    ASSUME JarTypeOK, NEW d \in Domain
    PROVE  /\ GetCookies(d) \in Cookies
           /\ \A c \in Cookie : LiveCookie(jar[d][c]) => GetCookies(d)[c] # None
<1>1. jar[d] \in Cookies
    BY DEF JarTypeOK
<1> QED
    BY <1>1 DEF GetCookies, Cookies, LiveCookie

\* Storing one cookie, or those of an answer, keeps the live ones.
LEMMA CookiesStored ==
    ASSUME JarTypeOK, NEW d \in Domain
    PROVE  /\ \A c \in Cookie, v \in CookieValue, t \in CookieDate :
                LET left == [GetCookies(d) EXCEPT ![c] = [content |-> v, expiresAt |-> t]]
                IN  left \in Cookies /\ \A b \in Cookie : LiveCookie(jar[d][b]) => left[b] # None
           /\ \A cookies \in Cookies :
                LET left == Merged(GetCookies(d), cookies)
                IN  left \in Cookies /\ \A b \in Cookie : LiveCookie(jar[d][b]) => left[b] # None
<1>1. ASSUME NEW c \in Cookie, NEW v \in CookieValue, NEW t \in CookieDate,
             NEW left, left = [GetCookies(d) EXCEPT ![c] = [content |-> v, expiresAt |-> t]]
      PROVE  left \in Cookies /\ \A b \in Cookie : LiveCookie(jar[d][b]) => left[b] # None
    BY <1>1, CookieShape, CookiesRead DEF Cookies
<1>2. ASSUME NEW cookies \in Cookies, NEW left, left = Merged(GetCookies(d), cookies)
      PROVE  left \in Cookies /\ \A b \in Cookie : LiveCookie(jar[d][b]) => left[b] # None
    BY <1>2, CookiesRead DEF Cookies, Merged
<1> QED
    BY <1>1, <1>2

LEMMA InitJar == JarInit => JarTypeOK
    BY ClockAssumption DEF JarInit, JarTypeOK, NoCookies, Cookies

LEMMA NextJar == JarTypeOK /\ [JarNext]_jarVars => JarTypeOK'
<1> SUFFICES ASSUME JarTypeOK, [JarNext]_jarVars PROVE JarTypeOK'
    OBVIOUS
<1>0. NoCookies \in Cookies
    BY DEF NoCookies, Cookies
<1>1. CASE UNCHANGED jarVars
    BY <1>1 DEF jarVars, inJarVars, JarTypeOK
<1>2. ASSUME NEW d \in Domain, JarSet(d) PROVE JarTypeOK'
    <2>1. PICK left \in Cookies : jar' = [jar EXCEPT ![d] = left]
        BY <1>2, CookiesStored DEF JarSet
    <2> QED
        BY <1>2, <2>1 DEF JarSet, JarTypeOK
<1>3. ASSUME NEW d \in Domain, JarClear(d) PROVE JarTypeOK'
    BY <1>0, <1>3 DEF JarClear, JarTypeOK
<1>4. ASSUME NEW r \in Request, NEW d \in Domain, JarFetch(r, d) PROVE JarTypeOK'
    <2>1. [domain |-> d, sent |-> GetCookies(d)] \in [domain : Domain, sent : Cookies]
        BY CookiesRead
    <2> QED
        BY <1>4, <2>1 DEF JarFetch, JarTypeOK
<1>5. ASSUME NEW r \in Request, JarAnswer(r) PROVE JarTypeOK'
    <2>1. fetching[r] \in [domain : Domain, sent : Cookies]
        BY <1>5 DEF JarAnswer, JarTypeOK
    <2>2. jar' \in [Domain -> Cookies]
        BY <1>5, <2>1, CookiesStored DEF JarAnswer, JarTypeOK
    <2> QED
        BY <1>5, <2>2 DEF JarAnswer, JarTypeOK
<1>6. ASSUME NEW r \in Request, JarFetchFails(r) PROVE JarTypeOK'
    BY <1>6 DEF JarFetchFails, JarTypeOK
<1>7. CASE ClearAll
    BY <1>0, <1>7 DEF ClearAll, JarTypeOK
<1>8. CASE JarTick
    BY <1>8, ClockAssumption DEF JarTick, Tick, inJarVars, JarTypeOK
<1> QED
    BY <1>1, <1>2, <1>3, <1>4, <1>5, <1>6, <1>7, <1>8 DEF JarNext

LEMMA CookiesLast ==
    ASSUME JarTypeOK, [JarNext]_jarVars, NEW d \in Domain, NEW c \in Cookie,
           LiveCookie(jar[d][c]), jar'[d][c] = None
    PROVE  JarClear(d) \/ ClearAll
<1>1. ASSUME NEW b \in Domain, NEW left \in Cookies, jar' = [jar EXCEPT ![b] = left],
             \A e \in Cookie : LiveCookie(jar[b][e]) => left[e] # None
      PROVE  FALSE
    BY <1>1 DEF JarTypeOK, LiveCookie
<1>2. jar' # jar
    BY DEF LiveCookie
<1>3. ~ UNCHANGED jarVars /\ ~ JarTick
    BY <1>2 DEF jarVars, inJarVars, JarTick
<1>4. ASSUME NEW b \in Domain, JarSet(b) PROVE FALSE
    <2>1. PICK e \in Cookie, v \in CookieValue, t \in CookieDate :
             jar' = [jar EXCEPT ![b] = [GetCookies(b) EXCEPT ![e] = [content |-> v, expiresAt |-> t]]]
        BY <1>4 DEF JarSet
    <2> DEFINE left == [GetCookies(b) EXCEPT ![e] = [content |-> v, expiresAt |-> t]]
    <2>2. left \in Cookies /\ \A g \in Cookie : LiveCookie(jar[b][g]) => left[g] # None
        BY CookiesStored
    <2>3. jar' = [jar EXCEPT ![b] = left]
        BY <2>1
    <2> HIDE DEF left
    <2> QED
        BY <1>1, <2>2, <2>3
<1>5. ASSUME NEW r \in Request, JarAnswer(r) PROVE FALSE
    <2>1. fetching[r].domain \in Domain
        BY <1>5 DEF JarAnswer, JarTypeOK
    <2>2. PICK cookies \in Cookies :
             jar' = [jar EXCEPT ![fetching[r].domain] =
                       IF cookies = NoCookies THEN @ ELSE Merged(GetCookies(fetching[r].domain), cookies)]
        BY <1>5 DEF JarAnswer
    <2>3. cookies # NoCookies
        BY <1>2, <2>1, <2>2 DEF JarTypeOK
    <2> QED
        BY <1>1, <2>1, <2>2, <2>3, CookiesStored
<1>6. ASSUME NEW b \in Domain, JarClear(b) PROVE b = d
    BY <1>6 DEF JarClear, JarTypeOK, LiveCookie
<1>7. \A r \in Request : ~ JarFetchFails(r) /\ \A b \in Domain : ~ JarFetch(r, b)
    BY <1>2 DEF JarFetchFails, JarFetch
<1> QED
    BY <1>3, <1>4, <1>5, <1>6, <1>7 DEF JarNext

\* Whatever answers come late, a cookie that has not expired leaves the jar only
\* when it is cleared: set() reads the domain again after the await of fetch()
\* (secrets/auth.ts).
THEOREM CookiesStay == JarSpec => [](JarTypeOK) /\ NoCookieLost
<1>1. JarTypeOK /\ [JarNext]_jarVars =>
        [\A d \in Domain, c \in Cookie :
           LiveCookie(jar[d][c]) /\ jar'[d][c] = None => JarClear(d) \/ ClearAll]_jarVars
    BY CookiesLast
<1> QED
    BY <1>1, InitJar, NextJar, PTL DEF JarSpec, NoCookieLost

----------------------------------------------------------------------------
(* Saved configurations.                                                   *)

\* What a save carries until it writes it: nothing if the file was absent when it
\* looked, else the dates it read; then the dates it writes.
ConfigCalls ==
  [op : {"none", "save", "get", "list"},
   at : {"idle", "mkdir", "exists", "readdir", "json", "write", "writing", "undefined", "thrown", "answered", "lost"},
   data : Saved \cup {None}, raced : BOOLEAN]

\* A save that nobody overtook has not lost sight of the first date.
HoldsLineage(c) ==
  calls[c].op = "save" /\ ~ calls[c].raced =>
    /\ calls[c].at = "write" => lineage = (IF calls[c].data = None THEN None ELSE calls[c].data.savedAt)
    /\ calls[c].at = "writing" => /\ calls[c].data # None
                                  /\ lineage \in {None, calls[c].data.savedAt}

ConfigIInv ==
  /\ configFile \in File /\ lineage \in 0 .. MaxTime \cup {None} /\ now \in 0 .. MaxTime
  /\ calls \in [Call -> ConfigCalls]
  /\ configFile = Absent => lineage = None
  /\ configFile.is = "whole" => lineage = configFile.data.savedAt
  /\ \A c \in Call : calls[c].at = "writing" => calls[c].data # None
  /\ \A c \in Call : HoldsLineage(c)

LEMMA InitConfig == ConfigInit => ConfigIInv
    BY ClockAssumption DEF ConfigInit, ConfigIInv, File, Absent, ConfigCalls, NotCalled, HoldsLineage

LEMMA SavedShape == None \notin Saved
    BY ConfigAssumption, ClockAssumption DEF Saved

LEMMA NextConfig == ConfigIInv /\ [ConfigNext]_configVars => ConfigIInv'
<1> SUFFICES ASSUME ConfigIInv, [ConfigNext]_configVars PROVE ConfigIInv'
    OBVIOUS
<1>0. NotCalled \in ConfigCalls /\ \A how \in {"undefined", "thrown", "answered", "lost"} : Over(how) \in ConfigCalls
    BY DEF ConfigCalls, NotCalled, Over
<1>a. \A how : Over(how).op = "none" /\ Over(how).at = how
    BY DEF Over, NotCalled
\* A step of one call that leaves the file alone.
<1>1. ASSUME NEW c \in Call, NEW call \in ConfigCalls, calls' = [calls EXCEPT ![c] = call],
             UNCHANGED <<configFile, lineage, now>>,
             call.at = "writing" => call.data # None,
             call.op = "save" /\ ~ call.raced =>
               /\ call.at = "write" => lineage = (IF call.data = None THEN None ELSE call.data.savedAt)
               /\ call.at = "writing" => call.data # None /\ lineage \in {None, call.data.savedAt}
      PROVE  ConfigIInv'
    <2>1. calls' \in [Call -> ConfigCalls]
        BY <1>1 DEF ConfigIInv
    <2>2. calls'[c] = call /\ \A d \in Call \ {c} : calls'[d] = calls[d]
        BY <1>1 DEF ConfigIInv
    <2>3. \A d \in Call : HoldsLineage(d)'
        BY <1>1, <2>2 DEF ConfigIInv, HoldsLineage
    <2>4. \A d \in Call : calls'[d].at = "writing" => calls'[d].data # None
        BY <1>1, <2>2 DEF ConfigIInv
    <2> QED
        BY <1>1, <2>1, <2>3, <2>4 DEF ConfigIInv
<1>2. ASSUME NEW c \in Call, NEW how \in {"undefined", "thrown", "answered", "lost"}, Ends(c, how),
             UNCHANGED <<configFile, lineage, now>>
      PROVE  ConfigIInv'
    BY <1>0, <1>1, <1>2, <1>a DEF Ends
<1>3. ASSUME NEW c \in Call, NEW step \in {"exists", "json", "write"}, NEW data \in Saved \cup {None},
             Goes(c, step, data), UNCHANGED <<configFile, lineage, now>>,
             step = "write" => lineage = (IF data = None THEN None ELSE data.savedAt)
      PROVE  ConfigIInv'
    <2> DEFINE call == [calls[c] EXCEPT !.at = step, !.data = data]
    <2>1. call \in ConfigCalls /\ call.at = step /\ call.data = data
        BY DEF ConfigIInv, ConfigCalls
    <2>2. calls' = [calls EXCEPT ![c] = call]
        BY <1>3 DEF Goes, ConfigIInv
    <2> HIDE DEF call
    <2> QED
        BY <1>1, <1>3, <2>1, <2>2
<1>4. CASE UNCHANGED configVars
    BY <1>4 DEF configVars, inConfigs, ConfigIInv, HoldsLineage
<1>5. ASSUME NEW c \in Call, NEW op \in {"save", "get", "list"}, ConfigCall(c, op) PROVE ConfigIInv'
    <2> DEFINE call == [NotCalled EXCEPT !.op = op,
                !.at = CASE op = "save" -> "mkdir" [] op = "get" -> "exists" [] OTHER -> "readdir"]
    <2>1. call \in ConfigCalls /\ call.at \in {"mkdir", "exists", "readdir"}
        BY DEF ConfigCalls, NotCalled
    <2>2. calls' = [calls EXCEPT ![c] = call] /\ UNCHANGED <<configFile, lineage, now>>
        BY <1>5 DEF ConfigCall
    <2> HIDE DEF call
    <2> QED
        BY <1>1, <2>1, <2>2
<1>6. ASSUME NEW c \in Call, SaveMadeDir(c) PROVE ConfigIInv'
    BY <1>3, <1>6 DEF SaveMadeDir
<1>7. ASSUME NEW c \in Call, FileExists(c) PROVE ConfigIInv'
    BY <1>2, <1>3, <1>7 DEF FileExists, ConfigIInv
<1>8. ASSUME NEW c \in Call, ReadJson(c) PROVE ConfigIInv'
    <2>1. configFile.is = "whole" => configFile.data \in Saved /\ lineage = configFile.data.savedAt
        BY DEF ConfigIInv, File
    <2> QED
        BY <1>2, <1>3, <1>8, <2>1, SavedShape DEF ReadJson
<1>9. ASSUME NEW c \in Call, WriteBegins(c) PROVE ConfigIInv'
    <2> DEFINE old == calls[c].data
               data == [savedAt |-> IF old = None THEN now ELSE old.savedAt, updatedAt |-> now]
               call == [calls[c] EXCEPT !.at = "writing", !.data = data]
    <2>1. old \in Saved \cup {None} /\ now \in 0 .. MaxTime /\ calls[c].at = "write"
        BY <1>9 DEF ConfigIInv, ConfigCalls, WriteBegins, At
    <2>2. data \in Saved /\ data # None /\ data.savedAt = (IF old = None THEN now ELSE old.savedAt)
        BY <2>1, SavedShape DEF Saved
    <2>3. calls' = [calls EXCEPT ![c].at = "writing", ![c].data = data]
        BY <1>9 DEF WriteBegins, Goes
    <2> HIDE DEF data
    <2>4. call \in ConfigCalls /\ call.at = "writing" /\ call.data = data /\ call.raced = calls[c].raced
        BY <2>2 DEF ConfigIInv, ConfigCalls
    <2>5. calls' = [calls EXCEPT ![c] = call]
        BY <2>3 DEF ConfigIInv
    <2>6. configFile' = TornFile /\ UNCHANGED <<lineage, now>>
        BY <1>9 DEF WriteBegins
    <2>7. configFile' \in File /\ configFile' # Absent /\ configFile'.is # "whole"
        BY <2>6 DEF TornFile, Absent, File
    <2>8. calls[c].op = "save" /\ ~ calls[c].raced => lineage \in {None, data.savedAt}
        BY <2>1, <2>2 DEF ConfigIInv, HoldsLineage
    <2> HIDE DEF call, old
    <2>9. calls' \in [Call -> ConfigCalls] /\ calls'[c] = call /\ \A d \in Call \ {c} : calls'[d] = calls[d]
        BY <2>4, <2>5 DEF ConfigIInv
    <2>10. HoldsLineage(c)'
        BY <1>9, <2>2, <2>4, <2>6, <2>8, <2>9 DEF HoldsLineage, WriteBegins, At
    <2>11. \A d \in Call \ {c} : HoldsLineage(d)'
        BY <2>6, <2>9 DEF HoldsLineage, ConfigIInv
    <2>12. \A d \in Call : calls'[d].at = "writing" => calls'[d].data # None
        BY <2>2, <2>4, <2>9 DEF ConfigIInv
    <2> QED
        BY <2>6, <2>7, <2>9, <2>10, <2>11, <2>12 DEF ConfigIInv
\* A step after which every other save that had looked at the file is marked.
<1>10. ASSUME NEW how, calls' = [d \in Call |-> IF d = how THEN Over("answered") ELSE Raced(how)[d]],
              configFile' \in File, lineage' \in 0 .. MaxTime \cup {None}, now' = now,
              configFile' = Absent => lineage' = None,
              configFile'.is = "whole" => lineage' = configFile'.data.savedAt
       PROVE  ConfigIInv'
    <2>1. ASSUME NEW d \in Call, d # how
          PROVE  /\ calls'[d] \in ConfigCalls
                 /\ calls'[d].at = calls[d].at /\ calls'[d].data = calls[d].data
                 /\ calls[d].at \in {"json", "write", "writing"} => calls'[d].raced
        <3>1. calls[d] \in ConfigCalls
            BY DEF ConfigIInv
        <3>2. calls'[d] = [calls[d] EXCEPT !.raced = @ \/ (d # how /\ calls[d].at \in {"json", "write", "writing"})]
            BY <1>10, <2>1 DEF Raced
        <3>3. calls'[d].raced = (calls[d].raced \/ (d # how /\ calls[d].at \in {"json", "write", "writing"}))
            BY <3>1, <3>2 DEF ConfigCalls
        <3> QED
            BY <2>1, <3>1, <3>2, <3>3 DEF ConfigCalls
    <2>2. \A d \in Call : d = how => calls'[d] = Over("answered")
        BY <1>10
    <2>3. calls' \in [Call -> ConfigCalls]
        BY <1>0, <1>10, <2>1, <2>2
    <2>4. \A d \in Call : HoldsLineage(d)'
        BY <1>a, <2>1, <2>2 DEF HoldsLineage
    <2>5. \A d \in Call : calls'[d].at = "writing" => calls'[d].data # None
        BY <1>a, <2>1, <2>2 DEF ConfigIInv
    <2> QED
        BY <1>10, <2>3, <2>4, <2>5 DEF ConfigIInv
<1>11. ASSUME NEW c \in Call, WriteEnds(c) PROVE ConfigIInv'
    <2>1. calls[c].data \in Saved
        BY <1>11 DEF WriteEnds, At, ConfigIInv, ConfigCalls
    <2>2. calls' = [d \in Call |-> IF d = c THEN Over("answered") ELSE Raced(c)[d]]
        BY <1>11 DEF WriteEnds, Raced
    <2>3. CASE configFile' = Whole(calls[c].data) /\ lineage' = calls[c].data.savedAt
        <3>1. configFile' \in File /\ configFile' # Absent /\ configFile'.data = calls[c].data
            BY <2>1, <2>3 DEF Whole, File, Absent
        <3>2. lineage' \in 0 .. MaxTime
            BY <2>1, <2>3 DEF Saved
        <3> QED
            BY <1>10, <1>11, <2>2, <2>3, <3>1, <3>2 DEF WriteEnds
    <2>4. CASE configFile' = TornFile /\ lineage' = lineage
        <3>1. configFile' \in File /\ configFile' # Absent /\ configFile'.is # "whole"
            BY <2>4 DEF TornFile, File, Absent
        <3> QED
            BY <1>10, <1>11, <2>2, <2>4, <3>1 DEF WriteEnds, ConfigIInv
    <2> QED
        BY <1>11, <2>3, <2>4 DEF WriteEnds
<1>12. ASSUME NEW c \in Call, SaveFails(c) PROVE ConfigIInv'
    BY <1>2, <1>12 DEF SaveFails
<1>13. ASSUME NEW c \in Call, ListReads(c) PROVE ConfigIInv'
    BY <1>2, <1>13 DEF ListReads
<1>14. CASE ConfigDelete
    <2>1. calls' = [d \in Call |-> IF d = None THEN Over("answered") ELSE Raced(None)[d]]
        BY <1>14, ConfigAssumption DEF ConfigDelete, Raced
    <2>2. configFile' = Absent /\ lineage' = None /\ now' = now
        BY <1>14 DEF ConfigDelete
    <2>3. configFile' \in File /\ configFile'.is # "whole"
        BY <2>2 DEF Absent, File
    <2> QED
        BY <1>10, <2>1, <2>2, <2>3
<1>15. CASE Restart
    <2>1. \A c \in Call : calls'[c] \in {NotCalled, Over("lost")}
        BY <1>15 DEF Restart
    <2>2. calls' \in [Call -> ConfigCalls]
        BY <1>0, <1>15 DEF Restart
    <2>3. NotCalled.op = "none" /\ NotCalled.at = "idle"
        BY DEF NotCalled
    <2>4. \A c \in Call : calls'[c].op = "none" /\ calls'[c].at # "writing"
        BY <1>a, <2>1, <2>3
    <2> QED
        BY <1>15, <2>2, <2>4 DEF Restart, ConfigIInv, HoldsLineage
<1>16. CASE ConfigTick
    <2>1. now' \in 0 .. MaxTime
        BY <1>16, ClockAssumption DEF ConfigTick, Tick, ConfigIInv
    <2> QED
        BY <1>16, <2>1 DEF ConfigTick, inConfigs, ConfigIInv, HoldsLineage
<1> QED
    BY <1>4, <1>5, <1>6, <1>7, <1>8, <1>9, <1>11, <1>12, <1>13, <1>14, <1>15, <1>16 DEF ConfigNext

LEMMA LineageKept ==
    ASSUME ConfigIInv, NEW c \in Call, WriteEnds(c), lineage \notin {None, lineage'}
    PROVE  calls[c].raced
<1>1. calls[c] \in ConfigCalls /\ HoldsLineage(c)
    BY DEF ConfigIInv
<1>2. calls[c].op = "save" /\ calls[c].at = "writing"
    BY DEF WriteEnds, At
<1>3. lineage' = calls[c].data.savedAt
    BY DEF WriteEnds
<1> QED
    BY <1>1, <1>2, <1>3 DEF HoldsLineage

\* The first date of a configuration survives every save that was not overtaken,
\* also after a restart in the middle of one (server/config-store.ts).
THEOREM FirstDateStays == ConfigSpec => []ConfigTypeOK /\ SavedAtLostOnlyByOverlap
<1>1. ConfigIInv => ConfigTypeOK
    BY DEF ConfigIInv, ConfigTypeOK, ConfigCalls
<1>2. ConfigIInv /\ [ConfigNext]_configVars =>
        [\A c \in Call : WriteEnds(c) /\ lineage \notin {None, lineage'} => calls[c].raced]_configVars
    BY LineageKept
<1> QED
    BY <1>1, <1>2, InitConfig, NextConfig, PTL DEF ConfigSpec, SavedAtLostOnlyByOverlap

----------------------------------------------------------------------------
(* The virtual file system: what every call of the session keeps.          *)

\* Unless a call was misused, both trees can be listed; the saved one because
\* restore() may bring it back.
TreeIInv == TreeTypeOK /\ (misused \/ (Listed(nodes) /\ Listed(savedTree)))

LEMMA ListedIsSeen == \A t : Listed(t) <=> \A p \in Path : ~ Hidden(t, p)
    BY DEF Listed, Hidden

LEMMA TreeStep ==
    ASSUME TreeIInv, nodes' \in Tree, savedTree' \in {savedTree, nodes},
           misused' \in BOOLEAN, misused => misused', misused' \/ Listed(nodes')
    PROVE  TreeIInv'
<1>1. CASE misused'
    BY <1>1 DEF TreeIInv, TreeTypeOK
<1>2. CASE ~ misused'
    BY <1>2 DEF TreeIInv, TreeTypeOK
<1> QED
    BY <1>1, <1>2

LEMMA WriteKeeps ==
    ASSUME TreeIInv, NEW p \in Path, NEW x \in Content, VfsWrite(p, x)
    PROVE  TreeIInv'
<1>1. /\ nodes' = Put(nodes, p, x) /\ savedTree' = savedTree
      /\ misused' = (misused \/ FileInTheWay(p) \/ nodes[p] = Folder)
    BY DEF VfsWrite
<1>2. x \in Node /\ nodes \in Tree
    BY DEF Node, TreeIInv, TreeTypeOK
<1>3. nodes' \in Tree
    BY <1>1, <1>2, PutListed
<1>4. misused' \/ Listed(nodes')
    <2> SUFFICES ASSUME ~ misused' PROVE Listed(nodes')
        OBVIOUS
    <2>1. ~ misused /\ ~ FileInTheWay(p) /\ nodes[p] # Folder
        BY <1>1
    <2>2. Listed(nodes) /\ \A q \in Above(p) : nodes[q] \notin Content
        BY <2>1 DEF TreeIInv, FileInTheWay
    <2> QED
        BY <1>1, <1>2, <2>1, <2>2, PutListed
<1>5. misused' \in BOOLEAN /\ (misused => misused')
    BY <1>1
<1> QED
    BY <1>1, <1>3, <1>4, <1>5, TreeStep

LEMMA EditKeeps ==
    ASSUME TreeIInv, VfsEdit
    PROVE  TreeIInv' /\ savedTree' = savedTree
<1>0. nodes \in Tree /\ misused \in BOOLEAN /\ Named \subseteq Path
    BY TargetAssumption DEF TreeIInv, TreeTypeOK
<1>1. ASSUME NEW p \in Path, NEW x \in Content, VfsWrite(p, x) PROVE TreeIInv' /\ savedTree' = savedTree
    BY <1>1, WriteKeeps DEF VfsWrite
<1>2. ASSUME NEW p \in Path, NEW x \in Content, VfsAppend(p, x) PROVE TreeIInv' /\ savedTree' = savedTree
    <2>1. /\ nodes[p] # Folder /\ savedTree' = savedTree
          /\ nodes' = IF nodes[p] = None THEN Put(nodes, p, x) ELSE [nodes EXCEPT ![p] = x]
          /\ misused' = (misused \/ (nodes[p] = None /\ FileInTheWay(p)))
        BY <1>2 DEF VfsAppend
    <2>2. x \in Node
        BY DEF Node
    <2>3. misused' \in BOOLEAN /\ (misused => misused')
        BY <2>1
    <2>4. CASE nodes[p] = None
        <3>1. nodes' = Put(nodes, p, x) /\ misused' = (misused \/ FileInTheWay(p) \/ nodes[p] = Folder)
            BY <2>1, <2>4
        <3>2. VfsWrite(p, x)
            BY <2>1, <3>1 DEF VfsWrite
        <3> QED
            BY <2>1, <3>2, WriteKeeps
    <2>5. CASE nodes[p] # None
        <3>1. nodes' = [nodes EXCEPT ![p] = x]
            BY <2>1, <2>5
        <3>2. nodes[p] \in Content
            BY <1>0, <2>1, <2>5 DEF Tree, Node
        <3>3. nodes' \in Tree
            BY <1>0, <2>2, <3>1 DEF Tree
        <3>4. misused \/ Listed(nodes')
            BY <1>0, <3>1, <3>2, ChangeListed DEF TreeIInv
        <3> QED
            BY <2>1, <2>3, <3>1, <3>3, <3>4, TreeStep
    <2> QED
        BY <2>4, <2>5
<1>3. ASSUME NEW p \in Path, VfsMkdir(p) PROVE TreeIInv' /\ savedTree' = savedTree
    <2> DEFINE x == IF nodes[p] = None THEN Folder ELSE nodes[p]
    <2>1. nodes' = Put(nodes, p, x) /\ savedTree' = savedTree /\ misused' = (misused \/ FileInTheWay(p))
        BY <1>3 DEF VfsMkdir
    <2>2. x \in Node /\ (nodes[p] = Folder => x = Folder)
        BY <1>0, NodeAssumption DEF Tree, Node
    <2> HIDE DEF x
    <2>3. nodes' \in Tree
        BY <1>0, <2>1, <2>2, PutListed
    <2>4. misused' \/ Listed(nodes')
        <3> SUFFICES ASSUME ~ misused' PROVE Listed(nodes')
            OBVIOUS
        <3>1. Listed(nodes) /\ \A q \in Above(p) : nodes[q] \notin Content
            BY <2>1 DEF TreeIInv, FileInTheWay
        <3> QED
            BY <1>0, <2>1, <2>2, <3>1, PutListed
    <2>5. misused' \in BOOLEAN /\ (misused => misused')
        BY <2>1
    <2> QED
        BY <2>1, <2>3, <2>4, <2>5, TreeStep
<1>4. ASSUME NEW p \in Path, NEW recursive \in BOOLEAN, VfsRm(p, recursive)
      PROVE  TreeIInv' /\ savedTree' = savedTree
    <2>1. /\ nodes' = Removed(nodes, p, recursive) /\ savedTree' = savedTree
          /\ misused' = (misused \/ (nodes[p] = Folder /\ ~ recursive))
        BY <1>4 DEF VfsRm
    <2>2. nodes' \in Tree
        BY <1>0, <2>1, RemovedListed
    <2>3. misused' \/ Listed(nodes')
        <3> SUFFICES ASSUME ~ misused' PROVE Listed(nodes')
            OBVIOUS
        <3>1. Listed(nodes) /\ (nodes[p] = Folder => recursive)
            BY <2>1 DEF TreeIInv
        <3> QED
            BY <1>0, <2>1, <3>1, RemovedListed
    <2>4. misused' \in BOOLEAN /\ (misused => misused')
        BY <2>1
    <2> QED
        BY <2>1, <2>2, <2>3, <2>4, TreeStep
<1>5. ASSUME NEW from \in Path, NEW to \in Path, VfsMv(from, to) PROVE TreeIInv' /\ savedTree' = savedTree
    <2>1. /\ nodes[from] # None /\ to \notin Below(from) /\ Rebased(nodes, from, to) \subseteq Path
          /\ nodes' = Moved(nodes, from, to) /\ savedTree' = savedTree
          /\ misused' = (misused \/ FileInTheWay(to) \/ (nodes[to] = Folder /\ from # to))
        BY <1>5 DEF VfsMv
    <2>2. nodes' \in Tree
        BY <1>0, <2>1, MovedAt
    <2>3. misused' \/ Listed(nodes')
        <3> SUFFICES ASSUME ~ misused' PROVE Listed(nodes')
            OBVIOUS
        <3>1. /\ Listed(nodes) /\ (nodes[to] = Folder => from = to)
              /\ \A q \in Above(to) : nodes[q] \notin Content
            BY <2>1 DEF TreeIInv, FileInTheWay
        <3>2. Listed(Moved(nodes, from, to))
            BY <1>0, <2>1, <3>1, MovedListed
        <3> QED
            BY <2>1, <3>2
    <2>4. misused' \in BOOLEAN /\ (misused => misused')
        BY <2>1
    <2> QED
        BY <2>1, <2>2, <2>3, <2>4, TreeStep
<1>6. ASSUME NEW p \in Path, NEW q \in Path, VfsCp(p, q) PROVE TreeIInv' /\ savedTree' = savedTree
    BY <1>1, <1>6 DEF VfsCp
<1> QED
    BY <1>0, <1>1, <1>2, <1>3, <1>4, <1>5, <1>6 DEF VfsEdit

LEMMA CallKeeps ==
    ASSUME TreeIInv, VfsCall
    PROVE  TreeIInv'
<1>1. CASE VfsEdit
    BY <1>1, EditKeeps
<1>2. CASE VfsSnapshot
    BY <1>2 DEF VfsSnapshot, TreeIInv, TreeTypeOK
<1>3. CASE VfsRestore
    BY <1>3 DEF VfsRestore, TreeIInv, TreeTypeOK
<1> QED
    BY <1>1, <1>2, <1>3 DEF VfsCall

LEMMA InitTree == TreeInit => TreeIInv
<1>1. EmptyTree \in Tree /\ Listed(EmptyTree)
    BY DEF EmptyTree, Tree, Node, Listed
<1> QED
    BY <1>1 DEF TreeInit, TreeIInv, TreeTypeOK

----------------------------------------------------------------------------
(* Mounting a directory.                                                   *)

\* What the walk has stored is as on disk, unless the session changed it since.
MountIInv ==
  /\ TreeIInv
  /\ mount \in {"none", "walking", "done", "failed"}
  /\ changed \subseteq stored /\ stored \subseteq Items
  /\ mount = "none" => stored = {}
  /\ mount = "done" => Items \subseteq stored
  /\ \A p \in stored : nodes[p] = OnDisk[p] \/ p \in changed

LEMMA InitMount == MountInit => MountIInv
    BY InitTree DEF MountInit, MountIInv

LEMMA NextMount == MountIInv /\ [MountNext]_diskMountVars => MountIInv'
<1> SUFFICES ASSUME MountIInv, [MountNext]_diskMountVars PROVE MountIInv'
    OBVIOUS
<1>0. nodes \in Tree /\ misused \in BOOLEAN /\ TreeIInv
    BY DEF MountIInv, TreeIInv, TreeTypeOK
<1>1. CASE UNCHANGED diskMountVars
    BY <1>1 DEF diskMountVars, inMount, treeVars, MountIInv, TreeIInv, TreeTypeOK
\* One node is set, over whatever is there.
<1>2. ASSUME NEW p \in Path, NEW x \in Node, nodes' = [nodes EXCEPT ![p] = x], savedTree' = savedTree,
             misused' \in BOOLEAN, misused => misused',
             ~ misused' => (\A q \in Above(p) : nodes[q] = Folder) /\ (nodes[p] = Folder => x = Folder)
      PROVE  TreeIInv'
    <2>1. nodes' \in Tree
        BY <1>0, <1>2 DEF Tree
    <2>2. ASSUME ~ misused' PROVE Listed(nodes')
        <3>1. Listed(nodes)
            BY <1>0, <1>2, <2>2 DEF TreeIInv
        <3> QED
            BY <1>0, <1>2, <2>2, <3>1, SetListed
    <2> QED
        BY <1>0, <1>2, <2>1, <2>2, TreeStep
<1>3. CASE MountStart
    <2>1. /\ nodes' = [nodes EXCEPT ![Target] = Folder] /\ savedTree' = savedTree
          /\ misused' = (misused \/ \E q \in Above(Target) : nodes[q] # Folder)
          /\ mount = "none" /\ mount' = "walking" /\ UNCHANGED <<stored, changed>>
        BY <1>3 DEF MountStart
    <2>2. TreeIInv'
        <3>1. Folder \in Node /\ misused' \in BOOLEAN /\ (misused => misused')
            BY <2>1 DEF Node
        <3>2. ~ misused' => \A q \in Above(Target) : nodes[q] = Folder
            BY <2>1
        <3> QED
            BY <1>2, <2>1, <3>1, <3>2, TargetAssumption
    <2> QED
        BY <2>1, <2>2 DEF MountIInv
<1>4. ASSUME NEW p \in Path, MountStore(p) PROVE MountIInv'
    <2>1. /\ nodes' = [nodes EXCEPT ![p] = OnDisk[p]] /\ savedTree' = savedTree
          /\ misused' = (misused \/ (\E q \in Above(p) : nodes[q] # Folder)
                                 \/ (nodes[p] = Folder /\ OnDisk[p] # Folder))
          /\ mount = "walking" /\ p \in Items \ stored /\ stored' = stored \cup {p}
          /\ UNCHANGED <<mount, changed>>
        BY <1>4 DEF MountStore
    <2>2. TreeIInv'
        <3>1. OnDisk[p] \in Node /\ misused' \in BOOLEAN /\ (misused => misused')
            BY <2>1, MountAssumption DEF Tree
        <3>2. ~ misused' => (\A q \in Above(p) : nodes[q] = Folder) /\ (nodes[p] = Folder => OnDisk[p] = Folder)
            BY <2>1
        <3> QED
            BY <1>2, <2>1, <3>1, <3>2
    <2>3. \A q \in Path : nodes'[q] = IF q = p THEN OnDisk[p] ELSE nodes[q]
        BY <1>0, <2>1 DEF Tree
    <2> QED
        BY <2>1, <2>2, <2>3 DEF MountIInv, Items
<1>5. CASE MountEnds
    BY <1>5 DEF MountEnds, treeVars, MountIInv, TreeIInv, TreeTypeOK
<1>6. CASE MountFails
    BY <1>6 DEF MountFails, treeVars, MountIInv, TreeIInv, TreeTypeOK
<1>7. CASE SessionCalls
    <2>1. /\ changed' = changed \cup (Changed(nodes, nodes') \cap stored)
          /\ UNCHANGED <<mount, stored>> /\ VfsCall
        BY <1>7 DEF SessionCalls
    <2>2. \A p \in stored : p \in Path /\ (nodes'[p] = nodes[p] \/ p \in changed')
        BY <2>1 DEF Changed, Items, MountIInv
    <2> QED
        BY <1>0, <2>1, <2>2, CallKeeps DEF MountIInv
<1> QED
    BY <1>1, <1>3, <1>4, <1>5, <1>6, <1>7 DEF MountNext

LEMMA MountHolds == MountIInv => MountTypeOK /\ MountedUnlessChanged /\ ListedUnlessMisused
<1> SUFFICES ASSUME MountIInv PROVE MountTypeOK /\ MountedUnlessChanged /\ ListedUnlessMisused
    OBVIOUS
<1>1. ListedUnlessMisused
    BY ListedIsSeen DEF MountIInv, TreeIInv, ListedUnlessMisused
<1>2. MountTypeOK
    BY DEF MountIInv, TreeIInv, MountTypeOK, Items
<1>3. MountedUnlessChanged
    BY DEF MountIInv, MountedUnlessChanged
<1> QED
    BY <1>1, <1>2, <1>3

\* When mountFromDisk() has returned, what was on disk is in the VFS, but for what
\* the session changed after it was copied; and it can all be listed (vfs/vfs.ts).
THEOREM MountBringsTheDisk == MountSpec => [](MountedUnlessChanged /\ ListedUnlessMisused)
    BY InitMount, NextMount, MountHolds, PTL DEF MountSpec

----------------------------------------------------------------------------
(* Mounting a repository.                                                  *)

\* Every file of the repository is loaded, skipped or still to be fetched, and one
\* that is loaded is as in the repository unless the session changed it since.
GitIInv ==
  /\ TreeIInv
  /\ git \in {"none", "listing", "fetching", "done", "failed"}
  /\ filesToFetch \subseteq Blobs /\ loaded \subseteq Blobs /\ alteredSince \subseteq loaded
  /\ filesLoaded \in Nat /\ skipped \in Nat
  /\ filesToFetch \cap loaded = {}
  /\ git \in {"none", "listing"} => loaded = {}
  /\ git = "done" => filesToFetch = {}
  /\ filesLoaded = Cardinality(loaded)
  /\ git \in {"fetching", "done"} =>
       filesLoaded + skipped + Cardinality(filesToFetch) = Cardinality(Blobs)
  /\ \A p \in loaded : nodes[p] = Repository[p] \/ p \in alteredSince

LEMMA BlobsCounted ==
    ASSUME NEW files \in SUBSET Blobs
    PROVE  /\ IsFiniteSet(files) /\ Cardinality(files) \in Nat
           /\ Cardinality(files) <= Cardinality(Blobs) /\ Cardinality(Blobs) \in Nat
<1>1. Blobs \in SUBSET {p \in Path : Repository[p] # None}
    BY NodeAssumption DEF Blobs
<1>2. IsFiniteSet({p \in Path : Repository[p] # None})
    BY RepositoryAssumption
<1>3. IsFiniteSet(Blobs)
    BY <1>1, <1>2, FS_Subset
<1> QED
    BY <1>3, FS_Subset, FS_CardinalityType

LEMMA InitGit == GitInit => GitIInv
    BY InitTree, FS_EmptySet DEF GitInit, GitIInv

\* In the repository a file has no file above it.
LEMMA BlobsApart ==
    ASSUME NEW p \in Blobs, NEW q \in Blobs
    PROVE  q \notin Above(p)
<1> SUFFICES ASSUME q \in Above(p) PROVE FALSE
    OBVIOUS
<1>1. /\ Repository[p] # None /\ Repository[q] # None /\ Repository[q] # Folder
      /\ p \in Path /\ q \in Path
    BY NodeAssumption DEF Blobs
<1>2. q \in Below(Target)
    BY <1>1, RepositoryAssumption
<1> QED
    BY <1>1, <1>2, RepositoryAssumption

LEMMA ListingKeeps ==
    ASSUME nodes \in Tree, Listed(nodes), \A q \in Above(Target) : nodes[q] = Folder
    PROVE  Listed([p \in Path |-> IF p \in Trees \cup {Target} THEN Folder ELSE nodes[p]])
<1> DEFINE u == [p \in Path |-> IF p \in Trees \cup {Target} THEN Folder ELSE nodes[p]]
<1>1. \A p \in Path : u[p] = IF p \in Trees \cup {Target} THEN Folder ELSE nodes[p]
    OBVIOUS
<1> HIDE DEF u
<1>2. ASSUME NEW q \in Path, u[q] # None, NEW r \in Above(q) PROVE u[r] = Folder
    <2>1. r \in Path
        BY OnTheWay
    <2>2. CASE q \in Trees
        <3>1. Repository[q] # None /\ Target \in Above(q)
            BY <2>2, NodeAssumption, RepositoryAssumption DEF Trees, Below
        <3>2. CASE r = Target
            BY <1>1, <2>1, <3>2
        <3>3. CASE r \in Above(Target)
            BY <1>1, <2>1, <3>3
        <3>4. CASE Target \in Above(r)
            BY <1>1, <2>1, <3>1, <3>4, RepositoryAssumption DEF Below, Trees
        <3> QED
            BY <3>1, <3>2, <3>3, <3>4, OneAboveTheOther
    <2>3. CASE q = Target
        BY <1>1, <1>2, <2>1, <2>3
    <2>4. CASE q \notin Trees \cup {Target}
        BY <1>1, <1>2, <2>1, <2>4 DEF Listed
    <2> QED
        BY <2>2, <2>3, <2>4
<1> QED
    BY <1>2 DEF Listed, u

LEMMA PutAllIs ==
    ASSUME nodes \in Tree, NEW files \in SUBSET Blobs
    PROVE  LET u == PutAll(nodes, files)
           IN  /\ u \in Tree
               /\ \A q \in files : u[q] = Repository[q]
               /\ \A q \in Path \ files :
                    u[q] = IF nodes[q] = None /\ files \cap Below(q) # {} THEN Folder ELSE nodes[q]
<1>1. \A q \in Blobs : q \in Path /\ Repository[q] \in Node
    BY DEF Blobs, Node
<1>2. \A q \in Path : nodes[q] \in Node
    BY DEF Tree
<1>3. PutAll(nodes, files) \in Tree
    <2>1. \A q \in Path : (IF q \in files THEN Repository[q]
                    ELSE IF nodes[q] = None /\ files \cap Below(q) # {} THEN Folder ELSE nodes[q]) \in Node
        BY <1>1, <1>2 DEF Node
    <2> QED
        BY <2>1 DEF PutAll, Tree
<1> QED
    BY <1>1, <1>3 DEF PutAll

LEMMA BatchKeeps ==
    ASSUME nodes \in Tree, Listed(nodes), NEW files \in SUBSET Blobs,
           \A p \in files : ~ FileInTheWay(p) /\ nodes[p] # Folder
    PROVE  Listed(PutAll(nodes, files))
<1> DEFINE u == PutAll(nodes, files)
<1>0. \A p \in Blobs : p \in Path
    BY DEF Blobs
<1>1. /\ \A q \in files : u[q] = Repository[q]
      /\ \A q \in Path \ files :
           u[q] = IF nodes[q] = None /\ files \cap Below(q) # {} THEN Folder ELSE nodes[q]
    BY PutAllIs
<1> HIDE DEF u
<1>2. ASSUME NEW q \in Path, u[q] # None, NEW r \in Above(q) PROVE u[r] = Folder
    <2>1. r \in Path
        BY OnTheWay
    <2>2. ASSUME NEW f \in files, r \in Above(f) PROVE u[r] = Folder
        <3>1. r \notin files
            BY <2>2, BlobsApart
        <3>2. f \in files \cap Below(r)
            BY <1>0, <2>2 DEF Below
        <3>3. nodes[r] \in {None, Folder}
            BY <2>1, <2>2 DEF FileInTheWay, Tree, Node
        <3> QED
            BY <1>1, <2>1, <3>1, <3>2, <3>3
    <2>3. CASE q \in files
        BY <1>2, <2>2, <2>3
    <2>4. CASE \E f \in files : f \in Below(q)
        <3>1. PICK f \in files : f \in Below(q)
            BY <2>4
        <3>2. r \in Above(f)
            BY <1>0, <1>2, <3>1, AboveTransitive DEF Below
        <3> QED
            BY <2>2, <3>2
    <2>5. CASE q \notin files /\ files \cap Below(q) = {}
        <3>1. nodes[r] = Folder
            BY <1>1, <1>2, <2>5 DEF Listed
        <3>2. r \notin files
            BY <3>1
        <3> QED
            BY <1>1, <2>1, <3>1, <3>2, NodeAssumption
    <2> QED
        BY <2>3, <2>4, <2>5
<1> QED
    BY <1>2 DEF Listed, u

LEMMA NextGit == GitIInv /\ [GitNext]_gitVars => GitIInv'
<1> SUFFICES ASSUME GitIInv, [GitNext]_gitVars PROVE GitIInv'
    OBVIOUS
<1>0. nodes \in Tree /\ misused \in BOOLEAN /\ TreeIInv
    BY DEF GitIInv, TreeIInv, TreeTypeOK
<1>1. CASE UNCHANGED gitVars
    BY <1>1 DEF gitVars, inGit, treeVars, GitIInv, TreeIInv, TreeTypeOK
<1>2. CASE GitStart
    BY <1>2 DEF GitStart, treeVars, GitIInv, TreeIInv, TreeTypeOK
<1>3. CASE GitListing
    <2>1. PICK chosen \in SUBSET (Blobs \ LeftOut) :
             /\ filesToFetch' = chosen
             /\ skipped' = Cardinality(Blobs) - Cardinality(chosen)
        BY <1>3 DEF GitListing
    <2>2. /\ git = "listing" /\ git' = "fetching" /\ savedTree' = savedTree
          /\ UNCHANGED <<filesLoaded, loaded, alteredSince>>
          /\ nodes' = [p \in Path |-> IF p \in Trees \cup {Target} THEN Folder ELSE nodes[p]]
          /\ misused' = (misused \/ \E q \in Above(Target) : nodes[q] # Folder)
        BY <1>3 DEF GitListing
    <2>3. TreeIInv'
        <3>1. nodes' \in Tree
            BY <1>0, <2>2 DEF Tree, Node
        <3>2. misused' \in BOOLEAN /\ (misused => misused')
            BY <2>2
        <3>3. ASSUME ~ misused' PROVE Listed(nodes')
            <4>1. Listed(nodes) /\ \A q \in Above(Target) : nodes[q] = Folder
                BY <1>0, <2>2, <3>3 DEF TreeIInv
            <4> QED
                BY <1>0, <2>2, <4>1, ListingKeeps
        <3> QED
            BY <1>0, <2>2, <3>1, <3>2, <3>3, TreeStep
    <2>4. filesLoaded = 0 /\ loaded = {}
        BY <2>2, FS_EmptySet DEF GitIInv
    <2>5. Cardinality(chosen) \in Nat /\ Cardinality(Blobs) \in Nat /\ Cardinality(chosen) <= Cardinality(Blobs)
        <3>1. chosen \in SUBSET Blobs
            OBVIOUS
        <3> QED
            BY <3>1, BlobsCounted
    <2>6. skipped' \in Nat /\ filesLoaded + skipped' + Cardinality(chosen) = Cardinality(Blobs)
        BY <2>1, <2>4, <2>5
    <2> QED
        BY <2>1, <2>2, <2>3, <2>4, <2>6 DEF GitIInv
<1>4. CASE GitBatch
    <2>0. PICK batch \in Batches : \E came \in SUBSET batch :
             /\ nodes' = PutAll(nodes, came)
             /\ misused' = (misused \/ \E p \in came : FileInTheWay(p) \/ nodes[p] = Folder)
             /\ filesToFetch' = filesToFetch \ batch
             /\ filesLoaded' = filesLoaded + Cardinality(came)
             /\ skipped' = skipped + Cardinality(batch \ came)
             /\ loaded' = loaded \cup came
        BY <1>4 DEF GitBatch
    <2>1. PICK came \in SUBSET batch :
             /\ nodes' = PutAll(nodes, came)
             /\ misused' = (misused \/ \E p \in came : FileInTheWay(p) \/ nodes[p] = Folder)
             /\ filesToFetch' = filesToFetch \ batch
             /\ filesLoaded' = filesLoaded + Cardinality(came)
             /\ skipped' = skipped + Cardinality(batch \ came)
             /\ loaded' = loaded \cup came
        BY <2>0
    <2>2. git = "fetching" /\ UNCHANGED <<savedTree, git, alteredSince>>
        BY <1>4 DEF GitBatch
    <2>3. batch \subseteq filesToFetch /\ batch \in SUBSET Blobs /\ came \in SUBSET Blobs
        BY DEF Batches, GitIInv
    <2>4. TreeIInv'
        <3>1. nodes' \in Tree
            BY <1>0, <2>1, <2>3, PutAllIs
        <3>2. misused' \in BOOLEAN /\ (misused => misused')
            BY <2>1
        <3>3. ASSUME ~ misused' PROVE Listed(nodes')
            <4>1. Listed(nodes) /\ \A p \in came : ~ FileInTheWay(p) /\ nodes[p] # Folder
                BY <1>0, <2>1, <3>3 DEF TreeIInv
            <4> QED
                BY <1>0, <2>1, <2>3, <4>1, BatchKeeps
        <3> QED
            BY <1>0, <2>2, <3>1, <3>2, <3>3, TreeStep
    <2>5. /\ Cardinality(loaded') = Cardinality(loaded) + Cardinality(came)
          /\ Cardinality(batch \ came) = Cardinality(batch) - Cardinality(came)
          /\ Cardinality(filesToFetch') = Cardinality(filesToFetch) - Cardinality(batch)
          /\ \A files \in {loaded, came, batch, batch \ came, filesToFetch, filesToFetch'} : Cardinality(files) \in Nat
        <3>1. \A files \in SUBSET Blobs : IsFiniteSet(files) /\ Cardinality(files) \in Nat
            BY BlobsCounted
        <3>2. /\ loaded \in SUBSET Blobs /\ filesToFetch \in SUBSET Blobs
              /\ filesToFetch \cap loaded = {} /\ loaded \cap came = {}
            BY <2>3 DEF GitIInv
        <3>3. Cardinality(loaded \cup came) = Cardinality(loaded) + Cardinality(came) - Cardinality(loaded \cap came)
            BY <2>3, <3>1, <3>2, FS_Union
        <3>4. /\ Cardinality(batch \ came) = Cardinality(batch) - Cardinality(batch \cap came)
              /\ Cardinality(filesToFetch \ batch) = Cardinality(filesToFetch) - Cardinality(filesToFetch \cap batch)
            BY <2>3, <3>1, <3>2, FS_Difference
        <3>5. batch \cap came = came /\ filesToFetch \cap batch = batch
            BY <2>3
        <3>6. \A files \in {loaded, came, batch, batch \ came, filesToFetch, filesToFetch'} : files \in SUBSET Blobs
            BY <2>1, <2>3, <3>2
        <3>7. \A files \in {loaded, came, batch, batch \ came, filesToFetch, filesToFetch'} : Cardinality(files) \in Nat
            BY <3>1, <3>6
        <3>8. Cardinality(loaded \cap came) = 0
            BY <3>2, FS_EmptySet
        <3>9. Cardinality(loaded \cup came) = Cardinality(loaded) + Cardinality(came)
            BY <3>3, <3>7, <3>8
        <3> QED
            BY <2>1, <3>4, <3>5, <3>7, <3>9
    <2>6. /\ filesLoaded' \in Nat /\ skipped' \in Nat /\ filesLoaded' = Cardinality(loaded')
          /\ filesLoaded' + skipped' + Cardinality(filesToFetch') = Cardinality(Blobs)
        <3>1. /\ filesLoaded \in Nat /\ skipped \in Nat /\ filesLoaded = Cardinality(loaded)
              /\ filesLoaded + skipped + Cardinality(filesToFetch) = Cardinality(Blobs)
            BY <2>2 DEF GitIInv
        <3> QED
            BY <2>1, <2>5, <3>1
    <2>7. ASSUME NEW p \in loaded' PROVE nodes'[p] = Repository[p] \/ p \in alteredSince
        <3>1. CASE p \in came
            BY <1>0, <2>1, <2>3, <3>1, PutAllIs
        <3>2. CASE p \notin came
            <4>1. p \in loaded /\ p \in Path /\ Repository[p] # None
                BY <2>1, <2>7, <3>2, NodeAssumption DEF GitIInv, Blobs
            <4>2. nodes[p] = Repository[p] => nodes'[p] = nodes[p]
                BY <1>0, <2>1, <2>3, <3>2, <4>1, PutAllIs
            <4> QED
                BY <4>1, <4>2 DEF GitIInv
        <3> QED
            BY <3>1, <3>2
    <2> QED
        BY <2>1, <2>2, <2>3, <2>4, <2>6, <2>7 DEF GitIInv
<1>5. CASE GitEnds
    BY <1>5 DEF GitEnds, treeVars, GitIInv, TreeIInv, TreeTypeOK
<1>6. CASE GitFails
    BY <1>6 DEF GitFails, treeVars, GitIInv, TreeIInv, TreeTypeOK
<1>7. CASE GitSession
    <2>1. /\ alteredSince' = alteredSince \cup (Changed(nodes, nodes') \cap loaded)
          /\ UNCHANGED <<git, filesToFetch, filesLoaded, skipped, loaded>> /\ VfsEdit
        BY <1>7 DEF GitSession
    <2>2. \A p \in loaded : p \in Path /\ (nodes'[p] = nodes[p] \/ p \in alteredSince')
        BY <2>1 DEF Changed, Blobs, GitIInv
    <2>3. TreeIInv'
        BY <1>0, <2>1, EditKeeps
    <2> QED
        BY <2>1, <2>2, <2>3 DEF GitIInv
<1> QED
    BY <1>1, <1>2, <1>3, <1>4, <1>5, <1>6, <1>7 DEF GitNext

LEMMA GitHolds == GitIInv => GitTypeOK /\ GitResultIsTrue
<1> SUFFICES ASSUME GitIInv PROVE GitTypeOK /\ GitResultIsTrue
    OBVIOUS
<1>1. GitTypeOK
    BY DEF GitIInv, TreeIInv, GitTypeOK
<1>2. GitResultIsTrue
    <2> SUFFICES ASSUME git = "done"
                 PROVE  /\ filesLoaded + skipped = Cardinality(Blobs)
                        /\ filesLoaded = Cardinality(loaded)
                        /\ \A p \in loaded : nodes[p] = Repository[p] \/ p \in alteredSince
        BY DEF GitResultIsTrue
    <2>1. Cardinality(filesToFetch) = 0
        BY FS_EmptySet DEF GitIInv
    <2> QED
        BY <2>1 DEF GitIInv
<1> QED
    BY <1>1, <1>2

----------------------------------------------------------------------------
(* A container on a copy of a directory.                                   *)

\* What a container has done, and what of it the VFS has: the path is still to
\* come, or has it, or the session changed it since.
RunIInv ==
  /\ TreeIInv
  /\ dir \in [Path -> Content \cup {None}] /\ syncBack \in BOOLEAN
  /\ run \in {"none", "copying", "running", "reading", "cleaning", "done", "failed"}
  /\ copied \subseteq Path /\ before \subseteq Path /\ dated \subseteq FilesOf(dir)
  /\ unreadFiles \subseteq FilesOf(dir) /\ redone \subseteq Path
  /\ run \in {"none", "copying"} => dated = {} /\ before = {}
  /\ run \in {"none", "copying", "running"} => unreadFiles = {}
  /\ run \in {"running", "reading"} => FilesOf(dir) \subseteq before \cup dated
  /\ run = "reading" => syncBack /\ unreadFiles \subseteq dated
  /\ run \in {"reading", "cleaning", "done"} /\ syncBack =>
       \A p \in dated \cup before :
         p \in dated \/ dir[p] = None => p \in StillToCome \/ nodes[p] = dir[p] \/ p \in redone

LEMMA InitRun == RunInit => RunIInv
<1>1. EmptyTree \in [Path -> Content \cup {None}]
    BY DEF EmptyTree
<1> QED
    BY <1>1, InitTree DEF RunInit, RunIInv

LEMMA ToComeIs ==
  /\ run = "reading" => StillToCome = unreadFiles \cup (before \ FilesOf(dir))
  /\ run \in {"cleaning", "done", "failed"} => StillToCome = {}
  /\ run' = "reading" => StillToCome' = unreadFiles' \cup (before' \ FilesOf(dir'))
  /\ run' \in {"cleaning", "done", "failed"} => StillToCome' = {}
    BY DEF StillToCome, FilesOf

LEMMA NextRun == RunIInv /\ [RunNext]_runVars => RunIInv'
<1> SUFFICES ASSUME RunIInv, [RunNext]_runVars PROVE RunIInv'
    OBVIOUS
<1>0. /\ nodes \in Tree /\ misused \in BOOLEAN /\ TreeIInv
      /\ \A d : FilesOf(d) = {p \in Path : d[p] # None}
    BY DEF RunIInv, TreeIInv, TreeTypeOK, FilesOf
\* A step that leaves the VFS alone, and the run where nothing is read back yet.
<1>1. ASSUME UNCHANGED treeVars PROVE TreeIInv'
    BY <1>0, <1>1 DEF treeVars, TreeIInv, TreeTypeOK
<1>2. CASE UNCHANGED runVars
    <2>1. TreeIInv'
        BY <1>1, <1>2 DEF runVars
    <2>2. StillToCome' = StillToCome /\ FilesOf(dir)' = FilesOf(dir)
        BY <1>2 DEF runVars, inRun, StillToCome, FilesOf
    <2> QED
        BY <1>2, <2>1, <2>2 DEF runVars, inRun, treeVars, RunIInv
<1>3. CASE RunStart
    <2>1. FilesOf(dir)' = FilesOf(dir)
        BY <1>3 DEF RunStart, FilesOf
    <2> QED
        BY <1>1, <1>3, <2>1 DEF RunStart, RunIInv
<1>4. ASSUME NEW p \in Path, CopyNode(p) PROVE RunIInv'
    <2>1. dir' \in [Path -> Content \cup {None}]
        <3>1. nodes[p] # Folder => nodes[p] \in Content \cup {None}
            BY <1>0 DEF Tree, Node
        <3> QED
            BY <1>4, <3>1 DEF CopyNode, RunIInv
    <2>2. FilesOf(dir) \subseteq FilesOf(dir')
        <3>1. \A q \in Path : dir[q] # None => dir'[q] # None
            BY <1>4 DEF CopyNode, RunIInv
        <3> QED
            BY <3>1 DEF FilesOf
    <2>3. FilesOf(dir)' = FilesOf(dir')
        BY DEF FilesOf
    <2> QED
        BY <1>1, <1>4, <2>1, <2>2, <2>3 DEF CopyNode, RunIInv
<1>5. CASE CopyEnds
    <2>1. FilesOf(dir)' = FilesOf(dir) /\ FilesOf(dir) \subseteq Path
        BY <1>5 DEF CopyEnds, FilesOf
    <2> QED
        BY <1>1, <1>5, <2>1 DEF CopyEnds, RunIInv
<1>6. ASSUME NEW p \in Path, NEW x \in Content, ContainerWrites(p, x) PROVE RunIInv'
    <2>1. dir' \in [Path -> Content \cup {None}] /\ dir' = [dir EXCEPT ![p] = x]
        BY <1>6 DEF ContainerWrites, RunIInv
    <2>2. FilesOf(dir)' = FilesOf(dir) \cup {p}
        BY <2>1, NodeAssumption DEF FilesOf, RunIInv
    <2> QED
        BY <1>1, <1>6, <2>1, <2>2 DEF ContainerWrites, RunIInv
<1>7. ASSUME NEW p \in Path, ContainerRemoves(p) PROVE RunIInv'
    <2>1. dir' \in [Path -> Content \cup {None}] /\ dir' = [dir EXCEPT ![p] = None]
        BY <1>7 DEF ContainerRemoves, RunIInv
    <2>2. FilesOf(dir)' = FilesOf(dir) \ {p}
        BY <2>1 DEF FilesOf, RunIInv
    <2> QED
        BY <1>1, <1>7, <2>1, <2>2 DEF ContainerRemoves, RunIInv
<1>8. CASE DockerReturns
    <2>1. /\ run = "running" /\ run' = IF syncBack THEN "reading" ELSE "cleaning"
          /\ unreadFiles' = IF syncBack THEN {p \in FilesOf(dir) : p \notin before \/ p \in dated} ELSE {}
          /\ UNCHANGED <<treeVars, syncBack, copied, dir, before, dated, redone>>
        BY <1>8 DEF DockerReturns
    <2>2. FilesOf(dir)' = FilesOf(dir) /\ FilesOf(dir') = FilesOf(dir)
        BY <2>1 DEF FilesOf
    <2>3. FilesOf(dir) \subseteq before \cup dated /\ dated \subseteq FilesOf(dir) /\ before \subseteq Path
        BY <2>1 DEF RunIInv
    <2>4. CASE syncBack
        <3>1. run' = "reading" /\ StillToCome' = unreadFiles' \cup (before \ FilesOf(dir))
            BY <2>1, <2>2, <2>4, ToComeIs
        <3>2. \A p \in dated \cup before : p \in dated \/ dir[p] = None => p \in StillToCome'
            BY <1>0, <2>1, <2>3, <2>4, <3>1
        <3>3. unreadFiles' \subseteq dated
            BY <2>1, <2>3, <2>4
        <3> QED
            BY <1>1, <2>1, <2>2, <2>3, <2>4, <3>1, <3>2, <3>3 DEF RunIInv
    <2>5. CASE ~ syncBack
        BY <1>1, <2>1, <2>2, <2>3, <2>5 DEF RunIInv
    <2> QED
        BY <2>4, <2>5
<1>9. ASSUME NEW p \in Path, ReadBack(p) PROVE RunIInv'
    <2>1. /\ run = "reading" /\ p \in unreadFiles /\ VfsWrite(p, dir[p])
          /\ unreadFiles' = unreadFiles \ {p}
          /\ UNCHANGED <<run, syncBack, copied, dir, before, dated, redone>>
        BY <1>9 DEF ReadBack
    <2>2. dir[p] \in Content
        BY <1>0, <2>1 DEF RunIInv
    <2>3. TreeIInv'
        BY <1>0, <2>1, <2>2, WriteKeeps
    <2>4. FilesOf(dir)' = FilesOf(dir) /\ FilesOf(dir') = FilesOf(dir)
        BY <2>1 DEF FilesOf
    <2>5. /\ StillToCome = unreadFiles \cup (before \ FilesOf(dir))
          /\ StillToCome' = (unreadFiles \ {p}) \cup (before \ FilesOf(dir))
        BY <2>1, <2>4, ToComeIs
    <2>6. /\ nodes'[p] = dir[p]
          /\ \A q \in Path \ {p} : nodes[q] # None => nodes'[q] = nodes[q]
        <3>1. dir[p] \in Node /\ nodes' = Put(nodes, p, dir[p])
            BY <2>1, <2>2 DEF Node, VfsWrite
        <3> QED
            BY <1>0, <3>1, PutListed
    <2>7. ASSUME NEW q \in dated \cup before, q \in dated \/ dir[q] = None
          PROVE  q \in StillToCome' \/ nodes'[q] = dir[q] \/ q \in redone
        <3>1. q \in Path /\ (q \in StillToCome \/ nodes[q] = dir[q] \/ q \in redone)
            BY <1>0, <2>1, <2>7 DEF RunIInv
        <3>2. CASE q = p
            BY <2>6, <3>2
        <3>3. CASE q # p /\ q \in StillToCome
            BY <2>5, <3>3
        <3>4. CASE q # p /\ q \notin StillToCome
            <4>1. dir[q] # None
                BY <1>0, <2>5, <2>7, <3>1, <3>4 DEF RunIInv
            <4> QED
                BY <2>6, <3>1, <3>4, <4>1
        <3> QED
            BY <3>2, <3>3, <3>4
    <2> QED
        BY <2>1, <2>3, <2>4, <2>7 DEF RunIInv
<1>10. CASE RemoveBack
    <2> DEFINE gone == before \ FilesOf(dir)
    <2>1. /\ run = "reading" /\ unreadFiles = {} /\ run' = "cleaning"
          /\ nodes' = [p \in Path |-> IF p \in gone THEN None ELSE nodes[p]]
          /\ misused' = (misused \/ \E p \in gone : nodes[p] = Folder)
          /\ UNCHANGED <<savedTree, syncBack, copied, dir, before, dated, unreadFiles, redone>>
        BY <1>10 DEF RemoveBack
    <2>2. gone \in SUBSET Path /\ \A p \in gone : dir[p] = None
        BY <1>0 DEF RunIInv
    <2>3. StillToCome = gone /\ StillToCome' = {}
        BY <2>1, ToComeIs
    <2> HIDE DEF gone
    <2>4. TreeIInv'
        <3>1. nodes' \in Tree
            BY <1>0, <2>1 DEF Tree, Node
        <3>2. misused' \in BOOLEAN /\ (misused => misused')
            BY <2>1
        <3>3. ASSUME ~ misused' PROVE Listed(nodes')
            <4>1. Listed(nodes) /\ \A p \in gone : nodes[p] # Folder
                BY <1>0, <2>1, <3>3 DEF TreeIInv
            <4> QED
                BY <1>0, <2>1, <2>2, <4>1, WithoutListed
        <3> QED
            BY <1>0, <2>1, <3>1, <3>2, <3>3, TreeStep
    <2>5. FilesOf(dir)' = FilesOf(dir)
        BY <2>1 DEF FilesOf
    <2>6. ASSUME NEW q \in dated \cup before, q \in dated \/ dir[q] = None
          PROVE  nodes'[q] = dir[q] \/ q \in redone
        <3>1. q \in Path /\ (q \in gone \/ nodes[q] = dir[q] \/ q \in redone)
            BY <1>0, <2>1, <2>3, <2>6 DEF RunIInv
        <3> QED
            BY <2>1, <2>2, <3>1
    <2> QED
        BY <2>1, <2>4, <2>5, <2>6 DEF RunIInv
<1>11. ASSUME RunEnds \/ RunFails PROVE RunIInv'
    <2>1. /\ UNCHANGED <<treeVars, syncBack, copied, dir, before, dated, unreadFiles, redone>>
          /\ (run = "cleaning" /\ run' = "done") \/ run' = "failed"
        BY <1>11 DEF RunEnds, RunFails
    <2>2. FilesOf(dir)' = FilesOf(dir) /\ nodes' = nodes
        BY <2>1 DEF FilesOf, treeVars
    <2>3. run = "cleaning" => StillToCome = {}
        BY ToComeIs
    <2> QED
        BY <1>1, <2>1, <2>2, <2>3 DEF RunIInv
<1>12. CASE RunSession
    <2>1. /\ copied' = {p \in copied : nodes'[p] # None}
          /\ redone' = redone \cup (Changed(nodes, nodes') \ StillToCome)
          /\ UNCHANGED <<run, syncBack, dir, before, dated, unreadFiles>> /\ VfsEdit
        BY <1>12 DEF RunSession
    <2>2. StillToCome' = StillToCome /\ FilesOf(dir)' = FilesOf(dir)
        BY <2>1 DEF StillToCome, FilesOf
    <2>3. \A q \in Path : nodes'[q] = nodes[q] \/ q \in StillToCome \/ q \in redone'
        BY <2>1 DEF Changed
    <2>4. TreeIInv'
        BY <1>0, <2>1, EditKeeps
    <2>5. redone' \subseteq Path /\ redone \subseteq redone' /\ copied' \subseteq Path
        BY <2>1 DEF Changed, RunIInv
    <2>6. ASSUME run \in {"reading", "cleaning", "done"}, syncBack,
                 NEW q \in dated \cup before, q \in dated \/ dir[q] = None
          PROVE  q \in StillToCome \/ nodes'[q] = dir[q] \/ q \in redone'
        <3>1. q \in Path /\ (q \in StillToCome \/ nodes[q] = dir[q] \/ q \in redone)
            BY <1>0, <2>6 DEF RunIInv
        <3> QED
            BY <2>3, <2>5, <3>1
    <2> QED
        BY <2>1, <2>2, <2>4, <2>5, <2>6 DEF RunIInv
<1> QED
    BY <1>2, <1>3, <1>4, <1>5, <1>6, <1>7, <1>8, <1>9, <1>10, <1>11, <1>12 DEF RunNext

LEMMA RunHolds == RunIInv => RunTypeOK /\ ContainersWorkArrives
<1> SUFFICES ASSUME RunIInv PROVE RunTypeOK /\ ContainersWorkArrives
    OBVIOUS
<1>1. RunTypeOK
    <2>1. dir \in Tree
        BY DEF RunIInv, Tree, Node
    <2> QED
        BY <2>1 DEF RunIInv, TreeIInv, RunTypeOK, FilesOf
<1>2. ContainersWorkArrives
    BY ToComeIs DEF RunIInv, ContainersWorkArrives
<1> QED
    BY <1>1, <1>2

\* Reading back touches what the container wrote or removed, and directories on the way.
LEMMA ReadBackTouches ==
    ASSUME RunIInv, RemoveBack \/ (\E p \in Path : ReadBack(p)), NEW q \in Changed(nodes, nodes')
    PROVE  \/ q \in dated
           \/ q \in before /\ dir[q] = None
           \/ nodes[q] = None /\ nodes'[q] = Folder /\ dated \cap Below(q) # {}
<1>0. q \in Path /\ nodes'[q] # nodes[q]
    BY DEF Changed
<1>1. ASSUME NEW p \in Path, ReadBack(p)
      PROVE  q \in dated \/ (nodes[q] = None /\ nodes'[q] = Folder /\ dated \cap Below(q) # {})
    <2>1. p \in dated /\ nodes' = Put(nodes, p, dir[p])
        BY <1>1 DEF ReadBack, RunIInv, VfsWrite
    <2>2. q # p => q \in Above(p) /\ nodes[q] = None /\ nodes'[q] = Folder
        BY <1>0, <2>1 DEF Put
    <2>3. q # p => p \in dated \cap Below(q)
        BY <2>1, <2>2 DEF Below
    <2> QED
        BY <2>1, <2>2, <2>3
<1>2. ASSUME RemoveBack PROVE q \in before /\ dir[q] = None
    BY <1>0, <1>2 DEF RemoveBack, FilesOf
<1> QED
    BY <1>1, <1>2

----------------------------------------------------------------------------
(* The parts side by side.                                                 *)

\* In no part does time do anything but pass.
LEMMA TimePasses == SecretNext \/ StateNext \/ JarNext \/ ConfigNext => Tick \/ now' = now
<1>1. ASSUME SecretNext PROVE Tick \/ now' = now
    BY <1>1 DEF SecretNext, SecretSet, SecretGet, SecretHas, SecretDelete, RotateKey, RotateToMalformed,
                SecretCount, TakeSnapshot, Damage, SecretRestore, SecretTick
<1>2. ASSUME StateNext PROVE Tick \/ now' = now
    BY <1>2 DEF StateNext, StateSet, StateGet, StateHas, StateDelete, StateKeys, StateSnapshot,
                StateRestore, SaveStart, SaveEnds, LoadRead, LoadRestore, StateTick
<1>3. ASSUME JarNext PROVE Tick \/ now' = now
    BY <1>3 DEF JarNext, JarSet, JarClear, JarFetch, JarAnswer, JarFetchFails, ClearAll, JarTick
<1>4. ASSUME ConfigNext PROVE Tick \/ now' = now
    BY <1>4 DEF ConfigNext, ConfigCall, SaveMadeDir, FileExists, ReadJson, WriteBegins, WriteEnds, SaveFails,
                ListReads, ConfigDelete, Restart, ConfigTick
<1> QED
    BY <1>1, <1>2, <1>3, <1>4

\* So each of the parts without a tree takes a step of its own or none.
LEMMA PartsStep ==
    [StoresNext]_storesVars =>
      /\ [SecretNext]_secretVars /\ [StateNext]_stateVars /\ [JarNext]_jarVars /\ [ConfigNext]_configVars
<1> SUFFICES ASSUME [StoresNext]_storesVars
             PROVE  /\ [SecretNext]_secretVars /\ [StateNext]_stateVars
                    /\ [JarNext]_jarVars /\ [ConfigNext]_configVars
    OBVIOUS
<1>1. Tick \/ now' = now
    BY TimePasses DEF StoresNext, storesVars
<1>2. SecretNext \/ UNCHANGED inVaultVars
    BY DEF StoresNext, storesVars, vaults
<1>3. StateNext \/ UNCHANGED inStoreVars
    BY DEF StoresNext, storesVars, stores
<1>4. JarNext \/ UNCHANGED inJarVars
    BY DEF StoresNext, storesVars, jars
<1>5. ConfigNext \/ UNCHANGED inConfigs
    BY DEF StoresNext, storesVars, configs
<1>6. [SecretNext]_secretVars
    BY <1>1, <1>2 DEF SecretNext, SecretTick, secretVars
<1>7. [StateNext]_stateVars
    BY <1>1, <1>3 DEF StateNext, StateTick, stateVars
<1>8. [JarNext]_jarVars
    BY <1>1, <1>4 DEF JarNext, JarTick, jarVars
<1>9. [ConfigNext]_configVars
    BY <1>1, <1>5 DEF ConfigNext, ConfigTick, configVars
<1> QED
    BY <1>6, <1>7, <1>8, <1>9

\* The parts that share a tree: where one moves the others have not begun.
TransfersIInv ==
  /\ MountIInv /\ GitIInv /\ RunIInv
  /\ part # "mount" => mount = "none"
  /\ part # "git" => git = "none"
  /\ part # "docker" => run = "none"

LEMMA MountIdle == MountIInv /\ mount = "none" /\ UNCHANGED inMount /\ TreeIInv' => MountIInv'
    BY DEF MountIInv, inMount

LEMMA GitIdle == GitIInv /\ git = "none" /\ UNCHANGED inGit /\ TreeIInv' => GitIInv'
    BY DEF GitIInv, inGit

LEMMA RunIdle == RunIInv /\ run = "none" /\ UNCHANGED inRun /\ TreeIInv' => RunIInv'
<1> SUFFICES ASSUME RunIInv, run = "none", UNCHANGED inRun, TreeIInv' PROVE RunIInv'
    OBVIOUS
<1>1. FilesOf(dir)' = FilesOf(dir)
    BY DEF inRun, FilesOf
<1> QED
    BY <1>1 DEF RunIInv, inRun

LEMMA NextTransfers == TransfersIInv /\ [StoresNext]_storesVars => TransfersIInv'
<1> SUFFICES ASSUME TransfersIInv, [StoresNext]_storesVars PROVE TransfersIInv'
    OBVIOUS
<1>0. TreeIInv /\ part' = part
    BY DEF TransfersIInv, MountIInv, StoresNext, storesVars
<1>1. CASE UNCHANGED <<treeVars, inMount, inGit, inRun>>
    <2>1. MountIInv'
        BY <1>1, NextMount DEF diskMountVars, TransfersIInv
    <2>2. GitIInv'
        BY <1>1, NextGit DEF gitVars, TransfersIInv
    <2>3. RunIInv'
        BY <1>1, NextRun DEF runVars, TransfersIInv
    <2> QED
        BY <1>0, <1>1, <2>1, <2>2, <2>3 DEF TransfersIInv, inMount, inGit, inRun
<1>2. CASE part = "mount" /\ MountNext /\ UNCHANGED <<inGit, inRun>>
    <2>1. MountIInv' /\ TreeIInv'
        BY <1>2, NextMount DEF TransfersIInv, MountIInv
    <2>2. GitIInv' /\ RunIInv'
        BY <1>2, <2>1, GitIdle, RunIdle DEF TransfersIInv
    <2> QED
        BY <1>0, <1>2, <2>1, <2>2 DEF TransfersIInv, inGit, inRun
<1>3. CASE part = "git" /\ GitNext /\ UNCHANGED <<inMount, inRun>>
    <2>1. GitIInv' /\ TreeIInv'
        BY <1>3, NextGit DEF TransfersIInv, GitIInv
    <2>2. MountIInv' /\ RunIInv'
        BY <1>3, <2>1, MountIdle, RunIdle DEF TransfersIInv
    <2> QED
        BY <1>0, <1>3, <2>1, <2>2 DEF TransfersIInv, inMount, inRun
<1>4. CASE part = "docker" /\ RunNext /\ UNCHANGED <<inMount, inGit>>
    <2>1. RunIInv' /\ TreeIInv'
        BY <1>4, NextRun DEF TransfersIInv, RunIInv
    <2>2. MountIInv' /\ GitIInv'
        BY <1>4, <2>1, MountIdle, GitIdle DEF TransfersIInv
    <2> QED
        BY <1>0, <1>4, <2>1, <2>2 DEF TransfersIInv, inMount, inGit
<1> QED
    BY <1>1, <1>2, <1>3, <1>4 DEF StoresNext, storesVars

StoresIInv == VaultIInv /\ StateIInv /\ JarTypeOK /\ ConfigIInv /\ TransfersIInv

LEMMA InitStores == StoresInit => StoresIInv
<1> SUFFICES ASSUME StoresInit PROVE StoresIInv
    OBVIOUS
<1>1. MountIInv /\ GitIInv /\ RunIInv
    BY InitMount, InitGit, InitRun DEF StoresInit
<1>2. mount = "none" /\ git = "none" /\ run = "none"
    BY DEF StoresInit, MountInit, GitInit, RunInit
<1> QED
    BY <1>1, <1>2, InitVault, InitState, InitJar, InitConfig DEF StoresInit, StoresIInv, TransfersIInv

LEMMA NextStores == StoresIInv /\ [StoresNext]_storesVars => StoresIInv'
    BY PartsStep, NextVault, NextState, NextJar, NextConfig, NextTransfers DEF StoresIInv

THEOREM StoresInvariant == StoresSpec => []StoresIInv
    BY InitStores, NextStores, PTL DEF StoresSpec

\* Every store, call and transfer keeps to its types, whatever the others do.
THEOREM StoresTyped == StoresSpec => []StoresTypeOK
<1>1. VaultIInv => SecretTypeOK
    BY DEF VaultIInv, Vault, Snapshot, SecretTypeOK
<1>2. StateIInv => StateTypeOK
    BY DEF StateIInv, StateTypeOK
<1>3. ConfigIInv => ConfigTypeOK
    BY DEF ConfigIInv, ConfigTypeOK, ConfigCalls
<1>4. StoresIInv => StoresTypeOK
    BY <1>1, <1>2, <1>3, MountHolds, GitHolds, RunHolds DEF StoresIInv, TransfersIInv, StoresTypeOK
<1> QED
    BY <1>4, StoresInvariant, PTL

\* When a transfer into the VFS is done, all of it is there but for what the
\* session changed afterwards, its result counts every file, and everything can be
\* reached by listing directories (vfs/vfs.ts, wrappers/docker.ts).
THEOREM TransfersBringAll == StoresSpec => []TransfersArrive
<1>1. StoresIInv => TransfersArrive
    BY MountHolds, GitHolds, RunHolds DEF StoresIInv, TransfersIInv, TransfersArrive
<1> QED
    BY <1>1, StoresInvariant, PTL

\* A late answer loses no cookie, a save no first date unless it was overtaken, and
\* reading back no file that the container left alone (secrets/auth.ts,
\* server/config-store.ts, wrappers/docker.ts).
THEOREM OverlapsKeepAll == StoresSpec => OverlapsLoseNothing
<1>1. StoresIInv /\ [StoresNext]_storesVars =>
        [\A d \in Domain, c \in Cookie :
           LiveCookie(jar[d][c]) /\ jar'[d][c] = None => JarClear(d) \/ ClearAll]_jarVars
    BY PartsStep, CookiesLast DEF StoresIInv
<1>2. StoresIInv =>
        [\A c \in Call : WriteEnds(c) /\ lineage \notin {None, lineage'} => calls[c].raced]_configVars
    BY LineageKept DEF StoresIInv
<1>3. StoresIInv =>
        [(RemoveBack \/ \E p \in Path : ReadBack(p)) =>
           \A q \in Changed(nodes, nodes') :
             \/ q \in dated
             \/ q \in before /\ dir[q] = None
             \/ nodes[q] = None /\ nodes'[q] = Folder /\ dated \cap Below(q) # {}]_runVars
    BY ReadBackTouches DEF StoresIInv, TransfersIInv
<1> QED
    BY <1>1, <1>2, <1>3, StoresInvariant, PTL
       DEF StoresSpec, OverlapsLoseNothing, NoCookieLost, SavedAtLostOnlyByOverlap, ReadBackKeepsOthers

\* Also side by side with the others both stores are maps with expiry.
THEOREM StoresImplementMaps == StoresSpec => SecretStoreIsMap /\ StateStoreIsMap
<1>1. StoresInit => SecretInit /\ StateInit
    BY DEF StoresInit
<1> QED
    BY <1>1, PartsStep, SecretsImplementMap, StatesImplementMap, PTL DEF StoresSpec, SecretSpec, StateSpec

=============================================================================
