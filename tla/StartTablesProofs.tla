--------------------------- MODULE StartTablesProofs ---------------------------
(***************************************************************************)
(* The constant tables, for any eips and any files.  An entry's place does  *)
(* not matter to what a full table decides, so each list of writes is taken *)
(* as the set of its elements, and what a table says of a packet or a frame *)
(* follows from the entries that match it and the best priority among them. *)
(***************************************************************************)
EXTENDS StartTables, FiniteSetTheorems, TLAPS

(* Sequences by their elements.                                             *)

(* The library's induction theorems take an operator; this form of them     *)
(* takes a set.                                                             *)
LEMMA SetInduction ==
    ASSUME NEW S, 0 \in S, \A n \in Nat : n \in S => n + 1 \in S
    PROVE  Nat \subseteq S
  <1> SUFFICES ASSUME Nat \ S # {} PROVE FALSE
    OBVIOUS
  <1> DEFINE R == OpToRel(<, Nat)
  <1>1. IsWellFoundedOn(R, Nat)
    BY NatLessThanWellFounded
  <1>2. \A x \in Nat, y \in Nat : y < x => <<y, x>> \in R
    BY DEF OpToRel
  <1> HIDE DEF R
  <1>3. PICK x \in Nat \ S : \A y \in Nat \ S : ~ (<<y, x>> \in R)
    <2>1. (Nat \ S) \subseteq Nat
      OBVIOUS
    <2> QED
      BY <1>1, <2>1, WFMin
  <1>4. x # 0 /\ x - 1 \in Nat /\ x - 1 < x
    BY <1>3
  <1>5. x - 1 \in S
    BY <1>2, <1>3, <1>4
  <1> QED
    BY <1>3, <1>4, <1>5

(* A sequence by what is in it: the order of the entries does not matter to *)
(* a table, only their priorities do.                                       *)
Elements(s) == {s[i] : i \in 1..Len(s)}
IsSeq(s) == s \in Seq(Elements(s))

(* The elements of a sequence over T are in T.                              *)
LEMMA ElementsIn ==
    ASSUME NEW T, NEW s \in Seq(T)
    PROVE  IsSeq(s) /\ Elements(s) \subseteq T /\ Len(s) \in Nat
  <1>1. Len(s) \in Nat /\ \A i \in 1..Len(s) : s[i] \in T
    OBVIOUS
  <1>2. s \in [1..Len(s) -> Elements(s)]
    BY <1>1 DEF Elements
  <1>3. PICK E : E = Elements(s)
    OBVIOUS
  <1>4. s \in Seq(E)
    BY <1>1, <1>2, <1>3
  <1>5. Elements(s) \subseteq T
    BY <1>1 DEF Elements
  <1> QED
    BY <1>1, <1>3, <1>4, <1>5 DEF IsSeq

(* Sequences written out.                                                   *)
LEMMA ShortSeqs ==
    /\ IsSeq(<<>>) /\ Elements(<<>>) = {}
    /\ \A a : IsSeq(<<a>>) /\ Elements(<<a>>) = {a}
    /\ \A a, b : IsSeq(<<a, b>>) /\ Elements(<<a, b>>) = {a, b}
    /\ \A a, b, c : IsSeq(<<a, b, c>>) /\ Elements(<<a, b, c>>) = {a, b, c}
  <1>1. 1..0 = {} /\ 1..1 = {1} /\ 1..2 = {1, 2} /\ 1..3 = {1, 2, 3}
    OBVIOUS
  <1>2. IsSeq(<<>>) /\ Elements(<<>>) = {}
    BY DEF IsSeq, Elements
  <1>3. \A a : IsSeq(<<a>>) /\ Elements(<<a>>) = {a}
    BY <1>1 DEF IsSeq, Elements
  <1>4. \A a, b : IsSeq(<<a, b>>) /\ Elements(<<a, b>>) = {a, b}
    BY <1>1 DEF IsSeq, Elements
  <1>5. \A a, b, c : IsSeq(<<a, b, c>>) /\ Elements(<<a, b, c>>) = {a, b, c}
    BY <1>1 DEF IsSeq, Elements
  <1> QED
    BY <1>2, <1>3, <1>4, <1>5

(* Longer ones.                                                             *)
LEMMA LongSeqs ==
    /\ \A a, b, c, d : IsSeq(<<a, b, c, d>>) /\ Elements(<<a, b, c, d>>) = {a, b, c, d}
    /\ \A a, b, c, d, e : IsSeq(<<a, b, c, d, e>>) /\ Elements(<<a, b, c, d, e>>) = {a, b, c, d, e}
    /\ \A a, b, c, d, e, f : /\ IsSeq(<<a, b, c, d, e, f>>)
                             /\ Elements(<<a, b, c, d, e, f>>) = {a, b, c, d, e, f}
  <1>1. 1..4 = {1, 2, 3, 4} /\ 1..5 = {1, 2, 3, 4, 5} /\ 1..6 = {1, 2, 3, 4, 5, 6}
    OBVIOUS
  <1>2. \A a, b, c, d : IsSeq(<<a, b, c, d>>) /\ Elements(<<a, b, c, d>>) = {a, b, c, d}
    BY <1>1 DEF IsSeq, Elements
  <1>3. \A a, b, c, d, e : IsSeq(<<a, b, c, d, e>>) /\ Elements(<<a, b, c, d, e>>) = {a, b, c, d, e}
    BY <1>1 DEF IsSeq, Elements
  <1>4. \A a, b, c, d, e, f : /\ IsSeq(<<a, b, c, d, e, f>>)
                             /\ Elements(<<a, b, c, d, e, f>>) = {a, b, c, d, e, f}
    BY <1>1 DEF IsSeq, Elements
  <1> QED
    BY <1>2, <1>3, <1>4

(* A function on 1..n is a sequence.                                        *)
LEMMA FunctionElements ==
    ASSUME NEW s, NEW n \in Nat, s = [i \in 1..n |-> s[i]]
    PROVE  IsSeq(s) /\ Len(s) = n /\ Elements(s) = {s[i] : i \in 1..n}
  <1>1. \A T : (\A i \in 1..n : s[i] \in T) => s \in Seq(T) /\ Len(s) = n
    OBVIOUS
  <1>2. s \in Seq({s[i] : i \in 1..n}) /\ Len(s) = n
    BY <1>1
  <1> QED
    BY <1>2 DEF IsSeq, Elements

(* The elements of two sequences joined, and where they stand.              *)
LEMMA ConcatElements ==
    ASSUME NEW s, NEW t, IsSeq(s), IsSeq(t)
    PROVE  /\ IsSeq(s \o t)
           /\ Elements(s \o t) = Elements(s) \union Elements(t)
           /\ Len(s) \in Nat /\ Len(t) \in Nat /\ Len(s \o t) = Len(s) + Len(t)
           /\ \A i \in 1..Len(s) : (s \o t)[i] = s[i]
           /\ \A i \in 1..Len(t) : (s \o t)[i + Len(s)] = t[i]
  <1> DEFINE T == Elements(s) \union Elements(t)
  <1>1. s \in Seq(T) /\ t \in Seq(T)
    <2>1. s \in Seq(Elements(s)) /\ t \in Seq(Elements(t))
      BY DEF IsSeq
    <2> HIDE DEF T
    <2>2. Elements(s) \subseteq T /\ Elements(t) \subseteq T
      BY DEF T
    <2> QED
      BY <2>1, <2>2
  <1>2. /\ s \o t \in Seq(T) /\ Len(s \o t) = Len(s) + Len(t) /\ Len(s) \in Nat /\ Len(t) \in Nat
        /\ \A i \in 1..Len(s) + Len(t) : (s \o t)[i] = IF i <= Len(s) THEN s[i] ELSE t[i - Len(s)]
    <2> HIDE DEF T
    <2> QED
      BY <1>1
  <1>3. Elements(s) \subseteq Elements(s \o t)
    BY <1>2 DEF Elements
  <1>4. \A i \in 1..Len(t) : i + Len(s) \in 1..Len(s) + Len(t) /\ (s \o t)[i + Len(s)] = t[i]
    BY <1>2
  <1>5. Elements(t) \subseteq Elements(s \o t)
    BY <1>2, <1>4 DEF Elements
  <1>6. IsSeq(s \o t) /\ Elements(s \o t) \subseteq T
    <2> HIDE DEF T
    <2> QED
      BY <1>2, ElementsIn
  <1> QED
    BY <1>2, <1>3, <1>4, <1>6, <1>5

(* A sequence joined of four parts.                                         *)
LEMMA FourParts ==
    ASSUME NEW a, NEW b, NEW c, NEW d, IsSeq(a), IsSeq(b), IsSeq(c), IsSeq(d)
    PROVE  LET w == ((a \o b) \o c) \o d IN
           /\ IsSeq(w) /\ Elements(w) = Elements(a) \union Elements(b) \union Elements(c) \union Elements(d)
           /\ Len(w) \in Nat /\ Len(a) \in Nat /\ Len(b) \in Nat /\ Len(w) >= Len(a) + Len(b)
           /\ \A i \in 1..Len(a) : w[i] = a[i]
           /\ \A i \in 1..Len(b) : w[i + Len(a)] = b[i]
  <1>1. PICK w : w = ((a \o b) \o c) \o d
    OBVIOUS
  <1>2. PICK ab : ab = a \o b
    OBVIOUS
  <1>3. PICK abc : abc = ab \o c
    OBVIOUS
  <1>4. /\ IsSeq(ab) /\ Elements(ab) = Elements(a) \union Elements(b)
        /\ Len(ab) = Len(a) + Len(b) /\ Len(a) \in Nat /\ Len(b) \in Nat
        /\ \A i \in 1..Len(a) : ab[i] = a[i]
        /\ \A i \in 1..Len(b) : ab[i + Len(a)] = b[i]
    BY <1>2, ConcatElements
  <1>5. /\ IsSeq(abc) /\ Elements(abc) = Elements(ab) \union Elements(c)
        /\ Len(abc) = Len(ab) + Len(c) /\ Len(c) \in Nat
        /\ \A i \in 1..Len(ab) : abc[i] = ab[i]
    BY <1>3, <1>4, ConcatElements
  <1>6. /\ IsSeq(w) /\ Elements(w) = Elements(abc) \union Elements(d)
        /\ Len(w) = Len(abc) + Len(d) /\ Len(d) \in Nat
        /\ \A i \in 1..Len(abc) : w[i] = abc[i]
    BY <1>1, <1>2, <1>3, <1>5, ConcatElements
  <1>7. \A i \in 1..Len(ab) : w[i] = ab[i]
    BY <1>4, <1>5, <1>6
  <1>8. \A i \in 1..Len(b) : i + Len(a) \in 1..Len(ab)
    BY <1>4
  <1>9. \A i \in 1..Len(a) : i \in 1..Len(ab)
    BY <1>4
  <1> QED
    BY <1>1, <1>4, <1>5, <1>6, <1>7, <1>8, <1>9

(* And of seven.                                                            *)
LEMMA SevenParts ==
    ASSUME NEW a, NEW b, NEW c, NEW d, NEW e, NEW f, NEW g,
           IsSeq(a), IsSeq(b), IsSeq(c), IsSeq(d), IsSeq(e), IsSeq(f), IsSeq(g)
    PROVE  LET w == a \o b \o c \o d \o e \o f \o g
           IN  /\ IsSeq(w)
               /\ Elements(w) = Elements(a) \union Elements(b) \union Elements(c) \union Elements(d)
                                \union Elements(e) \union Elements(f) \union Elements(g)
  <1>1. PICK w : w = a \o b \o c \o d
    OBVIOUS
  <1>2. IsSeq(w) /\ Elements(w) = Elements(a) \union Elements(b) \union Elements(c) \union Elements(d)
    BY <1>1, FourParts
  <1>3. PICK x : x = w \o e \o f \o g
    OBVIOUS
  <1>4. IsSeq(x) /\ Elements(x) = Elements(w) \union Elements(e) \union Elements(f) \union Elements(g)
    BY <1>2, <1>3, FourParts
  <1> QED
    BY <1>1, <1>2, <1>3, <1>4

(* The recursive function inside FlattenSeq exists, so its equation holds.  *)
LEMMA FlattenFunction ==
    ASSUME NEW ss, NEW n \in Nat
    PROVE  \E g : g = [i \in 1..n |-> IF i = 1 THEN ss[i] ELSE g[i-1] \o ss[i]]
  <1> DEFINE Upto(m) == \E g : g = [i \in 1..m |-> IF i = 1 THEN ss[i] ELSE g[i-1] \o ss[i]]
             S == {m \in Nat : Upto(m)}
  <1>1. Upto(0)
    <2> DEFINE g == [i \in 1..0 |-> ss[i]]
    <2>1. g = [i \in 1..0 |-> IF i = 1 THEN ss[i] ELSE g[i-1] \o ss[i]]
      OBVIOUS
    <2> HIDE DEF g
    <2> QED
      BY <2>1
  <1>2. ASSUME NEW m \in Nat, Upto(m) PROVE Upto(m + 1)
    <2>1. PICK g : g = [i \in 1..m |-> IF i = 1 THEN ss[i] ELSE g[i-1] \o ss[i]]
      BY <1>2
    <2> DEFINE e == IF m = 0 THEN ss[1] ELSE g[m] \o ss[m + 1]
               h == [i \in 1..m + 1 |-> IF i = m + 1 THEN e ELSE g[i]]
    <2>2. \A i \in 1..m + 1 : h[i] = IF i = m + 1 THEN e ELSE g[i]
      OBVIOUS
    <2>3. \A i \in 1..m : g[i] = IF i = 1 THEN ss[i] ELSE g[i-1] \o ss[i]
      <3> DEFINE G == [i \in 1..m |-> IF i = 1 THEN ss[i] ELSE g[i-1] \o ss[i]]
      <3>1. \A i \in 1..m : G[i] = IF i = 1 THEN ss[i] ELSE g[i-1] \o ss[i]
        OBVIOUS
      <3>2. g = G
        BY <2>1
      <3> HIDE DEF G
      <3> QED
        BY <3>1, <3>2
    <2>4. DOMAIN h = 1..m + 1 /\ h = [i \in 1..m + 1 |-> h[i]]
      OBVIOUS
    <2> HIDE DEF h
    <2>5. \A i \in 1..m + 1 : h[i] = IF i = 1 THEN ss[i] ELSE h[i-1] \o ss[i]
      <3> SUFFICES ASSUME NEW i \in 1..m + 1
                   PROVE  h[i] = IF i = 1 THEN ss[i] ELSE h[i-1] \o ss[i]
        OBVIOUS
      <3>1. CASE i # m + 1
        <4>1. i \in 1..m /\ (i # 1 => i - 1 \in 1..m + 1 /\ i - 1 # m + 1)
          BY <3>1
        <4>2. h[i] = g[i] /\ (i # 1 => h[i-1] = g[i-1])
          BY <2>2, <3>1, <4>1
        <4> QED
          BY <2>3, <4>1, <4>2
      <3>2. CASE i = m + 1 /\ m = 0
        BY <2>2, <3>2
      <3>3. CASE i = m + 1 /\ m # 0
        <4>1. m \in 1..m + 1 /\ i - 1 = m /\ m # m + 1 /\ i # 1
          BY <3>3
        <4>2. h[m] = g[m] /\ h[i] = g[m] \o ss[m + 1]
          BY <2>2, <3>3, <4>1
        <4> QED
          BY <3>3, <4>1, <4>2
      <3> QED
        BY <3>1, <3>2, <3>3
    <2>6. h = [i \in 1..m + 1 |-> IF i = 1 THEN ss[i] ELSE h[i-1] \o ss[i]]
      BY <2>4, <2>5
    <2> QED
      BY <2>6
  <1> HIDE DEF Upto
  <1>3. 0 \in S /\ \A m \in Nat : m \in S => m + 1 \in S
    BY <1>1, <1>2
  <1> HIDE DEF S
  <1>4. Nat \subseteq S
    BY <1>3, SetInduction
  <1> QED
    BY <1>4 DEF S, Upto

(* FlattenSeq, by the equations of the function inside it.                  *)
LEMMA FlattenEquations ==
    ASSUME NEW ss, NEW n \in Nat, n = Len(ss)
    PROVE  \E flat : /\ SeqExt!FlattenSeq(ss) = IF n = 0 THEN ss ELSE flat[n]
                     /\ \A i \in 1..n : flat[i] = IF i = 1 THEN ss[i] ELSE flat[i-1] \o ss[i]
  <1> DEFINE Is(g) == g = [i \in 1..n |-> IF i = 1 THEN ss[i] ELSE g[i-1] \o ss[i]]
             flat == CHOOSE g : Is(g)
  <1>1. SeqExt!FlattenSeq(ss) = IF n = 0 THEN ss ELSE flat[n]
    BY DEF SeqExt!FlattenSeq
  <1>2. \E g : Is(g)
    BY FlattenFunction
  <1> HIDE DEF Is
  <1>3. Is(flat)
    BY <1>2
  <1> HIDE DEF flat
  <1>4. \A i \in 1..n : flat[i] = IF i = 1 THEN ss[i] ELSE flat[i-1] \o ss[i]
    <2> DEFINE G == [i \in 1..n |-> IF i = 1 THEN ss[i] ELSE flat[i-1] \o ss[i]]
    <2>1. \A i \in 1..n : G[i] = IF i = 1 THEN ss[i] ELSE flat[i-1] \o ss[i]
      OBVIOUS
    <2>2. flat = G
      BY <1>3 DEF Is
    <2> HIDE DEF G
    <2> QED
      BY <2>1, <2>2
  <1> QED
    BY <1>1, <1>4

(* It returns the elements of all the sequences and no other, those of the  *)
(* first one first.                                                         *)
LEMMA FlattenElements ==
    ASSUME NEW ss, Len(ss) \in Nat, Len(ss) = 0 => ss = <<>>, \A i \in 1..Len(ss) : IsSeq(ss[i])
    PROVE  /\ IsSeq(SeqExt!FlattenSeq(ss))
           /\ Elements(SeqExt!FlattenSeq(ss)) = UNION {Elements(ss[i]) : i \in 1..Len(ss)}
           /\ Len(ss) # 0 => /\ Len(SeqExt!FlattenSeq(ss)) >= Len(ss[1])
                             /\ \A k \in 1..Len(ss[1]) : SeqExt!FlattenSeq(ss)[k] = ss[1][k]
  <1>1. PICK n : n = Len(ss)
    OBVIOUS
  <1>2. n \in Nat /\ (\A i \in 1..n : IsSeq(ss[i])) /\ (n = 0 => ss = <<>>)
    BY <1>1
  <1>3. PICK flat : /\ SeqExt!FlattenSeq(ss) = IF n = 0 THEN ss ELSE flat[n]
                    /\ \A i \in 1..n : flat[i] = IF i = 1 THEN ss[i] ELSE flat[i-1] \o ss[i]
    BY <1>1, <1>2, FlattenEquations
  <1> DEFINE Upto(m) == m \in 1..n => /\ IsSeq(flat[m])
                                      /\ Elements(flat[m]) = UNION {Elements(ss[i]) : i \in 1..m}
                                      /\ Len(flat[m]) \in Nat /\ Len(flat[m]) >= Len(ss[1])
                                      /\ \A k \in 1..Len(ss[1]) : flat[m][k] = ss[1][k]
             S == {m \in Nat : Upto(m)}
  <1>4. Upto(0)
    OBVIOUS
  <1>5. ASSUME NEW m \in Nat, Upto(m) PROVE Upto(m + 1)
    <2> SUFFICES ASSUME m + 1 \in 1..n
                 PROVE  /\ IsSeq(flat[m + 1])
                        /\ Elements(flat[m + 1]) = UNION {Elements(ss[i]) : i \in 1..m + 1}
                        /\ Len(flat[m + 1]) \in Nat /\ Len(flat[m + 1]) >= Len(ss[1])
                        /\ \A k \in 1..Len(ss[1]) : flat[m + 1][k] = ss[1][k]
      OBVIOUS
    <2>0. Len(ss[1]) \in Nat
      BY <1>2 DEF IsSeq
    <2>1. CASE m = 0
      <3>1. flat[m + 1] = ss[1] /\ IsSeq(ss[1]) /\ 1..m + 1 = {1}
        BY <1>2, <1>3, <2>1
      <3> QED
        BY <2>0, <3>1
    <2>2. CASE m # 0
      <3>1. m \in 1..n /\ m + 1 # 1 /\ (m + 1) - 1 = m
        BY <1>2, <2>2
      <3>2. flat[m + 1] = flat[m] \o ss[m + 1]
        BY <1>3, <3>1
      <3>3. /\ IsSeq(flat[m]) /\ Elements(flat[m]) = UNION {Elements(ss[i]) : i \in 1..m}
            /\ Len(flat[m]) >= Len(ss[1]) /\ \A k \in 1..Len(ss[1]) : flat[m][k] = ss[1][k]
        BY <1>5, <3>1
      <3>4. IsSeq(ss[m + 1])
        BY <1>2
      <3>5. 1..m + 1 = (1..m) \union {m + 1}
        OBVIOUS
      <3>6. /\ IsSeq(flat[m + 1]) /\ Elements(flat[m + 1]) = Elements(flat[m]) \union Elements(ss[m + 1])
            /\ Len(flat[m]) \in Nat /\ Len(flat[m + 1]) \in Nat /\ Len(flat[m + 1]) >= Len(flat[m])
            /\ \A k \in 1..Len(flat[m]) : flat[m + 1][k] = flat[m][k]
        <4>1. PICK x, y, z : x = flat[m] /\ y = ss[m + 1] /\ z = flat[m + 1]
          OBVIOUS
        <4>2. IsSeq(x) /\ IsSeq(y) /\ z = x \o y
          BY <3>2, <3>3, <3>4, <4>1
        <4>3. /\ IsSeq(z) /\ Elements(z) = Elements(x) \union Elements(y)
              /\ Len(x) \in Nat /\ Len(y) \in Nat /\ Len(z) = Len(x) + Len(y)
              /\ \A k \in 1..Len(x) : z[k] = x[k]
          BY <4>2, ConcatElements
        <4>4. Len(z) \in Nat /\ Len(z) >= Len(x)
          BY <4>3
        <4> QED
          BY <4>1, <4>3, <4>4
      <3>7. Elements(flat[m + 1]) = UNION {Elements(ss[i]) : i \in 1..m + 1}
        BY <3>3, <3>5, <3>6
      <3>8. Len(flat[m + 1]) >= Len(ss[1]) /\ \A k \in 1..Len(ss[1]) : k \in 1..Len(flat[m])
        <4>1. PICK x, y, z : x = Len(flat[m]) /\ y = Len(ss[1]) /\ z = Len(flat[m + 1])
          OBVIOUS
        <4>2. x \in Nat /\ y \in Nat /\ z \in Nat /\ z >= x /\ x >= y
          BY <2>0, <3>3, <3>6, <4>1
        <4>3. z >= y /\ \A k \in 1..y : k \in 1..x
          BY <4>2
        <4> QED
          BY <4>1, <4>3
      <3> QED
        BY <3>3, <3>6, <3>7, <3>8
    <2> QED
      BY <2>1, <2>2
  <1> HIDE DEF Upto
  <1>6. 0 \in S /\ \A m \in Nat : m \in S => m + 1 \in S
    BY <1>4, <1>5
  <1> HIDE DEF S
  <1>7. Nat \subseteq S
    BY <1>6, SetInduction
  <1>8. Upto(n)
    BY <1>2, <1>7 DEF S
  <1>9. CASE n = 0
    <2>1. SeqExt!FlattenSeq(ss) = <<>>
      BY <1>2, <1>3, <1>9
    <2>2. {Elements(ss[i]) : i \in 1..n} = {}
      BY <1>9
    <2>3. IsSeq(<<>>) /\ Elements(<<>>) = {}
      BY ShortSeqs
    <2> QED
      BY <1>1, <1>9, <2>1, <2>2, <2>3
  <1>10. CASE n # 0
    <2>1. SeqExt!FlattenSeq(ss) = flat[n] /\ n \in 1..n
      BY <1>2, <1>3, <1>10
    <2> QED
      BY <1>1, <1>8, <2>1 DEF Upto
  <1> QED
    BY <1>9, <1>10

-----------------------------------------------------------------------------
(* What a table decides.                                                    *)

(* The entries that decide, of those written, whatever their order.         *)
Hits(writes, table, fields) == {e \in Elements(writes) : e.table = table /\ Matches(fields, e)}

(* The verdict of all the writes, by their hits.                            *)
LEMMA VerdictOfElements ==
    ASSUME NEW writes, IsSeq(writes), NEW table, NEW fields
    PROVE  Verdict(writes, Len(writes), table, fields)
               = {e.act : e \in {h \in Hits(writes, table, fields) :
                                     \A k \in Hits(writes, table, fields) : h.pri <= k.pri}}
  BY DEF Verdict, Hits, Elements

(* What a hit is, entry by entry.                                           *)
LEMMA HitOfVerdict ==
    ASSUME NEW writes, NEW n, NEW table, NEW fields, Verdict(writes, n, table, fields) # {}
    PROVE  \E i \in 1..n : writes[i].table = table /\ Matches(fields, writes[i])
  BY DEF Verdict

(* Where all hits have one action and one priority, that is the verdict.    *)
LEMMA OneVerdict ==
    ASSUME NEW writes, IsSeq(writes), NEW table, NEW fields, NEW act,
           Hits(writes, table, fields) # {}, \A e \in Hits(writes, table, fields) : e.act = act,
           \A e, k \in Hits(writes, table, fields) : e.pri <= k.pri
    PROVE  Verdict(writes, Len(writes), table, fields) = {act}
  <1>1. PICK v : v = Verdict(writes, Len(writes), table, fields)
    OBVIOUS
  <1>2. PICK hits : hits = Hits(writes, table, fields)
    OBVIOUS
  <1>3. v = {e.act : e \in {h \in hits : \A k \in hits : h.pri <= k.pri}}
    BY <1>2, <1>1, VerdictOfElements
  <1>4. v = {act}
    BY <1>2, <1>3
  <1> QED
    BY <1>1, <1>4

(* The hit with the best priority decides.                                  *)
LEMMA BestVerdict ==
    ASSUME NEW writes, IsSeq(writes), NEW table, NEW fields,
           NEW best \in Hits(writes, table, fields),
           \A e \in Hits(writes, table, fields) :
               best.pri <= e.pri /\ (e.act = best.act \/ ~ (e.pri <= best.pri))
    PROVE  Verdict(writes, Len(writes), table, fields) = {best.act}
  <1>1. PICK v, hits : v = Verdict(writes, Len(writes), table, fields) /\ hits = Hits(writes, table, fields)
    OBVIOUS
  <1>2. v = {e.act : e \in {h \in hits : \A k \in hits : h.pri <= k.pri}}
    BY <1>1, VerdictOfElements
  <1>3. best \in hits /\ \A e \in hits : best.pri <= e.pri /\ (e.act = best.act \/ ~ (e.pri <= best.pri))
    BY <1>1
  <1>4. v = {best.act}
    BY <1>2, <1>3
  <1> QED
    BY <1>1, <1>4

(* Where nothing hits, no action.                                           *)
LEMMA NoVerdict ==
    ASSUME NEW writes, IsSeq(writes), NEW table, NEW fields, Hits(writes, table, fields) = {}
    PROVE  Verdict(writes, Len(writes), table, fields) = {}
  BY VerdictOfElements

(* An entry with a better priority that matches keeps another from deciding.*)
LEMMA Beaten ==
    ASSUME NEW writes, NEW n, NEW table, NEW fields, NEW act,
           \A j \in 1..n : /\ writes[j].table = table /\ Matches(fields, writes[j]) /\ writes[j].act = act
                           => \E k \in 1..n : /\ writes[k].table = table /\ Matches(fields, writes[k])
                                              /\ ~ (writes[j].pri <= writes[k].pri)
    PROVE  act \notin Verdict(writes, n, table, fields)
  BY DEF Verdict

(* The two truth values, by names that the provers treat like any other     *)
(* value of a field.                                                        *)
Flags(yes, no) == yes = TRUE /\ no = FALSE

(* A key asks for what k asks.                                              *)
KeyIs(fields, k) == \A n \in DOMAIN k : fields[n] = k[n]

(* An entry asks for what both parts of its key ask for.                    *)
LEMMA MatchesAnd ==
    ASSUME NEW fields, NEW table, NEW pri, NEW k1, NEW k2, NEW act, DOMAIN k1 \intersect DOMAIN k2 = {}
    PROVE  Matches(fields, Entry(table, pri, And(k1, k2), act)) <=> KeyIs(fields, k1) /\ KeyIs(fields, k2)
  <1>1. PICK k : k = And(k1, k2)
    OBVIOUS
  <1>2. DOMAIN k = DOMAIN k1 \union DOMAIN k2
    BY <1>1 DEF And
  <1>3. /\ \A n \in DOMAIN k1 : n \in DOMAIN k /\ k[n] = k1[n]
        /\ \A n \in DOMAIN k2 : n \in DOMAIN k /\ n \notin DOMAIN k1 /\ k[n] = k2[n]
    BY <1>1, <1>2 DEF And
  <1>4. Matches(fields, Entry(table, pri, k, act)) <=> KeyIs(fields, k)
    BY DEF Matches, Entry, KeyIs
  <1>5. KeyIs(fields, k) <=> KeyIs(fields, k1) /\ KeyIs(fields, k2)
    BY <1>2, <1>3 DEF KeyIs
  <1> QED
    BY <1>1, <1>4, <1>5

(* The priorities as numbers.                                               *)
LEMMA Priorities == Highest = 0 /\ Middle = 10 /\ Lowest = 20
  BY DEF Highest, Middle, Lowest

-----------------------------------------------------------------------------
(* process_protocol_packet.                                                 *)

(* The entries of process_protocol_packet.                                  *)
LEMMA LoadableFiles ==
    ASSUME NEW f \in Loadable
    PROVE  /\ f.hostifs \in Seq([ip6 : BOOLEAN, same_mc : BOOLEAN])
           /\ f.backup \in {"none", "other", "vip"}
  <1>1. CASE f \in Files
    BY <1>1, ConfigAssumption DEF File
  <1>2. CASE f \notin Files
    <2>1. PICK g \in Files : f = [g EXCEPT !.hostifs = <<>>]
      BY <1>2 DEF Loadable, WithoutHostifs
    <2>2. g \in File
      BY ConfigAssumption
    <2>3. f.hostifs = <<>> /\ f.backup = g.backup
      BY <2>1, <2>2 DEF File
    <2> QED
      BY <2>2, <2>3 DEF File
  <1> QED
    BY <1>1, <1>2

(* The addresses that a file gives the gateway for tunnels.                 *)
LEMMA VipElements ==
    ASSUME NEW f, f.backup \in {"none", "other", "vip"}
    PROVE  /\ IsSeq(Vips(f)) /\ Len(Vips(f)) \in 1..2
           /\ "vip" \in Elements(Vips(f)) /\ Elements(Vips(f)) \subseteq {"vip", "backup_vip"}
           /\ SeqExt!ToSet(Vips(f)) = Elements(Vips(f))
  <1>1. Vips(f) \in {<<"vip">>, <<"vip", "backup_vip">>, <<"vip", "vip">>}
    BY DEF Vips
  <1>2. \A v \in {<<"vip">>, <<"vip", "backup_vip">>, <<"vip", "vip">>} :
           /\ IsSeq(v) /\ "vip" \in Elements(v) /\ Elements(v) \subseteq {"vip", "backup_vip"}
           /\ Len(v) \in 1..2
           /\ DOMAIN v = 1..Len(v)
    BY ShortSeqs
  <1> QED
    BY <1>1, <1>2 DEF Elements, SeqExt!ToSet

(* The entries of a hostif.                                                 *)
LEMMA HostifElements ==
    ASSUME NEW i, NEW h
    PROVE  /\ IsSeq(HostifWrites(i, h))
           /\ Elements(HostifWrites(i, h)) =
                  {CopyAt(i, "ipv4", "v4", <<"ip", i>>)}
                  \union {CopyAt(i, "ipv6", "v6", Ip6Addresses(i, h)[a]) : a \in IF h.ip6 THEN 1..4 ELSE {}}
  <1> DEFINE one == <<CopyAt(i, "ipv4", "v4", <<"ip", i>>)>>
             four == [a \in 1..4 |-> CopyAt(i, "ipv6", "v6", Ip6Addresses(i, h)[a])]
             rest == IF h.ip6 THEN four ELSE <<>>
  <1>1. HostifWrites(i, h) = one \o rest
    BY DEF HostifWrites
  <1>2. IsSeq(one) /\ Elements(one) = {CopyAt(i, "ipv4", "v4", <<"ip", i>>)}
    BY ShortSeqs
  <1>3. Len(four) = 4 /\ IsSeq(four)
        /\ Elements(four) = {CopyAt(i, "ipv6", "v6", Ip6Addresses(i, h)[a]) : a \in 1..4}
    BY DEF IsSeq, Elements
  <1>4. /\ IsSeq(rest)
        /\ Elements(rest) = {CopyAt(i, "ipv6", "v6", Ip6Addresses(i, h)[a]) : a \in IF h.ip6 THEN 1..4 ELSE {}}
    <2> HIDE DEF four
    <2> QED
      BY <1>3, ShortSeqs
  <1> HIDE DEF one, rest
  <1> QED
    BY <1>1, <1>2, <1>4, ConcatElements

(* The entries of process_protocol_packet, and those it starts with.        *)
LEMMA LocalElements ==
    ASSUME NEW f \in Loadable, NEW w, w = LocalWrites(f)
    PROVE  /\ IsSeq(w) /\ Len(w) \in Nat /\ Len(w) >= 5
           /\ w[1] = Lldp[1] /\ w[2] = Lldp[2] /\ w[3] = ReceiveFromCpu
           /\ Elements(w) = {Lldp[1], Lldp[2], ReceiveFromCpu, ArpWrite, MgtIpWrite}
                            \union {VipWrite(v) : v \in Elements(Vips(f))}
                            \union UNION {Elements(HostifWrites(i, f.hostifs[i])) : i \in 1..Len(f.hostifs)}
  <1> DEFINE vips == [v \in 1..Len(Vips(f)) |-> VipWrite(Vips(f)[v])]
             each == [i \in 1..Len(f.hostifs) |-> HostifWrites(i, f.hostifs[i])]
             last == SeqExt!FlattenSeq(each)
             three == <<ReceiveFromCpu, ArpWrite, MgtIpWrite>>
  <1>0. Len(f.hostifs) \in Nat /\ Len(Vips(f)) \in Nat /\ IsSeq(Vips(f))
    BY LoadableFiles, VipElements
  <1>1. w = ((Lldp \o three) \o vips) \o last
    BY DEF LocalWrites
  <1>2. IsSeq(Lldp) /\ Elements(Lldp) = {Lldp[1], Lldp[2]} /\ Len(Lldp) = 2
    <2>1. \E a, b : Lldp = <<a, b>>
      BY DEF Lldp
    <2> QED
      BY <2>1, ShortSeqs
  <1>3. IsSeq(three) /\ Elements(three) = {ReceiveFromCpu, ArpWrite, MgtIpWrite} /\ Len(three) = 3
        /\ three[1] = ReceiveFromCpu
    BY ShortSeqs
  <1>4. IsSeq(vips) /\ Elements(vips) = {VipWrite(v) : v \in Elements(Vips(f))}
    BY <1>0 DEF IsSeq, Elements
  <1>5. /\ IsSeq(last)
        /\ Elements(last) = UNION {Elements(HostifWrites(i, f.hostifs[i])) : i \in 1..Len(f.hostifs)}
    <2>1. Len(each) = Len(f.hostifs) /\ Len(each) \in Nat /\ (Len(each) = 0 => each = <<>>)
          /\ \A i \in 1..Len(f.hostifs) : each[i] = HostifWrites(i, f.hostifs[i])
      BY <1>0
    <2>2. \A i \in 1..Len(each) : IsSeq(each[i])
      BY <2>1, HostifElements
    <2> HIDE DEF each
    <2>3. IsSeq(last) /\ Elements(last) = UNION {Elements(each[i]) : i \in 1..Len(each)}
      BY <2>1, <2>2, FlattenElements
    <2> QED
      BY <2>1, <2>3
  <1> HIDE DEF three, vips, last
  <1>6. /\ IsSeq(w)
        /\ Elements(w) = Elements(Lldp) \union Elements(three) \union Elements(vips) \union Elements(last)
        /\ Len(w) \in Nat /\ Len(w) >= Len(Lldp) + Len(three)
        /\ \A i \in 1..Len(Lldp) : w[i] = Lldp[i]
        /\ \A i \in 1..Len(three) : w[i + Len(Lldp)] = three[i]
    <2>1. PICK a, b, c, d : a = Lldp /\ b = three /\ c = vips /\ d = last
      OBVIOUS
    <2>2. IsSeq(a) /\ IsSeq(b) /\ IsSeq(c) /\ IsSeq(d)
      BY <1>2, <1>3, <1>4, <1>5, <2>1
    <2>3. w = ((a \o b) \o c) \o d
      BY <1>1, <2>1
    <2>4. /\ IsSeq(w)
          /\ Elements(w) = Elements(a) \union Elements(b) \union Elements(c) \union Elements(d)
          /\ Len(w) \in Nat /\ Len(w) >= Len(a) + Len(b)
          /\ \A i \in 1..Len(a) : w[i] = a[i]
          /\ \A i \in 1..Len(b) : w[i + Len(a)] = b[i]
      BY <2>2, <2>3, FourParts
    <2> QED
      BY <2>1, <2>4
  <1>7. Len(w) >= 5 /\ w[1] = Lldp[1] /\ w[2] = Lldp[2] /\ w[3] = three[1]
    <2>1. PICK m, n : m = Len(Lldp) /\ n = Len(three)
      OBVIOUS
    <2>2. m = 2 /\ n = 3
      BY <1>2, <1>3, <2>1
    <2>3. Len(w) >= m + n /\ (\A i \in 1..m : w[i] = Lldp[i]) /\ (\A i \in 1..n : w[i + m] = three[i])
      BY <1>6, <2>1
    <2>4. w[1 + 2] = three[1]
      BY <2>2, <2>3
    <2> QED
      BY <2>2, <2>3, <2>4
  <1> QED
    BY <1>2, <1>3, <1>4, <1>5, <1>6, <1>7

(* The names of the table and of its usual action.                          *)
Table == "process_protocol_packet"
ToNos == "copy_to_cpu_nos"

(* What the entries ask of a frame, and what they do with it.               *)
LEMMA LocalEntries ==
    ASSUME NEW fr, NEW no, no = FALSE
    PROVE  /\ /\ Lldp[1].table = Table /\ Lldp[1].pri = Highest /\ Lldp[1].act = "receive_from_cpu_lldp"
              /\ Matches(fr, Lldp[1]) <=> /\ fr["ether"] = "lldp" /\ fr["outer"] = "none"
                                          /\ fr["vxlan"] = no /\ fr["port"] = Cpu
           /\ /\ Lldp[2].table = Table /\ Lldp[2].pri = Lowest /\ Lldp[2].act = ToNos
              /\ Matches(fr, Lldp[2]) <=> fr["ether"] = "lldp" /\ fr["outer"] = "none" /\ fr["vxlan"] = no
           /\ /\ ReceiveFromCpu.table = Table /\ ReceiveFromCpu.pri = Middle
              /\ ReceiveFromCpu.act = "receive_from_cpu_nos"
              /\ Matches(fr, ReceiveFromCpu) <=> fr["port"] = Cpu
           /\ /\ ArpWrite.table = Table /\ ArpWrite.pri = Lowest /\ ArpWrite.act = ToNos
              /\ Matches(fr, ArpWrite) <=> fr["ether"] = "arp" /\ fr["outer"] = "none" /\ fr["vxlan"] = no
           /\ /\ MgtIpWrite.table = Table /\ MgtIpWrite.pri = Lowest /\ MgtIpWrite.act = ToNos
              /\ Matches(fr, MgtIpWrite)
                   <=> fr["ether"] = "ipv4" /\ fr["outer"] = "v4" /\ fr["dst"] = <<"mgt_ip", 0>>
           /\ \A v : 
              /\ VipWrite(v).table = Table /\ VipWrite(v).pri = Lowest /\ VipWrite(v).act = ToNos
              /\ Matches(fr, VipWrite(v)) <=> /\ fr["ether"] = "ipv4" /\ fr["outer"] = "v4"
                                              /\ fr["dst"] = <<v, 0>> /\ fr["vxlan"] = no
  <1>1. /\ Lldp[1].table = Table /\ Lldp[1].pri = Highest /\ Lldp[1].act = "receive_from_cpu_lldp"
        /\ Matches(fr, Lldp[1]) <=> /\ fr["ether"] = "lldp" /\ fr["outer"] = "none"
                                    /\ fr["vxlan"] = no /\ fr["port"] = Cpu
    <2>1. Lldp[1] = Entry(Table, Highest, [ether |-> "lldp", outer |-> "none", vxlan |-> no, port |-> Cpu],
                          "receive_from_cpu_lldp")
      BY Zenon DEF Lldp, Table
    <2> QED
      BY <2>1 DEF Matches, Entry
  <1>2. /\ Lldp[2].table = Table /\ Lldp[2].pri = Lowest /\ Lldp[2].act = ToNos
        /\ Matches(fr, Lldp[2]) <=> fr["ether"] = "lldp" /\ fr["outer"] = "none" /\ fr["vxlan"] = no
    <2>1. Lldp[2] = Entry(Table, Lowest, [ether |-> "lldp", outer |-> "none", vxlan |-> no], ToNos)
      BY Zenon DEF Lldp, Copy, Table, ToNos
    <2> QED
      BY <2>1 DEF Matches, Entry
  <1>3. /\ ReceiveFromCpu.table = Table /\ ReceiveFromCpu.pri = Middle
        /\ ReceiveFromCpu.act = "receive_from_cpu_nos"
        /\ Matches(fr, ReceiveFromCpu) <=> fr["port"] = Cpu
    BY DEF Matches, Entry, ReceiveFromCpu, FromCpu, Table
  <1>4. /\ ArpWrite.table = Table /\ ArpWrite.pri = Lowest /\ ArpWrite.act = ToNos
        /\ Matches(fr, ArpWrite) <=> fr["ether"] = "arp" /\ fr["outer"] = "none" /\ fr["vxlan"] = no
    <2>1. ArpWrite = Entry(Table, Lowest, [ether |-> "arp", outer |-> "none", vxlan |-> no], ToNos)
      BY Zenon DEF ArpWrite, Copy, Table, ToNos
    <2> QED
      BY <2>1 DEF Matches, Entry
  <1>5. /\ MgtIpWrite.table = Table /\ MgtIpWrite.pri = Lowest /\ MgtIpWrite.act = ToNos
        /\ Matches(fr, MgtIpWrite)
             <=> fr["ether"] = "ipv4" /\ fr["outer"] = "v4" /\ fr["dst"] = <<"mgt_ip", 0>>
    BY DEF Matches, Entry, MgtIpWrite, Copy, Table, ToNos
  <1>6. ASSUME NEW v
        PROVE  /\ VipWrite(v).table = Table /\ VipWrite(v).pri = Lowest /\ VipWrite(v).act = ToNos
               /\ Matches(fr, VipWrite(v)) <=> /\ fr["ether"] = "ipv4" /\ fr["outer"] = "v4"
                                               /\ fr["dst"] = <<v, 0>> /\ fr["vxlan"] = no
    <2>1. VipWrite(v) =
              Entry(Table, Lowest, [ether |-> "ipv4", outer |-> "v4", dst |-> <<v, 0>>, vxlan |-> no], ToNos)
      BY Zenon DEF VipWrite, Copy, Table, ToNos
    <2> QED
      BY <2>1 DEF Matches, Entry
  <1> QED
    BY <1>1, <1>2, <1>3, <1>4, <1>5, <1>6

(* An entry for an address of a hostif.                                     *)
LEMMA CopyEntry ==
    ASSUME NEW i, NEW x, NEW o, NEW d
    PROVE  /\ CopyAt(i, x, o, d).table = Table /\ CopyAt(i, x, o, d).pri = Lowest
           /\ CopyAt(i, x, o, d).act = ToNos
           /\ \A fr : Matches(fr, CopyAt(i, x, o, d))
                <=> fr["ether"] = x /\ fr["outer"] = o /\ fr["dst"] = d /\ fr["port"] = i
  BY DEF Matches, Entry, CopyAt, Copy, Table, ToNos

(* The forms of the entries of process_protocol_packet.                     *)
LEMMA LocalForms ==
    ASSUME NEW f \in Loadable, NEW e \in Elements(LocalWrites(f))
    PROVE  \/ e \in {Lldp[1], Lldp[2], ReceiveFromCpu, ArpWrite, MgtIpWrite}
           \/ \E v \in Elements(Vips(f)) : e = VipWrite(v)
           \/ \E i \in 1..Len(f.hostifs) :
                \/ e = CopyAt(i, "ipv4", "v4", <<"ip", i>>)
                \/ f.hostifs[i].ip6 /\ \E a \in 1..4 : e = CopyAt(i, "ipv6", "v6", Ip6Addresses(i, f.hostifs[i])[a])
  <1>1. PICK w : w = LocalWrites(f)
    OBVIOUS
  <1>2. e \in {Lldp[1], Lldp[2], ReceiveFromCpu, ArpWrite, MgtIpWrite}
              \union {VipWrite(v) : v \in Elements(Vips(f))}
              \union UNION {Elements(HostifWrites(i, f.hostifs[i])) : i \in 1..Len(f.hostifs)}
    BY <1>1, LocalElements
  <1>3. ASSUME NEW i \in 1..Len(f.hostifs), e \in Elements(HostifWrites(i, f.hostifs[i]))
        PROVE  \/ e = CopyAt(i, "ipv4", "v4", <<"ip", i>>)
               \/ f.hostifs[i].ip6 /\ \E a \in 1..4 : e = CopyAt(i, "ipv6", "v6", Ip6Addresses(i, f.hostifs[i])[a])
    <2>1. e \in {CopyAt(i, "ipv4", "v4", <<"ip", i>>)}
                \union {CopyAt(i, "ipv6", "v6", Ip6Addresses(i, f.hostifs[i])[a]) :
                           a \in IF f.hostifs[i].ip6 THEN 1..4 ELSE {}}
      BY <1>3, HostifElements
    <2> QED
      BY <2>1
  <1> QED
    BY <1>2, <1>3

(* The entries of every hostif of the file are among them.                  *)
LEMMA HostifEntries ==
    ASSUME NEW f \in Loadable, NEW i \in 1..Len(f.hostifs)
    PROVE  /\ CopyAt(i, "ipv4", "v4", <<"ip", i>>) \in Elements(LocalWrites(f))
           /\ f.hostifs[i].ip6 =>
                \A a \in 1..4 :
                    CopyAt(i, "ipv6", "v6", Ip6Addresses(i, f.hostifs[i])[a]) \in Elements(LocalWrites(f))
  <1>1. PICK w : w = LocalWrites(f)
    OBVIOUS
  <1>2. Elements(HostifWrites(i, f.hostifs[i])) \subseteq Elements(w)
    BY <1>1, LocalElements
  <1>3. CopyAt(i, "ipv4", "v4", <<"ip", i>>) \in Elements(HostifWrites(i, f.hostifs[i]))
    BY HostifElements
  <1>4. ASSUME f.hostifs[i].ip6, NEW a \in 1..4
        PROVE  CopyAt(i, "ipv6", "v6", Ip6Addresses(i, f.hostifs[i])[a]) \in Elements(HostifWrites(i, f.hostifs[i]))
    <2>1. PICK all : all = IF f.hostifs[i].ip6 THEN 1..4 ELSE {}
      OBVIOUS
    <2>2. all = 1..4
      BY <1>4, <2>1
    <2>3. Elements(HostifWrites(i, f.hostifs[i])) =
              {CopyAt(i, "ipv4", "v4", <<"ip", i>>)}
              \union {CopyAt(i, "ipv6", "v6", Ip6Addresses(i, f.hostifs[i])[b]) : b \in all}
      BY <2>1, HostifElements, Zenon
    <2> QED
      BY <2>2, <2>3
  <1> QED
    BY <1>1, <1>2, <1>3, <1>4

(* The kinds of addresses: the gateway's own in IPv4, a hostif's in IPv6.   *)
OwnV4 == {"mgt_ip", "vip", "backup_vip"}
HostifV6 == {"ip6", "ip6_mc", "linklocal", "linklocal_mc"}

(* What the addresses of a frame say of its other fields.                   *)
LEMMA HeaderFields ==
    ASSUME NEW n \in Nat, NEW h \in Headers(n), NEW no, no = FALSE
    PROVE  /\ h["ether"] \in {"arp", "lldp", "ipv4", "ipv6"} /\ h["vxlan"] \in BOOLEAN
           /\ h["ether"] \in {"arp", "lldp"} => h["outer"] = "none" /\ h["vxlan"] = no
           /\ h["dst"][1] \in OwnV4 =>
                /\ h["ether"] = "ipv4" /\ h["outer"] = "v4" /\ h["dst"] = <<h["dst"][1], 0>>
           /\ \A i : h["dst"] = <<"ip", i>> => h["ether"] = "ipv4" /\ h["outer"] = "v4"
           /\ \A i : \A a \in HostifV6 : h["dst"] = <<a, i>> => h["ether"] = "ipv6" /\ h["outer"] = "v6"
  <1>1. ASSUME NEW b \in Addresses(n)
        PROVE  b[1] \in OwnV4 => b = <<b[1], 0>>
    BY <1>1 DEF Addresses, OwnV4
  <1>2. CASE \E e \in {"arp", "lldp"} : h = [ether |-> e, outer |-> "none", vxlan |-> FALSE, dst |-> <<"none", 0>>]
    <2>1. PICK e \in {"arp", "lldp"} : h = [ether |-> e, outer |-> "none", vxlan |-> no, dst |-> <<"none", 0>>]
      BY <1>2, Zenon
    <2>2. no \in BOOLEAN
      OBVIOUS
    <2> QED
      BY <2>1, <2>2 DEF OwnV4, HostifV6
  <1>3. CASE \E x \in BOOLEAN, a \in {b \in Addresses(n) : b[1] \notin Ip6Kinds \ {"other"}} :
                 h = [ether |-> "ipv4", outer |-> "v4", vxlan |-> x, dst |-> a]
    <2>1. PICK x \in BOOLEAN, a \in {b \in Addresses(n) : b[1] \notin Ip6Kinds \ {"other"}} :
                 h = [ether |-> "ipv4", outer |-> "v4", vxlan |-> x, dst |-> a]
      BY <1>3
    <2> QED
      BY <1>1, <2>1 DEF OwnV4, HostifV6, Ip6Kinds
  <1>4. CASE \E a \in {b \in Addresses(n) : b[1] \in Ip6Kinds} :
                 h = [ether |-> "ipv6", outer |-> "v6", vxlan |-> FALSE, dst |-> a]
    <2>1. PICK a \in {b \in Addresses(n) : b[1] \in Ip6Kinds} :
                 h = [ether |-> "ipv6", outer |-> "v6", vxlan |-> no, dst |-> a]
      BY <1>4, Zenon
    <2>2. no \in BOOLEAN
      OBVIOUS
    <2> QED
      BY <1>1, <2>1, <2>2 DEF OwnV4, HostifV6, Ip6Kinds
  <1> QED
    BY <1>2, <1>3, <1>4 DEF Headers

(* A frame from the wire, and one of the CPU, at the table.                 *)
LEMMA WireFields ==
    ASSUME NEW n \in Nat, NEW fr \in FromWire(n), NEW no, no = FALSE
    PROVE  /\ fr["port"] \in 1..n + 1 /\ fr["port"] # Cpu
           /\ fr["ether"] \in {"arp", "lldp", "ipv4", "ipv6"} /\ fr["vxlan"] \in BOOLEAN
           /\ fr["ether"] \in {"arp", "lldp"} => fr["outer"] = "none" /\ fr["vxlan"] = no
           /\ fr["dst"][1] \in OwnV4 =>
                /\ fr["ether"] = "ipv4" /\ fr["outer"] = "v4" /\ fr["dst"] = <<fr["dst"][1], 0>>
           /\ \A i : fr["dst"] = <<"ip", i>> => fr["ether"] = "ipv4" /\ fr["outer"] = "v4"
           /\ \A i : \A a \in HostifV6 : fr["dst"] = <<a, i>> => fr["ether"] = "ipv6" /\ fr["outer"] = "v6"
  <1>1. PICK h \in Headers(n), i \in 1..n + 1 : fr = AtPort(h, i)
    BY DEF FromWire
  <1>2. /\ fr["ether"] = h["ether"] /\ fr["outer"] = h["outer"] /\ fr["vxlan"] = h["vxlan"]
        /\ fr["dst"] = h["dst"] /\ fr["port"] = i
    BY <1>1 DEF AtPort
  <1>3. i \in 1..n + 1 /\ i # Cpu
    BY DEF Cpu
  <1> QED
    BY <1>2, <1>3, HeaderFields

(* A frame of the CPU at the table.                                         *)
LEMMA CpuFields ==
    ASSUME NEW n \in Nat, NEW fr
    PROVE  /\ fr \in RawFromCpu(n) \union FromHostifs(n) => fr["port"] = Cpu
           /\ fr \in FromHostifs(n) => fr["ether"] = "bfn"
  <1>1. ASSUME fr \in RawFromCpu(n) PROVE fr["port"] = Cpu
    BY <1>1 DEF RawFromCpu, AtPort
  <1>2. ASSUME fr \in FromHostifs(n) PROVE fr["port"] = Cpu /\ fr["ether"] = "bfn"
    BY <1>2 DEF FromHostifs, RawFromCpu, AtPort
  <1> QED
    BY <1>1, <1>2

(* The entries that match a frame from the wire copy it to the kernel, and  *)
(* only frames it has to see.                                               *)
LEMMA WireHit ==
    ASSUME NEW f \in Loadable, NEW e \in Elements(LocalWrites(f)),
           NEW fr \in FromWire(Len(f.hostifs)), Matches(fr, e)
    PROVE  e.pri = Lowest /\ e.act = ToNos /\ ForKernel(f, fr)
  <1>0. PICK no : no = FALSE
    OBVIOUS
  <1>1. Len(f.hostifs) \in Nat
    BY LoadableFiles
  <1>2. fr["port"] # Cpu
    BY <1>0, <1>1, WireFields
  <1>3. CASE e \in {Lldp[1], Lldp[2], ReceiveFromCpu, ArpWrite, MgtIpWrite}
    <2>1. e # Lldp[1] /\ e # ReceiveFromCpu
      BY <1>0, <1>2, LocalEntries
    <2>2. e.pri = Lowest /\ e.act = ToNos
      BY <1>0, <1>3, <2>1, LocalEntries
    <2>3. fr["ether"] \in {"arp", "lldp"} \/ fr["dst"] = <<"mgt_ip", 0>>
      BY <1>0, <1>3, <2>1, LocalEntries
    <2> QED
      BY <2>2, <2>3 DEF ForKernel
  <1>4. CASE \E v \in Elements(Vips(f)) : e = VipWrite(v)
    <2>1. PICK v \in Elements(Vips(f)) : e = VipWrite(v)
      BY <1>4
    <2>2. e.pri = Lowest /\ e.act = ToNos /\ fr["dst"] = <<v, 0>> /\ fr["vxlan"] = no
      BY <1>0, <2>1, LocalEntries
    <2>3. v \in SeqExt!ToSet(Vips(f)) /\ fr["dst"][1] = v
      BY <2>2, LoadableFiles, VipElements
    <2>4. ~fr["vxlan"]
      BY <1>0, <2>2, Zenon
    <2> QED
      BY <2>2, <2>3, <2>4 DEF ForKernel
  <1>5. CASE \E i \in 1..Len(f.hostifs) : e = CopyAt(i, "ipv4", "v4", <<"ip", i>>)
    <2>1. PICK i \in 1..Len(f.hostifs) : e = CopyAt(i, "ipv4", "v4", <<"ip", i>>)
      BY <1>5
    <2>2. e.pri = Lowest /\ e.act = ToNos /\ fr["port"] = i /\ fr["dst"] = <<"ip", i>>
      BY <2>1, CopyEntry
    <2> QED
      BY <2>2 DEF ForKernel
  <1>6. CASE \E i \in 1..Len(f.hostifs) :
               f.hostifs[i].ip6 /\ \E a \in 1..4 : e = CopyAt(i, "ipv6", "v6", Ip6Addresses(i, f.hostifs[i])[a])
    <2>1. PICK i \in 1..Len(f.hostifs), a \in 1..4 :
               f.hostifs[i].ip6 /\ e = CopyAt(i, "ipv6", "v6", Ip6Addresses(i, f.hostifs[i])[a])
      BY <1>6
    <2>2. e.pri = Lowest /\ e.act = ToNos /\ fr["port"] = i /\ fr["dst"] = Ip6Addresses(i, f.hostifs[i])[a]
      BY <2>1, CopyEntry
    <2> QED
      BY <2>1, <2>2 DEF ForKernel
  <1> QED
    BY <1>3, <1>4, <1>5, <1>6, LocalForms

(* Half filled or full, the table gives the kernel no frame of a tenant.    *)
LEMMA AlwaysKeepsOut ==
    ASSUME NEW f \in Loadable, NEW n \in 0..Len(LocalWrites(f))
    PROVE  KeepsOutOfKernel(f, n)
  <1> SUFFICES ASSUME NEW fr \in FromWire(Len(f.hostifs)), LocalVerdict(f, n, fr) # {}
               PROVE  ForKernel(f, fr)
    BY DEF KeepsOutOfKernel
  <1>1. PICK w : w = LocalWrites(f)
    OBVIOUS
  <1>2. PICK i \in 1..n : Matches(fr, w[i])
    BY <1>1, HitOfVerdict DEF LocalVerdict
  <1>3. w[i] \in Elements(w)
    BY <1>1, LocalElements DEF Elements
  <1> QED
    BY <1>1, <1>2, <1>3, WireHit

(* Every frame from the wire that is for the kernel hits some entry.        *)
LEMMA WireServed ==
    ASSUME NEW f \in Loadable, NEW fr \in FromWire(Len(f.hostifs)), ForKernel(f, fr)
    PROVE  \E e \in Elements(LocalWrites(f)) : e.table = Table /\ Matches(fr, e)
  <1>1. PICK no, w : no = FALSE /\ w = LocalWrites(f)
    OBVIOUS
  <1>2. Len(f.hostifs) \in Nat /\ SeqExt!ToSet(Vips(f)) = Elements(Vips(f))
        /\ Elements(Vips(f)) \subseteq {"vip", "backup_vip"}
    BY LoadableFiles, VipElements
  <1>3. {Lldp[2], ArpWrite, MgtIpWrite} \subseteq Elements(w)
        /\ \A v \in Elements(Vips(f)) : VipWrite(v) \in Elements(w)
    BY <1>1, LocalElements
  <1>4. CASE fr["ether"] \in {"arp", "lldp"}
    <2>1. fr["outer"] = "none" /\ fr["vxlan"] = no
      BY <1>1, <1>2, <1>4, WireFields
    <2>2. \E e \in {Lldp[2], ArpWrite} : e.table = Table /\ Matches(fr, e)
      BY <1>1, <1>4, <2>1, LocalEntries
    <2> QED
      BY <1>1, <1>3, <2>2
  <1>5. CASE fr["dst"] = <<"mgt_ip", 0>>
    <2>1. fr["dst"][1] \in OwnV4
      BY <1>5 DEF OwnV4
    <2>2. fr["ether"] = "ipv4" /\ fr["outer"] = "v4"
      BY <1>1, <1>2, <2>1, WireFields
    <2>3. MgtIpWrite.table = Table /\ Matches(fr, MgtIpWrite)
      BY <1>1, <1>5, <2>2, LocalEntries
    <2> QED
      BY <1>1, <1>3, <2>3
  <1>6. CASE fr["dst"][1] \in SeqExt!ToSet(Vips(f)) /\ ~fr["vxlan"]
    <2>1. PICK v : v = fr["dst"][1]
      OBVIOUS
    <2>2. v \in Elements(Vips(f)) /\ v \in OwnV4
      BY <1>2, <1>6, <2>1 DEF OwnV4
    <2>3. fr["ether"] = "ipv4" /\ fr["outer"] = "v4" /\ fr["dst"] = <<v, 0>> /\ fr["vxlan"] \in BOOLEAN
      BY <1>1, <1>2, <2>1, <2>2, WireFields
    <2>4. fr["vxlan"] = no
      <3>1. fr["vxlan"] = FALSE
        BY <1>6, <2>3
      <3> QED
        BY <1>1, <3>1, Zenon
    <2>5. VipWrite(v).table = Table /\ Matches(fr, VipWrite(v))
      BY <1>1, <2>3, <2>4, LocalEntries
    <2> QED
      BY <1>1, <1>3, <2>2, <2>5
  <1>7. CASE \E i \in 1..Len(f.hostifs) : fr["port"] = i /\ fr["dst"] = <<"ip", i>>
    <2>1. PICK i \in 1..Len(f.hostifs) : fr["port"] = i /\ fr["dst"] = <<"ip", i>>
      BY <1>7
    <2>2. fr["ether"] = "ipv4" /\ fr["outer"] = "v4"
      BY <1>1, <1>2, <2>1, WireFields
    <2>3. PICK e : e = CopyAt(i, "ipv4", "v4", <<"ip", i>>)
      OBVIOUS
    <2>4. e.table = Table /\ Matches(fr, e)
      BY <2>1, <2>2, <2>3, CopyEntry
    <2> QED
      BY <2>3, <2>4, HostifEntries
  <1>8. CASE \E i \in 1..Len(f.hostifs) : fr["port"] = i /\ f.hostifs[i].ip6
                 /\ \E a \in 1..4 : fr["dst"] = Ip6Addresses(i, f.hostifs[i])[a]
    <2>1. PICK i \in 1..Len(f.hostifs), a \in 1..4 :
              fr["port"] = i /\ f.hostifs[i].ip6 /\ fr["dst"] = Ip6Addresses(i, f.hostifs[i])[a]
      BY <1>8
    <2>2. PICK x \in HostifV6 : fr["dst"] = <<x, i>>
      BY <2>1 DEF Ip6Addresses, HostifV6
    <2>3. fr["ether"] = "ipv6" /\ fr["outer"] = "v6"
      BY <1>1, <1>2, <2>2, WireFields
    <2>4. PICK e : e = CopyAt(i, "ipv6", "v6", Ip6Addresses(i, f.hostifs[i])[a])
      OBVIOUS
    <2>5. e.table = Table /\ Matches(fr, e)
      BY <2>1, <2>3, <2>4, CopyEntry
    <2> QED
      BY <2>1, <2>4, <2>5, HostifEntries
  <1> QED
    BY <1>4, <1>5, <1>6, <1>7, <1>8 DEF ForKernel

(* Every entry but the three that come first copies.                        *)
LEMMA LocalKinds ==
    ASSUME NEW f \in Loadable, NEW e \in Elements(LocalWrites(f))
    PROVE  \/ e \in {Lldp[1], Lldp[2], ReceiveFromCpu, ArpWrite, MgtIpWrite}
           \/ \E v : e = VipWrite(v)
           \/ \E i, o, d : \E x \in {"ipv4", "ipv6"} : e = CopyAt(i, x, o, d)
  <1>1. CASE \E i \in 1..Len(f.hostifs) : e = CopyAt(i, "ipv4", "v4", <<"ip", i>>)
    BY <1>1
  <1>2. CASE \E i \in 1..Len(f.hostifs) :
               f.hostifs[i].ip6 /\ \E a \in 1..4 : e = CopyAt(i, "ipv6", "v6", Ip6Addresses(i, f.hostifs[i])[a])
    <2>1. PICK i, a : e = CopyAt(i, "ipv6", "v6", Ip6Addresses(i, f.hostifs[i])[a])
      BY <1>2
    <2> QED
      BY <2>1
  <1>3. CASE \E v \in Elements(Vips(f)) : e = VipWrite(v)
    BY <1>3
  <1> QED
    BY <1>1, <1>2, <1>3, LocalForms

(* A frame from a hostif is matched by one entry alone.                     *)
LEMMA HostifFrameHit ==
    ASSUME NEW f \in Loadable, NEW e \in Elements(LocalWrites(f)), NEW fr,
           fr["port"] = Cpu, fr["ether"] = "bfn", Matches(fr, e)
    PROVE  e = ReceiveFromCpu
  <1>0. PICK no : no = FALSE
    OBVIOUS
  <1>1. CASE e \in {Lldp[1], Lldp[2], ReceiveFromCpu, ArpWrite, MgtIpWrite}
    BY <1>0, <1>1, LocalEntries
  <1>2. ~ \E v : e = VipWrite(v)
    BY <1>0, LocalEntries
  <1>3. ASSUME NEW i, NEW o, NEW d, NEW x \in {"ipv4", "ipv6"}, e = CopyAt(i, x, o, d)
        PROVE  FALSE
    BY <1>3, CopyEntry
  <1> QED
    BY <1>1, <1>2, <1>3, LocalKinds

(* The full table serves the kernel.                                        *)
LEMMA FullServes ==
    ASSUME NEW f \in Loadable
    PROVE  ServesKernel(f)
  <1>0. PICK no, w : no = FALSE /\ w = LocalWrites(f)
    OBVIOUS
  <1>1. IsSeq(w) /\ ReceiveFromCpu \in Elements(w) /\ Len(f.hostifs) \in Nat
    BY <1>0, LocalElements, LoadableFiles
  <1>2. Lowest \in Nat /\ Middle \in Nat
    BY DEF Lowest, Middle
  <1>3. ASSUME NEW fr \in FromWire(Len(f.hostifs)), ForKernel(f, fr)
        PROVE  LocalVerdict(f, Len(w), fr) = {"copy_to_cpu_nos"}
    <2>1. \E e \in Elements(w) : e.table = Table /\ Matches(fr, e)
      BY <1>0, <1>3, WireServed
    <2>2. \A e \in Elements(w) : e.table = Table /\ Matches(fr, e) => e.act = ToNos /\ e.pri = Lowest
      BY <1>0, WireHit
    <2>3. PICK hits : hits = Hits(w, Table, fr)
      OBVIOUS
    <2>4. hits # {} /\ (\A e \in hits : e.act = ToNos) /\ \A e, k \in hits : e.pri <= k.pri
      BY <1>2, <2>1, <2>2, <2>3 DEF Hits
    <2>5. Verdict(w, Len(w), Table, fr) = {ToNos}
      BY <1>1, <2>3, <2>4, OneVerdict
    <2> QED
      BY <1>0, <2>5 DEF LocalVerdict, Table, ToNos
  <1>4. ASSUME NEW fr \in FromHostifs(Len(f.hostifs))
        PROVE  LocalVerdict(f, Len(w), fr) = {"receive_from_cpu_nos"}
    <2>1. fr["port"] = Cpu /\ fr["ether"] = "bfn"
      BY <1>1, CpuFields
    <2>2. PICK act : act = "receive_from_cpu_nos"
      OBVIOUS
    <2>3. ReceiveFromCpu.table = Table /\ Matches(fr, ReceiveFromCpu)
          /\ ReceiveFromCpu.act = act /\ ReceiveFromCpu.pri = Middle
      BY <1>0, <2>1, <2>2, LocalEntries
    <2>4. \A e \in Elements(w) : e.table = Table /\ Matches(fr, e) => e.act = act /\ e.pri = Middle
      BY <1>0, <2>1, <2>3, HostifFrameHit
    <2>5. PICK hits : hits = Hits(w, Table, fr)
      OBVIOUS
    <2>6. hits # {} /\ (\A e \in hits : e.act = act) /\ \A e, k \in hits : e.pri <= k.pri
      BY <1>1, <1>2, <2>3, <2>4, <2>5 DEF Hits
    <2>7. Verdict(w, Len(w), Table, fr) = {act}
      BY <1>1, <2>5, <2>6, OneVerdict
    <2> QED
      BY <1>0, <2>2, <2>7 DEF LocalVerdict, Table
  <1> QED
    BY <1>0, <1>3, <1>4 DEF ServesKernel

(* Half filled or full, the table returns no frame to the CPU.              *)
LEMMA AlwaysSendsAway ==
    ASSUME NEW f \in Loadable, NEW n \in 0..Len(LocalWrites(f))
    PROVE  SendsAway(f, n)
  <1> SUFFICES ASSUME NEW fr \in FromHostifs(Len(f.hostifs)) \union RawFromCpu(Len(f.hostifs))
               PROVE  "copy_to_cpu_nos" \notin LocalVerdict(f, n, fr)
    BY DEF SendsAway
  <1>0. PICK no, w : no = FALSE /\ w = LocalWrites(f)
    OBVIOUS
  <1>1. fr["port"] = Cpu
    BY LoadableFiles, CpuFields
  <1>2. /\ Len(w) \in Nat /\ w[1] = Lldp[1] /\ w[2] = Lldp[2] /\ w[3] = ReceiveFromCpu
    BY <1>0, LocalElements
  <1>3. ASSUME NEW e \in Elements(w), e.act = ToNos PROVE e.pri = 20
    <2>1. CASE e \in {Lldp[1], Lldp[2], ReceiveFromCpu, ArpWrite, MgtIpWrite}
      BY <1>0, <1>3, <2>1, LocalEntries DEF ToNos, Lowest
    <2>2. CASE \E v : e = VipWrite(v)
      <3>1. PICK v : e = VipWrite(v)
        BY <2>2
      <3>2. VipWrite(v).pri = Lowest
        BY <1>0, LocalEntries
      <3> QED
        BY <3>1, <3>2 DEF Lowest
    <2>3. CASE \E i, o, d : \E x \in {"ipv4", "ipv6"} : e = CopyAt(i, x, o, d)
      <3>1. PICK i, o, d, x : e = CopyAt(i, x, o, d)
        BY <2>3
      <3>2. CopyAt(i, x, o, d).pri = Lowest
        BY CopyEntry
      <3> QED
        BY <3>1, <3>2 DEF Lowest
    <2> QED
      BY <1>0, <2>1, <2>2, <2>3, LocalKinds
  <1>4. ASSUME NEW j \in 1..n, w[j].table = Table, Matches(fr, w[j]), w[j].act = ToNos
        PROVE  \E k \in 1..n : w[k].table = Table /\ Matches(fr, w[k]) /\ ~ (w[j].pri <= w[k].pri)
    <2>1. w[j].pri = 20
      <3>1. w[j] \in Elements(w)
        BY <1>0, <1>2 DEF Elements
      <3> QED
        BY <1>3, <1>4, <3>1
    <2>2. CASE n >= 3
      <3>1. w[3].table = Table /\ Matches(fr, w[3]) /\ w[3].pri = 10
        BY <1>0, <1>1, <1>2, LocalEntries DEF Middle
      <3>2. 3 \in 1..n /\ ~ (20 <= 10)
        BY <1>0, <1>2, <2>2
      <3> QED
        BY <2>1, <3>1, <3>2
    <2>3. CASE ~ (n >= 3)
      <3>1. n \in Nat /\ j \in {1, 2} /\ 1 \in 1..n /\ ~ (20 <= 0)
        BY <1>0, <1>2, <2>3
      <3>2. j # 1
        BY <1>0, <1>2, <1>4, LocalEntries DEF ToNos
      <3>3. Matches(fr, Lldp[2])
        BY <1>2, <1>4, <3>1, <3>2
      <3>4. w[1].table = Table /\ Matches(fr, w[1]) /\ w[1].pri = 0
        BY <1>0, <1>1, <1>2, <3>3, LocalEntries DEF Highest
      <3> QED
        BY <2>1, <3>1, <3>4
    <2> QED
      BY <2>2, <2>3
  <1>5. ToNos \notin Verdict(w, n, Table, fr)
    BY <1>4, Beaten
  <1> QED
    BY <1>0, <1>5 DEF LocalVerdict, Table, ToNos

-----------------------------------------------------------------------------
(* igw_ip_type.                                                             *)

(* The constant parts of the tables are sequences.                          *)
LEMMA PartsAreSeqs ==
    /\ IsSeq(InnerOut) /\ Len(InnerOut) # 0 /\ IsSeq(InnerIn)
    /\ IsSeq(InternetIn) /\ IsSeq(PipelineFixWrites)
    /\ IsSeq(EipInJdVxlanWrites) /\ IsSeq(EipOutJdVxlanWrites)
  <1>1. \E a, b, c : InnerOut = <<a, b, c>>
    BY DEF InnerOut
  <1>2. \E a, b, c, d : InnerIn = <<a, b, c, d>>
    BY DEF InnerIn
  <1>3. \E a, b, c, d, e : InternetIn = <<a, b, c, d, e>>
    BY DEF InternetIn
  <1>4. \E a, b : PipelineFixWrites = <<a, b>>
    BY DEF PipelineFixWrites
  <1>5. /\ \E a, b, c : EipInJdVxlanWrites = <<a, b, c>>
        /\ \E a, b, c : EipOutJdVxlanWrites = <<a, b, c>>
    BY DEF EipInJdVxlanWrites, EipOutJdVxlanWrites, JdVxlanWrites
  <1> QED
    BY <1>1, <1>2, <1>3, <1>4, <1>5, ShortSeqs, LongSeqs

(* The fields that a key may ask of the inner packet.                       *)
InnerFields == {"inner", "innerSrcOdd", "innerDstOdd"}

(* Of the entries of a direction one fits the inner packet, and it sets the *)
(* pipeline.                                                                *)
LEMMA OutKeys ==
    ASSUME NEW F, NEW yes, NEW no, Flags(yes, no), F["innerSrcOdd"] \in {yes, no}
    PROVE  /\ IsSeq(InnerOut) /\ \A r \in Elements(InnerOut) : DOMAIN r.key \subseteq InnerFields
           /\ F["inner"] \in {"v4", "v6"} => \E r \in Elements(InnerOut) : KeyIs(F, r.key)
           /\ \A r \in Elements(InnerOut) : KeyIs(F, r.key) =>
                /\ F["inner"] \in {"v4", "v6"}
                /\ r.egr = IF F["inner"] = "v6" /\ F["innerSrcOdd"] = yes THEN 0 ELSE 2
  <1>0. yes # no
    BY DEF Flags
  <1>1. InnerOut = <<[egr |-> 2, key |-> [inner |-> "v4"]],
                     [egr |-> 0, key |-> [inner |-> "v6", innerSrcOdd |-> yes]],
                     [egr |-> 2, key |-> [inner |-> "v6", innerSrcOdd |-> no]]>>
    BY Zenon DEF InnerOut, Flags
  <1>2. PICK r1, r2, r3 : /\ r1 = [egr |-> 2, key |-> [inner |-> "v4"]]
                          /\ r2 = [egr |-> 0, key |-> [inner |-> "v6", innerSrcOdd |-> yes]]
                          /\ r3 = [egr |-> 2, key |-> [inner |-> "v6", innerSrcOdd |-> no]]
                          /\ InnerOut = <<r1, r2, r3>>
    BY <1>1
  <1>3. IsSeq(InnerOut) /\ Elements(InnerOut) = {r1, r2, r3}
    <2>1. InnerOut = <<r1, r2, r3>>
      BY <1>2
    <2> QED
      BY <2>1, ShortSeqs
  <1>4. r1.egr = 2 /\ (KeyIs(F, r1.key) <=> F["inner"] = "v4") /\ DOMAIN r1.key \subseteq InnerFields
    BY <1>2 DEF KeyIs, InnerFields
  <1>5. /\ r2.egr = 0 /\ (KeyIs(F, r2.key) <=> F["inner"] = "v6" /\ F["innerSrcOdd"] = yes)
        /\ DOMAIN r2.key \subseteq InnerFields
    BY <1>2 DEF KeyIs, InnerFields
  <1>6. /\ r3.egr = 2 /\ (KeyIs(F, r3.key) <=> F["inner"] = "v6" /\ F["innerSrcOdd"] = no)
        /\ DOMAIN r3.key \subseteq InnerFields
    BY <1>2 DEF KeyIs, InnerFields
  <1> QED
    BY <1>0, <1>3, <1>4, <1>5, <1>6

(* So it is for the other direction.                                        *)
LEMMA InKeys ==
    ASSUME NEW F, NEW yes, NEW no, Flags(yes, no), F["innerDstOdd"] \in {yes, no}
    PROVE  /\ IsSeq(InnerIn) /\ \A r \in Elements(InnerIn) : DOMAIN r.key \subseteq InnerFields
           /\ F["inner"] \in {"v4", "v6"} => \E r \in Elements(InnerIn) : KeyIs(F, r.key)
           /\ \A r \in Elements(InnerIn) : KeyIs(F, r.key) =>
                /\ F["inner"] \in {"v4", "v6"}
                /\ r.egr = IF F["innerDstOdd"] = yes THEN 1 ELSE 3
  <1>0. yes # no
    BY DEF Flags
  <1>1. InnerIn = <<[egr |-> 1, key |-> [inner |-> "v4", innerDstOdd |-> yes]],
                    [egr |-> 3, key |-> [inner |-> "v4", innerDstOdd |-> no]],
                    [egr |-> 1, key |-> [inner |-> "v6", innerDstOdd |-> yes]],
                    [egr |-> 3, key |-> [inner |-> "v6", innerDstOdd |-> no]]>>
    BY Zenon DEF InnerIn, Flags
  <1>2. PICK r1, r2, r3, r4 : /\ r1 = [egr |-> 1, key |-> [inner |-> "v4", innerDstOdd |-> yes]]
                              /\ r2 = [egr |-> 3, key |-> [inner |-> "v4", innerDstOdd |-> no]]
                              /\ r3 = [egr |-> 1, key |-> [inner |-> "v6", innerDstOdd |-> yes]]
                              /\ r4 = [egr |-> 3, key |-> [inner |-> "v6", innerDstOdd |-> no]]
                              /\ InnerIn = <<r1, r2, r3, r4>>
    BY <1>1
  <1>3. IsSeq(InnerIn) /\ Elements(InnerIn) = {r1, r2, r3, r4}
    <2>1. InnerIn = <<r1, r2, r3, r4>>
      BY <1>2
    <2> QED
      BY <2>1, LongSeqs
  <1>4. /\ r1.egr = 1 /\ (KeyIs(F, r1.key) <=> F["inner"] = "v4" /\ F["innerDstOdd"] = yes)
        /\ DOMAIN r1.key \subseteq InnerFields
    BY <1>2 DEF KeyIs, InnerFields
  <1>5. /\ r2.egr = 3 /\ (KeyIs(F, r2.key) <=> F["inner"] = "v4" /\ F["innerDstOdd"] = no)
        /\ DOMAIN r2.key \subseteq InnerFields
    BY <1>2 DEF KeyIs, InnerFields
  <1>6. /\ r3.egr = 1 /\ (KeyIs(F, r3.key) <=> F["inner"] = "v6" /\ F["innerDstOdd"] = yes)
        /\ DOMAIN r3.key \subseteq InnerFields
    BY <1>2 DEF KeyIs, InnerFields
  <1>7. /\ r4.egr = 3 /\ (KeyIs(F, r4.key) <=> F["inner"] = "v6" /\ F["innerDstOdd"] = no)
        /\ DOMAIN r4.key \subseteq InnerFields
    BY <1>2 DEF KeyIs, InnerFields
  <1> QED
    BY <1>0, <1>3, <1>4, <1>5, <1>6, <1>7

(* The entry of a direction for one inner key and one destination.          *)
TunnelEntry(r, d, vx, tof, type) ==
    AddIgwIpType(Highest, And(r.key, [outer |-> "v4", dst |-> d, vx |-> vx, tof |-> tof]),
                 Hit(type, tof # "none", r.egr))

(* The entries that Tunnelled makes.                                        *)
LEMMA TunnelElements ==
    ASSUME NEW dsts, IsSeq(dsts), NEW inner, IsSeq(inner), NEW vx, NEW tof, NEW type
    PROVE  /\ IsSeq(Tunnelled(dsts, vx, tof, inner, type))
           /\ Elements(Tunnelled(dsts, vx, tof, inner, type))
                  = {TunnelEntry(r, d, vx, tof, type) : r \in Elements(inner), d \in Elements(dsts)}
  <1> DEFINE row(i) == [d \in 1..Len(dsts) |-> TunnelEntry(inner[i], dsts[d], vx, tof, type)]
             ss == [i \in 1..Len(inner) |-> row(i)]
  <1>0. Len(dsts) \in Nat /\ Len(inner) \in Nat
    BY DEF IsSeq
  <1>1. Tunnelled(dsts, vx, tof, inner, type) = SeqExt!FlattenSeq(ss)
    BY DEF Tunnelled, TunnelEntry
  <1>2. ASSUME NEW i \in 1..Len(inner)
        PROVE  /\ IsSeq(row(i))
               /\ Elements(row(i)) = {TunnelEntry(inner[i], d, vx, tof, type) : d \in Elements(dsts)}
    <2>1. PICK n : n = Len(dsts)
      OBVIOUS
    <2>2. PICK s : s = [d \in 1..n |-> TunnelEntry(inner[i], dsts[d], vx, tof, type)]
      OBVIOUS
    <2>3. s = row(i)
      BY <2>1, <2>2
    <2>4. s = [d \in 1..n |-> s[d]] /\ \A d \in 1..n : s[d] = TunnelEntry(inner[i], dsts[d], vx, tof, type)
      BY <2>2
    <2>5. IsSeq(s) /\ Elements(s) = {s[d] : d \in 1..n}
      BY <1>0, <2>1, <2>4, FunctionElements
    <2>6. Elements(dsts) = {dsts[d] : d \in 1..n}
      BY <2>1 DEF Elements
    <2>7. {s[d] : d \in 1..n} = {TunnelEntry(inner[i], d, vx, tof, type) : d \in Elements(dsts)}
      BY <2>4, <2>6
    <2> HIDE DEF row
    <2> QED
      BY <2>3, <2>5, <2>7
  <1>3. /\ Len(ss) = Len(inner) /\ Len(ss) \in Nat /\ (Len(ss) = 0 => ss = <<>>)
        /\ \A i \in 1..Len(inner) : ss[i] = row(i)
    BY <1>0
  <1> HIDE DEF row
  <1>4. \A i \in 1..Len(ss) : IsSeq(ss[i])
    BY <1>2, <1>3
  <1> HIDE DEF ss
  <1>5. IsSeq(SeqExt!FlattenSeq(ss)) /\ Elements(SeqExt!FlattenSeq(ss)) = UNION {Elements(ss[i]) : i \in 1..Len(ss)}
    BY <1>3, <1>4, FlattenElements
  <1>6. UNION {Elements(ss[i]) : i \in 1..Len(ss)}
            = {TunnelEntry(r, d, vx, tof, type) : r \in Elements(inner), d \in Elements(dsts)}
    <2>1. PICK n : n = Len(inner)
      OBVIOUS
    <2>2. Len(ss) = n /\ \A i \in 1..n :
             Elements(ss[i]) = {TunnelEntry(inner[i], d, vx, tof, type) : d \in Elements(dsts)}
      BY <1>2, <1>3, <2>1
    <2>3. Elements(inner) = {inner[i] : i \in 1..n}
      BY <2>1 DEF Elements
    <2> QED
      BY <2>2, <2>3
  <1> QED
    BY <1>1, <1>5, <1>6

(* What such an entry asks of a packet.                                     *)
LEMMA TunnelMatches ==
    ASSUME NEW F, NEW r, DOMAIN r.key \subseteq InnerFields, NEW d, NEW vx, NEW tof, NEW type,
           NEW e, e = TunnelEntry(r, d, vx, tof, type), NEW act, act = Hit(type, tof # "none", r.egr)
    PROVE  /\ e.table = "igw_ip_type" /\ e.pri = Highest /\ e.act = act
           /\ Matches(F, e) <=> /\ KeyIs(F, r.key) /\ F["outer"] = "v4" /\ F["dst"] = d
                                /\ F["vx"] = vx /\ F["tof"] = tof
  <1>1. PICK k1, k2 : k1 = r.key /\ k2 = [outer |-> "v4", dst |-> d, vx |-> vx, tof |-> tof]
    OBVIOUS
  <1>2. e = Entry("igw_ip_type", Highest, And(k1, k2), act)
    BY <1>1 DEF TunnelEntry, AddIgwIpType
  <1>3. e.table = "igw_ip_type" /\ e.pri = Highest /\ e.act = act
    BY <1>2 DEF Entry
  <1>4. DOMAIN k1 \intersect DOMAIN k2 = {}
    BY <1>1 DEF InnerFields
  <1>5. Matches(F, e) <=> KeyIs(F, k1) /\ KeyIs(F, k2)
    BY <1>2, <1>4, MatchesAnd
  <1>6. KeyIs(F, k2) <=> F["outer"] = "v4" /\ F["dst"] = d /\ F["vx"] = vx /\ F["tof"] = tof
    BY <1>1 DEF KeyIs
  <1> QED
    BY <1>1, <1>3, <1>5, <1>6

(* What the keys see in a packet.                                           *)
LEMMA FieldsAre ==
    ASSUME NEW p, NEW vip, NEW other \in BOOLEAN, NEW yes, NEW no, Flags(yes, no),
           NEW F, F = Fields(p, vip, other)
    PROVE  /\ F["outer"] = p.outer /\ F["vx"] = p.vx /\ F["tof"] = p.tof
           /\ F["dst"] = IF p.to = "vip" THEN vip ELSE p.to
           /\ F["inner"] = IF p.vx = "none" THEN "none" ELSE IF p.eip \in V4 THEN "v4" ELSE "v6"
           /\ F["dstOdd"] \in {yes, no} /\ F["innerSrcOdd"] \in {yes, no} /\ F["innerDstOdd"] \in {yes, no}
           /\ p.to = "eip" => (F["dstOdd"] = yes <=> p.eip \in OddEips)
           /\ GoesOut(p) => (F["innerSrcOdd"] = yes <=> p.eip \in OddEips)
           /\ ~GoesOut(p) => (F["innerDstOdd"] = yes <=> p.eip \in OddEips)
  <1>1. PICK odd : odd = (p.eip \in OddEips)
    OBVIOUS
  <1>2. F = [outer |-> p.outer, dst |-> IF p.to = "vip" THEN vip ELSE p.to, vx |-> p.vx, tof |-> p.tof,
             dstOdd |-> IF p.to = "eip" THEN odd ELSE other,
             inner |-> IF p.vx = "none" THEN "none" ELSE IF p.eip \in V4 THEN "v4" ELSE "v6",
             innerSrcOdd |-> IF GoesOut(p) THEN odd ELSE other,
             innerDstOdd |-> IF GoesOut(p) THEN other ELSE odd]
    BY <1>1, Zenon DEF Fields
  <1>3. odd \in {yes, no} /\ other \in {yes, no} /\ (odd = yes <=> p.eip \in OddEips)
    <2>1. other \in {yes, no}
      BY Zenon DEF Flags
    <2>2. odd \in BOOLEAN
      BY <1>1
    <2>3. odd \in {yes, no}
      BY <2>2, Zenon DEF Flags
    <2>4. odd <=> p.eip \in OddEips
      BY <1>1
    <2>5. odd = yes <=> odd
      BY <2>2, Zenon DEF Flags
    <2> QED
      BY <2>1, <2>3, <2>4, <2>5
  <1>4. /\ F["outer"] = p.outer /\ F["vx"] = p.vx /\ F["tof"] = p.tof
        /\ F["dst"] = IF p.to = "vip" THEN vip ELSE p.to
        /\ F["inner"] = IF p.vx = "none" THEN "none" ELSE IF p.eip \in V4 THEN "v4" ELSE "v6"
        /\ F["dstOdd"] = IF p.to = "eip" THEN odd ELSE other
        /\ F["innerSrcOdd"] = IF GoesOut(p) THEN odd ELSE other
        /\ F["innerDstOdd"] = IF GoesOut(p) THEN other ELSE odd
    BY <1>2
  <1> QED
    BY <1>3, <1>4

(* What the entries of a direction ask of the inner packet.                 *)
InnerOf(type) == IF type = "OUT" THEN InnerOut ELSE InnerIn

(* The five kinds of tunnelled packets: to which addresses, and how.        *)
Tunnel(dsts, vx, tof, type) == [dsts |-> dsts, vx |-> vx, tof |-> tof, type |-> type]
Tunnels(f) ==
    {Tunnel(Vips(f), "std", "none", "OUT"), Tunnel(Vips(f), "jd", "AZ_OUT", "OUT"),
     Tunnel(<<"dl">>, "jd", "EIP_OUT", "OUT"), Tunnel(Vips(f), "jd", "AZ_IN", "IN"),
     Tunnel(<<"dl">>, "jd", "EIP_IN", "IN")}
TunnelEntries(t) ==
    {TunnelEntry(r, d, t.vx, t.tof, t.type) : r \in Elements(InnerOf(t.type)), d \in Elements(t.dsts)}

(* The entries of igw_ip_type and pipeline_fix, whoever wrote them.         *)
LEMMA TypeElements ==
    ASSUME NEW f, f.backup \in {"none", "other", "vip"}, NEW w, w = IgwIpTypeWrites(f)
    PROVE  /\ IsSeq(w)
           /\ Elements(w) = (UNION {TunnelEntries(t) : t \in Tunnels(f)})
                            \union Elements(InternetIn) \union Elements(PipelineFixWrites)
  <1>1. PICK v, dl : v = Vips(f) /\ dl = <<"dl">>
    OBVIOUS
  <1>2. IsSeq(v) /\ IsSeq(dl)
    BY <1>1, VipElements, ShortSeqs
  <1>3. IsSeq(InnerOut) /\ IsSeq(InnerIn) /\ IsSeq(InternetIn) /\ IsSeq(PipelineFixWrites)
    BY PartsAreSeqs
  <1>4. PICK t1, t2, t3, t4, t5 :
            /\ t1 = Tunnel(v, "std", "none", "OUT") /\ t2 = Tunnel(v, "jd", "AZ_OUT", "OUT")
            /\ t3 = Tunnel(dl, "jd", "EIP_OUT", "OUT") /\ t4 = Tunnel(v, "jd", "AZ_IN", "IN")
            /\ t5 = Tunnel(dl, "jd", "EIP_IN", "IN")
    OBVIOUS
  <1>5. Tunnels(f) = {t1, t2, t3, t4, t5}
    BY <1>1, <1>4 DEF Tunnels
  <1>6. PICK g1, g2, g3, g4, g5 :
            /\ g1 = Tunnelled(v, "std", "none", InnerOut, "OUT") /\ g2 = Tunnelled(v, "jd", "AZ_OUT", InnerOut, "OUT")
            /\ g3 = Tunnelled(dl, "jd", "EIP_OUT", InnerOut, "OUT") /\ g4 = Tunnelled(v, "jd", "AZ_IN", InnerIn, "IN")
            /\ g5 = Tunnelled(dl, "jd", "EIP_IN", InnerIn, "IN")
    OBVIOUS
  <1>7. w = g1 \o g2 \o g3 \o InternetIn \o g4 \o g5 \o PipelineFixWrites
    BY <1>1, <1>6 DEF IgwIpTypeWrites, InternetOut, InternetOutBetweenClusters, InternetOutWithinCluster,
                      InternetInBetweenClusters, InternetInWithinCluster
  <1>8. /\ IsSeq(g1) /\ Elements(g1) = TunnelEntries(t1)
        /\ IsSeq(g2) /\ Elements(g2) = TunnelEntries(t2)
        /\ IsSeq(g3) /\ Elements(g3) = TunnelEntries(t3)
        /\ IsSeq(g4) /\ Elements(g4) = TunnelEntries(t4)
        /\ IsSeq(g5) /\ Elements(g5) = TunnelEntries(t5)
    <2>1. IsSeq(g1) /\ Elements(g1) = TunnelEntries(t1)
      BY <1>2, <1>3, <1>4, <1>6, TunnelElements DEF TunnelEntries, Tunnel, InnerOf
    <2>2. IsSeq(g2) /\ Elements(g2) = TunnelEntries(t2)
      BY <1>2, <1>3, <1>4, <1>6, TunnelElements DEF TunnelEntries, Tunnel, InnerOf
    <2>3. IsSeq(g3) /\ Elements(g3) = TunnelEntries(t3)
      BY <1>2, <1>3, <1>4, <1>6, TunnelElements DEF TunnelEntries, Tunnel, InnerOf
    <2>4. IsSeq(g4) /\ Elements(g4) = TunnelEntries(t4)
      BY <1>2, <1>3, <1>4, <1>6, TunnelElements DEF TunnelEntries, Tunnel, InnerOf
    <2>5. IsSeq(g5) /\ Elements(g5) = TunnelEntries(t5)
      BY <1>2, <1>3, <1>4, <1>6, TunnelElements DEF TunnelEntries, Tunnel, InnerOf
    <2> QED
      BY <2>1, <2>2, <2>3, <2>4, <2>5
  <1>9. /\ IsSeq(w)
         /\ Elements(w) = Elements(g1) \union Elements(g2) \union Elements(g3) \union Elements(InternetIn)
                          \union Elements(g4) \union Elements(g5) \union Elements(PipelineFixWrites)
    BY <1>3, <1>7, <1>8, SevenParts
  <1>10. UNION {TunnelEntries(t) : t \in Tunnels(f)}
             = TunnelEntries(t1) \union TunnelEntries(t2) \union TunnelEntries(t3)
               \union TunnelEntries(t4) \union TunnelEntries(t5)
    BY <1>5
  <1> QED
    BY <1>8, <1>9, <1>10

(* An entry for packets from the Internet, by the last bit of the eip.      *)
LEMMA InternetEntry ==
    ASSUME NEW F, NEW o, NEW b, NEW act, NEW e,
           e = Entry("igw_ip_type", Lowest, [outer |-> o, dstOdd |-> b], act)
    PROVE  /\ e.table = "igw_ip_type" /\ e.pri = Lowest /\ e.act = act
           /\ Matches(F, e) <=> F["outer"] = o /\ F["dstOdd"] = b
  BY DEF Matches, Entry

(* The entries for packets from the Internet.                               *)
LEMMA InternetEntries ==
    ASSUME NEW F, NEW yes, NEW no, Flags(yes, no), F["dstOdd"] \in {yes, no},
           NEW in, in = Hit("IN", no, IF F["dstOdd"] = yes THEN 1 ELSE 3)
    PROVE  /\ \A e \in Elements(InternetIn) :
                /\ e.table = "igw_ip_type"
                /\ Matches(F, e) => \/ e.pri = Lowest /\ e.act = in /\ F["outer"] \in {"v4", "v6"}
                                    \/ /\ e.pri = Highest /\ e.act = NeedDrop
                                       /\ F["outer"] = "v6" /\ F["dst"] = "mcast6"
           /\ F["outer"] \in {"v4", "v6"} =>
                \E e \in Elements(InternetIn) : Matches(F, e) /\ e.pri = Lowest /\ e.act = in
           /\ F["outer"] = "v6" /\ F["dst"] = "mcast6" =>
                \E e \in Elements(InternetIn) : Matches(F, e) /\ e.pri = Highest /\ e.act = NeedDrop
  <1>1. PICK one, three : one = Hit("IN", no, 1) /\ three = Hit("IN", no, 3)
    OBVIOUS
  <1>2. in = IF F["dstOdd"] = yes THEN one ELSE three
    BY <1>1
  <1>3. ASSUME NEW o
        PROVE  /\ FromInternet(o, TRUE) = Entry("igw_ip_type", Lowest, [outer |-> o, dstOdd |-> yes], one)
               /\ FromInternet(o, FALSE) = Entry("igw_ip_type", Lowest, [outer |-> o, dstOdd |-> no], three)
    <2>2. FromInternet(o, TRUE) = Entry("igw_ip_type", Lowest, [outer |-> o, dstOdd |-> yes], one)
      BY <1>1, Zenon DEF FromInternet, AddIgwIpType, Flags
    <2>3. FromInternet(o, FALSE) = Entry("igw_ip_type", Lowest, [outer |-> o, dstOdd |-> no], three)
      BY <1>1, Zenon DEF FromInternet, AddIgwIpType, Flags
    <2> QED
      BY <2>2, <2>3
  <1>4. PICK e1, e2, e3, e4, e5 :
           /\ e1 = Entry("igw_ip_type", Lowest, [outer |-> "v4", dstOdd |-> yes], one)
           /\ e2 = Entry("igw_ip_type", Lowest, [outer |-> "v4", dstOdd |-> no], three)
           /\ e3 = Entry("igw_ip_type", Highest, [outer |-> "v6", dst |-> "mcast6"], NeedDrop)
           /\ e4 = Entry("igw_ip_type", Lowest, [outer |-> "v6", dstOdd |-> yes], one)
           /\ e5 = Entry("igw_ip_type", Lowest, [outer |-> "v6", dstOdd |-> no], three)
    OBVIOUS
  <1>5. InternetIn = <<e1, e2, e3, e4, e5>>
    BY <1>3, <1>4, Zenon DEF InternetIn, AddIgwIpType
  <1>6. Elements(InternetIn) = {e1, e2, e3, e4, e5}
    BY <1>5, LongSeqs
  <1>7. /\ e1.table = "igw_ip_type" /\ e1.pri = Lowest /\ e1.act = one
        /\ Matches(F, e1) <=> F["outer"] = "v4" /\ F["dstOdd"] = yes
    BY <1>4, InternetEntry
  <1>8. /\ e2.table = "igw_ip_type" /\ e2.pri = Lowest /\ e2.act = three
        /\ Matches(F, e2) <=> F["outer"] = "v4" /\ F["dstOdd"] = no
    BY <1>4, InternetEntry
  <1>9. /\ e3.table = "igw_ip_type" /\ e3.pri = Highest /\ e3.act = NeedDrop
        /\ Matches(F, e3) <=> F["outer"] = "v6" /\ F["dst"] = "mcast6"
    BY <1>4 DEF Matches, Entry
  <1>10. /\ e4.table = "igw_ip_type" /\ e4.pri = Lowest /\ e4.act = one
         /\ Matches(F, e4) <=> F["outer"] = "v6" /\ F["dstOdd"] = yes
    BY <1>4, InternetEntry
  <1>11. /\ e5.table = "igw_ip_type" /\ e5.pri = Lowest /\ e5.act = three
         /\ Matches(F, e5) <=> F["outer"] = "v6" /\ F["dstOdd"] = no
    BY <1>4, InternetEntry
  <1>12. yes # no
    BY DEF Flags
  <1> QED
    BY <1>2, <1>6, <1>7, <1>8, <1>9, <1>10, <1>11, <1>12

(* The pipeline of a tunnelled packet, and what its entry does.             *)
Pipe(F, yes, type) ==
    IF type = "OUT" THEN IF F["inner"] = "v6" /\ F["innerSrcOdd"] = yes THEN 0 ELSE 2
                    ELSE IF F["innerDstOdd"] = yes THEN 1 ELSE 3
TunnelAct(F, yes, t) == Hit(t.type, t.tof # "none", Pipe(F, yes, t.type))

(* The packet comes through a tunnel.                                       *)
Through(F, t) == /\ F["dst"] \in Elements(t.dsts) /\ F["vx"] = t.vx /\ F["tof"] = t.tof
                 /\ F["outer"] = "v4" /\ F["inner"] \in {"v4", "v6"}

(* A tunnel has one direction, by its tof.                                  *)
LEMMA TunnelKinds ==
    ASSUME NEW f, NEW t \in Tunnels(f)
    PROVE  /\ t.type \in {"OUT", "IN"} /\ t.vx \in {"std", "jd"}
           /\ \A u \in Tunnels(f) : u.tof = t.tof => u.type = t.type
  BY DEF Tunnels, Tunnel

(* One entry of the direction fits the inner packet.                        *)
LEMMA InnerOfKeys ==
    ASSUME NEW F, NEW yes, NEW no, Flags(yes, no), F["innerSrcOdd"] \in {yes, no}, F["innerDstOdd"] \in {yes, no},
           NEW type \in {"OUT", "IN"}
    PROVE  /\ \A r \in Elements(InnerOf(type)) : DOMAIN r.key \subseteq InnerFields
           /\ F["inner"] \in {"v4", "v6"} => \E r \in Elements(InnerOf(type)) : KeyIs(F, r.key)
           /\ \A r \in Elements(InnerOf(type)) : KeyIs(F, r.key) =>
                F["inner"] \in {"v4", "v6"} /\ r.egr = Pipe(F, yes, type)
  <1>1. CASE type = "OUT"
    BY <1>1, OutKeys DEF InnerOf, Pipe
  <1>2. CASE type = "IN"
    BY <1>2, InKeys DEF InnerOf, Pipe
  <1> QED
    BY <1>1, <1>2

(* The entries of a tunnel match the packets that come through it alone.    *)
LEMMA TunnelHits ==
    ASSUME NEW F, NEW yes, NEW no, Flags(yes, no), F["innerSrcOdd"] \in {yes, no}, F["innerDstOdd"] \in {yes, no},
           NEW f, NEW t \in Tunnels(f)
    PROVE  /\ \A e \in TunnelEntries(t) : /\ e.table = "igw_ip_type" /\ e.pri = Highest
                                          /\ Matches(F, e) => Through(F, t) /\ e.act = TunnelAct(F, yes, t)
           /\ Through(F, t) => \E e \in TunnelEntries(t) : Matches(F, e) /\ e.act = TunnelAct(F, yes, t)
  <1>1. PICK keys : keys = Elements(InnerOf(t.type))
    OBVIOUS
  <1>2. t.type \in {"OUT", "IN"}
    BY TunnelKinds
  <1>3. /\ \A r \in keys : DOMAIN r.key \subseteq InnerFields
        /\ F["inner"] \in {"v4", "v6"} => \E r \in keys : KeyIs(F, r.key)
        /\ \A r \in keys : KeyIs(F, r.key) => F["inner"] \in {"v4", "v6"} /\ r.egr = Pipe(F, yes, t.type)
    BY <1>1, <1>2, InnerOfKeys
  <1>4. ASSUME NEW r \in keys, NEW d \in Elements(t.dsts), NEW e, e = TunnelEntry(r, d, t.vx, t.tof, t.type)
        PROVE  /\ e.table = "igw_ip_type" /\ e.pri = Highest
               /\ Matches(F, e) <=> /\ KeyIs(F, r.key) /\ F["outer"] = "v4" /\ F["dst"] = d
                                    /\ F["vx"] = t.vx /\ F["tof"] = t.tof
               /\ KeyIs(F, r.key) => e.act = TunnelAct(F, yes, t)
    <2>1. DOMAIN r.key \subseteq InnerFields
      BY <1>3
    <2>2. PICK vx, tof, type : vx = t.vx /\ tof = t.tof /\ type = t.type
      OBVIOUS
    <2>3. e = TunnelEntry(r, d, vx, tof, type)
      BY <1>4, <2>2
    <2>0. PICK act : act = Hit(type, tof # "none", r.egr)
      OBVIOUS
    <2>4. /\ e.table = "igw_ip_type" /\ e.pri = Highest /\ e.act = act
          /\ Matches(F, e) <=> /\ KeyIs(F, r.key) /\ F["outer"] = "v4" /\ F["dst"] = d
                               /\ F["vx"] = vx /\ F["tof"] = tof
      BY <2>0, <2>1, <2>3, TunnelMatches
    <2>5. KeyIs(F, r.key) => r.egr = Pipe(F, yes, type)
      BY <1>3, <2>2
    <2>6. KeyIs(F, r.key) => e.act = TunnelAct(F, yes, t)
      BY <2>0, <2>2, <2>4, <2>5, Zenon DEF TunnelAct
    <2> QED
      BY <2>2, <2>4, <2>6
  <1>5. ASSUME NEW e \in TunnelEntries(t)
        PROVE  /\ e.table = "igw_ip_type" /\ e.pri = Highest
               /\ Matches(F, e) => Through(F, t) /\ e.act = TunnelAct(F, yes, t)
    <2>1. PICK r \in keys, d \in Elements(t.dsts) : e = TunnelEntry(r, d, t.vx, t.tof, t.type)
      BY <1>1 DEF TunnelEntries
    <2> QED
      BY <1>3, <1>4, <2>1 DEF Through
  <1>6. ASSUME Through(F, t)
        PROVE  \E e \in TunnelEntries(t) : Matches(F, e) /\ e.act = TunnelAct(F, yes, t)
    <2>1. PICK r \in keys : KeyIs(F, r.key)
      BY <1>3, <1>6 DEF Through
    <2>2. PICK d \in Elements(t.dsts) : d = F["dst"]
      BY <1>6 DEF Through
    <2>3. PICK e : e = TunnelEntry(r, d, t.vx, t.tof, t.type)
      OBVIOUS
    <2>4. e \in TunnelEntries(t)
      BY <1>1, <2>3 DEF TunnelEntries
    <2>5. Matches(F, e) /\ e.act = TunnelAct(F, yes, t)
      BY <1>4, <1>6, <2>1, <2>2, <2>3 DEF Through
    <2> QED
      BY <2>4, <2>5
  <1> QED
    BY <1>5, <1>6

(* pipeline_fix is a table of its own.                                      *)
LEMMA PipelineEntries ==
    ASSUME NEW e \in Elements(PipelineFixWrites)
    PROVE  e.table = "pipeline_fix"
  <1>1. \E k1, k2 : PipelineFixWrites = <<SetPipeline(k1, 0), SetPipeline(k2, 2)>>
    BY Zenon DEF PipelineFixWrites
  <1>2. PICK k1, k2 : PipelineFixWrites = <<SetPipeline(k1, 0), SetPipeline(k2, 2)>>
    BY <1>1
  <1>3. e \in {SetPipeline(k1, 0), SetPipeline(k2, 2)}
    BY <1>2, ShortSeqs
  <1> QED
    BY <1>3 DEF SetPipeline, Entry

(* The hits of a packet in igw_ip_type.                                     *)
LEMMA TypeHits ==
    ASSUME NEW F, NEW yes, NEW no, Flags(yes, no),
           F["innerSrcOdd"] \in {yes, no}, F["innerDstOdd"] \in {yes, no}, F["dstOdd"] \in {yes, no},
           NEW f, f.backup \in {"none", "other", "vip"}, NEW hits, hits = Hits(IgwIpTypeWrites(f), "igw_ip_type", F),
           NEW in, in = Hit("IN", no, IF F["dstOdd"] = yes THEN 1 ELSE 3)
    PROVE  /\ \A e \in hits :
                \/ \E t \in Tunnels(f) : Through(F, t) /\ e.pri = Highest /\ e.act = TunnelAct(F, yes, t)
                \/ e.pri = Lowest /\ e.act = in /\ F["outer"] \in {"v4", "v6"}
                \/ e.pri = Highest /\ e.act = NeedDrop /\ F["outer"] = "v6" /\ F["dst"] = "mcast6"
           /\ \A t \in Tunnels(f) : Through(F, t) =>
                \E e \in hits : e.pri = Highest /\ e.act = TunnelAct(F, yes, t)
           /\ F["outer"] \in {"v4", "v6"} => \E e \in hits : e.pri = Lowest /\ e.act = in
           /\ F["outer"] = "v6" /\ F["dst"] = "mcast6" => \E e \in hits : e.pri = Highest /\ e.act = NeedDrop
  <1>1. PICK w, internet : w = IgwIpTypeWrites(f) /\ internet = Elements(InternetIn)
    OBVIOUS
  <1>2. Elements(w) = (UNION {TunnelEntries(t) : t \in Tunnels(f)})
                      \union internet \union Elements(PipelineFixWrites)
    BY <1>1, TypeElements
  <1>3. hits = {e \in Elements(w) : e.table = "igw_ip_type" /\ Matches(F, e)}
    BY <1>1 DEF Hits
  <1>4. \A e \in Elements(PipelineFixWrites) : e.table # "igw_ip_type"
    BY PipelineEntries
  <1>5. \A e \in hits : e \in internet \/ \E t \in Tunnels(f) : e \in TunnelEntries(t)
    BY <1>2, <1>3, <1>4
  <1>6. /\ \A e \in internet :
             /\ e.table = "igw_ip_type"
             /\ Matches(F, e) => \/ e.pri = Lowest /\ e.act = in /\ F["outer"] \in {"v4", "v6"}
                                 \/ /\ e.pri = Highest /\ e.act = NeedDrop
                                    /\ F["outer"] = "v6" /\ F["dst"] = "mcast6"
        /\ F["outer"] \in {"v4", "v6"} =>
             \E e \in internet : Matches(F, e) /\ e.pri = Lowest /\ e.act = in
        /\ F["outer"] = "v6" /\ F["dst"] = "mcast6" =>
             \E e \in internet : Matches(F, e) /\ e.pri = Highest /\ e.act = NeedDrop
    BY <1>1, InternetEntries
  <1>7. ASSUME NEW t \in Tunnels(f)
        PROVE  /\ \A e \in TunnelEntries(t) : /\ e.table = "igw_ip_type" /\ e.pri = Highest
                                              /\ Matches(F, e) => Through(F, t) /\ e.act = TunnelAct(F, yes, t)
               /\ Through(F, t) => \E e \in TunnelEntries(t) : Matches(F, e) /\ e.act = TunnelAct(F, yes, t)
    BY TunnelHits
  <1>8. ASSUME NEW e \in hits
        PROVE  \/ \E t \in Tunnels(f) : Through(F, t) /\ e.pri = Highest /\ e.act = TunnelAct(F, yes, t)
               \/ e.pri = Lowest /\ e.act = in /\ F["outer"] \in {"v4", "v6"}
               \/ e.pri = Highest /\ e.act = NeedDrop /\ F["outer"] = "v6" /\ F["dst"] = "mcast6"
    <2>1. Matches(F, e)
      BY <1>3
    <2> QED
      BY <1>5, <1>6, <1>7, <2>1
  <1>9. ASSUME NEW t \in Tunnels(f), Through(F, t)
        PROVE  \E e \in hits : e.pri = Highest /\ e.act = TunnelAct(F, yes, t)
    <2>1. PICK e \in TunnelEntries(t) : Matches(F, e) /\ e.act = TunnelAct(F, yes, t)
      BY <1>7, <1>9
    <2>2. e \in Elements(w) /\ e.table = "igw_ip_type" /\ e.pri = Highest
      BY <1>2, <1>7
    <2> QED
      BY <1>3, <2>1, <2>2
  <1>10. \A e \in internet : Matches(F, e) => e \in hits
    BY <1>2, <1>3, <1>6
  <1> QED
    BY <1>6, <1>8, <1>9, <1>10

(* The packets that arrive.                                                 *)
Straight(p) == p.to = "eip" /\ p.outer \in {"v4", "v6"} /\ p.vx = "none" /\ p.tof = "none"
Multicast(p) == p.to = "mcast6" /\ p.outer = "v6" /\ p.vx = "none" /\ p.tof = "none"
Unknown(p) == p.to = "unknown" /\ p.outer = "none" /\ p.vx = "none" /\ p.tof = "none"
ByTunnel(p, to, vx, tof) == p.to = to /\ p.outer = "v4" /\ p.vx = vx /\ p.tof = tof

(* There are no others.                                                     *)
LEMMA ArrivalKinds ==
    ASSUME NEW p \in Arrivals
    PROVE  \/ Straight(p) \/ Multicast(p) \/ Unknown(p)
           \/ ByTunnel(p, "vip", "std", "none")
           \/ ByTunnel(p, "vip", "jd", "AZ_OUT") \/ ByTunnel(p, "dl", "jd", "EIP_OUT")
           \/ ByTunnel(p, "vip", "jd", "AZ_IN") \/ ByTunnel(p, "dl", "jd", "EIP_IN")
  <1>1. PICK e \in Eips :
           \/ p \in {Arrival("eip", IF e \in V4 THEN "v4" ELSE "v6", "none", "none", e),
                     Arrival("vip", "v4", "std", "none", e),
                     Arrival("mcast6", "v6", "none", "none", e),
                     Arrival("unknown", "none", "none", "none", e)}
           \/ \E r \in Redirects("IN") \union Redirects("OUT") : p = Arrival(r[1], "v4", "jd", r[2], e)
    BY DEF Arrivals
  <1>2. CASE p = Arrival("eip", IF e \in V4 THEN "v4" ELSE "v6", "none", "none", e)
    BY <1>2 DEF Arrival, Straight
  <1>3. CASE p = Arrival("vip", "v4", "std", "none", e)
    BY <1>3 DEF Arrival, ByTunnel
  <1>4. CASE p = Arrival("mcast6", "v6", "none", "none", e)
    BY <1>4 DEF Arrival, Multicast
  <1>5. CASE p = Arrival("unknown", "none", "none", "none", e)
    BY <1>5 DEF Arrival, Unknown
  <1>6. CASE \E r \in Redirects("IN") \union Redirects("OUT") : p = Arrival(r[1], "v4", "jd", r[2], e)
    <2>1. PICK r \in Redirects("IN") \union Redirects("OUT") : p = Arrival(r[1], "v4", "jd", r[2], e)
      BY <1>6
    <2>2. r \in {<<"vip", "AZ_IN">>, <<"dl", "EIP_IN">>, <<"vip", "AZ_OUT">>, <<"dl", "EIP_OUT">>}
      BY DEF Redirects
    <2>3. ByTunnel(p, r[1], "jd", r[2])
      BY <2>1 DEF Arrival, ByTunnel
    <2> QED
      BY <2>2, <2>3
  <1> QED
    BY <1>1, <1>2, <1>3, <1>4, <1>5, <1>6

(* What IgwIpType says of a packet from the Internet.                       *)
LEMMA StraightType ==
    ASSUME NEW p, Straight(p), NEW yes, NEW no, Flags(yes, no)
    PROVE  IgwIpType(p) = Hit("IN", no, IF p.eip \in OddEips THEN 1 ELSE 3)
  <1>1. p.to = "eip" /\ p.vx = "none" /\ p.outer # "none"
    BY DEF Straight
  <1>2. IgwIpType(p) = InHit(p, FALSE)
    BY <1>1 DEF IgwIpType
  <1> QED
    BY <1>2, Zenon DEF InHit, Hit, Flags

(* What it says of packets for no eip.                                      *)
LEMMA DroppedType ==
    ASSUME NEW p, Multicast(p) \/ Unknown(p)
    PROVE  IgwIpType(p) = NeedDrop
  <1>1. p.vx = "none" /\ (p.to = "mcast6" \/ p.outer = "none")
    BY DEF Multicast, Unknown
  <1> QED
    BY <1>1 DEF IgwIpType

(* What it says of packets that come through a tunnel.                      *)
LEMMA TunnelType ==
    ASSUME NEW p, NEW yes, NEW no, Flags(yes, no)
    PROVE  /\ ByTunnel(p, "vip", "std", "none") => 
                IgwIpType(p) = Hit("OUT", no, IF p.eip \in OddEips \ V4 THEN 0 ELSE 2) /\ GoesOut(p)
           /\ ByTunnel(p, "vip", "jd", "AZ_OUT") \/ ByTunnel(p, "dl", "jd", "EIP_OUT") =>
                IgwIpType(p) = Hit("OUT", yes, IF p.eip \in OddEips \ V4 THEN 0 ELSE 2) /\ GoesOut(p)
           /\ ByTunnel(p, "vip", "jd", "AZ_IN") \/ ByTunnel(p, "dl", "jd", "EIP_IN") =>
                IgwIpType(p) = Hit("IN", yes, IF p.eip \in OddEips THEN 1 ELSE 3) /\ ~GoesOut(p)
  <1>1. ASSUME ByTunnel(p, "vip", "std", "none")
        PROVE  IgwIpType(p) = OutHit(p, FALSE) /\ GoesOut(p)
    <2>1. p.to = "vip" /\ p.vx = "std" /\ p.tof = "none" /\ p.outer = "v4"
      BY <1>1 DEF ByTunnel
    <2>2. IgwIpType(p) = OutHit(p, FALSE)
      BY <2>1 DEF IgwIpType
    <2> QED
      BY <2>1, <2>2 DEF GoesOut
  <1>2. ASSUME ByTunnel(p, "vip", "jd", "AZ_OUT") \/ ByTunnel(p, "dl", "jd", "EIP_OUT")
        PROVE  IgwIpType(p) = OutHit(p, TRUE) /\ GoesOut(p)
    <2>1. /\ p.vx = "jd" /\ p.outer = "v4" /\ p.to # "mcast6"
          /\ <<p.to, p.tof>> \in {<<"vip", "AZ_OUT">>, <<"dl", "EIP_OUT">>}
      BY <1>2 DEF ByTunnel
    <2>2. <<p.to, p.tof>> \in Redirects("OUT") /\ <<p.to, p.tof>> \notin Redirects("IN")
      BY <2>1 DEF Redirects
    <2>3. IgwIpType(p) = OutHit(p, TRUE)
      BY <2>1, <2>2 DEF IgwIpType
    <2> QED
      BY <2>2, <2>3 DEF GoesOut
  <1>3. ASSUME ByTunnel(p, "vip", "jd", "AZ_IN") \/ ByTunnel(p, "dl", "jd", "EIP_IN")
        PROVE  IgwIpType(p) = InHit(p, TRUE) /\ ~GoesOut(p)
    <2>1. /\ p.vx = "jd" /\ p.outer = "v4" /\ p.to # "mcast6"
          /\ <<p.to, p.tof>> \in {<<"vip", "AZ_IN">>, <<"dl", "EIP_IN">>}
      BY <1>3 DEF ByTunnel
    <2>2. <<p.to, p.tof>> \in Redirects("IN") /\ <<p.to, p.tof>> \notin Redirects("OUT")
      BY <2>1 DEF Redirects
    <2>3. IgwIpType(p) = InHit(p, TRUE)
      BY <2>1, <2>2 DEF IgwIpType
    <2> QED
      BY <2>1, <2>2, <2>3 DEF GoesOut
  <1>4. /\ OutHit(p, FALSE) = Hit("OUT", no, IF p.eip \in OddEips \ V4 THEN 0 ELSE 2)
        /\ OutHit(p, TRUE) = Hit("OUT", yes, IF p.eip \in OddEips \ V4 THEN 0 ELSE 2)
        /\ InHit(p, TRUE) = Hit("IN", yes, IF p.eip \in OddEips THEN 1 ELSE 3)
    BY Zenon DEF OutHit, InHit, Hit, Flags
  <1> QED
    BY <1>1, <1>2, <1>3, <1>4

(* A tunnelled packet is decided by the entry of its tunnel, although the   *)
(* entries for packets from the Internet match its outer header too.        *)
LEMMA TunnelDecided ==
    ASSUME NEW F, NEW yes, NEW no, Flags(yes, no),
           F["innerSrcOdd"] \in {yes, no}, F["innerDstOdd"] \in {yes, no}, F["dstOdd"] \in {yes, no},
           NEW f, f.backup \in {"none", "other", "vip"}, NEW w, w = IgwIpTypeWrites(f),
           NEW t \in Tunnels(f), Through(F, t)
    PROVE  Verdict(w, Len(w), "igw_ip_type", F) = {TunnelAct(F, yes, t)}
  <1>1. PICK table, hits, in, act :
            /\ table = "igw_ip_type" /\ hits = Hits(w, table, F) /\ act = TunnelAct(F, yes, t)
            /\ in = Hit("IN", no, IF F["dstOdd"] = yes THEN 1 ELSE 3)
    OBVIOUS
  <1>2. /\ \A e \in hits :
             \/ \E u \in Tunnels(f) : Through(F, u) /\ e.pri = Highest /\ e.act = TunnelAct(F, yes, u)
             \/ e.pri = Lowest /\ e.act = in /\ F["outer"] \in {"v4", "v6"}
             \/ e.pri = Highest /\ e.act = NeedDrop /\ F["outer"] = "v6" /\ F["dst"] = "mcast6"
        /\ \A u \in Tunnels(f) : Through(F, u) =>
             \E e \in hits : e.pri = Highest /\ e.act = TunnelAct(F, yes, u)
    BY <1>1, TypeHits
  <1>3. \A u \in Tunnels(f) : Through(F, u) => TunnelAct(F, yes, u) = act
    <2>1. ASSUME NEW u \in Tunnels(f), Through(F, u) PROVE TunnelAct(F, yes, u) = act
      <3>1. u.tof = t.tof
        BY <2>1 DEF Through
      <3>2. u.type = t.type
        BY <3>1, TunnelKinds
      <3> QED
        BY <1>1, <3>1, <3>2, Zenon DEF TunnelAct
    <2> QED
      BY <2>1
  <1>4. F["outer"] # "v6"
    BY DEF Through
  <1>5. \A e \in hits : (e.act = act /\ e.pri = 0) \/ (0 <= e.pri /\ ~ (e.pri <= 0))
    <2>1. ASSUME NEW e \in hits PROVE (e.act = act /\ e.pri = 0) \/ e.pri = 20
      BY <1>2, <1>3, <1>4, Priorities
    <2>2. 0 <= 20 /\ ~ (20 <= 0)
      OBVIOUS
    <2> QED
      BY <2>1, <2>2
  <1>6. \E e \in hits : e.act = act /\ e.pri = 0
    BY <1>1, <1>2, Priorities
  <1>7. IsSeq(w)
    BY TypeElements
  <1>8. Verdict(w, Len(w), table, F) = {act}
    <2>1. PICK best \in hits : best.act = act /\ best.pri = 0
      BY <1>6
    <2>2. \A e \in hits : best.pri <= e.pri /\ (e.act = best.act \/ ~ (e.pri <= best.pri))
      BY <1>5, <2>1
    <2>3. Verdict(w, Len(w), table, F) = {best.act}
      BY <1>1, <1>7, <2>2, BestVerdict
    <2> QED
      BY <2>1, <2>3
  <1> QED
    BY <1>1, <1>8

(* Any other packet is decided by the entries for the Internet, or by none. *)
LEMMA InternetDecided ==
    ASSUME NEW F, NEW yes, NEW no, Flags(yes, no),
           F["innerSrcOdd"] \in {yes, no}, F["innerDstOdd"] \in {yes, no}, F["dstOdd"] \in {yes, no},
           NEW f, f.backup \in {"none", "other", "vip"}, NEW w, w = IgwIpTypeWrites(f), F["vx"] = "none"
    PROVE  /\ F["outer"] \in {"v4", "v6"} /\ F["dst"] # "mcast6" =>
                Verdict(w, Len(w), "igw_ip_type", F) = {Hit("IN", no, IF F["dstOdd"] = yes THEN 1 ELSE 3)}
           /\ F["outer"] = "v6" /\ F["dst"] = "mcast6" =>
                Verdict(w, Len(w), "igw_ip_type", F) = {NeedDrop}
           /\ F["outer"] = "none" => Verdict(w, Len(w), "igw_ip_type", F) = {}
  <1>1. PICK table, hits, in :
            /\ table = "igw_ip_type" /\ hits = Hits(w, table, F)
            /\ in = Hit("IN", no, IF F["dstOdd"] = yes THEN 1 ELSE 3)
    OBVIOUS
  <1>2. /\ \A e \in hits :
             \/ \E u \in Tunnels(f) : Through(F, u) /\ e.pri = Highest /\ e.act = TunnelAct(F, yes, u)
             \/ e.pri = Lowest /\ e.act = in /\ F["outer"] \in {"v4", "v6"}
             \/ e.pri = Highest /\ e.act = NeedDrop /\ F["outer"] = "v6" /\ F["dst"] = "mcast6"
        /\ F["outer"] \in {"v4", "v6"} => \E e \in hits : e.pri = Lowest /\ e.act = in
        /\ F["outer"] = "v6" /\ F["dst"] = "mcast6" => \E e \in hits : e.pri = Highest /\ e.act = NeedDrop
    BY <1>1, TypeHits
  <1>3. \A u \in Tunnels(f) : ~Through(F, u)
    BY TunnelKinds DEF Through
  <1>4. IsSeq(w)
    BY TypeElements
  <1>5. 0 <= 20 /\ ~ (20 <= 0)
    OBVIOUS
  <1>6. CASE F["outer"] \in {"v4", "v6"} /\ F["dst"] # "mcast6"
    <2>1. PICK best \in hits : best.act = in /\ best.pri = 20
      BY <1>2, <1>6, Priorities
    <2>2. \A e \in hits : best.pri <= e.pri /\ (e.act = best.act \/ ~ (e.pri <= best.pri))
      BY <1>2, <1>3, <1>6, <2>1, Priorities
    <2>3. Verdict(w, Len(w), table, F) = {best.act}
      BY <1>1, <1>4, <2>2, BestVerdict
    <2> QED
      BY <1>1, <1>6, <2>1, <2>3
  <1>7. CASE F["outer"] = "v6" /\ F["dst"] = "mcast6"
    <2>1. PICK best \in hits : best.act = NeedDrop /\ best.pri = 0
      BY <1>2, <1>7, Priorities
    <2>2. \A e \in hits : best.pri <= e.pri /\ (e.act = best.act \/ ~ (e.pri <= best.pri))
      BY <1>2, <1>3, <1>5, <1>7, <2>1, Priorities
    <2>3. Verdict(w, Len(w), table, F) = {best.act}
      BY <1>1, <1>4, <2>2, BestVerdict
    <2> QED
      BY <1>1, <1>7, <2>1, <2>3
  <1>8. CASE F["outer"] = "none"
    <2>1. hits = {}
      BY <1>2, <1>3, <1>8
    <2>2. Verdict(w, Len(w), table, F) = {}
      BY <1>1, <1>4, <2>1, NoVerdict
    <2> QED
      BY <1>1, <1>8, <2>2
  <1>9. CASE F["outer"] \notin {"v4", "v6", "none"}
    BY <1>9
  <1> QED
    BY <1>6, <1>7, <1>8, <1>9

(* igw_ip_type decides about every packet, for any eips.                    *)
LEMMA TypeDecided ==
    ASSUME NEW f, f.backup \in {"none", "other", "vip"}
    PROVE  DecidesType(f)
  <1> SUFFICES ASSUME NEW p \in Arrivals, NEW v \in 1..Len(Vips(f)), NEW other \in BOOLEAN
               PROVE  Decides(IgwIpTypeWrites(f), "igw_ip_type", Fields(p, Vips(f)[v], other), NeedDrop, IgwIpType(p))
    BY DEF DecidesType
  <1>1. PICK yes, no : Flags(yes, no)
    BY DEF Flags
  <1>2. PICK w, vip, F, verdict :
            /\ w = IgwIpTypeWrites(f) /\ vip = Vips(f)[v] /\ F = Fields(p, vip, other)
            /\ verdict = Verdict(w, Len(w), "igw_ip_type", F)
    OBVIOUS
  <1>3. vip \in Elements(Vips(f)) /\ "dl" \in Elements(<<"dl">>)
    BY <1>2, ShortSeqs DEF Elements
  <1>4. /\ F["outer"] = p.outer /\ F["vx"] = p.vx /\ F["tof"] = p.tof
        /\ F["dst"] = IF p.to = "vip" THEN vip ELSE p.to
        /\ F["inner"] = IF p.vx = "none" THEN "none" ELSE IF p.eip \in V4 THEN "v4" ELSE "v6"
        /\ F["dstOdd"] \in {yes, no} /\ F["innerSrcOdd"] \in {yes, no} /\ F["innerDstOdd"] \in {yes, no}
        /\ p.to = "eip" => (F["dstOdd"] = yes <=> p.eip \in OddEips)
        /\ GoesOut(p) => (F["innerSrcOdd"] = yes <=> p.eip \in OddEips)
        /\ ~GoesOut(p) => (F["innerDstOdd"] = yes <=> p.eip \in OddEips)
    BY <1>1, <1>2, FieldsAre
  <1>5. SUFFICES verdict = {IgwIpType(p)} \/ (verdict = {} /\ IgwIpType(p) = NeedDrop)
    BY <1>2 DEF Decides
  <1>6. CASE Straight(p)
    <2>1. F["vx"] = "none" /\ F["outer"] \in {"v4", "v6"} /\ F["dst"] # "mcast6" /\ p.to = "eip"
      BY <1>4, <1>6 DEF Straight
    <2>2. verdict = {Hit("IN", no, IF F["dstOdd"] = yes THEN 1 ELSE 3)}
      BY <1>1, <1>2, <1>4, <2>1, InternetDecided
    <2>3. (IF F["dstOdd"] = yes THEN 1 ELSE 3) = (IF p.eip \in OddEips THEN 1 ELSE 3)
      BY <1>4, <2>1
    <2>4. IgwIpType(p) = Hit("IN", no, IF p.eip \in OddEips THEN 1 ELSE 3)
      BY <1>1, <1>6, StraightType
    <2> QED
      BY <2>2, <2>3, <2>4
  <1>7. CASE Multicast(p)
    <2>1. F["vx"] = "none" /\ F["outer"] = "v6" /\ F["dst"] = "mcast6"
      BY <1>4, <1>7 DEF Multicast
    <2>2. verdict = {NeedDrop}
      BY <1>1, <1>2, <1>4, <2>1, InternetDecided
    <2> QED
      BY <1>7, <2>2, DroppedType
  <1>8. CASE Unknown(p)
    <2>1. F["vx"] = "none" /\ F["outer"] = "none"
      BY <1>4, <1>8 DEF Unknown
    <2>2. verdict = {}
      BY <1>1, <1>2, <1>4, <2>1, InternetDecided
    <2> QED
      BY <1>8, <2>2, DroppedType
  <1>9. ASSUME NEW t \in Tunnels(f), Through(F, t) PROVE verdict = {TunnelAct(F, yes, t)}
    BY <1>1, <1>2, <1>4, <1>9, TunnelDecided
  <1>10. PICK t1, t2, t3, t4, t5 :
            /\ t1 = Tunnel(Vips(f), "std", "none", "OUT") /\ t2 = Tunnel(Vips(f), "jd", "AZ_OUT", "OUT")
            /\ t3 = Tunnel(<<"dl">>, "jd", "EIP_OUT", "OUT") /\ t4 = Tunnel(Vips(f), "jd", "AZ_IN", "IN")
            /\ t5 = Tunnel(<<"dl">>, "jd", "EIP_IN", "IN")
    OBVIOUS
  <1>11. t1 \in Tunnels(f) /\ t2 \in Tunnels(f) /\ t3 \in Tunnels(f) /\ t4 \in Tunnels(f) /\ t5 \in Tunnels(f)
    BY <1>10 DEF Tunnels
  <1>12. ("none" # "none") = no /\ \A tof \in {"AZ_OUT", "EIP_OUT", "AZ_IN", "EIP_IN"} : (tof # "none") = yes
    BY <1>1 DEF Flags
  <1>13. CASE GoesOut(p) /\ p.vx # "none"
    <2>1. \A b, g : Hit("OUT", b, Pipe(F, yes, "OUT")) = Hit("OUT", b, IF p.eip \in OddEips \ V4 THEN 0 ELSE 2)
      BY <1>4, <1>13 DEF Pipe
    <2>2. CASE ByTunnel(p, "vip", "std", "none")
      <3>1. Through(F, t1)
        BY <1>3, <1>4, <1>10, <2>2 DEF Through, Tunnel, ByTunnel
      <3>2. TunnelAct(F, yes, t1) = Hit("OUT", no, Pipe(F, yes, "OUT"))
        BY <1>10, <1>12 DEF TunnelAct, Tunnel
      <3> QED
        BY <1>1, <1>9, <1>11, <2>1, <2>2, <3>1, <3>2, TunnelType
    <2>3. CASE ByTunnel(p, "vip", "jd", "AZ_OUT")
      <3>1. Through(F, t2)
        BY <1>3, <1>4, <1>10, <2>3 DEF Through, Tunnel, ByTunnel
      <3>2. TunnelAct(F, yes, t2) = Hit("OUT", yes, Pipe(F, yes, "OUT"))
        BY <1>10, <1>12 DEF TunnelAct, Tunnel
      <3> QED
        BY <1>1, <1>9, <1>11, <2>1, <2>3, <3>1, <3>2, TunnelType
    <2>4. CASE ByTunnel(p, "dl", "jd", "EIP_OUT")
      <3>1. Through(F, t3)
        BY <1>3, <1>4, <1>10, <2>4 DEF Through, Tunnel, ByTunnel
      <3>2. TunnelAct(F, yes, t3) = Hit("OUT", yes, Pipe(F, yes, "OUT"))
        BY <1>10, <1>12 DEF TunnelAct, Tunnel
      <3> QED
        BY <1>1, <1>9, <1>11, <2>1, <2>4, <3>1, <3>2, TunnelType
    <2>5. ~ (ByTunnel(p, "vip", "jd", "AZ_IN") \/ ByTunnel(p, "dl", "jd", "EIP_IN"))
      BY <1>1, <1>13, TunnelType
    <2> QED
      BY <1>6, <1>7, <1>8, <2>2, <2>3, <2>4, <2>5, ArrivalKinds
  <1>14. CASE ~GoesOut(p)
    <2>1. \A b : Hit("IN", b, Pipe(F, yes, "IN")) = Hit("IN", b, IF p.eip \in OddEips THEN 1 ELSE 3)
      BY <1>4, <1>14 DEF Pipe
    <2>2. CASE ByTunnel(p, "vip", "jd", "AZ_IN")
      <3>1. Through(F, t4)
        BY <1>3, <1>4, <1>10, <2>2 DEF Through, Tunnel, ByTunnel
      <3>2. TunnelAct(F, yes, t4) = Hit("IN", yes, Pipe(F, yes, "IN"))
        BY <1>10, <1>12 DEF TunnelAct, Tunnel
      <3> QED
        BY <1>1, <1>9, <1>11, <2>1, <2>2, <3>1, <3>2, TunnelType
    <2>3. CASE ByTunnel(p, "dl", "jd", "EIP_IN")
      <3>1. Through(F, t5)
        BY <1>3, <1>4, <1>10, <2>3 DEF Through, Tunnel, ByTunnel
      <3>2. TunnelAct(F, yes, t5) = Hit("IN", yes, Pipe(F, yes, "IN"))
        BY <1>10, <1>12 DEF TunnelAct, Tunnel
      <3> QED
        BY <1>1, <1>9, <1>11, <2>1, <2>3, <3>1, <3>2, TunnelType
    <2>4. ~ \/ ByTunnel(p, "vip", "std", "none")
            \/ ByTunnel(p, "vip", "jd", "AZ_OUT") \/ ByTunnel(p, "dl", "jd", "EIP_OUT")
      BY <1>1, <1>14, TunnelType
    <2> QED
      BY <1>6, <1>7, <1>8, <2>2, <2>3, <2>4, ArrivalKinds
  <1>15. CASE p.vx = "none"
    <2>1. \A to, tof : ~ (ByTunnel(p, to, "std", tof) \/ ByTunnel(p, to, "jd", tof))
      BY <1>15 DEF ByTunnel
    <2> QED
      BY <1>6, <1>7, <1>8, <2>1, ArrivalKinds
  <1> QED
    BY <1>13, <1>14, <1>15

-----------------------------------------------------------------------------
(* The other tables.                                                        *)

(* ecmp_group_02_v2 chooses the pipe that EcmpGroup says.                   *)
LEMMA GroupDecided == DecidesGroup
  <1> SUFFICES ASSUME NEW egr \in 0..3, NEW bd \in BOOLEAN
               PROVE  Decides(EcmpWrites, "ecmp_group_02_v2", [egr |-> egr, bd |-> bd], "none", EcmpGroup(egr, bd))
    BY DEF DecidesGroup
  <1>1. PICK yes, no : Flags(yes, no)
    BY DEF Flags
  <1>2. PICK t, w, F, group : /\ t = "ecmp_group_02_v2" /\ w = EcmpWrites /\ F = [egr |-> egr, bd |-> bd]
                              /\ group = EcmpGroup(egr, bd)
    OBVIOUS
  <1>3. F["egr"] = egr /\ F["bd"] = bd
    BY <1>2
  <1>4. PICK e1, e2, e3, e4, e5, e6 :
           /\ e1 = Entry(t, Highest, [egr |-> 1, bd |-> no], 1) /\ e2 = Entry(t, Highest, [egr |-> 1, bd |-> yes], 3)
           /\ e3 = Entry(t, Highest, [egr |-> 3], 3)
           /\ e4 = Entry(t, Highest, [egr |-> 0, bd |-> no], 0) /\ e5 = Entry(t, Highest, [egr |-> 0, bd |-> yes], 2)
           /\ e6 = Entry(t, Highest, [egr |-> 2], 2)
    OBVIOUS
  <1>5. w = <<e1, e2, e3, e4, e5, e6>>
    BY <1>1, <1>2, <1>4, Zenon DEF EcmpWrites, ChooseGroup, Flags
  <1>6. IsSeq(w) /\ Elements(w) = {e1, e2, e3, e4, e5, e6}
    BY <1>5, LongSeqs
  <1>7. /\ e1.table = t /\ e1.pri = Highest /\ e1.act = 1
        /\ Matches(F, e1) <=> egr = 1 /\ bd = no
    BY <1>2, <1>3, <1>4 DEF Matches, Entry
  <1>8. /\ e2.table = t /\ e2.pri = Highest /\ e2.act = 3
        /\ Matches(F, e2) <=> egr = 1 /\ bd = yes
    BY <1>2, <1>3, <1>4 DEF Matches, Entry
  <1>9. /\ e3.table = t /\ e3.pri = Highest /\ e3.act = 3
        /\ Matches(F, e3) <=> egr = 3
    BY <1>2, <1>3, <1>4 DEF Matches, Entry
  <1>10. /\ e4.table = t /\ e4.pri = Highest /\ e4.act = 0
         /\ Matches(F, e4) <=> egr = 0 /\ bd = no
    BY <1>2, <1>3, <1>4 DEF Matches, Entry
  <1>11. /\ e5.table = t /\ e5.pri = Highest /\ e5.act = 2
         /\ Matches(F, e5) <=> egr = 0 /\ bd = yes
    BY <1>2, <1>3, <1>4 DEF Matches, Entry
  <1>12. /\ e6.table = t /\ e6.pri = Highest /\ e6.act = 2
         /\ Matches(F, e6) <=> egr = 2
    BY <1>2, <1>3, <1>4 DEF Matches, Entry
  <1>13. bd \in {yes, no}
    BY <1>1, Zenon DEF Flags
  <1>14. group = IF egr = 1 /\ bd = yes THEN 3 ELSE IF egr = 0 /\ bd = yes THEN 2 ELSE egr
    BY <1>1, <1>2 DEF EcmpGroup, Flags
  <1>15. \A e \in Hits(w, t, F) : e.pri = Highest /\ e.act = group
    <2>1. yes # no
      BY <1>1 DEF Flags
    <2>2. /\ Matches(F, e1) => e1.act = group
          /\ Matches(F, e2) => e2.act = group
          /\ Matches(F, e3) => e3.act = group
      BY <1>7, <1>8, <1>9, <1>14, <2>1
    <2>3. /\ Matches(F, e4) => e4.act = group
          /\ Matches(F, e5) => e5.act = group
          /\ Matches(F, e6) => e6.act = group
      BY <1>10, <1>11, <1>12, <1>14, <2>1
    <2>4. \A e \in {e1, e2, e3, e4, e5, e6} : e.pri = Highest /\ (Matches(F, e) => e.act = group)
      BY <1>7, <1>8, <1>9, <1>10, <1>11, <1>12, <2>2, <2>3
    <2> QED
      BY <1>6, <2>4 DEF Hits
  <1>16. \E e \in {e1, e2, e3, e4, e5, e6} : e.table = t /\ Matches(F, e)
    <2>1. CASE egr = 1 \/ egr = 3
      BY <1>7, <1>8, <1>9, <1>13, <2>1
    <2>2. CASE egr = 0 \/ egr = 2
      BY <1>10, <1>11, <1>12, <1>13, <2>2
    <2> QED
      BY <2>1, <2>2
  <1>17. PICK best \in Hits(w, t, F) : best.pri = Highest /\ best.act = group
    BY <1>6, <1>15, <1>16 DEF Hits
  <1>18. \A e \in Hits(w, t, F) : best.pri <= e.pri /\ (e.act = best.act \/ ~ (e.pri <= best.pri))
    BY <1>15, <1>17, Priorities
  <1>19. Verdict(w, Len(w), t, F) = {group}
    BY <1>6, <1>17, <1>18, BestVerdict
  <1> QED
    BY <1>2, <1>19 DEF Decides

(* Packets are dropped by the meter's entry and the two of the ACL.         *)
LEMMA DropDecided == DecidesDrop
  <1> SUFFICES ASSUME NEW color \in {"green", "red"}, NEW needDrop \in BOOLEAN, NEW outer \in {"v4", "none"},
                      NEW p, p = [color |-> color, needDrop |-> needDrop, outer |-> outer]
               PROVE  /\ Decides(DropWrites, "egress_system_acl", p, "go", IF EgressSystemAcl(p) THEN "drop" ELSE "go")
                      /\ Decides(DropWrites, "eip_in_meter_drop", p, "go", IF color = "red" THEN "drop" ELSE "go")
    BY Zenon DEF DecidesDrop
  <1>1. PICK yes, no : Flags(yes, no)
    BY DEF Flags
  <1>2. PICK acl, meter, w : acl = "egress_system_acl" /\ meter = "eip_in_meter_drop" /\ w = DropWrites
    OBVIOUS
  <1>3. p["color"] = color /\ p["needDrop"] = needDrop /\ p["outer"] = outer
    OBVIOUS
  <1>4. PICK m, a, b : /\ m = Entry(meter, Highest, [color |-> "red"], "drop")
                       /\ a = Entry(acl, Lowest, [outer |-> "v4", needDrop |-> yes], "drop")
                       /\ b = Entry(acl, Highest, [color |-> "red"], "drop")
    OBVIOUS
  <1>5. w = <<m>> \o <<a, b>>
    BY <1>1, <1>2, <1>4, Zenon DEF DropWrites, MeterDropWrites, AclWrites, Acl, Flags
  <1>6. IsSeq(w) /\ Elements(w) = {m, a, b}
    <2>1. PICK x, y : x = <<m>> /\ y = <<a, b>>
      OBVIOUS
    <2>2. IsSeq(x) /\ Elements(x) = {m} /\ IsSeq(y) /\ Elements(y) = {a, b}
      BY <2>1, ShortSeqs
    <2>3. IsSeq(x \o y) /\ Elements(x \o y) = {m, a, b}
      BY <2>2, ConcatElements
    <2> QED
      BY <1>5, <2>1, <2>3
  <1>7. m.table = meter /\ m.pri = 0 /\ m.act = "drop" /\ (Matches(p, m) <=> color = "red")
    BY <1>3, <1>4, Priorities DEF Matches, Entry
  <1>8. a.table = acl /\ a.pri = 20 /\ a.act = "drop" /\ (Matches(p, a) <=> outer = "v4" /\ needDrop = yes)
    BY <1>3, <1>4, Priorities DEF Matches, Entry
  <1>9. b.table = acl /\ b.pri = 0 /\ b.act = "drop" /\ (Matches(p, b) <=> color = "red")
    BY <1>3, <1>4, Priorities DEF Matches, Entry
  <1>10. acl # meter
    BY <1>2
  <1>11. 0 <= 20 /\ 0 <= 0 /\ 20 <= 20
    OBVIOUS
  <1>12. EgressSystemAcl(p) <=> color = "red" \/ (needDrop = yes /\ outer = "v4")
    <2>1. EgressSystemAcl(p) <=> color = "red" \/ (needDrop /\ outer = "v4")
      BY <1>3 DEF EgressSystemAcl
    <2>2. needDrop <=> needDrop = yes
      BY <1>1, Zenon DEF Flags
    <2> QED
      BY <2>1, <2>2
  <1>13. Verdict(w, Len(w), meter, p) = IF color = "red" THEN {"drop"} ELSE {}
    <2>1. Hits(w, meter, p) = IF color = "red" THEN {m} ELSE {}
      BY <1>6, <1>7, <1>8, <1>9, <1>10 DEF Hits
    <2>2. CASE color = "red"
      <3>1. m \in Hits(w, meter, p) /\ \A e \in Hits(w, meter, p) : m.pri <= e.pri /\ e.act = m.act
        BY <1>7, <1>11, <2>1, <2>2
      <3>2. Verdict(w, Len(w), meter, p) = {m.act}
        BY <1>6, <3>1, BestVerdict
      <3> QED
        BY <1>7, <2>2, <3>2
    <2>3. CASE color # "red"
      BY <1>6, <2>1, <2>3, NoVerdict
    <2> QED
      BY <2>2, <2>3
  <1>14. Verdict(w, Len(w), acl, p) = IF EgressSystemAcl(p) THEN {"drop"} ELSE {}
    <2>1. Hits(w, acl, p) = {e \in {a, b} : Matches(p, e)}
      BY <1>6, <1>7, <1>8, <1>9, <1>10 DEF Hits
    <2>2. CASE color = "red"
      <3>1. b \in Hits(w, acl, p) /\ \A e \in Hits(w, acl, p) : b.pri <= e.pri /\ e.act = b.act
        BY <1>8, <1>9, <1>11, <2>1, <2>2
      <3>2. Verdict(w, Len(w), acl, p) = {b.act}
        BY <1>6, <3>1, BestVerdict
      <3> QED
        BY <1>9, <1>12, <2>2, <3>2
    <2>3. CASE color # "red" /\ needDrop = yes /\ outer = "v4"
      <3>1. Hits(w, acl, p) = {a}
        BY <1>8, <1>9, <2>1, <2>3
      <3>3. a \in Hits(w, acl, p) /\ \A e \in Hits(w, acl, p) : a.pri <= e.pri /\ e.act = a.act
        BY <1>8, <1>11, <3>1
      <3>2. Verdict(w, Len(w), acl, p) = {a.act}
        BY <1>6, <3>3, BestVerdict
      <3> QED
        BY <1>8, <1>12, <2>3, <3>2
    <2>4. CASE color # "red" /\ ~ (needDrop = yes /\ outer = "v4")
      <3>1. Hits(w, acl, p) = {}
        BY <1>8, <1>9, <2>1, <2>4
      <3>2. Verdict(w, Len(w), acl, p) = {}
        BY <1>6, <3>1, NoVerdict
      <3> QED
        BY <1>12, <2>4, <3>2
    <2> QED
      BY <2>2, <2>3, <2>4
  <1> QED
    BY <1>2, <1>13, <1>14 DEF Decides

(* What an entry of the redirect tables asks of a packet.                   *)
LEMMA RewriteEntry ==
    ASSUME NEW table, NEW key, DOMAIN key \subseteq {"tof", "between", "within"}, NEW act, NEW yes, NEW no,
           Flags(yes, no), NEW fields, NEW e, e = Rewrite(table, key, act)
    PROVE  /\ e.table = table /\ e.pri = Highest /\ e.act = act
           /\ Matches(fields, e) <=> fields["vxlan"] = yes /\ KeyIs(fields, key)
  <1>1. PICK k : k = [vxlan |-> yes]
    OBVIOUS
  <1>2. e = Entry(table, Highest, And(k, key), act)
    BY <1>1, Zenon DEF Rewrite, Flags
  <1>3. DOMAIN k \intersect DOMAIN key = {}
    BY <1>1
  <1>4. Matches(fields, e) <=> KeyIs(fields, k) /\ KeyIs(fields, key)
    BY <1>2, <1>3, MatchesAnd
  <1>5. KeyIs(fields, k) <=> fields["vxlan"] = yes
    BY <1>1 DEF KeyIs
  <1>6. e.table = table /\ e.pri = Highest /\ e.act = act
    BY <1>2 DEF Entry
  <1> QED
    BY <1>4, <1>5, <1>6

(* The two redirect tables decide as JdRedirect says.                       *)
LEMMA RedirectDecided == DecidesRedirect
  <1> SUFFICES ASSUME NEW d \in {<<"eip_in_jd_vxlan", "AZ_IN">>, <<"eip_out_jd_vxlan", "AZ_OUT">>},
                      NEW vx \in {"none", "std", "jd"}, NEW tof \in {"none", "AZ_IN", "EIP_IN", "AZ_OUT", "EIP_OUT"},
                      NEW within \in BOOLEAN, NEW between \in BOOLEAN
               PROVE  Decides(JdVxlanWrites(d[1], d[2]), d[1],
                        [vxlan |-> vx # "none", tof |-> tof, within |-> within, between |-> between], "nop",
                        JdRedirect([vx |-> vx, tof |-> tof], [within |-> within, between |-> between], d[2]))
    BY DEF DecidesRedirect
  <1>1. PICK yes, no : Flags(yes, no)
    BY DEF Flags
  <1>2. PICK t, az, w, F, act :
           /\ t = d[1] /\ az = d[2] /\ w = JdVxlanWrites(t, az)
           /\ F = [vxlan |-> vx # "none", tof |-> tof, within |-> within, between |-> between]
           /\ act = JdRedirect([vx |-> vx, tof |-> tof], [within |-> within, between |-> between], az)
    OBVIOUS
  <1>3. az \in {"AZ_IN", "AZ_OUT"} /\ az # "none"
    BY <1>2
  <1>4. /\ F["tof"] = tof /\ F["within"] = within /\ F["between"] = between
        /\ F["vxlan"] = yes <=> vx # "none"
    <2>1. F["tof"] = tof /\ F["within"] = within /\ F["between"] = between /\ F["vxlan"] = (vx # "none")
      BY <1>2
    <2>2. (vx # "none") = yes <=> vx # "none"
      BY <1>1, Zenon DEF Flags
    <2> QED
      BY <2>1, <2>2
  <1>5. PICK k1, k2, k3 : /\ k1 = [tof |-> "none", between |-> no, within |-> yes]
                          /\ k2 = [tof |-> az, within |-> yes] /\ k3 = [tof |-> "none", between |-> yes]
    OBVIOUS
  <1>6. PICK e1, e2, e3 : e1 = Rewrite(t, k1, "eip") /\ e2 = Rewrite(t, k2, "eip") /\ e3 = Rewrite(t, k3, "az")
    OBVIOUS
  <1>7. w = <<e1, e2, e3>>
    BY <1>1, <1>2, <1>5, <1>6, Zenon DEF JdVxlanWrites, Flags
  <1>8. IsSeq(w) /\ Elements(w) = {e1, e2, e3}
    BY <1>7, ShortSeqs
  <1>9. /\ e1.table = t /\ e1.pri = Highest /\ e1.act = "eip"
        /\ Matches(F, e1) <=> vx # "none" /\ tof = "none" /\ between = no /\ within = yes
    <2>1. DOMAIN k1 \subseteq {"tof", "between", "within"}
      BY <1>5
    <2>2. KeyIs(F, k1) <=> tof = "none" /\ between = no /\ within = yes
      BY <1>4, <1>5 DEF KeyIs
    <2> QED
      BY <1>1, <1>4, <1>6, <2>1, <2>2, RewriteEntry
  <1>10. /\ e2.table = t /\ e2.pri = Highest /\ e2.act = "eip"
         /\ Matches(F, e2) <=> vx # "none" /\ tof = az /\ within = yes
    <2>1. DOMAIN k2 \subseteq {"tof", "between", "within"}
      BY <1>5
    <2>2. KeyIs(F, k2) <=> tof = az /\ within = yes
      BY <1>4, <1>5 DEF KeyIs
    <2> QED
      BY <1>1, <1>4, <1>6, <2>1, <2>2, RewriteEntry
  <1>11. /\ e3.table = t /\ e3.pri = Highest /\ e3.act = "az"
         /\ Matches(F, e3) <=> vx # "none" /\ tof = "none" /\ between = yes
    <2>1. DOMAIN k3 \subseteq {"tof", "between", "within"}
      BY <1>5
    <2>2. KeyIs(F, k3) <=> tof = "none" /\ between = yes
      BY <1>4, <1>5 DEF KeyIs
    <2> QED
      BY <1>1, <1>4, <1>6, <2>1, <2>2, RewriteEntry
  <1>12. between \in {yes, no} /\ within \in {yes, no} /\ yes # no
    BY <1>1, Zenon DEF Flags
  <1>13. /\ vx # "none" /\ tof = "none" /\ between = yes => act = "az"
         /\ vx # "none" /\ tof = "none" /\ between = no /\ within = yes => act = "eip"
         /\ vx # "none" /\ tof = az /\ within = yes => act = "eip"
         /\ ~ \/ vx # "none" /\ tof = "none" /\ between = yes
              \/ vx # "none" /\ tof = "none" /\ between = no /\ within = yes
              \/ vx # "none" /\ tof = az /\ within = yes
            => act = "nop"
    <2>1. (between = yes <=> between) /\ (within = yes <=> within) /\ (between = no <=> ~between)
      BY <1>1, Zenon DEF Flags
    <2>2. act = CASE vx # "none" /\ tof = "none" /\ between -> "az"
                  [] vx # "none" /\ tof \in {"none", az} /\ (tof = "none" => ~between) /\ within -> "eip"
                  [] OTHER -> "nop"
      BY <1>2, Zenon DEF JdRedirect
    <2> QED
      BY <1>3, <2>1, <2>2
  <1>14. \A e \in Hits(w, t, F) : e.pri = 0 /\ e.act = act
    BY <1>3, <1>8, <1>9, <1>10, <1>11, <1>13, Priorities DEF Hits
  <1>15. CASE Hits(w, t, F) = {}
    <2>1. act = "nop"
      BY <1>8, <1>9, <1>10, <1>11, <1>13, <1>15 DEF Hits
    <2>2. Verdict(w, Len(w), t, F) = {}
      BY <1>8, <1>15, NoVerdict
    <2> QED
      BY <1>2, <2>1, <2>2 DEF Decides
  <1>16. CASE Hits(w, t, F) # {}
    <2>1. \A e, k \in Hits(w, t, F) : e.pri <= k.pri
      <3>1. 0 <= 0
        OBVIOUS
      <3> QED
        BY <1>14, <3>1
    <2>2. Verdict(w, Len(w), t, F) = {act}
      BY <1>8, <1>14, <1>16, <2>1, OneVerdict
    <2> QED
      BY <1>2, <2>2 DEF Decides
  <1> QED
    BY <1>15, <1>16

(* A packet that goes out came through a tunnel.                            *)
LEMMA OutIsTunnelled ==
    ASSUME NEW p \in Arrivals, GoesOut(p)
    PROVE  p.vx # "none"
  <1>1. ASSUME p.vx = "none" PROVE FALSE
    <2>1. \A to, tof : ~ (ByTunnel(p, to, "std", tof) \/ ByTunnel(p, to, "jd", tof))
      BY <1>1 DEF ByTunnel
    <2>2. Straight(p) \/ Multicast(p) \/ Unknown(p)
      BY <2>1, ArrivalKinds
    <2>3. p.tof = "none"
      BY <2>2 DEF Straight, Multicast, Unknown
    <2>4. <<p.to, p.tof>> \in {<<"vip", "AZ_OUT">>, <<"dl", "EIP_OUT">>}
      BY <1>1 DEF GoesOut, Redirects
    <2> QED
      BY <2>3, <2>4
  <1> QED
    BY <1>1

(* pipeline_fix sends a packet with IPv4 inside by the bit of its eip.      *)
LEMMA PipeDecided ==
    ASSUME NEW f, f.backup \in {"none", "other", "vip"}
    PROVE  DecidesPipe(f)
  <1> SUFFICES ASSUME NEW p \in Arrivals, GoesOut(p), NEW other \in BOOLEAN, NEW egr \in {0, 2}
               PROVE  Decides(IgwIpTypeWrites(f), "pipeline_fix", Fields(p, "vip", other), egr, PipelineFix(p, egr))
    BY DEF DecidesPipe
  <1>1. PICK yes, no : Flags(yes, no)
    BY DEF Flags
  <1>2. PICK t, w, F, act : /\ t = "pipeline_fix" /\ w = IgwIpTypeWrites(f) /\ F = Fields(p, "vip", other)
                            /\ act = PipelineFix(p, egr)
    OBVIOUS
  <1>3. /\ F["inner"] = IF p.eip \in V4 THEN "v4" ELSE "v6"
        /\ F["innerSrcOdd"] \in {yes, no} /\ (F["innerSrcOdd"] = yes <=> p.eip \in OddEips)
        /\ F["innerDstOdd"] \in {yes, no} /\ F["dstOdd"] \in {yes, no}
    BY <1>1, <1>2, FieldsAre, OutIsTunnelled
  <1>4. PICK e1, e2 : /\ e1 = Entry(t, Highest, [inner |-> "v4", innerSrcOdd |-> yes], 0)
                      /\ e2 = Entry(t, Highest, [inner |-> "v4", innerSrcOdd |-> no], 2)
    OBVIOUS
  <1>5. PipelineFixWrites = <<e1, e2>>
    BY <1>1, <1>2, <1>4, Zenon DEF PipelineFixWrites, SetPipeline, Flags
  <1>6. Elements(PipelineFixWrites) = {e1, e2}
    BY <1>5, ShortSeqs
  <1>7. e1.table = t /\ e1.pri = 0 /\ e1.act = 0 /\ (Matches(F, e1) <=> F["inner"] = "v4" /\ F["innerSrcOdd"] = yes)
    BY <1>4, Priorities DEF Matches, Entry
  <1>8. e2.table = t /\ e2.pri = 0 /\ e2.act = 2 /\ (Matches(F, e2) <=> F["inner"] = "v4" /\ F["innerSrcOdd"] = no)
    BY <1>4, Priorities DEF Matches, Entry
  <1>9. /\ IsSeq(w)
        /\ Elements(w) = (UNION {TunnelEntries(u) : u \in Tunnels(f)}) \union Elements(InternetIn) \union {e1, e2}
    BY <1>2, <1>6, TypeElements
  <1>10. \A u \in Tunnels(f) : \A e \in TunnelEntries(u) : e.table # t
    BY <1>1, <1>2, <1>3, TunnelHits
  <1>11. \A e \in Elements(InternetIn) : e.table # t
    BY <1>1, <1>2, <1>3, InternetEntries
  <1>12. Hits(w, t, F) = {e \in {e1, e2} : Matches(F, e)}
    BY <1>7, <1>8, <1>9, <1>10, <1>11 DEF Hits
  <1>13. yes # no
    BY <1>1 DEF Flags
  <1>14. CASE p.eip \in V4
    <2>1. act = IF F["innerSrcOdd"] = yes THEN 0 ELSE 2
      BY <1>2, <1>3, <1>14 DEF PipelineFix
    <2>2. PICK best \in Hits(w, t, F) : best.act = act /\ best.pri = 0
      BY <1>3, <1>7, <1>8, <1>12, <1>14, <2>1
    <2>3. \A e \in Hits(w, t, F) : e.pri = 0 /\ e.act = act
      BY <1>3, <1>7, <1>8, <1>12, <1>13, <2>1
    <2>4. 0 <= 0
      OBVIOUS
    <2>5. Verdict(w, Len(w), t, F) = {best.act}
      BY <1>9, <2>2, <2>3, <2>4, BestVerdict
    <2> QED
      BY <1>2, <2>2, <2>5 DEF Decides
  <1>15. CASE p.eip \notin V4
    <2>1. act = egr
      BY <1>2, <1>15 DEF PipelineFix
    <2>2. Hits(w, t, F) = {}
      BY <1>3, <1>7, <1>8, <1>12, <1>15
    <2>3. Verdict(w, Len(w), t, F) = {}
      BY <1>9, <2>2, NoVerdict
    <2> QED
      BY <1>2, <2>1, <2>3 DEF Decides
  <1> QED
    BY <1>14, <1>15

(* Without the second vip, or with another one, the full tables decide.     *)
LEMMA AllDecide == Decided = {"none", "other"}
  <1>1. ASSUME NEW backup \in {"none", "other"}
        PROVE  LET f == [backup |-> backup]
               IN  DecidesType(f) /\ DecidesPipe(f) /\ DecidesRedirect /\ DecidesDrop /\ DecidesGroup
    <2>1. PICK f : f = [backup |-> backup]
      OBVIOUS
    <2>2. f.backup \in {"none", "other", "vip"}
      BY <2>1
    <2>3. DecidesType(f) /\ DecidesPipe(f)
      BY <2>2, TypeDecided, PipeDecided
    <2> QED
      BY <2>1, <2>3, RedirectDecided, DropDecided, GroupDecided
  <1> QED
    BY <1>1 DEF Decided

-----------------------------------------------------------------------------
(* A table that cannot be filled.                                           *)

(* The first two entries are one.                                           *)
StartsTwice(s) == IsSeq(s) /\ Len(s) >= 2 /\ s[1] = s[2] /\ s[2].table = "igw_ip_type"

(* More entries behind them change nothing.                                 *)
LEMMA TwiceBefore ==
    ASSUME NEW s, NEW t, StartsTwice(s), IsSeq(t)
    PROVE  StartsTwice(s \o t)
  <1>1. PICK w : w = s \o t
    OBVIOUS
  <1>2. IsSeq(s) /\ Len(s) >= 2 /\ s[1] = s[2] /\ s[2].table = "igw_ip_type"
    BY DEF StartsTwice
  <1>3. /\ IsSeq(w) /\ Len(s) \in Nat /\ Len(t) \in Nat /\ Len(w) = Len(s) + Len(t)
        /\ \A i \in 1..Len(s) : w[i] = s[i]
    BY <1>1, <1>2, ConcatElements
  <1>4. 1 \in 1..Len(s) /\ 2 \in 1..Len(s) /\ Len(w) >= 2
    BY <1>2, <1>3
  <1>5. w[1] = w[2] /\ w[2].table = "igw_ip_type"
    BY <1>2, <1>3, <1>4
  <1> QED
    BY <1>1, <1>3, <1>4, <1>5 DEF StartsTwice

(* Entries for the same destination twice are written one after the other.  *)
LEMMA TunnelledTwice ==
    ASSUME NEW a, NEW inner, IsSeq(inner), Len(inner) # 0, NEW vx, NEW tof, NEW type
    PROVE  StartsTwice(Tunnelled(<<a, a>>, vx, tof, inner, type))
  <1>1. PICK dsts, w : dsts = <<a, a>> /\ w = Tunnelled(dsts, vx, tof, inner, type)
    OBVIOUS
  <1>2. Len(dsts) = 2 /\ dsts[1] = a /\ dsts[2] = a /\ IsSeq(dsts)
    BY <1>1, ShortSeqs
  <1> DEFINE row(i) == [d \in 1..Len(dsts) |-> TunnelEntry(inner[i], dsts[d], vx, tof, type)]
             ss == [i \in 1..Len(inner) |-> row(i)]
  <1>3. Len(inner) \in Nat
    BY DEF IsSeq
  <1>4. w = SeqExt!FlattenSeq(ss)
    BY <1>1 DEF Tunnelled, TunnelEntry
  <1>5. ASSUME NEW i \in 1..Len(inner)
        PROVE  /\ IsSeq(row(i)) /\ Len(row(i)) = 2
               /\ row(i)[1] = row(i)[2] /\ row(i)[2] = TunnelEntry(inner[i], a, vx, tof, type)
    <2>1. row(i) = <<TunnelEntry(inner[i], a, vx, tof, type), TunnelEntry(inner[i], a, vx, tof, type)>>
      BY <1>2
    <2> HIDE DEF row
    <2> QED
      BY <2>1, ShortSeqs
  <1>6. /\ Len(ss) = Len(inner) /\ Len(ss) \in Nat /\ (Len(ss) = 0 => ss = <<>>)
        /\ \A i \in 1..Len(inner) : ss[i] = row(i)
    BY <1>3
  <1> HIDE DEF row
  <1>7. \A i \in 1..Len(ss) : IsSeq(ss[i])
    BY <1>5, <1>6
  <1>8. ss[1] = row(1) /\ 1 \in 1..Len(inner)
    BY <1>3, <1>6
  <1> HIDE DEF ss
  <1>9. IsSeq(w) /\ Len(w) >= Len(ss[1]) /\ \A k \in 1..Len(ss[1]) : w[k] = ss[1][k]
    BY <1>4, <1>6, <1>7, FlattenElements
  <1>10. Len(ss[1]) = 2 /\ ss[1][1] = ss[1][2] /\ ss[1][2] = TunnelEntry(inner[1], a, vx, tof, type)
    BY <1>5, <1>8
  <1>11. w[1] = w[2] /\ w[2] = TunnelEntry(inner[1], a, vx, tof, type) /\ Len(w) >= 2
    BY <1>9, <1>10
  <1>12. TunnelEntry(inner[1], a, vx, tof, type).table = "igw_ip_type"
    BY DEF TunnelEntry, AddIgwIpType, Entry
  <1> QED
    BY <1>1, <1>9, <1>11, <1>12 DEF StartsTwice

(* With a backup_vip equal to the vip, the driver refuses the second entry. *)
LEMMA SameVipRefused ==
    ASSUME NEW f \in Loadable, f.backup = "vip"
    PROVE  /\ <<"tables", f, 0>> \in ToCome /\ <<"tables", f, 1>> \in ToCome
           /\ <<"tables", f, 1>> \in ToFail
  <1>1. IsSeq(InnerOut) /\ IsSeq(InnerIn) /\ Len(InnerOut) # 0
    BY PartsAreSeqs
  <1>2. PICK v, dl : v = Vips(f) /\ dl = <<"dl">>
    OBVIOUS
  <1>3. v = <<"vip", "vip">> /\ IsSeq(v) /\ IsSeq(dl)
    BY <1>2, ShortSeqs DEF Vips
  <1>4. PICK g1, g2, g3, g4, g5 :
            /\ g1 = Tunnelled(v, "std", "none", InnerOut, "OUT") /\ g2 = Tunnelled(v, "jd", "AZ_OUT", InnerOut, "OUT")
            /\ g3 = Tunnelled(dl, "jd", "EIP_OUT", InnerOut, "OUT") /\ g4 = Tunnelled(v, "jd", "AZ_IN", InnerIn, "IN")
            /\ g5 = Tunnelled(dl, "jd", "EIP_IN", InnerIn, "IN")
    OBVIOUS
  <1>5. StartsTwice(g1) /\ IsSeq(g2) /\ IsSeq(g3) /\ IsSeq(g4) /\ IsSeq(g5)
    BY <1>1, <1>3, <1>4, TunnelledTwice, TunnelElements
  <1>6. IsSeq(InternetIn) /\ IsSeq(PipelineFixWrites) /\ IsSeq(EipInJdVxlanWrites) /\ IsSeq(EipOutJdVxlanWrites)
    BY PartsAreSeqs
  <1>7. PICK w : w = Writes("tables", f)
    OBVIOUS
  <1>8. w = g1 \o g2 \o g3 \o InternetIn \o g4 \o g5 \o PipelineFixWrites
            \o EipInJdVxlanWrites \o EipOutJdVxlanWrites
    BY <1>2, <1>4, <1>7 DEF Writes, IgwIpTypeWrites, InternetOut, InternetOutBetweenClusters,
                            InternetOutWithinCluster, InternetInBetweenClusters, InternetInWithinCluster
  <1>9. StartsTwice(w)
    <2>1. PICK x1, x2, x3, x4 : /\ x1 = g1 \o g2 /\ x2 = x1 \o g3 /\ x3 = x2 \o InternetIn /\ x4 = x3 \o g4
      OBVIOUS
    <2>2. PICK x5, x6, x7, x8 : /\ x5 = x4 \o g5 /\ x6 = x5 \o PipelineFixWrites
                                /\ x7 = x6 \o EipInJdVxlanWrites /\ x8 = x7 \o EipOutJdVxlanWrites
      OBVIOUS
    <2>3. StartsTwice(x1)
      BY <1>5, <2>1, TwiceBefore
    <2>4. StartsTwice(x2)
      BY <1>5, <2>1, <2>3, TwiceBefore
    <2>5. StartsTwice(x3)
      BY <1>6, <2>1, <2>4, TwiceBefore
    <2>6. StartsTwice(x4)
      BY <1>5, <2>1, <2>5, TwiceBefore
    <2>7. StartsTwice(x5)
      BY <1>5, <2>2, <2>6, TwiceBefore
    <2>8. StartsTwice(x6)
      BY <1>6, <2>2, <2>7, TwiceBefore
    <2>9. StartsTwice(x7)
      BY <1>6, <2>2, <2>8, TwiceBefore
    <2>10. StartsTwice(x8)
      BY <1>6, <2>2, <2>9, TwiceBefore
    <2>11. w = x8
      BY <1>8, <2>1, <2>2
    <2> QED
      BY <2>10, <2>11
  <1>10. Len(w) \in Nat /\ Len(w) >= 2 /\ w[1] = w[2] /\ w[2].table = "igw_ip_type"
    BY <1>9 DEF StartsTwice, IsSeq
  <1>11. "tables" \in FillStep /\ 0 \in 0..Len(w) - 1 /\ 1 \in 0..Len(w) - 1
    BY <1>10 DEF FillStep
  <1>12. \A n \in 0..Len(w) - 1 : <<"tables", f, n>> \in ToCome
    <2>1. PICK all : all = {<<"tables", f, n>> : n \in 0..Len(Writes("tables", f)) - 1}
      OBVIOUS
    <2>2. all \subseteq ToCome
      BY <1>11, <2>1 DEF ToCome
    <2>3. all = {<<"tables", f, n>> : n \in 0..Len(w) - 1}
      BY <1>7, <2>1
    <2> QED
      BY <2>2, <2>3
  <1>13. ~Accepted(w, 2)
    <2>1. 1 \in 1..2 - 1
      OBVIOUS
    <2>2. Refused(w, 2)
      BY <1>10, <2>1 DEF Refused
    <2> QED
      BY <1>10, <2>2 DEF Accepted
  <1>14. <<"tables", f, 1>> \in ToFail
    <2>1. PICK t \in ToCome : t = <<"tables", f, 1>>
      BY <1>11, <1>12
    <2>2. t[1] = "tables" /\ t[2] = f /\ t[3] + 1 = 2
      BY <2>1
    <2>3. ~Accepted(Writes(t[1], t[2]), t[3] + 1)
      BY <1>7, <1>13, <2>2
    <2> QED
      BY <2>1, <2>3 DEF ToFail
  <1> QED
    BY <1>11, <1>12, <1>14
================================================================================
