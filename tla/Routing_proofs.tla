---------------------------- MODULE Routing_proofs ----------------------------
(***************************************************************************)
(* Proofs about the paths of Routing.  The code compares characters: a     *)
(* prefix, then a "/" (location_prefix_matches), what is left after the    *)
(* prefix (uri_to_relative), its components (safe_join).  The properties   *)
(* speak of the parts between the slashes.  Both agree for every path, of  *)
(* any length: MatchesByParts, LongerHasMoreParts, JoinsRestBelowRoot.     *)
(*                                                                         *)
(* What the recursive functions of Routing compute is shown by induction   *)
(* over a set of numbers (Induction), which first needs to know that a     *)
(* function with that recursion exists (Iterates).                         *)
(***************************************************************************)
EXTENDS Routing, SequenceTheorems, WellFoundedInduction, TLAPS

\* A nonempty set of numbers has a least one.
LEMMA LeastNumber ==
  ASSUME NEW S \in SUBSET Nat, S # {}
  PROVE  \E i \in S : \A j \in S : i <= j
<1> DEFINE R == {ss \in Nat \X Nat : ss[1] < ss[2]}
<1>1. IsWellFoundedOn(R, Nat)
  BY NatLessThanWellFounded DEF OpToRel
<1> HIDE DEF R
<1>2. PICK i \in S : \A j \in S : ~(<<j, i>> \in R)
  BY <1>1, WFMin, S \subseteq Nat, Zenon
<1>3. ASSUME NEW j \in S PROVE i <= j
  <2>1. i \in Nat /\ j \in Nat
    OBVIOUS
  <2>2. <<j, i>> \in R <=> j < i
    BY <2>1 DEF R
  <2> QED BY <1>2, <2>1, <2>2
<1> QED BY <1>2, <1>3

\* A set of numbers that has 0, and with every number the next, has them all.
LEMMA Induction ==
  ASSUME NEW T, 0 \in T, \A n \in Nat : n \in T => n + 1 \in T
  PROVE  \A n \in Nat : n \in T
<1> DEFINE Out == {n \in Nat : n \notin T}
<1>1. CASE Out # {}
  <2>1. PICK m \in Out : \A j \in Out : m <= j
    BY <1>1, LeastNumber
  <2>2. m \in Nat /\ m # 0 /\ m - 1 \in Nat /\ m = (m - 1) + 1 /\ ~(m <= m - 1)
    BY <2>1
  <2>3. m - 1 \in T
    BY <2>1, <2>2
  <2> QED BY <2>1, <2>2, <2>3
<1> QED BY <1>1

-----------------------------------------------------------------------------
(* Recursion.                                                               *)

\* A sequence of values, each got from the one before it.
Iteration(f, S, a, step, L) ==
    /\ f \in [0..L -> S]
    /\ f[0] = a
    /\ \A n \in 1..L : f[n] = step[n][f[n - 1]]

Iterable(S, a, step, L) == a \in S /\ step \in [Nat -> [S -> S]] /\ L \in Nat

LEMMA Iterates ==
  ASSUME NEW S, NEW a, NEW step, NEW L, Iterable(S, a, step, L)
  PROVE  \E f : Iteration(f, S, a, step, L)
<1>0. a \in S /\ step \in [Nat -> [S -> S]] /\ L \in Nat
  BY DEF Iterable
<1> DEFINE P(m) == \E f \in [0..m -> S] :
                     f[0] = a /\ \A n \in 1..m : f[n] = step[n][f[n - 1]]
           T == {m \in Nat : P(m)}
<1>1. P(0)
  <2>1. [n \in 0..0 |-> a] \in [0..0 -> S] /\ [n \in 0..0 |-> a][0] = a
    BY <1>0
  <2>2. \A n \in 1..0 : [i \in 0..0 |-> a][n] = step[n][[i \in 0..0 |-> a][n - 1]]
    BY SMT
  <2> USE <1>0
  <2> WITNESS [n \in 0..0 |-> a] \in [0..0 -> S]
  <2> QED BY <2>1, <2>2
<1>2. ASSUME NEW m \in Nat, P(m) PROVE P(m + 1)
  <2>1. PICK f \in [0..m -> S] :
           f[0] = a /\ \A n \in 1..m : f[n] = step[n][f[n - 1]]
    BY <1>2
  <2> DEFINE g == [n \in 0..(m + 1) |-> IF n = m + 1 THEN step[n][f[n - 1]] ELSE f[n]]
  <2>2. g \in [0..(m + 1) -> S]
    <3>1. step[m + 1][f[m]] \in S
      BY <1>0, <2>1
    <3> QED BY <1>0, <2>1, <3>1
  <2>3. g[0] = a /\ \A n \in 1..(m + 1) : g[n] = step[n][g[n - 1]]
    BY <2>1
  <2> HIDE DEF g
  <2> WITNESS g \in [0..(m + 1) -> S]
  <2> QED BY <2>3
<1>3. 0 \in T /\ \A m \in Nat : m \in T => m + 1 \in T
  <2> HIDE DEF P
  <2> QED BY <1>1, <1>2
<1> HIDE DEF T
<1>4. L \in T
  BY <1>0, <1>3, Induction, Zenon
<1>5. P(L)
  <2> HIDE DEF P
  <2> QED BY <1>4 DEF T
<1> QED BY <1>5 DEF Iteration

-----------------------------------------------------------------------------
(* Split: the parts of a path between its slashes.                          *)

Parts(Char) == {s \in Seq(Seq(Char)) : s # <<>>}

LEMMA PartsTyped ==
  ASSUME NEW Char, NEW s \in Parts(Char)
  PROVE  s \in Seq(Seq(Char)) /\ Len(s) \in Nat /\ Len(s) >= 1 /\ s[Len(s)] \in Seq(Char)
BY DEF Parts

\* A slash begins a new part.
LEMMA AddSlash ==
  ASSUME NEW Char, NEW s \in Parts(Char)
  PROVE  /\ AddChar(s, "/") \in Parts(Char)
         /\ Len(AddChar(s, "/")) = Len(s) + 1
         /\ AddChar(s, "/")[Len(s) + 1] = <<>>
         /\ \A i \in 1..Len(s) : AddChar(s, "/")[i] = s[i]
BY PartsTyped DEF AddChar, Parts

\* Any other character goes to the last part.
LEMMA AddOther ==
  ASSUME NEW Char, NEW s \in Parts(Char), NEW c \in Char, c # "/"
  PROVE  /\ AddChar(s, c) \in Parts(Char)
         /\ Len(AddChar(s, c)) = Len(s)
         /\ AddChar(s, c)[Len(s)] = Append(s[Len(s)], c)
         /\ \A i \in 1..Len(s) : i # Len(s) => AddChar(s, c)[i] = s[i]
<1>1. s \in Seq(Seq(Char)) /\ Len(s) \in 1..Len(s) /\ s[Len(s)] \in Seq(Char) /\ Len(s) >= 1
  BY PartsTyped
<1>2. Append(s[Len(s)], c) \in Seq(Char)
  BY <1>1
<1>3. AddChar(s, c) = [s EXCEPT ![Len(s)] = Append(s[Len(s)], c)]
  BY DEF AddChar
<1>4. /\ AddChar(s, c) \in Seq(Seq(Char)) /\ Len(AddChar(s, c)) = Len(s)
      /\ \A i \in 1..Len(s) : AddChar(s, c)[i] = IF i = Len(s) THEN Append(s[Len(s)], c) ELSE s[i]
  BY <1>1, <1>2, <1>3, ExceptSeq
<1>5. AddChar(s, c) \in Parts(Char)
  <2>1. AddChar(s, c) # <<>>
    BY <1>1, <1>4
  <2> QED BY <1>4, <2>1 DEF Parts
<1>6. AddChar(s, c)[Len(s)] = Append(s[Len(s)], c)
  BY <1>1, <1>4, Zenon
<1>7. \A i \in 1..Len(s) : i # Len(s) => AddChar(s, c)[i] = s[i]
  BY <1>4, Zenon
<1> QED BY <1>4, <1>5, <1>6, <1>7

LEMMA AddCharTyped ==
  ASSUME NEW Char, NEW s \in Parts(Char), NEW c \in Char
  PROVE  AddChar(s, c) \in Parts(Char)
<1>1. CASE c = "/"
  BY <1>1, AddSlash
<1>2. CASE c # "/"
  BY <1>2, AddOther
<1> QED BY <1>1, <1>2

\* A last part that a character was added to is not empty.
LEMMA LastNotEmpty ==
  ASSUME NEW Char, NEW s \in Parts(Char), NEW c \in Char
  PROVE  Append(s[Len(s)], c) # <<>>
<1>1. s[Len(s)] \in Seq(Char)
  BY PartsTyped
<1> QED BY <1>1, AppendProperties, SMT

\* The recursion of Splits has a solution, which Splits is.
LEMMA SplitsRec ==
  ASSUME NEW Char, NEW path \in Seq(Char)
  PROVE  /\ Splits(path) \in [0..Len(path) -> Parts(Char)]
         /\ Splits(path)[0] = << <<>> >>
         /\ \A n \in 1..Len(path) :
              Splits(path)[n] = AddChar(Splits(path)[n - 1], path[n])
<1> DEFINE L == Len(path)
           S == Parts(Char)
           step == [n \in Nat |-> [s \in S |-> IF n \in 1..L THEN AddChar(s, path[n]) ELSE s]]
           R(f) == f = [n \in 0..L |-> IF n = 0 THEN << <<>> >> ELSE AddChar(f[n - 1], path[n])]
<1>1. L \in Nat /\ \A n \in 1..L : path[n] \in Char
  OBVIOUS
<1>2. step \in [Nat -> [S -> S]]
  BY <1>1, AddCharTyped
<1>3. << <<>> >> \in S
  BY DEF Parts
<1>4. PICK f \in [0..L -> S] : f[0] = << <<>> >> /\ \A n \in 1..L : f[n] = step[n][f[n - 1]]
  <2> DEFINE first == << <<>> >>
  <2> HIDE DEF step, S, L, first
  <2>1. first \in S
    BY <1>3 DEF first
  <2>2. Iterable(S, first, step, L)
    BY <1>1, <1>2, <2>1 DEF Iterable
  <2>3. \E g : Iteration(g, S, first, step, L)
    BY <2>2, Iterates
  <2> QED BY <2>3 DEF Iteration, first
<1>5. \A n \in 1..L : f[n] = AddChar(f[n - 1], path[n])
  <2> SUFFICES ASSUME NEW n \in 1..L PROVE f[n] = AddChar(f[n - 1], path[n])
    OBVIOUS
  <2>1. n \in Nat /\ f[n - 1] \in S
    BY <1>1, <1>4
  <2>2. step[n][f[n - 1]] = AddChar(f[n - 1], path[n])
    BY <2>1
  <2> QED BY <1>4, <2>2
<1>6. R(f)
  <2>1. f = [n \in 0..L |-> f[n]]
    OBVIOUS
  <2>2. ASSUME NEW n \in 0..L
        PROVE  f[n] = IF n = 0 THEN << <<>> >> ELSE AddChar(f[n - 1], path[n])
    <3>1. n = 0 \/ n \in 1..L
      BY <1>1
    <3> QED BY <1>4, <1>5, <3>1, <1>1
  <2> QED BY <2>1, <2>2, Zenon
<1>7. Splits(path) = CHOOSE g : R(g)
  BY DEF Splits
<1>8. R(Splits(path))
  <2> HIDE DEF R
  <2> QED BY <1>6, <1>7, Zenon
<1>9. DOMAIN Splits(path) = 0..L /\ Splits(path)[0] = << <<>> >>
  BY <1>1, <1>8
<1>10. \A n \in 1..L : Splits(path)[n] = AddChar(Splits(path)[n - 1], path[n])
  <2> DEFINE f2 == Splits(path)
  <2> HIDE DEF f2
  <2>1. f2 = [n \in 0..L |-> IF n = 0 THEN << <<>> >> ELSE AddChar(f2[n - 1], path[n])]
    BY <1>8 DEF f2
  <2>2. ASSUME NEW n \in 1..L PROVE f2[n] = AddChar(f2[n - 1], path[n])
    <3>1. n \in 0..L /\ n # 0
      BY <1>1
    <3>2. f2[n] = [i \in 0..L |-> IF i = 0 THEN << <<>> >> ELSE AddChar(f2[i - 1], path[i])][n]
      BY <2>1, Zenon
    <3> QED BY <3>1, <3>2, Zenon
  <2> QED BY <2>2 DEF f2
<1>11. Splits(path) \in [0..L -> S]
  <2> DEFINE T == {n \in Nat : n \in 0..L => Splits(path)[n] \in S}
  <2>1. 0 \in T
    BY <1>3, <1>9
  <2>2. ASSUME NEW n \in Nat, n \in T PROVE n + 1 \in T
    <3>1. ASSUME n + 1 \in 0..L PROVE Splits(path)[n + 1] \in S
      <4>1. n + 1 \in 1..L /\ n \in 0..L /\ (n + 1) - 1 = n
        BY <1>1, <3>1
      <4>2. Splits(path)[n] \in S /\ path[n + 1] \in Char
        BY <1>1, <2>2, <4>1
      <4>3. Splits(path)[n + 1] = AddChar(Splits(path)[n], path[n + 1])
        BY <1>10, <4>1
      <4> QED BY <4>2, <4>3, AddCharTyped
    <3> QED BY <3>1
  <2>3. \A n \in Nat : n \in T
    <3> HIDE DEF T
    <3> QED BY <2>1, <2>2, Induction, Zenon
  <2>4. Splits(path) = [n \in 0..L |-> Splits(path)[n]]
    BY <1>8
  <2> QED BY <2>3, <2>4
<1> QED BY <1>9, <1>10, <1>11

\* What AddChar returns tells what it was given.
LEMMA AddCharInjective ==
  ASSUME NEW Char, NEW s \in Parts(Char), NEW t \in Parts(Char),
         NEW c \in Char, NEW d \in Char, AddChar(s, c) = AddChar(t, d)
  PROVE  s = t /\ c = d
<1>1. /\ s \in Seq(Seq(Char)) /\ Len(s) \in Nat /\ Len(s) >= 1 /\ s[Len(s)] \in Seq(Char)
      /\ t \in Seq(Seq(Char)) /\ Len(t) \in Nat /\ Len(t) >= 1 /\ t[Len(t)] \in Seq(Char)
  BY PartsTyped
<1> DEFINE r == AddChar(s, c)
<1>2. CASE c = "/" /\ d = "/"
  <2>1. /\ Len(r) = Len(s) + 1 /\ \A i \in 1..Len(s) : r[i] = s[i]
        /\ Len(r) = Len(t) + 1 /\ \A i \in 1..Len(t) : r[i] = t[i]
    BY <1>2, AddSlash
  <2> HIDE DEF r
  <2>2. Len(s) = Len(t) /\ \A i \in 1..Len(s) : s[i] = t[i]
    BY <1>1, <2>1
  <2> QED BY <1>1, <1>2, <2>2, SeqEqual
<1>3. CASE c = "/" /\ d # "/"
  <2>1. Len(r) = Len(s) + 1 /\ r[Len(s) + 1] = <<>>
    BY <1>3, AddSlash
  <2>2. Len(r) = Len(t) /\ r[Len(t)] # <<>>
    BY <1>3, AddOther, LastNotEmpty
  <2> QED BY <2>1, <2>2
<1>4. CASE c # "/" /\ d = "/"
  <2>1. Len(r) = Len(s) /\ r[Len(s)] # <<>>
    BY <1>4, AddOther, LastNotEmpty
  <2>2. Len(r) = Len(t) + 1 /\ r[Len(t) + 1] = <<>>
    BY <1>4, AddSlash
  <2> QED BY <2>1, <2>2
<1>5. CASE c # "/" /\ d # "/"
  <2>1. /\ Len(r) = Len(s) /\ r[Len(s)] = Append(s[Len(s)], c)
        /\ \A i \in 1..Len(s) : i # Len(s) => r[i] = s[i]
    BY <1>5, AddOther
  <2>2. /\ Len(r) = Len(t) /\ r[Len(t)] = Append(t[Len(t)], d)
        /\ \A i \in 1..Len(t) : i # Len(t) => r[i] = t[i]
    <3>1. r = AddChar(t, d)
      OBVIOUS
    <3> HIDE DEF r
    <3> QED BY <1>5, <3>1, AddOther
  <2> HIDE DEF r
  <2>3. s[Len(s)] = t[Len(t)] /\ c = d
    <3>1. Append(s[Len(s)], c) = Append(t[Len(t)], d)
      BY <2>1, <2>2
    <3> DEFINE u == s[Len(s)]
               v == t[Len(t)]
    <3>2. u \in Seq(Char) /\ v \in Seq(Char) /\ Append(u, c) = Append(v, d)
      BY <1>1, <3>1
    <3> HIDE DEF u, v
    <3>3. u = v /\ c = d
      BY <3>2, AppendInjective
    <3> QED BY <3>3 DEF u, v
  <2>4. Len(s) = Len(t) /\ \A i \in 1..Len(s) : s[i] = t[i]
    BY <1>1, <2>1, <2>2, <2>3
  <2> QED BY <1>1, <2>3, <2>4, SeqEqual
<1> QED BY <1>2, <1>3, <1>4, <1>5

\* The parts before any character.
NoChar == << <<>> >>

LEMMA AddCharAdds ==
  ASSUME NEW Char, NEW s \in Parts(Char), NEW c \in Char
  PROVE  AddChar(s, c) # NoChar
<1>1. Len(s) \in Nat /\ Len(s) >= 1
  BY PartsTyped
<1>2. Len(NoChar) = 1 /\ NoChar[1] = <<>>
  BY DEF NoChar
<1>3. CASE c = "/"
  BY <1>1, <1>2, <1>3, AddSlash
<1>4. CASE c # "/"
  <2>1. Len(AddChar(s, c)) = Len(s) /\ AddChar(s, c)[Len(s)] # <<>>
    BY <1>4, AddOther, LastNotEmpty
  <2> QED BY <1>2, <2>1
<1> QED BY <1>3, <1>4

\* The parts of the first characters depend on nothing after them.
LEMMA SplitsAgree ==
  ASSUME NEW Char, NEW path \in Seq(Char), NEW other \in Seq(Char),
         NEW k \in Nat, k <= Len(path), k <= Len(other),
         \A i \in 1..k : path[i] = other[i]
  PROVE  Splits(path)[k] = Splits(other)[k]
<1> DEFINE T == {n \in Nat : n <= k => Splits(path)[n] = Splits(other)[n]}
<1>1. 0 \in T
  BY SplitsRec
<1>2. ASSUME NEW n \in Nat, n \in T PROVE n + 1 \in T
  <2>1. ASSUME n + 1 <= k PROVE Splits(path)[n + 1] = Splits(other)[n + 1]
    <3>1. n + 1 \in 1..Len(path) /\ n + 1 \in 1..Len(other) /\ n + 1 \in 1..k /\ (n + 1) - 1 = n
      BY <2>1
    <3>2. Splits(path)[n] = Splits(other)[n]
      BY <1>2, <2>1
    <3>3. Splits(path)[n + 1] = AddChar(Splits(path)[n], path[n + 1])
      BY <3>1, SplitsRec
    <3>4. Splits(other)[n + 1] = AddChar(Splits(other)[n], other[n + 1])
      BY <3>1, SplitsRec
    <3> QED BY <3>1, <3>2, <3>3, <3>4
  <2> QED BY <2>1
<1>3. \A n \in Nat : n \in T
  <2> HIDE DEF T
  <2> QED BY <1>1, <1>2, Induction, Zenon
<1> QED BY <1>3

\* One character after another.
LEMMA SplitsStep ==
  ASSUME NEW Char, NEW path \in Seq(Char), NEW n \in Nat, n < Len(path)
  PROVE  /\ Splits(path)[n] \in Parts(Char) /\ path[n + 1] \in Char
         /\ Splits(path)[n + 1] = AddChar(Splits(path)[n], path[n + 1])
         /\ Splits(path)[n + 1] \in Parts(Char)
<1>1. n + 1 \in 1..Len(path) /\ n \in 0..Len(path) /\ n + 1 \in 0..Len(path) /\ (n + 1) - 1 = n
  OBVIOUS
<1>2. path[n + 1] \in Char
  BY <1>1
<1> QED BY <1>1, <1>2, SplitsRec

LEMMA SplitsStart ==
  ASSUME NEW Char, NEW path \in Seq(Char)
  PROVE  Splits(path)[0] = NoChar
BY SplitsRec DEF NoChar

\* The parts tell the characters.
LEMMA SplitsInjective ==
  ASSUME NEW Char, NEW path \in Seq(Char), NEW other \in Seq(Char),
         NEW k \in 0..Len(path), NEW m \in 0..Len(other),
         Splits(path)[k] = Splits(other)[m]
  PROVE  k = m /\ \A i \in 1..k : path[i] = other[i]
<1> DEFINE Same(n, j) == n = j /\ \A i \in 1..n : path[i] = other[i]
           T == {n \in Nat : n <= Len(path) => \A j \in 0..Len(other) :
                               Splits(path)[n] = Splits(other)[j] => Same(n, j)}
<1>1. Len(path) \in Nat /\ Len(other) \in Nat
  OBVIOUS
<1>2. ASSUME NEW j \in 0..Len(other), j # 0
      PROVE  /\ Splits(other)[j] = AddChar(Splits(other)[j - 1], other[j])
             /\ Splits(other)[j - 1] \in Parts(Char) /\ other[j] \in Char
  <2>1. j - 1 \in Nat /\ j - 1 < Len(other) /\ (j - 1) + 1 = j
    BY <1>1, <1>2
  <2> QED BY <2>1, SplitsStep
<1>3. 0 \in T
  <2> SUFFICES ASSUME NEW j \in 0..Len(other), Splits(path)[0] = Splits(other)[j] PROVE j = 0
    BY <1>1
  <2>1. CASE j # 0
    <3>1. Splits(other)[j] # NoChar
      BY <1>2, <2>1, AddCharAdds
    <3> QED BY <3>1, SplitsStart
  <2> QED BY <2>1
<1>4. ASSUME NEW n \in Nat, n \in T PROVE n + 1 \in T
  <2> SUFFICES ASSUME n + 1 <= Len(path), NEW j \in 0..Len(other),
                      Splits(path)[n + 1] = Splits(other)[j]
               PROVE  Same(n + 1, j)
    OBVIOUS
  <2>1. n < Len(path)
    BY <1>1
  <2>2. /\ Splits(path)[n + 1] = AddChar(Splits(path)[n], path[n + 1])
        /\ Splits(path)[n] \in Parts(Char) /\ path[n + 1] \in Char
    BY <2>1, SplitsStep
  <2>3. j # 0
    <3>1. Splits(path)[n + 1] # NoChar
      BY <2>2, AddCharAdds
    <3> QED BY <3>1, SplitsStart
  <2>4. j - 1 \in 0..Len(other) /\ n <= Len(path)
    BY <1>1, <2>1, <2>3
  <2>5. Splits(path)[n] = Splits(other)[j - 1] /\ path[n + 1] = other[j]
    <3> DEFINE u == Splits(path)[n]
               v == Splits(other)[j - 1]
               c == path[n + 1]
               d == other[j]
    <3>1. /\ AddChar(u, c) = AddChar(v, d)
          /\ u \in Parts(Char) /\ v \in Parts(Char) /\ c \in Char /\ d \in Char
      BY <1>2, <2>2, <2>3
    <3> HIDE DEF u, v, c, d
    <3>2. u = v /\ c = d
      BY <3>1, AddCharInjective
    <3> QED BY <3>2 DEF u, v, c, d
  <2>6. Same(n, j - 1)
    BY <1>4, <2>4, <2>5
  <2> QED BY <1>1, <2>5, <2>6
<1>5. \A n \in Nat : n \in T
  <2> HIDE DEF T
  <2> QED BY <1>3, <1>4, Induction, Zenon
<1>6. k \in T /\ k <= Len(path)
  BY <1>1, <1>5
<1> QED BY <1>6

\* More characters leave all parts but the last as they are.
Continues(t, s) ==
    Len(s) <= Len(t) /\ \A i \in 1..Len(s) : i # Len(s) => t[i] = s[i]

LEMMA AddCharContinues ==
  ASSUME NEW Char, NEW s \in Parts(Char), NEW c \in Char
  PROVE  Continues(AddChar(s, c), s)
<1>1. Len(s) \in Nat
  BY PartsTyped
<1>2. CASE c = "/"
  BY <1>1, <1>2, AddSlash DEF Continues
<1>3. CASE c # "/"
  BY <1>1, <1>3, AddOther DEF Continues
<1> QED BY <1>2, <1>3

LEMMA Grows ==
  ASSUME NEW Char, NEW path \in Seq(Char),
         NEW n \in Nat, NEW m \in Nat, n <= m, m <= Len(path)
  PROVE  Continues(Splits(path)[m], Splits(path)[n])
<1> DEFINE T == {d \in Nat : n + d <= Len(path) => Continues(Splits(path)[n + d], Splits(path)[n])}
<1>1. Len(path) \in Nat
  OBVIOUS
<1>2. \A k \in Nat : k <= Len(path) => Len(Splits(path)[k]) \in Nat
  <2> SUFFICES ASSUME NEW k \in Nat, k <= Len(path) PROVE Len(Splits(path)[k]) \in Nat
    OBVIOUS
  <2>1. Splits(path)[k] \in Parts(Char)
    BY <1>1, SplitsRec
  <2> QED BY <2>1, PartsTyped
<1>3. 0 \in T
  <2>1. n + 0 = n /\ n <= Len(path)
    BY <1>1
  <2> QED BY <1>2, <2>1 DEF Continues
<1>4. ASSUME NEW d \in Nat, d \in T PROVE d + 1 \in T
  <2> SUFFICES ASSUME n + (d + 1) <= Len(path)
               PROVE  Continues(Splits(path)[n + (d + 1)], Splits(path)[n])
    OBVIOUS
  <2> DEFINE k == n + d
  <2>1. k \in Nat /\ k < Len(path) /\ k <= Len(path) /\ n <= Len(path) /\ n + (d + 1) = k + 1
        /\ k + 1 \in Nat /\ k + 1 <= Len(path)
    BY <1>1
  <2>2. Continues(Splits(path)[k], Splits(path)[n])
    BY <1>4, <2>1
  <2> HIDE DEF k
  <2>3. Continues(Splits(path)[k + 1], Splits(path)[k])
    BY <2>1, SplitsStep, AddCharContinues
  <2>4. Len(Splits(path)[n]) \in Nat /\ Len(Splits(path)[k]) \in Nat /\ Len(Splits(path)[k + 1]) \in Nat
    BY <1>2, <2>1
  <2>5. Continues(Splits(path)[k + 1], Splits(path)[n])
    BY <2>2, <2>3, <2>4 DEF Continues
  <2> QED BY <2>1, <2>5
<1>5. \A d \in Nat : d \in T
  <2> HIDE DEF T
  <2> QED BY <1>3, <1>4, Induction, Zenon
<1>6. m - n \in T /\ n + (m - n) = m
  <2>1. m - n \in Nat /\ n + (m - n) = m
    OBVIOUS
  <2> HIDE DEF T
  <2> QED BY <1>5, <2>1
<1> QED BY <1>6

\* s is a proper beginning of t.
Leads(s, t) == Len(s) < Len(t) /\ \A i \in 1..Len(s) : s[i] = t[i]

\* The parts up to a slash begin those of the whole path.
LEMMA SlashCuts ==
  ASSUME NEW Char, NEW path \in Seq(Char),
         NEW n \in Nat, NEW m \in Nat, n < m, m <= Len(path), path[n + 1] = "/"
  PROVE  Leads(Splits(path)[n], Splits(path)[m])
<1> DEFINE s == Splits(path)[n]
           t == Splits(path)[n + 1]
           u == Splits(path)[m]
<1>1. n < Len(path) /\ n + 1 \in Nat /\ n + 1 <= m
  OBVIOUS
<1>2. s \in Parts(Char) /\ t = AddChar(s, "/")
  BY <1>1, SplitsStep
<1>3. Continues(u, t)
  BY <1>1, Grows
<1>4. Len(s) \in Nat
  BY <1>2, PartsTyped
<1>5. Len(t) = Len(s) + 1 /\ \A i \in 1..Len(s) : t[i] = s[i]
  BY <1>2, AddSlash
<1>6. u \in Parts(Char)
  BY SplitsRec
<1>7. Len(u) \in Nat
  BY <1>6, PartsTyped
<1> HIDE DEF s, t, u
<1>8. Leads(s, u)
  BY <1>3, <1>4, <1>5, <1>7 DEF Continues, Leads
<1> QED BY <1>8 DEF s, u

\* What begins a path's parts are its parts up to a slash.
LEMMA CutAtSlash ==
  ASSUME NEW Char, NEW path \in Seq(Char), NEW s \in Parts(Char),
         Leads(s, Split(path))
  PROVE  \E n \in Nat : n < Len(path) /\ path[n + 1] = "/" /\ Splits(path)[n] = s
<1> DEFINE Cut(m) == \E n \in Nat : n < m /\ path[n + 1] = "/" /\ Splits(path)[n] = s
           T == {m \in Nat : m <= Len(path) /\ Leads(s, Splits(path)[m]) => Cut(m)}
<1>1. Len(path) \in Nat /\ Len(s) \in Nat /\ Len(s) >= 1 /\ s \in Seq(Seq(Char))
  BY PartsTyped
<1>2. 0 \in T
  <2>1. Len(NoChar) = 1
    BY DEF NoChar
  <2>2. ~Leads(s, NoChar)
    BY <1>1, <2>1 DEF Leads
  <2>3. Splits(path)[0] = NoChar
    BY SplitsStart
  <2> QED BY <2>2, <2>3
<1>3. ASSUME NEW m \in Nat, m \in T PROVE m + 1 \in T
  <2> SUFFICES ASSUME m + 1 <= Len(path), Leads(s, Splits(path)[m + 1]) PROVE Cut(m + 1)
    OBVIOUS
  <2> DEFINE t == Splits(path)[m]
             c == path[m + 1]
  <2>1. m < Len(path) /\ m <= Len(path)
    BY <1>1
  <2>2. t \in Parts(Char) /\ c \in Char /\ Splits(path)[m + 1] = AddChar(t, c)
    BY <2>1, SplitsStep
  <2> HIDE DEF t, c
  <2>3. Len(t) \in Nat /\ t \in Seq(Seq(Char))
    BY <2>2, PartsTyped
  <2>4. Leads(s, AddChar(t, c))
    BY <2>2
  <2>5. CASE Leads(s, t)
    <3>1. Cut(m)
      BY <1>3, <2>1, <2>5 DEF t
    <3> QED BY <3>1
  <2>6. CASE ~Leads(s, t)
    <3>1. c = "/" /\ Len(s) = Len(t) /\ \A i \in 1..Len(s) : s[i] = t[i]
      <4> DEFINE r == AddChar(t, c)
      <4>1. CASE c # "/"
        <5>1. Len(r) = Len(t) /\ \A i \in 1..Len(t) : i # Len(t) => r[i] = t[i]
          BY <2>2, <4>1, AddOther
        <5> HIDE DEF r
        <5>2. Leads(s, r)
          BY <2>4 DEF r
        <5>3. Leads(s, t)
          BY <1>1, <2>3, <5>1, <5>2 DEF Leads
        <5> QED BY <2>6, <5>3
      <4>2. CASE c = "/"
        <5>1. Len(r) = Len(t) + 1 /\ \A i \in 1..Len(t) : r[i] = t[i]
          BY <2>2, <4>2, AddSlash
        <5> HIDE DEF r
        <5>2. Leads(s, r)
          BY <2>4 DEF r
        <5>3. Len(s) <= Len(t) /\ \A i \in 1..Len(s) : s[i] = t[i]
          BY <1>1, <2>3, <5>1, <5>2 DEF Leads
        <5> QED BY <1>1, <2>3, <2>6, <4>2, <5>3 DEF Leads
      <4> QED BY <4>1, <4>2
    <3>2. t = s
      BY <1>1, <2>3, <3>1, SeqEqual
    <3> QED BY <3>1, <3>2 DEF t, c
  <2> QED BY <2>5, <2>6
<1>4. \A m \in Nat : m \in T
  <2> HIDE DEF T
  <2> QED BY <1>2, <1>3, Induction, Zenon
<1>5. Len(path) \in T /\ Len(path) <= Len(path)
  <2> HIDE DEF T
  <2> QED BY <1>1, <1>4
<1> QED BY <1>5 DEF Split

-----------------------------------------------------------------------------
(* A location matches by its parts.                                         *)

LEMMA SplitTyped ==
  ASSUME NEW Char, NEW path \in Seq(Char)
  PROVE  /\ Split(path) \in Parts(Char) /\ Split(path) \in Seq(Seq(Char))
         /\ Len(Split(path)) \in Nat /\ Len(Split(path)) >= 1
<1>1. Len(path) \in 0..Len(path)
  OBVIOUS
<1>2. Split(path) \in Parts(Char)
  BY <1>1, SplitsRec DEF Split
<1> QED BY <1>2, PartsTyped

\* A proper beginning, or the same.
LEMMA PrefixIs ==
  ASSUME NEW S, NEW s \in Seq(S), NEW t \in Seq(S)
  PROVE  IsPrefix(s, t) <=> s = t \/ Leads(s, t)
<1>1. Len(s) \in Nat /\ Len(t) \in Nat
  OBVIOUS
<1>2. SubSeq(s, 1, Len(s)) = s
  BY SubSeqFull
<1>3. IsPrefix(s, t) <=> Len(s) <= Len(t) /\ \A i \in 1..Len(s) : s[i] = t[i]
  <2>1. CASE Len(s) <= Len(t)
    <3>1. \A i \in 1..Len(s) : t[i] \in S
      BY <1>1, <2>1
    <3>2. /\ SubSeq(t, 1, Len(s)) \in Seq(S) /\ Len(SubSeq(t, 1, Len(s))) = Len(s)
          /\ \A i \in 1..Len(s) : SubSeq(t, 1, Len(s))[i] = t[i]
      BY <1>1, <3>1
    <3>3. s = SubSeq(t, 1, Len(s)) <=> \A i \in 1..Len(s) : s[i] = SubSeq(t, 1, Len(s))[i]
      BY <3>2, SeqEqual
    <3>4. (\A i \in 1..Len(s) : s[i] = SubSeq(t, 1, Len(s))[i]) <=> \A i \in 1..Len(s) : s[i] = t[i]
      BY <3>2
    <3> QED BY <1>2, <2>1, <3>3, <3>4 DEF IsPrefix
  <2>2. CASE ~(Len(s) <= Len(t))
    BY <2>2 DEF IsPrefix
  <2> QED BY <2>1, <2>2
<1>4. Len(s) = Len(t) /\ (\A i \in 1..Len(s) : s[i] = t[i]) => s = t
  BY SeqEqual
<1> QED BY <1>1, <1>3, <1>4 DEF Leads

\* A prefix on a boundary is one of parts.
LEMMA BoundaryIs ==
  ASSUME NEW Char, NEW path \in Seq(Char), NEW prefix \in Seq(Char)
  PROVE  /\ OnBoundary(path, prefix) <=> Leads(Split(prefix), Split(path))
         /\ OnBoundary(path, prefix) => Splits(path)[Len(prefix)] = Split(prefix)
<1> DEFINE n == Len(prefix)
<1>1. n \in Nat /\ Len(path) \in Nat
  OBVIOUS
<1>2. ASSUME OnBoundary(path, prefix)
      PROVE  /\ Leads(Split(prefix), Split(path))
             /\ Splits(path)[n] = Split(prefix)
  <2>1. n < Len(path) /\ path[n + 1] = "/" /\ \A i \in 1..n : path[i] = prefix[i]
    BY <1>1, <1>2 DEF OnBoundary, StartsWith
  <2>2. Splits(path)[n] = Splits(prefix)[n]
    BY <1>1, <2>1, SplitsAgree
  <2>3. Leads(Splits(path)[n], Splits(path)[Len(path)])
    BY <1>1, <2>1, SlashCuts
  <2> QED BY <2>2, <2>3 DEF Split
<1>3. ASSUME Leads(Split(prefix), Split(path)) PROVE OnBoundary(path, prefix)
  <2>1. PICK k \in Nat : k < Len(path) /\ path[k + 1] = "/" /\ Splits(path)[k] = Split(prefix)
    <3>1. Split(prefix) \in Parts(Char)
      BY SplitTyped
    <3> QED BY <1>3, <3>1, CutAtSlash
  <2>2. k \in 0..Len(path) /\ n \in 0..Len(prefix) /\ Splits(path)[k] = Splits(prefix)[n]
    BY <1>1, <2>1 DEF Split
  <2>3. k = n /\ \A i \in 1..k : path[i] = prefix[i]
    BY <2>2, SplitsInjective
  <2> QED BY <1>1, <2>1, <2>3 DEF OnBoundary, StartsWith
<1> QED BY <1>2, <1>3

\* Equal parts, equal paths.
LEMMA SplitInjective ==
  ASSUME NEW Char, NEW path \in Seq(Char), NEW other \in Seq(Char)
  PROVE  Split(path) = Split(other) <=> path = other
<1>1. ASSUME Split(path) = Split(other) PROVE path = other
  <2>1. Len(path) \in 0..Len(path) /\ Len(other) \in 0..Len(other)
    OBVIOUS
  <2>2. Len(path) = Len(other) /\ \A i \in 1..Len(path) : path[i] = other[i]
    BY <1>1, <2>1, SplitsInjective DEF Split
  <2> QED BY <2>2, SeqEqual
<1> QED BY <1>1

\* What the root matches begins with a slash and has more than one part.
LEMMA RootMatches ==
  ASSUME NEW Char, NEW path \in Seq(Char)
  PROVE  StartsWith(path, Root) <=> Fits(Root, path)
<1>1. <<>> \in Seq(Char) /\ Len(<<>>) = 0 /\ Len(path) \in Nat
  OBVIOUS
<1>2. OnBoundary(path, <<>>) <=> StartsWith(path, Root)
  BY <1>1 DEF OnBoundary, StartsWith, Root
<1>3. Split(<<>>) = NoChar
  BY <1>1, SplitsStart DEF Split
<1>4. NoChar \in Seq(Seq(Char)) /\ Len(NoChar) = 1
  BY <1>1 DEF NoChar
<1>5. PrefixParts(Root) = NoChar
  BY DEF PrefixParts, NoChar
<1>6. OnBoundary(path, <<>>) <=> Leads(NoChar, Split(path))
  BY <1>1, <1>3, BoundaryIs
<1>7. Split(path) \in Seq(Seq(Char)) /\ Len(Split(path)) \in Nat
  BY SplitTyped
<1>8. IsPrefix(NoChar, Split(path)) <=> NoChar = Split(path) \/ Leads(NoChar, Split(path))
  BY <1>4, <1>7, PrefixIs
<1>9. Leads(NoChar, Split(path)) <=> IsPrefix(NoChar, Split(path)) /\ Len(Split(path)) > 1
  BY <1>4, <1>7, <1>8 DEF Leads
<1> QED BY <1>2, <1>5, <1>6, <1>9 DEF Fits

\* A location matches the paths that its parts begin: by whole parts, so that
\* /api matches /api/x but not /apifoo (location_prefix_matches).
THEOREM MatchesByParts ==
  ASSUME NEW Char, NEW path \in Seq(Char), NEW prefix \in Seq(Char)
  PROVE  location_prefix_matches(path, prefix) <=> Fits(prefix, path)
<1>1. CASE prefix = Root
  BY <1>1, RootMatches DEF location_prefix_matches
<1>2. CASE prefix # Root
  <2>1. path = prefix <=> Split(prefix) = Split(path)
    BY SplitInjective
  <2>2. OnBoundary(path, prefix) <=> Leads(Split(prefix), Split(path))
    BY BoundaryIs
  <2>3. IsPrefix(Split(prefix), Split(path)) <=> Split(prefix) = Split(path) \/ Leads(Split(prefix), Split(path))
    <3>1. Split(prefix) \in Seq(Seq(Char)) /\ Split(path) \in Seq(Seq(Char))
      BY SplitTyped
    <3> QED BY <3>1, PrefixIs
  <2> QED BY <1>2, <2>1, <2>2, <2>3 DEF location_prefix_matches, Fits, PrefixParts
<1> QED BY <1>1, <1>2

\* Of two locations that match a path, the longer one has no fewer parts.
LEMMA LongerHasMoreParts ==
  ASSUME NEW Char, NEW path \in Seq(Char), NEW p \in Seq(Char), NEW q \in Seq(Char),
         location_prefix_matches(path, p), location_prefix_matches(path, q), Len(p) <= Len(q)
  PROVE  Len(PrefixParts(p)) <= Len(PrefixParts(q))
<1>1. /\ Len(p) \in Nat /\ Len(q) \in Nat /\ Len(path) \in Nat
      /\ Len(Split(p)) \in Nat /\ Len(Split(q)) \in Nat /\ Len(Split(q)) >= 1
  BY SplitTyped
<1>2. Len(PrefixParts(Root)) = 1
  BY DEF PrefixParts
<1>3. CASE p = Root
  BY <1>1, <1>2, <1>3 DEF PrefixParts
<1>4. ASSUME NEW r \in Seq(Char), r # Root, location_prefix_matches(path, r)
      PROVE  Splits(path)[Len(r)] = Split(r) /\ Len(r) <= Len(path)
  <2>1. CASE path = r
    BY <1>1, <2>1 DEF Split
  <2>2. CASE OnBoundary(path, r)
    BY <2>2, BoundaryIs DEF OnBoundary
  <2> QED BY <1>4, <2>1, <2>2 DEF location_prefix_matches
<1>5. CASE p # Root /\ q # Root
  <2>1. /\ Splits(path)[Len(p)] = Split(p) /\ Splits(path)[Len(q)] = Split(q)
        /\ Len(q) <= Len(path)
    BY <1>4, <1>5
  <2>2. Continues(Splits(path)[Len(q)], Splits(path)[Len(p)])
    BY <1>1, <2>1, Grows
  <2> QED BY <1>5, <2>1, <2>2 DEF Continues, PrefixParts
<1>6. CASE p # Root /\ q = Root
  <2>1. StartsWith(path, Root) /\ Len(Root) = 1
    BY <1>6 DEF location_prefix_matches, Root
  <2>2. p = <<>>
    <3>1. CASE Len(p) = 0
      BY <3>1, EmptySeq
    <3>2. CASE Len(p) = 1
      <4>1. p[1] = "/"
        <5>1. path = p \/ StartsWith(path, p)
          BY <1>6 DEF location_prefix_matches, OnBoundary
        <5> QED BY <2>1, <3>2, <5>1 DEF StartsWith, Root
      <4>2. p = Root
        BY <3>2, <4>1, SeqEqual DEF Root
      <4> QED BY <1>6, <4>2
    <3> QED BY <1>1, <1>6, <2>1, <3>1, <3>2
  <2>3. Split(p) = NoChar
    <3>1. <<>> \in Seq(Char) /\ Len(<<>>) = 0
      OBVIOUS
    <3> QED BY <2>2, <3>1, SplitsStart DEF Split
  <2>4. Len(NoChar) = 1
    BY DEF NoChar
  <2>5. PrefixParts(p) = NoChar
    BY <1>6, <2>3 DEF PrefixParts
  <2> QED BY <1>2, <1>6, <2>4, <2>5
<1> QED BY <1>3, <1>5, <1>6

-----------------------------------------------------------------------------
(* The rest of a path after its location.                                   *)

\* The second part of s, and those after it, are the ones after L in t.
Joined(L, s, t) ==
    /\ Len(t) = L + Len(s) - 1
    /\ Len(s) >= 2
    /\ s[1] = <<>>
    /\ \A i \in 2..Len(s) : t[L + i - 1] = s[i]

LEMMA AddJoined ==
  ASSUME NEW Char, NEW s \in Parts(Char), NEW t \in Parts(Char), NEW c \in Char,
         NEW L \in Nat, L >= 1, Joined(L, s, t)
  PROVE  Joined(L, AddChar(s, c), AddChar(t, c))
<1> DEFINE u == AddChar(s, c)
           v == AddChar(t, c)
<1>1. Len(s) \in Nat /\ Len(t) \in Nat
  BY PartsTyped
<1>2. CASE c = "/"
  <2>1. Len(u) = Len(s) + 1 /\ u[Len(s) + 1] = <<>> /\ \A i \in 1..Len(s) : u[i] = s[i]
    BY <1>2, AddSlash
  <2>2. Len(v) = Len(t) + 1 /\ v[Len(t) + 1] = <<>> /\ \A i \in 1..Len(t) : v[i] = t[i]
    BY <1>2, AddSlash
  <2> HIDE DEF u, v
  <2>3. /\ Len(v) = L + Len(u) - 1 /\ Len(u) >= 2 /\ u[1] = <<>>
    BY <1>1, <2>1, <2>2 DEF Joined
  <2>4. ASSUME NEW i \in 2..Len(u) PROVE v[L + i - 1] = u[i]
    <3>1. CASE i = Len(u)
      <4>1. i = Len(s) + 1 /\ L + i - 1 = Len(t) + 1
        BY <1>1, <2>1, <3>1 DEF Joined
      <4> QED BY <2>1, <2>2, <4>1
    <3>2. CASE i # Len(u)
      <4>1. i \in 2..Len(s) /\ i \in 1..Len(s)
        BY <1>1, <2>1, <3>2
      <4>2. L + i - 1 \in 1..Len(t)
        BY <1>1, <4>1 DEF Joined
      <4>3. t[L + i - 1] = s[i]
        BY <4>1 DEF Joined
      <4> QED BY <2>1, <2>2, <4>1, <4>2, <4>3
    <3> QED BY <3>1, <3>2
  <2>5. Joined(L, u, v)
    BY <2>3, <2>4 DEF Joined
  <2> QED BY <2>5 DEF u, v
<1>3. CASE c # "/"
  <2>1. /\ Len(u) = Len(s) /\ u[Len(s)] = Append(s[Len(s)], c)
        /\ \A i \in 1..Len(s) : i # Len(s) => u[i] = s[i]
    BY <1>3, AddOther
  <2>2. /\ Len(v) = Len(t) /\ v[Len(t)] = Append(t[Len(t)], c)
        /\ \A i \in 1..Len(t) : i # Len(t) => v[i] = t[i]
    BY <1>3, AddOther
  <2> HIDE DEF u, v
  <2>3. v[Len(t)] = u[Len(s)]
    <3>1. Len(s) \in 2..Len(s) /\ L + Len(s) - 1 = Len(t)
      BY <1>1 DEF Joined
    <3>2. t[Len(t)] = s[Len(s)]
      BY <3>1 DEF Joined
    <3> QED BY <2>1, <2>2, <3>2
  <2>4. /\ Len(v) = L + Len(u) - 1 /\ Len(u) >= 2 /\ u[1] = <<>>
    BY <1>1, <2>1, <2>2 DEF Joined
  <2>5. ASSUME NEW i \in 2..Len(u) PROVE v[L + i - 1] = u[i]
    <3>1. CASE i = Len(u)
      BY <1>1, <2>1, <2>2, <2>3, <2>4, <3>1
    <3>2. CASE i # Len(u)
      <4>1. i \in 2..Len(s) /\ i \in 1..Len(s) /\ i # Len(s)
        BY <1>1, <2>1, <3>2
      <4>2. L + i - 1 \in 1..Len(t) /\ L + i - 1 # Len(t)
        BY <1>1, <4>1 DEF Joined
      <4>3. t[L + i - 1] = s[i]
        BY <4>1 DEF Joined
      <4> QED BY <2>1, <2>2, <4>1, <4>2, <4>3
    <3> QED BY <3>1, <3>2
  <2>6. Joined(L, u, v)
    BY <2>4, <2>5 DEF Joined
  <2> QED BY <2>6 DEF u, v
<1> QED BY <1>2, <1>3

\* A path cut before a slash: the parts of the rest go on where the others end.
LEMMA SplitConcat ==
  ASSUME NEW Char, NEW path \in Seq(Char), NEW n \in Nat, n < Len(path), path[n + 1] = "/",
         NEW rest \in Seq(Char), Len(rest) = Len(path) - n,
         \A i \in 1..Len(rest) : rest[i] = path[n + i]
  PROVE  Joined(Len(Splits(path)[n]), Split(rest), Split(path))
<1> DEFINE L == Len(Splits(path)[n])
           T == {d \in Nat : d < Len(rest) =>
                               Joined(L, Splits(rest)[d + 1], Splits(path)[n + d + 1])}
<1>1. Len(path) \in Nat /\ Len(rest) \in Nat /\ rest[1] = "/" /\ 0 < Len(rest)
  OBVIOUS
<1>2. Splits(path)[n] \in Parts(Char)
  BY SplitsStep
<1>3. L \in Nat /\ L >= 1
  BY <1>2, PartsTyped
<1>4. 0 \in T
  <2>1. Splits(path)[n + 1] = AddChar(Splits(path)[n], "/")
    BY SplitsStep
  <2>2. Splits(rest)[1] = AddChar(NoChar, "/") /\ NoChar \in Parts(Char)
    <3>1. 0 + 1 = 1
      OBVIOUS
    <3> QED BY <1>1, <3>1, SplitsStep, SplitsStart
  <2>3. Len(NoChar) = 1 /\ NoChar[1] = <<>>
    BY DEF NoChar
  <2>4. Len(Splits(path)[n + 1]) = L + 1 /\ Splits(path)[n + 1][L + 1] = <<>>
    BY <1>2, <2>1, AddSlash
  <2>5. /\ Len(Splits(rest)[1]) = 2 /\ Splits(rest)[1][2] = <<>> /\ Splits(rest)[1][1] = <<>>
    <3> DEFINE u == AddChar(NoChar, "/")
    <3>1. Len(u) = Len(NoChar) + 1 /\ u[Len(NoChar) + 1] = <<>> /\ \A i \in 1..Len(NoChar) : u[i] = NoChar[i]
      BY <2>2, AddSlash
    <3> HIDE DEF u
    <3>2. Len(u) = 2 /\ u[2] = <<>> /\ u[1] = <<>>
      BY <2>3, <3>1
    <3> QED BY <2>2, <3>2 DEF u
  <2> HIDE DEF L
  <2>6. Joined(L, Splits(rest)[1], Splits(path)[n + 1])
    BY <1>3, <2>4, <2>5 DEF Joined
  <2>7. 0 + 1 = 1 /\ n + 0 + 1 = n + 1
    OBVIOUS
  <2> QED BY <2>6, <2>7
<1>5. ASSUME NEW d \in Nat, d \in T PROVE d + 1 \in T
  <2> DEFINE k == d + 1
             m == n + d + 1
             s == Splits(rest)[k]
             t == Splits(path)[m]
  <2>1. ASSUME d + 1 < Len(rest)
        PROVE  Joined(L, Splits(rest)[(d + 1) + 1], Splits(path)[n + (d + 1) + 1])
    <3>1. /\ k \in Nat /\ k < Len(rest) /\ m \in Nat /\ m < Len(path)
          /\ n + (d + 1) + 1 = m + 1 /\ d < Len(rest)
      BY <1>1, <2>1
    <3>2. rest[k + 1] = path[m + 1]
      <4>1. k + 1 \in 1..Len(rest) /\ n + (k + 1) = m + 1
        BY <1>1, <2>1
      <4> QED BY <4>1
    <3>3. Joined(L, s, t)
      BY <1>5, <3>1
    <3>4. s \in Parts(Char) /\ path[m + 1] \in Char /\ Splits(rest)[k + 1] = AddChar(s, path[m + 1])
      BY <3>1, <3>2, SplitsStep
    <3>5. t \in Parts(Char) /\ Splits(path)[m + 1] = AddChar(t, path[m + 1])
      BY <3>1, SplitsStep
    <3> HIDE DEF s, t, L, m, k
    <3>6. Joined(L, AddChar(s, path[m + 1]), AddChar(t, path[m + 1]))
      BY <1>3, <3>3, <3>4, <3>5, AddJoined
    <3>7. Joined(L, Splits(rest)[k + 1], Splits(path)[m + 1])
      BY <3>4, <3>5, <3>6
    <3> QED BY <3>1, <3>7 DEF k
  <2> HIDE DEF L
  <2> QED BY <2>1
<1>6. \A d \in Nat : d \in T
  <2> HIDE DEF T
  <2> QED BY <1>4, <1>5, Induction, Zenon
<1>7. /\ Len(rest) - 1 \in Nat /\ Len(rest) - 1 < Len(rest)
      /\ (Len(rest) - 1) + 1 = Len(rest) /\ n + (Len(rest) - 1) + 1 = Len(path)
  BY <1>1
<1>8. Joined(L, Splits(rest)[Len(rest)], Splits(path)[Len(path)])
  <2>1. Len(rest) - 1 \in T
    <3> HIDE DEF T
    <3> QED BY <1>6, <1>7
  <2> HIDE DEF L
  <2> QED BY <1>7, <2>1
<1> QED BY <1>8 DEF Split

\* The recursion of Kept has a solution, which Kept is.
LEMMA KeptRec ==
  ASSUME NEW S, NEW parts \in Seq(S), NEW names
  PROVE  /\ Kept(parts, names) \in [0..Len(parts) -> Seq(S)]
         /\ Kept(parts, names)[0] = <<>>
         /\ \A n \in 1..Len(parts) : Kept(parts, names)[n] =
              IF parts[n] \in names THEN Kept(parts, names)[n - 1]
              ELSE Append(Kept(parts, names)[n - 1], parts[n])
<1> DEFINE L == Len(parts)
           Q == Seq(S)
           Next(s, n) == IF parts[n] \in names THEN s ELSE Append(s, parts[n])
           step == [n \in Nat |-> [s \in Q |-> IF n \in 1..L THEN Next(s, n) ELSE s]]
           R(f) == f = [n \in 0..L |-> IF n = 0 THEN <<>>
                                       ELSE IF parts[n] \in names THEN f[n - 1]
                                       ELSE Append(f[n - 1], parts[n])]
<1>1. L \in Nat /\ \A n \in 1..L : parts[n] \in S
  OBVIOUS
<1>2. step \in [Nat -> [Q -> Q]]
  BY <1>1
<1>3. <<>> \in Q
  OBVIOUS
<1>4. PICK f \in [0..L -> Q] : f[0] = <<>> /\ \A n \in 1..L : f[n] = step[n][f[n - 1]]
  <2> DEFINE first == <<>>
  <2> HIDE DEF step, Q, L, first
  <2>1. first \in Q
    BY <1>3 DEF first
  <2>2. Iterable(Q, first, step, L)
    BY <1>1, <1>2, <2>1 DEF Iterable
  <2>3. \E g : Iteration(g, Q, first, step, L)
    BY <2>2, Iterates
  <2> QED BY <2>3 DEF Iteration, first
<1>5. \A n \in 1..L : f[n] = Next(f[n - 1], n)
  <2> SUFFICES ASSUME NEW n \in 1..L PROVE f[n] = Next(f[n - 1], n)
    OBVIOUS
  <2>1. n \in Nat /\ f[n - 1] \in Q
    BY <1>1, <1>4
  <2>2. step[n][f[n - 1]] = Next(f[n - 1], n)
    BY <2>1
  <2> QED BY <1>4, <2>2
<1>6. R(f)
  <2>1. f = [n \in 0..L |-> f[n]]
    OBVIOUS
  <2>2. ASSUME NEW n \in 0..L
        PROVE  f[n] = IF n = 0 THEN <<>> ELSE IF parts[n] \in names THEN f[n - 1]
                      ELSE Append(f[n - 1], parts[n])
    <3>1. n = 0 \/ n \in 1..L
      BY <1>1
    <3> QED BY <1>4, <1>5, <3>1, <1>1
  <2> QED BY <2>1, <2>2, Zenon
<1>7. Kept(parts, names) = CHOOSE g : R(g)
  BY DEF Kept
<1>8. R(Kept(parts, names))
  <2> HIDE DEF R
  <2> QED BY <1>6, <1>7, Zenon
<1> DEFINE k == Kept(parts, names)
<1> HIDE DEF k
<1>9. k = [n \in 0..L |-> IF n = 0 THEN <<>> ELSE IF parts[n] \in names THEN k[n - 1]
                          ELSE Append(k[n - 1], parts[n])]
  BY <1>8 DEF k
<1>10. k[0] = <<>>
  BY <1>1, <1>9
<1>11. ASSUME NEW n \in 1..L PROVE k[n] = Next(k[n - 1], n)
  <2>1. n \in 0..L /\ n # 0
    BY <1>1
  <2>2. k[n] = [i \in 0..L |-> IF i = 0 THEN <<>> ELSE IF parts[i] \in names THEN k[i - 1]
                               ELSE Append(k[i - 1], parts[i])][n]
    BY <1>9, Zenon
  <2> QED BY <2>1, <2>2, Zenon
<1>12. k \in [0..L -> Q]
  <2> DEFINE T == {n \in Nat : n \in 0..L => k[n] \in Q}
  <2>1. 0 \in T
    BY <1>3, <1>10
  <2>2. ASSUME NEW n \in Nat, n \in T PROVE n + 1 \in T
    <3>1. ASSUME n + 1 \in 0..L PROVE k[n + 1] \in Q
      <4>1. n + 1 \in 1..L /\ n \in 0..L /\ (n + 1) - 1 = n
        BY <1>1, <3>1
      <4>2. k[n] \in Q /\ parts[n + 1] \in S
        BY <1>1, <2>2, <4>1
      <4>3. k[n + 1] = Next(k[n], n + 1)
        BY <1>11, <4>1
      <4> QED BY <4>2, <4>3
    <3> QED BY <3>1
  <2>3. \A n \in Nat : n \in T
    <3> HIDE DEF T
    <3> QED BY <2>1, <2>2, Induction, Zenon
  <2>4. k = [n \in 0..L |-> k[n]]
    BY <1>9
  <2> QED BY <2>3, <2>4
<1> QED BY <1>10, <1>11, <1>12 DEF k

\* One part after another: a name is skipped, any other part taken.
LEMMA KeptTyped ==
  ASSUME NEW S, NEW parts \in Seq(S), NEW names, NEW n \in Nat, n <= Len(parts)
  PROVE  Kept(parts, names)[n] \in Seq(S)
BY KeptRec

LEMMA KeptSkips ==
  ASSUME NEW S, NEW parts \in Seq(S), NEW names, NEW n \in Nat, n < Len(parts),
         parts[n + 1] \in names
  PROVE  Kept(parts, names)[n + 1] = Kept(parts, names)[n]
<1> DEFINE k == Kept(parts, names)
<1>1. \A i \in 1..Len(parts) :
        k[i] = IF parts[i] \in names THEN k[i - 1] ELSE Append(k[i - 1], parts[i])
  BY KeptRec
<1>2. n + 1 \in 1..Len(parts) /\ (n + 1) - 1 = n
  OBVIOUS
<1> HIDE DEF k
<1>3. k[n + 1] = k[(n + 1) - 1]
  BY <1>1, <1>2, Zenon
<1> QED BY <1>2, <1>3, Zenon DEF k

LEMMA KeptTakes ==
  ASSUME NEW S, NEW parts \in Seq(S), NEW names, NEW n \in Nat, n < Len(parts),
         parts[n + 1] \notin names
  PROVE  Kept(parts, names)[n + 1] = Append(Kept(parts, names)[n], parts[n + 1])
<1> DEFINE k == Kept(parts, names)
<1>1. \A i \in 1..Len(parts) :
        k[i] = IF parts[i] \in names THEN k[i - 1] ELSE Append(k[i - 1], parts[i])
  BY KeptRec
<1>2. n + 1 \in 1..Len(parts) /\ (n + 1) - 1 = n
  OBVIOUS
<1> HIDE DEF k
<1>3. k[n + 1] = Append(k[(n + 1) - 1], parts[n + 1])
  BY <1>1, <1>2, Zenon
<1> QED BY <1>2, <1>3, Zenon DEF k

\* A first part that is left out changes nothing.
LEMMA WithoutFirst ==
  ASSUME NEW S, NEW s \in Seq(S), NEW t \in Seq(S), NEW names,
         Len(s) = Len(t) + 1, s[1] \in names, \A i \in 1..Len(t) : t[i] = s[i + 1]
  PROVE  Without(s, names) = Without(t, names)
<1> DEFINE T == {n \in Nat : n <= Len(t) => Kept(s, names)[n + 1] = Kept(t, names)[n]}
<1>1. Len(s) \in Nat /\ Len(t) \in Nat
  OBVIOUS
<1>2. 0 \in T
  <2>1. Kept(s, names)[0] = <<>> /\ Kept(t, names)[0] = <<>>
    BY KeptRec
  <2>2. 0 < Len(s) /\ 0 + 1 = 1
    BY <1>1
  <2>3. Kept(s, names)[1] = Kept(s, names)[0]
    BY <2>2, KeptSkips
  <2> QED BY <2>1, <2>2, <2>3
<1>3. ASSUME NEW n \in Nat, n \in T PROVE n + 1 \in T
  <2>1. ASSUME n + 1 <= Len(t) PROVE Kept(s, names)[(n + 1) + 1] = Kept(t, names)[n + 1]
    <3> DEFINE m == n + 1
    <3>1. m \in Nat /\ m < Len(s) /\ n < Len(t) /\ n <= Len(t) /\ t[n + 1] = s[m + 1]
      BY <1>1, <2>1
    <3>2. Kept(s, names)[m] = Kept(t, names)[n]
      BY <1>3, <3>1
    <3> HIDE DEF m
    <3>3. CASE t[n + 1] \in names
      <4>1. Kept(s, names)[m + 1] = Kept(s, names)[m]
        BY <3>1, <3>3, KeptSkips
      <4>2. Kept(t, names)[n + 1] = Kept(t, names)[n]
        BY <3>1, <3>3, KeptSkips
      <4> QED BY <3>2, <4>1, <4>2 DEF m
    <3>4. CASE t[n + 1] \notin names
      <4>1. Kept(s, names)[m + 1] = Append(Kept(s, names)[m], s[m + 1])
        <5>1. s[m + 1] \notin names
          BY <3>1, <3>4
        <5> QED BY <3>1, <5>1, KeptTakes
      <4>2. Kept(t, names)[n + 1] = Append(Kept(t, names)[n], t[n + 1])
        BY <3>1, <3>4, KeptTakes
      <4> QED BY <3>1, <3>2, <4>1, <4>2 DEF m
    <3> QED BY <3>3, <3>4
  <2> QED BY <2>1
<1>4. \A n \in Nat : n \in T
  <2> HIDE DEF T
  <2> QED BY <1>2, <1>3, Induction, Zenon
<1>5. Len(t) \in T /\ Len(t) <= Len(t)
  <2> HIDE DEF T
  <2> QED BY <1>1, <1>4
<1> QED BY <1>1, <1>5 DEF Without

LEMMA ToSetAppend ==
  ASSUME NEW S, NEW s \in Seq(S), NEW e \in S
  PROVE  ToSet(Append(s, e)) = ToSet(s) \cup {e}
<1> DEFINE t == Append(s, e)
<1>1. /\ t \in Seq(S) /\ Len(t) = Len(s) + 1 /\ Len(s) \in Nat /\ t[Len(s) + 1] = e
      /\ \A i \in 1..Len(s) : t[i] = s[i]
  OBVIOUS
<1> HIDE DEF t
<1>2. ToSet(t) = {t[i] : i \in 1..Len(t)} /\ ToSet(s) = {s[i] : i \in 1..Len(s)}
  BY <1>1 DEF ToSet
<1>3. {t[i] : i \in 1..Len(t)} = {s[i] : i \in 1..Len(s)} \cup {e}
  BY <1>1
<1> QED BY <1>2, <1>3 DEF t

\* What is kept are the parts that have none of the names.
LEMMA WithoutHas ==
  ASSUME NEW S, NEW s \in Seq(S), NEW names
  PROVE  ToSet(Without(s, names)) = ToSet(s) \ names
<1> DEFINE First(n) == {s[i] : i \in 1..n}
           k == Kept(s, names)
           T == {n \in Nat : n <= Len(s) => ToSet(k[n]) = First(n) \ names}
<1>1. Len(s) \in Nat
  OBVIOUS
<1>2. 0 \in T
  <2>1. k[0] = <<>>
    BY KeptRec
  <2>2. ToSet(<<>>) = {} /\ First(0) = {}
    BY DEF ToSet
  <2> QED BY <2>1, <2>2
<1>3. ASSUME NEW n \in Nat, n \in T PROVE n + 1 \in T
  <2>1. ASSUME n + 1 <= Len(s) PROVE ToSet(k[n + 1]) = First(n + 1) \ names
    <3>1. n < Len(s) /\ n <= Len(s)
      BY <1>1, <2>1
    <3>2. First(n + 1) = First(n) \cup {s[n + 1]}
      OBVIOUS
    <3>3. ToSet(k[n]) = First(n) \ names
      BY <1>3, <3>1
    <3>4. k[n] \in Seq(S) /\ s[n + 1] \in S
      BY <3>1, KeptTyped
    <3> HIDE DEF First
    <3>5. CASE s[n + 1] \in names
      <4>1. k[n + 1] = k[n]
        BY <3>1, <3>5, KeptSkips
      <4> QED BY <3>2, <3>3, <3>5, <4>1
    <3>6. CASE s[n + 1] \notin names
      <4>1. k[n + 1] = Append(k[n], s[n + 1])
        BY <3>1, <3>6, KeptTakes
      <4> HIDE DEF k
      <4>2. ToSet(Append(k[n], s[n + 1])) = ToSet(k[n]) \cup {s[n + 1]}
        BY <3>4, ToSetAppend
      <4> QED BY <3>2, <3>3, <3>6, <4>1, <4>2
    <3> QED BY <3>5, <3>6
  <2> QED BY <2>1
<1>4. \A n \in Nat : n \in T
  <2> HIDE DEF T
  <2> QED BY <1>2, <1>3, Induction, Zenon
<1>5. Len(s) \in T /\ Len(s) <= Len(s)
  <2> HIDE DEF T
  <2> QED BY <1>1, <1>4
<1>6. First(Len(s)) = ToSet(s)
  BY DEF ToSet
<1> QED BY <1>5, <1>6 DEF Without

\* What uri_to_relative leaves has the names of the parts after a location's.
LEMMA RelativeHas ==
  ASSUME NEW Char, "/" \in Char, NEW path \in Seq(Char), NEW prefix \in Seq(Char),
         location_prefix_matches(path, prefix), NEW rel \in uri_to_relative(prefix, path)
  PROVE  /\ RestOf(prefix, path) \in Seq(Seq(Char))
         /\ Components(rel) = Without(RestOf(prefix, path), Unnamed)
<1> DEFINE s == Split(path)
           k == Len(PrefixParts(prefix))
           rest == RestOf(prefix, path)
           r == Split(rel)
<1>1. s \in Seq(Seq(Char)) /\ Len(s) \in Nat
  BY SplitTyped
<1>2. Len(path) \in Nat /\ Len(prefix) \in Nat
  OBVIOUS
<1>3. k \in Nat /\ k >= 1
  <2>1. CASE prefix = Root
    BY <2>1 DEF PrefixParts
  <2>2. CASE prefix # Root
    BY <2>2, SplitTyped DEF PrefixParts
  <2> QED BY <2>1, <2>2
<1>4. /\ rest \in Seq(Seq(Char))
      /\ Len(rest) = IF k + 1 <= Len(s) THEN Len(s) - k ELSE 0
      /\ \A i \in 1..(Len(s) - k) : rest[i] = s[k + i]
  <2>1. \A i \in (k + 1)..Len(s) : s[i] \in Seq(Char)
    BY <1>1, <1>3
  <2>2. rest = SubSeq(s, k + 1, Len(s))
    BY DEF RestOf
  <2> HIDE DEF s, k, rest
  <2>3. /\ SubSeq(s, k + 1, Len(s)) \in Seq(Seq(Char))
        /\ Len(SubSeq(s, k + 1, Len(s))) = IF k + 1 <= Len(s) THEN Len(s) - (k + 1) + 1 ELSE 0
        /\ \A i \in 1..(Len(s) - (k + 1) + 1) : SubSeq(s, k + 1, Len(s))[i] = s[(k + 1) + i - 1]
    BY <1>1, <1>3, <2>1, SubSeqProperties
  <2> QED BY <1>1, <1>3, <2>2, <2>3
<1>5. ASSUME Joined(k, r, s), r \in Seq(Seq(Char)), Len(r) \in Nat
      PROVE  Components(rel) = Without(rest, Unnamed)
  <2>0. <<>> \in Unnamed
    BY DEF Unnamed
  <2> HIDE DEF s, k, rest, r
  <2>1. /\ Len(s) = k + Len(r) - 1 /\ Len(r) >= 2 /\ r[1] = <<>>
        /\ \A i \in 2..Len(r) : s[k + i - 1] = r[i]
    BY <1>5 DEF Joined
  <2>2. Len(rest) = Len(r) - 1
    BY <1>1, <1>3, <1>4, <1>5, <2>1
  <2>3. ASSUME NEW i \in 1..Len(rest) PROVE rest[i] = r[i + 1]
    <3>1. i + 1 \in 2..Len(r) /\ k + (i + 1) - 1 = k + i /\ i \in 1..(Len(s) - k)
      BY <1>1, <1>3, <1>5, <2>1, <2>2
    <3> QED BY <1>4, <2>1, <3>1
  <2>4. Without(r, Unnamed) = Without(rest, Unnamed)
    <3>1. Len(r) = Len(rest) + 1 /\ r[1] \in Unnamed
      BY <1>5, <2>0, <2>1, <2>2
    <3> QED BY <1>4, <1>5, <2>3, <3>1, WithoutFirst
  <2> QED BY <1>5, <2>1, <2>2, <2>3, <2>4 DEF Components, r
<1>6. CASE prefix = Root
  <2>1. rel = path
    BY <1>6 DEF uri_to_relative
  <2>2. k = 1
    BY <1>6 DEF PrefixParts
  <2>3. Fits(Root, path)
    BY <1>6, MatchesByParts
  <2>4. IsPrefix(NoChar, s) /\ Len(s) > 1
    BY <2>3 DEF Fits, PrefixParts, NoChar
  <2>5. NoChar \in Seq(Seq(Char)) /\ Len(NoChar) = 1 /\ NoChar[1] = <<>>
    BY DEF NoChar
  <2>6. s[1] = <<>>
    <3>1. NoChar = s \/ Leads(NoChar, s)
      BY <1>1, <2>4, <2>5, PrefixIs
    <3> QED BY <2>5, <3>1 DEF Leads
  <2>7. Joined(k, r, s)
    BY <1>1, <2>1, <2>2, <2>4, <2>6 DEF Joined
  <2> QED BY <1>1, <1>4, <1>5, <2>1, <2>7
<1>7. CASE prefix # Root /\ path = prefix
  <2>1. rel = Root
    BY <1>7 DEF uri_to_relative
  <2>2. k = Len(s)
    BY <1>7 DEF PrefixParts
  <2>3. Root \in Seq(Char) /\ Len(Root) = 1 /\ Root[1] = "/"
    BY DEF Root
  <2>4. r = AddChar(NoChar, "/") /\ NoChar \in Parts(Char)
    <3>1. 0 < Len(Root) /\ 0 + 1 = 1
      BY <2>3
    <3> QED BY <2>1, <2>3, <3>1, SplitsStep, SplitsStart DEF Split
  <2>5. Len(NoChar) = 1 /\ NoChar[1] = <<>>
    BY DEF NoChar
  <2> DEFINE one == AddChar(NoChar, "/")
  <2>6. one \in Seq(Seq(Char)) /\ Len(one) = 2 /\ one[1] = <<>> /\ one[2] = <<>>
    <3>1. /\ one \in Parts(Char) /\ Len(one) = Len(NoChar) + 1 /\ one[Len(NoChar) + 1] = <<>>
          /\ \A i \in 1..Len(NoChar) : one[i] = NoChar[i]
      BY <2>4, AddSlash
    <3> HIDE DEF one
    <3>2. one \in Parts(Char) /\ Len(one) = 2 /\ one[1] = <<>> /\ one[2] = <<>>
      BY <2>5, <3>1
    <3> QED BY <3>2 DEF Parts
  <2> HIDE DEF one
  <2>7. Without(one, Unnamed) = Without(NoChar, Unnamed)
    <3>1. NoChar \in Seq(Seq(Char)) /\ <<>> \in Unnamed
      BY DEF NoChar, Unnamed
    <3>2. Len(one) = Len(NoChar) + 1 /\ one[1] \in Unnamed /\ \A i \in 1..Len(NoChar) : NoChar[i] = one[i + 1]
      BY <2>5, <2>6, <3>1
    <3> QED BY <2>6, <3>1, <3>2, WithoutFirst
  <2>8. Without(NoChar, Unnamed) = Without(<<>>, Unnamed)
    <3> DEFINE none == <<>>
    <3>1. NoChar \in Seq(Seq(Char)) /\ <<>> \in Unnamed /\ none \in Seq(Seq(Char))
      BY DEF NoChar, Unnamed
    <3>2. Len(NoChar) = Len(none) + 1 /\ NoChar[1] \in Unnamed
          /\ \A i \in 1..Len(none) : none[i] = NoChar[i + 1]
      BY <2>5, <3>1
    <3> HIDE DEF none
    <3>3. Without(NoChar, Unnamed) = Without(none, Unnamed)
      BY <3>1, <3>2, WithoutFirst
    <3> QED BY <3>3 DEF none
  <2>9. rest = <<>>
    <3>1. Len(rest) = 0
      BY <1>1, <1>3, <1>4, <2>2
    <3> QED BY <1>4, <3>1, EmptySeq
  <2> QED BY <1>4, <2>4, <2>7, <2>8, <2>9 DEF one, Components
<1>8. CASE prefix # Root /\ path # prefix
  <2>1. OnBoundary(path, prefix) /\ rel = SubSeq(path, Len(prefix) + 1, Len(path))
    BY <1>8 DEF uri_to_relative
  <2>2. Splits(path)[Len(prefix)] = Split(prefix)
    BY <2>1, BoundaryIs
  <2>3. k = Len(Splits(path)[Len(prefix)])
    BY <1>8, <2>2 DEF PrefixParts
  <2>4. Len(prefix) < Len(path) /\ path[Len(prefix) + 1] = "/"
    BY <2>1 DEF OnBoundary
  <2>5. /\ rel \in Seq(Char) /\ Len(rel) = Len(path) - Len(prefix)
        /\ \A i \in 1..Len(rel) : rel[i] = path[Len(prefix) + i]
    <3>1. \A i \in (Len(prefix) + 1)..Len(path) : path[i] \in Char
      BY <1>2
    <3> QED BY <1>2, <2>1, <2>4, <3>1, SubSeqProperties
  <2>6. Joined(k, r, s)
    BY <1>2, <2>3, <2>4, <2>5, SplitConcat
  <2> QED BY <1>4, <1>5, <2>5, <2>6, SplitTyped
<1> QED BY <1>6, <1>7, <1>8

\* Whatever a static location serves has the names of the rest of the path,
\* none of them ".."; what it refuses has a ".." (uri_to_relative, safe_join).
THEOREM JoinsRestBelowRoot ==
  ASSUME NEW Char, NEW path \in Seq(Char), NEW prefix \in Seq(Char),
         location_prefix_matches(path, prefix)
  PROVE  LET rest == RestOf(prefix, path)
         IN  /\ uri_to_relative(prefix, path) # {}
             /\ \A rel \in uri_to_relative(prefix, path) :
                  safe_join(rel) = IF DotDot \in ToSet(rest) THEN {}
                                   ELSE {Without(rest, Unnamed)}
<1>1. uri_to_relative(prefix, path) # {}
  BY DEF uri_to_relative, location_prefix_matches
<1>2. ASSUME NEW rel \in uri_to_relative(prefix, path)
      PROVE  safe_join(rel) = IF DotDot \in ToSet(RestOf(prefix, path)) THEN {}
                              ELSE {Without(RestOf(prefix, path), Unnamed)}
  <2> DEFINE rest == RestOf(prefix, path)
             Chars == Char \cup {"/"}
  <2>1. rest \in Seq(Seq(Chars)) /\ Components(rel) = Without(rest, Unnamed)
    <3>1. "/" \in Chars /\ path \in Seq(Chars) /\ prefix \in Seq(Chars)
      BY SeqMonotonic
    <3> HIDE DEF Chars
    <3> QED BY <3>1, RelativeHas
  <2> HIDE DEF rest
  <2>2. ToSet(Without(rest, Unnamed)) = ToSet(rest) \ Unnamed
    BY <2>1, WithoutHas
  <2>3. DotDot \notin Unnamed
    <3>1. Len(DotDot) = 2 /\ Len(Dot) = 1 /\ Len(<<>>) = 0
      BY DEF DotDot, Dot
    <3> HIDE DEF Dot, DotDot
    <3>2. Len(DotDot) # Len(Dot) /\ Len(DotDot) # Len(<<>>)
      BY <3>1
    <3>3. DotDot # Dot /\ DotDot # <<>>
      BY <3>2, Zenon
    <3> QED BY <3>3, Zenon DEF Unnamed
  <2>4. DotDot \in ToSet(Components(rel)) <=> DotDot \in ToSet(rest)
    BY <2>1, <2>2, <2>3
  <2> QED BY <2>1, <2>4 DEF safe_join, rest
<1> QED BY <1>1, <1>2

=============================================================================
