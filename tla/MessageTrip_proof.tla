-------------------------- MODULE MessageTrip_proof --------------------------
(***************************************************************************)
(* The contents of an exchange arrive, for every call, every script of the *)
(* builder, every query and every length of the buffers: the properties of *)
(* MessageTrip, from three invariants.                                     *)
(*                                                                         *)
(* The texts and the lists come first: what the operators of UrlText and   *)
(* HttpMessage return, in terms of positions.  Where one is a loop, and    *)
(* its definition a recursive function, the lemma follows the loop: what   *)
(* holds at its start, what a turn keeps, and Climb, which is induction    *)
(* over the set of the turns at which it holds.                            *)
(***************************************************************************)
EXTENDS MessageTrip, TLAPS, FiniteSetTheorems, SequenceTheorems,
        WellFoundedInduction

\* Every set of numbers has a least one.
LEMMA Least ==
    ASSUME NEW S, S \subseteq Nat, S # {}
    PROVE  \E x \in S : \A y \in S : x <= y
  <1> DEFINE R == {ss \in Nat \X Nat : ss[1] < ss[2]}
  <1>1. IsWellFoundedOn(R, Nat)
    BY NatLessThanWellFounded DEF OpToRel
  <1>2. PICK x \in S : \A y \in S : ~(<<y, x>> \in R)
    BY <1>1, WFMin
  <1>3. \A y \in S : ~(y < x)
    <2>1. SUFFICES ASSUME NEW y \in S, y < x PROVE FALSE
      OBVIOUS
    <2>2. <<y, x>> \in R
      BY <2>1
    <2>3. QED
      BY <1>2, <2>2
  <1>4. QED
    BY <1>3

\* Induction, over the set of the numbers a statement holds of.
LEMMA Climb ==
    ASSUME NEW S, NEW n \in Nat, 0 \in S,
           \A i \in 0 .. n - 1 : i \in S => i + 1 \in S
    PROVE  0 .. n \subseteq S
  <1>1. SUFFICES ASSUME (0 .. n) \ S # {} PROVE FALSE
    OBVIOUS
  <1> DEFINE T == (0 .. n) \ S
  <1>a. T \subseteq Nat /\ T # {}
    BY <1>1
  <1>2. PICK x \in T : \A y \in T : x <= y
    <2> HIDE DEF T
    <2> QED
      BY <1>a, Least
  <1>3. x - 1 \in S /\ x - 1 \in 0 .. n - 1
    BY <1>2
  <1>4. QED
    BY <1>2, <1>3

\* What Min and Max return.
LEMMA MinFacts ==
    ASSUME NEW S, S \subseteq Nat, S # {}
    PROVE  Min(S) \in S /\ \A y \in S : Min(S) <= y
  BY Least DEF Min

LEMMA MaxFacts ==
    ASSUME NEW n \in Nat, NEW S, S \subseteq 0 .. n, S # {}
    PROVE  Max(S) \in S /\ \A y \in S : Max(S) >= y
  <1> DEFINE T == {m \in Nat : \A y \in S : y <= m}
  <1>1. T \subseteq Nat /\ n \in T
    OBVIOUS
  <1>2. PICK m \in T : \A k \in T : m <= k
    BY <1>1, Least
  <1>3. m \in S
    <2>1. SUFFICES ASSUME m \notin S PROVE FALSE
      OBVIOUS
    <2>2. \A y \in S : y \in Nat /\ y <= m /\ y # m
      BY <1>2, <2>1
    <2>a. m # 0
      <3>1. PICK y \in S : TRUE
        OBVIOUS
      <3>2. y \in Nat /\ y <= m /\ y # m
        BY <2>2
      <3>3. QED
        BY <3>2
    <2>b. m - 1 \in Nat
      BY <2>a
    <2>c. \A y \in S : y <= m - 1
      BY <2>2
    <2>3. m - 1 \in T
      BY <2>b, <2>c
    <2>4. QED
      BY <1>2, <2>3
  <1>4. QED
    BY <1>2, <1>3 DEF Max

\* A greatest element is the one that Max returns.
LEMMA MaxIs ==
    ASSUME NEW n \in Nat, NEW S, S \subseteq 0 .. n, NEW m \in S, \A y \in S : m >= y
    PROVE  Max(S) = m
  <1>1. Max(S) \in S /\ \A y \in S : Max(S) >= y
    BY MaxFacts
  <1>a. \A y \in S : y \in Nat
    OBVIOUS
  <1>2. Max(S) \in Nat /\ m \in Nat /\ Max(S) <= m /\ m <= Max(S)
    BY <1>1, <1>a
  <1>3. QED
    BY <1>2

\* find: the first such byte, or 0 (UrlText.Find).
LEMMA FindFacts ==
    ASSUME NEW t, Len(t) \in Nat, NEW byte
    PROVE  /\ Find(t, byte) \in 0 .. Len(t)
           /\ Find(t, byte) # 0 => t[Find(t, byte)] = byte
           /\ \A i \in 1 .. Len(t) :
                 Find(t, byte) = 0 \/ i < Find(t, byte) => t[i] # byte
  <1> DEFINE I == {i \in 1 .. Len(t) : t[i] = byte}
  <1>1. Find(t, byte) = IF I # {} THEN Min(I) ELSE 0
    BY DEF Find, SelectInSeq
  <1>2. CASE I = {}
    BY <1>1, <1>2
  <1>3. CASE I # {}
    <2>1. Min(I) \in I /\ \A y \in I : Min(I) <= y
      BY <1>3, MinFacts, I \subseteq Nat
    <2> DEFINE m == Min(I)
    <2>2. Find(t, byte) = m
      BY <1>1, <1>3
    <2>3. m \in 1 .. Len(t) /\ t[m] = byte
      BY <2>1
    <2>4. \A i \in 1 .. Len(t) : t[i] = byte => m <= i
      BY <2>1
    <2> HIDE DEF m
    <2>5. QED
      BY <2>2, <2>3, <2>4
  <1>4. QED
    BY <1>2, <1>3

\* rfind: the last such byte, or 0 (UrlText.RFind).
LEMMA RFindFacts ==
    ASSUME NEW t, Len(t) \in Nat, NEW byte
    PROVE  /\ RFind(t, byte) \in 0 .. Len(t)
           /\ RFind(t, byte) # 0 => t[RFind(t, byte)] = byte
           /\ \A i \in 1 .. Len(t) : i > RFind(t, byte) => t[i] # byte
  <1> DEFINE I == {i \in 1 .. Len(t) : t[i] = byte}
  <1>1. RFind(t, byte) = IF I # {} THEN Max(I) ELSE 0
    BY DEF RFind, SelectLastInSeq
  <1>2. CASE I = {}
    BY <1>1, <1>2
  <1>3. CASE I # {}
    <2>1. Max(I) \in I /\ \A y \in I : Max(I) >= y
      BY <1>3, MaxFacts, I \subseteq 0 .. Len(t)
    <2> DEFINE m == Max(I)
    <2>2. RFind(t, byte) = m
      BY <1>1, <1>3
    <2>3. m \in 1 .. Len(t) /\ t[m] = byte
      BY <2>1
    <2>4. \A i \in 1 .. Len(t) : t[i] = byte => m >= i
      BY <2>1
    <2> HIDE DEF m
    <2>5. QED
      BY <2>2, <2>3, <2>4
  <1>4. QED
    BY <1>2, <1>3

\* Where the elements of a concatenation come from.
Joins(u, s, t) == u = s \o t
Lined(u, s, t) ==
    /\ Len(u) = Len(s) + Len(t)
    /\ \A i \in 1 .. Len(s) : u[i] = s[i]
    /\ \A i \in 1 .. Len(t) : u[Len(s) + i] = t[i]

\* A joined list is its two parts, one behind the other.
LEMMA Joined ==
    ASSUME NEW S, NEW s, NEW t, NEW u, s \in Seq(S), t \in Seq(S), Joins(u, s, t)
    PROVE  u \in Seq(S) /\ Lined(u, s, t)
  BY DEF Joins, Lined

\* A list with one element more.
LEMMA Extended ==
    ASSUME NEW S, NEW s \in Seq(S), NEW e \in S, NEW u, u = s \o <<e>>
    PROVE  /\ u \in Seq(S)
           /\ Len(u) = Len(s) + 1
           /\ \A i \in 1 .. Len(s) : u[i] = s[i]
           /\ u[Len(s) + 1] = e
  OBVIOUS

LEMMA Appended ==
    ASSUME NEW S, NEW s \in Seq(S), NEW e \in S, NEW u, u = Append(s, e)
    PROVE  /\ u \in Seq(S)
           /\ Len(u) = Len(s) + 1
           /\ \A i \in 1 .. Len(s) : u[i] = s[i]
           /\ u[Len(s) + 1] = e
  OBVIOUS

\* The elements of a part of a list.
LEMMA Part ==
    ASSUME NEW S, NEW t \in Seq(S), NEW m \in 1 .. Len(t) + 1, NEW n \in m - 1 .. Len(t)
    PROVE  /\ SubSeq(t, m, n) \in Seq(S)
           /\ Len(SubSeq(t, m, n)) = n - m + 1
           /\ \A i \in 1 .. n - m + 1 : SubSeq(t, m, n)[i] = t[m + i - 1]
  <1>1. Len(t) \in Nat /\ \A i \in 1 .. Len(t) : t[i] \in S
    BY LenProperties
  <1>2. m \in Int /\ n \in Int /\ \A i \in m .. n : t[i] \in S
    BY <1>1
  <1>3. QED
    BY <1>1, <1>2, SubSeqProperties

\* The two sides of a cut.
LEMMA CutFacts ==
    ASSUME NEW S, NEW t \in Seq(S), NEW k \in 1 .. Len(t)
    PROVE  /\ Before(t, k) \in Seq(S) /\ Len(Before(t, k)) = k - 1
           /\ \A i \in 1 .. k - 1 : Before(t, k)[i] = t[i]
           /\ After(t, k) \in Seq(S) /\ Len(After(t, k)) = Len(t) - k
           /\ \A i \in 1 .. Len(t) - k : After(t, k)[i] = t[k + i]
  <1>1. Len(t) \in Nat
    BY LenProperties
  <1>2. /\ SubSeq(t, 1, k - 1) \in Seq(S) /\ Len(SubSeq(t, 1, k - 1)) = k - 1
        /\ \A i \in 1 .. k - 1 : SubSeq(t, 1, k - 1)[i] = t[i]
    <2>1. 1 \in 1 .. Len(t) + 1 /\ k - 1 \in 1 - 1 .. Len(t)
      BY <1>1
    <2>2. QED
      BY <1>1, <2>1, Part
  <1>3. /\ SubSeq(t, k + 1, Len(t)) \in Seq(S) /\ Len(SubSeq(t, k + 1, Len(t))) = Len(t) - k
        /\ \A i \in 1 .. Len(t) - k : SubSeq(t, k + 1, Len(t))[i] = t[k + i]
    <2>1. k + 1 \in 1 .. Len(t) + 1 /\ Len(t) \in (k + 1) - 1 .. Len(t)
      BY <1>1
    <2>2. QED
      BY <1>1, <2>1, Part
  <1>4. QED
    BY <1>2, <1>3 DEF Before, After

\* The two sides and the element between them are the list.
LEMMA RejoinFacts ==
    ASSUME NEW S, NEW t \in Seq(S), NEW k \in 1 .. Len(t)
    PROVE  t = Before(t, k) \o <<t[k]>> \o After(t, k)
  <1> DEFINE a == Before(t, k)
             b == <<t[k]>>
             c == After(t, k)
             ab == a \o b
             abc == ab \o c
  <1>0. Len(t) \in Nat
    BY LenProperties
  <1>1. /\ a \in Seq(S) /\ Len(a) = k - 1
        /\ \A i \in 1 .. k - 1 : a[i] = t[i]
        /\ c \in Seq(S) /\ Len(c) = Len(t) - k
        /\ \A i \in 1 .. Len(t) - k : c[i] = t[k + i]
    BY CutFacts
  <1>2. b \in Seq(S) /\ Len(b) = 1 /\ b[1] = t[k]
    OBVIOUS
  <1> HIDE DEF a, b, c
  <1>a. ab = a \o b /\ abc = ab \o c
    OBVIOUS
  <1> HIDE DEF ab, abc
  <1>3. /\ ab \in Seq(S) /\ Len(ab) = Len(a) + Len(b)
        /\ \A i \in 1 .. Len(a) : ab[i] = a[i]
        /\ \A i \in 1 .. Len(b) : ab[Len(a) + i] = b[i]
    <2>1. a \in Seq(S) /\ b \in Seq(S)
      BY <1>1, <1>2
    <2>2. QED
      BY <2>1, <1>a, Joined DEF Joins, Lined
  <1>4. Len(ab) = k /\ \A i \in 1 .. k : ab[i] = t[i]
    <2>1. ab[k - 1 + 1] = t[k]
      BY <1>1, <1>2, <1>3
    <2>2. QED
      BY <1>1, <1>2, <1>3, <2>1
  <1>5. /\ abc \in Seq(S) /\ Len(abc) = Len(ab) + Len(c)
        /\ \A i \in 1 .. Len(ab) : abc[i] = ab[i]
        /\ \A i \in 1 .. Len(c) : abc[Len(ab) + i] = c[i]
    <2>1. ab \in Seq(S) /\ c \in Seq(S)
      BY <1>1, <1>3
    <2>2. QED
      BY <2>1, <1>a, Joined DEF Joins, Lined
  <1>6. Len(abc) = Len(t)
    BY <1>0, <1>1, <1>4, <1>5
  <1>7. ASSUME NEW i \in 1 .. Len(t) PROVE abc[i] = t[i]
    <2>1. CASE i <= k
      BY <2>1, <1>4, <1>5
    <2>2. CASE i > k
      <3>1. i - k \in 1 .. Len(c) /\ k + (i - k) = i
        BY <2>2, <1>0, <1>1
      <3>2. abc[k + (i - k)] = c[i - k]
        BY <3>1, <1>4, <1>5
      <3>3. QED
        BY <3>1, <3>2, <1>1
    <2>3. QED
      BY <2>1, <2>2, <1>0
  <1>8. t = abc
    BY <1>5, <1>6, <1>7, SeqEqual
  <1>9. QED
    BY <1>8 DEF a, b, c, ab, abc

\* The two sides of a text at a byte.
LEMMA SplitFacts ==
    ASSUME NEW t \in Text, NEW byte
    PROVE  \/ /\ SplitOnce(t, byte) = <<t, <<>>>>
              /\ \A i \in 1 .. Len(t) : t[i] # byte
           \/ \E k \in 1 .. Len(t) :
                 /\ SplitOnce(t, byte) = <<Before(t, k), After(t, k)>>
                 /\ t[k] = byte
                 /\ \A i \in 1 .. k - 1 : t[i] # byte
  <1> DEFINE k == Find(t, byte)
  <1>a. Len(t) \in Nat
    BY DEF Text
  <1>1. /\ k \in 0 .. Len(t) /\ (k # 0 => t[k] = byte)
        /\ \A i \in 1 .. Len(t) : k = 0 \/ i < k => t[i] # byte
    BY <1>a, FindFacts
  <1>2. SplitOnce(t, byte) = IF k = 0 THEN <<t, <<>>>> ELSE <<Before(t, k), After(t, k)>>
    BY DEF SplitOnce
  <1> HIDE DEF k
  <1>3. CASE k = 0
    BY <1>1, <1>2, <1>3
  <1>4. CASE k # 0
    BY <1>a, <1>1, <1>2, <1>4
  <1>5. QED
    BY <1>3, <1>4

-----------------------------------------------------------------------------
(* Recursive functions.                                                     *)

\* What a recursive definition over 0 .. n needs: there is such a function.
Steps(S, b, n, step) == b \in S /\ n \in Nat /\ step \in [1 .. n -> [S -> S]]
Unfolds(f, S, b, n, step) ==
    f \in [0 .. n -> S] /\ f[0] = b /\ \A i \in 1 .. n : f[i] = step[i][f[i - 1]]

\* A function by recursion on its argument exists, by induction on how far.
LEMMA Iterated ==
    ASSUME NEW S, NEW b \in S, NEW n \in Nat, NEW step \in [1 .. n -> [S -> S]]
    PROVE  \E f \in [0 .. n -> S] : f[0] = b /\ \A i \in 1 .. n : f[i] = step[i][f[i - 1]]
  <1> DEFINE Up(f, m) == f[0] = b /\ \A i \in 1 .. m : f[i] = step[i][f[i - 1]]
             Is(m) == \E f \in [0 .. m -> S] : Up(f, m)
             Good == {m \in 0 .. n : Is(m)}
  <1>1. Is(0)
    <2> DEFINE f == [i \in 0 .. 0 |-> b]
    <2>1. f \in [0 .. 0 -> S] /\ f[0] = b
      OBVIOUS
    <2> HIDE DEF f
    <2>2. Up(f, 0)
      BY <2>1
    <2>3. QED
      BY <2>1, <2>2
  <1>2. ASSUME NEW m \in 0 .. n - 1, Is(m) PROVE Is(m + 1)
    <2>1. PICK f \in [0 .. m -> S] : Up(f, m)
      BY <1>2
    <2> DEFINE g == [i \in 0 .. m + 1 |-> IF i <= m THEN f[i] ELSE step[m + 1][f[m]]]
    <2>2. m + 1 \in 1 .. n /\ m \in 0 .. m /\ f[m] \in S
      OBVIOUS
    <2>3. step[m + 1] \in [S -> S]
      BY <2>2
    <2>4. step[m + 1][f[m]] \in S
      BY <2>2, <2>3
    <2>5. g \in [0 .. m + 1 -> S]
      BY <2>4
    <2>6. g[0] = b
      BY <2>1
    <2>7. ASSUME NEW i \in 1 .. m + 1 PROVE g[i] = step[i][g[i - 1]]
      <3>1. CASE i <= m
        <4>1. g[i] = f[i] /\ g[i - 1] = f[i - 1] /\ i \in 1 .. m
          BY <3>1
        <4>2. f[i] = step[i][f[i - 1]]
          BY <2>1, <4>1
        <4>3. QED
          BY <4>1, <4>2
      <3>2. CASE i = m + 1
        <4>1. g[i] = step[m + 1][f[m]] /\ g[m] = f[m] /\ i - 1 = m
          BY <3>2
        <4>2. QED
          BY <4>1, <3>2
      <3>3. QED
        BY <3>1, <3>2
    <2> HIDE DEF g
    <2>8. Up(g, m + 1)
      BY <2>6, <2>7
    <2> HIDE DEF Up
    <2>9. QED
      BY <2>5, <2>8
  <1>3. Is(n)
    <2> HIDE DEF Is
    <2>1. 0 \in Good
      BY <1>1
    <2>2. ASSUME NEW m \in 0 .. n - 1, m \in Good PROVE m + 1 \in Good
      BY <2>2, <1>2
    <2> HIDE DEF Good
    <2>3. 0 .. n \subseteq Good
      BY <2>1, <2>2, Climb
    <2>4. n \in Good
      BY <2>3
    <2>5. QED
      BY <2>4 DEF Good
  <1>4. QED
    BY <1>3

\* The same with what is to be recursive in a predicate, to be cited.
LEMMA Recursion ==
    ASSUME NEW S, NEW b, NEW n, NEW step, Steps(S, b, n, step)
    PROVE  \E f : Unfolds(f, S, b, n, step)
  <1>1. b \in S /\ n \in Nat /\ step \in [1 .. n -> [S -> S]]
    BY DEF Steps
  <1>2. \E f \in [0 .. n -> S] : f[0] = b /\ \A i \in 1 .. n : f[i] = step[i][f[i - 1]]
    BY <1>1, Iterated
  <1>3. QED
    BY <1>2 DEF Unfolds

\* query_all: nothing when no pair has the name, and otherwise a sequence that
\* the last such pair ends.
LEMMA AllFacts ==
    ASSUME NEW S, NEW list \in Seq(S), NEW name
    PROVE  /\ query_all(list, name) \in Seq(S)
           /\ (\A i \in 1 .. Len(list) : list[i].name # name) => query_all(list, name) = <<>>
           /\ \A j \in 1 .. Len(list) :
                 list[j].name = name /\ (\A k \in j + 1 .. Len(list) : list[k].name # name)
                 => /\ query_all(list, name) # <<>>
                    /\ query_all(list, name)[Len(query_all(list, name))] = list[j]
  <1> DEFINE n == Len(list)
             piece(i) == IF list[i].name = name THEN <<list[i]>> ELSE <<>>
             Made(f) == [i \in 0 .. n |-> IF i = 0 THEN <<>> ELSE f[i - 1] \o piece(i)]
             F == CHOOSE f : f = Made(f)
  <1>1. n \in Nat /\ \A i \in 1 .. n : list[i] \in S
    BY LenProperties
  <1>2. query_all(list, name) = F[n]
    BY DEF query_all
  <1>3. ASSUME NEW i \in 1 .. n PROVE piece(i) \in Seq(S)
    BY <1>1
  <1>4. \E f \in [0 .. n -> Seq(S)] : f = Made(f)
    <2> DEFINE step == [i \in 1 .. n |-> [acc \in Seq(S) |-> acc \o piece(i)]]
    <2>1. step \in [1 .. n -> [Seq(S) -> Seq(S)]]
      <3>1. ASSUME NEW i \in 1 .. n, NEW acc \in Seq(S) PROVE acc \o piece(i) \in Seq(S)
        BY <1>3
      <3>2. QED
        BY <3>1
    <2>2. <<>> \in Seq(S)
      OBVIOUS
    <2>3. PICK f \in [0 .. n -> Seq(S)] : f[0] = <<>> /\ \A i \in 1 .. n : f[i] = step[i][f[i - 1]]
      <3>1. Steps(Seq(S), <<>>, n, step)
        BY <1>1, <2>1, <2>2 DEF Steps
      <3>2. \E f : Unfolds(f, Seq(S), <<>>, n, step)
        BY <3>1, Recursion
      <3> HIDE DEF step
      <3>3. QED
        BY <3>2 DEF Unfolds
    <2>4. ASSUME NEW i \in 1 .. n PROVE f[i] = f[i - 1] \o piece(i)
      <3>1. f[i - 1] \in Seq(S)
        BY <1>1
      <3>2. QED
        BY <2>3, <3>1
    <2>5. f = Made(f)
      <3> HIDE DEF piece
      <3>1. QED
        BY <2>3, <2>4
    <2>6. QED
      BY <2>5
  <1>5. F = Made(F)
    <2> HIDE DEF Made
    <2>1. QED
      BY <1>4
  <1> HIDE DEF F
  <1>6. F[0] = <<>> /\ \A i \in 1 .. n : F[i] = F[i - 1] \o piece(i)
    <2> HIDE DEF piece, n
    <2>1. F[0] = <<>>
      BY <1>1, <1>5
    <2>2. ASSUME NEW i \in 1 .. n PROVE F[i] = F[i - 1] \o piece(i)
      <3>1. i \in 0 .. n /\ i # 0
        BY <1>1
      <3>2. F[i] = IF i = 0 THEN <<>> ELSE F[i - 1] \o piece(i)
        BY <1>5, <3>1, Zenon
      <3>3. QED
        BY <3>1, <3>2, Zenon
    <2>3. QED
      BY <2>1, <2>2
  <1> DEFINE Good(m) ==
                /\ F[m] \in Seq(S)
                /\ (\A i \in 1 .. m : list[i].name # name) => F[m] = <<>>
                /\ \A j \in 1 .. m :
                      list[j].name = name /\ (\A k \in j + 1 .. m : list[k].name # name)
                      => F[m] # <<>> /\ F[m][Len(F[m])] = list[j]
             G == {m \in 0 .. n : Good(m)}
  <1>7. Good(0)
    BY <1>1, <1>6
  <1>8. ASSUME NEW m \in 0 .. n - 1, Good(m) PROVE Good(m + 1)
    <2>1. /\ m + 1 \in 1 .. n /\ Good(m) /\ F[m + 1] = F[m] \o piece(m + 1)
          /\ list[m + 1] \in S
      <3>1. m + 1 \in 1 .. n /\ (m + 1) - 1 = m
        BY <1>1
      <3>2. QED
        BY <1>1, <1>6, <1>8, <3>1
    <2>2. CASE list[m + 1].name = name
      <3>1. F[m + 1] = F[m] \o <<list[m + 1]>>
        BY <2>1, <2>2
      <3>2. F[m] \in Seq(S)
        BY <2>1
      <3>3. /\ F[m + 1] \in Seq(S) /\ Len(F[m + 1]) = Len(F[m]) + 1
            /\ F[m + 1][Len(F[m]) + 1] = list[m + 1]
        <4>1. list[m + 1] \in S
          BY <2>1
        <4>2. QED
          BY <3>1, <3>2, <4>1, Extended
      <3>4. F[m + 1] # <<>> /\ F[m + 1][Len(F[m + 1])] = list[m + 1]
        BY <3>2, <3>3
      <3>5. ASSUME NEW j \in 1 .. m + 1,
                   \A k \in j + 1 .. m + 1 : list[k].name # name
            PROVE  j = m + 1
        <4>1. m + 1 \notin j + 1 .. m + 1
          BY <2>2, <3>5
        <4>2. QED
          BY <4>1
      <3>6. QED
        BY <2>2, <3>3, <3>4, <3>5
    <2>3. CASE list[m + 1].name # name
      <3>1. F[m] \in Seq(S)
        BY <2>1
      <3>2. F[m + 1] = F[m] \o <<>>
        BY <2>1, <2>3
      <3>3. F[m + 1] = F[m]
        BY <3>1, <3>2
      <3>4. ASSUME NEW j \in 1 .. m + 1, list[j].name = name,
                   \A k \in j + 1 .. m + 1 : list[k].name # name
            PROVE  F[m] # <<>> /\ F[m][Len(F[m])] = list[j]
        <4>1. j # m + 1
          BY <2>3, <3>4
        <4>2. j \in 1 .. m /\ \A k \in j + 1 .. m : list[k].name # name
          BY <3>4, <4>1
        <4>3. QED
          BY <2>1, <3>4, <4>2
      <3>5. (\A i \in 1 .. m + 1 : list[i].name # name) => F[m] = <<>>
        BY <2>1
      <3>6. QED
        BY <3>1, <3>3, <3>4, <3>5
    <2>4. QED
      BY <2>2, <2>3
  <1>9. Good(n)
    <2> HIDE DEF Good, n
    <2>1. 0 \in G
      BY <1>1, <1>7
    <2>2. ASSUME NEW m \in 0 .. n - 1, m \in G PROVE m + 1 \in G
      BY <1>1, <2>2, <1>8
    <2>a. n \in Nat
      BY <1>1
    <2> HIDE DEF G
    <2>3. 0 .. n \subseteq G
      BY <2>1, <2>2, <2>a, Climb
    <2>4. n \in G
      BY <2>3, <2>a
    <2>5. QED
      BY <2>4 DEF G
  <1>10. QED
    BY <1>2, <1>9

\* The digits that ParseNumber reads.
Unsigned(t) == IF t # <<>> /\ Head(t) = Plus THEN Tail(t) ELSE t

-----------------------------------------------------------------------------
(* The query accessors.                                                     *)

\* A number without its sign, in str::parse.
LEMMA UnsignedFacts ==
    ASSUME NEW t \in Text
    PROVE  /\ Unsigned(t) \in Text
           /\ \/ /\ Unsigned(t) = t /\ (Len(t) = 0 \/ t[1] # Plus)
              \/ /\ Len(t) >= 1 /\ t[1] = Plus /\ Len(Unsigned(t)) = Len(t) - 1
                 /\ \A i \in 1 .. Len(t) - 1 : Unsigned(t)[i] = t[1 + i]
  <1>1. CASE t = <<>>
    BY <1>1 DEF Unsigned
  <1>2. CASE t # <<>> /\ Head(t) = Plus
    <2>1. /\ Tail(t) \in Text /\ Len(Tail(t)) = Len(t) - 1
          /\ \A i \in 1 .. Len(t) - 1 : Tail(t)[i] = t[i + 1]
      BY <1>2, HeadTailProperties DEF Text
    <2>2. Len(t) >= 1 /\ t[1] = Plus
      BY <1>2 DEF Text
    <2>3. \A i \in 1 .. Len(t) - 1 : Tail(t)[i] = t[1 + i]
      BY <2>1, <2>2
    <2>4. QED
      BY <1>2, <2>1, <2>2, <2>3 DEF Unsigned
  <1>3. CASE t # <<>> /\ Head(t) # Plus
    <2>1. t[1] # Plus
      BY <1>3 DEF Text
    <2>2. QED
      BY <1>3, <2>1 DEF Unsigned
  <1>4. QED
    BY <1>1, <1>2, <1>3

\* A text reads as zero when it is a sign or none and zeros.
LEMMA ZeroFacts ==
    ASSUME NEW t \in Text, NEW max \in Nat
    PROVE  ParseNumber(t, max) = 0 <=>
              /\ Unsigned(t) # <<>>
              /\ \A i \in 1 .. Len(Unsigned(t)) : Unsigned(t)[i] = 48
  <1> DEFINE d == Unsigned(t)
             n == Len(d)
             Made(f) == [i \in 0 .. n |-> IF i = 0 THEN 0 ELSE 10 * f[i - 1] + d[i] - 48]
             F == CHOOSE f : f = Made(f)
  <1>1. d \in Text /\ n \in Nat /\ \A i \in 1 .. n : d[i] \in Int
    <2>1. d \in Text
      BY UnsignedFacts
    <2>2. d \in Seq(0 .. 255)
      BY <2>1 DEF Text, Byte
    <2> HIDE DEF d
    <2>3. n \in Nat /\ \A i \in 1 .. n : d[i] \in 0 .. 255
      BY <2>2, LenProperties
    <2>4. ASSUME NEW i \in 1 .. n PROVE d[i] \in Int
      <3>1. \A b \in 0 .. 255 : b \in Int
        OBVIOUS
      <3> HIDE DEF n
      <3>2. d[i] \in 0 .. 255
        BY <2>3, Zenon
      <3>3. QED
        BY <3>1, <3>2, Zenon
    <2> HIDE DEF n
    <2>5. QED
      BY <2>1, <2>3, <2>4
  <1>2. ParseNumber(t, max) =
          IF d # <<>> /\ ToSet(d) \subseteq 48 .. 57 /\ F[n] <= max THEN F[n] ELSE NaN
    BY DEF ParseNumber, Unsigned
  <1>3. ToSet(d) \subseteq 48 .. 57 <=> \A i \in 1 .. n : d[i] \in 48 .. 57
    <2>1. DOMAIN d = 1 .. n
      BY <1>1 DEF Text
    <2>2. ToSet(d) = {d[i] : i \in 1 .. n}
      BY <2>1 DEF ToSet
    <2> HIDE DEF d, n
    <2>3. QED
      BY <2>2
  <1>a. d = Unsigned(t) /\ n = Len(d)
    OBVIOUS
  <1> HIDE DEF d, n
  <1>4. \E f \in [0 .. n -> Int] : f = Made(f)
    <2> DEFINE step == [i \in 1 .. n |-> [acc \in Int |-> 10 * acc + d[i] - 48]]
    <2>1. step \in [1 .. n -> [Int -> Int]]
      BY <1>1
    <2>2. PICK f \in [0 .. n -> Int] : f[0] = 0 /\ \A i \in 1 .. n : f[i] = step[i][f[i - 1]]
      <3>1. Steps(Int, 0, n, step)
        BY <1>1, <2>1 DEF Steps
      <3>2. \E f : Unfolds(f, Int, 0, n, step)
        BY <3>1, Recursion
      <3> HIDE DEF step
      <3>3. QED
        BY <3>2 DEF Unfolds
    <2>3. ASSUME NEW i \in 1 .. n PROVE f[i] = 10 * f[i - 1] + d[i] - 48
      <3>1. f[i - 1] \in Int
        BY <1>1
      <3>2. QED
        BY <2>2, <3>1
    <2>4. f = Made(f)
      BY <2>2, <2>3
    <2>5. QED
      BY <2>4
  <1>5. F = Made(F)
    <2> HIDE DEF Made
    <2>1. QED
      BY <1>4
  <1> HIDE DEF F
  <1>6. F[0] = 0
    BY <1>1, <1>5
  <1>7. ASSUME NEW i \in 1 .. n PROVE F[i] = 10 * F[i - 1] + d[i] - 48
    BY <1>1, <1>5
  <1>8. CASE \A i \in 1 .. n : d[i] \in 48 .. 57
    <2> DEFINE Is(m) == F[m] \in Nat /\ (F[m] = 0 <=> \A i \in 1 .. m : d[i] = 48)
               G == {m \in 0 .. n : Is(m)}
    <2>1. Is(0)
      BY <1>6
    <2>2. ASSUME NEW m \in 0 .. n - 1, Is(m) PROVE Is(m + 1)
      <3>1. m + 1 \in 1 .. n /\ (m + 1) - 1 = m
        BY <1>1
      <3>2. F[m + 1] = 10 * F[m] + d[m + 1] - 48 /\ d[m + 1] \in 48 .. 57
        BY <3>1, <1>7, <1>8
      <3>3. F[m + 1] \in Nat
        BY <3>2, <2>2
      <3>4. F[m + 1] = 0 <=> F[m] = 0 /\ d[m + 1] = 48
        BY <3>2, <2>2
      <3>5. (\A i \in 1 .. m + 1 : d[i] = 48) <=> (\A i \in 1 .. m : d[i] = 48) /\ d[m + 1] = 48
        OBVIOUS
      <3>6. QED
        BY <3>3, <3>4, <3>5, <2>2
    <2>3. Is(n)
      <3> HIDE DEF Is
      <3>1. 0 \in G
        BY <1>1, <2>1
      <3>2. ASSUME NEW m \in 0 .. n - 1, m \in G PROVE m + 1 \in G
        BY <1>1, <3>2, <2>2
      <3>3. n \in Nat
        BY <1>1
      <3> HIDE DEF G
      <3>4. 0 .. n \subseteq G
        BY <3>1, <3>2, <3>3, Climb
      <3>5. n \in G
        BY <3>3, <3>4
      <3>6. QED
        BY <3>5 DEF G
    <2>4. ParseNumber(t, max) = 0 <=> d # <<>> /\ F[n] = 0
      <3>1. ParseNumber(t, max) = IF d # <<>> /\ F[n] <= max THEN F[n] ELSE -1
        BY <1>2, <1>3, <1>8 DEF NaN
      <3>2. F[n] \in Nat
        BY <2>3
      <3>3. QED
        BY <3>1, <3>2
    <2>5. QED
      BY <1>a, <2>3, <2>4
  <1>9. CASE ~ \A i \in 1 .. n : d[i] \in 48 .. 57
    <2>1. ParseNumber(t, max) = -1
      BY <1>2, <1>3, <1>9 DEF NaN
    <2>2. ~ \A i \in 1 .. n : d[i] = 48
      BY <1>9
    <2>3. QED
      BY <1>a, <2>1, <2>2
  <1>10. QED
    BY <1>8, <1>9

\* "name[0]", position by position: s signs and n zeros between the brackets.
IndexedAs(q, name, s, n) ==
    /\ s \in 0 .. 1 /\ n \in 1 .. Len(q) /\ Len(q) = Len(name) + 2 + s + n
    /\ \A i \in 1 .. Len(name) : q[i] = name[i]
    /\ q[Len(name) + 1] = Open
    /\ s = 1 => q[Len(name) + 2] = Plus
    /\ \A i \in 1 .. n : q[Len(name) + 1 + s + i] = 48
    /\ q[Len(name) + 2 + s + n] = Close

BuiltAs(q, name, sign, n) ==
    /\ q \in Text
    /\ Len(q) = Len(name) + 2 + Len(sign) + n
    /\ \A i \in 1 .. Len(name) : q[i] = name[i]
    /\ q[Len(name) + 1] = Open
    /\ sign # <<>> => q[Len(name) + 2] = Plus
    /\ \A i \in 1 .. n : q[Len(name) + 1 + Len(sign) + i] = 48
    /\ q[Len(name) + 2 + Len(sign) + n] = Close

\* Joined for texts.
LEMMA JoinedText ==
    ASSUME NEW s, NEW t, NEW u, s \in Text, t \in Text, Joins(u, s, t)
    PROVE  u \in Text /\ Lined(u, s, t)
  BY Joined DEF Text

\* A name with an index, joined from its parts, position by position.
LEMMA FirstIndexFacts ==
    ASSUME NEW name \in Text, NEW sign \in {<<>>, <<Plus>>}, NEW n \in Nat \ {0},
           NEW open, open = <<Open>>, NEW close, close = <<Close>>,
           NEW zeros, zeros = [i \in 1 .. n |-> 48], NEW a, NEW b, NEW c, NEW q,
           Joins(a, name, open), Joins(b, a, sign), Joins(c, b, zeros), Joins(q, c, close)
    PROVE  BuiltAs(q, name, sign, n)
  <1> DEFINE L == Len(name)
  <1>0. L \in Nat
    BY DEF Text
  <1>1. zeros \in Text /\ Len(zeros) = n /\ \A i \in 1 .. n : zeros[i] = 48
    BY DEF Text, Byte
  <1>2. /\ sign \in Text /\ Len(sign) \in {0, 1}
        /\ sign # <<>> => Len(sign) = 1 /\ sign[1] = Plus
    <2>1. CASE sign = <<>>
      BY <2>1 DEF Text
    <2>2. CASE sign = <<Plus>>
      BY <2>2 DEF Text, Byte, Plus
    <2>3. QED
      BY <2>1, <2>2
  <1>3. /\ open \in Text /\ Len(open) = 1 /\ open[1] = Open
        /\ close \in Text /\ Len(close) = 1 /\ close[1] = Close
    BY DEF Text, Byte, Open, Close
  <1>4. a \in Text /\ Lined(a, name, open)
    BY <1>3, JoinedText
  <1>5. b \in Text /\ Lined(b, a, sign)
    BY <1>2, <1>4, JoinedText
  <1>6. c \in Text /\ Lined(c, b, zeros)
    BY <1>1, <1>5, JoinedText
  <1>7. q \in Text /\ Lined(q, c, close)
    BY <1>3, <1>6, JoinedText
  <1>8. Len(a) = L + 1 /\ Len(b) = L + 1 + Len(sign) /\ Len(c) = L + 1 + Len(sign) + n
    BY <1>1, <1>3, <1>4, <1>5, <1>6 DEF Lined
  <1>9. Len(q) = L + 2 + Len(sign) + n
    BY <1>0, <1>2, <1>3, <1>7, <1>8 DEF Lined
  <1>10. /\ \A i \in 1 .. L : a[i] = name[i]
         /\ a[L + 1] = Open
    BY <1>0, <1>3, <1>4 DEF Lined
  <1>11. ASSUME NEW i \in 1 .. L + 1 PROVE q[i] = a[i]
    <2>1. i \in 1 .. Len(a) /\ i \in 1 .. Len(b) /\ i \in 1 .. Len(c)
      BY <1>0, <1>2, <1>8
    <2>2. q[i] = c[i] /\ c[i] = b[i] /\ b[i] = a[i]
      BY <2>1, <1>5, <1>6, <1>7 DEF Lined
    <2>3. QED
      BY <2>2
  <1>12. \A i \in 1 .. L : q[i] = name[i]
    <2>1. ASSUME NEW i \in 1 .. L PROVE q[i] = name[i]
      <3>1. i \in 1 .. L + 1
        BY <1>0
      <3>2. QED
        BY <3>1, <1>10, <1>11
    <2>2. QED
      BY <2>1
  <1>13. q[L + 1] = Open
    <2>1. L + 1 \in 1 .. L + 1
      BY <1>0
    <2>2. QED
      BY <2>1, <1>10, <1>11
  <1>14. ASSUME sign # <<>> PROVE q[L + 2] = Plus
    <2>1. 1 \in 1 .. Len(sign) /\ Len(a) + 1 = L + 2
      BY <1>0, <1>2, <1>8, <1>14
    <2>2. b[L + 2] = sign[1]
      BY <2>1, <1>5 DEF Lined
    <2>3. L + 2 \in 1 .. Len(b) /\ L + 2 \in 1 .. Len(c)
      BY <1>0, <1>2, <1>8, <1>14
    <2>4. q[L + 2] = c[L + 2] /\ c[L + 2] = b[L + 2]
      BY <2>3, <1>6, <1>7 DEF Lined
    <2>5. QED
      BY <2>2, <2>4, <1>2, <1>14
  <1>15. ASSUME NEW i \in 1 .. n PROVE q[L + 1 + Len(sign) + i] = 48
    <2>1. L + 1 + Len(sign) + i \in 1 .. Len(c) /\ i \in 1 .. Len(zeros)
      BY <1>0, <1>1, <1>2, <1>8
    <2>2. q[L + 1 + Len(sign) + i] = c[L + 1 + Len(sign) + i]
      BY <2>1, <1>7 DEF Lined
    <2>3. c[L + 1 + Len(sign) + i] = zeros[i]
      BY <2>1, <1>6, <1>8 DEF Lined
    <2>4. QED
      BY <2>2, <2>3, <1>1
  <1>16. q[L + 2 + Len(sign) + n] = Close
    <2>1. 1 \in 1 .. Len(close) /\ Len(c) + 1 = L + 2 + Len(sign) + n
      BY <1>0, <1>2, <1>3, <1>8
    <2>2. QED
      BY <2>1, <1>3, <1>7 DEF Lined
  <1>17. QED
    BY <1>7, <1>9, <1>12, <1>13, <1>14, <1>15, <1>16 DEF BuiltAs

\* The name as the bytes of its parts is the name position by position.
LEMMA NamesFirstMeans ==
    ASSUME NEW q \in Text, NEW name \in Text
    PROVE  NamesFirst(q, name) <=> \E s, n \in Nat : IndexedAs(q, name, s, n)
  <1>0. Len(q) \in Nat /\ Len(name) \in Nat /\ DOMAIN q = 1 .. Len(q)
    BY DEF Text
  <1>1. ASSUME NEW sign \in {<<>>, <<Plus>>}, NEW n \in Nat \ {0}
        PROVE  BuiltAs(name \o <<Open>> \o sign \o [i \in 1 .. n |-> 48] \o <<Close>>,
                       name, sign, n)
    <2> DEFINE open == <<Open>>
               close == <<Close>>
               zeros == [i \in 1 .. n |-> 48]
               a == name \o open
               b == a \o sign
               c == b \o zeros
               u == c \o close
    <2>1. Joins(a, name, open) /\ Joins(b, a, sign) /\ Joins(c, b, zeros) /\ Joins(u, c, close)
      BY DEF Joins
    <2>2. open = <<Open>> /\ close = <<Close>> /\ zeros = [i \in 1 .. n |-> 48]
      OBVIOUS
    <2>a. u = name \o <<Open>> \o sign \o [i \in 1 .. n |-> 48] \o <<Close>>
      OBVIOUS
    <2> HIDE DEF open, close, zeros, a, b, c, u
    <2>3. BuiltAs(u, name, sign, n)
      BY <2>1, <2>2, FirstIndexFacts
    <2>4. QED
      BY <2>3, <2>a
  <1>2. ASSUME NamesFirst(q, name) PROVE \E s, n \in Nat : IndexedAs(q, name, s, n)
    <2>1. PICK sign \in {<<>>, <<Plus>>}, n \in DOMAIN q :
            q = name \o <<Open>> \o sign \o [i \in 1 .. n |-> 48] \o <<Close>>
      BY <1>2 DEF NamesFirst
    <2>2. n \in Nat \ {0} /\ n \in 1 .. Len(q)
      BY <1>0
    <2> DEFINE u == name \o <<Open>> \o sign \o [i \in 1 .. n |-> 48] \o <<Close>>
    <2>3. BuiltAs(u, name, sign, n)
      BY <1>1, <2>2
    <2>4. q = u
      BY <2>1
    <2>5. Len(sign) \in 0 .. 1 /\ Len(sign) \in Nat /\ (Len(sign) = 1 => sign # <<>>)
      OBVIOUS
    <2> HIDE DEF u
    <2>6. IndexedAs(q, name, Len(sign), n)
      BY <2>2, <2>3, <2>4, <2>5 DEF IndexedAs, BuiltAs
    <2>7. QED
      BY <2>2, <2>5, <2>6
  <1>3. ASSUME NEW s \in Nat, NEW n \in Nat, IndexedAs(q, name, s, n)
        PROVE  NamesFirst(q, name)
    <2> DEFINE sign == IF s = 0 THEN <<>> ELSE <<Plus>>
               u == name \o <<Open>> \o sign \o [i \in 1 .. n |-> 48] \o <<Close>>
    <2>1. sign \in {<<>>, <<Plus>>} /\ Len(sign) = s /\ n \in Nat \ {0} /\ n \in DOMAIN q
      <3>1. s \in 0 .. 1 /\ n \in 1 .. Len(q)
        BY <1>3 DEF IndexedAs
      <3>2. CASE s = 0
        BY <3>1, <3>2, <1>0
      <3>3. CASE s = 1
        BY <3>1, <3>3, <1>0
      <3>4. QED
        BY <3>1, <3>2, <3>3
    <2>a. s = 1 => sign # <<>>
      OBVIOUS
    <2> HIDE DEF sign
    <2>2. BuiltAs(u, name, sign, n)
      BY <1>1, <2>1
    <2>b. u = name \o <<Open>> \o sign \o [i \in 1 .. n |-> 48] \o <<Close>>
      OBVIOUS
    <2> HIDE DEF u
    <2>3. Len(q) = Len(u) /\ Len(q) = Len(name) + 2 + s + n
      BY <1>3, <2>1, <2>2 DEF IndexedAs, BuiltAs
    <2>4. ASSUME NEW i \in 1 .. Len(q) PROVE q[i] = u[i]
      <3>0. s \in 0 .. 1
        BY <1>3 DEF IndexedAs
      <3>1. CASE i \in 1 .. Len(name)
        BY <3>1, <1>3, <2>2 DEF IndexedAs, BuiltAs
      <3>2. CASE i = Len(name) + 1
        BY <3>2, <1>3, <2>2 DEF IndexedAs, BuiltAs
      <3>3. CASE i = Len(name) + 2 /\ s = 1
        BY <3>3, <1>3, <2>2, <2>a DEF IndexedAs, BuiltAs
      <3>4. CASE i - (Len(name) + 1 + s) \in 1 .. n
        <4> DEFINE k == i - (Len(name) + 1 + s)
        <4>1. k \in 1 .. n /\ i = Len(name) + 1 + s + k
          BY <3>4, <1>0
        <4> HIDE DEF k
        <4>2. q[Len(name) + 1 + s + k] = 48
          BY <4>1, <1>3 DEF IndexedAs
        <4>3. u[Len(name) + 1 + s + k] = 48
          BY <4>1, <2>1, <2>2 DEF BuiltAs
        <4>4. QED
          BY <4>1, <4>2, <4>3
      <3>5. CASE i = Len(name) + 2 + s + n
        BY <3>5, <1>3, <2>1, <2>2 DEF IndexedAs, BuiltAs
      <3>6. \/ i \in 1 .. Len(name)
            \/ i = Len(name) + 1
            \/ i = Len(name) + 2 /\ s = 1
            \/ i - (Len(name) + 1 + s) \in 1 .. n
            \/ i = Len(name) + 2 + s + n
        BY <1>0, <2>3, <3>0
      <3>7. QED
        BY <3>1, <3>2, <3>3, <3>4, <3>5, <3>6
    <2>5. q = u
      <3>1. q \in Seq(Byte) /\ u \in Seq(Byte)
        BY <2>2 DEF Text, BuiltAs
      <3>2. QED
        BY <3>1, <2>3, <2>4, SeqEqual
    <2>6. QED
      BY <2>1, <2>5, <2>b DEF NamesFirst
  <1>4. QED
    BY <1>2, <1>3

\* strip_prefix, position by position.
LEMMA PrefixMeans ==
    ASSUME NEW q \in Text, NEW name \in Text
    PROVE  IsPrefix(name, q) <=>
              Len(name) <= Len(q) /\ \A i \in 1 .. Len(name) : q[i] = name[i]
  <1>1. Len(q) \in Nat /\ Len(name) \in Nat /\ q \in Seq(Byte) /\ name \in Seq(Byte)
    BY DEF Text
  <1>2. SubSeq(name, 1, Len(name)) = name
    BY <1>1, SubSeqFull
  <1>3. CASE Len(name) <= Len(q)
    <2> DEFINE u == SubSeq(q, 1, Len(name))
    <2>1. /\ u \in Seq(Byte) /\ Len(u) = Len(name)
          /\ \A i \in 1 .. Len(name) : u[i] = q[i]
      <3>1. 1 \in 1 .. Len(q) + 1 /\ Len(name) \in 1 - 1 .. Len(q)
        BY <1>1, <1>3
      <3>2. QED
        BY <1>1, <3>1, Part
    <2> HIDE DEF u
    <2>2. u = name <=> \A i \in 1 .. Len(name) : q[i] = name[i]
      <3>1. ASSUME \A i \in 1 .. Len(name) : q[i] = name[i] PROVE u = name
        <4>1. Len(u) = Len(name) /\ \A i \in 1 .. Len(u) : u[i] = name[i]
          BY <2>1, <3>1
        <4>2. QED
          BY <1>1, <2>1, <4>1, SeqEqual
      <3>2. ASSUME u = name PROVE \A i \in 1 .. Len(name) : q[i] = name[i]
        BY <2>1, <3>2
      <3>3. QED
        BY <3>1, <3>2
    <2>3. IsPrefix(name, q) <=> name = u
      BY <1>2, <1>3 DEF IsPrefix, u
    <2>4. QED
      BY <1>3, <2>2, <2>3
  <1>4. CASE ~(Len(name) <= Len(q))
    BY <1>4 DEF IsPrefix
  <1>5. QED
    BY <1>3, <1>4

\* What stands between the brackets.
Index(q, name) ==
    LET rest == SubSeq(q, Len(name) + 1, Len(q))
    IN  SubSeq(rest, 2, Len(rest) - 1)

\* What query_name_matches_index cuts out of a name.
LEMMA IndexFacts ==
    ASSUME NEW q \in Text, NEW name \in Text, Len(name) + 2 <= Len(q)
    PROVE  LET rest == SubSeq(q, Len(name) + 1, Len(q))
           IN  /\ Len(rest) = Len(q) - Len(name)
               /\ Head(rest) = q[Len(name) + 1] /\ Last(rest) = q[Len(q)]
               /\ Index(q, name) \in Text
               /\ Len(Index(q, name)) = Len(q) - Len(name) - 2
               /\ \A i \in 1 .. Len(q) - Len(name) - 2 : Index(q, name)[i] = q[Len(name) + 1 + i]
  <1> DEFINE L == Len(name)
             rest == SubSeq(q, L + 1, Len(q))
             mid == SubSeq(rest, 2, Len(rest) - 1)
  <1>1. Len(q) \in Nat /\ L \in Nat /\ q \in Seq(Byte)
    BY DEF Text
  <1>2. /\ rest \in Seq(Byte) /\ Len(rest) = Len(q) - L
        /\ \A i \in 1 .. Len(q) - L : rest[i] = q[L + i]
    <2>1. L + 1 \in 1 .. Len(q) + 1 /\ Len(q) \in (L + 1) - 1 .. Len(q)
      BY <1>1
    <2>2. /\ rest \in Seq(Byte) /\ Len(rest) = Len(q) - (L + 1) + 1
          /\ \A i \in 1 .. Len(q) - (L + 1) + 1 : rest[i] = q[L + 1 + i - 1]
      <3> HIDE DEF L
      <3>1. QED
        BY <1>1, <2>1, Part
    <2>3. Len(q) - (L + 1) + 1 = Len(q) - L
      BY <1>1
    <2>4. \A i \in 1 .. Len(q) - L : L + 1 + i - 1 = L + i
      BY <1>1
    <2> HIDE DEF L, rest
    <2>5. QED
      BY <2>2, <2>3, <2>4
  <1>a. mid = SubSeq(rest, 2, Len(rest) - 1)
    OBVIOUS
  <1> HIDE DEF rest
  <1>3. /\ mid \in Seq(Byte) /\ Len(mid) = Len(q) - L - 2
        /\ \A i \in 1 .. Len(q) - L - 2 : mid[i] = rest[1 + i]
    <2>1. 2 \in 1 .. Len(rest) + 1 /\ Len(rest) - 1 \in 2 - 1 .. Len(rest)
      BY <1>1, <1>2
    <2>2. /\ mid \in Seq(Byte) /\ Len(mid) = Len(rest) - 1 - 2 + 1
          /\ \A i \in 1 .. Len(rest) - 1 - 2 + 1 : mid[i] = rest[2 + i - 1]
      BY <1>2, <2>1, Part
    <2>3. Len(rest) - 1 - 2 + 1 = Len(q) - L - 2
      BY <1>1, <1>2
    <2> HIDE DEF L, mid
    <2>4. ASSUME NEW i \in 1 .. Len(q) - L - 2 PROVE mid[i] = rest[1 + i]
      <3>1. i \in 1 .. Len(rest) - 1 - 2 + 1 /\ 2 + i - 1 = 1 + i
        BY <2>3
      <3>2. QED
        BY <2>2, <3>1
    <2>5. QED
      BY <2>2, <2>3, <2>4
  <1> HIDE DEF mid
  <1>4. ASSUME NEW i \in 1 .. Len(q) - L - 2 PROVE mid[i] = q[L + 1 + i]
    <2>1. 1 + i \in 1 .. Len(q) - L /\ L + (1 + i) = L + 1 + i
      BY <1>1
    <2>2. rest[1 + i] = q[L + (1 + i)]
      BY <1>2, <2>1
    <2>3. QED
      BY <1>3, <2>1, <2>2
  <1>5. Head(rest) = q[L + 1] /\ Last(rest) = q[Len(q)]
    <2>1. Head(rest) = rest[1] /\ Last(rest) = rest[Len(q) - L]
      BY <1>1, <1>2 DEF Last
    <2>2. 1 \in 1 .. Len(q) - L /\ Len(q) - L \in 1 .. Len(q) - L /\ L + (Len(q) - L) = Len(q)
      BY <1>1
    <2>3. QED
      BY <1>2, <2>1, <2>2
  <1>6. Index(q, name) = mid
    BY DEF Index, mid, rest
  <1>7. QED
    BY <1>2, <1>3, <1>4, <1>5, <1>6 DEF rest, Text

\* query_name_matches_index finds the name whatever the spelling of the zero.
LEMMA MatchesFirst ==
    ASSUME NEW q \in Text, NEW name \in Text
    PROVE  query_name_matches_index(q, name, 0) <=> NamesFirst(q, name)
  <1> DEFINE L == Len(name)
             mid == Index(q, name)
             d == Unsigned(mid)
  <1>1. Len(q) \in Nat /\ L \in Nat
    BY DEF Text
  <1>2. CASE L + 2 <= Len(q)
    <2> DEFINE rest == SubSeq(q, L + 1, Len(q))
    <2>1. /\ Len(rest) = Len(q) - L
          /\ Head(rest) = q[L + 1] /\ Last(rest) = q[Len(q)]
          /\ mid \in Text /\ Len(mid) = Len(q) - L - 2
          /\ \A i \in 1 .. Len(q) - L - 2 : mid[i] = q[L + 1 + i]
      BY <1>2, IndexFacts
    <2>2. query_name_matches_index(q, name, 0) <=>
            /\ \A i \in 1 .. L : q[i] = name[i]
            /\ q[L + 1] = Open /\ q[Len(q)] = Close
            /\ ParseNumber(mid, MaxIndex) = 0
      <3>1. mid = SubSeq(rest, 2, Len(rest) - 1)
        BY DEF Index
      <3>2. IsPrefix(name, q) <=> \A i \in 1 .. L : q[i] = name[i]
        BY <1>1, <1>2, PrefixMeans
      <3>3. Len(rest) >= 2
        BY <1>1, <1>2, <2>1
      <3>4. query_name_matches_index(q, name, 0) <=>
              /\ IsPrefix(name, q)
              /\ Len(rest) >= 2 /\ Head(rest) = Open /\ Last(rest) = Close
              /\ ParseNumber(mid, MaxIndex) = 0
        BY <3>1 DEF query_name_matches_index
      <3> HIDE DEF L, mid, rest
      <3>5. QED
        BY <2>1, <3>2, <3>3, <3>4
    <2>3. ParseNumber(mid, MaxIndex) = 0 <=> d # <<>> /\ \A i \in 1 .. Len(d) : d[i] = 48
      BY <2>1, ZeroFacts DEF MaxIndex
    <2>4. /\ d \in Text
          /\ \/ /\ d = mid /\ (Len(mid) = 0 \/ mid[1] # Plus)
             \/ /\ Len(mid) >= 1 /\ mid[1] = Plus /\ Len(d) = Len(mid) - 1
                /\ \A i \in 1 .. Len(mid) - 1 : d[i] = mid[1 + i]
      BY <2>1, UnsignedFacts
    <2>5. Len(d) \in Nat /\ (d # <<>> <=> Len(d) >= 1)
      BY <2>4 DEF Text
    <2> HIDE DEF mid, d, L, rest
    <2>6. ASSUME query_name_matches_index(q, name, 0) PROVE NamesFirst(q, name)
      <3>1. /\ \A i \in 1 .. L : q[i] = name[i]
            /\ q[L + 1] = Open /\ q[Len(q)] = Close
            /\ Len(d) >= 1 /\ \A i \in 1 .. Len(d) : d[i] = 48
        BY <2>2, <2>3, <2>5, <2>6
      <3>2. CASE d = mid
        <4>1. Len(q) = L + 2 + 0 + Len(d)
          <5>1. Len(d) = Len(q) - L - 2
            BY <2>1, <3>2
          <5>2. QED
            BY <1>1, <5>1
        <4>2. ASSUME NEW i \in 1 .. Len(d) PROVE q[L + 1 + 0 + i] = 48
          <5>1. mid[i] = q[L + 1 + i] /\ L + 1 + 0 + i = L + 1 + i
            BY <1>1, <2>1, <3>2
          <5>2. QED
            BY <3>1, <3>2, <5>1
        <4>3. IndexedAs(q, name, 0, Len(d))
          BY <1>1, <2>5, <3>1, <4>1, <4>2 DEF IndexedAs, L
        <4>4. QED
          BY <2>5, <4>3, NamesFirstMeans
      <3>3. CASE /\ Len(mid) >= 1 /\ mid[1] = Plus /\ Len(d) = Len(mid) - 1
                 /\ \A i \in 1 .. Len(mid) - 1 : d[i] = mid[1 + i]
        <4>1. Len(q) = L + 2 + 1 + Len(d) /\ Len(mid) \in Nat
          BY <1>1, <2>1, <3>3
        <4>2. ASSUME NEW i \in 1 .. Len(d) PROVE q[L + 1 + 1 + i] = 48
          <5>1. 1 + i \in 1 .. Len(q) - L - 2 /\ L + 1 + (1 + i) = L + 1 + 1 + i
            BY <1>1, <2>1, <3>3, <4>1
          <5>2. mid[1 + i] = q[L + 1 + (1 + i)]
            BY <2>1, <5>1
          <5>3. d[i] = mid[1 + i]
            BY <3>3
          <5>4. QED
            BY <3>1, <5>1, <5>2, <5>3
        <4>3. q[L + 2] = Plus
          <5>1. 1 \in 1 .. Len(q) - L - 2 /\ L + 1 + 1 = L + 2
            BY <1>1, <2>1, <3>3, <4>1
          <5>2. mid[1] = q[L + 1 + 1]
            BY <2>1, <5>1
          <5>3. QED
            BY <3>3, <5>1, <5>2
        <4>4. IndexedAs(q, name, 1, Len(d))
          BY <1>1, <2>5, <3>1, <4>1, <4>2, <4>3 DEF IndexedAs, L
        <4>5. QED
          BY <2>5, <4>4, NamesFirstMeans
      <3>4. QED
        BY <2>4, <3>2, <3>3
    <2>7. ASSUME NamesFirst(q, name) PROVE query_name_matches_index(q, name, 0)
      <3>1. PICK s \in Nat, n \in Nat : IndexedAs(q, name, s, n)
        BY <2>7, NamesFirstMeans
      <3>2. /\ s \in 0 .. 1 /\ n \in 1 .. Len(q) /\ Len(q) = L + 2 + s + n
            /\ \A i \in 1 .. L : q[i] = name[i]
            /\ q[L + 1] = Open
            /\ s = 1 => q[L + 2] = Plus
            /\ \A i \in 1 .. n : q[L + 1 + s + i] = 48
            /\ q[L + 2 + s + n] = Close
        BY <3>1 DEF IndexedAs, L
      <3>3. Len(mid) = s + n
        BY <1>1, <2>1, <3>2
      <3>4. CASE s = 0
        <4>1. \A i \in 1 .. n : mid[i] = 48
          <5>1. SUFFICES ASSUME NEW i \in 1 .. n PROVE mid[i] = 48
            OBVIOUS
          <5>2. i \in 1 .. Len(q) - L - 2 /\ L + 1 + s + i = L + 1 + i
            BY <1>1, <3>2, <3>4
          <5>3. mid[i] = q[L + 1 + i]
            BY <2>1, <5>2
          <5>4. QED
            BY <3>2, <5>2, <5>3
        <4>2. mid[1] # Plus
          BY <3>2, <4>1 DEF Plus
        <4>3. d = mid /\ Len(d) = n
          BY <2>4, <3>2, <3>3, <3>4, <4>2
        <4>4. d # <<>> /\ \A i \in 1 .. Len(d) : d[i] = 48
          BY <2>5, <3>2, <4>1, <4>3
        <4>5. QED
          BY <2>2, <2>3, <3>2, <4>4
      <3>5. CASE s = 1
        <4>1. 1 \in 1 .. Len(q) - L - 2 /\ L + 1 + 1 = L + 2
          BY <1>1, <3>2, <3>5
        <4>2. mid[1] = Plus
          BY <2>1, <3>2, <3>5, <4>1
        <4>3. Len(d) = n /\ \A i \in 1 .. n : d[i] = mid[1 + i]
          BY <2>4, <3>2, <3>3, <3>5, <4>2
        <4>4. ASSUME NEW i \in 1 .. n PROVE d[i] = 48
          <5>1. 1 + i \in 1 .. Len(q) - L - 2 /\ L + 1 + (1 + i) = L + 1 + s + i
            BY <1>1, <3>2, <3>5
          <5>2. mid[1 + i] = q[L + 1 + (1 + i)]
            BY <2>1, <5>1
          <5>3. q[L + 1 + s + i] = 48
            BY <3>2
          <5>4. QED
            BY <4>3, <5>1, <5>2, <5>3
        <4>5. d # <<>> /\ \A i \in 1 .. Len(d) : d[i] = 48
          BY <2>5, <3>2, <4>3, <4>4
        <4>6. QED
          BY <2>2, <2>3, <3>2, <4>5
      <3>6. QED
        BY <3>2, <3>4, <3>5
    <2>8. QED
      BY <2>6, <2>7
  <1>3. CASE ~(L + 2 <= Len(q))
    <2>1. ~NamesFirst(q, name)
      <3>1. SUFFICES ASSUME NamesFirst(q, name) PROVE FALSE
        OBVIOUS
      <3>2. PICK s \in Nat, n \in Nat : IndexedAs(q, name, s, n)
        BY <3>1, NamesFirstMeans
      <3>3. QED
        BY <1>1, <1>3, <3>2 DEF IndexedAs
    <2>2. ~query_name_matches_index(q, name, 0)
      <3>1. SUFFICES ASSUME query_name_matches_index(q, name, 0) PROVE FALSE
        OBVIOUS
      <3>2. Len(SubSeq(q, L + 1, Len(q))) >= 2
        BY <3>1 DEF query_name_matches_index
      <3>3. L <= Len(q)
        BY <3>1, PrefixMeans DEF query_name_matches_index
      <3>4. Len(SubSeq(q, L + 1, Len(q))) = Len(q) - L
        <4>1. L + 1 \in 1 .. Len(q) + 1 /\ Len(q) \in (L + 1) - 1 .. Len(q) /\ q \in Seq(Byte)
          BY <1>1, <3>3 DEF Text
        <4> HIDE DEF L
        <4>2. Len(SubSeq(q, L + 1, Len(q))) = Len(q) - (L + 1) + 1
          BY <4>1, Part
        <4>3. QED
          BY <1>1, <4>2
      <3>5. QED
        BY <1>1, <1>3, <3>2, <3>4
    <2>3. QED
      BY <2>1, <2>2
  <1>4. QED
    BY <1>2, <1>3

Pairs == [name : Text, value : Text]

\* query_first: the first pair of the name.
LEMMA FirstFacts ==
    ASSUME NEW list, NEW name
    PROVE  LET I == {j \in 1 .. Len(list) : list[j].name = name}
           IN  query_first(list, name) = IF I = {} THEN <<>> ELSE <<list[Min(I)]>>
  <1> DEFINE I == {j \in 1 .. Len(list) : list[j].name = name}
             i == IF I # {} THEN Min(I) ELSE 0
  <1>1. query_first(list, name) = IF i = 0 THEN <<>> ELSE <<list[i]>>
    BY DEF query_first, FirstSuch, SelectInSeq
  <1>2. I # {} => Min(I) # 0
    <2>1. I \subseteq Nat /\ 0 \notin I
      OBVIOUS
    <2> HIDE DEF I
    <2>2. QED
      BY <2>1, MinFacts
  <1>3. QED
    BY <1>1, <1>2

\* query_indexed: the first pair of the name and the index.
LEMMA IndexedFacts ==
    ASSUME NEW list, NEW name, NEW index
    PROVE  LET I == {j \in 1 .. Len(list) : query_name_matches_index(list[j].name, name, index)}
           IN  query_indexed(list, name, index) = IF I = {} THEN <<>> ELSE <<list[Min(I)]>>
  <1> DEFINE I == {j \in 1 .. Len(list) : query_name_matches_index(list[j].name, name, index)}
             i == IF I # {} THEN Min(I) ELSE 0
  <1>1. query_indexed(list, name, index) = IF i = 0 THEN <<>> ELSE <<list[i]>>
    BY DEF query_indexed, FirstSuch, SelectInSeq
  <1>2. I # {} => Min(I) # 0
    <2>1. I \subseteq Nat /\ 0 \notin I
      OBVIOUS
    <2> HIDE DEF I
    <2>2. QED
      BY <2>1, MinFacts
  <1>3. QED
    BY <1>1, <1>2

\* query_first, query_last and query_indexed, over any list of pairs.
LEMMA LookupFacts ==
    ASSUME NEW list \in Seq(Pairs)
    PROVE  /\ \A k \in DOMAIN list :
                LET same == {j \in DOMAIN list : list[j].name = list[k].name}
                IN  /\ query_first(list, list[k].name) = <<list[Min(same)]>>
                    /\ query_last(list, list[k].name) = <<list[Max(same)]>>
           /\ \A name \in Text :
                LET first == {j \in DOMAIN list : NamesFirst(list[j].name, name)}
                IN  query_indexed(list, name, 0) =
                        IF first = {} THEN <<>> ELSE <<list[Min(first)]>>
  <1>1. Len(list) \in Nat /\ DOMAIN list = 1 .. Len(list) /\ \A j \in 1 .. Len(list) : list[j] \in Pairs
    BY LenProperties
  <1>2. ASSUME NEW k \in DOMAIN list
        PROVE  LET same == {j \in DOMAIN list : list[j].name = list[k].name}
               IN  /\ query_first(list, list[k].name) = <<list[Min(same)]>>
                   /\ query_last(list, list[k].name) = <<list[Max(same)]>>
    <2> DEFINE name == list[k].name
               same == {j \in DOMAIN list : list[j].name = name}
               all == query_all(list, name)
    <2>1. k \in same /\ same \subseteq 0 .. Len(list)
      BY <1>1
    <2>2. same = {j \in 1 .. Len(list) : list[j].name = name}
      BY <1>1
    <2>3. query_first(list, name) = <<list[Min(same)]>>
      <3> HIDE DEF name
      <3>1. QED
        BY <2>1, <2>2, FirstFacts
    <2>4. Max(same) \in same /\ \A j \in same : Max(same) >= j
      <3> HIDE DEF same
      <3>1. QED
        BY <1>1, <2>1, MaxFacts
    <2>5. query_last(list, name) = IF all = <<>> THEN <<>> ELSE <<all[Len(all)]>>
      BY DEF query_last, Last
    <2> DEFINE m == Max(same)
    <2>6. m \in 1 .. Len(list) /\ list[m].name = name
      BY <1>1, <2>4
    <2>7. ASSUME NEW j \in m + 1 .. Len(list) PROVE list[j].name # name
      <3>1. SUFFICES ASSUME list[j].name = name PROVE FALSE
        OBVIOUS
      <3>2. j \in 1 .. Len(list) /\ j > m /\ m \in Int
        BY <1>1, <2>6
      <3>3. j \in same
        BY <2>2, <3>1, <3>2
      <3>4. m >= j
        BY <2>4, <3>3
      <3>5. QED
        BY <3>2, <3>4
    <2> HIDE DEF m, name, all
    <2>8. all # <<>> /\ all[Len(all)] = list[m]
      BY <2>6, <2>7, AllFacts DEF all
    <2>9. QED
      BY <2>3, <2>5, <2>8 DEF m, name
  <1>3. ASSUME NEW name \in Text
        PROVE  LET first == {j \in DOMAIN list : NamesFirst(list[j].name, name)}
               IN  query_indexed(list, name, 0) =
                       IF first = {} THEN <<>> ELSE <<list[Min(first)]>>
    <2> DEFINE first == {j \in DOMAIN list : NamesFirst(list[j].name, name)}
               I == {j \in 1 .. Len(list) : query_name_matches_index(list[j].name, name, 0)}
    <2>1. \A j \in 1 .. Len(list) :
            query_name_matches_index(list[j].name, name, 0) <=> NamesFirst(list[j].name, name)
      <3>1. SUFFICES ASSUME NEW j \in 1 .. Len(list)
                     PROVE  query_name_matches_index(list[j].name, name, 0) <=>
                              NamesFirst(list[j].name, name)
        OBVIOUS
      <3>2. list[j].name \in Text
        BY <1>1 DEF Pairs
      <3>3. QED
        BY <3>2, MatchesFirst
    <2>2. first = I
      BY <1>1, <2>1
    <2>3. query_indexed(list, name, 0) = IF I = {} THEN <<>> ELSE <<list[Min(I)]>>
      BY IndexedFacts
    <2>4. QED
      BY <2>2, <2>3
  <1>4. QED
    BY <1>2, <1>3

-----------------------------------------------------------------------------
(* The meaning of an encoded text.                                          *)

\* hex_value over the digits, and no digit is the sign of an escape.
LEMMA HexFacts ==
    ASSUME NEW b \in Byte
    PROVE  /\ HexDigit(b) <=> b \in Hex
           /\ b \in Hex => hex_value(b) = DigitValue(b) /\ hex_value(b) \in 0 .. 15 /\ b # Pct
  <1>1. \A d \in 0 .. 15 : b \in Digits(d) <=>
          \/ d < 10 /\ b = 48 + d
          \/ d >= 10 /\ (b = 87 + d \/ b = 55 + d)
    BY DEF Digits
  <1>2. b \in Hex <=> \E d \in 0 .. 15 : b \in Digits(d)
    BY DEF Hex
  <1>3. HexDigit(b) <=> b \in 48 .. 57 \/ b \in 97 .. 102 \/ b \in 65 .. 70
    BY DEF HexDigit
  <1>4. HexDigit(b) => hex_value(b) \in 0 .. 15 /\ b \in Digits(hex_value(b))
    <2>1. SUFFICES ASSUME HexDigit(b) PROVE hex_value(b) \in 0 .. 15 /\ b \in Digits(hex_value(b))
      OBVIOUS
    <2>2. CASE b \in 48 .. 57
      <3>1. hex_value(b) = b - 48
        BY <2>2 DEF hex_value
      <3>2. QED
        BY <2>2, <3>1, <1>1
    <2>3. CASE b \in 65 .. 70
      <3>1. hex_value(b) = b - 55
        BY <2>3 DEF hex_value
      <3>2. QED
        BY <2>3, <3>1, <1>1
    <2>4. CASE b \in 97 .. 102
      <3>1. hex_value(b) = b - 87
        BY <2>4 DEF hex_value
      <3>2. QED
        BY <2>4, <3>1, <1>1
    <2>5. QED
      BY <1>3, <2>1, <2>2, <2>3, <2>4
  <1>5. \A d, e \in 0 .. 15 : b \in Digits(d) /\ b \in Digits(e) => d = e
    BY <1>1 DEF Byte
  <1>6. b \in Hex => HexDigit(b)
    BY <1>1, <1>2, <1>3 DEF Byte
  <1>7. HexDigit(b) => b \in Hex /\ hex_value(b) = DigitValue(b)
    <2>1. SUFFICES ASSUME HexDigit(b) PROVE b \in Hex /\ hex_value(b) = DigitValue(b)
      OBVIOUS
    <2>2. hex_value(b) \in 0 .. 15 /\ b \in Digits(hex_value(b))
      BY <1>4, <2>1
    <2>3. DigitValue(b) \in 0 .. 15 /\ b \in Digits(DigitValue(b))
      BY <2>2 DEF DigitValue
    <2>4. QED
      BY <1>2, <1>5, <2>2, <2>3
  <1>8. HexDigit(b) => b # Pct
    BY <1>3 DEF Pct
  <1>9. QED
    BY <1>4, <1>6, <1>7, <1>8

\* out is what the first c bytes stand for, and no escape reaches beyond them.
DecodedTo(coded, c, bytes) ==
    /\ c \in 0 .. Len(coded) /\ WellEscaped(coded, c)
    /\ IsFiniteSet(Heads(coded, c))
    /\ bytes \in Text /\ Len(bytes) = Cardinality(Heads(coded, c))
    /\ \A i \in Heads(coded, c) :
          /\ Cardinality(Heads(coded, i)) \in 1 .. Len(bytes)
          /\ bytes[Cardinality(Heads(coded, i))] = ByteAt(coded, i)
    /\ \A k \in 1 .. Len(bytes) : \E i \in Heads(coded, c) : Cardinality(Heads(coded, i)) = k

\* Nothing is decoded at first.
LEMMA DecodingStarts ==
    ASSUME NEW coded \in Text
    PROVE  DecodedTo(coded, 0, <<>>)
  <1>1. Heads(coded, 0) = {}
    BY DEF Heads
  <1>2. Len(coded) \in Nat /\ <<>> \in Text /\ Len(<<>>) = 0
    BY DEF Text
  <1>3. IsFiniteSet({}) /\ Cardinality({}) = 0
    BY FS_EmptySet
  <1>4. WellEscaped(coded, 0)
    BY DEF WellEscaped
  <1> DEFINE none == <<>>
  <1>5. \A i \in Heads(coded, 0) : FALSE
    BY <1>1
  <1>6. IsFiniteSet(Heads(coded, 0)) /\ Cardinality(Heads(coded, 0)) = 0
    BY <1>1, <1>3, Zenon
  <1>8. none \in Text /\ Len(none) = 0 /\ 0 \in 0 .. Len(coded)
    BY <1>2
  <1>9. \A k \in 1 .. Len(none) : FALSE
    BY <1>8
  <1> HIDE DEF none
  <1>10. DecodedTo(coded, 0, none)
    BY <1>4, <1>5, <1>6, <1>8, <1>9 DEF DecodedTo
  <1>7. QED
    BY <1>10 DEF none

\* The next piece of the text: a byte or an escape.
Piece(coded, c, w) ==
    /\ w \in {1, 3} /\ c + w <= Len(coded)
    /\ coded[c + 1] = Pct <=> w = 3
    /\ w = 3 => coded[c + 2] \in Hex /\ coded[c + 3] \in Hex

\* A further piece of the text is one byte more of its meaning.
LEMMA NewHead ==
    ASSUME NEW coded \in Text, NEW c \in 0 .. Len(coded), WellEscaped(coded, c),
           NEW w, Piece(coded, c, w)
    PROVE  /\ Heads(coded, c + w) = Heads(coded, c) \cup {c + 1}
           /\ Heads(coded, c + 1) = Heads(coded, c) \cup {c + 1}
           /\ c + 1 \notin Heads(coded, c)
           /\ WellEscaped(coded, c + w)
  <1>1. Len(coded) \in Nat /\ \A i \in 1 .. Len(coded) : coded[i] \in Byte
    BY DEF Text
  <1>2. c > 0 => coded[c] # Pct
    BY <1>1 DEF WellEscaped
  <1>3. c > 1 => coded[c - 1] # Pct
    <2>1. SUFFICES ASSUME c > 1, coded[c - 1] = Pct PROVE FALSE
      OBVIOUS
    <2>2. c - 1 \in 1 .. c
      BY <1>1, <2>1
    <2>3. (c - 1) + 2 <= c
      BY <2>1, <2>2 DEF WellEscaped
    <2>4. QED
      BY <1>1, <2>3
  <1>4. c + 1 > 1 => coded[(c + 1) - 1] # Pct
    BY <1>1, <1>2
  <1>5. c + 1 > 2 => coded[(c + 1) - 2] # Pct
    BY <1>1, <1>3
  <1>6. Heads(coded, c + 1) = Heads(coded, c) \cup {c + 1}
    BY <1>1, <1>4, <1>5 DEF Heads
  <1>7. Heads(coded, c + w) = Heads(coded, c + 1)
    <2>1. CASE w = 1
      BY <2>1
    <2>2. CASE w = 3
      <3>1. coded[c + 1] = Pct
        BY <2>2 DEF Piece
      <3>2. c + 2 \notin Heads(coded, c + 3)
        <4>1. c + 2 > 1 /\ (c + 2) - 1 = c + 1
          OBVIOUS
        <4>2. QED
          BY <3>1, <4>1 DEF Heads
      <3>3. c + 3 \notin Heads(coded, c + 3)
        <4>1. c + 3 > 2 /\ (c + 3) - 2 = c + 1
          OBVIOUS
        <4>2. QED
          BY <3>1, <4>1 DEF Heads
      <3>4. \A i \in 1 .. c + 3 : i \in 1 .. c + 1 \/ i = c + 2 \/ i = c + 3
        BY <1>1
      <3>5. \A i \in 1 .. c + 1 : i \in 1 .. c + 3
        BY <1>1
      <3>6. QED
        BY <2>2, <3>2, <3>3, <3>4, <3>5 DEF Heads
    <2>3. QED
      BY <2>1, <2>2 DEF Piece
  <1>8. c + 1 \notin Heads(coded, c)
    BY <1>1 DEF Heads
  <1>9. WellEscaped(coded, c + w)
    <2>1. SUFFICES ASSUME NEW i \in 1 .. c + w, coded[i] = Pct
                   PROVE  i + 2 <= c + w /\ coded[i + 1] \in Hex /\ coded[i + 2] \in Hex
      BY DEF WellEscaped
    <2>2. CASE i \in 1 .. c
      <3>1. i + 2 <= c /\ coded[i + 1] \in Hex /\ coded[i + 2] \in Hex
        BY <2>1, <2>2 DEF WellEscaped
      <3>2. w \in {1, 3}
        BY DEF Piece
      <3>3. QED
        BY <3>1, <3>2
    <2>3. CASE i = c + 1
      <3>1. w = 3 /\ coded[c + 2] \in Hex /\ coded[c + 3] \in Hex
        BY <2>1, <2>3 DEF Piece
      <3>2. i + 1 = c + 2 /\ i + 2 = c + 3
        BY <2>3
      <3>3. QED
        BY <3>1, <3>2
    <2>4. CASE (i = c + 2 \/ i = c + 3) /\ w = 3
      <3>1. coded[i] \in Hex
        BY <2>4 DEF Piece
      <3>2. coded[i] \in Byte
        BY <1>1, <2>4 DEF Piece
      <3>3. QED
        BY <2>1, <3>1, <3>2, HexFacts
    <2>5. i \in 1 .. c \/ i = c + 1 \/ ((i = c + 2 \/ i = c + 3) /\ w = 3)
      BY <1>1 DEF Piece
    <2>6. QED
      BY <2>2, <2>3, <2>4, <2>5
  <1>10. QED
    BY <1>6, <1>7, <1>8, <1>9

\* The byte that percent_decode writes for the next piece.
LEMMA DecodingSteps ==
    ASSUME NEW coded \in Text, NEW c, NEW bytes, DecodedTo(coded, c, bytes),
           NEW w, Piece(coded, c, w), NEW byte, byte = ByteAt(coded, c + 1), byte \in Byte
    PROVE  DecodedTo(coded, c + w, Append(bytes, byte))
  <1> DEFINE longer == Append(bytes, byte)
             H == Heads(coded, c)
             n == Len(bytes)
  <1>1. /\ c \in 0 .. Len(coded) /\ WellEscaped(coded, c)
        /\ IsFiniteSet(H) /\ bytes \in Text /\ n = Cardinality(H)
        /\ Len(coded) \in Nat /\ n \in Nat
    BY DEF DecodedTo, Text
  <1>2. /\ Heads(coded, c + w) = H \cup {c + 1}
        /\ Heads(coded, c + 1) = H \cup {c + 1}
        /\ c + 1 \notin H
        /\ WellEscaped(coded, c + w)
    BY <1>1, NewHead
  <1>3. /\ IsFiniteSet(H \cup {c + 1})
        /\ Cardinality(H \cup {c + 1}) = n + 1
    BY <1>1, <1>2, FS_AddElement
  <1>4. /\ longer \in Text /\ Len(longer) = n + 1
        /\ \A i \in 1 .. n : longer[i] = bytes[i]
        /\ longer[n + 1] = byte
    <2>1. bytes \in Seq(Byte)
      BY <1>1 DEF Text
    <2>2. QED
      BY <2>1, Appended DEF Text
  <1>a. longer = Append(bytes, byte)
    OBVIOUS
  <1> HIDE DEF longer
  <1>5. c + w \in 0 .. Len(coded)
    BY <1>1 DEF Piece
  <1>6. \A i \in H :
          /\ Cardinality(Heads(coded, i)) \in 1 .. n
          /\ bytes[Cardinality(Heads(coded, i))] = ByteAt(coded, i)
    BY DEF DecodedTo
  <1>7. \A k \in 1 .. n : \E i \in H : Cardinality(Heads(coded, i)) = k
    BY DEF DecodedTo
  <1> HIDE DEF H, n
  <1>8. ASSUME NEW i \in H \cup {c + 1}
        PROVE  /\ Cardinality(Heads(coded, i)) \in 1 .. n + 1
               /\ longer[Cardinality(Heads(coded, i))] = ByteAt(coded, i)
    <2>1. CASE i \in H
      <3>1. Cardinality(Heads(coded, i)) \in 1 .. n + 1
        BY <1>1, <1>6, <2>1
      <3>2. QED
        BY <3>1, <1>4, <1>6, <2>1
    <2>2. CASE i = c + 1
      <3>1. Cardinality(Heads(coded, i)) = n + 1
        BY <1>2, <1>3, <2>2
      <3>2. QED
        BY <3>1, <1>1, <1>4, <2>2
    <2>3. QED
      BY <2>1, <2>2
  <1>9. ASSUME NEW k \in 1 .. n + 1
        PROVE  \E i \in H \cup {c + 1} : Cardinality(Heads(coded, i)) = k
    <2>1. CASE k \in 1 .. n
      BY <1>7, <2>1
    <2>2. CASE k = n + 1
      <3>1. Cardinality(Heads(coded, c + 1)) = k
        BY <1>2, <1>3, <2>2
      <3>2. QED
        BY <3>1
    <2>3. QED
      BY <1>1, <2>1, <2>2
  <1>10. DecodedTo(coded, c + w, longer)
    <2>1. Heads(coded, c + w) = H \cup {c + 1}
      BY <1>2
    <2>2. QED
      BY <2>1, <1>2, <1>3, <1>4, <1>5, <1>8, <1>9 DEF DecodedTo
  <1>11. QED
    BY <1>a, <1>10

\* The whole text decoded is its meaning.
LEMMA DecodingEnds ==
    ASSUME NEW coded \in Text, NEW bytes, DecodedTo(coded, Len(coded), bytes)
    PROVE  WellEscaped(coded, Len(coded)) /\ Meaning(coded) = bytes
  <1> DEFINE H == Heads(coded, Len(coded))
             Rank(i) == Cardinality(Heads(coded, i))
  <1>1. /\ bytes \in Text /\ Len(bytes) = Cardinality(H)
        /\ \A i \in H : Rank(i) \in 1 .. Len(bytes) /\ bytes[Rank(i)] = ByteAt(coded, i)
        /\ \A k \in 1 .. Len(bytes) : \E i \in H : Rank(i) = k
        /\ WellEscaped(coded, Len(coded))
    BY DEF DecodedTo
  <1>2. Meaning(coded) = [k \in 1 .. Cardinality(H) |-> ByteAt(coded, CHOOSE i \in H : Rank(i) = k)]
    BY DEF Meaning
  <1> HIDE DEF H, Rank
  <1>3. ASSUME NEW k \in 1 .. Len(bytes)
        PROVE  ByteAt(coded, CHOOSE i \in H : Rank(i) = k) = bytes[k]
    <2> DEFINE i == CHOOSE i \in H : Rank(i) = k
    <2>1. i \in H /\ Rank(i) = k
      <3>1. \E j \in H : Rank(j) = k
        BY <1>1
      <3>2. QED
        BY <3>1
    <2> HIDE DEF i
    <2>2. bytes[k] = ByteAt(coded, i)
      BY <1>1, <2>1
    <2>3. QED
      BY <2>2 DEF i
  <1>4. Meaning(coded) = [k \in 1 .. Len(bytes) |-> bytes[k]]
    BY <1>1, <1>2, <1>3
  <1>5. bytes = [k \in 1 .. Len(bytes) |-> bytes[k]]
    BY <1>1 DEF Text
  <1>6. QED
    BY <1>1, <1>4, <1>5

\* A text with a cut that is no piece is not well escaped.
LEMMA DecodingFails ==
    ASSUME NEW coded \in Text, NEW c \in 0 .. Len(coded), c < Len(coded), coded[c + 1] = Pct,
           ~(c + 3 <= Len(coded) /\ coded[c + 2] \in Hex /\ coded[c + 3] \in Hex)
    PROVE  ~WellEscaped(coded, Len(coded))
  <1>1. Len(coded) \in Nat
    BY DEF Text
  <1>2. c + 1 \in 1 .. Len(coded) /\ (c + 1) + 1 = c + 2 /\ (c + 1) + 2 = c + 3
    BY <1>1
  <1>3. QED
    BY <1>2 DEF WellEscaped

-----------------------------------------------------------------------------
(* Lists of headers.                                                        *)

\* The i-th header is the first, or the last, of its name.
FirstOf(list, key, i) ==
    i \in 1 .. Len(list) /\ list[i].key = key /\ \A j \in 1 .. i - 1 : list[j].key # key
LastOf(list, key, i) ==
    /\ i \in 1 .. Len(list) /\ list[i].key = key
    /\ \A j \in i + 1 .. Len(list) : list[j].key # key
Lacks(list, key) == \A i \in 1 .. Len(list) : list[i].key # key

\* header and get_header: the value of the first header of the name.
LEMMA HeaderFacts ==
    ASSUME NEW list, Len(list) \in Nat, NEW key
    PROVE  /\ Lacks(list, key) => HeaderValue(list, key) = <<>>
           /\ \A i : FirstOf(list, key, i) => HeaderValue(list, key) = <<list[i].value>>
           /\ Lacks(list, key) \/ \E i : FirstOf(list, key, i)
           /\ Has(list, key) <=> ~Lacks(list, key)
  <1> DEFINE I == {j \in 1 .. Len(list) : list[j].key = key}
             m == Min(I)
             i0 == IF I # {} THEN Min(I) ELSE 0
             found == IF i0 = 0 THEN <<>> ELSE <<list[i0]>>
  <1>1. HeaderValue(list, key) = IF found = <<>> THEN <<>> ELSE <<found[1].value>>
    BY DEF HeaderValue, FirstSuch, SelectInSeq
  <1>2. I \subseteq Nat /\ I \subseteq 1 .. Len(list)
    OBVIOUS
  <1>3. I # {} => m \in I /\ \A y \in I : m <= y
    <2> HIDE DEF I
    <2>1. QED
      BY <1>2, MinFacts
  <1>4. I # {} => FirstOf(list, key, m)
    <2>1. SUFFICES ASSUME I # {} PROVE FirstOf(list, key, m)
      OBVIOUS
    <2>2. m \in 1 .. Len(list) /\ list[m].key = key
      BY <1>3, <2>1
    <2>3. ASSUME NEW j \in 1 .. m - 1 PROVE list[j].key # key
      <3>1. j \in 1 .. Len(list) /\ j < m /\ m \in Int
        BY <2>2
      <3>2. j \notin I
        BY <1>3, <2>1, <3>1
      <3>3. QED
        BY <3>1, <3>2
    <2> HIDE DEF m
    <2>4. QED
      BY <2>2, <2>3 DEF FirstOf
  <1>5. I = {} <=> Lacks(list, key)
    BY DEF Lacks
  <1>6. ASSUME NEW i, FirstOf(list, key, i) PROVE I # {} /\ i = m
    <2>1. i \in I
      BY <1>6 DEF FirstOf
    <2>2. m <= i /\ m \in I /\ m \in Int /\ i \in Int /\ m >= 1
      BY <1>2, <1>3, <2>1
    <2>3. ~(m < i)
      <3>1. SUFFICES ASSUME m < i PROVE FALSE
        OBVIOUS
      <3>2. m \in 1 .. i - 1 /\ list[m].key = key
        BY <2>2, <3>1
      <3> HIDE DEF m
      <3>3. QED
        BY <1>6, <3>2 DEF FirstOf
    <2> HIDE DEF m
    <2>4. QED
      BY <2>1, <2>2, <2>3
  <1>7. I # {} => HeaderValue(list, key) = <<list[m].value>>
    <2>1. SUFFICES ASSUME I # {} PROVE HeaderValue(list, key) = <<list[m].value>>
      OBVIOUS
    <2>2. i0 = m /\ m # 0
      BY <1>2, <1>3, <2>1
    <2>3. found = <<list[m]>>
      BY <2>2
    <2> HIDE DEF found, m
    <2>4. QED
      BY <1>1, <2>3
  <1>8. I = {} => HeaderValue(list, key) = <<>>
    BY <1>1
  <1> HIDE DEF I, m
  <1>9. Has(list, key) <=> I # {}
    <2>1. <<list[m].value>> # <<>>
      OBVIOUS
    <2>2. QED
      BY <1>7, <1>8, <2>1, Zenon DEF Has
  <1>10. QED
    BY <1>4, <1>5, <1>6, <1>7, <1>8, <1>9

\* get_header returns what FirstValue says.
LEMMA FirstValueFacts ==
    ASSUME NEW S, NEW list \in Seq(S), NEW key
    PROVE  HeaderValue(list, key) = FirstValue(list, key)
  <1> DEFINE I == {j \in 1 .. Len(list) : list[j].key = key}
             i0 == IF I # {} THEN Min(I) ELSE 0
             found == IF i0 = 0 THEN <<>> ELSE <<list[i0]>>
  <1>1. HeaderValue(list, key) = IF found = <<>> THEN <<>> ELSE <<found[1].value>>
    BY DEF HeaderValue, FirstSuch, SelectInSeq
  <1>2. FirstValue(list, key) = IF I = {} THEN <<>> ELSE <<list[Min(I)].value>>
    <2>1. {i \in DOMAIN list : list[i].key = key} = I
      OBVIOUS
    <2> HIDE DEF I
    <2>2. QED
      BY <2>1 DEF FirstValue
  <1>3. I # {} => Min(I) # 0
    <2>1. I \subseteq Nat /\ 0 \notin I
      OBVIOUS
    <2> HIDE DEF I
    <2>2. QED
      BY <2>1, MinFacts
  <1> HIDE DEF I
  <1>4. QED
    BY <1>1, <1>2, <1>3

\* The last of a name, for which the names are looked through from the end.
LEMMA LastValueFacts ==
    ASSUME NEW S, NEW list \in Seq(S), NEW key
    PROVE  /\ Lacks(list, key) => LastValue(list, key) = <<>>
           /\ \A i : LastOf(list, key, i) => LastValue(list, key) = <<list[i].value>>
           /\ Lacks(list, key) \/ \E i : LastOf(list, key, i)
           /\ key \in Distinct(list) <=> ~Lacks(list, key)
  <1> DEFINE I == {j \in 1 .. Len(list) : list[j].key = key}
             m == Max(I)
  <1>1. Len(list) \in Nat /\ DOMAIN list = 1 .. Len(list)
    BY LenProperties
  <1>2. LastValue(list, key) = IF I = {} THEN <<>> ELSE <<list[m].value>>
    BY <1>1 DEF LastValue
  <1>3. I # {} => m \in I /\ \A y \in I : m >= y
    <2>1. I \subseteq 0 .. Len(list)
      OBVIOUS
    <2> HIDE DEF I
    <2>2. QED
      BY <1>1, <2>1, MaxFacts
  <1>4. I = {} <=> Lacks(list, key)
    BY DEF Lacks
  <1>5. key \in Distinct(list) <=> I # {}
    BY <1>1 DEF Distinct
  <1>6. I # {} => LastOf(list, key, m)
    <2>1. SUFFICES ASSUME I # {} PROVE LastOf(list, key, m)
      OBVIOUS
    <2>2. m \in 1 .. Len(list) /\ list[m].key = key
      BY <1>3, <2>1
    <2>3. ASSUME NEW j \in m + 1 .. Len(list) PROVE list[j].key # key
      <3>1. j \in 1 .. Len(list) /\ j > m /\ m \in Int
        BY <1>1, <2>2
      <3>2. j \notin I
        BY <1>3, <2>1, <3>1
      <3>3. QED
        BY <3>1, <3>2
    <2> HIDE DEF m
    <2>4. QED
      BY <2>2, <2>3 DEF LastOf
  <1>7. ASSUME NEW i, LastOf(list, key, i) PROVE I # {} /\ i = m
    <2>1. i \in I
      BY <1>7 DEF LastOf
    <2>2. m >= i /\ m \in I /\ m \in Int /\ i \in Int /\ m <= Len(list)
      BY <1>1, <1>3, <2>1
    <2>3. ~(m > i)
      <3>1. SUFFICES ASSUME m > i PROVE FALSE
        OBVIOUS
      <3>2. m \in i + 1 .. Len(list) /\ list[m].key = key
        BY <1>1, <2>2, <3>1
      <3> HIDE DEF m
      <3>3. QED
        BY <1>7, <3>2 DEF LastOf
    <2> HIDE DEF m
    <2>4. QED
      BY <2>1, <2>2, <2>3
  <1> HIDE DEF I, m
  <1>8. QED
    BY <1>2, <1>4, <1>5, <1>6, <1>7

\* A list in two parts: the first part decides, if it has the name.
LEMMA HeaderOfJoined ==
    ASSUME NEW S, NEW s, NEW t, NEW u, s \in Seq(S), t \in Seq(S), Joins(u, s, t), NEW key
    PROVE  /\ u \in Seq(S)
           /\ Len(u) = Len(s) + Len(t)
           /\ HeaderValue(u, key) = IF Has(s, key) THEN HeaderValue(s, key) ELSE HeaderValue(t, key)
           /\ Has(u, key) <=> Has(s, key) \/ Has(t, key)
  <1>1. u \in Seq(S) /\ Lined(u, s, t)
    BY Joined
  <1>2. Len(s) \in Nat /\ Len(t) \in Nat /\ Len(u) \in Nat
    BY <1>1
  <1>3. /\ Len(u) = Len(s) + Len(t)
        /\ \A i \in 1 .. Len(s) : u[i] = s[i]
        /\ \A i \in 1 .. Len(t) : u[Len(s) + i] = t[i]
    BY <1>1 DEF Lined
  <1>4. ASSUME NEW i, FirstOf(s, key, i) PROVE FirstOf(u, key, i) /\ u[i].value = s[i].value
    <2>1. i \in 1 .. Len(s) /\ s[i].key = key /\ \A j \in 1 .. i - 1 : s[j].key # key
      BY <1>4 DEF FirstOf
    <2>2. \A j \in 1 .. i - 1 : j \in 1 .. Len(s) /\ u[j].key # key
      BY <1>2, <1>3, <2>1
    <2>3. QED
      BY <1>2, <1>3, <2>1, <2>2 DEF FirstOf
  <1>5. ASSUME NEW i, FirstOf(t, key, i), Lacks(s, key)
        PROVE  FirstOf(u, key, Len(s) + i) /\ u[Len(s) + i].value = t[i].value
    <2>1. i \in 1 .. Len(t) /\ t[i].key = key /\ \A j \in 1 .. i - 1 : t[j].key # key
      BY <1>5 DEF FirstOf
    <2>2. ASSUME NEW j \in 1 .. Len(s) + i - 1 PROVE u[j].key # key
      <3>1. CASE j \in 1 .. Len(s)
        BY <3>1, <1>3, <1>5 DEF Lacks
      <3>2. CASE j > Len(s)
        <4>1. j - Len(s) \in 1 .. i - 1 /\ j - Len(s) \in 1 .. Len(t) /\ Len(s) + (j - Len(s)) = j
          BY <1>2, <2>1, <3>2
        <4>2. u[j] = t[j - Len(s)]
          BY <1>3, <4>1
        <4>3. QED
          BY <2>1, <4>1, <4>2
      <3>3. QED
        BY <1>2, <3>1, <3>2
    <2>3. Len(s) + i \in 1 .. Len(u)
      BY <1>2, <1>3, <2>1
    <2>4. QED
      BY <1>3, <2>1, <2>2, <2>3 DEF FirstOf
  <1>6. ASSUME Lacks(s, key), Lacks(t, key) PROVE Lacks(u, key)
    <2>1. ASSUME NEW j \in 1 .. Len(u) PROVE u[j].key # key
      <3>1. CASE j \in 1 .. Len(s)
        BY <3>1, <1>3, <1>6 DEF Lacks
      <3>2. CASE j > Len(s)
        <4>1. j - Len(s) \in 1 .. Len(t) /\ Len(s) + (j - Len(s)) = j
          BY <1>2, <1>3, <3>2
        <4>2. u[j] = t[j - Len(s)]
          BY <1>3, <4>1
        <4>3. QED
          BY <1>6, <4>1, <4>2 DEF Lacks
      <3>3. QED
        BY <1>2, <3>1, <3>2
    <2>2. QED
      BY <2>1 DEF Lacks
  <1>7. CASE Has(s, key)
    <2>1. PICK i : FirstOf(s, key, i)
      BY <1>2, <1>7, HeaderFacts
    <2>2. HeaderValue(s, key) = <<s[i].value>> /\ HeaderValue(u, key) = <<u[i].value>>
      BY <1>2, <1>4, <2>1, HeaderFacts
    <2>3. HeaderValue(u, key) = HeaderValue(s, key)
      BY <1>4, <2>1, <2>2
    <2>4. QED
      BY <1>1, <1>3, <1>7, <2>3 DEF Has
  <1>8. CASE ~Has(s, key) /\ Has(t, key)
    <2>1. PICK i : FirstOf(t, key, i)
      BY <1>2, <1>8, HeaderFacts
    <2>2. Lacks(s, key)
      BY <1>2, <1>8, HeaderFacts
    <2>3. FirstOf(u, key, Len(s) + i) /\ u[Len(s) + i].value = t[i].value
      BY <1>5, <2>1, <2>2
    <2>4. HeaderValue(t, key) = <<t[i].value>> /\ HeaderValue(u, key) = <<u[Len(s) + i].value>>
      BY <1>2, <2>1, <2>3, HeaderFacts
    <2>5. QED
      BY <1>1, <1>3, <1>8, <2>3, <2>4 DEF Has
  <1>9. CASE ~Has(s, key) /\ ~Has(t, key)
    <2>1. Lacks(s, key) /\ Lacks(t, key)
      BY <1>2, <1>9, HeaderFacts
    <2>2. Lacks(u, key)
      BY <1>6, <2>1
    <2>3. HeaderValue(u, key) = <<>> /\ HeaderValue(t, key) = <<>>
      BY <1>2, <2>1, <2>2, HeaderFacts
    <2>4. QED
      BY <1>1, <1>3, <1>9, <2>3 DEF Has
  <1>10. QED
    BY <1>7, <1>8, <1>9

\* A list of one header.
LEMMA HeaderOfOne ==
    ASSUME NEW h, NEW one, one = <<h>>, NEW key
    PROVE  /\ Len(one) = 1
           /\ HeaderValue(one, key) = IF h.key = key THEN <<h.value>> ELSE <<>>
           /\ Has(one, key) <=> h.key = key
  <1>1. Len(one) = 1 /\ one[1] = h
    OBVIOUS
  <1>2. Len(one) \in Nat
    BY <1>1
  <1>3. h.key = key => FirstOf(one, key, 1)
    BY <1>1 DEF FirstOf
  <1>4. h.key # key => Lacks(one, key)
    BY <1>1 DEF Lacks
  <1>5. h.key = key => HeaderValue(one, key) = <<h.value>>
    BY <1>1, <1>2, <1>3, HeaderFacts
  <1>6. h.key # key => HeaderValue(one, key) = <<>>
    BY <1>2, <1>4, HeaderFacts
  <1>7. QED
    BY <1>1, <1>5, <1>6 DEF Has

\* The names of the headers from position k on, and the list kept of them: one
\* header for each name, with the value set last.
NamesFrom(list, k) == {list[j].key : j \in k .. Len(list)}
KeptFrom(list, k, kept) ==
    /\ Len(kept) \in Nat /\ Len(kept) + k <= Len(list) + 1
    /\ IsFiniteSet(NamesFrom(list, k)) /\ Len(kept) = Cardinality(NamesFrom(list, k))
    /\ \A key : Has(kept, key) <=> key \in NamesFrom(list, k)
    /\ \A i \in k .. Len(list) :
          LastOf(list, list[i].key, i) => HeaderValue(kept, list[i].key) = <<list[i].value>>

\* Nothing is kept at first.
LEMMA KeptStarts ==
    ASSUME NEW S, NEW list \in Seq(S), NEW none, none = <<>>
    PROVE  KeptFrom(list, Len(list) + 1, none)
  <1>1. Len(list) \in Nat /\ Len(none) = 0 /\ Len(none) \in Nat
    BY LenProperties
  <1>2. \A i \in Len(list) + 1 .. Len(list) : FALSE
    BY <1>1
  <1>3. NamesFrom(list, Len(list) + 1) = {}
    BY <1>2 DEF NamesFrom
  <1>4. IsFiniteSet({}) /\ Cardinality({}) = 0
    BY FS_EmptySet
  <1>5. \A key : ~Has(none, key)
    <2>1. \A key : Lacks(none, key)
      BY <1>1 DEF Lacks
    <2>2. QED
      BY <1>1, <2>1, HeaderFacts
  <1>6. IsFiniteSet(NamesFrom(list, Len(list) + 1))
        /\ Len(none) = Cardinality(NamesFrom(list, Len(list) + 1))
    BY <1>1, <1>3, <1>4, Zenon
  <1>7. \A key : Has(none, key) <=> key \in NamesFrom(list, Len(list) + 1)
    BY <1>3, <1>5
  <1>8. Len(none) + (Len(list) + 1) <= Len(list) + 1
    BY <1>1
  <1>9. QED
    BY <1>1, <1>2, <1>6, <1>7, <1>8 DEF KeptFrom

NextKept(new, kept, h) == new = IF Has(kept, h.key) THEN kept ELSE <<h>> \o kept

\* A turn of the loop: the header is put in front unless its name is there.
LEMMA KeptSteps ==
    ASSUME NEW S, NEW list \in Seq(S), NEW k \in 1 .. Len(list), NEW kept \in Seq(S),
           KeptFrom(list, k + 1, kept), NEW new, NextKept(new, kept, list[k])
    PROVE  KeptFrom(list, k, new) /\ new \in Seq(S)
  <1> DEFINE h == list[k]
             N == NamesFrom(list, k + 1)
  <1>1. Len(list) \in Nat /\ h \in S /\ Len(kept) \in Nat
    BY LenProperties
  <1>2. /\ IsFiniteSet(N) /\ Len(kept) = Cardinality(N)
        /\ \A key : Has(kept, key) <=> key \in N
        /\ Len(kept) + (k + 1) <= Len(list) + 1
    BY DEF KeptFrom
  <1>3. \A i \in k + 1 .. Len(list) :
          LastOf(list, list[i].key, i) => HeaderValue(kept, list[i].key) = <<list[i].value>>
    BY DEF KeptFrom
  <1>4. k .. Len(list) = {k} \cup (k + 1 .. Len(list))
    BY <1>1
  <1>5. NamesFrom(list, k) = N \cup {h.key}
    BY <1>4 DEF NamesFrom
  <1>6. h.key \in N => ~LastOf(list, h.key, k)
    <2>1. SUFFICES ASSUME h.key \in N PROVE ~LastOf(list, h.key, k)
      OBVIOUS
    <2>2. PICK j \in k + 1 .. Len(list) : list[j].key = h.key
      BY <2>1 DEF NamesFrom
    <2> HIDE DEF h
    <2>3. QED
      BY <2>2 DEF LastOf
  <1>7. CASE h.key \in N
    <2>1. new = kept
      BY <1>2, <1>7 DEF NextKept
    <2>2. NamesFrom(list, k) = N
      BY <1>5, <1>7
    <2>3. ASSUME NEW i \in k .. Len(list), LastOf(list, list[i].key, i)
          PROVE  HeaderValue(new, list[i].key) = <<list[i].value>>
      <3>1. i # k
        BY <1>6, <1>7, <2>3
      <3>2. i \in k + 1 .. Len(list)
        BY <1>4, <3>1
      <3>3. QED
        BY <1>3, <2>1, <2>3, <3>2
    <2> HIDE DEF h, N
    <2>5. Len(new) + k <= Len(list) + 1
      BY <1>1, <1>2, <2>1
    <2>4. QED
      BY <1>1, <1>2, <2>1, <2>2, <2>3, <2>5 DEF KeptFrom, N
  <1>8. CASE h.key \notin N
    <2> DEFINE one == <<h>>
    <2>1. one \in Seq(S)
      BY <1>1
    <2>2. Joins(new, one, kept)
      BY <1>2, <1>8 DEF Joins, NextKept
    <2>3. /\ Len(one) = 1
          /\ \A key : HeaderValue(one, key) = IF h.key = key THEN <<h.value>> ELSE <<>>
          /\ \A key : Has(one, key) <=> h.key = key
      <3> HIDE DEF h
      <3>1. QED
        BY HeaderOfOne
    <2> HIDE DEF one, h, N
    <2>a. ASSUME NEW key
          PROVE  /\ new \in Seq(S) /\ Len(new) = Len(one) + Len(kept)
                 /\ HeaderValue(new, key) =
                       IF Has(one, key) THEN HeaderValue(one, key) ELSE HeaderValue(kept, key)
                 /\ Has(new, key) <=> Has(one, key) \/ Has(kept, key)
      <3>1. one \in Seq(S) /\ kept \in Seq(S)
        BY <2>1
      <3>2. QED
        BY <2>2, <3>1, HeaderOfJoined
    <2>4. /\ new \in Seq(S) /\ Len(new) = Len(one) + Len(kept)
          /\ \A key : /\ HeaderValue(new, key) =
                           IF Has(one, key) THEN HeaderValue(one, key) ELSE HeaderValue(kept, key)
                      /\ Has(new, key) <=> Has(one, key) \/ Has(kept, key)
      BY <2>a
    <2>5. IsFiniteSet(N \cup {h.key}) /\ Cardinality(N \cup {h.key}) = Cardinality(N) + 1
      BY <1>2, <1>8, FS_AddElement
    <2>6. Len(new) \in Nat /\ Len(new) = Cardinality(N \cup {h.key})
      BY <1>1, <1>2, <2>3, <2>4, <2>5
    <2>7. \A key : Has(new, key) <=> key \in N \cup {h.key}
      BY <1>2, <2>3, <2>4
    <2>8. ASSUME NEW i \in k .. Len(list), LastOf(list, list[i].key, i)
          PROVE  HeaderValue(new, list[i].key) = <<list[i].value>>
      <3>1. CASE i = k
        <4>1. list[i].key = h.key /\ list[i].value = h.value
          BY <3>1 DEF h
        <4>2. QED
          BY <2>3, <2>4, <4>1
      <3>2. CASE i \in k + 1 .. Len(list)
        <4>1. list[i].key \in N
          BY <3>2 DEF N, NamesFrom
        <4>2. list[i].key # h.key
          BY <1>8, <4>1
        <4>3. HeaderValue(new, list[i].key) = HeaderValue(kept, list[i].key)
          BY <2>3, <2>4, <4>2
        <4>4. QED
          BY <1>3, <2>8, <3>2, <4>3
      <3>3. QED
        BY <1>4, <3>1, <3>2
    <2>b. Len(new) + k <= Len(list) + 1
      BY <1>1, <1>2, <2>3, <2>4
    <2>9. QED
      BY <1>5, <2>4, <2>5, <2>6, <2>7, <2>8, <2>b DEF KeptFrom
  <1>9. QED
    BY <1>7, <1>8

\* LastOfEachName: one header for each name, in which the value set last.
LEMMA LastOfEachNameFacts ==
    ASSUME NEW S, NEW list \in Seq(S)
    PROVE  LastOfEachName(list) \in Seq(S) /\ KeptFrom(list, 1, LastOfEachName(list))
  <1> DEFINE n == Len(list)
             next(acc, h) == IF Has(acc, h.key) THEN acc ELSE <<h>> \o acc
             Made(f) == [i \in 0 .. n |-> IF i = 0 THEN <<>> ELSE next(f[i - 1], list[n + 1 - i])]
             F == CHOOSE f : f = Made(f)
  <1>1. n \in Nat /\ \A i \in 1 .. n : list[i] \in S
    BY LenProperties
  <1>2. LastOfEachName(list) = F[n]
    BY DEF LastOfEachName
  <1>3. \A acc \in Seq(S), h \in S : next(acc, h) \in Seq(S)
    OBVIOUS
  <1> HIDE DEF next
  <1>4. \E f \in [0 .. n -> Seq(S)] : f = Made(f)
    <2> DEFINE step == [i \in 1 .. n |-> [acc \in Seq(S) |-> next(acc, list[n + 1 - i])]]
    <2>1. step \in [1 .. n -> [Seq(S) -> Seq(S)]]
      <3>1. ASSUME NEW i \in 1 .. n, NEW acc \in Seq(S) PROVE next(acc, list[n + 1 - i]) \in Seq(S)
        <4>1. n + 1 - i \in 1 .. n
          BY <1>1
        <4>2. list[n + 1 - i] \in S
          BY <1>1, <4>1
        <4>3. QED
          BY <1>3, <4>2
      <3>2. QED
        BY <3>1
    <2>2. <<>> \in Seq(S)
      OBVIOUS
    <2>3. PICK f \in [0 .. n -> Seq(S)] : f[0] = <<>> /\ \A i \in 1 .. n : f[i] = step[i][f[i - 1]]
      <3>1. Steps(Seq(S), <<>>, n, step)
        BY <1>1, <2>1, <2>2 DEF Steps
      <3>2. \E f : Unfolds(f, Seq(S), <<>>, n, step)
        BY <3>1, Recursion
      <3> HIDE DEF step
      <3>3. QED
        BY <3>2 DEF Unfolds
    <2>4. ASSUME NEW i \in 1 .. n PROVE f[i] = next(f[i - 1], list[n + 1 - i])
      <3>1. f[i - 1] \in Seq(S)
        BY <1>1
      <3>2. QED
        BY <2>3, <3>1
    <2>5. f = Made(f)
      BY <2>3, <2>4
    <2>6. QED
      BY <2>5
  <1>5. F = Made(F)
    <2> HIDE DEF Made
    <2>1. QED
      BY <1>4
  <1> HIDE DEF F
  <1>6. F[0] = <<>> /\ \A i \in 1 .. n : F[i] = next(F[i - 1], list[n + 1 - i])
    <2> HIDE DEF n
    <2>1. F[0] = <<>>
      BY <1>1, <1>5
    <2>2. ASSUME NEW i \in 1 .. n PROVE F[i] = next(F[i - 1], list[n + 1 - i])
      <3>1. i \in 0 .. n /\ i # 0
        BY <1>1
      <3>2. F[i] = IF i = 0 THEN <<>> ELSE next(F[i - 1], list[n + 1 - i])
        BY <1>5, <3>1, Zenon
      <3>3. QED
        BY <3>1, <3>2, Zenon
    <2>3. QED
      BY <2>1, <2>2
  <1> DEFINE Good(m) == F[m] \in Seq(S) /\ KeptFrom(list, n + 1 - m, F[m])
             G == {m \in 0 .. n : Good(m)}
  <1>7. Good(0)
    <2>1. KeptFrom(list, n + 1, F[0])
      BY <1>6, KeptStarts
    <2>2. n + 1 - 0 = n + 1
      BY <1>1
    <2> HIDE DEF n
    <2>3. QED
      BY <1>6, <2>1, <2>2
  <1>8. ASSUME NEW m \in 0 .. n - 1, Good(m) PROVE Good(m + 1)
    <2> DEFINE k == n + 1 - (m + 1)
    <2>1. k \in 1 .. n /\ k + 1 = n + 1 - m /\ m + 1 \in 1 .. n /\ (m + 1) - 1 = m
      BY <1>1
    <2>2. F[m + 1] = next(F[m], list[k])
      BY <1>6, <2>1
    <2>3. NextKept(F[m + 1], F[m], list[k])
      BY <2>2 DEF next, NextKept
    <2>4. F[m] \in Seq(S) /\ KeptFrom(list, k + 1, F[m])
      BY <1>8, <2>1
    <2> HIDE DEF k
    <2>5. KeptFrom(list, k, F[m + 1]) /\ F[m + 1] \in Seq(S)
      BY <2>1, <2>3, <2>4, KeptSteps
    <2>6. QED
      BY <2>5 DEF k
  <1>9. Good(n)
    <2> HIDE DEF Good, n
    <2>1. 0 \in G
      BY <1>1, <1>7
    <2>2. ASSUME NEW m \in 0 .. n - 1, m \in G PROVE m + 1 \in G
      BY <1>1, <2>2, <1>8
    <2>a. n \in Nat
      BY <1>1
    <2> HIDE DEF G
    <2>3. 0 .. n \subseteq G
      BY <2>1, <2>2, <2>a, Climb
    <2>4. n \in G
      BY <2>3, <2>a
    <2>5. QED
      BY <2>4 DEF G
  <1>10. n + 1 - n = 1
    BY <1>1
  <1> HIDE DEF n
  <1>11. QED
    BY <1>2, <1>9, <1>10

\* What the caller gets of a list: the value of a header is the one set last,
\* and there are as many headers as names.
LEMMA KeptMeans ==
    ASSUME NEW S, NEW list \in Seq(S), NEW kept, kept = LastOfEachName(list)
    PROVE  /\ kept \in Seq(S) /\ Len(kept) = Cardinality(Distinct(list))
           /\ Len(kept) <= Len(list)
           /\ IsFiniteSet(Distinct(list))
           /\ \A key : Has(kept, key) <=> key \in Distinct(list)
           /\ \A key : HeaderValue(kept, key) = LastValue(list, key)
  <1>1. kept \in Seq(S) /\ KeptFrom(list, 1, kept)
    BY LastOfEachNameFacts
  <1>2. NamesFrom(list, 1) = Distinct(list)
    BY DEF NamesFrom, Distinct
  <1>3. /\ Len(kept) \in Nat /\ IsFiniteSet(Distinct(list))
        /\ Len(kept) = Cardinality(Distinct(list)) /\ Len(kept) + 1 <= Len(list) + 1
        /\ \A key : Has(kept, key) <=> key \in Distinct(list)
        /\ \A i \in 1 .. Len(list) :
             LastOf(list, list[i].key, i) => HeaderValue(kept, list[i].key) = <<list[i].value>>
    BY <1>1, <1>2 DEF KeptFrom
  <1>4. ASSUME NEW key PROVE HeaderValue(kept, key) = LastValue(list, key)
    <2>1. CASE key \in Distinct(list)
      <3>1. PICK i : LastOf(list, key, i)
        BY <2>1, LastValueFacts
      <3>2. i \in 1 .. Len(list) /\ list[i].key = key
        BY <3>1 DEF LastOf
      <3>3. HeaderValue(kept, key) = <<list[i].value>>
        BY <1>3, <3>1, <3>2
      <3>4. LastValue(list, key) = <<list[i].value>>
        BY <3>1, LastValueFacts
      <3>5. QED
        BY <3>3, <3>4
    <2>2. CASE key \notin Distinct(list)
      <3>1. LastValue(list, key) = <<>>
        BY <2>2, LastValueFacts
      <3>2. Lacks(kept, key)
        BY <1>3, <2>2, HeaderFacts
      <3>3. HeaderValue(kept, key) = <<>>
        BY <1>3, <3>2, HeaderFacts
      <3>4. QED
        BY <3>1, <3>3
    <2>3. QED
      BY <2>1, <2>2
  <1>5. Len(kept) <= Len(list)
    BY <1>3, LenProperties
  <1>6. QED
    BY <1>1, <1>3, <1>4, <1>5

-----------------------------------------------------------------------------
(* What the calls of the builder add and set.                               *)

Scripted == Len(script) \in Nat /\ \A i \in 1 .. Len(script) : IsBuilderCall(script[i])

\* The headers that the calls of the builder add, call by call.
AddsUp(f, n) ==
    f[0] = <<>> /\ \A i \in 1 .. n : Joins(f[i], f[i - 1], script[i].headers)

\* The headers added are those of a recursive function.
LEMMA AddedUnfolds ==
    ASSUME Scripted, NEW n \in 0 .. Len(script)
    PROVE  \E f \in [0 .. n -> Seq(GivenFields)] : AddsUp(f, n) /\ AddedBy(n) = f[n]
  <1> DEFINE S == GivenFields
             next(acc, i) == acc \o script[i].headers
             Made(f) == [i \in 0 .. n |-> IF i = 0 THEN <<>> ELSE next(f[i - 1], i)]
             F == CHOOSE f : f = Made(f)
  <1>1. n \in Nat /\ \A i \in 1 .. n : script[i].headers \in Seq(S)
    <2>1. Len(script) \in Nat /\ \A i \in 1 .. Len(script) : script[i].headers \in Seq(S)
      BY DEF Scripted, IsBuilderCall
    <2>2. QED
      BY <2>1
  <1>2. AddedBy(n) = F[n]
    BY DEF AddedBy
  <1>3. ASSUME NEW acc \in Seq(S), NEW i \in 1 .. n PROVE next(acc, i) \in Seq(S)
    <2>1. script[i].headers \in Seq(S)
      BY <1>1
    <2> HIDE DEF S
    <2>2. QED
      BY <2>1
  <1>a. \A f, i : next(f, i) = f \o script[i].headers
    OBVIOUS
  <1> HIDE DEF next, S
  <1>4. \E f \in [0 .. n -> Seq(S)] : f = Made(f)
    <2> DEFINE step == [i \in 1 .. n |-> [acc \in Seq(S) |-> next(acc, i)]]
    <2>1. step \in [1 .. n -> [Seq(S) -> Seq(S)]]
      BY <1>3
    <2>2. <<>> \in Seq(S)
      OBVIOUS
    <2>3. PICK f \in [0 .. n -> Seq(S)] : f[0] = <<>> /\ \A i \in 1 .. n : f[i] = step[i][f[i - 1]]
      <3>1. Steps(Seq(S), <<>>, n, step)
        BY <1>1, <2>1, <2>2 DEF Steps
      <3>2. \E f : Unfolds(f, Seq(S), <<>>, n, step)
        BY <3>1, Recursion
      <3> HIDE DEF step
      <3>3. QED
        BY <3>2 DEF Unfolds
    <2>4. ASSUME NEW i \in 1 .. n PROVE f[i] = next(f[i - 1], i)
      <3>1. f[i - 1] \in Seq(S)
        BY <1>1
      <3>2. QED
        BY <2>3, <3>1
    <2>5. f = Made(f)
      BY <2>3, <2>4
    <2>6. QED
      BY <2>5
  <1>5. F = Made(F) /\ F \in [0 .. n -> Seq(S)]
    <2>1. PICK f \in [0 .. n -> Seq(S)] : f = Made(f)
      BY <1>4
    <2> HIDE DEF Made
    <2>2. F = Made(F)
      BY <2>1
    <2> HIDE DEF F
    <2>3. DOMAIN F = 0 .. n
      BY <2>2 DEF Made
    <2> DEFINE Is(m) == F[m] = f[m]
               G == {m \in 0 .. n : Is(m)}
    <2>4. Is(0)
      <3>1. F[0] = <<>> /\ f[0] = <<>>
        BY <1>1, <2>1, <2>2 DEF Made
      <3>2. QED
        BY <3>1
    <2>5. ASSUME NEW m \in 0 .. n - 1, Is(m) PROVE Is(m + 1)
      <3>1. m + 1 \in 0 .. n /\ m + 1 # 0 /\ (m + 1) - 1 = m
        BY <1>1
      <3>2. F[m + 1] = next(F[m], m + 1) /\ f[m + 1] = next(f[m], m + 1)
        BY <2>1, <2>2, <3>1 DEF Made
      <3>3. QED
        BY <2>5, <3>2
    <2> HIDE DEF Is
    <2>6. 0 \in G /\ \A m \in 0 .. n - 1 : m \in G => m + 1 \in G
      BY <1>1, <2>4, <2>5
    <2> HIDE DEF G
    <2>7. 0 .. n \subseteq G
      BY <1>1, <2>6, Climb
    <2>8. \A m \in 0 .. n : F[m] = f[m]
      BY <2>7 DEF G, Is
    <2>9. F = f
      <3>1. F = [i \in 0 .. n |-> F[i]]
        BY <2>2 DEF Made
      <3>2. f = [i \in 0 .. n |-> f[i]]
        OBVIOUS
      <3>3. QED
        BY <2>8, <3>1, <3>2
    <2>10. QED
      BY <2>2, <2>9
  <1> HIDE DEF F
  <1>6. F[0] = <<>>
    BY <1>1, <1>5
  <1>7. ASSUME NEW i \in 1 .. n PROVE Joins(F[i], F[i - 1], script[i].headers)
    <2>1. i \in 0 .. n /\ i # 0
      BY <1>1
    <2>2. F[i] = IF i = 0 THEN <<>> ELSE next(F[i - 1], i)
      BY <1>5, <2>1, Zenon
    <2>3. F[i] = next(F[i - 1], i)
      BY <2>1, <2>2, Zenon
    <2>4. QED
      BY <1>a, <2>3, Zenon DEF Joins
  <1>8. AddsUp(F, n)
    BY <1>6, <1>7 DEF AddsUp
  <1>9. QED
    BY <1>2, <1>5, <1>8 DEF S

\* A further call of the builder adds its headers at the end.
LEMMA AddedSteps ==
    ASSUME Scripted
    PROVE  /\ AddedBy(0) = <<>>
           /\ \A n \in 0 .. Len(script) : AddedBy(n) \in Seq(GivenFields)
           /\ \A n \in 0 .. Len(script) - 1 :
                /\ Joins(AddedBy(n + 1), AddedBy(n), script[n + 1].headers)
                /\ Len(AddedBy(n + 1)) = Len(AddedBy(n)) + Len(script[n + 1].headers)
                /\ Len(script[n + 1].headers) \in Nat
  <1>1. Len(script) \in Nat
    BY DEF Scripted
  <1>2. AddedBy(0) = <<>>
    <2>1. 0 \in 0 .. Len(script)
      BY <1>1
    <2>2. PICK f \in [0 .. 0 -> Seq(GivenFields)] : AddsUp(f, 0) /\ AddedBy(0) = f[0]
      BY <2>1, AddedUnfolds
    <2>3. QED
      BY <2>2 DEF AddsUp
  <1>3. \A n \in 0 .. Len(script) : AddedBy(n) \in Seq(GivenFields)
    <2>1. SUFFICES ASSUME NEW n \in 0 .. Len(script) PROVE AddedBy(n) \in Seq(GivenFields)
      OBVIOUS
    <2>2. PICK f \in [0 .. n -> Seq(GivenFields)] : AddedBy(n) = f[n]
      BY AddedUnfolds
    <2>3. n \in 0 .. n
      BY <1>1
    <2>4. QED
      BY <2>2, <2>3
  <1>4. ASSUME NEW n \in 0 .. Len(script) - 1
        PROVE  Joins(AddedBy(n + 1), AddedBy(n), script[n + 1].headers)
    <2>1. n \in 0 .. Len(script) /\ n + 1 \in 0 .. Len(script) /\ n \in Nat /\ (n + 1) - 1 = n
      BY <1>1
    <2>2. PICK f \in [0 .. n -> Seq(GivenFields)] : AddsUp(f, n) /\ AddedBy(n) = f[n]
      BY <2>1, AddedUnfolds
    <2>3. PICK g \in [0 .. n + 1 -> Seq(GivenFields)] : AddsUp(g, n + 1) /\ AddedBy(n + 1) = g[n + 1]
      BY <2>1, AddedUnfolds
    <2> DEFINE Is(m) == f[m] = g[m]
               G == {m \in 0 .. n : Is(m)}
    <2>4. Is(0)
      BY <2>2, <2>3 DEF AddsUp
    <2>5. ASSUME NEW m \in 0 .. n - 1, Is(m) PROVE Is(m + 1)
      <3>1. m + 1 \in 1 .. n /\ m + 1 \in 1 .. n + 1 /\ (m + 1) - 1 = m
        BY <2>1
      <3>2. Joins(f[m + 1], f[m], script[m + 1].headers) /\ Joins(g[m + 1], g[m], script[m + 1].headers)
        BY <2>2, <2>3, <3>1 DEF AddsUp
      <3>3. f[m + 1] = f[m] \o script[m + 1].headers /\ g[m + 1] = g[m] \o script[m + 1].headers
        BY <3>2 DEF Joins
      <3>4. QED
        BY <2>5, <3>3, Zenon
    <2> HIDE DEF Is
    <2>6. 0 \in G /\ \A m \in 0 .. n - 1 : m \in G => m + 1 \in G
      BY <2>1, <2>4, <2>5
    <2> HIDE DEF G
    <2>7. 0 .. n \subseteq G
      BY <2>1, <2>6, Climb
    <2>8. f[n] = g[n]
      BY <2>1, <2>7 DEF G, Is
    <2>9. Joins(g[n + 1], g[n], script[n + 1].headers)
      <3>1. n + 1 \in 1 .. n + 1
        BY <2>1
      <3>2. QED
        BY <2>1, <2>3, <3>1 DEF AddsUp
    <2>10. QED
      BY <2>2, <2>3, <2>8, <2>9
  <1>5. ASSUME NEW n \in 0 .. Len(script) - 1
        PROVE  /\ Len(AddedBy(n + 1)) = Len(AddedBy(n)) + Len(script[n + 1].headers)
               /\ Len(script[n + 1].headers) \in Nat
    <2>1. n + 1 \in 1 .. Len(script) /\ n \in 0 .. Len(script)
      BY <1>1
    <2>2. AddedBy(n) \in Seq(GivenFields) /\ script[n + 1].headers \in Seq(GivenFields)
      BY <1>3, <2>1 DEF Scripted, IsBuilderCall
    <2>3. Lined(AddedBy(n + 1), AddedBy(n), script[n + 1].headers)
      BY <1>4, <2>2, Joined
    <2>4. QED
      BY <2>2, <2>3 DEF Lined
  <1>6. QED
    BY <1>2, <1>3, <1>4, <1>5

\* The list only grows.
LEMMA AddedGrows ==
    ASSUME Scripted, NEW n \in 0 .. Len(script)
    PROVE  Len(AddedBy(n)) \in Nat /\ Len(AddedBy(n)) <= Len(Added)
  <1> DEFINE L(m) == Len(AddedBy(m))
             d == Len(script) - n
             Is(i) == L(n) <= L(n + i)
             G == {i \in 0 .. d : Is(i)}
  <1>1. Len(script) \in Nat /\ d \in Nat /\ n \in Nat
    BY DEF Scripted
  <1>2. \A m \in 0 .. Len(script) : L(m) \in Nat
    <2>1. \A m \in 0 .. Len(script) : AddedBy(m) \in Seq(GivenFields)
      BY AddedSteps
    <2>2. QED
      BY <2>1
  <1>3. \A m \in 0 .. Len(script) - 1 : L(m) <= L(m + 1)
    <2>1. SUFFICES ASSUME NEW m \in 0 .. Len(script) - 1 PROVE L(m) <= L(m + 1)
      OBVIOUS
    <2>2. L(m + 1) = L(m) + Len(script[m + 1].headers) /\ Len(script[m + 1].headers) \in Nat
      BY AddedSteps
    <2>3. L(m) \in Nat
      BY <1>1, <1>2
    <2> HIDE DEF L
    <2>4. QED
      BY <2>2, <2>3
  <1> HIDE DEF L
  <1>4. Is(0)
    <2>1. n + 0 = n
      BY <1>1
    <2>2. QED
      BY <1>2, <2>1
  <1>5. ASSUME NEW i \in 0 .. d - 1, Is(i) PROVE Is(i + 1)
    <2>1. n + i \in 0 .. Len(script) - 1 /\ n + i \in 0 .. Len(script)
      BY <1>1
    <2>2. n + (i + 1) = (n + i) + 1 /\ (n + i) + 1 \in 0 .. Len(script)
      BY <1>1
    <2>3. L(n + i) <= L((n + i) + 1) /\ L(n + i) \in Nat /\ L((n + i) + 1) \in Nat /\ L(n) \in Nat
      BY <1>2, <1>3, <2>1, <2>2
    <2>4. L(n) <= L(n + i)
      BY <1>5
    <2>5. QED
      BY <2>2, <2>3, <2>4
  <1> HIDE DEF Is, d
  <1>6. 0 \in G /\ \A i \in 0 .. d - 1 : i \in G => i + 1 \in G
    BY <1>1, <1>4, <1>5
  <1> HIDE DEF G
  <1>7. 0 .. d \subseteq G
    BY <1>1, <1>6, Climb
  <1>8. Is(d)
    BY <1>1, <1>7 DEF G
  <1>9. n + d = Len(script)
    BY <1>1 DEF d
  <1>10. QED
    BY <1>2, <1>8, <1>9 DEF Is, L, Added

\* The status and the body after one call more.
LEMMA SetSteps ==
    ASSUME Scripted, NEW n \in 0 .. Len(script) - 1
    PROVE  /\ StatusBy(n + 1) = UnwrapOr(script[n + 1].status, StatusBy(n))
           /\ BodyBy(n + 1) = UnwrapOr(script[n + 1].body, BodyBy(n))
  <1>1. Len(script) \in Nat /\ n \in Nat /\ n + 1 \in Nat
    BY DEF Scripted
  <1>2. ASSUME NEW T, NEW U, T \subseteq 1 .. n, U = T \cup {n + 1}
        PROVE  Max(U) = n + 1
    <2>1. U \subseteq 0 .. n + 1 /\ n + 1 \in U /\ \A y \in U : n + 1 >= y
      BY <1>1, <1>2
    <2>2. QED
      BY <1>1, <2>1, MaxIs
  <1>3. StatusBy(n + 1) = UnwrapOr(script[n + 1].status, StatusBy(n))
    <2> DEFINE T == {i \in 1 .. n : script[i].status # <<>>}
               U == {i \in 1 .. n + 1 : script[i].status # <<>>}
    <2>1. /\ StatusBy(n) = IF T = {} THEN Known(200) ELSE script[Max(T)].status[1]
          /\ StatusBy(n + 1) = IF U = {} THEN Known(200) ELSE script[Max(U)].status[1]
      BY DEF StatusBy
    <2>2. T \subseteq 1 .. n
      OBVIOUS
    <2>3. script[n + 1].status # <<>> => U = T \cup {n + 1}
      BY <1>1
    <2>4. script[n + 1].status = <<>> => U = T
      BY <1>1
    <2> HIDE DEF T, U
    <2>5. CASE script[n + 1].status = <<>>
      BY <2>1, <2>4, <2>5 DEF UnwrapOr
    <2>6. CASE script[n + 1].status # <<>>
      <3>1. Max(U) = n + 1 /\ U # {}
        BY <1>2, <2>2, <2>3, <2>6
      <3>2. QED
        BY <2>1, <2>6, <3>1 DEF UnwrapOr
    <2>7. QED
      BY <2>5, <2>6
  <1>4. BodyBy(n + 1) = UnwrapOr(script[n + 1].body, BodyBy(n))
    <2> DEFINE T == {i \in 1 .. n : script[i].body # <<>>}
               U == {i \in 1 .. n + 1 : script[i].body # <<>>}
    <2>1. /\ BodyBy(n) = IF T = {} THEN Empty ELSE script[Max(T)].body[1]
          /\ BodyBy(n + 1) = IF U = {} THEN Empty ELSE script[Max(U)].body[1]
      BY DEF BodyBy
    <2>2. T \subseteq 1 .. n
      OBVIOUS
    <2>3. script[n + 1].body # <<>> => U = T \cup {n + 1}
      BY <1>1
    <2>4. script[n + 1].body = <<>> => U = T
      BY <1>1
    <2> HIDE DEF T, U
    <2>5. CASE script[n + 1].body = <<>>
      BY <2>1, <2>4, <2>5 DEF UnwrapOr
    <2>6. CASE script[n + 1].body # <<>>
      <3>1. Max(U) = n + 1 /\ U # {}
        BY <1>2, <2>2, <2>3, <2>6
      <3>2. QED
        BY <2>1, <2>6, <3>1 DEF UnwrapOr
    <2>7. QED
      BY <2>5, <2>6
  <1>5. QED
    BY <1>3, <1>4

\* The status and the body of HttpResponseBuilder::new.
LEMMA SetStarts == StatusBy(0) = Known(200) /\ BodyBy(0) = Empty
  <1>1. \A i \in 1 .. 0 : FALSE
    OBVIOUS
  <1>2. QED
    BY <1>1 DEF StatusBy, BodyBy

-----------------------------------------------------------------------------
(* parse_endpoint.                                                          *)

\* Texts of the same bytes are the same.
LEMMA SameText ==
    ASSUME NEW s \in Text, NEW t \in Text, Len(s) = Len(t), \A i \in 1 .. Len(s) : s[i] = t[i]
    PROVE  s = t
  <1>1. s = [i \in 1 .. Len(s) |-> s[i]] /\ t = [i \in 1 .. Len(t) |-> t[i]]
    BY DEF Text
  <1>2. QED
    BY <1>1

\* A text without a byte has it at no position.
LEMMA NotInFacts ==
    ASSUME NEW t \in Text, NEW byte
    PROVE  byte \notin ToSet(t) <=> \A i \in 1 .. Len(t) : t[i] # byte
  BY DEF ToSet, Text

\* CutFacts for texts.
LEMMA TextCut ==
    ASSUME NEW t \in Text, NEW k \in 1 .. Len(t)
    PROVE  /\ Before(t, k) \in Text /\ Len(Before(t, k)) = k - 1
           /\ \A i \in 1 .. k - 1 : Before(t, k)[i] = t[i]
           /\ After(t, k) \in Text /\ Len(After(t, k)) = Len(t) - k
           /\ \A i \in 1 .. Len(t) - k : After(t, k)[i] = t[k + i]
  <1>1. t \in Seq(Byte)
    BY DEF Text
  <1>2. QED
    BY <1>1, CutFacts DEF Text

\* Find and rfind, where there is such a byte.
LEMMA FindIs ==
    ASSUME NEW t \in Text, NEW byte, NEW k \in 1 .. Len(t), t[k] = byte
    PROVE  /\ (\A i \in 1 .. k - 1 : t[i] # byte) => Find(t, byte) = k
           /\ (\A i \in k + 1 .. Len(t) : t[i] # byte) => RFind(t, byte) = k
  <1>1. Len(t) \in Nat
    BY DEF Text
  <1>2. /\ Find(t, byte) \in 0 .. Len(t)
        /\ Find(t, byte) # 0 => t[Find(t, byte)] = byte
        /\ \A i \in 1 .. Len(t) : Find(t, byte) = 0 \/ i < Find(t, byte) => t[i] # byte
    BY <1>1, FindFacts
  <1>3. /\ RFind(t, byte) \in 0 .. Len(t)
        /\ RFind(t, byte) # 0 => t[RFind(t, byte)] = byte
        /\ \A i \in 1 .. Len(t) : i > RFind(t, byte) => t[i] # byte
    BY <1>1, RFindFacts
  <1>4. ASSUME \A i \in 1 .. k - 1 : t[i] # byte PROVE Find(t, byte) = k
    <2>1. Find(t, byte) # 0 /\ ~(k < Find(t, byte))
      BY <1>1, <1>2
    <2>2. ~(Find(t, byte) < k)
      <3>1. SUFFICES ASSUME Find(t, byte) < k PROVE FALSE
        OBVIOUS
      <3>2. Find(t, byte) \in 1 .. k - 1
        BY <1>1, <1>2, <2>1, <3>1
      <3>3. QED
        BY <1>2, <1>4, <2>1, <3>2
    <2>3. QED
      BY <1>1, <1>2, <2>1, <2>2
  <1>5. ASSUME \A i \in k + 1 .. Len(t) : t[i] # byte PROVE RFind(t, byte) = k
    <2>1. ~(k > RFind(t, byte))
      BY <1>1, <1>3
    <2>2. ~(RFind(t, byte) > k)
      <3>1. SUFFICES ASSUME RFind(t, byte) > k PROVE FALSE
        OBVIOUS
      <3>2. RFind(t, byte) \in k + 1 .. Len(t) /\ RFind(t, byte) # 0
        BY <1>1, <1>3, <3>1
      <3>3. QED
        BY <1>3, <1>5, <3>2
    <2>3. QED
      BY <1>1, <1>3, <2>1, <2>2
  <1>6. QED
    BY <1>4, <1>5

\* find and rfind, where there is no such byte.
LEMMA FindNone ==
    ASSUME NEW t \in Text, NEW byte, \A i \in 1 .. Len(t) : t[i] # byte
    PROVE  Find(t, byte) = 0 /\ RFind(t, byte) = 0
  <1>1. Len(t) \in Nat
    BY DEF Text
  <1>2. /\ Find(t, byte) \in 0 .. Len(t)
        /\ Find(t, byte) # 0 => t[Find(t, byte)] = byte
    BY <1>1, FindFacts
  <1>3. /\ RFind(t, byte) \in 0 .. Len(t)
        /\ RFind(t, byte) # 0 => t[RFind(t, byte)] = byte
    BY <1>1, RFindFacts
  <1>4. QED
    BY <1>1, <1>2, <1>3

\* The parts of a text of two parts.
LEMMA PartsOf ==
    ASSUME NEW s, NEW t, NEW u, s \in Text, t \in Text, Joins(u, s, t), t # <<>>
    PROVE  /\ u \in Text /\ Len(s) + 1 \in 1 .. Len(u) /\ Before(u, Len(s) + 1) = s
           /\ u[Len(s) + 1] = t[1]
  <1>1. u \in Text /\ Lined(u, s, t)
    BY JoinedText
  <1>2. /\ Len(s) \in Nat /\ Len(t) \in Nat /\ Len(t) # 0
    BY DEF Text
  <1>3. /\ Len(u) = Len(s) + Len(t)
        /\ \A i \in 1 .. Len(s) : u[i] = s[i]
        /\ \A i \in 1 .. Len(t) : u[Len(s) + i] = t[i]
    BY <1>1 DEF Lined
  <1>4. Len(s) + 1 \in 1 .. Len(u) /\ u[Len(s) + 1] = t[1]
    BY <1>2, <1>3
  <1>5. /\ Before(u, Len(s) + 1) \in Text /\ Len(Before(u, Len(s) + 1)) = (Len(s) + 1) - 1
        /\ \A i \in 1 .. (Len(s) + 1) - 1 : Before(u, Len(s) + 1)[i] = u[i]
    BY <1>1, <1>4, TextCut
  <1>6. (Len(s) + 1) - 1 = Len(s)
    BY <1>2
  <1>7. Before(u, Len(s) + 1) = s
    BY <1>3, <1>5, <1>6, SameText
  <1>8. QED
    BY <1>1, <1>4, <1>7

LEMMA RestOf ==
    ASSUME NEW s, NEW t, NEW u, s \in Text, t \in Text, Joins(u, s, t)
    PROVE  After(u, Len(s)) = t
  <1>1. u \in Text /\ Lined(u, s, t)
    BY JoinedText
  <1>2. /\ Len(s) \in Nat /\ Len(t) \in Nat
        /\ Len(u) = Len(s) + Len(t)
        /\ \A i \in 1 .. Len(t) : u[Len(s) + i] = t[i]
    BY <1>1 DEF Lined, Text
  <1>3. u \in Seq(Byte) /\ Len(s) + 1 \in 1 .. Len(u) + 1 /\ Len(u) \in (Len(s) + 1) - 1 .. Len(u)
    BY <1>1, <1>2 DEF Text
  <1> DEFINE v == SubSeq(u, Len(s) + 1, Len(u))
  <1>4. /\ v \in Seq(Byte) /\ Len(v) = Len(u) - (Len(s) + 1) + 1
        /\ \A i \in 1 .. Len(u) - (Len(s) + 1) + 1 : v[i] = u[(Len(s) + 1) + i - 1]
    BY <1>3, Part
  <1> HIDE DEF v
  <1>5. Len(u) - (Len(s) + 1) + 1 = Len(t)
    BY <1>2
  <1>6. v \in Text /\ Len(v) = Len(t)
    BY <1>4, <1>5 DEF Text
  <1>7. ASSUME NEW i \in 1 .. Len(t) PROVE v[i] = t[i]
    <2>1. (Len(s) + 1) + i - 1 = Len(s) + i
      BY <1>2
    <2>2. QED
      BY <1>2, <1>4, <1>5, <2>1
  <1>8. v = t
    BY <1>6, <1>7, SameText
  <1>9. QED
    BY <1>8 DEF v, After

\* The authority, and the path behind it.
LEMMA AuthorityFacts ==
    ASSUME NEW rest \in Text, NEW path \in Text,
           path = <<>> \/ Head(path) = Slash,
           NEW authority, authority = SubSeq(rest, 1, Len(rest) - Len(path)),
           Joins(rest, authority, path), Slash \notin ToSet(authority)
    PROVE  /\ authority \in Text
           /\ authority = IF Find(rest, Slash) = 0 THEN rest ELSE Before(rest, Find(rest, Slash))
           /\ After(rest, Len(authority)) = path
  <1>1. Len(rest) \in Nat /\ Len(path) \in Nat
    BY DEF Text
  <1>2. authority \in Text
    <2>1. CASE Len(path) <= Len(rest)
      <3>1. rest \in Seq(Byte) /\ 1 \in 1 .. Len(rest) + 1 /\ Len(rest) - Len(path) \in 1 - 1 .. Len(rest)
        BY <1>1, <2>1 DEF Text
      <3>2. SubSeq(rest, 1, Len(rest) - Len(path)) \in Seq(Byte)
        BY <3>1, Part
      <3>3. QED
        BY <3>2 DEF Text
    <2>2. CASE Len(path) > Len(rest)
      <3>1. Len(rest) - Len(path) < 1
        BY <1>1, <2>2
      <3>2. SubSeq(rest, 1, Len(rest) - Len(path)) = <<>>
        BY <1>1, <3>1
      <3>3. QED
        BY <3>2 DEF Text
    <2>3. QED
      BY <1>1, <2>1, <2>2
  <1>3. \A i \in 1 .. Len(authority) : authority[i] # Slash
    BY <1>2, NotInFacts
  <1>4. CASE path = <<>>
    <2>1. rest = authority
      BY <1>2, <1>4 DEF Joins, Text
    <2>2. Find(rest, Slash) = 0
      BY <1>3, <2>1, FindNone
    <2>3. QED
      BY <1>2, <2>1, <2>2, RestOf
  <1>5. CASE path # <<>>
    <2>1. Head(path) = Slash /\ path[1] = Slash
      BY <1>5 DEF Text
    <2>2. /\ rest \in Text /\ Len(authority) + 1 \in 1 .. Len(rest)
          /\ Before(rest, Len(authority) + 1) = authority
          /\ rest[Len(authority) + 1] = Slash
      BY <1>2, <1>5, <2>1, PartsOf
    <2>3. Lined(rest, authority, path)
      BY <1>2, JoinedText
    <2>4. \A i \in 1 .. (Len(authority) + 1) - 1 : rest[i] # Slash
      <3>1. (Len(authority) + 1) - 1 = Len(authority)
        BY <1>2 DEF Text
      <3>2. QED
        BY <1>3, <2>3, <3>1 DEF Lined
    <2>5. Find(rest, Slash) = Len(authority) + 1
      <3> DEFINE k == Len(authority) + 1
      <3>1. k \in 1 .. Len(rest) /\ rest[k] = Slash /\ \A i \in 1 .. k - 1 : rest[i] # Slash
        BY <2>2, <2>4
      <3> HIDE DEF k
      <3>2. Find(rest, Slash) = k
        BY <3>1, FindIs
      <3>3. QED
        BY <3>2 DEF k
    <2>6. Find(rest, Slash) # 0
      BY <2>2, <2>5
    <2>7. QED
      BY <1>2, <2>2, <2>5, <2>6, RestOf
  <1>6. QED
    BY <1>4, <1>5

\* The host and the port.
LEMMA HostFacts ==
    ASSUME NEW host \in Text, NEW authority \in Text,
           NEW digits, digits = After(authority, Len(host) + 1),
           NEW a, NEW c, c = <<Colon>>, Joins(a, host, c), Joins(authority, a, digits),
           Colon \notin ToSet(digits)
    PROVE  /\ RFind(authority, Colon) = Len(host) + 1
           /\ Before(authority, Len(host) + 1) = host
  <1>1. c \in Text /\ Len(c) = 1 /\ c[1] = Colon /\ c # <<>>
    BY DEF Text, Byte, Colon
  <1>2. a \in Text /\ Lined(a, host, c)
    BY <1>1, JoinedText
  <1>3. Len(host) \in Nat /\ Len(authority) \in Nat
    BY DEF Text
  <1>4. digits \in Text
    <2>1. CASE Len(host) + 1 <= Len(authority)
      <3>1. Len(host) + 1 \in 1 .. Len(authority)
        BY <1>3, <2>1
      <3>2. QED
        BY <3>1, TextCut
    <2>2. CASE Len(host) + 1 > Len(authority)
      <3>1. Len(host) + 1 + 1 > Len(authority)
        BY <1>3, <2>2
      <3>2. SubSeq(authority, Len(host) + 1 + 1, Len(authority)) = <<>>
        BY <1>3, <3>1
      <3>3. QED
        BY <3>2 DEF After, Text
    <2>3. QED
      BY <1>3, <2>1, <2>2
  <1>5. Lined(authority, a, digits)
    BY <1>2, <1>4, JoinedText
  <1>6. /\ Len(a) = Len(host) + 1 /\ \A i \in 1 .. Len(host) : a[i] = host[i]
        /\ a[Len(host) + 1] = Colon
    BY <1>1, <1>2 DEF Lined
  <1>7. /\ Len(authority) = Len(a) + Len(digits) /\ Len(digits) \in Nat
        /\ \A i \in 1 .. Len(a) : authority[i] = a[i]
        /\ \A i \in 1 .. Len(digits) : authority[Len(a) + i] = digits[i]
    BY <1>4, <1>5 DEF Lined, Text
  <1>8. /\ Len(host) + 1 \in 1 .. Len(authority) /\ authority[Len(host) + 1] = Colon
    BY <1>3, <1>6, <1>7
  <1>9. ASSUME NEW i \in (Len(host) + 1) + 1 .. Len(authority) PROVE authority[i] # Colon
    <2>1. i - (Len(host) + 1) \in 1 .. Len(digits) /\ Len(a) + (i - (Len(host) + 1)) = i
      BY <1>3, <1>6, <1>7
    <2>2. authority[i] = digits[i - (Len(host) + 1)]
      BY <1>7, <2>1
    <2>3. \A j \in 1 .. Len(digits) : digits[j] # Colon
      BY <1>4, NotInFacts
    <2>4. QED
      BY <2>1, <2>2, <2>3
  <1>10. RFind(authority, Colon) = Len(host) + 1
    BY <1>8, <1>9, FindIs
  <1>11. Before(authority, Len(host) + 1) = host
    <2>1. /\ Before(authority, Len(host) + 1) \in Text
          /\ Len(Before(authority, Len(host) + 1)) = (Len(host) + 1) - 1
          /\ \A i \in 1 .. (Len(host) + 1) - 1 : Before(authority, Len(host) + 1)[i] = authority[i]
      BY <1>8, TextCut
    <2>2. (Len(host) + 1) - 1 = Len(host)
      BY <1>3
    <2>3. \A i \in 1 .. Len(host) : i \in 1 .. Len(a) /\ authority[i] = host[i]
      BY <1>3, <1>6, <1>7
    <2>4. QED
      BY <2>1, <2>2, <2>3, SameText
  <1>12. QED
    BY <1>10, <1>11

\* parse_endpoint takes a well-formed URL apart.
LEMMA EndpointFacts ==
    ASSUME NEW url, IsUrl(url), WellFormedPath(url)
    PROVE  /\ parse_endpoint(url).host = url.host
           /\ parse_endpoint(url).port = url.port
           /\ parse_endpoint(url).path = IF url.path = <<>> THEN <<Slash>> ELSE url.path
           /\ DOMAIN parse_endpoint(url) = {"scheme", "host", "port", "path"}
  <1> DEFINE rest == url.rest
             authority == SubSeq(rest, 1, Len(rest) - Len(url.path))
             slash == Find(rest, Slash)
             found == IF slash = 0 THEN rest ELSE Before(rest, slash)
             colon == RFind(found, Colon)
             port == IF colon = 0 THEN NaN ELSE ParseNumber(After(found, colon), MaxU16)
             digits == After(authority, Len(url.host) + 1)
  <1>1. rest \in Text /\ url.path \in Text /\ url.host \in Text /\ Spelt(url)
    BY DEF IsUrl
  <1>2. rest = authority \o url.path /\ Slash \notin ToSet(authority)
    BY <1>1 DEF Spelt
  <1>3. \/ /\ authority = url.host /\ url.port = DefaultPort(url.scheme)
           /\ \A i \in DOMAIN authority :
                 authority[i] = Colon /\ Colon \notin ToSet(After(authority, i)) =>
                     ParseNumber(After(authority, i), MaxU16) = NaN
        \/ /\ authority = url.host \o <<Colon>> \o digits /\ Colon \notin ToSet(digits)
           /\ url.port = ParseNumber(digits, MaxU16) /\ url.port # NaN
    BY <1>1 DEF Spelt
  <1>4. parse_endpoint(url) =
          [scheme |-> url.scheme,
           host |-> IF port = NaN THEN found ELSE Before(found, colon),
           port |-> IF port = NaN THEN DefaultPort(url.scheme) ELSE port,
           path |-> IF After(rest, Len(found)) = <<>> THEN <<Slash>> ELSE After(rest, Len(found))]
    BY DEF parse_endpoint
  <1>5. url.path = <<>> \/ Head(url.path) = Slash
    BY DEF WellFormedPath
  <1>a. authority = SubSeq(rest, 1, Len(rest) - Len(url.path)) /\ Joins(rest, authority, url.path)
    BY <1>2 DEF Joins
  <1> HIDE DEF rest, authority
  <1>6. authority \in Text /\ authority = found /\ After(rest, Len(authority)) = url.path
    BY <1>1, <1>2, <1>5, <1>a, AuthorityFacts
  <1> HIDE DEF found
  <1>7. (IF port = NaN THEN found ELSE Before(found, colon)) = url.host
        /\ (IF port = NaN THEN DefaultPort(url.scheme) ELSE port) = url.port
    <2>1. CASE /\ authority = url.host /\ url.port = DefaultPort(url.scheme)
               /\ \A i \in DOMAIN authority :
                     authority[i] = Colon /\ Colon \notin ToSet(After(authority, i)) =>
                         ParseNumber(After(authority, i), MaxU16) = NaN
      <3>1. Len(authority) \in Nat
        BY <1>6 DEF Text
      <3>2. /\ colon \in 0 .. Len(authority)
            /\ colon # 0 => authority[colon] = Colon
            /\ \A i \in 1 .. Len(authority) : i > colon => authority[i] # Colon
        BY <1>6, <3>1, RFindFacts
      <3> HIDE DEF colon
      <3>3. port = NaN
        <4>1. CASE colon = 0
          BY <4>1
        <4>2. CASE colon # 0
          <5>1. colon \in 1 .. Len(authority) /\ colon \in DOMAIN authority
            BY <1>6, <3>1, <3>2, <4>2 DEF Text
          <5>2. After(authority, colon) \in Text
                /\ Len(After(authority, colon)) = Len(authority) - colon
                /\ \A i \in 1 .. Len(authority) - colon : After(authority, colon)[i] = authority[colon + i]
            BY <1>6, <5>1, TextCut
          <5>3. ASSUME NEW i \in 1 .. Len(After(authority, colon))
                PROVE  After(authority, colon)[i] # Colon
            <6>1. colon + i \in 1 .. Len(authority) /\ colon + i > colon
              BY <3>1, <5>1, <5>2
            <6>2. QED
              BY <3>2, <5>2, <6>1
          <5>4. Colon \notin ToSet(After(authority, colon))
            BY <5>2, <5>3, NotInFacts
          <5>5. ParseNumber(After(authority, colon), MaxU16) = NaN
            BY <2>1, <3>2, <4>2, <5>1, <5>4
          <5>6. QED
            BY <1>6, <4>2, <5>5
        <4>3. QED
          BY <4>1, <4>2
      <3>4. QED
        BY <1>6, <2>1, <3>3
    <2>2. CASE /\ authority = url.host \o <<Colon>> \o digits /\ Colon \notin ToSet(digits)
               /\ url.port = ParseNumber(digits, MaxU16) /\ url.port # NaN
      <3> DEFINE c == <<Colon>>
                 a == url.host \o c
      <3>1. Joins(a, url.host, c) /\ Joins(authority, a, digits) /\ c = <<Colon>>
        BY <2>2 DEF Joins
      <3>2. digits = After(authority, Len(url.host) + 1)
        OBVIOUS
      <3> HIDE DEF a, c, digits
      <3>3. Colon \notin ToSet(digits)
        BY <2>2
      <3>4. RFind(authority, Colon) = Len(url.host) + 1 /\ Before(authority, Len(url.host) + 1) = url.host
        <4> HIDE <2>2
        <4>1. QED
          BY <1>1, <1>6, <3>1, <3>2, <3>3, HostFacts
      <3>5. colon = Len(url.host) + 1 /\ colon # 0
        <4>1. Len(url.host) \in Nat
          BY <1>1 DEF Text
        <4>2. QED
          BY <1>6, <3>4, <4>1
      <3>6. port = url.port /\ port # NaN
        BY <1>6, <2>2, <3>2, <3>5
      <3> HIDE DEF port, colon
      <3>7. QED
        BY <1>6, <3>4, <3>5, <3>6
    <2>3. QED
      BY <1>3, <2>1, <2>2
  <1> HIDE DEF port, colon
  <1>8. QED
    BY <1>4, <1>6, <1>7

-----------------------------------------------------------------------------
(* How much of a body is read.                                              *)

\* A length at which reading may end cuts the body as it is stated.
LEMMA BodyCut ==
    ASSUME NEW body, body \in Text, NEW stated, NEW n \in 0 .. Len(body),
           \A k \in 0 .. Len(body) : stated = <<ToString(k)>> => k <= n
    PROVE  /\ Len(SubSeq(body, 1, n)) = n
           /\ CutAs(SubSeq(body, 1, n), body, stated)
  <1>1. Len(body) \in Nat /\ body \in Seq(Byte)
    BY DEF Text
  <1>2. Len(SubSeq(body, 1, n)) = n - 1 + 1
    <2>1. 1 \in 1 .. Len(body) + 1 /\ n \in 1 - 1 .. Len(body)
      BY <1>1
    <2>2. QED
      BY <1>1, <2>1, Part
  <1>3. n - 1 + 1 = n
    BY <1>1
  <1> DEFINE some == SubSeq(body, 1, n)
  <1>4. some \in {SubSeq(body, 1, m) : m \in 0 .. Len(body)}
    OBVIOUS
  <1>5. Len(some) = n
    BY <1>2, <1>3
  <1> HIDE DEF some
  <1>6. CutAs(some, body, stated)
    BY <1>4, <1>5 DEF CutAs
  <1>7. QED
    BY <1>5, <1>6 DEF some

\* All of a body.
LEMMA WholeCut ==
    ASSUME NEW body, body \in Text
    PROVE  SubSeq(body, 1, Len(body)) = body
  <1>1. Len(body) \in Nat /\ body \in Seq(Byte)
    BY DEF Text
  <1> DEFINE some == SubSeq(body, 1, Len(body))
  <1>2. /\ some \in Seq(Byte) /\ Len(some) = Len(body) - 1 + 1
        /\ \A i \in 1 .. Len(body) - 1 + 1 : some[i] = body[1 + i - 1]
    <2>1. 1 \in 1 .. Len(body) + 1 /\ Len(body) \in 1 - 1 .. Len(body)
      BY <1>1
    <2>2. QED
      BY <1>1, <2>1, Part
  <1> HIDE DEF some
  <1>3. /\ some \in Text /\ Len(some) = Len(body)
        /\ \A i \in 1 .. Len(some) : some[i] = body[i]
    BY <1>1, <1>2 DEF Text
  <1>4. some = body
    BY <1>3, SameText
  <1>5. QED
    BY <1>4 DEF some

-----------------------------------------------------------------------------
(* The request.                                                             *)

\* What build_req writes for a call.
WireOf(c) == build_req(c, parse_endpoint(c.url))

\* What was chosen at the start, and is never changed.
Chosen ==
    /\ IsCall(call) /\ handler \in {"builder", "simple", "fails"}
    /\ DOMAIN script = 1 .. Len(script) /\ Scripted

Begun == {"endpoint", "ask", "parse"}
Served == {"query", "decode", "handle", "serialise", "answer", "panicked"}

\* What the server may make of it.
Parsed(r) == \E n \in BodyLengths(WireOf(call)) : r = parse_from(Cut(WireOf(call), n))

\* The request the server holds is the one the client wrote.
Requested ==
    /\ at \in Begun \cup Served \cup {"done"}
    /\ endpoint = Nothing \/ endpoint = parse_endpoint(call.url)
    /\ at = "ask" => endpoint = parse_endpoint(call.url)
    /\ at = "parse" => wire = WireOf(call)
    /\ at \in Begun => request = Nothing
    /\ at \in Served => request # Nothing
    /\ request # Nothing => Parsed(request) /\ ~TooManyHeaders(WireOf(call))
    /\ at = "done" /\ request = Nothing =>
          \/ call.url.scheme = "other" \/ TooManyHeaders(WireOf(call))
          \/ LengthUnmet(WireOf(call))

RequestInv == Chosen /\ Requested

\* A parsed request is a request.
LEMMA NotNothing ==
    ASSUME NEW w
    PROVE  parse_from(w) # Nothing
  <1>1. DOMAIN parse_from(w) = {"method", "path", "headers", "body"}
    BY DEF parse_from
  <1>2. DOMAIN Nothing = {"error"}
    BY DEF Nothing
  <1>3. QED
    BY <1>1, <1>2

\* The request that is read, cut or not, has all but the rest of the body.
LEMMA ParsedFacts ==
    ASSUME NEW w, w = WireOf(call), NEW n, NEW r, r = parse_from(Cut(w, n))
    PROVE  /\ r.method = call.method /\ r.path = FirstWord(w.path)
           /\ r.headers = w.headers /\ r.body = SubSeq(UnwrapOr(call.body, <<>>), 1, n)
  <1> DEFINE list == w.headers
             path == w.path
             body == w.body
  <1>1. /\ w = [method |-> call.method, path |-> path, headers |-> list, body |-> body]
        /\ body = UnwrapOr(call.body, <<>>)
    BY DEF WireOf, build_req
  <1> DEFINE cut == Cut(w, n)
             some == SubSeq(body, 1, n)
  <1>2. cut = [w EXCEPT !.body = some]
    BY DEF Cut
  <1> HIDE DEF list, path, body, some, cut
  <1>3. /\ cut.method = call.method /\ cut.path = path
        /\ cut.headers = list /\ cut.body = some
    BY <1>1, <1>2
  <1>4. parse_from(cut) = [method |-> call.method, path |-> FirstWord(path),
                           headers |-> list, body |-> some]
    BY <1>3 DEF parse_from
  <1>5. /\ r.method = call.method /\ r.path = FirstWord(path)
        /\ r.headers = list /\ r.body = some
    BY <1>4 DEF cut
  <1>6. QED
    BY <1>1, <1>5 DEF list, path, some

\* Nothing is asked at first.
LEMMA RequestInit == Init => RequestInv
  <1>1. SUFFICES ASSUME Init PROVE RequestInv
    OBVIOUS
  <1>2. PICK x \in Exchanges : call = x.call /\ handler = x.handler /\ script = x.script
    BY <1>1 DEF Init
  <1>3. Chosen
    BY <1>2, ExchangesAssumption DEF Chosen, Scripted
  <1>4. at = "endpoint" /\ endpoint = Nothing /\ request = Nothing
    BY <1>1 DEF Init
  <1>5. Requested
    BY <1>4 DEF Requested, Begun, Served
  <1>6. QED
    BY <1>3, <1>5 DEF RequestInv

\* The steps of the server's side, after the request is read.
Serving ==
    \/ NextPair \/ DecodeByte \/ CallBuilder \/ BuildResponse \/ HandleSimply \/ HandlerFails
    \/ Serialise \/ ParseResp

\* A dropped connection is the end of the exchange.
LEMMA DropFacts == Dropped => at' = "done" /\ \E e : answer' = [error |-> e]
  BY DEF Dropped, Fails

\* What percent_decode leaves alone.
LEMMA DecodeFacts ==
    DecodeByte =>
        /\ at = "decode" /\ at' \in {"query", "decode"}
        /\ UNCHANGED <<asked, wire, request, remaining, pairs, served, answer>>
  <1>1. ASSUME NEW e, NEW b, at = "decode", Decoded(e, b) PROVE at' \in {"query", "decode"}
    BY <1>1 DEF Decoded
  <1>2. ASSUME NEW b, NEW r, at = "decode", Put(b, r) PROVE at' \in {"query", "decode"}
    BY <1>1, <1>2 DEF Put
  <1> USE DEF DecodeByte
  <1>3. SUFFICES ASSUME DecodeByte PROVE at' \in {"query", "decode"}
    OBVIOUS
  <1> DEFINE input == Head(texts)
  <1>4. /\ at = "decode"
        /\ \/ Decoded("none", out)
           \/ Decoded("InvalidResponse", <<>>)
           \/ Put(Space, Tail(input))
           \/ Put(Head(input), Tail(input))
           \/ Put(16 * hex_value(input[2]) + hex_value(input[3]), After(input, 3))
    BY <1>3
  <1>5. QED
    BY <1>1, <1>2, <1>4

\* The server leaves alone what was asked.
LEMMA ServingFacts ==
    ASSUME Serving
    PROVE  /\ at \in Served /\ at' \in Served \cup {"done"}
           /\ UNCHANGED <<call, endpoint, request, handler, script>>
  <1> USE DEF asked, query, served, Served
  <1>1. CASE NextPair
    BY <1>1 DEF NextPair
  <1>2. CASE DecodeByte
    BY <1>2, DecodeFacts
  <1>3. CASE CallBuilder
    BY <1>3 DEF CallBuilder
  <1>4. CASE BuildResponse \/ HandleSimply \/ HandlerFails
    BY <1>4 DEF BuildResponse, HandleSimply, HandlerFails, Returns
  <1>5. CASE Serialise
    BY <1>5, DropFacts DEF Serialise
  <1>6. CASE ParseResp
    BY <1>6 DEF ParseResp, Fails
  <1>7. QED
    BY <1>1, <1>2, <1>3, <1>4, <1>5, <1>6 DEF Serving

\* Every step of the exchange keeps the request what the caller asked.
LEMMA RequestSteps == RequestInv /\ [Next]_vars => RequestInv'
  <1>1. SUFFICES ASSUME RequestInv, [Next]_vars PROVE RequestInv'
    OBVIOUS
  <1>2. Chosen /\ Requested
    BY <1>1 DEF RequestInv
  <1>3. ASSUME UNCHANGED <<call, handler, script>> PROVE Chosen'
    BY <1>2, <1>3 DEF Chosen, Scripted
  <1>4. CASE ParseEndpoint
    <2>1. UNCHANGED <<call, handler, script, request>> /\ at = "endpoint"
      BY <1>4 DEF ParseEndpoint, served
    <2>2. request' = Nothing
      BY <1>2, <2>1 DEF Requested, Begun
    <2>3. CASE call.url.scheme = "other"
      <3>1. at' = "done" /\ endpoint' = endpoint
        BY <1>4, <2>3 DEF ParseEndpoint, Fails
      <3>2. Requested'
        BY <1>2, <2>1, <2>2, <2>3, <3>1 DEF Requested, Begun, Served
      <3>3. QED
        BY <1>3, <2>1, <3>2 DEF RequestInv
    <2>4. CASE call.url.scheme # "other"
      <3>1. at' = "ask" /\ endpoint' = parse_endpoint(call.url)
        BY <1>4, <2>4 DEF ParseEndpoint
      <3>2. Requested'
        BY <2>1, <2>2, <3>1 DEF Requested, Begun, Served
      <3>3. QED
        BY <1>3, <2>1, <3>2 DEF RequestInv
    <2>5. QED
      BY <2>3, <2>4
  <1>5. CASE Ask
    <2>1. /\ at = "ask" /\ at' = "parse" /\ UNCHANGED <<call, handler, script, request, endpoint>>
          /\ wire' = build_req(call, endpoint)
      BY <1>5 DEF Ask, served, asked
    <2>2. wire' = WireOf(call) /\ request' = Nothing
      BY <1>2, <2>1 DEF Requested, Begun, WireOf
    <2>3. Requested'
      BY <1>2, <2>1, <2>2 DEF Requested, Begun, Served
    <2>4. QED
      BY <1>3, <2>1, <2>3 DEF RequestInv
  <1>6. CASE ParseRequest
    <2>1. at = "parse" /\ UNCHANGED <<call, handler, script, endpoint>>
      BY <1>6 DEF ParseRequest, served, asked
    <2>2. wire = WireOf(call) /\ request = Nothing
      BY <1>2, <2>1 DEF Requested, Begun
    <2>3. CASE (TooManyHeaders(wire) \/ LengthUnmet(wire)) /\ Dropped /\ UNCHANGED request
      <3>1. at' = "done" /\ request' = request
        BY <2>3, DropFacts
      <3>2. Requested'
        BY <1>2, <2>1, <2>2, <2>3, <3>1 DEF Requested, Begun, Served
      <3>3. QED
        BY <1>3, <2>1, <3>2 DEF RequestInv
    <2>4. CASE /\ ~TooManyHeaders(wire) /\ at' \in {"query", "handle"}
               /\ \E n \in BodyLengths(wire) : request' = parse_from(Cut(wire, n))
      <3>1. request' # Nothing
        BY <2>4, NotNothing
      <3>2. Parsed(request')
        BY <2>2, <2>4 DEF Parsed
      <3>3. WireOf(call)' = WireOf(call) /\ (Parsed(request)' <=> Parsed(request'))
        BY <2>1 DEF WireOf, Parsed
      <3>4. Requested'
        BY <1>2, <2>1, <2>2, <2>4, <3>1, <3>2, <3>3 DEF Requested, Begun, Served
      <3>5. QED
        BY <1>3, <2>1, <3>4 DEF RequestInv
    <2>5. QED
      BY <1>6, <2>3, <2>4 DEF ParseRequest
  <1>7. CASE Serving
    <2>1. /\ at \in Served /\ at' \in Served \cup {"done"}
          /\ UNCHANGED <<call, endpoint, request, handler, script>>
      BY <1>7, ServingFacts
    <2>2. request # Nothing /\ at' \notin Begun
      BY <1>2, <2>1 DEF Requested, Begun, Served
    <2>3. at' # "ask" /\ at' # "parse"
      BY <2>1 DEF Served
    <2>a. WireOf(call)' = WireOf(call) /\ (Parsed(request)' <=> Parsed(request))
      BY <2>1 DEF WireOf, Parsed
    <2>4. Requested'
      BY <1>2, <2>1, <2>2, <2>3, <2>a DEF Requested
    <2>5. QED
      BY <1>3, <2>1, <2>4 DEF RequestInv
  <1>8. CASE UNCHANGED vars
    <2>1. UNCHANGED <<call, handler, script, endpoint, request, at, wire>>
      BY <1>8 DEF vars, asked, served
    <2>a. WireOf(call)' = WireOf(call) /\ (Parsed(request)' <=> Parsed(request))
      BY <2>1 DEF WireOf, Parsed
    <2>2. Requested'
      BY <1>2, <2>1, <2>a DEF Requested
    <2>3. QED
      BY <1>3, <2>1, <2>2 DEF RequestInv
  <1>9. QED
    BY <1>1, <1>4, <1>5, <1>6, <1>7, <1>8 DEF Next, Serving

\* From parse_endpoint to the end of the exchange the request is the one that
\* build_req wrote for the call, and none was refused that has room for its
\* headers.
THEOREM RequestInvariant == Spec => []RequestInv
  <1>1. Init => RequestInv
    BY RequestInit
  <1>2. RequestInv /\ [Next]_vars => RequestInv'
    BY RequestSteps
  <1>3. QED
    BY <1>1, <1>2, PTL DEF Spec

\* The list of headers that build_req writes.
LEMMA WireFacts ==
    ASSUME RequestInv
    PROVE  /\ Len(WireOf(call).headers) = HeadersSent /\ HeadersSent \in Nat
           /\ \A key : WellFormedPath(call.url) \/ key # "host" =>
                HeaderValue(WireOf(call).headers, key) = Sent(key)
  <1> DEFINE url == call.url
             H == call.headers
             first == Header("host", ToString(parse_endpoint(url).host))
             size == ContentLength(Len(call.body[1]))
             last == Header("connection", "close")
             S == GivenFields \cup {first, size, last}
             A == <<first>>
             B == A \o H
             sized == call.body # <<>> /\ ~Has(H, "content-length")
             C == IF sized THEN <<size>> ELSE <<>>
             D == B \o C
             Z == <<last>>
             W == D \o Z
  <1>1. IsCall(call) /\ H \in Seq(GivenFields)
    BY DEF RequestInv, Chosen, IsCall
  <1>2. WireOf(call).headers = W
    BY DEF WireOf, build_req
  <1>3. H \in Seq(S)
    <2>1. Len(H) \in Nat /\ H \in [1 .. Len(H) -> GivenFields]
      BY <1>1, LenProperties
    <2>2. H \in [1 .. Len(H) -> S]
      BY <2>1
    <2> HIDE DEF S
    <2>3. QED
      BY <2>1, <2>2, SeqDef
  <1>4. A \in Seq(S) /\ C \in Seq(S) /\ Z \in Seq(S)
    <2>1. first \in S /\ size \in S /\ last \in S
      OBVIOUS
    <2> HIDE DEF S, first, size, last, sized
    <2>2. QED
      BY <2>1
  <1>5. Joins(B, A, H) /\ Joins(D, B, C) /\ Joins(W, D, Z)
    BY DEF Joins
  <1>6. ASSUME NEW key
        PROVE  /\ Len(A) = 1 /\ Len(Z) = 1
               /\ Len(C) = IF sized THEN 1 ELSE 0
               /\ HeaderValue(A, key) = IF key = "host" THEN <<first.value>> ELSE <<>>
               /\ Has(A, key) <=> key = "host"
               /\ HeaderValue(C, key) = IF sized /\ key = "content-length" THEN <<size.value>> ELSE <<>>
               /\ Has(C, key) <=> sized /\ key = "content-length"
               /\ HeaderValue(Z, key) = IF key = "connection" THEN <<"close">> ELSE <<>>
    <2>1. /\ first.key = "host" /\ size.key = "content-length"
          /\ last.key = "connection" /\ last.value = "close"
      BY DEF Header, ContentLength
    <2> HIDE DEF first, size, last
    <2>2. /\ Len(A) = 1
          /\ HeaderValue(A, key) = IF first.key = key THEN <<first.value>> ELSE <<>>
          /\ Has(A, key) <=> first.key = key
      BY HeaderOfOne
    <2>3. /\ Len(Z) = 1
          /\ HeaderValue(Z, key) = IF last.key = key THEN <<last.value>> ELSE <<>>
      BY HeaderOfOne
    <2>4. CASE sized
      <3>1. C = <<size>>
        BY <2>4
      <3> HIDE DEF C, sized
      <3>2. /\ Len(C) = 1
            /\ HeaderValue(C, key) = IF size.key = key THEN <<size.value>> ELSE <<>>
            /\ Has(C, key) <=> size.key = key
        BY <3>1, HeaderOfOne
      <3>3. QED
        BY <2>1, <2>2, <2>3, <2>4, <3>2
    <2>5. CASE ~sized
      <3>1. C = <<>>
        BY <2>5
      <3> HIDE DEF C, sized
      <3>2. Len(C) = 0 /\ Len(C) \in Nat
        BY <3>1
      <3>3. Lacks(C, key)
        BY <3>2 DEF Lacks
      <3>4. HeaderValue(C, key) = <<>> /\ ~Has(C, key)
        BY <3>2, <3>3, HeaderFacts
      <3>5. QED
        BY <2>1, <2>2, <2>3, <2>5, <3>2, <3>4
    <2>6. QED
      BY <2>4, <2>5
  <1>7. sized <=> call.body # <<>> /\ ~OwnLength(H)
    <2>1. Has(H, "content-length") <=> OwnLength(H)
      <3>1. Len(H) \in Nat
        BY <1>1
      <3>2. Has(H, "content-length") <=> ~Lacks(H, "content-length")
        BY <3>1, HeaderFacts
      <3>3. "content-length" \in Distinct(H) <=> ~Lacks(H, "content-length")
        BY <1>1, LastValueFacts
      <3>4. QED
        BY <3>2, <3>3 DEF OwnLength
    <2>2. QED
      BY <2>1
  <1>8. /\ first.value = ToString(parse_endpoint(url).host)
        /\ size.value = ToString(Len(call.body[1]))
    BY DEF Header, ContentLength
  <1> HIDE DEF S, first, size, last, sized, A, B, C, D, Z, W
  <1>9. ASSUME NEW key
        PROVE  /\ Len(B) = Len(A) + Len(H) /\ B \in Seq(S)
               /\ HeaderValue(B, key) = IF Has(A, key) THEN HeaderValue(A, key) ELSE HeaderValue(H, key)
               /\ Has(B, key) <=> Has(A, key) \/ Has(H, key)
    <2> HIDE DEF H
    <2>1. A \in Seq(S) /\ H \in Seq(S)
      BY <1>3, <1>4
    <2>2. Joins(B, A, H)
      BY <1>5
    <2>3. QED
      BY <2>1, <2>2, HeaderOfJoined
  <1>10. ASSUME NEW key
         PROVE  /\ Len(D) = Len(B) + Len(C) /\ D \in Seq(S)
                /\ HeaderValue(D, key) = IF Has(B, key) THEN HeaderValue(B, key) ELSE HeaderValue(C, key)
                /\ Has(D, key) <=> Has(B, key) \/ Has(C, key)
    BY <1>4, <1>5, <1>9, HeaderOfJoined
  <1>11. ASSUME NEW key
         PROVE  /\ Len(W) = Len(D) + Len(Z)
                /\ HeaderValue(W, key) = IF Has(D, key) THEN HeaderValue(D, key) ELSE HeaderValue(Z, key)
    BY <1>4, <1>5, <1>10, HeaderOfJoined
  <1>12. Len(W) = HeadersSent /\ HeadersSent \in Nat
    <2>1. Len(H) \in Nat
      BY <1>1
    <2>2. Len(A) = 1 /\ Len(Z) = 1 /\ Len(C) = IF sized THEN 1 ELSE 0
      BY <1>6
    <2>3. Len(W) = 1 + Len(H) + (IF sized THEN 1 ELSE 0) + 1
      BY <1>9, <1>10, <1>11, <2>2
    <2>4. HeadersSent = 2 + Len(H) + (IF sized THEN 1 ELSE 0)
      BY <1>7 DEF HeadersSent
    <2> HIDE DEF H
    <2>5. QED
      BY <2>1, <2>3, <2>4
  <1>13. ASSUME NEW key, WellFormedPath(url) \/ key # "host" PROVE HeaderValue(W, key) = Sent(key)
    <2>1. key = "host" => parse_endpoint(url).host = url.host
      BY <1>1, <1>13, EndpointFacts DEF IsCall
    <2>2. HeaderValue(H, key) = FirstValue(H, key)
      BY <1>1, FirstValueFacts
    <2>3. Has(H, key) <=> FirstValue(H, key) # <<>>
      BY <2>2 DEF Has
    <2>4. OwnLength(H) <=> FirstValue(H, "content-length") # <<>>
      <3>1. FirstValue(H, "content-length") = HeaderValue(H, "content-length")
        BY <1>1, FirstValueFacts
      <3>2. Len(H) \in Nat
        BY <1>1
      <3>3. Has(H, "content-length") <=> ~Lacks(H, "content-length")
        BY <3>2, HeaderFacts
      <3>4. "content-length" \in Distinct(H) <=> ~Lacks(H, "content-length")
        BY <1>1, LastValueFacts
      <3>5. QED
        BY <3>1, <3>3, <3>4 DEF OwnLength, Has
    <2>5. Sent(key) =
            IF key = "host" THEN <<ToString(url.host)>>
            ELSE IF FirstValue(H, key) # <<>> THEN FirstValue(H, key)
            ELSE IF key = "connection" THEN <<"close">>
            ELSE IF key = "content-length" /\ call.body # <<>> THEN <<ToString(Len(call.body[1]))>>
            ELSE <<>>
      BY DEF Sent
    <2> HIDE DEF H, url
    <2>6. HeaderValue(W, key) =
            IF key = "host" THEN <<first.value>>
            ELSE IF Has(H, key) THEN HeaderValue(H, key)
            ELSE IF sized /\ key = "content-length" THEN <<size.value>>
            ELSE IF key = "connection" THEN <<"close">> ELSE <<>>
      BY <1>6, <1>9, <1>10, <1>11
    <2>7. QED
      BY <1>7, <1>8, <2>1, <2>2, <2>3, <2>4, <2>5, <2>6
  <1>14. QED
    BY <1>2, <1>12, <1>13

\* What the caller put together, the handler gets apart, for every call, its own
\* Content-Length true or not, and every number of headers the server holds
\* (parse_endpoint, build_req, read_request, parse_from).
THEOREM RequestArrivesAlways == Spec => []RequestArrives
  <1>1. RequestInv => RequestArrives
    <2>1. SUFFICES ASSUME RequestInv PROVE RequestArrives
      OBVIOUS
    <2>2. Requested /\ IsCall(call) /\ IsUrl(call.url)
      BY <2>1 DEF RequestInv, Chosen, IsCall
    <2>3. /\ Len(WireOf(call).headers) = HeadersSent /\ HeadersSent \in Nat
          /\ \A key : WellFormedPath(call.url) \/ key # "host" =>
                HeaderValue(WireOf(call).headers, key) = Sent(key)
      BY <2>1, WireFacts
    <2> DEFINE stated == Sent("content-length")
    <2>a. HeaderValue(WireOf(call).headers, "content-length") = stated
      BY <2>3
    <2>b. WireOf(call).body = BodyGiven /\ BodyGiven \in Text
      <3>1. WireOf(call).body = BodyGiven
        BY DEF WireOf, build_req, BodyGiven
      <3>2. call.body \in Seq(Text) /\ <<>> \in Text
        BY <2>2 DEF IsCall, Text
      <3>3. BodyGiven \in Text
        <4> HIDE DEF Text
        <4>1. call.body # <<>> => call.body[1] \in Text
          BY <3>2
        <4>2. QED
          BY <3>2, <4>1 DEF BodyGiven, UnwrapOr
      <3>4. QED
        BY <3>1, <3>3
    <2> HIDE DEF stated
    <2>4. TooManyHeaders(WireOf(call)) <=> HeadersSent > MaxHeaders
      BY <2>3 DEF TooManyHeaders
    <2>5. HeadersSent > MaxHeaders \/ HeadersSent <= MaxHeaders
      BY <2>3, MessageAssumption
    <2>6. ASSUME WellFormedPath(call.url), endpoint # Nothing
          PROVE  endpoint.host = call.url.host /\ endpoint.port = call.url.port
      <3>1. endpoint = parse_endpoint(call.url)
        BY <2>2, <2>6 DEF Requested
      <3>2. QED
        BY <2>2, <2>6, <3>1, EndpointFacts
    <2>7. ASSUME request # Nothing
          PROVE  /\ HeadersSent <= MaxHeaders
                 /\ request.method = call.method /\ CutAs(request.body, BodyGiven, stated)
                 /\ WellFormedPath(call.url) =>
                       /\ request.path = IF call.url.path = <<>> THEN <<Slash>> ELSE call.url.path
                       /\ \A key \in Names : HeaderValue(request.headers, key) = Sent(key)
      <3>1. Parsed(request) /\ ~TooManyHeaders(WireOf(call))
        BY <2>2, <2>7 DEF Requested
      <3>a. PICK n \in BodyLengths(WireOf(call)) : request = parse_from(Cut(WireOf(call), n))
        BY <3>1 DEF Parsed
      <3>2. /\ request.method = call.method /\ request.body = SubSeq(BodyGiven, 1, n)
            /\ request.headers = WireOf(call).headers
            /\ request.path = FirstWord(parse_endpoint(call.url).path)
        <4>1. WireOf(call).path = parse_endpoint(call.url).path
          BY DEF WireOf, build_req
        <4>2. QED
          BY <3>a, <4>1, ParsedFacts DEF BodyGiven
      <3>b. CutAs(request.body, BodyGiven, stated)
        <4>1. /\ n \in 0 .. Len(BodyGiven)
              /\ \A k \in 0 .. Len(BodyGiven) : stated = <<ToString(k)>> => k <= n
          BY <2>a, <2>b DEF BodyLengths, States
        <4>2. QED
          BY <2>b, <3>2, <4>1, BodyCut
      <3>3. ASSUME WellFormedPath(call.url)
            PROVE  request.path = IF call.url.path = <<>> THEN <<Slash>> ELSE call.url.path
        <4> DEFINE path == IF call.url.path = <<>> THEN <<Slash>> ELSE call.url.path
        <4>1. parse_endpoint(call.url).path = path
          BY <2>2, <3>3, EndpointFacts
        <4>2. path \in Text /\ \A i \in 1 .. Len(path) : path[i] # Space
          <5>1. CASE call.url.path = <<>>
            <6>1. path = <<Slash>>
              BY <5>1
            <6>a. Slash \in Byte
              BY DEF Byte, Slash
            <6>b. <<Slash>> \in Seq(Byte) /\ Len(<<Slash>>) = 1 /\ <<Slash>>[1] = Slash
              BY <6>a
            <6>2. Len(path) = 1 /\ path[1] = Slash /\ path \in Text
              BY <6>1, <6>b, Zenon DEF Text
            <6> HIDE DEF path
            <6>3. QED
              BY <6>2 DEF Slash, Space
          <5>2. CASE call.url.path # <<>>
            <6>1. path = call.url.path /\ Space \notin ToSet(path) /\ path \in Text
              BY <2>2, <3>3, <5>2 DEF WellFormedPath, IsUrl
            <6> HIDE DEF path
            <6>2. QED
              BY <6>1, NotInFacts
          <5>3. QED
            BY <5>1, <5>2
        <4> HIDE DEF path
        <4>3. Find(path, Space) = 0
          BY <4>2, FindNone
        <4>4. FirstWord(path) = path
          BY <4>3 DEF FirstWord, SplitOnce
        <4>5. QED
          BY <3>2, <4>1, <4>4 DEF path
      <3>4. QED
        BY <2>3, <2>4, <2>5, <3>1, <3>2, <3>3, <3>b
    <2>8. at = "done" /\ request = Nothing =>
            \/ call.url.scheme = "other" \/ HeadersSent > MaxHeaders
            \/ StatesMore(BodyGiven, stated)
      <3>1. LengthUnmet(WireOf(call)) => StatesMore(BodyGiven, stated)
        BY <2>a, <2>b DEF LengthUnmet, States, StatesMore, Has
      <3>2. QED
        BY <2>2, <2>4, <3>1 DEF Requested
    <2>9. QED
      BY <2>6, <2>7, <2>8 DEF RequestArrives, stated
  <1>2. QED
    BY <1>1, RequestInvariant, PTL

-----------------------------------------------------------------------------
(* The answer.                                                              *)

\* The builder holds what the calls so far have given it.
Assembled ==
    /\ made \in 0 .. Len(script)
    /\ builder.headers = AddedBy(made) /\ builder.status = StatusBy(made)
    /\ UnwrapOr(builder.body, Empty) = BodyBy(made)
    /\ Len(builder.headers) <= MaxHeaders

Busy == Begun \cup {"query", "decode", "handle"}

\* What the handler has returned, and what becomes of it.
ReplyOf(r) == build_bytes(IF r = <<>> THEN text_error ELSE r[1])
Outcome ==
    \/ handler = "fails" /\ response = <<>>
    \/ handler = "simple" /\ response = <<SimpleHandler(request)>>
    \/ handler = "builder" /\ response = <<>> /\ Len(Added) > MaxHeaders
    \/ handler = "builder" /\ response = <<Built(builder)>> /\ made = Len(script)
Silent(a) == "status" \notin DOMAIN a
Got(a, reply) == \E n \in BodyLengths(reply) : a = parse_resp(Cut(reply, n))

Answered ==
    /\ at \in Busy \/ request = Nothing => response = <<>>
    /\ at \in {"serialise", "answer", "panicked"} => Outcome
    /\ at = "done" /\ request # Nothing => Outcome
    /\ at = "answer" => wire = ReplyOf(response) /\ ~(Size(wire) > ReplyLen)
    /\ at = "panicked" => Bare(ReplyOf(response))
    /\ at = "done" =>
          \/ /\ Silent(answer)
             /\ request # Nothing =>
                   Size(ReplyOf(response)) > ReplyLen \/ LengthUnmet(ReplyOf(response))
          \/ /\ Got(answer, ReplyOf(response))
             /\ request # Nothing /\ ~(Size(ReplyOf(response)) > ReplyLen)

AnswerInv == Assembled /\ Answered

\* Nothing is answered at first.
LEMMA AnswerInit == Init => AnswerInv
  <1>1. SUFFICES ASSUME Init PROVE AnswerInv
    OBVIOUS
  <1>2. Scripted
    BY <1>1, RequestInit DEF RequestInv, Chosen
  <1>3. made = 0 /\ builder = NewBuilder /\ at = "endpoint" /\ response = <<>>
    BY <1>1 DEF Init
  <1>4. builder.headers = <<>> /\ builder.status = Known(200) /\ builder.body = <<>>
    BY <1>3 DEF NewBuilder
  <1>5. Assembled
    <2>1. 0 \in 0 .. Len(script)
      BY <1>2 DEF Scripted
    <2>2. builder.headers = AddedBy(made)
      BY <1>2, <1>3, <1>4, AddedSteps
    <2>3. builder.status = StatusBy(made) /\ UnwrapOr(builder.body, Empty) = BodyBy(made)
      BY <1>3, <1>4, SetStarts DEF UnwrapOr
    <2>4. Len(builder.headers) <= MaxHeaders
      <3>1. Len(builder.headers) = 0
        BY <1>4
      <3>2. QED
        BY <3>1, MessageAssumption
    <2>5. QED
      BY <1>3, <2>1, <2>2, <2>3, <2>4 DEF Assembled
  <1>6. Answered
    BY <1>3 DEF Answered
  <1>7. QED
    BY <1>5, <1>6 DEF AnswerInv

\* An error is no response.
LEMMA SilentFacts ==
    ASSUME NEW e
    PROVE  Silent([error |-> e])
  <1>1. DOMAIN [error |-> e] = {"error"}
    OBVIOUS
  <1>2. QED
    BY <1>1 DEF Silent

\* The next call of the builder, when the list has room for its headers.
LEMMA CallSteps ==
    ASSUME RequestInv, Assembled, CallBuilder
    PROVE  /\ Assembled'
           /\ \/ /\ at' = "handle" /\ UNCHANGED <<response, handler, script, request>>
              \/ /\ at' = "serialise" /\ Len(Added) > MaxHeaders
                 /\ UNCHANGED <<response, handler, script, request, made, builder>>
  <1> DEFINE op == script[made + 1]
             n == Len(builder.headers) + Len(op.headers)
  <1>1. /\ Scripted /\ made \in 0 .. Len(script) - 1 /\ made \in 0 .. Len(script)
        /\ made + 1 \in 0 .. Len(script) /\ Len(script) \in Nat
    <2>1. Scripted /\ Len(script) \in Nat
      BY DEF RequestInv, Chosen, Scripted
    <2>2. made \in 0 .. Len(script) /\ made < Len(script)
      BY DEF Assembled, CallBuilder
    <2>3. QED
      BY <2>1, <2>2
  <1>2. UNCHANGED <<response, handler, script, request>> /\ at = "handle"
    BY DEF CallBuilder, query, asked
  <1>3. /\ Joins(AddedBy(made + 1), AddedBy(made), op.headers)
        /\ Len(AddedBy(made + 1)) = n
        /\ builder.headers = AddedBy(made)
    <2>1. builder.headers = AddedBy(made)
      BY DEF Assembled
    <2>2. QED
      BY <1>1, <2>1, AddedSteps
  <1>4. n \in Nat /\ n <= Len(Added)
    BY <1>1, <1>3, AddedGrows
  <1>5. /\ StatusBy(made + 1) = UnwrapOr(op.status, StatusBy(made))
        /\ BodyBy(made + 1) = UnwrapOr(op.body, BodyBy(made))
    BY <1>1, SetSteps
  <1>6. CASE n > MaxHeaders
    <2>1. at' = "serialise" /\ UNCHANGED <<made, builder>>
      BY <1>6 DEF CallBuilder
    <2>2. Len(Added) > MaxHeaders
      <3>1. Len(Added) \in Nat
        <4>1. Len(script) \in 0 .. Len(script)
          BY <1>1
        <4>2. QED
          BY <1>1, <4>1, AddedGrows DEF Added
      <3> HIDE DEF n
      <3>2. QED
        BY <1>4, <1>6, <3>1, MessageAssumption
    <2>3. Assembled'
      BY <1>2, <2>1 DEF Assembled, AddedBy, StatusBy, BodyBy
    <2>4. QED
      BY <1>2, <2>1, <2>2, <2>3
  <1>7. CASE ~(n > MaxHeaders)
    <2>1. made' = made + 1 /\ builder' = Applied(builder, op) /\ at' = "handle"
      BY <1>2, <1>7 DEF CallBuilder
    <2>2. n <= MaxHeaders
      <3> HIDE DEF n
      <3>1. QED
        BY <1>4, <1>7, MessageAssumption
    <2>3. /\ builder'.headers = builder.headers \o op.headers
          /\ builder'.status = UnwrapOr(op.status, builder.status)
          /\ builder'.body = IF op.body = <<>> THEN builder.body ELSE op.body
      BY <2>1 DEF Applied
    <2>4. builder'.headers = AddedBy(made + 1)
      BY <1>3, <2>3, Zenon DEF Joins
    <2>5. builder'.status = StatusBy(made + 1)
      BY <1>5, <2>3 DEF Assembled
    <2>6. UnwrapOr(builder'.body, Empty) = BodyBy(made + 1)
      <3>1. UnwrapOr(builder.body, Empty) = BodyBy(made)
        BY DEF Assembled
      <3>2. CASE op.body = <<>>
        BY <1>5, <2>3, <3>1, <3>2 DEF UnwrapOr
      <3>3. CASE op.body # <<>>
        BY <1>5, <2>3, <3>3 DEF UnwrapOr
      <3>4. QED
        BY <3>2, <3>3
    <2>7. Len(builder'.headers) <= MaxHeaders
      BY <1>3, <2>2, <2>4
    <2> HIDE DEF op, n
    <2>8. script' = script /\ made' = made + 1
      BY <1>2, <2>1
    <2>9. /\ AddedBy(made)' = AddedBy(made + 1) /\ StatusBy(made)' = StatusBy(made + 1)
          /\ BodyBy(made)' = BodyBy(made + 1)
      BY <2>8 DEF AddedBy, StatusBy, BodyBy
    <2>10. UnwrapOr(builder.body, Empty)' = UnwrapOr(builder'.body, Empty)
      BY DEF UnwrapOr
    <2>11. Assembled'
      BY <1>1, <2>4, <2>5, <2>6, <2>7, <2>8, <2>9, <2>10 DEF Assembled
    <2>12. QED
      BY <1>2, <2>1, <2>11
  <1>8. QED
    BY <1>6, <1>7

\* What is made of the same reply is the same after a step.
LEMMA Reprimed ==
    ASSUME NEW reply, ReplyOf(response)' = reply
    PROVE  /\ Bare(ReplyOf(response))' <=> Bare(reply)
           /\ Size(ReplyOf(response))' = Size(reply)
           /\ LengthUnmet(ReplyOf(response))' <=> LengthUnmet(reply)
           /\ Got(answer, ReplyOf(response))' <=> Got(answer', reply)
  <1>1. /\ Bare(ReplyOf(response))' <=> Bare(reply)
        /\ Size(ReplyOf(response))' = Size(reply)
        /\ LengthUnmet(ReplyOf(response))' <=> LengthUnmet(reply)
    OBVIOUS
  <1>2. /\ BodyLengths(ReplyOf(response))' = BodyLengths(reply)
        /\ \A n : parse_resp(Cut(ReplyOf(response), n))' = parse_resp(Cut(reply, n))
    OBVIOUS
  <1>3. QED
    BY <1>1, <1>2 DEF Got

\* Every step keeps what is under way the answer of the handler.
LEMMA AnswerSteps ==
    ASSUME RequestInv, RequestInv', AnswerInv, [Next]_vars
    PROVE  AnswerInv'
  <1>1. Requested /\ Chosen /\ Assembled /\ Answered /\ Requested'
    BY DEF RequestInv, AnswerInv
  <1>2. ASSUME UNCHANGED <<script, made, builder>> PROVE Assembled'
    BY <1>1, <1>2 DEF Assembled, AddedBy, StatusBy, BodyBy
  <1>3. ASSUME UNCHANGED <<script, made, builder, handler, response, request>>
        PROVE  (Outcome <=> Outcome') /\ ReplyOf(response)' = ReplyOf(response)
    <2>1. Added' = Added
      BY <1>3 DEF Added, AddedBy
    <2>2. ReplyOf(response)' = ReplyOf(response')
      BY DEF ReplyOf, build_bytes, text_error, write_head_bytes
    <2>3. QED
      BY <1>3, <2>1, <2>2 DEF Outcome
  <1>4. CASE ParseEndpoint
    <2>1. at = "endpoint" /\ UNCHANGED <<script, made, builder, handler, response, request>>
      BY <1>4 DEF ParseEndpoint, served
    <2>2. request = Nothing /\ response = <<>>
      BY <1>1, <2>1 DEF Requested, Begun, Answered, Busy
    <2>3. CASE call.url.scheme = "other"
      <3>1. at' = "done" /\ answer' = [error |-> "InvalidUrl"]
        BY <1>4, <2>3 DEF ParseEndpoint, Fails
      <3>2. Silent(answer')
        BY <3>1, SilentFacts
      <3>3. Answered'
        BY <2>1, <2>2, <3>1, <3>2 DEF Answered, Busy, Begun, Silent
      <3>4. QED
        BY <1>2, <2>1, <3>3 DEF AnswerInv
    <2>4. CASE call.url.scheme # "other"
      <3>1. at' = "ask"
        BY <1>4, <2>4 DEF ParseEndpoint
      <3>2. Answered'
        BY <2>1, <2>2, <3>1 DEF Answered
      <3>3. QED
        BY <1>2, <2>1, <3>2 DEF AnswerInv
    <2>5. QED
      BY <2>3, <2>4
  <1>5. CASE Ask
    <2>1. at = "ask" /\ at' = "parse" /\ UNCHANGED <<script, made, builder, handler, response, request>>
      BY <1>5 DEF Ask, served
    <2>2. response = <<>>
      BY <1>1, <2>1 DEF Begun, Answered, Busy
    <2>3. Answered'
      BY <2>1, <2>2 DEF Answered
    <2>4. QED
      BY <1>2, <2>1, <2>3 DEF AnswerInv
  <1>6. CASE ParseRequest
    <2>1. at = "parse" /\ UNCHANGED <<script, made, builder, handler, response>>
      BY <1>6 DEF ParseRequest, served
    <2>2. request = Nothing /\ response = <<>>
      BY <1>1, <2>1 DEF Requested, Begun, Answered, Busy
    <2>3. CASE Dropped /\ UNCHANGED request
      <3>1. at' = "done" /\ request' = request /\ \E e : answer' = [error |-> e]
        BY <2>3, DropFacts
      <3>2. Silent(answer')
        BY <3>1, SilentFacts
      <3>3. request' = Nothing
        BY <2>2, <3>1
      <3>4. Answered'
        BY <2>1, <2>2, <3>1, <3>2, <3>3 DEF Answered, Busy, Begun, Silent, Nothing
      <3>5. QED
        BY <1>2, <2>1, <3>4 DEF AnswerInv
    <2>4. CASE at' \in {"query", "handle"}
      <3>1. Answered'
        BY <2>1, <2>2, <2>4 DEF Answered
      <3>2. QED
        BY <1>2, <2>1, <3>1 DEF AnswerInv
    <2>5. QED
      BY <1>6, <2>3, <2>4 DEF ParseRequest
  <1>7. CASE NextPair \/ DecodeByte
    <2>1. /\ at \in {"query", "decode"} /\ at' \in {"query", "decode", "handle"}
          /\ UNCHANGED <<script, made, builder, handler, response, request>>
      BY <1>7, DecodeFacts DEF NextPair, served
    <2>2. response = <<>>
      BY <1>1, <2>1 DEF Answered, Busy
    <2>3. Answered'
      BY <2>1, <2>2 DEF Answered
    <2>4. QED
      BY <1>2, <2>1, <2>3 DEF AnswerInv
  <1>8. CASE CallBuilder
    <2>1. /\ Assembled'
          /\ \/ /\ at' = "handle" /\ UNCHANGED <<response, handler, script, request>>
             \/ /\ at' = "serialise" /\ Len(Added) > MaxHeaders
                /\ UNCHANGED <<response, handler, script, request, made, builder>>
      BY <1>1, <1>8, CallSteps
    <2>2. response = <<>> /\ handler = "builder"
      BY <1>1, <1>8 DEF Answered, Busy, CallBuilder
    <2>3. CASE at' = "handle" /\ UNCHANGED <<response, handler, script, request>>
      <3>1. Answered'
        BY <2>2, <2>3 DEF Answered
      <3>2. QED
        BY <2>1, <3>1 DEF AnswerInv
    <2>4. CASE /\ at' = "serialise" /\ Len(Added) > MaxHeaders
               /\ UNCHANGED <<response, handler, script, request, made, builder>>
      <3>1. Outcome
        BY <2>2, <2>4 DEF Outcome
      <3>2. Outcome'
        BY <1>3, <2>4, <3>1
      <3>3. Answered'
        BY <2>2, <2>4, <3>2 DEF Answered
      <3>4. QED
        BY <2>1, <3>3 DEF AnswerInv
    <2>5. QED
      BY <2>1, <2>3, <2>4
  <1>9. CASE BuildResponse \/ HandleSimply \/ HandlerFails
    <2>1. at' = "serialise" /\ UNCHANGED <<script, made, builder, handler, request>>
      BY <1>9 DEF BuildResponse, HandleSimply, HandlerFails, Returns
    <2>2. \/ handler = "fails" /\ response' = <<>>
          \/ handler = "simple" /\ response' = <<SimpleHandler(request)>>
          \/ handler = "builder" /\ response' = <<Built(builder)>> /\ made = Len(script)
      BY <1>9 DEF BuildResponse, HandleSimply, HandlerFails, Returns
    <2>3. Outcome'
      BY <2>1, <2>2 DEF Outcome
    <2>4. (request # Nothing)'
      BY <1>1, <2>1 DEF Requested, Served
    <2>5. Answered'
      BY <2>1, <2>3, <2>4 DEF Answered, Busy, Begun
    <2>6. QED
      BY <1>2, <2>1, <2>5 DEF AnswerInv
  <1>10. CASE Serialise
    <2> DEFINE reply == ReplyOf(response)
    <2>1. at = "serialise" /\ UNCHANGED <<script, made, builder, handler, response, request>>
      BY <1>10 DEF Serialise, served
    <2>2. Outcome' /\ ReplyOf(response)' = reply
      BY <1>1, <1>3, <2>1 DEF Answered
    <2>a. (request # Nothing)'
      BY <1>1, <2>1 DEF Requested, Served, Nothing
    <2>3. \/ Size(reply) > ReplyLen /\ Dropped
          \/ ~(Size(reply) > ReplyLen) /\ at' = "answer" /\ wire' = reply
      BY <1>10 DEF Serialise, ReplyOf
    <2> HIDE DEF reply
    <2>4. CASE Size(reply) > ReplyLen /\ Dropped
      <3>1. at' = "done" /\ \E e : answer' = [error |-> e]
        BY <2>4, DropFacts
      <3>2. Silent(answer')
        BY <3>1, SilentFacts
      <3>3. Silent(answer)'
        BY <3>2 DEF Silent
      <3>4. Size(ReplyOf(response))' > ReplyLen
        <4>1. Size(ReplyOf(response))' = Size(reply)
          BY <2>2 DEF Size
        <4>2. QED
          BY <2>4, <4>1
      <3>5. Answered'
        BY <2>2, <2>a, <3>1, <3>3, <3>4 DEF Answered, Busy, Begun
      <3>6. QED
        BY <1>2, <2>1, <3>5 DEF AnswerInv
    <2>5. CASE ~(Size(reply) > ReplyLen) /\ at' = "answer" /\ wire' = reply
      <3>1. Size(wire)' = Size(reply)
        BY <2>5 DEF Size
      <3>2. Answered'
        BY <2>2, <2>5, <2>a, <3>1 DEF Answered, Busy, Begun
      <3>3. QED
        BY <1>2, <2>1, <3>2 DEF AnswerInv
    <2>6. QED
      BY <2>3, <2>4, <2>5
  <1>11. CASE ParseResp
    <2> DEFINE reply == ReplyOf(response)
    <2>1. at = "answer" /\ UNCHANGED <<script, made, builder, handler, response, request>>
      BY <1>11 DEF ParseResp, served
    <2>2. Outcome' /\ ReplyOf(response)' = reply
      BY <1>1, <1>3, <2>1 DEF Answered
    <2>3. wire = reply /\ ~(Size(reply) > ReplyLen)
      BY <1>1, <2>1 DEF Answered
    <2>4. (request # Nothing) /\ (request # Nothing)'
      BY <1>1, <2>1 DEF Requested, Served, Nothing
    <2>5. \/ Bare(reply) /\ at' = "panicked"
          \/ LengthUnmet(reply) /\ at' = "done" /\ answer' = [error |-> "InvalidResponse"]
          \/ at' = "done" /\ Got(answer', reply)
      BY <1>11, <2>3 DEF ParseResp, Got, Fails
    <2>6. /\ Bare(ReplyOf(response))' <=> Bare(reply)
          /\ Size(ReplyOf(response))' = Size(reply)
          /\ LengthUnmet(ReplyOf(response))' <=> LengthUnmet(reply)
          /\ Got(answer, ReplyOf(response))' <=> Got(answer', reply)
      BY <2>2, Reprimed
    <2> HIDE DEF reply
    <2>7. CASE Bare(reply) /\ at' = "panicked"
      <3>1. Answered'
        BY <2>2, <2>4, <2>6, <2>7 DEF Answered, Busy, Begun
      <3>2. QED
        BY <1>2, <2>1, <3>1 DEF AnswerInv
    <2>8. CASE at' = "done" /\ Got(answer', reply)
      <3>1. Answered'
        BY <2>2, <2>3, <2>4, <2>6, <2>8 DEF Answered, Busy, Begun
      <3>2. QED
        BY <1>2, <2>1, <3>1 DEF AnswerInv
    <2>9. CASE LengthUnmet(reply) /\ at' = "done" /\ answer' = [error |-> "InvalidResponse"]
      <3>1. Silent(answer')
        BY <2>9, SilentFacts
      <3>2. Silent(answer)'
        BY <3>1 DEF Silent
      <3>3. Answered'
        BY <2>2, <2>4, <2>6, <2>9, <3>2 DEF Answered, Busy, Begun
      <3>4. QED
        BY <1>2, <2>1, <3>3 DEF AnswerInv
    <2>10. QED
      BY <2>5, <2>7, <2>8, <2>9
  <1>12. CASE UNCHANGED vars
    <2>1. UNCHANGED <<script, made, builder, handler, response, request, at, wire, answer>>
      BY <1>12 DEF vars, served
    <2>2. (Outcome <=> Outcome') /\ ReplyOf(response)' = ReplyOf(response)
      BY <1>3, <2>1
    <2>3. Answered'
      <3>a. /\ Bare(ReplyOf(response))' <=> Bare(ReplyOf(response))
            /\ Size(ReplyOf(response))' = Size(ReplyOf(response))
            /\ LengthUnmet(ReplyOf(response))' <=> LengthUnmet(ReplyOf(response))
            /\ Got(answer, ReplyOf(response))' <=> Got(answer', ReplyOf(response))
        BY <2>2, Reprimed
      <3>b. Got(answer', ReplyOf(response)) <=> Got(answer, ReplyOf(response))
        BY <2>1
      <3>1. /\ Bare(ReplyOf(response))' <=> Bare(ReplyOf(response))
            /\ Size(ReplyOf(response))' = Size(ReplyOf(response))
            /\ LengthUnmet(ReplyOf(response))' <=> LengthUnmet(ReplyOf(response))
            /\ Got(answer, ReplyOf(response))' <=> Got(answer, ReplyOf(response))
            /\ Size(wire)' = Size(wire) /\ (Silent(answer)' <=> Silent(answer))
        BY <2>1, <3>a, <3>b DEF Size, Silent
      <3>2. QED
        BY <1>1, <2>1, <2>2, <3>1 DEF Answered, Nothing
    <2>4. QED
      BY <1>2, <2>1, <2>3 DEF AnswerInv
  <1>13. QED
    BY <1>4, <1>5, <1>6, <1>7, <1>8, <1>9, <1>10, <1>11, <1>12 DEF Next

\* The builder holds what its calls have given it, and what is under way and
\* what the caller gets is the reply that build_bytes makes of the result.
THEOREM AnswerInvariant == Spec => []AnswerInv
  <1>1. Init => AnswerInv
    BY AnswerInit
  <1>2. RequestInv /\ RequestInv' /\ AnswerInv /\ [Next]_vars => AnswerInv'
    BY AnswerSteps
  <1>3. QED
    BY <1>1, <1>2, RequestInvariant, PTL DEF Spec

Statuses == [known : BOOLEAN, code : 0 .. MaxU16]
Bodies == [kind : {"Empty", "Text", "Binary"}, bytes : Text]

\* The status and the body are of their types.
LEMMA SetTypes ==
    ASSUME Scripted, NEW n \in 0 .. Len(script)
    PROVE  StatusBy(n) \in Statuses /\ BodyBy(n) \in Bodies
  <1>1. Len(script) \in Nat /\ n \in Nat
    BY DEF Scripted
  <1>2. \A i \in 1 .. Len(script) :
          script[i].status \in Seq(Statuses) /\ script[i].body \in Seq(Bodies)
    BY DEF Scripted, IsBuilderCall, Statuses, Bodies
  <1>3. \A S, s : s \in Seq(S) /\ s # <<>> => s[1] \in S
    OBVIOUS
  <1>4. StatusBy(n) \in Statuses
    <2> DEFINE T == {i \in 1 .. n : script[i].status # <<>>}
               m == Max(T)
    <2>1. StatusBy(n) = IF T = {} THEN Known(200) ELSE script[m].status[1]
      BY DEF StatusBy
    <2>2. T \subseteq 0 .. n
      OBVIOUS
    <2>3. T # {} => m \in T
      <3> HIDE DEF T
      <3>1. QED
        BY <1>1, <2>2, MaxFacts
    <2>4. T # {} => m \in 1 .. Len(script) /\ script[m].status # <<>>
      BY <1>1, <2>3
    <2>5. Known(200) \in Statuses
      BY DEF Known, Statuses, MaxU16
    <2> HIDE DEF T, m
    <2>6. CASE T = {}
      BY <2>1, <2>5, <2>6
    <2>7. CASE T # {}
      <3>1. script[m].status \in Seq(Statuses) /\ script[m].status # <<>>
        BY <1>2, <2>4, <2>7
      <3>2. script[m].status[1] \in Statuses
        BY <1>3, <3>1
      <3>3. QED
        BY <2>1, <2>7, <3>2
    <2>8. QED
      BY <2>6, <2>7
  <1>5. BodyBy(n) \in Bodies
    <2> DEFINE T == {i \in 1 .. n : script[i].body # <<>>}
               m == Max(T)
    <2>1. BodyBy(n) = IF T = {} THEN Empty ELSE script[m].body[1]
      BY DEF BodyBy
    <2>2. T \subseteq 0 .. n
      OBVIOUS
    <2>3. T # {} => m \in T
      <3> HIDE DEF T
      <3>1. QED
        BY <1>1, <2>2, MaxFacts
    <2>4. T # {} => m \in 1 .. Len(script) /\ script[m].body # <<>>
      BY <1>1, <2>3
    <2>5. Empty \in Bodies
      BY DEF Empty, Body, Bodies, Text
    <2> HIDE DEF T, m
    <2>6. CASE T = {}
      BY <2>1, <2>5, <2>6
    <2>7. CASE T # {}
      <3>1. script[m].body \in Seq(Bodies) /\ script[m].body # <<>>
        BY <1>2, <2>4, <2>7
      <3>2. script[m].body[1] \in Bodies
        BY <1>3, <3>1
      <3>3. QED
        BY <2>1, <2>7, <3>2
    <2>8. QED
      BY <2>6, <2>7
  <1>6. QED
    BY <1>4, <1>5

Kept(some, list) ==
    some = SubSeq(list, 1, IF Len(list) < MaxHeaders THEN Len(list) ELSE MaxHeaders)

\* parse_resp keeps the headers up to MAX_HEADERS.
LEMMA FirstHeaders ==
    ASSUME NEW S, NEW list \in Seq(S), NEW some, Kept(some, list)
    PROVE  /\ some \in Seq(S)
           /\ Len(list) <= MaxHeaders => some = list
           /\ Len(list) >= MaxHeaders => Len(some) = MaxHeaders
           /\ \A i \in 1 .. Len(some) : i \in 1 .. Len(list) /\ some[i] = list[i]
           /\ Len(some) = IF Len(list) < MaxHeaders THEN Len(list) ELSE MaxHeaders
  <1> DEFINE n == IF Len(list) < MaxHeaders THEN Len(list) ELSE MaxHeaders
  <1>1. Len(list) \in Nat /\ MaxHeaders \in Nat /\ n \in 0 .. Len(list)
    BY MessageAssumption, LenProperties
  <1>2. /\ Len(list) <= MaxHeaders => n = Len(list)
        /\ Len(list) >= MaxHeaders => n = MaxHeaders
    BY <1>1
  <1> HIDE DEF n
  <1> DEFINE part == SubSeq(list, 1, n)
  <1>3. part = some
    BY DEF n, Kept
  <1>4. /\ part \in Seq(S) /\ Len(part) = n - 1 + 1
        /\ \A i \in 1 .. n - 1 + 1 : part[i] = list[1 + i - 1]
    <2>1. 1 \in 1 .. Len(list) + 1 /\ n \in 1 - 1 .. Len(list)
      BY <1>1
    <2>2. QED
      BY <2>1, Part
  <1> HIDE DEF part
  <1>5. n - 1 + 1 = n /\ \A i \in 1 .. n : 1 + i - 1 = i /\ i \in 1 .. Len(list)
    BY <1>1
  <1>6. Len(part) = n /\ \A i \in 1 .. n : part[i] = list[i] /\ i \in 1 .. Len(list)
    BY <1>4, <1>5
  <1>7. Len(list) = n => part = list
    <2>1. SUFFICES ASSUME Len(list) = n PROVE part = list
      OBVIOUS
    <2>2. part = [i \in 1 .. n |-> part[i]] /\ list = [i \in 1 .. n |-> list[i]]
      BY <1>4, <1>6, <2>1
    <2>3. QED
      BY <1>6, <2>2
  <1>8. QED
    BY <1>2, <1>3, <1>4, <1>6, <1>7 DEF n

\* A prefix of a list as long as its first part is that part.
LEMMA FirstPart ==
    ASSUME NEW S, NEW s, NEW t, NEW u, s \in Seq(S), t \in Seq(S), Joins(u, s, t),
           NEW v \in Seq(S), Len(v) = Len(s), \A i \in 1 .. Len(v) : v[i] = u[i]
    PROVE  v = s
  <1>1. Lined(u, s, t) /\ u \in Seq(S)
    BY Joined
  <1>2. \A i \in 1 .. Len(s) : u[i] = s[i]
    BY <1>1 DEF Lined
  <1>3. v = [i \in 1 .. Len(s) |-> v[i]] /\ s = [i \in 1 .. Len(s) |-> s[i]]
    OBVIOUS
  <1>4. QED
    BY <1>2, <1>3

\* What parse_body makes of the bytes.
LEMMA BodyFacts ==
    ASSUME NEW headers, NEW bytes
    PROVE  /\ parse_body(headers, bytes).bytes = bytes
           /\ parse_body(headers, bytes).kind = "Text" <=>
                /\ bytes # <<>> /\ Utf8(bytes)
                /\ \/ HeaderValue(headers, "content-type") = <<>>
                   \/ HeaderValue(headers, "content-type")[1] \in TextTypes
  <1> DEFINE type == HeaderValue(headers, "content-type")
  <1>1. parse_body(headers, bytes) =
          IF bytes = <<>> THEN [kind |-> "Empty", bytes |-> <<>>]
          ELSE IF (type = <<>> \/ type[1] \in TextTypes) /\ Utf8(bytes)
            THEN [kind |-> "Text", bytes |-> bytes]
          ELSE [kind |-> "Binary", bytes |-> bytes]
    BY DEF parse_body, Body, Empty
  <1> HIDE DEF type
  <1>2. QED
    BY <1>1 DEF type

\* A reply that is cut is short of the rest of its body.
LEMMA CutReply ==
    ASSUME NEW r, NEW reply, reply = ReplyOf(r), NEW n
    PROVE  /\ Cut(reply, n).headers = reply.headers /\ Cut(reply, n).code = reply.code
           /\ Cut(reply, n).body = SubSeq(reply.body, 1, n)
  <1> DEFINE code == reply.code
             list == reply.headers
             body == reply.body
  <1>1. reply = [code |-> code, headers |-> list, body |-> body]
    BY DEF ReplyOf, build_bytes
  <1> DEFINE cut == Cut(reply, n)
             some == SubSeq(body, 1, n)
  <1>2. cut = [reply EXCEPT !.body = some]
    BY DEF Cut
  <1> HIDE DEF code, list, body, some, cut
  <1>3. cut.headers = list /\ cut.code = code /\ cut.body = some
    BY <1>1, <1>2
  <1>4. QED
    BY <1>3 DEF code, list, body, some, cut

\* The error page, which is never cut.
LEMMA ErrorPageFacts ==
    ASSUME NEW reply, reply = ReplyOf(<<>>), NEW n \in BodyLengths(reply)
    PROVE  /\ parse_resp(Cut(reply, n)).status.code = 500
           /\ parse_resp(Cut(reply, n)).body.kind = "Text"
  <1> DEFINE type == ContentType("text/plain")
             three == <<53, 48, 48>>
             size == ContentLength(Len(three))
             S == {type, size}
             A == <<type>>
             C == <<size>>
             list == reply.headers
             some == SubSeq(list, 1, IF Len(list) < MaxHeaders THEN Len(list) ELSE MaxHeaders)
  <1>1. /\ type.key = "content-type" /\ type.value = "text/plain"
        /\ Len(three) = 3 /\ three # <<>>
    BY DEF ContentType, Header
  <1>2. Utf8(three)
    <2>1. DOMAIN three = 1 .. 3 /\ three[1] = 53 /\ three[2] = 48 /\ three[3] = 48
      OBVIOUS
    <2> HIDE DEF three
    <2>2. \A i \in DOMAIN three : three[i] < 128
      BY <2>1
    <2>3. QED
      BY <2>2 DEF Utf8
  <1>3. text_error = [status |-> Known(500), headers |-> A, body |-> Body("Text", three)]
    BY DEF text_error, Page
  <1>4. reply = build_bytes(text_error)
    BY DEF ReplyOf
  <1> HIDE DEF type, three, size
  <1>5. Len(A) = 1 /\ ~Has(A, "content-length")
    <2>1. Len(A) = 1 /\ (Has(A, "content-length") <=> type.key = "content-length")
      BY HeaderOfOne
    <2>2. QED
      BY <1>1, <2>1
  <1>6. /\ reply.headers = A \o C /\ reply.code = 500 /\ reply.body = three
    <2>1. /\ text_error.headers = A /\ text_error.status.code = 500
          /\ text_error.body.bytes = three
      <3> HIDE DEF A
      <3>1. QED
        BY <1>3 DEF Known, Body
    <2>2. C = <<ContentLength(Len(three))>>
      BY DEF size
    <2>3. write_head_bytes(text_error) = A \o C
      <3> HIDE DEF A, C
      <3>1. QED
        BY <1>1, <1>5, <2>1, <2>2 DEF write_head_bytes
    <2> HIDE DEF A, C
    <2>4. QED
      BY <1>4, <2>1, <2>3 DEF build_bytes
  <1>7. A \in Seq(S) /\ C \in Seq(S) /\ Len(C) = 1 /\ A[1] = type
    OBVIOUS
  <1>8. Joins(list, A, C)
    BY <1>6 DEF Joins
  <1>9. parse_resp(Cut(reply, n)) =
          [status |-> StatusFrom(reply.code), headers |-> some,
           body |-> parse_body(some, SubSeq(reply.body, 1, n))]
    <2> DEFINE cut == Cut(reply, n)
    <2>1. cut.headers = list /\ cut.code = reply.code /\ cut.body = SubSeq(reply.body, 1, n)
      BY CutReply
    <2> HIDE DEF cut, list
    <2>2. parse_resp(cut) =
            [status |-> StatusFrom(reply.code), headers |-> some,
             body |-> parse_body(some, SubSeq(reply.body, 1, n))]
      BY <2>1 DEF parse_resp
    <2>3. QED
      BY <2>2 DEF cut
  <1>a. size.key = "content-length" /\ size.value = ToString(Len(three))
    BY DEF size, ContentLength, Header
  <1>b. /\ Len(C) = 1
        /\ HeaderValue(C, "content-length") = <<size.value>>
    BY <1>a, HeaderOfOne
  <1> HIDE DEF A, C, S, some, list
  <1>c. HeaderValue(list, "content-length") = <<ToString(Len(three))>>
    <2>1. A \in Seq(S) /\ C \in Seq(S) /\ Joins(list, A, C)
      BY <1>7, <1>8
    <2>2. HeaderValue(list, "content-length") =
            IF Has(A, "content-length") THEN HeaderValue(A, "content-length")
            ELSE HeaderValue(C, "content-length")
      BY <2>1, HeaderOfJoined
    <2>3. QED
      BY <1>5, <1>a, <1>b, <2>2
  <1>d. SubSeq(three, 1, n) = three
    <2>1. three \in Text
      <3>1. 53 \in Byte /\ 48 \in Byte
        BY DEF Byte
      <3>2. QED
        BY <3>1 DEF three, Text
    <2>2. n \in 0 .. Len(three)
      BY <1>6 DEF BodyLengths
    <2>3. Len(three) <= n
      <3>1. Len(three) \in 0 .. Len(three)
        BY <1>1
      <3>2. States(reply, Len(three))
        BY <1>c DEF States, list
      <3>3. QED
        BY <1>6, <3>1, <3>2 DEF BodyLengths
    <2>4. n = Len(three)
      BY <1>1, <2>2, <2>3
    <2>5. QED
      BY <2>1, <2>4, WholeCut
  <1>10. list \in Seq(S) /\ Lined(list, A, C)
    BY <1>7, <1>8, Joined
  <1>11. Len(list) = 2 /\ list[1] = type
    BY <1>5, <1>7, <1>10 DEF Lined
  <1>12. /\ some \in Seq(S) /\ \A i \in 1 .. Len(some) : some[i] = list[i]
         /\ Len(some) = IF Len(list) < MaxHeaders THEN Len(list) ELSE MaxHeaders
    <2>1. Kept(some, list)
      BY DEF some, Kept
    <2>2. QED
      BY <1>10, <2>1, FirstHeaders
  <1>13. Len(some) \in Nat /\ 1 \in 1 .. Len(some)
    BY <1>11, <1>12, MessageAssumption
  <1>14. FirstOf(some, "content-type", 1)
    BY <1>1, <1>11, <1>12, <1>13 DEF FirstOf
  <1>15. HeaderValue(some, "content-type") = <<some[1].value>>
    BY <1>13, <1>14, HeaderFacts
  <1>16. HeaderValue(some, "content-type")[1] \in TextTypes
    BY <1>1, <1>11, <1>12, <1>13, <1>15 DEF TextTypes
  <1>17. parse_body(some, three).kind = "Text"
    BY <1>1, <1>2, <1>16, BodyFacts
  <1>18. StatusFrom(500).code = 500
    BY DEF StatusFrom, Known, Other
  <1>19. parse_resp(Cut(reply, n)) =
           [status |-> StatusFrom(500), headers |-> some, body |-> parse_body(some, three)]
    BY <1>6, <1>9, <1>d
  <1>20. QED
    BY <1>17, <1>18, <1>19

\* A response that is what the handler's builder was told.
AsSaid(a) ==
    /\ a.status.code = Said.code
    /\ CutAs(a.body.bytes, Said.bytes, LengthSaid)
    /\ a.body.kind = "Text" <=> IsText(a.body.bytes)
    /\ \A key : HeaderValue(a.headers, key) = ValueSaid(key)

\* The reply that the builder's response becomes.
LEMMA BuiltReplyFacts ==
    ASSUME Scripted, Assembled, made = Len(script), Len(Added) <= MaxHeaders,
           NEW reply, reply = ReplyOf(<<Built(builder)>>)
    PROVE  /\ Said.bytes \in Text /\ Said.code \in 0 .. MaxU16 /\ Said.names \in Nat
           /\ Size(reply) = SizeSaid /\ SizeSaid \in Nat
           /\ Bare(reply) => Said.names = 0 /\ Said.bytes = <<>>
           /\ LengthUnmet(reply) => StatesMore(Said.bytes, LengthSaid)
           /\ \A n \in BodyLengths(reply) : AsSaid(parse_resp(Cut(reply, n)))
  <1> DEFINE kept == LastOfEachName(builder.headers)
             bytes == BodyBy(made).bytes
             size == ContentLength(Len(bytes))
             sized == bytes # <<>> /\ ~Has(kept, "content-length")
             S == GivenFields \cup {size}
             C == IF sized THEN <<size>> ELSE <<>>
             list == reply.headers
             some == SubSeq(list, 1, IF Len(list) < MaxHeaders THEN Len(list) ELSE MaxHeaders)
             names == Cardinality(Distinct(Added))
  <1>1. Len(script) \in Nat /\ made \in 0 .. Len(script) /\ builder.headers = Added
    BY DEF Scripted, Assembled, Added
  <1>2. Added \in Seq(GivenFields)
    BY <1>1, AddedSteps DEF Added
  <1>3. builder.status = StatusBy(made) /\ UnwrapOr(builder.body, Empty) = BodyBy(made)
    BY DEF Assembled
  <1>4. StatusBy(made) \in Statuses /\ BodyBy(made) \in Bodies
    BY <1>1, SetTypes
  <1>5. bytes \in Text /\ StatusBy(made).code \in 0 .. MaxU16 /\ Len(bytes) \in Nat
    BY <1>4 DEF Statuses, Bodies, Text
  <1>6. /\ kept \in Seq(GivenFields) /\ Len(kept) = names /\ Len(kept) <= Len(Added)
        /\ \A key : Has(kept, key) <=> key \in Distinct(Added)
        /\ \A key : HeaderValue(kept, key) = LastValue(Added, key)
    BY <1>1, <1>2, KeptMeans
  <1>7. names \in Nat /\ names <= MaxHeaders /\ Len(kept) \in Nat
    <2>1. Len(kept) \in Nat /\ Len(Added) \in Nat
      BY <1>2, <1>6, LenProperties
    <2> HIDE DEF kept, names
    <2>2. QED
      BY <1>6, <2>1, MessageAssumption
  <1>8. /\ Said.bytes = bytes /\ Said.code = StatusBy(made).code /\ Said.names = names
        /\ Said.lengthAdded <=> sized
    <2>1. OwnLength(Added) <=> Has(kept, "content-length")
      BY <1>6 DEF OwnLength
    <2> HIDE DEF kept
    <2>2. QED
      BY <2>1 DEF Said
  <1>9. Built(builder) = [status |-> StatusBy(made), headers |-> kept, body |-> BodyBy(made)]
    <2> HIDE DEF kept
    <2>1. QED
      BY <1>3 DEF Built, kept
  <1>10. reply.headers = kept \o C /\ reply.code = StatusBy(made).code /\ reply.body = bytes
    <2> DEFINE response_ == Built(builder)
    <2>1. /\ response_.status = StatusBy(made) /\ response_.headers = kept
          /\ response_.body = BodyBy(made)
      <3> HIDE DEF kept
      <3>1. QED
        BY <1>9
    <2>2. reply = build_bytes(response_)
      BY DEF ReplyOf
    <2>3. write_head_bytes(response_) = kept \o C
      <3> HIDE DEF response_, kept
      <3>1. QED
        BY <2>1 DEF write_head_bytes
    <2> HIDE DEF response_, kept, C
    <2>4. QED
      BY <2>1, <2>2, <2>3 DEF build_bytes
  <1>11. ASSUME NEW n
         PROVE  parse_resp(Cut(reply, n)) =
                  [status |-> StatusFrom(reply.code), headers |-> some,
                   body |-> parse_body(some, SubSeq(reply.body, 1, n))]
    <2> DEFINE cut == Cut(reply, n)
    <2>1. cut.headers = list /\ cut.code = reply.code /\ cut.body = SubSeq(reply.body, 1, n)
      BY CutReply
    <2> HIDE DEF cut, list
    <2>2. parse_resp(cut) =
            [status |-> StatusFrom(reply.code), headers |-> some,
             body |-> parse_body(some, SubSeq(reply.body, 1, n))]
      BY <2>1 DEF parse_resp
    <2>3. QED
      BY <2>2 DEF cut
  <1>12. kept \in Seq(S) /\ C \in Seq(S) /\ Joins(list, kept, C)
    <2>1. Joins(list, kept, C)
      BY <1>10 DEF Joins
    <2>2. C \in Seq(S)
      <3>1. size \in S
        OBVIOUS
      <3> HIDE DEF size, S, sized
      <3>2. QED
        BY <3>1
    <2>3. kept \in Seq(S)
      <3> HIDE DEF kept
      <3>1. Len(kept) \in Nat /\ kept \in [1 .. Len(kept) -> GivenFields]
        BY <1>6, LenProperties
      <3>2. kept \in [1 .. Len(kept) -> S]
        BY <3>1
      <3> HIDE DEF S
      <3>3. QED
        BY <3>1, <3>2, SeqDef
    <2>4. QED
      BY <2>1, <2>2, <2>3
  <1>13. ASSUME NEW key
         PROVE  /\ Len(C) = IF sized THEN 1 ELSE 0
                /\ HeaderValue(C, key) = IF sized /\ key = "content-length"
                                           THEN <<ToString(Len(bytes))>> ELSE <<>>
    <2>1. size.key = "content-length" /\ size.value = ToString(Len(bytes))
      BY DEF ContentLength, Header
    <2> HIDE DEF size, sized
    <2>2. CASE sized
      <3>1. C = <<size>>
        BY <2>2
      <3> HIDE DEF C
      <3>2. Len(C) = 1 /\ HeaderValue(C, key) = IF size.key = key THEN <<size.value>> ELSE <<>>
        BY <3>1, HeaderOfOne
      <3>3. QED
        BY <2>1, <2>2, <3>2
    <2>3. CASE ~sized
      <3>1. C = <<>>
        BY <2>3
      <3> HIDE DEF C
      <3>2. Len(C) = 0 /\ Len(C) \in Nat
        BY <3>1
      <3>3. Lacks(C, key)
        BY <3>2 DEF Lacks
      <3>4. HeaderValue(C, key) = <<>>
        BY <3>2, <3>3, HeaderFacts
      <3>5. QED
        BY <2>3, <3>2, <3>4
    <2>4. QED
      BY <2>2, <2>3
  <1>14. sized => bytes # <<>> /\ ~Has(kept, "content-length")
    OBVIOUS
  <1>15. ~sized => bytes = <<>> \/ Has(kept, "content-length")
    OBVIOUS
  <1> HIDE DEF kept, bytes, size, sized, S, C, list, names
  <1>16. ASSUME NEW key
         PROVE  /\ list \in Seq(S) /\ Len(list) = Len(kept) + Len(C)
                /\ HeaderValue(list, key) =
                      IF Has(kept, key) THEN HeaderValue(kept, key) ELSE HeaderValue(C, key)
    BY <1>12, HeaderOfJoined
  <1>17. Len(list) = names + (IF sized THEN 1 ELSE 0)
    BY <1>6, <1>13, <1>16
  <1>18. Size(reply) = SizeSaid /\ SizeSaid \in Nat
    <2>1. Size(reply) = 2 + Len(list) + Len(bytes)
      BY <1>10 DEF Size, list
    <2>2. SizeSaid = 2 + names + (IF sized THEN 1 ELSE 0) + Len(bytes)
      BY <1>8 DEF SizeSaid
    <2>3. QED
      BY <1>5, <1>7, <1>17, <2>1, <2>2
  <1>19. Bare(reply) => names = 0 /\ bytes = <<>>
    <2>1. SUFFICES ASSUME Bare(reply) PROVE names = 0 /\ bytes = <<>>
      OBVIOUS
    <2>2. list = <<>>
      BY <2>1 DEF Bare, list
    <2>3. Len(list) = 0
      BY <2>2
    <2>4. names = 0 /\ ~sized
      BY <1>7, <1>17, <2>3
    <2>5. ~Has(kept, "content-length")
      <3>1. Len(kept) = 0
        BY <1>6, <2>4
      <3>2. Lacks(kept, "content-length")
        BY <3>1 DEF Lacks
      <3>3. QED
        BY <1>7, <3>2, HeaderFacts
    <2>6. QED
      BY <1>15, <2>4, <2>5
  <1>20. /\ Len(list) <= MaxHeaders => some = list
         /\ Len(list) >= MaxHeaders => Len(some) = MaxHeaders
         /\ \A i \in 1 .. Len(some) : some[i] = list[i]
         /\ some \in Seq(S)
    <2>1. list \in Seq(S)
      BY <1>16
    <2>2. Kept(some, list)
      BY DEF Kept
    <2> HIDE DEF some
    <2>3. QED
      BY <2>1, <2>2, FirstHeaders
  <1> HIDE DEF some
  <1>21. ASSUME NEW key PROVE HeaderValue(some, key) = ValueSaid(key)
    <2>1. ValueSaid(key) =
            IF key \in Distinct(Added) THEN LastValue(Added, key)
            ELSE IF key = "content-length" /\ sized /\ names < MaxHeaders
              THEN <<ToString(Len(bytes))>>
            ELSE <<>>
      BY <1>8 DEF ValueSaid
    <2>2. key \notin Distinct(Added) => HeaderValue(kept, key) = <<>>
      <3>1. SUFFICES ASSUME key \notin Distinct(Added) PROVE HeaderValue(kept, key) = <<>>
        OBVIOUS
      <3>2. Lacks(kept, key)
        BY <1>6, <1>7, <3>1, HeaderFacts
      <3>3. QED
        BY <1>7, <3>2, HeaderFacts
    <2>3. CASE Len(list) <= MaxHeaders
      <3>1. some = list
        BY <1>20, <2>3
      <3>2. sized => names < MaxHeaders
        BY <1>7, <1>17, <2>3, MessageAssumption
      <3>3. QED
        BY <1>6, <1>13, <1>16, <2>1, <3>1, <3>2
    <2>4. CASE ~(Len(list) <= MaxHeaders)
      <3>1. names = MaxHeaders /\ Len(list) >= MaxHeaders
        BY <1>7, <1>17, <2>4, MessageAssumption
      <3>2. Len(some) = Len(kept)
        BY <1>6, <1>20, <3>1
      <3>3. some = kept
        <4>1. kept \in Seq(S) /\ C \in Seq(S)
          BY <1>12
        <4>2. Joins(list, kept, C)
          BY <1>12
        <4>3. some \in Seq(S) /\ \A i \in 1 .. Len(some) : some[i] = list[i]
          BY <1>20
        <4>4. QED
          BY <3>2, <4>1, <4>2, <4>3, FirstPart
      <3>4. ~(names < MaxHeaders)
        BY <3>1, MessageAssumption
      <3>5. QED
        BY <1>6, <2>1, <2>2, <3>3, <3>4
    <2>5. QED
      BY <2>3, <2>4
  <1>22. HeaderValue(some, "content-type") = LastValue(Added, "content-type")
    <2>1. ValueSaid("content-type") = IF "content-type" \in Distinct(Added)
                                        THEN LastValue(Added, "content-type") ELSE <<>>
      BY DEF ValueSaid
    <2>2. "content-type" \notin Distinct(Added) => LastValue(Added, "content-type") = <<>>
      BY <1>2, LastValueFacts
    <2>3. QED
      BY <1>21, <2>1, <2>2
  <1>23. ASSUME NEW part PROVE parse_body(some, part).kind = "Text" <=> IsText(part)
    <2> DEFINE type == LastValue(Added, "content-type")
    <2>1. type = <<>> \/ \E v : type = <<v>>
      <3>1. Lacks(Added, "content-type") \/ \E i : LastOf(Added, "content-type", i)
        BY <1>2, LastValueFacts
      <3>2. Lacks(Added, "content-type") => type = <<>>
        BY <1>2, LastValueFacts
      <3>3. \A i : LastOf(Added, "content-type", i) => type = <<Added[i].value>>
        BY <1>2, LastValueFacts
      <3> HIDE DEF type
      <3>4. QED
        BY <3>1, <3>2, <3>3
    <2>2. IsText(part) <=> /\ part # <<>> /\ Utf8(part)
                           /\ type \in {<<>>} \cup {<<t>> : t \in TextTypes}
      BY DEF IsText
    <2>3. HeaderValue(some, "content-type") = type
      BY <1>22
    <2> HIDE DEF type
    <2>4. type \in {<<>>} \cup {<<t>> : t \in TextTypes} <=> type = <<>> \/ type[1] \in TextTypes
      <3>1. \A v : <<v>> # <<>> /\ <<v>>[1] = v
        OBVIOUS
      <3> HIDE DEF TextTypes
      <3>2. CASE type = <<>>
        BY <3>2
      <3>3. CASE \E v : type = <<v>>
        <4>1. PICK v : type = <<v>>
          BY <3>3
        <4>2. type # <<>> /\ type[1] = v
          BY <3>1, <4>1
        <4>3. \A t : <<t>> = <<v>> => t = v
          <5>1. SUFFICES ASSUME NEW t, <<t>> = <<v>> PROVE t = v
            OBVIOUS
          <5>2. <<t>>[1] = <<v>>[1]
            BY <5>1
          <5>3. QED
            BY <5>2
        <4>4. type \in {<<t>> : t \in TextTypes} <=> v \in TextTypes
          BY <4>1, <4>3
        <4>5. QED
          BY <4>2, <4>4
      <3>4. QED
        BY <2>1, <3>2, <3>3
    <2>5. parse_body(some, part).kind = "Text" <=>
            /\ part # <<>> /\ Utf8(part)
            /\ type = <<>> \/ type[1] \in TextTypes
      BY <2>3, BodyFacts
    <2>6. QED
      BY <2>2, <2>4, <2>5
  <1>24. HeaderValue(list, "content-length") = LengthSaid
    <2>1. "content-length" \in Distinct(Added) <=> Has(kept, "content-length")
      BY <1>6
    <2>2. HeaderValue(list, "content-length") =
            IF Has(kept, "content-length") THEN LastValue(Added, "content-length")
            ELSE IF sized THEN <<ToString(Len(bytes))>> ELSE <<>>
      BY <1>6, <1>13, <1>16
    <2>3. QED
      BY <1>8, <2>1, <2>2 DEF LengthSaid, OwnLength
  <1>a. LengthUnmet(reply) => StatesMore(bytes, LengthSaid)
    BY <1>10, <1>24 DEF LengthUnmet, States, StatesMore, Has, list
  <1>25. StatusFrom(reply.code).code = reply.code
    BY DEF StatusFrom, Known, Other
  <1>26. ASSUME NEW n \in BodyLengths(reply) PROVE AsSaid(parse_resp(Cut(reply, n)))
    <2> DEFINE part == SubSeq(bytes, 1, n)
               got == parse_resp(Cut(reply, n))
    <2>a. got = [status |-> StatusFrom(reply.code), headers |-> some,
                 body |-> parse_body(some, part)]
      BY <1>10, <1>11
    <2>2. CutAs(part, bytes, LengthSaid)
      <3>1. /\ n \in 0 .. Len(bytes)
            /\ \A k \in 0 .. Len(bytes) : LengthSaid = <<ToString(k)>> => k <= n
        BY <1>10, <1>24 DEF BodyLengths, States, list
      <3>2. QED
        BY <1>5, <3>1, BodyCut
    <2>3. parse_body(some, part).bytes = part
      BY BodyFacts
    <2> HIDE DEF part, got
    <2>1. /\ got.status.code = StatusBy(made).code /\ got.headers = some
          /\ got.body = parse_body(some, part)
      BY <1>10, <1>25, <2>a
    <2>4. got.body.bytes = part /\ (got.body.kind = "Text" <=> IsText(part))
      BY <1>23, <2>1, <2>3
    <2>5. AsSaid(got)
      BY <1>8, <1>21, <2>1, <2>2, <2>4 DEF AsSaid
    <2>6. QED
      BY <2>5 DEF got
  <1>27. QED
    BY <1>5, <1>7, <1>8, <1>10, <1>18, <1>19, <1>a, <1>26

\* The caller gets what the handler built, for every script of builder calls
\* that adds no Transfer-Encoding, its own Content-Length true or not, every
\* size of the buffer and every number of headers (HttpResponseBuilder,
\* build_bytes, read_response, parse_resp).
THEOREM AnswerArrivesAlways == Spec => []AnswerArrives
  <1>1. RequestInv /\ AnswerInv => AnswerArrives
    <2>1. SUFFICES ASSUME RequestInv, AnswerInv PROVE AnswerArrives
      OBVIOUS
    <2>2. Assembled /\ Answered /\ Requested /\ Scripted
      BY <2>1 DEF AnswerInv, RequestInv, Chosen
    <2> DEFINE reply == ReplyOf(response)
    <2>3. IsReply => Got(answer, reply) /\ request # Nothing /\ ~(Size(reply) > ReplyLen)
      BY <2>2 DEF IsReply, Answered, Silent
    <2>4. IsReply => Outcome
      BY <2>2, <2>3 DEF IsReply, Answered
    <2>5. Len(Added) \in Nat /\ Len(builder.headers) <= MaxHeaders
          /\ (made = Len(script) => builder.headers = Added)
      <3>1. Len(script) \in 0 .. Len(script)
        BY <2>2 DEF Scripted
      <3>2. QED
        BY <2>2, <3>1, AddedGrows DEF Added, Assembled
    <2>6. ASSUME IsReply, response = <<>>
          PROVE  is_server_error(answer.status) /\ answer.body.kind = "Text"
      <3>1. reply = ReplyOf(<<>>) /\ Got(answer, reply)
        BY <2>3, <2>6
      <3> HIDE DEF reply
      <3>2. answer.status.code = 500 /\ answer.body.kind = "Text"
        BY <3>1, ErrorPageFacts DEF Got
      <3>3. QED
        BY <3>2 DEF is_server_error
    <2>7. handler = "fails" /\ IsReply => is_server_error(answer.status)
      BY <2>4, <2>6 DEF Outcome
    <2>8. handler = "builder" /\ Len(Added) > MaxHeaders /\ IsReply =>
            is_server_error(answer.status) /\ answer.body.kind = "Text"
      <3>1. SUFFICES ASSUME handler = "builder", Len(Added) > MaxHeaders, IsReply
                     PROVE  response = <<>>
        BY <2>6
      <3>2. ~(Len(Added) <= MaxHeaders)
        BY <2>5, <3>1, MessageAssumption
      <3>3. made # Len(script)
        BY <2>5, <3>2
      <3>4. QED
        BY <2>4, <3>1, <3>3 DEF Outcome
    <2>9. ASSUME handler = "builder", request # Nothing, Len(Added) <= MaxHeaders
          PROVE  /\ IsReply => SizeSaid <= ReplyLen
                 /\ at = "done" /\ SizeSaid <= ReplyLen =>
                       IsReply \/ StatesMore(Said.bytes, LengthSaid)
                 /\ at = "panicked" => Said.names = 0 /\ Said.bytes = <<>>
                 /\ IsReply =>
                       /\ answer.status.code = Said.code
                       /\ is_success(answer.status) <=> Said.code \div 100 = 2
                       /\ is_client_error(answer.status) <=> Said.code \div 100 = 4
                       /\ is_server_error(answer.status) <=> Said.code \div 100 = 5
                       /\ CutAs(answer.body.bytes, Said.bytes, LengthSaid)
                       /\ answer.body.kind = "Text" <=> IsText(answer.body.bytes)
                       /\ \A key \in Names : HeaderValue(answer.headers, key) = ValueSaid(key)
      <3>1. ~(Len(Added) > MaxHeaders)
        BY <2>5, <2>9, MessageAssumption
      <3>2. ASSUME at \in {"done", "panicked"}
            PROVE  response = <<Built(builder)>> /\ made = Len(script)
        <4>1. Outcome
          BY <2>2, <2>9, <3>2 DEF Answered
        <4>2. QED
          BY <2>9, <3>1, <4>1 DEF Outcome
      <3>3. ASSUME at \in {"done", "panicked"}
            PROVE  /\ Said.code \in 0 .. MaxU16
                   /\ Size(reply) = SizeSaid /\ SizeSaid \in Nat
                   /\ Bare(reply) => Said.names = 0 /\ Said.bytes = <<>>
                   /\ LengthUnmet(reply) => StatesMore(Said.bytes, LengthSaid)
                   /\ \A n \in BodyLengths(reply) : AsSaid(parse_resp(Cut(reply, n)))
        <4>1. reply = ReplyOf(<<Built(builder)>>) /\ made = Len(script)
          BY <3>2, <3>3
        <4> HIDE DEF reply
        <4>2. QED
          BY <2>2, <2>9, <4>1, BuiltReplyFacts
      <3> HIDE DEF reply
      <3>4. at = "done" =>
              /\ IsReply => SizeSaid <= ReplyLen
              /\ SizeSaid <= ReplyLen => IsReply \/ StatesMore(Said.bytes, LengthSaid)
        <4>1. SUFFICES ASSUME at = "done"
                       PROVE  /\ IsReply => SizeSaid <= ReplyLen
                              /\ SizeSaid <= ReplyLen =>
                                    IsReply \/ StatesMore(Said.bytes, LengthSaid)
          OBVIOUS
        <4>2. Size(reply) = SizeSaid /\ SizeSaid \in Nat
          BY <3>3, <4>1
        <4>3. IsReply => ~(Size(reply) > ReplyLen)
          BY <2>3
        <4>4. ~IsReply => Silent(answer)
          BY <4>1 DEF IsReply, Silent
        <4>5. ~IsReply => Size(reply) > ReplyLen \/ StatesMore(Said.bytes, LengthSaid)
          <5>1. SUFFICES ASSUME ~IsReply
                         PROVE  Size(reply) > ReplyLen \/ StatesMore(Said.bytes, LengthSaid)
            OBVIOUS
          <5>2. ~Got(answer, reply)
            <6>1. \A w : "status" \in DOMAIN parse_resp(w)
              BY DEF parse_resp
            <6>2. QED
              BY <4>4, <5>1, <6>1 DEF Silent, Got
          <5>3. Size(reply) > ReplyLen \/ LengthUnmet(reply)
            BY <2>2, <2>9, <4>1, <5>2 DEF Answered, reply
          <5>4. QED
            BY <3>3, <4>1, <5>3
        <4>6. QED
          BY <4>2, <4>3, <4>5, MessageAssumption
      <3>5. at = "panicked" => Said.names = 0 /\ Said.bytes = <<>>
        BY <2>2, <3>3 DEF Answered, reply
      <3>6. ASSUME IsReply
            PROVE  /\ answer.status.code = Said.code
                   /\ is_success(answer.status) <=> Said.code \div 100 = 2
                   /\ is_client_error(answer.status) <=> Said.code \div 100 = 4
                   /\ is_server_error(answer.status) <=> Said.code \div 100 = 5
                   /\ CutAs(answer.body.bytes, Said.bytes, LengthSaid)
                   /\ answer.body.kind = "Text" <=> IsText(answer.body.bytes)
                   /\ \A key \in Names : HeaderValue(answer.headers, key) = ValueSaid(key)
        <4>1. at = "done" /\ Got(answer, reply)
          BY <2>3, <3>6 DEF IsReply
        <4>2. /\ Said.code \in 0 .. MaxU16 /\ AsSaid(answer)
              /\ answer.status.code = Said.code
          BY <3>3, <4>1 DEF Got, AsSaid
        <4>3. /\ is_success(answer.status) <=> Said.code \div 100 = 2
              /\ is_client_error(answer.status) <=> Said.code \div 100 = 4
              /\ is_server_error(answer.status) <=> Said.code \div 100 = 5
          <5> DEFINE code == Said.code
          <5>1. answer.status.code = code /\ code \in 0 .. MaxU16
            BY <4>2
          <5> HIDE DEF code
          <5>2. /\ code \in 200 .. 299 <=> code \div 100 = 2
                /\ code \in 400 .. 499 <=> code \div 100 = 4
                /\ code \in 500 .. 599 <=> code \div 100 = 5
            <6>1. code \in Nat
              <7>1. 0 .. MaxU16 \subseteq Nat
                BY DEF MaxU16
              <7>2. QED
                BY <5>1, <7>1
            <6> DEFINE k == code \div 100
            <6>2. k \in Nat /\ 100 * k <= code /\ code < 100 * k + 100
              BY <6>1
            <6> HIDE DEF k
            <6>3. /\ code \in 200 .. 299 <=> k = 2
                  /\ code \in 400 .. 499 <=> k = 4
                  /\ code \in 500 .. 599 <=> k = 5
              BY <6>1, <6>2
            <6>4. QED
              BY <6>3 DEF k
          <5>3. QED
            BY <5>1, <5>2 DEF is_success, is_client_error, is_server_error, code
        <4>4. QED
          BY <4>2, <4>3 DEF AsSaid
      <3>7. IsReply => at = "done"
        BY DEF IsReply
      <3>8. QED
        BY <3>4, <3>5, <3>6, <3>7
    <2>10. QED
      BY <2>7, <2>8, <2>9 DEF AnswerArrives
  <1>2. QED
    BY <1>1, RequestInvariant, AnswerInvariant, PTL

-----------------------------------------------------------------------------
(* The query.                                                               *)

\* Both sides of a text are texts.
LEMMA SplitText ==
    ASSUME NEW t \in Text, NEW byte
    PROVE  SplitOnce(t, byte)[1] \in Text /\ SplitOnce(t, byte)[2] \in Text
  <1>1. <<>> \in Text
    BY DEF Text
  <1>2. CASE SplitOnce(t, byte) = <<t, <<>>>>
    BY <1>1, <1>2
  <1>3. CASE \E k \in 1 .. Len(t) : SplitOnce(t, byte) = <<Before(t, k), After(t, k)>>
    <2>1. PICK k \in 1 .. Len(t) : SplitOnce(t, byte) = <<Before(t, k), After(t, k)>>
      BY <1>3
    <2>2. Before(t, k) \in Text /\ After(t, k) \in Text
      BY TextCut
    <2>3. QED
      BY <2>1, <2>2
  <1>4. QED
    BY <1>2, <1>3, SplitFacts

\* What is left of a text behind a position.
LEMMA AfterFacts ==
    ASSUME NEW t \in Text, NEW c \in 0 .. Len(t)
    PROVE  /\ After(t, c) \in Text /\ Len(After(t, c)) = Len(t) - c
           /\ \A i \in 1 .. Len(t) - c : After(t, c)[i] = t[c + i]
           /\ c = 0 => After(t, c) = t
           /\ After(t, c) = <<>> <=> c = Len(t)
  <1>1. Len(t) \in Nat /\ t \in Seq(Byte)
    BY DEF Text
  <1> DEFINE part == SubSeq(t, c + 1, Len(t))
  <1>2. part = After(t, c)
    BY DEF After
  <1>3. /\ part \in Seq(Byte) /\ Len(part) = Len(t) - (c + 1) + 1
        /\ \A i \in 1 .. Len(t) - (c + 1) + 1 : part[i] = t[(c + 1) + i - 1]
    <2>1. c + 1 \in 1 .. Len(t) + 1 /\ Len(t) \in (c + 1) - 1 .. Len(t)
      BY <1>1
    <2>2. QED
      BY <1>1, <2>1, Part
  <1> HIDE DEF part
  <1>4. Len(t) - (c + 1) + 1 = Len(t) - c
    BY <1>1
  <1>5. /\ part \in Text /\ Len(part) = Len(t) - c
        /\ \A i \in 1 .. Len(t) - c : part[i] = t[c + i]
    <2>1. \A i \in 1 .. Len(t) - c : (c + 1) + i - 1 = c + i
      BY <1>1
    <2>2. QED
      BY <1>3, <1>4, <2>1 DEF Text
  <1>6. c = 0 => part = t
    <2>1. SUFFICES ASSUME c = 0 PROVE part = t
      OBVIOUS
    <2>2. Len(part) = Len(t) /\ \A i \in 1 .. Len(part) : part[i] = t[i]
      BY <1>1, <1>5, <2>1
    <2>3. QED
      BY <1>5, <2>2, SameText
  <1>7. part = <<>> <=> c = Len(t)
    <2>1. part = <<>> <=> Len(part) = 0
      BY <1>3
    <2>2. QED
      BY <1>1, <1>5, <2>1
  <1>8. QED
    BY <1>2, <1>5, <1>6, <1>7

LEMMA AfterAfter ==
    ASSUME NEW t \in Text, NEW c \in 0 .. Len(t), NEW k \in 0 .. Len(t) - c
    PROVE  After(After(t, c), k) = After(t, c + k)
  <1> DEFINE a == After(t, c)
  <1>1. Len(t) \in Nat /\ c + k \in 0 .. Len(t)
    BY DEF Text
  <1>2. a \in Text /\ Len(a) = Len(t) - c /\ \A i \in 1 .. Len(t) - c : a[i] = t[c + i]
    BY AfterFacts
  <1> HIDE DEF a
  <1>3. k \in 0 .. Len(a)
    BY <1>2
  <1>4. /\ After(a, k) \in Text /\ Len(After(a, k)) = Len(a) - k
        /\ \A i \in 1 .. Len(a) - k : After(a, k)[i] = a[k + i]
    BY <1>2, <1>3, AfterFacts
  <1>5. /\ After(t, c + k) \in Text /\ Len(After(t, c + k)) = Len(t) - (c + k)
        /\ \A i \in 1 .. Len(t) - (c + k) : After(t, c + k)[i] = t[(c + k) + i]
    BY <1>1, AfterFacts
  <1>6. Len(After(a, k)) = Len(After(t, c + k))
    <2>1. Len(After(a, k)) = Len(a) - k /\ Len(a) = Len(t) - c
      BY <1>2, <1>4
    <2>2. Len(After(t, c + k)) = Len(t) - (c + k)
      BY <1>5
    <2>3. (Len(t) - c) - k = Len(t) - (c + k)
      BY <1>1
    <2>4. QED
      BY <2>1, <2>2, <2>3
  <1>7. ASSUME NEW i \in 1 .. Len(After(a, k)) PROVE After(a, k)[i] = After(t, c + k)[i]
    <2>1. /\ i \in 1 .. Len(a) - k /\ i \in 1 .. Len(t) - (c + k)
          /\ k + i \in 1 .. Len(t) - c /\ c + (k + i) = (c + k) + i
      BY <1>1, <1>2, <1>4
    <2>2. QED
      BY <1>2, <1>4, <1>5, <2>1
  <1>8. After(a, k) = After(t, c + k)
    BY <1>4, <1>5, <1>6, <1>7, SameText
  <1>9. QED
    BY <1>8 DEF a

\* The target that build_req writes, up to its first blank, and its query.
LEMMA TargetText ==
    ASSUME RequestInv
    PROVE  /\ FirstWord(WireOf(call).path) \in Text
           /\ query_string(FirstWord(WireOf(call).path)) \in Text
  <1> DEFINE rest == call.url.rest
             slash == Find(rest, Slash)
             found == IF slash = 0 THEN rest ELSE Before(rest, slash)
             path == After(rest, Len(found))
  <1>1. rest \in Text
    BY DEF RequestInv, Chosen, IsCall, IsUrl
  <1> DEFINE target == FirstWord(WireOf(call).path)
  <1>3. target = FirstWord(IF path = <<>> THEN <<Slash>> ELSE path)
    BY DEF WireOf, build_req, parse_endpoint
  <1> HIDE DEF target
  <1>4. Len(found) \in 0 .. Len(rest)
    <2>1. Len(rest) \in Nat
      BY <1>1 DEF Text
    <2>2. slash \in 0 .. Len(rest)
      BY <2>1, FindFacts
    <2> HIDE DEF slash, rest
    <2>3. CASE slash = 0
      BY <2>1, <2>3
    <2>4. CASE slash # 0
      <3>1. slash \in 1 .. Len(rest)
        BY <2>1, <2>2, <2>4
      <3>2. Len(Before(rest, slash)) = slash - 1
        BY <1>1, <3>1, TextCut
      <3>3. QED
        BY <2>1, <2>4, <3>1, <3>2
    <2>5. QED
      BY <2>3, <2>4
  <1> HIDE DEF found, rest
  <1>5. path \in Text
    BY <1>1, <1>4, AfterFacts
  <1>6. <<Slash>> \in Text
    <2>1. Slash \in Byte
      BY DEF Byte, Slash
    <2>2. QED
      BY <2>1 DEF Text
  <1> HIDE DEF path
  <1>7. (IF path = <<>> THEN <<Slash>> ELSE path) \in Text
    BY <1>5, <1>6
  <1>8. target \in Text
    BY <1>3, <1>7, SplitText DEF FirstWord
  <1>9. query_string(target) \in Text
    BY <1>8, SplitText DEF query_string
  <1>10. QED
    BY <1>8, <1>9 DEF target

\* The query of the request is a text.
LEMMA QueryText ==
    ASSUME RequestInv, at \in Served
    PROVE  Query \in Text
  <1>1. Parsed(request)
    BY DEF RequestInv, Requested
  <1>2. request.path = FirstWord(WireOf(call).path)
    BY <1>1, ParsedFacts DEF Parsed
  <1>3. QED
    BY <1>2, TargetText DEF Query

\* The segments that begin up to a position, and the pairs read of them.
StartsTo(q, c) == {i \in 1 .. c : q[i] # Amp /\ (i = 1 \/ q[i - 1] = Amp)}
Rank(q, i) == Cardinality(StartsTo(q, i))

\* The bytes from i to e are the pair.
SpelledAs(q, i, e, pair) ==
    /\ Eq \notin ToSet(pair.name)
    /\ \/ SubSeq(q, i, e) = pair.name /\ pair.value = <<>>
       \/ SubSeq(q, i, e) = pair.name \o <<Eq>> \o pair.value
SegmentEnd(q, i) == Max({j \in DOMAIN q : j >= i /\ Amp \notin ToSet(SubSeq(q, i, j))})

ReadTo(q, c, ps) ==
    /\ c \in 0 .. Len(q) /\ (c > 0 /\ c < Len(q) => q[c] = Amp)
    /\ ps \in Seq(Pairs) /\ IsFiniteSet(StartsTo(q, c))
    /\ Len(ps) = Cardinality(StartsTo(q, c))
    /\ \A i \in StartsTo(q, c) :
          Rank(q, i) \in 1 .. Len(ps) /\ SpelledAs(q, i, SegmentEnd(q, i), ps[Rank(q, i)])

\* No segment is read at first.
LEMMA ReadStarts ==
    ASSUME NEW q \in Text, NEW none, none = <<>>
    PROVE  ReadTo(q, 0, none)
  <1>1. StartsTo(q, 0) = {}
    BY DEF StartsTo
  <1>2. IsFiniteSet({}) /\ Cardinality({}) = 0
    BY FS_EmptySet
  <1>3. Len(q) \in Nat /\ none \in Seq(Pairs) /\ Len(none) = 0
    BY DEF Text
  <1>4. IsFiniteSet(StartsTo(q, 0)) /\ Len(none) = Cardinality(StartsTo(q, 0))
    BY <1>1, <1>2, <1>3, Zenon
  <1>5. \A i \in StartsTo(q, 0) : FALSE
    BY <1>1
  <1>6. 0 \in 0 .. Len(q)
    BY <1>3
  <1>7. QED
    BY <1>3, <1>4, <1>5, <1>6 DEF ReadTo

\* An empty segment.
LEMMA ReadGap ==
    ASSUME NEW q \in Text, NEW c, NEW ps, ReadTo(q, c, ps), c < Len(q), q[c + 1] = Amp
    PROVE  ReadTo(q, c + 1, ps)
  <1>1. Len(q) \in Nat /\ c \in Nat /\ c + 1 \in 0 .. Len(q)
    BY DEF Text, ReadTo
  <1>2. 1 .. c + 1 = (1 .. c) \cup {c + 1}
    BY <1>1
  <1>3. StartsTo(q, c + 1) = StartsTo(q, c)
    BY <1>2 DEF StartsTo
  <1>4. QED
    BY <1>1, <1>3 DEF ReadTo

\* Where the segment from i ends.
LEMMA SegmentEndFacts ==
    ASSUME NEW q \in Text, NEW i \in 1 .. Len(q), NEW e \in i .. Len(q),
           \A j \in i .. e : q[j] # Amp, e < Len(q) => q[e + 1] = Amp
    PROVE  SegmentEnd(q, i) = e
  <1> DEFINE ends == {j \in DOMAIN q : j >= i /\ Amp \notin ToSet(SubSeq(q, i, j))}
  <1>1. Len(q) \in Nat /\ DOMAIN q = 1 .. Len(q) /\ q \in Seq(Byte)
    BY DEF Text
  <1>2. ASSUME NEW j \in i .. Len(q)
        PROVE  Amp \notin ToSet(SubSeq(q, i, j)) <=> \A x \in i .. j : q[x] # Amp
    <2> DEFINE part == SubSeq(q, i, j)
    <2>1. i \in 1 .. Len(q) + 1 /\ j \in i - 1 .. Len(q) /\ i \in Nat /\ j \in Nat
      BY <1>1
    <2>2. /\ part \in Seq(Byte) /\ Len(part) = j - i + 1
          /\ \A x \in 1 .. j - i + 1 : part[x] = q[i + x - 1]
      BY <1>1, <2>1, Part
    <2> HIDE DEF part
    <2>3. Amp \notin ToSet(part) <=> \A x \in 1 .. Len(part) : part[x] # Amp
      BY <2>2, NotInFacts DEF Text
    <2>4. ASSUME \A x \in 1 .. Len(part) : part[x] # Amp, NEW x \in i .. j
          PROVE  q[x] # Amp
      <3>1. x - i + 1 \in 1 .. j - i + 1 /\ i + (x - i + 1) - 1 = x
        BY <2>1
      <3>2. QED
        BY <2>2, <2>4, <3>1
    <2>5. ASSUME \A x \in i .. j : q[x] # Amp, NEW x \in 1 .. Len(part)
          PROVE  part[x] # Amp
      <3>1. i + x - 1 \in i .. j /\ x \in 1 .. j - i + 1
        BY <2>1, <2>2
      <3>2. QED
        BY <2>2, <2>5, <3>1
    <2>6. QED
      BY <2>3, <2>4, <2>5 DEF part
  <1>3. e \in ends
    <2>1. e \in DOMAIN q /\ e >= i
      BY <1>1
    <2>2. QED
      BY <1>2, <2>1
  <1>4. ASSUME NEW j \in ends PROVE e >= j
    <2>1. j \in i .. Len(q)
      BY <1>1
    <2>2. \A x \in i .. j : q[x] # Amp
      BY <1>2, <1>4, <2>1
    <2>3. SUFFICES ASSUME e < j PROVE FALSE
      BY <1>1, <2>1
    <2>4. e + 1 \in i .. j /\ e < Len(q)
      BY <1>1, <2>1, <2>3
    <2>5. QED
      BY <2>2, <2>4
  <1>5. ends \subseteq 0 .. Len(q)
    BY <1>1
  <1> HIDE DEF ends
  <1>6. Max(ends) = e
    BY <1>1, <1>3, <1>4, <1>5, MaxIs
  <1>7. QED
    BY <1>6 DEF ends, SegmentEnd

\* A segment that is a pair.
LEMMA ReadPair ==
    ASSUME NEW q \in Text, NEW c, NEW ps, ReadTo(q, c, ps), c < Len(q),
           NEW e \in c + 1 .. Len(q), \A j \in c + 1 .. e : q[j] # Amp,
           e < Len(q) => q[e + 1] = Amp,
           NEW c2, c2 = IF e < Len(q) THEN e + 1 ELSE e,
           NEW pair \in Pairs, SpelledAs(q, c + 1, e, pair)
    PROVE  ReadTo(q, c2, Append(ps, pair))
  <1> DEFINE more == Append(ps, pair)
             I == StartsTo(q, c)
             n == Len(ps)
  <1>1. /\ Len(q) \in Nat /\ c \in Nat /\ e \in Nat /\ c2 \in 0 .. Len(q) /\ c2 >= c + 1
        /\ e <= c2 /\ (c2 = e \/ c2 = e + 1)
    BY DEF Text, ReadTo
  <1>2. /\ c > 0 => q[c] = Amp
        /\ ps \in Seq(Pairs) /\ IsFiniteSet(I) /\ n = Cardinality(I) /\ n \in Nat
        /\ \A i \in I : Rank(q, i) \in 1 .. n /\ SpelledAs(q, i, SegmentEnd(q, i), ps[Rank(q, i)])
    BY <1>1 DEF ReadTo
  <1>3. c2 > 0 /\ c2 < Len(q) => q[c2] = Amp
    BY <1>1
  <1>4. c + 1 \in StartsTo(q, c2) /\ c + 1 \in StartsTo(q, c + 1) /\ c + 1 \notin I
    <2>1. q[c + 1] # Amp
      BY <1>1
    <2>2. c + 1 = 1 \/ q[(c + 1) - 1] = Amp
      <3>1. (c + 1) - 1 = c /\ (c = 0 \/ c > 0)
        BY <1>1
      <3>2. QED
        BY <1>2, <3>1
    <2>3. c + 1 \in 1 .. c2 /\ c + 1 \in 1 .. c + 1 /\ c + 1 \notin 1 .. c
      BY <1>1
    <2>4. QED
      BY <2>1, <2>2, <2>3 DEF StartsTo
  <1>5. ASSUME NEW x \in c .. c2, x # c PROVE StartsTo(q, x) = I \cup {c + 1}
    <2>1. ASSUME NEW i \in StartsTo(q, x) PROVE i \in I \cup {c + 1}
      <3>1. i \in 1 .. x /\ q[i] # Amp /\ (i = 1 \/ q[i - 1] = Amp)
        BY <2>1 DEF StartsTo
      <3>2. CASE i <= c
        <4>1. i \in 1 .. c
          BY <1>1, <3>1, <3>2
        <4>2. QED
          BY <3>1, <4>1 DEF StartsTo
      <3>3. CASE i > c + 1
        <4>1. i \in Nat /\ i - 1 \in c + 1 .. Len(q) /\ i <= c2 /\ i # 1
          BY <1>1, <3>1, <3>3
        <4>2. CASE i - 1 <= e
          <5>1. i - 1 \in c + 1 .. e
            BY <1>1, <4>1, <4>2
          <5>2. QED
            BY <3>1, <4>1, <5>1
        <4>3. CASE i - 1 > e
          BY <1>1, <4>1, <4>3
        <4>4. QED
          BY <1>1, <4>1, <4>2, <4>3
      <3>4. QED
        BY <1>1, <3>1, <3>2, <3>3
    <2>2. ASSUME NEW i \in I \cup {c + 1} PROVE i \in StartsTo(q, x)
      <3>1. CASE i \in I
        <4>1. i \in 1 .. c /\ q[i] # Amp /\ (i = 1 \/ q[i - 1] = Amp)
          BY <3>1 DEF StartsTo
        <4>2. i \in 1 .. x
          BY <1>1, <4>1
        <4>3. QED
          BY <4>1, <4>2 DEF StartsTo
      <3>2. CASE i = c + 1
        <4>1. q[c + 1] # Amp /\ (c + 1 = 1 \/ q[(c + 1) - 1] = Amp)
          BY <1>4 DEF StartsTo
        <4>2. c + 1 \in 1 .. x
          BY <1>1, <1>5
        <4>3. QED
          BY <3>2, <4>1, <4>2 DEF StartsTo
      <3>3. QED
        BY <3>1, <3>2
    <2>3. QED
      BY <2>1, <2>2
  <1>6. StartsTo(q, c2) = I \cup {c + 1} /\ StartsTo(q, c + 1) = I \cup {c + 1}
    <2>1. c2 \in c .. c2 /\ c2 # c /\ c + 1 \in c .. c2 /\ c + 1 # c
      BY <1>1
    <2>2. QED
      BY <1>5, <2>1
  <1>7. IsFiniteSet(I \cup {c + 1}) /\ Cardinality(I \cup {c + 1}) = n + 1
    BY <1>2, <1>4, FS_AddElement
  <1>8. /\ more \in Seq(Pairs) /\ Len(more) = n + 1
        /\ \A i \in 1 .. n : more[i] = ps[i]
        /\ more[n + 1] = pair
    BY <1>2, Appended
  <1>9. SegmentEnd(q, c + 1) = e
    <2>1. c + 1 \in 1 .. Len(q)
      BY <1>1
    <2>2. QED
      BY <2>1, SegmentEndFacts
  <1>a. more = Append(ps, pair)
    OBVIOUS
  <1> HIDE DEF more, I, n
  <1>10. ASSUME NEW i \in I \cup {c + 1}
         PROVE  Rank(q, i) \in 1 .. n + 1 /\ SpelledAs(q, i, SegmentEnd(q, i), more[Rank(q, i)])
    <2>1. CASE i \in I
      <3>1. Rank(q, i) \in 1 .. n /\ SpelledAs(q, i, SegmentEnd(q, i), ps[Rank(q, i)])
        BY <1>2, <2>1
      <3>2. Rank(q, i) \in 1 .. n + 1 /\ more[Rank(q, i)] = ps[Rank(q, i)]
        BY <1>2, <1>8, <3>1
      <3>3. QED
        BY <3>1, <3>2
    <2>2. CASE i = c + 1
      <3>1. Rank(q, i) = n + 1
        BY <1>6, <1>7, <2>2 DEF Rank
      <3>2. n + 1 \in 1 .. n + 1
        BY <1>2
      <3>3. QED
        BY <1>8, <1>9, <2>2, <3>1, <3>2
    <2>3. QED
      BY <2>1, <2>2
  <1>11. ReadTo(q, c2, more)
    BY <1>1, <1>3, <1>6, <1>7, <1>8, <1>10 DEF ReadTo
  <1>12. QED
    BY <1>a, <1>11

\* A cut behind the e-th byte, at the first such byte or at the end.
CutAt(cut, r, byte, e) ==
    /\ cut[1] = SubSeq(r, 1, e) /\ cut[1] \in Text
    /\ cut[1] = <<>> <=> e = 0
    /\ \A i \in 1 .. e : r[i] # byte
    /\ \/ e = Len(r) /\ cut[2] = <<>>
       \/ e < Len(r) /\ r[e + 1] = byte /\ cut[2] = After(r, e + 1)

\* What a turn of the iteration does with what is left of the query.
LEMMA CutText ==
    ASSUME NEW r \in Text, NEW byte
    PROVE  \E e \in 0 .. Len(r) : CutAt(SplitOnce(r, byte), r, byte, e)
  <1> DEFINE cut == SplitOnce(r, byte)
  <1>1. Len(r) \in Nat /\ r \in Seq(Byte)
    BY DEF Text
  <1>2. CASE cut = <<r, <<>>>> /\ \A i \in 1 .. Len(r) : r[i] # byte
    <2>1. cut[1] = r /\ cut[2] = <<>>
      BY <1>2
    <2>2. SubSeq(r, 1, Len(r)) = r
      BY <1>1
    <2>3. r = <<>> <=> Len(r) = 0
      BY <1>1
    <2> HIDE DEF cut
    <2>4. Len(r) \in 0 .. Len(r)
      BY <1>1
    <2>5. /\ cut[1] = SubSeq(r, 1, Len(r)) /\ cut[1] \in Text
          /\ cut[1] = <<>> <=> Len(r) = 0
          /\ \A i \in 1 .. Len(r) : r[i] # byte
      BY <1>2, <2>1, <2>2, <2>3
    <2>6. CutAt(cut, r, byte, Len(r))
      BY <2>1, <2>5 DEF CutAt
    <2>7. QED
      BY <2>4, <2>6 DEF cut
  <1>3. CASE \E k \in 1 .. Len(r) :
                 /\ cut = <<Before(r, k), After(r, k)>>
                 /\ r[k] = byte
                 /\ \A i \in 1 .. k - 1 : r[i] # byte
    <2>1. PICK k \in 1 .. Len(r) :
                 /\ cut = <<Before(r, k), After(r, k)>>
                 /\ r[k] = byte
                 /\ \A i \in 1 .. k - 1 : r[i] # byte
      BY <1>3
    <2>2. cut[1] = Before(r, k) /\ cut[2] = After(r, k)
      BY <2>1
    <2>3. Before(r, k) \in Text /\ Len(Before(r, k)) = k - 1
      BY TextCut
    <2>4. Before(r, k) = <<>> <=> k - 1 = 0
      BY <2>3 DEF Text
    <2>5. k - 1 \in 0 .. Len(r) /\ k - 1 < Len(r) /\ (k - 1) + 1 = k
      BY <1>1
    <2> HIDE DEF cut
    <2>6. CutAt(cut, r, byte, k - 1)
      BY <2>1, <2>2, <2>3, <2>4, <2>5 DEF Before, CutAt
    <2>7. QED
      BY <2>5, <2>6 DEF cut
  <1>4. QED
    BY <1>2, <1>3, SplitFacts DEF cut

\* The pair of a segment.
LEMMA PairFacts ==
    ASSUME NEW q \in Text, NEW i \in 1 .. Len(q), NEW e \in i .. Len(q),
           NEW segment \in Text, segment = SubSeq(q, i, e)
    PROVE  Pair(segment) \in Pairs /\ SpelledAs(q, i, e, Pair(segment))
  <1> DEFINE cut == SplitOnce(segment, Eq)
             pair == Pair(segment)
  <1>1. pair.name = cut[1] /\ pair.value = cut[2] /\ pair = [name |-> cut[1], value |-> cut[2]]
    BY DEF Pair
  <1>2. pair \in Pairs
    <2>1. cut[1] \in Text /\ cut[2] \in Text
      BY SplitText
    <2> HIDE DEF cut
    <2>2. QED
      BY <1>1, <2>1 DEF Pairs
  <1>3. CASE cut = <<segment, <<>>>> /\ \A j \in 1 .. Len(segment) : segment[j] # Eq
    <2>1. cut[1] = segment /\ cut[2] = <<>>
      BY <1>3
    <2>2. Eq \notin ToSet(segment)
      BY <1>3, NotInFacts
    <2> HIDE DEF cut, pair
    <2>3. QED
      BY <1>1, <1>2, <2>1, <2>2 DEF SpelledAs, pair
  <1>4. CASE \E k \in 1 .. Len(segment) :
                 /\ cut = <<Before(segment, k), After(segment, k)>>
                 /\ segment[k] = Eq
                 /\ \A j \in 1 .. k - 1 : segment[j] # Eq
    <2>1. PICK k \in 1 .. Len(segment) :
                 /\ cut = <<Before(segment, k), After(segment, k)>>
                 /\ segment[k] = Eq
                 /\ \A j \in 1 .. k - 1 : segment[j] # Eq
      BY <1>4
    <2>2. cut[1] = Before(segment, k) /\ cut[2] = After(segment, k)
      BY <2>1
    <2>3. /\ Before(segment, k) \in Text /\ Len(Before(segment, k)) = k - 1
          /\ \A j \in 1 .. k - 1 : Before(segment, k)[j] = segment[j]
      BY TextCut
    <2>4. Eq \notin ToSet(Before(segment, k))
      <3>1. \A j \in 1 .. Len(Before(segment, k)) : Before(segment, k)[j] # Eq
        BY <2>1, <2>3
      <3>2. QED
        BY <2>3, <3>1, NotInFacts
    <2>5. segment = Before(segment, k) \o <<Eq>> \o After(segment, k)
      <3>1. segment \in Seq(Byte)
        BY DEF Text
      <3>2. segment = Before(segment, k) \o <<segment[k]>> \o After(segment, k)
        BY <3>1, RejoinFacts
      <3>3. QED
        BY <2>1, <3>2, Zenon
    <2>6. segment = pair.name \o <<Eq>> \o pair.value /\ Eq \notin ToSet(pair.name)
      <3> HIDE DEF pair, cut
      <3>1. pair.name = Before(segment, k) /\ pair.value = After(segment, k)
        BY <1>1, <2>2
      <3>2. QED
        BY <2>4, <2>5, <3>1, Zenon
    <2> HIDE DEF pair, cut
    <2>7. SubSeq(q, i, e) = pair.name \o <<Eq>> \o pair.value
      BY <2>6, Zenon
    <2>8. SpelledAs(q, i, e, pair)
      BY <2>6, <2>7, Zenon DEF SpelledAs
    <2>9. QED
      BY <1>2, <2>8 DEF pair
  <1>5. QED
    BY <1>3, <1>4, SplitFacts DEF cut

\* A part of what is left is a part of the query.
LEMMA PartOfRest ==
    ASSUME NEW q \in Text, NEW c \in 0 .. Len(q), NEW e \in 0 .. Len(q) - c
    PROVE  SubSeq(After(q, c), 1, e) = SubSeq(q, c + 1, c + e)
  <1> DEFINE r == After(q, c)
             a == SubSeq(r, 1, e)
             b == SubSeq(q, c + 1, c + e)
  <1>1. Len(q) \in Nat /\ q \in Seq(Byte)
    BY DEF Text
  <1>2. r \in Seq(Byte) /\ Len(r) = Len(q) - c /\ \A i \in 1 .. Len(q) - c : r[i] = q[c + i]
    BY AfterFacts DEF Text
  <1> HIDE DEF r
  <1>3. a \in Seq(Byte) /\ Len(a) = e - 1 + 1 /\ \A i \in 1 .. e - 1 + 1 : a[i] = r[1 + i - 1]
    <2>1. 1 \in 1 .. Len(r) + 1 /\ e \in 1 - 1 .. Len(r)
      BY <1>1, <1>2
    <2>2. QED
      BY <1>2, <2>1, Part
  <1>4. /\ b \in Seq(Byte) /\ Len(b) = (c + e) - (c + 1) + 1
        /\ \A i \in 1 .. (c + e) - (c + 1) + 1 : b[i] = q[(c + 1) + i - 1]
    <2>1. c + 1 \in 1 .. Len(q) + 1 /\ c + e \in (c + 1) - 1 .. Len(q)
      BY <1>1
    <2>2. QED
      BY <1>1, <2>1, Part
  <1> HIDE DEF a, b
  <1>5. e - 1 + 1 = e /\ (c + e) - (c + 1) + 1 = e
    BY <1>1
  <1>6. ASSUME NEW i \in 1 .. e PROVE a[i] = b[i]
    <2>1. 1 + i - 1 = i /\ (c + 1) + i - 1 = c + i /\ i \in 1 .. Len(q) - c
      BY <1>1
    <2>2. QED
      BY <1>2, <1>3, <1>4, <1>5, <2>1
  <1>7. a \in Text /\ b \in Text /\ Len(a) = e /\ Len(b) = e
    BY <1>3, <1>4, <1>5 DEF Text
  <1>8. a = b
    BY <1>6, <1>7, SameText
  <1>9. QED
    BY <1>8 DEF a, b, r

\* The iteration has come as far as what remains.
ReadUpTo(q, rest, ps) == \E c \in 0 .. Len(q) : rest = After(q, c) /\ ReadTo(q, c, ps)

\* A turn of the loop in QueryPairs::next.
LEMMA TurnOfPairs ==
    ASSUME NEW q \in Text, NEW rest, NEW ps, ReadUpTo(q, rest, ps)
    PROVE  LET cut == SplitOnce(rest, Amp)
           IN  /\ cut[1] = <<>> => ReadUpTo(q, cut[2], ps)
               /\ cut[1] # <<>> =>
                     Pair(cut[1]) \in Pairs /\ ReadUpTo(q, cut[2], Append(ps, Pair(cut[1])))
  <1> DEFINE cut == SplitOnce(rest, Amp)
  <1>1. PICK c \in 0 .. Len(q) : rest = After(q, c) /\ ReadTo(q, c, ps)
    BY DEF ReadUpTo
  <1>2. /\ Len(q) \in Nat /\ c \in Nat
        /\ rest \in Text /\ Len(rest) = Len(q) - c
        /\ \A i \in 1 .. Len(q) - c : rest[i] = q[c + i]
    <2>1. Len(q) \in Nat
      BY DEF Text
    <2>2. QED
      BY <1>1, <2>1, AfterFacts
  <1>a. PICK e \in 0 .. Len(rest) : CutAt(cut, rest, Amp, e)
    BY <1>2, CutText
  <1>3. /\ cut[1] = SubSeq(rest, 1, e) /\ cut[1] \in Text
        /\ cut[1] = <<>> <=> e = 0
        /\ \A i \in 1 .. e : rest[i] # Amp
        /\ \/ e = Len(rest) /\ cut[2] = <<>>
           \/ e < Len(rest) /\ rest[e + 1] = Amp /\ cut[2] = After(rest, e + 1)
    BY <1>a DEF CutAt
  <1> HIDE DEF cut
  <1> DEFINE last == c + e
             next == IF last < Len(q) THEN last + 1 ELSE last
  <1>4. /\ last \in Nat /\ last \in 0 .. Len(q) /\ next \in 0 .. Len(q)
        /\ e = Len(rest) <=> last = Len(q)
        /\ e < Len(rest) <=> last < Len(q)
    BY <1>2
  <1>5. last < Len(q) => q[last + 1] = Amp
    <2>1. SUFFICES ASSUME last < Len(q) PROVE q[last + 1] = Amp
      OBVIOUS
    <2>2. e < Len(rest) /\ e + 1 \in 1 .. Len(q) - c /\ c + (e + 1) = last + 1
      BY <1>2, <1>4, <2>1
    <2>3. rest[e + 1] = Amp
      BY <1>3, <2>2
    <2>4. QED
      BY <1>2, <2>2, <2>3
  <1>6. cut[2] = After(q, next)
    <2>1. CASE last < Len(q)
      <3>1. e < Len(rest) /\ e # Len(rest)
        BY <1>2, <1>4, <2>1
      <3>2. cut[2] = After(rest, e + 1)
        BY <1>3, <3>1
      <3>3. e + 1 \in 0 .. Len(q) - c /\ c + (e + 1) = next
        BY <1>2, <2>1, <3>1
      <3> HIDE DEF next, last
      <3>4. After(After(q, c), e + 1) = After(q, c + (e + 1))
        BY <3>3, AfterAfter
      <3>5. QED
        BY <1>1, <3>2, <3>3, <3>4
    <2>2. CASE ~(last < Len(q))
      <3>1. ~(e < Len(rest)) /\ next = Len(q)
        BY <1>4, <2>2
      <3>2. cut[2] = <<>>
        BY <1>3, <3>1
      <3> HIDE DEF next, last
      <3>3. Len(q) \in 0 .. Len(q)
        BY <1>2
      <3>4. After(q, Len(q)) = <<>>
        BY <3>3, AfterFacts
      <3>5. QED
        BY <3>1, <3>2, <3>4
    <2>3. QED
      BY <2>1, <2>2
  <1>7. ASSUME cut[1] = <<>> PROVE ReadUpTo(q, cut[2], ps)
    <2>1. e = 0 /\ last = c
      BY <1>2, <1>3, <1>7
    <2>2. CASE last < Len(q)
      <3>1. next = c + 1 /\ c < Len(q) /\ q[c + 1] = Amp
        BY <1>5, <2>1, <2>2
      <3>2. ReadTo(q, c + 1, ps)
        BY <1>1, <3>1, ReadGap
      <3> HIDE DEF next, last
      <3>3. QED
        BY <1>4, <1>6, <3>1, <3>2 DEF ReadUpTo
    <2>3. CASE ~(last < Len(q))
      <3>1. next = c
        BY <2>1, <2>3
      <3> HIDE DEF next, last
      <3>2. QED
        BY <1>1, <1>6, <3>1 DEF ReadUpTo
    <2>4. QED
      BY <2>2, <2>3
  <1>8. ASSUME cut[1] # <<>>
        PROVE  Pair(cut[1]) \in Pairs /\ ReadUpTo(q, cut[2], Append(ps, Pair(cut[1])))
    <2>1. e # 0
      BY <1>3, <1>8
    <2>2. /\ c < Len(q) /\ last \in c + 1 .. Len(q) /\ c + 1 \in 1 .. Len(q)
          /\ e \in 0 .. Len(q) - c
      BY <1>2, <1>4, <2>1
    <2>3. cut[1] = SubSeq(q, c + 1, last)
      BY <1>1, <1>3, <2>2, PartOfRest
    <2>4. ASSUME NEW j \in c + 1 .. last PROVE q[j] # Amp
      <3>1. j - c \in 1 .. e /\ j - c \in 1 .. Len(q) - c /\ c + (j - c) = j
        BY <1>2, <2>2
      <3>2. QED
        BY <1>2, <1>3, <3>1
    <2>5. next = IF last < Len(q) THEN last + 1 ELSE last
      OBVIOUS
    <2> HIDE DEF last, next
    <2>6. Pair(cut[1]) \in Pairs /\ SpelledAs(q, c + 1, last, Pair(cut[1]))
      BY <1>3, <2>2, <2>3, PairFacts
    <2>7. ReadTo(q, next, Append(ps, Pair(cut[1])))
      BY <1>1, <1>5, <2>2, <2>4, <2>5, <2>6, ReadPair
    <2>8. QED
      BY <1>4, <1>6, <2>6, <2>7 DEF ReadUpTo
  <1>9. QED
    BY <1>7, <1>8 DEF cut

-----------------------------------------------------------------------------
(* percent_decode.                                                          *)

Errors == {"none", "BufferOverflow", "InvalidResponse"}
Results == [error : Errors, bytes : Text]
Result(error, bytes) == [error |-> error, bytes |-> bytes]

\* The text is decoded but for the rest.
Partly(coded, rest, bytes) ==
    \E c \in 0 .. Len(coded) :
        rest = After(coded, c) /\ DecodedTo(coded, c, bytes) /\ Len(bytes) <= DecodeLen

\* Nothing of the text is decoded at first.
LEMMA PartlyStarts ==
    ASSUME NEW coded \in Text, NEW none, none = <<>>
    PROVE  Partly(coded, coded, none)
  <1>1. 0 \in 0 .. Len(coded) /\ Len(none) = 0
    BY DEF Text
  <1>2. After(coded, 0) = coded
    BY <1>1, AfterFacts
  <1>3. DecodedTo(coded, 0, none)
    BY DecodingStarts
  <1>4. Len(none) <= DecodeLen
    BY <1>1, ExchangesAssumption
  <1>5. QED
    BY <1>1, <1>2, <1>3, <1>4 DEF Partly

\* The next byte is written when there is room for it.
Puts(coded, rest, bytes, byte, rest2) ==
    /\ Len(bytes) = DecodeLen => DecodedWell(coded, Result("BufferOverflow", <<>>))
    /\ Len(bytes) # DecodeLen => Partly(coded, rest2, Append(bytes, byte))

\* The byte of the next piece is put, or there is no room for it.
LEMMA PutFacts ==
    ASSUME NEW coded \in Text, NEW c, NEW bytes, DecodedTo(coded, c, bytes),
           Len(bytes) <= DecodeLen, NEW w, Piece(coded, c, w),
           NEW byte, byte = ByteAt(coded, c + 1), byte \in Byte,
           NEW rest, NEW rest2, rest2 = After(coded, c + w)
    PROVE  Puts(coded, rest, bytes, byte, rest2)
  <1> DEFINE more == Append(bytes, byte)
  <1>1. DecodedTo(coded, c + w, more)
    BY DecodingSteps
  <1>2. bytes \in Text /\ Len(bytes) \in Nat /\ c \in 0 .. Len(coded) /\ Len(coded) \in Nat
    BY DEF DecodedTo, Text
  <1>3. Len(more) = Len(bytes) + 1
    BY <1>2 DEF Text
  <1>a. more = Append(bytes, byte)
    OBVIOUS
  <1> HIDE DEF more
  <1>4. c + w \in 1 .. Len(coded)
    BY <1>2 DEF Piece
  <1>5. ASSUME Len(bytes) = DecodeLen PROVE DecodedWell(coded, Result("BufferOverflow", <<>>))
    <2>1. WellEscaped(coded, c + w) /\ Len(more) = Cardinality(Heads(coded, c + w))
      BY <1>1 DEF DecodedTo
    <2>2. Cardinality(Heads(coded, c + w)) > DecodeLen
      BY <1>2, <1>3, <1>5, <2>1
    <2>3. Result("BufferOverflow", <<>>).error = "BufferOverflow"
      BY DEF Result
    <2>4. QED
      BY <1>4, <2>1, <2>2, <2>3 DEF DecodedWell
  <1>6. ASSUME Len(bytes) # DecodeLen PROVE Partly(coded, rest2, more)
    <2>1. Len(more) <= DecodeLen
      BY <1>2, <1>3, <1>6, ExchangesAssumption
    <2>2. c + w \in 0 .. Len(coded)
      BY <1>4
    <2>3. QED
      BY <1>1, <2>1, <2>2 DEF Partly
  <1>7. QED
    BY <1>a, <1>5, <1>6 DEF Puts

\* A turn of the loop: it returns with what the text deserves, or goes on.
Turned(coded, rest, bytes) ==
    \/ /\ rest = <<>>
       /\ DecodedWell(coded, IF Utf8(bytes) THEN Result("none", bytes)
                             ELSE Result("InvalidResponse", <<>>))
    \/ /\ rest # <<>> /\ Head(rest) = Plus
       /\ Puts(coded, rest, bytes, Space, Tail(rest)) /\ Space \in Byte
    \/ /\ rest # <<>> /\ Head(rest) \notin {Plus, Pct}
       /\ Puts(coded, rest, bytes, Head(rest), Tail(rest)) /\ Head(rest) \in Byte
    \/ /\ rest # <<>> /\ Head(rest) = Pct
       /\ Len(rest) >= 3 /\ HexDigit(rest[2]) /\ HexDigit(rest[3])
       /\ Puts(coded, rest, bytes, 16 * hex_value(rest[2]) + hex_value(rest[3]), After(rest, 3))
       /\ 16 * hex_value(rest[2]) + hex_value(rest[3]) \in Byte
    \/ /\ rest # <<>> /\ Head(rest) = Pct
       /\ ~(Len(rest) >= 3 /\ HexDigit(rest[2]) /\ HexDigit(rest[3]))
       /\ DecodedWell(coded, Result("InvalidResponse", <<>>))

\* Every turn of the loop of percent_decode is one of the five.
LEMMA TurnFacts ==
    ASSUME NEW coded \in Text, NEW rest, NEW bytes, Partly(coded, rest, bytes)
    PROVE  Turned(coded, rest, bytes)
  <1>1. PICK c \in 0 .. Len(coded) :
            rest = After(coded, c) /\ DecodedTo(coded, c, bytes) /\ Len(bytes) <= DecodeLen
    BY DEF Partly
  <1>2. /\ Len(coded) \in Nat /\ c \in Nat /\ rest \in Text /\ Len(rest) = Len(coded) - c
        /\ \A i \in 1 .. Len(coded) - c : rest[i] = coded[c + i]
        /\ rest = <<>> <=> c = Len(coded)
    <2>1. Len(coded) \in Nat /\ c \in Nat
      BY DEF Text
    <2> DEFINE r == After(coded, c)
    <2>2. /\ r \in Text /\ Len(r) = Len(coded) - c
          /\ \A i \in 1 .. Len(coded) - c : r[i] = coded[c + i]
          /\ r = <<>> <=> c = Len(coded)
      <3>1. c \in 0 .. Len(coded)
        OBVIOUS
      <3>2. QED
        BY <3>1, AfterFacts
    <2>3. rest = r
      BY <1>1
    <2> HIDE DEF r
    <2>4. QED
      BY <2>1, <2>2, <2>3
  <1>3. CASE rest = <<>>
    <2>1. DecodedTo(coded, Len(coded), bytes)
      BY <1>1, <1>2, <1>3
    <2>2. WellEscaped(coded, Len(coded)) /\ Meaning(coded) = bytes
      BY <2>1, DecodingEnds
    <2>3. CASE Utf8(bytes)
      <3> DEFINE r == Result("none", bytes)
      <3>1. r.error = "none" /\ r.bytes = bytes
        BY DEF Result
      <3> HIDE DEF r
      <3>2. DecodedWell(coded, r)
        BY <1>1, <2>2, <2>3, <3>1 DEF DecodedWell
      <3>3. QED
        BY <1>3, <2>3, <3>2 DEF r, Turned
    <2>4. CASE ~Utf8(bytes)
      <3> DEFINE r == Result("InvalidResponse", <<>>)
      <3>1. r.error = "InvalidResponse"
        BY DEF Result
      <3> HIDE DEF r
      <3>2. DecodedWell(coded, r)
        BY <2>2, <2>4, <3>1 DEF DecodedWell
      <3>3. QED
        BY <1>3, <2>4, <3>2 DEF r, Turned
    <2>5. QED
      BY <2>3, <2>4
  <1>4. ASSUME rest # <<>>
        PROVE  /\ c < Len(coded) /\ Head(rest) = coded[c + 1] /\ coded[c + 1] \in Byte
               /\ Tail(rest) = After(coded, c + 1)
    <2>1. c < Len(coded) /\ 1 \in 1 .. Len(coded) - c /\ c + 1 \in 1 .. Len(coded)
      BY <1>2, <1>4
    <2>2. Head(rest) = rest[1]
      BY <1>2, <1>4 DEF Text
    <2>3. rest[1] = coded[c + 1]
      BY <1>2, <2>1
    <2>4. coded[c + 1] \in Byte
      BY <2>1 DEF Text
    <2>5. Tail(rest) = After(coded, c + 1)
      <3> DEFINE a == Tail(rest)
                 b == After(coded, c + 1)
      <3>1. a \in Text /\ Len(a) = Len(rest) - 1 /\ \A i \in 1 .. Len(rest) - 1 : a[i] = rest[i + 1]
        BY <1>2, <1>4 DEF Text
      <3>2. /\ b \in Text /\ Len(b) = Len(coded) - (c + 1)
            /\ \A i \in 1 .. Len(coded) - (c + 1) : b[i] = coded[(c + 1) + i]
        <4>1. c + 1 \in 0 .. Len(coded)
          BY <2>1
        <4>2. QED
          BY <4>1, AfterFacts
      <3> HIDE DEF a, b
      <3>3. Len(a) = Len(b)
        BY <1>2, <3>1, <3>2
      <3>4. ASSUME NEW i \in 1 .. Len(a) PROVE a[i] = b[i]
        <4>1. /\ i \in 1 .. Len(rest) - 1 /\ i \in 1 .. Len(coded) - (c + 1)
              /\ i + 1 \in 1 .. Len(coded) - c /\ c + (i + 1) = (c + 1) + i
          BY <1>2, <3>1
        <4>2. QED
          BY <1>2, <3>1, <3>2, <4>1
      <3>5. a = b
        BY <3>1, <3>2, <3>3, <3>4, SameText
      <3>6. QED
        BY <3>5 DEF a, b
    <2>6. QED
      BY <2>1, <2>2, <2>3, <2>4, <2>5
  <1>5. CASE rest # <<>> /\ Head(rest) # Pct
    <2>1. /\ c < Len(coded) /\ Head(rest) = coded[c + 1] /\ coded[c + 1] \in Byte
          /\ Tail(rest) = After(coded, c + 1)
      BY <1>4, <1>5
    <2>2. Piece(coded, c, 1)
      <3>1. c + 1 <= Len(coded)
        BY <1>2, <2>1
      <3>2. QED
        BY <1>5, <2>1, <3>1 DEF Piece
    <2>3. Space \in Byte /\ Plus # Pct
      BY DEF Space, Byte, Plus, Pct
    <2>4. CASE Head(rest) = Plus
      <3>1. ByteAt(coded, c + 1) = Space
        BY <1>5, <2>1, <2>4 DEF ByteAt
      <3>2. Puts(coded, rest, bytes, Space, Tail(rest))
        BY <1>1, <2>1, <2>2, <2>3, <3>1, PutFacts
      <3>3. QED
        BY <1>5, <2>3, <2>4, <3>2 DEF Turned
    <2>5. CASE Head(rest) # Plus
      <3>1. ByteAt(coded, c + 1) = Head(rest) /\ Head(rest) \in Byte
        BY <1>5, <2>1, <2>5 DEF ByteAt
      <3>2. Puts(coded, rest, bytes, Head(rest), Tail(rest))
        BY <1>1, <2>1, <2>2, <3>1, PutFacts
      <3>3. QED
        BY <1>5, <2>5, <3>1, <3>2 DEF Turned
    <2>6. QED
      BY <2>4, <2>5
  <1>6. CASE rest # <<>> /\ Head(rest) = Pct
    <2>1. c < Len(coded) /\ coded[c + 1] = Pct
      BY <1>4, <1>6
    <2>2. ASSUME Len(rest) >= 3
          PROVE  /\ c + 3 <= Len(coded) /\ rest[2] = coded[c + 2] /\ rest[3] = coded[c + 3]
                 /\ coded[c + 2] \in Byte /\ coded[c + 3] \in Byte
      <3>1. /\ c + 3 <= Len(coded) /\ 2 \in 1 .. Len(coded) - c /\ 3 \in 1 .. Len(coded) - c
            /\ c + 2 \in 1 .. Len(coded) /\ c + 3 \in 1 .. Len(coded)
        BY <1>2, <2>2
      <3>2. coded[c + 2] \in Byte /\ coded[c + 3] \in Byte
        BY <3>1 DEF Text
      <3>3. QED
        BY <1>2, <3>1, <3>2
    <2>3. CASE Len(rest) >= 3 /\ HexDigit(rest[2]) /\ HexDigit(rest[3])
      <3> DEFINE byte == 16 * hex_value(rest[2]) + hex_value(rest[3])
      <3>1. /\ rest[2] = coded[c + 2] /\ rest[3] = coded[c + 3] /\ c + 3 <= Len(coded)
            /\ coded[c + 2] \in Byte /\ coded[c + 3] \in Byte
        BY <2>2, <2>3
      <3>2. /\ coded[c + 2] \in Hex /\ coded[c + 3] \in Hex
            /\ hex_value(rest[2]) = DigitValue(coded[c + 2]) /\ hex_value(rest[2]) \in 0 .. 15
            /\ hex_value(rest[3]) = DigitValue(coded[c + 3]) /\ hex_value(rest[3]) \in 0 .. 15
        BY <2>3, <3>1, HexFacts
      <3>3. byte \in Byte
        <4>1. \A x, y \in 0 .. 15 : 16 * x + y \in 0 .. 255
          OBVIOUS
        <4>2. QED
          BY <3>2, <4>1 DEF Byte
      <3>4. byte = ByteAt(coded, c + 1)
        <4>1. (c + 1) + 1 = c + 2 /\ (c + 1) + 2 = c + 3
          BY <1>2
        <4>2. QED
          BY <2>1, <3>2, <4>1 DEF ByteAt
      <3>5. Piece(coded, c, 3)
        BY <2>1, <3>1, <3>2 DEF Piece
      <3>6. After(rest, 3) = After(coded, c + 3)
        <4>1. 3 \in 0 .. Len(coded) - c
          BY <1>2, <2>3
        <4>2. QED
          BY <1>1, <4>1, AfterAfter
      <3> DEFINE rest2 == After(rest, 3)
      <3>7. rest2 = After(coded, c + 3)
        BY <3>6
      <3>a. byte = 16 * hex_value(rest[2]) + hex_value(rest[3])
        OBVIOUS
      <3> HIDE DEF byte, rest2
      <3>8. Puts(coded, rest, bytes, byte, rest2)
        BY <1>1, <3>3, <3>4, <3>5, <3>7, PutFacts
      <3>9. QED
        BY <1>6, <2>3, <3>3, <3>8 DEF Turned, byte, rest2
    <2>4. CASE ~(Len(rest) >= 3 /\ HexDigit(rest[2]) /\ HexDigit(rest[3]))
      <3>1. ~(c + 3 <= Len(coded) /\ coded[c + 2] \in Hex /\ coded[c + 3] \in Hex)
        <4>1. SUFFICES ASSUME c + 3 <= Len(coded), coded[c + 2] \in Hex, coded[c + 3] \in Hex
                       PROVE  FALSE
          OBVIOUS
        <4>2. Len(rest) >= 3
          BY <1>2, <4>1
        <4>3. HexDigit(rest[2]) /\ HexDigit(rest[3])
          BY <2>2, <4>1, <4>2, HexFacts
        <4>4. QED
          BY <2>4, <4>2, <4>3
      <3>2. ~WellEscaped(coded, Len(coded))
        BY <2>1, <3>1, DecodingFails
      <3> DEFINE r == Result("InvalidResponse", <<>>)
      <3>3. r.error = "InvalidResponse"
        BY DEF Result
      <3> HIDE DEF r
      <3>4. DecodedWell(coded, r)
        BY <3>2, <3>3 DEF DecodedWell
      <3>5. QED
        BY <1>6, <2>4, <3>4 DEF r, Turned
    <2>5. QED
      BY <2>3, <2>4
  <1>7. QED
    BY <1>3, <1>5, <1>6

\* The call of percent_decode returns, or its loop goes on.
Returned(coded) ==
    \E e \in Errors, b \in Text : Decoded(e, b) /\ DecodedWell(coded, Result(e, b))
Continued(coded) ==
    \E rest :
        /\ texts' = <<rest>> \o Tail(texts) /\ UNCHANGED <<at, decoded>>
        /\ Partly(coded, rest, out')

\* percent_decode returns.
LEMMA ReturnedFacts ==
    ASSUME NEW coded, NEW e \in Errors, NEW b \in Text,
           Decoded(e, b), DecodedWell(coded, Result(e, b))
    PROVE  Returned(coded)
  BY Zenon DEF Returned

\* percent_decode puts a byte.
LEMMA PutTurns ==
    ASSUME NEW coded, NEW byte, NEW rest, NEW rest2,
           Put(byte, rest2), Puts(coded, rest, out, byte, rest2)
    PROVE  Returned(coded) \/ Continued(coded)
  <1>1. CASE Len(out) = DecodeLen
    <2>1. Decoded("BufferOverflow", <<>>)
      BY <1>1 DEF Put
    <2>2. DecodedWell(coded, Result("BufferOverflow", <<>>))
      BY <1>1 DEF Puts
    <2>3. <<>> \in Text
      BY DEF Text
    <2>4. "BufferOverflow" \in Errors
      BY DEF Errors
    <2>5. QED
      BY <2>1, <2>2, <2>3, <2>4, ReturnedFacts
  <1>2. CASE Len(out) # DecodeLen
    <2>1. out' = Append(out, byte) /\ texts' = <<rest2>> \o Tail(texts) /\ UNCHANGED <<at, decoded>>
      BY <1>2 DEF Put
    <2>2. Partly(coded, rest2, Append(out, byte))
      BY <1>2 DEF Puts
    <2>3. Partly(coded, rest2, out')
      BY <2>1, <2>2, Zenon
    <2>4. QED
      BY <2>1, <2>3, Zenon DEF Continued
  <1>3. QED
    BY <1>1, <1>2

\* DecodeByte, over the text that is being decoded.
LEMMA DecodeTurns ==
    ASSUME NEW coded \in Text, Partly(coded, Head(texts), out), DecodeByte
    PROVE  Returned(coded) \/ Continued(coded)
  <1> DEFINE rest == Head(texts)
  <1>1. Turned(coded, rest, out)
    BY TurnFacts
  <1>2. IF rest = <<>>
          THEN IF Utf8(out) THEN Decoded("none", out) ELSE Decoded("InvalidResponse", <<>>)
        ELSE IF Head(rest) = Plus THEN Put(Space, Tail(rest))
        ELSE IF Head(rest) # Pct THEN Put(Head(rest), Tail(rest))
        ELSE IF Len(rest) >= 3 /\ HexDigit(rest[2]) /\ HexDigit(rest[3])
          THEN Put(16 * hex_value(rest[2]) + hex_value(rest[3]), After(rest, 3))
        ELSE Decoded("InvalidResponse", <<>>)
    BY DEF DecodeByte
  <1>3. out \in Text
    BY DEF Partly, DecodedTo
  <1>a. <<>> \in Text
    BY DEF Text
  <1>b. "none" \in Errors /\ "InvalidResponse" \in Errors
    BY DEF Errors
  <1> HIDE DEF rest
  <1>4. Plus # Pct
    BY DEF Plus, Pct
  <1>5. CASE rest = <<>>
    <2>1. DecodedWell(coded, IF Utf8(out) THEN Result("none", out)
                             ELSE Result("InvalidResponse", <<>>))
      BY <1>1, <1>5 DEF Turned
    <2>2. CASE Utf8(out)
      <3>1. Decoded("none", out)
        BY <1>2, <1>5, <2>2
      <3>2. DecodedWell(coded, Result("none", out))
        BY <2>1, <2>2, Zenon
      <3>3. QED
        BY <1>3, <1>a, <1>b, <3>1, <3>2, ReturnedFacts
    <2>3. CASE ~Utf8(out)
      <3>1. Decoded("InvalidResponse", <<>>)
        BY <1>2, <1>5, <2>3
      <3>2. DecodedWell(coded, Result("InvalidResponse", <<>>))
        BY <2>1, <2>3, Zenon
      <3>3. QED
        BY <1>3, <1>a, <1>b, <3>1, <3>2, ReturnedFacts
    <2>4. QED
      BY <2>2, <2>3
  <1>6. CASE rest # <<>> /\ Head(rest) = Plus
    <2>1. Puts(coded, rest, out, Space, Tail(rest))
      BY <1>1, <1>4, <1>6 DEF Turned
    <2>2. Put(Space, Tail(rest))
      BY <1>2, <1>6
    <2>3. QED
      BY <2>1, <2>2, PutTurns
  <1>7. CASE rest # <<>> /\ Head(rest) \notin {Plus, Pct}
    <2>1. Puts(coded, rest, out, Head(rest), Tail(rest))
      BY <1>1, <1>7 DEF Turned
    <2>2. Put(Head(rest), Tail(rest))
      BY <1>2, <1>7
    <2>3. QED
      BY <2>1, <2>2, PutTurns
  <1>8. CASE rest # <<>> /\ Head(rest) = Pct
    <2>1. CASE Len(rest) >= 3 /\ HexDigit(rest[2]) /\ HexDigit(rest[3])
      <3> DEFINE byte == 16 * hex_value(rest[2]) + hex_value(rest[3])
                 rest2 == After(rest, 3)
      <3>1. Puts(coded, rest, out, byte, rest2)
        BY <1>1, <1>4, <1>8, <2>1 DEF Turned
      <3>2. Put(byte, rest2)
        BY <1>2, <1>4, <1>8, <2>1
      <3> HIDE DEF byte, rest2
      <3>3. QED
        BY <3>1, <3>2, PutTurns
    <2>2. CASE ~(Len(rest) >= 3 /\ HexDigit(rest[2]) /\ HexDigit(rest[3]))
      <3>1. DecodedWell(coded, Result("InvalidResponse", <<>>))
        BY <1>1, <1>4, <1>8, <2>2 DEF Turned
      <3>2. Decoded("InvalidResponse", <<>>)
        BY <1>2, <1>4, <1>8, <2>2
      <3>3. QED
        BY <1>3, <1>a, <1>b, <3>1, <3>2, ReturnedFacts
    <2>3. QED
      BY <2>1, <2>2
  <1>9. QED
    BY <1>5, <1>6, <1>7, <1>8

-----------------------------------------------------------------------------
(* The query, to the end of the handler.                                    *)

\* What is left of the query holds the pairs still to come.
Walked ==
    /\ at \in Begun => pairs = <<>>
    /\ at \in Served => ReadUpTo(Query, remaining, pairs)
    /\ handler = "builder" /\ at \in {"handle", "serialise", "answer", "panicked"} =>
          remaining = <<>>

\* The results so far are those of the names and values so far.
Resulted ==
    /\ pairs \in Seq(Pairs) /\ decoded \in Seq(Results)
    /\ \A k \in 1 .. Len(pairs) :
          /\ 2 * k - 1 <= Len(decoded) => DecodedWell(pairs[k].name, decoded[2 * k - 1])
          /\ 2 * k <= Len(decoded) => DecodedWell(pairs[k].value, decoded[2 * k])

\* Nothing is being decoded, or the name of the last pair is, or its value.
Idle ==
    /\ at # "decode" /\ texts = <<>> /\ out = <<>>
    /\ Len(decoded) = 2 * Len(pairs)
InName ==
    /\ at = "decode" /\ pairs # <<>> /\ Len(decoded) = 2 * Len(pairs) - 2
    /\ \E rest : /\ texts = <<rest, pairs[Len(pairs)].value>>
                 /\ Partly(pairs[Len(pairs)].name, rest, out)
InValue ==
    /\ at = "decode" /\ pairs # <<>> /\ Len(decoded) = 2 * Len(pairs) - 1
    /\ \E rest : texts = <<rest>> /\ Partly(pairs[Len(pairs)].value, rest, out)

DecodingInv == Resulted /\ (Idle \/ InName \/ InValue)
QueryInv == Walked /\ DecodingInv

\* Nothing of the query is read at first.
LEMMA QueryInit == Init => QueryInv
  <1>1. SUFFICES ASSUME Init PROVE QueryInv
    OBVIOUS
  <1>2. at = "endpoint" /\ pairs = <<>> /\ texts = <<>> /\ out = <<>> /\ decoded = <<>>
    BY <1>1 DEF Init
  <1>3. Walked
    BY <1>2 DEF Walked, Served
  <1>4. Len(pairs) = 0 /\ Len(decoded) = 0 /\ pairs \in Seq(Pairs) /\ decoded \in Seq(Results)
    BY <1>2
  <1>5. Idle
    BY <1>2, <1>4 DEF Idle
  <1>6. \A k \in 1 .. Len(pairs) : FALSE
    BY <1>4
  <1>7. Resulted
    BY <1>4, <1>6 DEF Resulted
  <1>8. QED
    BY <1>3, <1>5, <1>7 DEF QueryInv, DecodingInv

\* What the query's variables are, when nothing of them changes.
LEMMA DecodingStays ==
    ASSUME DecodingInv, UNCHANGED <<pairs, texts, out, decoded>>,
           (at # "decode" /\ at' # "decode") \/ at' = at
    PROVE  DecodingInv'
  <1>1. Resulted'
    BY DEF DecodingInv, Resulted
  <1>2. Idle => Idle'
    BY DEF Idle
  <1>3. InName => InName'
    BY DEF InName
  <1>4. InValue => InValue'
    BY DEF InValue
  <1>5. QED
    BY <1>1, <1>2, <1>3, <1>4 DEF DecodingInv

\* The query is that of the request.
LEMMA SameQuery == request' = request => Query' = Query
  BY DEF Query

\* The handler and the server after it leave the query alone.
LEMMA QueryKept ==
    ASSUME QueryInv, UNCHANGED <<request, remaining, pairs, texts, out, decoded, handler>>,
           \/ at \in Served \ {"decode", "query"}
              /\ at' \in {"handle", "serialise", "answer", "panicked", "done"}
           \/ at' = at
           \/ at \in Begun /\ at' \in {"ask", "parse", "done"}
    PROVE  QueryInv'
  <1>1. at' \in Served => at \in Served
    BY DEF Served, Begun
  <1>2. Query' = Query
    BY SameQuery
  <1>3. ReadUpTo(Query, remaining, pairs)' <=> ReadUpTo(Query, remaining, pairs)
    BY <1>2 DEF ReadUpTo, ReadTo, StartsTo, Rank, SegmentEnd, SpelledAs
  <1>4. DecodingInv'
    <2>1. (at # "decode" /\ at' # "decode") \/ at' = at
      BY DEF Served, Begun
    <2>2. QED
      BY <2>1, DecodingStays DEF QueryInv
  <1>5. QED
    BY <1>1, <1>3, <1>4 DEF QueryInv, Walked, Served, Begun

\* ParseRequest, when it takes the request.
LEMMA QueryBegins ==
    ASSUME RequestInv, QueryInv, at = "parse",
           at' = (IF handler = "builder" THEN "query" ELSE "handle"),
           NEW n, request' = parse_from(Cut(wire, n)),
           remaining' = query_string(FirstWord(wire.path)),
           UNCHANGED <<pairs, texts, out, decoded, handler>>
    PROVE  QueryInv'
  <1>1. /\ at = "parse" /\ at' = (IF handler = "builder" THEN "query" ELSE "handle")
        /\ request' = parse_from(Cut(wire, n)) /\ remaining' = query_string(FirstWord(wire.path))
        /\ UNCHANGED <<pairs, texts, out, decoded, handler>>
    OBVIOUS
  <1>2. wire = WireOf(call) /\ pairs = <<>>
    BY <1>1 DEF RequestInv, Requested, QueryInv, Walked, Begun
  <1>3. Query' = query_string(FirstWord(wire.path))
    <2>1. request'.path = FirstWord(wire.path)
      BY <1>1, <1>2, ParsedFacts
    <2>2. QED
      BY <2>1 DEF Query
  <1>4. Query' \in Text
    BY <1>2, <1>3, TargetText
  <1>5. ReadUpTo(Query', remaining', pairs')
    <2> DEFINE q == Query'
               none == pairs'
    <2>1. q \in Text /\ remaining' = q /\ none = <<>>
      BY <1>1, <1>2, <1>3, <1>4
    <2> HIDE DEF q, none
    <2>2. 0 \in 0 .. Len(q)
      BY <2>1 DEF Text
    <2>3. After(q, 0) = q
      BY <2>1, <2>2, AfterFacts
    <2>4. ReadTo(q, 0, none)
      BY <2>1, ReadStarts
    <2>5. ReadUpTo(q, q, none)
      BY <2>2, <2>3, <2>4 DEF ReadUpTo
    <2>6. QED
      BY <2>1, <2>5 DEF q, none
  <1>6. ReadUpTo(Query, remaining, pairs)'
    BY <1>5 DEF ReadUpTo, ReadTo, StartsTo, Rank, SegmentEnd, SpelledAs
  <1>7. Walked'
    BY <1>1, <1>6 DEF Walked, Begun
  <1>8. DecodingInv'
    BY <1>1, DecodingStays DEF QueryInv
  <1>9. QED
    BY <1>7, <1>8 DEF QueryInv

\* NextPair.
LEMMA PairSteps ==
    ASSUME RequestInv, QueryInv, NextPair
    PROVE  QueryInv'
  <1> DEFINE cut == SplitOnce(remaining, Amp)
             pair == Pair(cut[1])
             n == Len(pairs)
  <1>1. /\ at = "query" /\ remaining' = cut[2]
        /\ UNCHANGED <<request, out, decoded, handler>>
        /\ cut[1] = <<>> => /\ at' = (IF cut[2] = <<>> THEN "handle" ELSE "query")
                            /\ UNCHANGED <<pairs, texts>>
        /\ cut[1] # <<>> => /\ at' = "decode" /\ pairs' = Append(pairs, pair)
                            /\ texts' = <<pair.name, pair.value>>
    BY DEF NextPair, served
  <1>2. /\ Query \in Text /\ Query' = Query
        /\ ReadUpTo(Query, remaining, pairs) /\ Resulted /\ Idle
    <2>1. at \in Served /\ at # "decode"
      BY <1>1 DEF Served
    <2>2. QED
      BY <1>1, <2>1, QueryText, SameQuery DEF QueryInv, Walked, DecodingInv, InName, InValue
  <1>3. /\ cut[1] = <<>> => ReadUpTo(Query, cut[2], pairs)
        /\ cut[1] # <<>> => pair \in Pairs /\ ReadUpTo(Query, cut[2], Append(pairs, pair))
    BY <1>2, TurnOfPairs
  <1> HIDE DEF cut, pair
  <1>4. ASSUME ReadUpTo(Query, remaining', pairs') PROVE ReadUpTo(Query, remaining, pairs)'
    <2>1. ReadUpTo(Query', remaining', pairs')
      BY <1>2, <1>4
    <2>2. QED
      BY <2>1 DEF ReadUpTo, ReadTo, StartsTo, Rank, SegmentEnd, SpelledAs
  <1>5. CASE cut[1] = <<>>
    <2>1. ReadUpTo(Query, remaining, pairs)'
      BY <1>1, <1>3, <1>4, <1>5
    <2>2. Walked'
      BY <1>1, <1>5, <2>1 DEF Walked, Begun
    <2>3. DecodingInv'
      <3>1. at # "decode" /\ at' # "decode" /\ UNCHANGED <<pairs, texts, out, decoded>>
        BY <1>1, <1>5
      <3>2. QED
        BY <3>1, DecodingStays DEF QueryInv
    <2>4. QED
      BY <2>2, <2>3 DEF QueryInv
  <1>6. CASE cut[1] # <<>>
    <2>1. ReadUpTo(Query, remaining, pairs)'
      BY <1>1, <1>3, <1>4, <1>6
    <2>2. Walked'
      BY <1>1, <1>6, <2>1 DEF Walked, Begun
    <2>3. /\ pairs' \in Seq(Pairs) /\ Len(pairs') = n + 1
          /\ \A k \in 1 .. n : pairs'[k] = pairs[k]
          /\ pairs'[n + 1] = pair
      <3>1. pairs \in Seq(Pairs) /\ pair \in Pairs
        BY <1>2, <1>3, <1>6 DEF Resulted
      <3>2. QED
        BY <1>1, <1>6, <3>1, Appended
    <2>4. /\ n \in Nat /\ Len(decoded) = 2 * n /\ out = <<>> /\ pair.name \in Text
          /\ decoded \in Seq(Results)
      BY <1>2, <1>3, <1>6 DEF Resulted, Idle, Pairs
    <2>5. Resulted'
      <3>1. ASSUME NEW k \in 1 .. n + 1
            PROVE  /\ 2 * k - 1 <= Len(decoded) => DecodedWell(pairs'[k].name, decoded[2 * k - 1])
                   /\ 2 * k <= Len(decoded) => DecodedWell(pairs'[k].value, decoded[2 * k])
        <4>1. CASE k \in 1 .. n
          BY <1>2, <2>3, <4>1 DEF Resulted
        <4>2. CASE k = n + 1
          BY <2>4, <4>2
        <4>3. QED
          BY <2>4, <4>1, <4>2
      <3>2. decoded' = decoded
        BY <1>1
      <3>3. QED
        BY <2>3, <2>4, <3>1, <3>2 DEF Resulted
    <2>6. InName'
      <3>1. Partly(pair.name, pair.name, out)
        BY <2>4, PartlyStarts
      <3>2. /\ at' = "decode" /\ texts' = <<pair.name, pair.value>> /\ out' = out
            /\ decoded' = decoded
        BY <1>1, <1>6
      <3>3. pairs' # <<>> /\ Len(decoded') = 2 * Len(pairs') - 2
        BY <2>3, <2>4, <3>2
      <3>4. /\ texts' = <<pair.name, (pairs')[Len(pairs')].value>>
            /\ Partly((pairs')[Len(pairs')].name, pair.name, out')
        BY <2>3, <3>1, <3>2
      <3>5. QED
        BY <3>2, <3>3, <3>4 DEF InName
    <2>7. QED
      BY <2>2, <2>5, <2>6 DEF QueryInv, DecodingInv
  <1>7. QED
    BY <1>5, <1>6

\* A text in front of what is left to decode.
LEMMA Pushed ==
    ASSUME NEW x, NEW y
    PROVE  <<x>> \o <<y>> = <<x, y>> /\ <<x>> \o <<>> = <<x>>
  <1> DEFINE S == {x, y}
             u == <<x>> \o <<y>>
             v == <<x, y>>
  <1>1. u \in Seq(S) /\ Len(u) = 2 /\ u[1] = x /\ u[2] = y
    OBVIOUS
  <1>2. v \in Seq(S) /\ Len(v) = 2 /\ v[1] = x /\ v[2] = y
    OBVIOUS
  <1>3. <<x>> \o <<>> = <<x>>
    <2>1. <<x>> \in Seq(S)
      OBVIOUS
    <2>2. QED
      BY <2>1
  <1> HIDE DEF u, v
  <1>4. \A i \in 1 .. Len(u) : u[i] = v[i]
    BY <1>1, <1>2
  <1>5. u = v
    BY <1>1, <1>2, <1>4, SeqEqual
  <1>6. QED
    BY <1>3, <1>5 DEF u, v

\* A further result is that of the text that was being decoded.
LEMMA ResultAdded ==
    ASSUME Resulted, NEW e \in Errors, NEW b \in Text, NEW m, m = Len(decoded),
           NEW n, n = Len(pairs), n # 0,
           \/ m = 2 * n - 2 /\ DecodedWell(pairs[n].name, Result(e, b))
           \/ m = 2 * n - 1 /\ DecodedWell(pairs[n].value, Result(e, b)),
           decoded' = Append(decoded, Result(e, b)), pairs' = pairs
    PROVE  Resulted' /\ Len(decoded') = m + 1 /\ m \in Nat /\ n \in Nat
  <1> DEFINE result == Result(e, b)
  <1>1. /\ pairs \in Seq(Pairs) /\ decoded \in Seq(Results) /\ m \in Nat /\ n \in Nat
    BY DEF Resulted
  <1>2. result \in Results
    BY DEF Result, Results
  <1>3. \/ m = 2 * n - 2 /\ DecodedWell(pairs[n].name, result)
        \/ m = 2 * n - 1 /\ DecodedWell(pairs[n].value, result)
    OBVIOUS
  <1>a. decoded' = Append(decoded, result)
    OBVIOUS
  <1> HIDE DEF result
  <1>4. /\ decoded' \in Seq(Results) /\ Len(decoded') = m + 1
        /\ \A i \in 1 .. m : decoded'[i] = decoded[i]
        /\ decoded'[m + 1] = result
    BY <1>1, <1>2, <1>a, Appended
  <1>5. ASSUME NEW k \in 1 .. n
        PROVE  /\ 2 * k - 1 <= m + 1 => DecodedWell(pairs[k].name, decoded'[2 * k - 1])
               /\ 2 * k <= m + 1 => DecodedWell(pairs[k].value, decoded'[2 * k])
    <2>1. /\ 2 * k - 1 <= m => DecodedWell(pairs[k].name, decoded[2 * k - 1])
          /\ 2 * k <= m => DecodedWell(pairs[k].value, decoded[2 * k])
      BY <1>1 DEF Resulted
    <2>2. /\ 2 * k - 1 <= m => 2 * k - 1 \in 1 .. m
          /\ 2 * k <= m => 2 * k \in 1 .. m
      BY <1>1
    <2>3. ASSUME 2 * k - 1 = m + 1 PROVE DecodedWell(pairs[k].name, result)
      <3>1. k = n /\ m # 2 * n - 1
        BY <1>1, <1>3, <2>3
      <3>2. QED
        BY <1>3, <3>1
    <2>4. ASSUME 2 * k = m + 1 PROVE DecodedWell(pairs[k].value, result)
      <3>1. k = n /\ m # 2 * n - 2
        BY <1>1, <1>3, <2>4
      <3>2. QED
        BY <1>3, <3>1
    <2>a. \A x, y \in Nat : x <= y + 1 => x <= y \/ x = y + 1
      OBVIOUS
    <2>b. 2 * k - 1 \in Nat /\ 2 * k \in Nat
      BY <1>1
    <2>5. ASSUME 2 * k - 1 <= m + 1 PROVE DecodedWell(pairs[k].name, decoded'[2 * k - 1])
      <3>1. 2 * k - 1 <= m \/ 2 * k - 1 = m + 1
        BY <1>1, <2>5, <2>a, <2>b
      <3>2. QED
        BY <1>4, <2>1, <2>2, <2>3, <3>1
    <2>6. ASSUME 2 * k <= m + 1 PROVE DecodedWell(pairs[k].value, decoded'[2 * k])
      <3>1. 2 * k <= m \/ 2 * k = m + 1
        BY <1>1, <2>6, <2>a, <2>b
      <3>2. QED
        BY <1>4, <2>1, <2>2, <2>4, <3>1
    <2>7. QED
      BY <2>5, <2>6
  <1>6. Resulted'
    BY <1>1, <1>4, <1>5 DEF Resulted
  <1>7. QED
    BY <1>1, <1>4, <1>6

\* DecodeByte.
LEMMA DecodeSteps ==
    ASSUME QueryInv, DecodeByte
    PROVE  QueryInv'
  <1> DEFINE n == Len(pairs)
             last == pairs[n]
  <1>1. /\ at = "decode" /\ at' \in {"query", "decode"}
        /\ UNCHANGED <<request, remaining, pairs, handler>>
    BY DecodeFacts DEF served
  <1>2. Walked'
    <2>1. Query' = Query /\ ReadUpTo(Query, remaining, pairs)
      BY <1>1, SameQuery DEF QueryInv, Walked, Served
    <2>a. ReadUpTo(Query', remaining', pairs')
      BY <1>1, <2>1
    <2>2. ReadUpTo(Query, remaining, pairs)'
      BY <2>a DEF ReadUpTo, ReadTo, StartsTo, Rank, SegmentEnd, SpelledAs
    <2>3. QED
      BY <1>1, <2>2 DEF Walked, Begun
  <1>3. Resulted /\ (InName \/ InValue)
    BY <1>1 DEF QueryInv, DecodingInv, Idle
  <1>4. n \in Nat /\ n # 0 /\ last \in Pairs /\ last.name \in Text /\ last.value \in Text
    <2>1. pairs \in Seq(Pairs) /\ pairs # <<>>
      BY <1>3 DEF Resulted, InName, InValue
    <2>2. n \in Nat /\ n # 0 /\ last \in Pairs
      BY <2>1
    <2> HIDE DEF last
    <2>3. QED
      BY <2>2 DEF Pairs
  <1>5. CASE InName
    <2>1. PICK rest : texts = <<rest, last.value>> /\ Partly(last.name, rest, out)
      BY <1>5 DEF InName
    <2>2. Len(decoded) = 2 * n - 2 /\ pairs # <<>>
      BY <1>5 DEF InName
    <2>3. Head(texts) = rest /\ Tail(texts) = <<last.value>> /\ Len(texts) = 2
      BY <2>1
    <2>4. Returned(last.name) \/ Continued(last.name)
      BY <1>4, <2>1, <2>3, DecodeTurns
    <2>5. CASE Returned(last.name)
      <3>1. PICK e \in Errors, b \in Text : Decoded(e, b) /\ DecodedWell(last.name, Result(e, b))
        BY <2>5 DEF Returned
      <3>2. /\ decoded' = Append(decoded, Result(e, b)) /\ texts' = <<last.value>>
            /\ out' = <<>> /\ at' = "decode"
        BY <2>3, <3>1 DEF Decoded, Result
      <3>3. Resulted' /\ Len(decoded') = (2 * n - 2) + 1
        BY <1>1, <1>3, <1>4, <2>2, <3>1, <3>2, ResultAdded
      <3>4. Partly(last.value, last.value, out')
        BY <1>4, <3>2, PartlyStarts
      <3>5. (2 * n - 2) + 1 = 2 * n - 1
        BY <1>4
      <3>6. InValue'
        BY <1>1, <2>2, <3>2, <3>3, <3>4, <3>5 DEF InValue
      <3>7. QED
        BY <1>2, <3>3, <3>6 DEF QueryInv, DecodingInv
    <2>6. CASE Continued(last.name)
      <3>1. PICK r : /\ texts' = <<r>> \o Tail(texts) /\ UNCHANGED <<at, decoded>>
                     /\ Partly(last.name, r, out')
        BY <2>6 DEF Continued
      <3>2. texts' = <<r, last.value>>
        BY <2>3, <3>1, Pushed, Zenon
      <3>3. InName'
        BY <1>1, <2>2, <3>1, <3>2 DEF InName
      <3>4. Resulted'
        BY <1>1, <1>3, <3>1 DEF Resulted
      <3>5. QED
        BY <1>2, <3>3, <3>4 DEF QueryInv, DecodingInv
    <2>7. QED
      BY <2>4, <2>5, <2>6
  <1>6. CASE InValue
    <2>1. PICK rest : texts = <<rest>> /\ Partly(last.value, rest, out)
      BY <1>6 DEF InValue
    <2>2. Len(decoded) = 2 * n - 1 /\ pairs # <<>>
      BY <1>6 DEF InValue
    <2>3. Head(texts) = rest /\ Tail(texts) = <<>> /\ Len(texts) = 1
      BY <2>1
    <2>4. Returned(last.value) \/ Continued(last.value)
      BY <1>4, <2>1, <2>3, DecodeTurns
    <2>5. CASE Returned(last.value)
      <3>1. PICK e \in Errors, b \in Text : Decoded(e, b) /\ DecodedWell(last.value, Result(e, b))
        BY <2>5 DEF Returned
      <3>2. /\ decoded' = Append(decoded, Result(e, b)) /\ texts' = <<>>
            /\ out' = <<>> /\ at' = "query"
        BY <2>3, <3>1 DEF Decoded, Result
      <3>3. Resulted' /\ Len(decoded') = (2 * n - 1) + 1
        BY <1>1, <1>3, <1>4, <2>2, <3>1, <3>2, ResultAdded
      <3>4. (2 * n - 1) + 1 = 2 * n
        BY <1>4
      <3>5. Idle'
        BY <1>1, <3>2, <3>3, <3>4 DEF Idle
      <3>6. QED
        BY <1>2, <3>3, <3>5 DEF QueryInv, DecodingInv
    <2>6. CASE Continued(last.value)
      <3>1. PICK r : /\ texts' = <<r>> \o Tail(texts) /\ UNCHANGED <<at, decoded>>
                     /\ Partly(last.value, r, out')
        BY <2>6 DEF Continued
      <3>2. texts' = <<r>>
        BY <2>3, <3>1, Pushed, Zenon
      <3>3. InValue'
        BY <1>1, <2>2, <3>1, <3>2 DEF InValue
      <3>4. Resulted'
        BY <1>1, <1>3, <3>1 DEF Resulted
      <3>5. QED
        BY <1>2, <3>3, <3>4 DEF QueryInv, DecodingInv
    <2>7. QED
      BY <2>4, <2>5, <2>6
  <1>7. QED
    BY <1>3, <1>5, <1>6

\* Every step keeps the pairs and the results those of the query.
LEMMA QuerySteps ==
    ASSUME RequestInv, QueryInv, [Next]_vars
    PROVE  QueryInv'
  <1>1. CASE ParseEndpoint \/ Ask
    <2>1. /\ UNCHANGED <<request, remaining, pairs, texts, out, decoded, handler>>
          /\ at \in Begun /\ at' \in {"ask", "parse", "done"}
      BY <1>1 DEF ParseEndpoint, Ask, Fails, query, served, Begun
    <2>2. QED
      BY <2>1, QueryKept
  <1>2. CASE ParseRequest
    <2>a. at = "parse" /\ UNCHANGED <<pairs, texts, out, decoded, handler>>
      BY <1>2 DEF ParseRequest, served
    <2>1. CASE Dropped /\ UNCHANGED <<request, remaining>>
      <3>1. /\ UNCHANGED <<request, remaining, pairs, texts, out, decoded, handler>>
            /\ at \in Begun /\ at' = "done"
        BY <2>a, <2>1, DropFacts DEF Begun
      <3>2. QED
        BY <3>1, QueryKept
    <2>2. CASE /\ at' = (IF handler = "builder" THEN "query" ELSE "handle")
               /\ \E n \in BodyLengths(wire) : request' = parse_from(Cut(wire, n))
               /\ remaining' = query_string(FirstWord(wire.path))
      BY <2>a, <2>2, QueryBegins
    <2>3. QED
      BY <1>2, <2>1, <2>2 DEF ParseRequest
  <1>3. CASE NextPair
    BY <1>3, PairSteps
  <1>4. CASE DecodeByte
    BY <1>4, DecodeSteps
  <1>5. CASE CallBuilder \/ BuildResponse \/ HandleSimply \/ HandlerFails
    <2>1. /\ UNCHANGED <<request, remaining, pairs, texts, out, decoded, handler>>
          /\ at = "handle" /\ at' \in {"handle", "serialise"}
      BY <1>5 DEF CallBuilder, BuildResponse, HandleSimply, HandlerFails, Returns, query
    <2>2. QED
      BY <2>1, QueryKept DEF Served
  <1>6. CASE Serialise
    <2>1. /\ UNCHANGED <<request, remaining, pairs, texts, out, decoded, handler>>
          /\ at = "serialise" /\ at' \in {"answer", "done"}
      BY <1>6, DropFacts DEF Serialise, query, served
    <2>2. QED
      BY <2>1, QueryKept DEF Served
  <1>7. CASE ParseResp
    <2>1. /\ UNCHANGED <<request, remaining, pairs, texts, out, decoded, handler>>
          /\ at = "answer" /\ at' \in {"panicked", "done"}
      BY <1>7 DEF ParseResp, Fails, query, served
    <2>2. QED
      BY <2>1, QueryKept DEF Served
  <1>8. CASE UNCHANGED vars
    <2>1. UNCHANGED <<request, remaining, pairs, texts, out, decoded, handler, at>>
      BY <1>8 DEF vars, query, served
    <2>2. QED
      BY <2>1, QueryKept
  <1>9. QED
    BY <1>1, <1>2, <1>3, <1>4, <1>5, <1>6, <1>7, <1>8 DEF Next

\* The pairs are those of the query up to what remains of it, and the results
\* of percent_decode those of their names and values up to the byte in hand.
THEOREM QueryInvariant == Spec => []QueryInv
  <1>1. Init => QueryInv
    BY QueryInit
  <1>2. RequestInv /\ QueryInv /\ [Next]_vars => QueryInv'
    BY QuerySteps
  <1>3. QED
    BY <1>1, <1>2, RequestInvariant, PTL DEF Spec

\* The whole query read.
LEMMA QueryRead ==
    ASSUME RequestInv, QueryInv, at = "serialise", handler = "builder"
    PROVE  /\ Len(pairs) = Cardinality(Starts)
           /\ \A i \in Starts : Spells(pairs[Cardinality({j \in Starts : j <= i})], i)
  <1> DEFINE q == Query
  <1>1. q \in Text /\ remaining = <<>> /\ ReadUpTo(q, remaining, pairs)
    BY QueryText DEF QueryInv, Walked, Served
  <1>a. q = Query
    OBVIOUS
  <1> HIDE DEF q
  <1>2. PICK c \in 0 .. Len(q) : remaining = After(q, c) /\ ReadTo(q, c, pairs)
    BY <1>1 DEF ReadUpTo
  <1>3. c = Len(q)
    BY <1>1, <1>2, AfterFacts
  <1>4. Len(q) \in Nat /\ DOMAIN q = 1 .. Len(q)
    BY <1>1 DEF Text
  <1>5. Starts = StartsTo(q, Len(q))
    BY <1>4, <1>a DEF Starts, StartsTo
  <1>6. /\ Len(pairs) = Cardinality(StartsTo(q, Len(q)))
        /\ \A i \in StartsTo(q, Len(q)) : SpelledAs(q, i, SegmentEnd(q, i), pairs[Rank(q, i)])
    BY <1>2, <1>3 DEF ReadTo
  <1>7. ASSUME NEW i \in Starts
        PROVE  Spells(pairs[Cardinality({j \in Starts : j <= i})], i)
    <2> DEFINE pair == pairs[Rank(q, i)]
    <2>1. i \in 1 .. Len(q)
      BY <1>5 DEF StartsTo
    <2>2. {j \in Starts : j <= i} = StartsTo(q, i)
      <3>1. \A j \in 1 .. Len(q) : j <= i <=> j \in 1 .. i
        BY <1>4, <2>1
      <3>2. \A j \in 1 .. i : j \in 1 .. Len(q)
        BY <1>4, <2>1
      <3>3. QED
        BY <1>5, <3>1, <3>2 DEF StartsTo
    <2>3. SpelledAs(q, i, SegmentEnd(q, i), pair)
      BY <1>5, <1>6
    <2>4. pairs[Cardinality({j \in Starts : j <= i})] = pair
      BY <2>2 DEF Rank
    <2> HIDE DEF pair
    <2>5. Spells(pair, i)
      BY <1>a, <2>3 DEF Spells, SpelledAs, SegmentEnd
    <2>6. QED
      BY <2>4, <2>5
  <1>8. QED
    BY <1>5, <1>6, <1>7

\* The invariant at the end of the handler, in the words of the property.
LEMMA QueryArrivesHolds == RequestInv /\ QueryInv => QueryArrives
  <1>1. SUFFICES ASSUME RequestInv, QueryInv, at = "serialise", handler = "builder"
                 PROVE  QueryArrives
    BY DEF QueryArrives
  <1>2. /\ pairs \in Seq(Pairs) /\ Len(decoded) = 2 * Len(pairs) /\ Resulted
    BY <1>1 DEF QueryInv, DecodingInv, Idle, InName, InValue, Resulted
  <1>3. /\ Len(pairs) = Cardinality(Starts)
        /\ \A i \in Starts : Spells(pairs[Cardinality({j \in Starts : j <= i})], i)
    BY <1>1, QueryRead
  <1>4. ASSUME NEW k \in DOMAIN pairs
        PROVE  /\ DecodedWell(pairs[k].name, decoded[2 * k - 1])
               /\ DecodedWell(pairs[k].value, decoded[2 * k])
    <2>1. k \in 1 .. Len(pairs) /\ Len(pairs) \in Nat
      BY <1>2
    <2>2. 2 * k - 1 <= Len(decoded) /\ 2 * k <= Len(decoded)
      BY <1>2, <2>1
    <2>3. QED
      BY <1>2, <2>1, <2>2 DEF Resulted
  <1>5. /\ \A k \in DOMAIN pairs :
              LET same == {j \in DOMAIN pairs : pairs[j].name = pairs[k].name}
              IN  /\ query_first(pairs, pairs[k].name) = <<pairs[Min(same)]>>
                  /\ query_last(pairs, pairs[k].name) = <<pairs[Max(same)]>>
        /\ \A name \in QueryNames :
              LET first == {j \in DOMAIN pairs : NamesFirst(pairs[j].name, name)}
              IN  query_indexed(pairs, name, 0) =
                      IF first = {} THEN <<>> ELSE <<pairs[Min(first)]>>
    <2>1. \A name \in QueryNames : name \in Text
      BY ExchangesAssumption
    <2>2. QED
      BY <1>2, <2>1, LookupFacts
  <1>6. QED
    BY <1>3, <1>4, <1>5 DEF QueryArrives

\* The handler sees every pair of the query, in order and decoded as form
\* encoding has it, or the error that it deserves, for every query and every
\* size of the buffer (QueryPairs::next, percent_decode, query_first,
\* query_last, query_indexed).
THEOREM QueryArrivesAlways == Spec => []QueryArrives
  BY RequestInvariant, QueryInvariant, QueryArrivesHolds, PTL

\* The three invariants keep the variables to their types.
LEMMA TypesHold == RequestInv /\ AnswerInv /\ QueryInv => TypeOK
  <1>1. SUFFICES ASSUME RequestInv, AnswerInv, QueryInv PROVE TypeOK
    OBVIOUS
  <1>2. at \in Begun \cup Served \cup {"done"}
    BY <1>1 DEF RequestInv, Requested
  <1>3. made \in 0 .. Len(script) /\ Len(builder.headers) <= MaxHeaders
    BY <1>1 DEF AnswerInv, Assembled
  <1>4. pairs \in Seq(Pairs) /\ Len(pairs) \in Nat /\ (Idle \/ InName \/ InValue)
    BY <1>1 DEF QueryInv, DecodingInv, Resulted
  <1>5. Len(out) <= DecodeLen /\ ToSet(out) \subseteq 0 .. 255
    <2>1. out \in Text /\ Len(out) <= DecodeLen
      <3>1. CASE Idle
        <4>1. out = <<>> /\ Len(<<>>) = 0
          BY <3>1 DEF Idle
        <4>2. QED
          BY <4>1, ExchangesAssumption DEF Text
      <3>2. CASE InName \/ InValue
        BY <3>2 DEF InName, InValue, Partly, DecodedTo
      <3>3. QED
        BY <1>4, <3>1, <3>2
    <2>2. \A i \in DOMAIN out : out[i] \in 0 .. 255
      <3>1. out \in Seq(Byte)
        BY <2>1 DEF Text
      <3>2. \A i \in DOMAIN out : out[i] \in Byte
        BY <3>1
      <3>3. QED
        BY <3>2 DEF Byte
    <2>3. ToSet(out) \subseteq 0 .. 255
      BY <2>2, Zenon DEF ToSet
    <2>4. QED
      BY <2>1, <2>3
  <1>6. (at = "decode" <=> texts # <<>>) /\ Len(texts) + Len(decoded) = 2 * Len(pairs)
    <2>1. CASE Idle
      BY <1>4, <2>1 DEF Idle
    <2>2. CASE InName
      <3>1. at = "decode" /\ texts # <<>> /\ Len(texts) = 2 /\ Len(decoded) = 2 * Len(pairs) - 2
        BY <2>2 DEF InName
      <3>2. QED
        BY <1>4, <3>1
    <2>3. CASE InValue
      <3>1. at = "decode" /\ texts # <<>> /\ Len(texts) = 1 /\ Len(decoded) = 2 * Len(pairs) - 1
        BY <2>3 DEF InValue
      <3>2. QED
        BY <1>4, <3>1
    <2>4. QED
      BY <1>4, <2>1, <2>2, <2>3
  <1>7. request # Nothing => Len(request.headers) <= MaxHeaders
    <2>1. SUFFICES ASSUME request # Nothing PROVE Len(request.headers) <= MaxHeaders
      OBVIOUS
    <2>2. Parsed(request) /\ ~TooManyHeaders(WireOf(call))
      BY <1>1, <2>1 DEF RequestInv, Requested
    <2>3. request.headers = WireOf(call).headers
      BY <2>2, ParsedFacts DEF Parsed
    <2>4. Len(WireOf(call).headers) \in Nat
      BY <1>1, WireFacts
    <2>5. QED
      BY <2>2, <2>3, <2>4, MessageAssumption DEF TooManyHeaders
  <1>8. Len(response) <= 1
    <2>1. response = <<>> \/ Outcome
      BY <1>1, <1>2 DEF AnswerInv, Answered, Busy, Served
    <2>2. \E r : response = <<>> \/ response = <<r>>
      BY <2>1 DEF Outcome
    <2>3. Len(<<>>) = 0 /\ \A r : Len(<<r>>) = 1
      OBVIOUS
    <2>4. Len(response) = 0 \/ Len(response) = 1
      BY <2>2, <2>3, Zenon
    <2>5. QED
      BY <2>4
  <1>9. QED
    BY <1>2, <1>3, <1>5, <1>6, <1>7, <1>8 DEF TypeOK, Begun, Served

\* Every variable keeps to its type, and neither the buffer of percent_decode
\* nor the lists of headers are overrun (written, MAX_HEADERS).
THEOREM TypeCorrect == Spec => []TypeOK
  BY RequestInvariant, AnswerInvariant, QueryInvariant, TypesHold, PTL
=============================================================================
