---------------------------- MODULE Strings_proofs ----------------------------
(***************************************************************************)
(* Facts about strings and other sequences: what a fold over one computes, *)
(* where a string is trimmed, what a fold that cuts a string into parts    *)
(* leaves of it; that a fold over a set may take any element last; and     *)
(* that there is a function whose values rest on earlier ones.  A fold's   *)
(* operation is a parameter, for which the modules that use these facts    *)
(* instantiate this one.                                                   *)
(***************************************************************************)
EXTENDS Paths, WellFoundedInduction, FiniteSetTheorems, TLAPS

CONSTANT Op(_, _, _)    \* of a parameter, the value so far and the next element

Fold(par, base, seq) == FoldLeft(LAMBDA v, x : Op(par, v, x), base, seq)

LEMMA LeastNumber ==
    ASSUME NEW S, S \subseteq Nat, S # {}
    PROVE  \E n \in S : \A m \in S : n <= m
<1>1. \E n \in S : \A m \in S : <<m, n>> \notin OpToRel(<, Nat)
  BY NatLessThanWellFounded, WFMin
<1>2. PICK n \in S : \A m \in S : <<m, n>> \notin OpToRel(<, Nat)
  BY <1>1
<1>3. \A m \in S : ~(m < n)
  BY <1>2 DEF OpToRel
<1> QED
  BY <1>3

(* A set of numbers that has 0 and with a number the next has them all.    *)
LEMMA Induction ==
    ASSUME NEW n \in Nat, NEW S, 0 \in S, \A k \in 1..n : k - 1 \in S => k \in S
    PROVE  \A k \in 0..n : k \in S
<1> DEFINE Bad == {k \in 0..n : k \notin S}
<1> SUFFICES ASSUME Bad # {} PROVE FALSE
  OBVIOUS
<1>1. Bad \subseteq Nat
  OBVIOUS
<1>2. PICK k \in Bad : \A m \in Bad : k <= m
  BY <1>1, LeastNumber
<1>3. k \in 1..n /\ k - 1 \in 0..n /\ k - 1 < k
  OBVIOUS
<1> QED
  BY <1>2, <1>3

LEMMA MaxIs ==
    ASSUME NEW k \in Nat, NEW s \in SUBSET (1..k), s # {}
    PROVE  Max(s) \in s /\ \A i \in s : i <= Max(s)
<1> DEFINE Bounds == {b \in Nat : \A i \in s : i <= b}
<1>1. Bounds \subseteq Nat /\ k \in Bounds
  OBVIOUS
<1>2. PICK b \in Bounds : \A c \in Bounds : b <= c
  BY <1>1, LeastNumber
<1>3. b \in s
  <2>1. PICK i \in s : i <= b
    OBVIOUS
  <2>2. b - 1 \in Nat /\ b - 1 \notin Bounds
    BY <1>2, <2>1
  <2>3. PICK j \in s : ~(j <= b - 1)
    BY <2>2
  <2> QED
    BY <2>2, <2>3
<1>4. \E m \in s : \A i \in s : m >= i
  BY <1>3
<1>5. Max(s) \in s /\ \A i \in s : Max(s) >= i
  BY <1>4 DEF Max
<1> QED
  BY <1>5

(* The function on sets of positions that FoldLeft chooses.                *)
IsIter(f, par, base, seq, n) ==
    f = [s \in SUBSET (1..n) |->
            IF s = {} THEN base ELSE Op(par, f[s \ {Max(s)}], seq[Max(s)])]

LEMMA IterExists ==
    ASSUME NEW par, NEW base, NEW seq, NEW n \in Nat
    PROVE  \E f : IsIter(f, par, base, seq, n)
<1> DEFINE Good(f, k) == IsIter(f, par, base, seq, k)
           S == {k \in 0..n : \E f : Good(f, k)}
<1>1. 0 \in S
  <2> DEFINE f == [s \in SUBSET (1..0) |-> base]
  <2>1. \A s \in SUBSET (1..0) : s = {}
    OBVIOUS
  <2>2. Good(f, 0)
    BY <2>1 DEF IsIter
  <2> QED
    BY <2>2
<1>2. ASSUME NEW k \in 1..n, k - 1 \in S PROVE k \in S
  <2>1. PICK f : Good(f, k - 1)
    BY <1>2
  <2> DEFINE h == [s \in SUBSET (1..k) |->
                    IF k \notin s THEN f[s] ELSE Op(par, f[s \ {k}], seq[k])]
  <2>2. ASSUME NEW s \in SUBSET (1..k)
        PROVE  h[s] = IF s = {} THEN base ELSE Op(par, h[s \ {Max(s)}], seq[Max(s)])
    <3>1. CASE k \notin s
      <4>1. s \in SUBSET (1..(k - 1)) /\ k - 1 \in Nat
        BY <3>1
      <4>2. f[s] = IF s = {} THEN base ELSE Op(par, f[s \ {Max(s)}], seq[Max(s)])
        BY <2>1, <4>1 DEF IsIter
      <4>3. h[s] = f[s] /\ h[s \ {Max(s)}] = f[s \ {Max(s)}]
        BY <3>1
      <4> QED
        BY <4>2, <4>3
    <3>2. CASE k \in s
      <4>1. Max(s) = k
        <5>1. k \in Nat /\ s # {}
          BY <3>2
        <5>2. Max(s) \in s /\ \A i \in s : i <= Max(s)
          BY <5>1, MaxIs
        <5>3. \A m \in s : m <= k /\ m \in Nat
          OBVIOUS
        <5>4. Max(s) <= k /\ k <= Max(s) /\ Max(s) \in Nat
          BY <3>2, <5>2, <5>3
        <5> QED
          BY <5>4
      <4>2. h[s] = Op(par, f[s \ {k}], seq[k]) /\ h[s \ {k}] = f[s \ {k}]
        BY <3>2
      <4> QED
        BY <3>2, <4>1, <4>2
    <3> QED
      BY <3>1, <3>2
  <2>3. h = [s \in SUBSET (1..k) |-> h[s]]
    OBVIOUS
  <2> HIDE DEF h
  <2>4. Good(h, k)
    BY <2>2, <2>3 DEF IsIter
  <2> HIDE DEF Good
  <2> QED
    BY <2>4
<1> HIDE DEF S
<1>3. n \in S
  BY <1>1, <1>2, Induction
<1> QED
  BY <1>3 DEF S

(* A function on 0..n whose value at k rests on what it is below k.        *)
Recursion(par, n) == CHOOSE f : f = [k \in 0..n |-> Op(par, f, k)]

RestsOnLess(par, n) ==
    \A k \in 0..n : \A f, g :
        (\A i \in 0..n : i < k => f[i] = g[i]) => Op(par, f, k) = Op(par, g, k)

LEMMA RecursionIs ==
    ASSUME NEW par, NEW n \in Nat, RestsOnLess(par, n)
    PROVE  \A k \in 0..n : Recursion(par, n)[k] = Op(par, Recursion(par, n), k)
<1> DEFINE Good(f, m) == /\ f = [k \in 0..n |-> f[k]]
                         /\ \A k \in 0..n : k < m => f[k] = Op(par, f, k)
           S == {m \in 0..(n + 1) : \E f : Good(f, m)}
<1>1. 0 \in S
  <2>1. Good([k \in 0..n |-> 0], 0)
    OBVIOUS
  <2> QED
    BY <2>1
<1>2. ASSUME NEW m \in 1..(n + 1), m - 1 \in S PROVE m \in S
  <2>1. PICK f : Good(f, m - 1)
    BY <1>2
  <2> PICK v : v = Op(par, f, m - 1)
    OBVIOUS
  <2> DEFINE h == [k \in 0..n |-> IF k = m - 1 THEN v ELSE f[k]]
  <2>2. /\ h = [k \in 0..n |-> h[k]] /\ h[m - 1] = Op(par, f, m - 1)
        /\ \A k \in 0..n : k < m - 1 => h[k] = f[k]
    <3> HIDE DEF Good, S
    <3>1. m - 1 \in 0..n /\ \A k \in 0..n : k < m - 1 => k # m - 1
      OBVIOUS
    <3>2. \A k \in 0..n : h[k] = IF k = m - 1 THEN v ELSE f[k]
      OBVIOUS
    <3>3. h = [k \in 0..n |-> h[k]]
      OBVIOUS
    <3> HIDE DEF h
    <3> QED
      BY <3>1, <3>2, <3>3
  <2> HIDE DEF h
  <2>3. ASSUME NEW k \in 0..n, k < m PROVE h[k] = Op(par, h, k)
    <3>1. Op(par, h, k) = Op(par, f, k)
      <4>1. \A i \in 0..n : i < k => h[i] = f[i]
        BY <2>2, <2>3
      <4> QED
        BY <4>1 DEF RestsOnLess
    <3>2. CASE k = m - 1
      BY <2>2, <3>1, <3>2
    <3>3. CASE k # m - 1
      <4>1. k < m - 1
        BY <2>3, <3>3
      <4> QED
        BY <2>1, <2>2, <3>1, <4>1
    <3> QED
      BY <3>2, <3>3
  <2>4. Good(h, m)
    BY <2>2, <2>3
  <2> HIDE DEF Good
  <2> QED
    BY <2>4
<1>3. n + 1 \in S
  <2> HIDE DEF S
  <2>1. PICK l \in Nat : l = n + 1
    OBVIOUS
  <2>2. \A k \in 0..l : k \in S
    BY <1>1, <1>2, <2>1, Induction
  <2> QED
    BY <2>1, <2>2
<1>4. PICK f : Good(f, n + 1)
  BY <1>3
<1>5. f = [k \in 0..n |-> Op(par, f, k)]
  BY <1>4
<1>6. Recursion(par, n) = [k \in 0..n |-> Op(par, Recursion(par, n), k)]
  BY <1>5 DEF Recursion
<1> QED
  BY <1>6

(* The values after each element; the last is FoldLeft's.                  *)
Steps(g, par, base, seq, n) ==
    /\ g[0] = base
    /\ \A k \in 1..n : g[k] = Op(par, g[k - 1], seq[k])
    /\ Fold(par, base, seq) = g[n]

LEMMA FoldSteps ==
    ASSUME NEW par, NEW base, NEW seq, NEW n \in Nat, DOMAIN seq = 1..n
    PROVE  \E g : Steps(g, par, base, seq, n)
<1> DEFINE f == CHOOSE f : IsIter(f, par, base, seq, n)
           g == [k \in 0..n |-> f[1..k]]
<1>1. IsIter(f, par, base, seq, n)
  BY IterExists
<1>2. Fold(par, base, seq) = f[1..n]
  BY DEF Fold, FoldLeft, MapThenFoldSet, IsIter
<1> HIDE DEF f
<1>3. ASSUME NEW k \in 1..n PROVE f[1..k] = Op(par, f[1..(k - 1)], seq[k])
  <2>1. k \in Nat /\ 1..k \in SUBSET (1..k) /\ 1..k # {} /\ 1..k \in SUBSET (1..n)
    OBVIOUS
  <2>2. Max(1..k) \in 1..k /\ \A i \in 1..k : i <= Max(1..k)
    BY <2>1, MaxIs
  <2>3. Max(1..k) = k
    BY <2>2
  <2>4. (1..k) \ {k} = 1..(k - 1)
    OBVIOUS
  <2> QED
    BY <1>1, <2>1, <2>3, <2>4 DEF IsIter
<1>4. f[1..0] = base
  BY <1>1 DEF IsIter
<1>5. Steps(g, par, base, seq, n)
  BY <1>2, <1>3, <1>4 DEF Steps
<1> QED
  BY <1>5

LEMMA FoldEmpty ==
    ASSUME NEW par, NEW base
    PROVE  Fold(par, base, << >>) = base
<1>1. DOMAIN << >> = 1..0 /\ 0 \in Nat
  OBVIOUS
<1> QED
  BY <1>1, FoldSteps DEF Steps

First(first, seq, k) == DOMAIN first = 1..k /\ \A i \in 1..k : first[i] = seq[i]

(* The value after k elements is that of the fold over those alone.        *)
LEMMA FoldOverFirst ==
    ASSUME NEW par, NEW base, NEW seq, NEW n \in Nat, NEW g, Steps(g, par, base, seq, n),
           NEW k \in 0..n, NEW first, First(first, seq, k)
    PROVE  Fold(par, base, first) = g[k]
<1>1. k \in Nat /\ DOMAIN first = 1..k /\ \A i \in 1..k : first[i] = seq[i]
  BY DEF First
<1>2. PICK h : Steps(h, par, base, first, k)
  BY <1>1, FoldSteps
<1> DEFINE S == {i \in 0..k : h[i] = g[i]}
<1>3. 0 \in S
  BY <1>1, <1>2 DEF Steps
<1>4. ASSUME NEW i \in 1..k, i - 1 \in S PROVE i \in S
  <2>1. h[i] = Op(par, h[i - 1], first[i]) /\ g[i] = Op(par, g[i - 1], seq[i])
    <3>1. i \in 1..n
      BY <1>1
    <3> QED
      BY <1>2, <3>1 DEF Steps
  <2> QED
    BY <1>1, <1>4, <2>1
<1> HIDE DEF S
<1>5. \A i \in 0..k : i \in S
  BY <1>1, <1>3, <1>4, Induction
<1>6. h[k] = g[k]
  BY <1>1, <1>5 DEF S
<1> QED
  BY <1>2, <1>6 DEF Steps

(* A fold over one element more.                                           *)
LEMMA FoldNext ==
    ASSUME NEW par, NEW base, NEW n \in Nat, NEW seq, NEW longer,
           DOMAIN longer = 1..(n + 1), First(seq, longer, n)
    PROVE  Fold(par, base, longer) = Op(par, Fold(par, base, seq), longer[n + 1])
<1>1. PICK m \in Nat : m = n + 1
  OBVIOUS
<1>2. n \in 0..m /\ m \in 1..m /\ m - 1 = n /\ DOMAIN longer = 1..m
  BY <1>1
<1>3. PICK g : Steps(g, par, base, longer, m)
  BY <1>2, FoldSteps
<1>4. Fold(par, base, seq) = g[n]
  BY <1>2, <1>3, FoldOverFirst
<1>5. g[m] = Op(par, g[n], longer[m]) /\ Fold(par, base, longer) = g[m]
  BY <1>2, <1>3 DEF Steps
<1> QED
  BY <1>1, <1>4, <1>5

-----------------------------------------------------------------------------
(***************************************************************************)
(* Trimming.                                                               *)
(***************************************************************************)
Trimmed(s, chars) == s # << >> => s[1] \notin chars /\ s[Len(s)] \notin chars

(* Where TrimIf cuts.                                                      *)
LEMMA TrimIs ==
    ASSUME NEW Letter, NEW s \in Seq(Letter), NEW chars
    PROVE  \/ TrimIf(s, chars) = << >> /\ \A i \in 1..Len(s) : s[i] \in chars
           \/ \E a, b \in 1..Len(s) :
                /\ a <= b /\ s[a] \notin chars /\ s[b] \notin chars
                /\ \A i \in 1..Len(s) : i < a \/ i > b => s[i] \in chars
                /\ TrimIf(s, chars) = SubSeq(s, a, b)
<1> DEFINE kept == {i \in DOMAIN s : s[i] \notin chars}
<1>1. CASE kept = {}
  BY <1>1 DEF TrimIf
<1>2. CASE kept # {}
  <2>1. kept \subseteq Nat /\ kept \in SUBSET (1..Len(s)) /\ Len(s) \in Nat
    OBVIOUS
  <2>3. \E a \in kept : \A i \in kept : a <= i
    BY <1>2, <2>1, LeastNumber
  <2>4. Min(kept) \in kept /\ \A i \in kept : Min(kept) <= i
    BY <2>3 DEF Min
  <2>6. TrimIf(s, chars) = SubSeq(s, Min(kept), Max(kept))
    BY <1>2 DEF TrimIf
  <2>7. Max(kept) \in kept /\ \A i \in kept : i <= Max(kept)
    BY <1>2, <2>1, MaxIs
  <2> HIDE DEF kept
  <2>8. PICK a \in kept, b \in kept : a = Min(kept) /\ b = Max(kept)
    BY <2>4, <2>7
  <2>9. /\ a \in 1..Len(s) /\ b \in 1..Len(s) /\ a <= b
        /\ s[a] \notin chars /\ s[b] \notin chars
    BY <2>1, <2>4, <2>8 DEF kept
  <2>10. \A i \in 1..Len(s) : i < a \/ i > b => s[i] \in chars
    <3> SUFFICES ASSUME NEW i \in 1..Len(s), s[i] \notin chars PROVE ~(i < a) /\ ~(i > b)
      OBVIOUS
    <3>1. i \in kept
      BY DEF kept
    <3>2. a <= i /\ i <= b
      BY <2>4, <2>7, <2>8, <3>1
    <3> QED
      BY <2>9, <3>2
  <2> QED
    BY <2>6, <2>8, <2>9, <2>10
<1> QED
  BY <1>1, <1>2

LEMMA TrimTrims ==
    ASSUME NEW Letter, NEW s \in Seq(Letter), NEW chars
    PROVE  /\ TrimIf(s, chars) \in Seq(Letter)
           /\ Trimmed(TrimIf(s, chars), chars)
           /\ \A i \in 1..Len(TrimIf(s, chars)) :
                \E j \in 1..Len(s) : TrimIf(s, chars)[i] = s[j]
<1>1. CASE TrimIf(s, chars) = << >>
  BY <1>1 DEF Trimmed
<1>2. CASE TrimIf(s, chars) # << >>
  <2>1. PICK a \in 1..Len(s), b \in 1..Len(s) :
            /\ a <= b /\ s[a] \notin chars /\ s[b] \notin chars
            /\ TrimIf(s, chars) = SubSeq(s, a, b)
    BY <1>2, TrimIs
  <2> DEFINE t == SubSeq(s, a, b)
  <2>2. t \in Seq(Letter) /\ Len(t) = b - a + 1 /\ \A i \in 1..Len(t) : t[i] = s[a + i - 1]
    BY <2>1
  <2> HIDE DEF t
  <2>3. t[1] = s[a] /\ t[Len(t)] = s[b]
    BY <2>1, <2>2
  <2>4. \A i \in 1..Len(t) : a + i - 1 \in 1..Len(s)
    BY <2>1, <2>2
  <2>5. Trimmed(t, chars)
    BY <2>1, <2>3 DEF Trimmed
  <2> QED
    BY <2>1, <2>2, <2>4, <2>5 DEF t
<1> QED
  BY <1>1, <1>2

LEMMA TrimNothing ==
    ASSUME NEW Letter, NEW s \in Seq(Letter), NEW chars, Trimmed(s, chars)
    PROVE  TrimIf(s, chars) = s
<1>1. CASE s = << >>
  <2>1. 1..Len(s) = {}
    BY <1>1
  <2> QED
    BY <1>1, <2>1, TrimIs
<1>2. CASE s # << >>
  <2>1. Len(s) \in Nat /\ 1 \in 1..Len(s) /\ Len(s) \in 1..Len(s)
    BY <1>2
  <2>2. PICK a \in 1..Len(s), b \in 1..Len(s) :
            /\ \A i \in 1..Len(s) : i < a \/ i > b => s[i] \in chars
            /\ TrimIf(s, chars) = SubSeq(s, a, b)
    BY <1>2, <2>1, TrimIs DEF Trimmed
  <2>3. a = 1 /\ b = Len(s)
    BY <1>2, <2>1, <2>2 DEF Trimmed
  <2>4. SubSeq(s, 1, Len(s)) = s
    OBVIOUS
  <2> QED
    BY <2>2, <2>3, <2>4
<1> QED
  BY <1>1, <1>2

-----------------------------------------------------------------------------
(***************************************************************************)
(* The components of a path, for a fold that cuts at the separators.       *)
(***************************************************************************)
WordStep(parts, c) ==
    IF c = Separator THEN Append(parts, << >>)
    ELSE [parts EXCEPT ![Len(parts)] = Append(@, c)]

Cuts == \A parts, c : Op(0, parts, c) = WordStep(parts, c)

Parts(s) == Fold(0, << << >> >>, s)

(* A string that has no separator is its only component.                   *)
Plain(s) == \A i \in 1..Len(s) : s[i] # Separator

NonEmpty(S) == {parts \in Seq(Seq(S)) : Len(parts) # 0}

LEMMA IsSequence ==
    ASSUME NEW S, NEW n \in Nat, NEW f \in [1..n -> S]
    PROVE  f \in Seq(S) /\ Len(f) = n
  OBVIOUS

LEMMA LastReplaced ==
    ASSUME NEW S, NEW s \in Seq(S), Len(s) # 0, NEW x \in S
    PROVE  LET t == [s EXCEPT ![Len(s)] = x]
           IN  /\ t \in Seq(S) /\ Len(t) = Len(s) /\ t[Len(s)] = x
               /\ \A i \in 1..Len(s) : i # Len(s) => t[i] = s[i]
<1> DEFINE t == [s EXCEPT ![Len(s)] = x]
<1>1. Len(s) \in Nat /\ s \in [1..Len(s) -> S] /\ Len(s) \in 1..Len(s)
  OBVIOUS
<1>2. t \in [1..Len(s) -> S]
  BY <1>1
<1>3. t[Len(s)] = x /\ \A i \in 1..Len(s) : i # Len(s) => t[i] = s[i]
  BY <1>1
<1> HIDE DEF t
<1>4. t \in Seq(S) /\ Len(t) = Len(s)
  BY <1>1, <1>2, IsSequence
<1> QED
  BY <1>3, <1>4 DEF t

LEMMA AppendedReplaced ==
    ASSUME NEW S, NEW s \in Seq(S), NEW x \in S, NEW y \in S
    PROVE  [Append(s, x) EXCEPT ![Len(Append(s, x))] = y] = Append(s, y)
<1>1. Len(Append(s, x)) = Len(s) + 1 /\ Len(s) \in Nat
  OBVIOUS
<1>2. PICK m \in Nat : m = Len(s) + 1
  BY <1>1
<1>3. /\ Append(s, x) \in [1..m -> S] /\ Append(s, y) \in [1..m -> S]
      /\ Append(s, y)[m] = y
      /\ \A i \in 1..m : i # m => Append(s, x)[i] = Append(s, y)[i]
  <2>1. /\ Append(s, x) \in Seq(S) /\ Len(Append(s, x)) = m
        /\ Append(s, y) \in Seq(S) /\ Len(Append(s, y)) = m
        /\ Append(s, y)[m] = y
    BY <1>1, <1>2
  <2>2. \A i \in 1..m : i # m => Append(s, x)[i] = s[i] /\ Append(s, y)[i] = s[i]
    BY <1>1, <1>2
  <2>3. \A q \in Seq(S) : q \in [1..Len(q) -> S]
    OBVIOUS
  <2>4. Append(s, x) \in [1..m -> S] /\ Append(s, y) \in [1..m -> S]
    BY <2>1, <2>3
  <2> QED
    BY <2>1, <2>2, <2>4
<1>4. m = Len(Append(s, x))
  BY <1>1, <1>2
<1> QED
  BY <1>3, <1>4

LEMMA WordStepTyped ==
    ASSUME NEW Letter, NEW parts \in NonEmpty(Letter), NEW c \in Letter
    PROVE  WordStep(parts, c) \in NonEmpty(Letter)
<1>1. parts \in Seq(Seq(Letter)) /\ Len(parts) \in Nat /\ Len(parts) # 0
  BY DEF NonEmpty
<1>2. << >> \in Seq(Letter)
  OBVIOUS
<1>3. CASE c = Separator
  <2> DEFINE longer == Append(parts, << >>)
  <2>1. longer \in Seq(Seq(Letter)) /\ Len(longer) = Len(parts) + 1
    BY <1>1, <1>2
  <2> HIDE DEF longer
  <2>2. longer \in NonEmpty(Letter)
    BY <1>1, <2>1 DEF NonEmpty
  <2> QED
    BY <1>3, <2>2 DEF WordStep, longer
<1>4. CASE c # Separator
  <2> DEFINE other == [parts EXCEPT ![Len(parts)] = Append(@, c)]
  <2>1. parts[Len(parts)] \in Seq(Letter)
    BY <1>1
  <2>2. Append(parts[Len(parts)], c) \in Seq(Letter)
    BY <2>1
  <2>3. other \in Seq(Seq(Letter)) /\ Len(other) = Len(parts)
    BY <1>1, <2>2, LastReplaced
  <2> HIDE DEF other
  <2>4. other \in NonEmpty(Letter)
    BY <1>1, <2>3 DEF NonEmpty
  <2> QED
    BY <1>4, <2>4 DEF WordStep, other
<1> QED
  BY <1>3, <1>4

(* After each character.                                                   *)
LEMMA PartsTyped ==
    ASSUME Cuts, NEW Letter, NEW s \in Seq(Letter),
           NEW g, Steps(g, 0, << << >> >>, s, Len(s))
    PROVE  \A k \in 0..Len(s) : g[k] \in NonEmpty(Letter)
<1> DEFINE S == {k \in 0..Len(s) : g[k] \in NonEmpty(Letter)}
<1>1. Len(s) \in Nat
  OBVIOUS
<1>2. 0 \in S
  <2>1. << >> \in Seq(Letter)
    OBVIOUS
  <2>2. << << >> >> \in Seq(Seq(Letter)) /\ Len(<< << >> >>) = 1
    BY <2>1
  <2>3. << << >> >> \in NonEmpty(Letter)
    BY <2>2 DEF NonEmpty
  <2>4. g[0] \in NonEmpty(Letter)
    BY <2>3 DEF Steps
  <2> QED
    BY <1>1, <2>4
<1>3. ASSUME NEW k \in 1..Len(s), k - 1 \in S PROVE k \in S
  <2>1. s[k] \in Letter /\ g[k] = WordStep(g[k - 1], s[k])
    BY DEF Cuts, Steps
  <2> QED
    BY <1>3, <2>1, WordStepTyped
<1> HIDE DEF S
<1>4. \A k \in 0..Len(s) : k \in S
  BY <1>1, <1>2, <1>3, Induction
<1> QED
  BY <1>4 DEF S

LEMMA PartsAre ==
    ASSUME Cuts, NEW Letter, NEW s \in Seq(Letter)
    PROVE  /\ Parts(s) \in Seq(Seq(Letter))
           /\ Len(Parts(s)) # 0
           /\ Plain(s) => Parts(s) = <<s>>
<1>1. Len(s) \in Nat /\ DOMAIN s = 1..Len(s)
  OBVIOUS
<1>2. PICK g : Steps(g, 0, << << >> >>, s, Len(s))
  BY <1>1, FoldSteps
<1>3. /\ g[0] = << << >> >>
      /\ \A k \in 1..Len(s) : g[k] = WordStep(g[k - 1], s[k])
      /\ Parts(s) = g[Len(s)]
  BY <1>2 DEF Steps, Cuts, Parts
<1> DEFINE T == {k \in 0..Len(s) : g[k] = <<SubSeq(s, 1, k)>>}
<1>4. 0 \in T
  <2>1. SubSeq(s, 1, 0) = << >>
    OBVIOUS
  <2>2. g[0] = <<SubSeq(s, 1, 0)>>
    BY <1>3, <2>1
  <2> QED
    BY <1>1, <2>2
<1>5. ASSUME Plain(s), NEW k \in 1..Len(s), k - 1 \in T PROVE k \in T
  <2>1. s[k] # Separator
    BY <1>5 DEF Plain
  <2>2. g[k - 1] = <<SubSeq(s, 1, k - 1)>>
    BY <1>5
  <2>3. g[k] = [g[k - 1] EXCEPT ![Len(g[k - 1])] = Append(@, s[k])]
    BY <1>3, <2>1 DEF WordStep
  <2>4. g[k] = <<Append(SubSeq(s, 1, k - 1), s[k])>>
    BY <2>2, <2>3
  <2>5. Append(SubSeq(s, 1, k - 1), s[k]) = SubSeq(s, 1, k)
    OBVIOUS
  <2>6. k \in 0..Len(s)
    OBVIOUS
  <2> QED
    BY <2>4, <2>5, <2>6
<1> HIDE DEF T
<1>6. ASSUME Plain(s) PROVE Parts(s) = <<s>>
  <2>1. \A k \in 1..Len(s) : k - 1 \in T => k \in T
    BY <1>5, <1>6
  <2>2. \A k \in 0..Len(s) : k \in T
    BY <1>1, <1>4, <2>1, Induction
  <2>3. SubSeq(s, 1, Len(s)) = s /\ Len(s) \in 0..Len(s)
    OBVIOUS
  <2> QED
    BY <1>3, <2>2, <2>3 DEF T
<1>7. Parts(s) \in NonEmpty(Letter)
  BY <1>1, <1>2, <1>3, PartsTyped
<1> QED
  BY <1>6, <1>7 DEF NonEmpty

(* The last separator: what is behind it is the last component.            *)
LEMMA PartsBehind ==
    ASSUME Cuts, NEW Letter, NEW s \in Seq(Letter), NEW p \in 1..Len(s),
           s[p] = Separator, \A i \in 1..Len(s) : i > p => s[i] # Separator
    PROVE  Parts(s) = Append(Parts(SubSeq(s, 1, p - 1)), SubSeq(s, p + 1, Len(s)))
<1>1. Len(s) \in Nat /\ DOMAIN s = 1..Len(s)
  OBVIOUS
<1>2. PICK g : Steps(g, 0, << << >> >>, s, Len(s))
  BY <1>1, FoldSteps
<1>3. /\ \A k \in 1..Len(s) : g[k] = WordStep(g[k - 1], s[k])
      /\ Parts(s) = g[Len(s)]
  BY <1>2 DEF Steps, Cuts, Parts
<1> DEFINE front == g[p - 1]
           Rest(m) == SubSeq(s, p + 1, p + m)
           n == Len(s) - p
           T == {m \in 0..n : g[p + m] = Append(front, Rest(m))}
<1>4. front = Parts(SubSeq(s, 1, p - 1)) /\ front \in Seq(Seq(Letter))
  <2>1. PICK k \in 0..Len(s) : k = p - 1
    BY <1>1
  <2>2. PICK first : first = SubSeq(s, 1, k)
    OBVIOUS
  <2>3. First(first, s, k)
    BY <1>1, <2>1, <2>2 DEF First
  <2>4. Parts(first) = g[k]
    BY <1>1, <1>2, <2>3, FoldOverFirst DEF Parts
  <2>5. g[k] \in NonEmpty(Letter)
    BY <1>2, PartsTyped
  <2> QED
    BY <2>1, <2>2, <2>4, <2>5 DEF NonEmpty
<1> HIDE DEF front
<1>5. 0 \in T
  <2>1. Rest(0) = << >>
    BY <1>1
  <2>2. g[p] = Append(front, << >>)
    BY <1>3 DEF front, WordStep
  <2>3. p + 0 = p /\ 0 \in 0..n
    BY <1>1
  <2>4. g[p + 0] = Append(front, Rest(0))
    BY <2>1, <2>2, <2>3
  <2> QED
    BY <2>3, <2>4
<1>6. ASSUME NEW m \in 1..n, m - 1 \in T PROVE m \in T
  <2>1. p + m \in 1..Len(s) /\ p + m > p /\ (p + m) - 1 = p + (m - 1) /\ m \in 0..n
    BY <1>1
  <2>2. s[p + m] # Separator
    BY <2>1
  <2>3. g[p + (m - 1)] = Append(front, Rest(m - 1))
    BY <1>6
  <2>4. g[p + m] = [Append(front, Rest(m - 1)) EXCEPT
                        ![Len(Append(front, Rest(m - 1)))] = Append(@, s[p + m])]
    BY <1>3, <2>1, <2>2, <2>3 DEF WordStep
  <2>5. /\ Rest(m - 1) \in Seq(Letter) /\ Rest(m) \in Seq(Letter)
        /\ Append(Rest(m - 1), s[p + m]) = Rest(m)
    BY <1>1, <2>1
  <2> HIDE DEF Rest
  <2>6. Append(front, Rest(m - 1))[Len(Append(front, Rest(m - 1)))] = Rest(m - 1)
    BY <1>4, <2>5
  <2>7. g[p + m] = [Append(front, Rest(m - 1)) EXCEPT
                        ![Len(Append(front, Rest(m - 1)))] = Rest(m)]
    BY <2>4, <2>5, <2>6
  <2>8. g[p + m] = Append(front, Rest(m))
    <3> DEFINE r == Rest(m)
               q == Rest(m - 1)
    <3>1. r \in Seq(Letter) /\ q \in Seq(Letter) /\ front \in Seq(Seq(Letter))
      BY <1>4, <2>5
    <3> HIDE DEF r, q
    <3>2. [Append(front, q) EXCEPT ![Len(Append(front, q))] = r] = Append(front, r)
      BY <3>1, AppendedReplaced
    <3> QED
      BY <2>7, <3>2 DEF r, q
  <2> QED
    BY <2>1, <2>8
<1> HIDE DEF T
<1>7. n \in Nat /\ n \in 0..n /\ p + n = Len(s)
  BY <1>1
<1>8. \A m \in 0..n : m \in T
  BY <1>5, <1>6, <1>7, Induction
<1>9. g[Len(s)] = Append(front, Rest(n))
  BY <1>7, <1>8 DEF T
<1> QED
  BY <1>3, <1>4, <1>7, <1>9

(* What one character more does, and that it tells what was before.        *)
LEMMA WordStepIs ==
    ASSUME NEW Letter, NEW x \in NonEmpty(Letter), NEW e \in Letter
    PROVE  LET more == WordStep(x, e)
           IN  /\ e = Separator =>
                    /\ Len(more) = Len(x) + 1
                    /\ more[Len(more)] = << >>
                    /\ \A i \in 1..Len(x) : more[i] = x[i]
               /\ e # Separator =>
                    /\ Len(more) = Len(x)
                    /\ more[Len(x)] = Append(x[Len(x)], e)
                    /\ Len(more[Len(x)]) # 0
                    /\ \A i \in 1..Len(x) : i # Len(x) => more[i] = x[i]
<1>1. x \in Seq(Seq(Letter)) /\ Len(x) \in Nat /\ Len(x) # 0
  BY DEF NonEmpty
<1>2. << >> \in Seq(Letter)
  OBVIOUS
<1>3. CASE e = Separator
  <2>1. WordStep(x, e) = Append(x, << >>)
    BY <1>3 DEF WordStep
  <2>2. /\ Len(Append(x, << >>)) = Len(x) + 1
        /\ Append(x, << >>)[Len(x) + 1] = << >>
        /\ \A i \in 1..Len(x) : Append(x, << >>)[i] = x[i]
    BY <1>1, <1>2
  <2> QED
    BY <1>3, <2>1, <2>2
<1>4. CASE e # Separator
  <2> DEFINE last == Append(x[Len(x)], e)
             more == [x EXCEPT ![Len(x)] = last]
  <2>1. x[Len(x)] \in Seq(Letter)
    BY <1>1
  <2>2. last \in Seq(Letter) /\ Len(last) = Len(x[Len(x)]) + 1 /\ Len(x[Len(x)]) \in Nat
    BY <2>1
  <2>3. WordStep(x, e) = more
    BY <1>4 DEF WordStep
  <2> HIDE DEF last
  <2>4. /\ Len(more) = Len(x) /\ more[Len(x)] = last
        /\ \A i \in 1..Len(x) : i # Len(x) => more[i] = x[i]
    BY <1>1, <2>2, LastReplaced
  <2>5. Len(last) # 0
    BY <2>2
  <2> HIDE DEF more
  <2> QED
    BY <1>4, <2>3, <2>4, <2>5 DEF last
<1> QED
  BY <1>3, <1>4

LEMMA WordStepTells ==
    ASSUME NEW Letter, NEW a \in NonEmpty(Letter), NEW b \in NonEmpty(Letter),
           NEW c \in Letter, NEW d \in Letter, WordStep(a, c) = WordStep(b, d)
    PROVE  a = b /\ c = d
<1> DEFINE more == WordStep(a, c)
<1>1. /\ a \in Seq(Seq(Letter)) /\ Len(a) \in Nat /\ Len(a) # 0
      /\ b \in Seq(Seq(Letter)) /\ Len(b) \in Nat /\ Len(b) # 0
  BY DEF NonEmpty
<1>2. /\ c = Separator =>
            /\ Len(more) = Len(a) + 1 /\ more[Len(more)] = << >>
            /\ \A i \in 1..Len(a) : more[i] = a[i]
      /\ c # Separator =>
            /\ Len(more) = Len(a) /\ more[Len(a)] = Append(a[Len(a)], c)
            /\ Len(more[Len(a)]) # 0
            /\ \A i \in 1..Len(a) : i # Len(a) => more[i] = a[i]
  BY WordStepIs
<1>3. /\ d = Separator =>
            /\ Len(more) = Len(b) + 1 /\ more[Len(more)] = << >>
            /\ \A i \in 1..Len(b) : more[i] = b[i]
      /\ d # Separator =>
            /\ Len(more) = Len(b) /\ more[Len(b)] = Append(b[Len(b)], d)
            /\ Len(more[Len(b)]) # 0
            /\ \A i \in 1..Len(b) : i # Len(b) => more[i] = b[i]
  BY WordStepIs
<1> HIDE DEF more
<1>4. Len(a) = Len(b) /\ (\A i \in 1..Len(a) : a[i] = b[i]) => a = b
  <2>1. a \in [1..Len(a) -> Seq(Letter)] /\ b \in [1..Len(b) -> Seq(Letter)]
    BY <1>1
  <2> QED
    BY <2>1
<1>5. c = Separator <=> d = Separator
  <2>1. Len(<< >>) = 0
    OBVIOUS
  <2> QED
    BY <1>2, <1>3, <2>1
<1>6. CASE c = Separator
  <2>1. Len(a) = Len(b) /\ \A i \in 1..Len(a) : a[i] = b[i]
    BY <1>1, <1>2, <1>3, <1>5, <1>6
  <2> QED
    BY <1>1, <1>4, <1>5, <1>6, <2>1
<1>7. CASE c # Separator
  <2>1. Len(a) = Len(b) /\ Append(a[Len(a)], c) = Append(b[Len(a)], d)
    BY <1>2, <1>3, <1>5, <1>7
  <2>2. a[Len(a)] \in Seq(Letter) /\ b[Len(a)] \in Seq(Letter)
    BY <1>1, <2>1
  <2>3. \A q, r \in Seq(Letter) : Append(q, c) = Append(r, d) => q = r /\ c = d
    <3> SUFFICES ASSUME NEW q \in Seq(Letter), NEW r \in Seq(Letter),
                        Append(q, c) = Append(r, d)
                 PROVE  q = r /\ c = d
      OBVIOUS
    <3>1. Len(q) + 1 = Len(r) + 1 /\ Len(q) \in Nat /\ Len(r) \in Nat
      OBVIOUS
    <3>2. Len(q) = Len(r) /\ Append(q, c)[Len(q) + 1] = c /\ Append(r, d)[Len(r) + 1] = d
      BY <3>1
    <3>3. \A i \in 1..Len(q) : Append(q, c)[i] = q[i] /\ Append(r, d)[i] = r[i]
      BY <3>2
    <3>4. c = d
      BY <3>2
    <3>5. \A i \in 1..Len(q) : q[i] = r[i]
      BY <3>3
    <3> QED
      BY <3>2, <3>4, <3>5
  <2>4. a[Len(a)] = b[Len(a)] /\ c = d
    BY <2>1, <2>2, <2>3
  <2>5. \A i \in 1..Len(a) : a[i] = b[i]
    BY <1>2, <1>3, <1>5, <1>7, <2>1, <2>4
  <2> QED
    BY <1>1, <1>4, <2>1, <2>4, <2>5
<1> QED
  BY <1>6, <1>7

(* The components tell the string.                                         *)
LEMMA PartsTell ==
    ASSUME Cuts, NEW Letter, NEW s \in Seq(Letter), NEW t \in Seq(Letter),
           Parts(s) = Parts(t)
    PROVE  s = t
<1> DEFINE Same(q) == \A r \in Seq(Letter) : Parts(q) = Parts(r) => q = r
           S == {k \in 0..Len(s) : \A q \in Seq(Letter) : Len(q) = k => Same(q)}
<1>1. ASSUME NEW q \in Seq(Letter), Len(q) # 0
      PROVE  /\ Front(q) \in Seq(Letter) /\ Len(Front(q)) = Len(q) - 1
             /\ q[Len(q)] \in Letter /\ q = Append(Front(q), q[Len(q)])
             /\ Parts(Front(q)) \in NonEmpty(Letter)
             /\ Parts(q) = WordStep(Parts(Front(q)), q[Len(q)])
  <2>1. PICK n \in Nat : n = Len(q) - 1
    BY <1>1
  <2>2. /\ Front(q) \in Seq(Letter) /\ Len(Front(q)) = n
        /\ q[Len(q)] \in Letter /\ q = Append(Front(q), q[Len(q)])
        /\ \A i \in 1..n : Front(q)[i] = q[i]
    BY <1>1, <2>1 DEF Front
  <2>3. First(Front(q), q, n) /\ DOMAIN q = 1..(n + 1) /\ n + 1 = Len(q)
    BY <2>1, <2>2 DEF First
  <2>4. Parts(q) = Op(0, Parts(Front(q)), q[n + 1])
    BY <2>3, FoldNext DEF Parts
  <2>5. Parts(Front(q)) \in NonEmpty(Letter)
    BY <2>2, PartsAre DEF NonEmpty
  <2> QED
    BY <2>1, <2>2, <2>3, <2>4, <2>5 DEF Cuts
<1>2. ASSUME NEW q \in Seq(Letter), NEW r \in Seq(Letter), Len(q) = 0, Parts(q) = Parts(r)
      PROVE  q = r
  <2>1. q = << >>
    BY <1>2
  <2>2. Plain(q)
    BY <2>1 DEF Plain
  <2>3. Parts(q) = << << >> >>
    BY <2>1, <2>2, PartsAre
  <2>4. CASE Len(r) = 0
    BY <2>1, <2>4
  <2>5. CASE Len(r) # 0
    <3> DEFINE x == Parts(Front(r))
               e == r[Len(r)]
    <3>1. x \in NonEmpty(Letter) /\ e \in Letter /\ WordStep(x, e) = << << >> >>
      BY <1>1, <1>2, <2>3, <2>5
    <3> HIDE DEF x, e
    <3>2. PICK more : more = WordStep(x, e)
      OBVIOUS
    <3>3. /\ e = Separator => Len(more) = Len(x) + 1
          /\ e # Separator => Len(more) = Len(x) /\ Len(more[Len(x)]) # 0
      BY <3>1, <3>2, WordStepIs
    <3>4. Len(more) = 1 /\ Len(more[1]) = 0
      BY <3>1, <3>2
    <3>5. Len(x) \in Nat /\ Len(x) # 0
      BY <3>1 DEF NonEmpty
    <3>6. e # Separator /\ Len(x) = 1
      BY <3>3, <3>4, <3>5
    <3>7. FALSE
      BY <3>3, <3>4, <3>6
    <3> QED
      BY <3>7
  <2> QED
    BY <2>4, <2>5
<1>3. 0 \in S
  BY <1>2
<1>4. ASSUME NEW k \in 1..Len(s), k - 1 \in S PROVE k \in S
  <2> SUFFICES ASSUME NEW q \in Seq(Letter), Len(q) = k, NEW r \in Seq(Letter),
                      Parts(q) = Parts(r)
               PROVE  q = r
    OBVIOUS
  <2>1. CASE Len(r) = 0
    <3>1. r = q
      BY <1>2, <2>1
    <3> QED
      BY <3>1
  <2>2. CASE Len(r) # 0
    <3> DEFINE x == Front(q)
               y == Front(r)
               c == q[Len(q)]
               d == r[Len(r)]
    <3>1. /\ x \in Seq(Letter) /\ Len(x) = k - 1 /\ c \in Letter /\ q = Append(x, c)
          /\ Parts(x) \in NonEmpty(Letter) /\ Parts(q) = WordStep(Parts(x), c)
      <4>1. Len(q) # 0
        OBVIOUS
      <4> QED
        BY <1>1, <4>1
    <3>2. /\ y \in Seq(Letter) /\ d \in Letter /\ r = Append(y, d)
          /\ Parts(y) \in NonEmpty(Letter) /\ Parts(r) = WordStep(Parts(y), d)
      BY <1>1, <2>2
    <3> HIDE DEF x, y, c, d
    <3>3. Parts(x) = Parts(y) /\ c = d
      <4> DEFINE A == Parts(x)
                 B == Parts(y)
      <4>1. /\ A \in NonEmpty(Letter) /\ B \in NonEmpty(Letter) /\ c \in Letter
            /\ d \in Letter /\ WordStep(A, c) = WordStep(B, d)
        BY <3>1, <3>2
      <4> HIDE DEF A, B
      <4>2. A = B /\ c = d
        BY <4>1, WordStepTells
      <4> QED
        BY <4>2 DEF A, B
    <3>4. x = y
      BY <1>4, <3>1, <3>2, <3>3
    <3> QED
      BY <3>1, <3>2, <3>3, <3>4
  <2> QED
    BY <2>1, <2>2
<1>5. Len(s) \in Nat /\ Len(s) \in 0..Len(s)
  OBVIOUS
<1> HIDE DEF S
<1>6. \A k \in 0..Len(s) : k \in S
  BY <1>3, <1>4, <1>5, Induction
<1> QED
  BY <1>5, <1>6 DEF S

-----------------------------------------------------------------------------
(***************************************************************************)
(* A fold over a set of numbers takes its elements in an order that nobody *)
(* knows.  If the operation does not mind the order, any element can be    *)
(* the last.                                                               *)
(***************************************************************************)
SetFold(par, base, set) == FoldSet(LAMBDA x, v : Op(par, v, x), base, set)

Chosen(s) == CHOOSE x \in s : TRUE

(* What f should be at s, given what it is at smaller sets.                *)
SetStep(f, par, base, s) ==
    IF s = {} THEN base ELSE Op(par, f[s \ {Chosen(s)}], Chosen(s))

(* The function on sets that FoldSet chooses.                              *)
IsSetIter(f, par, base, S) == f = [s \in SUBSET S |-> SetStep(f, par, base, s)]

OrderIsFree(par, V, n) ==
    \A v \in V : \A x, y \in 1..n :
        /\ Op(par, v, x) \in V
        /\ Op(par, Op(par, v, x), y) = Op(par, Op(par, v, y), x)

LEMMA Smaller ==
    ASSUME NEW n \in Nat, NEW s \in SUBSET (1..n)
    PROVE  /\ Cardinality(s) \in 0..n
           /\ Cardinality(s) = 0 <=> s = {}
           /\ \A x \in s : Cardinality(s \ {x}) = Cardinality(s) - 1
           /\ \A r \in SUBSET s : Cardinality(r) <= Cardinality(s)
<1>1. IsFiniteSet(1..n) /\ Cardinality(1..n) = n
  BY FS_Interval
<1>2. IsFiniteSet(s) /\ Cardinality(s) <= n
  BY <1>1, FS_Subset
<1>3. Cardinality(s) \in 0..n
  BY <1>2, FS_CardinalityType
<1>4. \A r \in SUBSET s : Cardinality(r) <= Cardinality(s)
  BY <1>2, FS_Subset
<1> QED
  BY <1>2, <1>3, <1>4, FS_EmptySet, FS_RemoveElement

LEMMA ChosenIs ==
    ASSUME NEW s, s # {}
    PROVE  Chosen(s) \in s
BY DEF Chosen

LEMMA SetIterExists ==
    ASSUME NEW par, NEW base, NEW n \in Nat, NEW S \in SUBSET (1..n)
    PROVE  \E f : IsSetIter(f, par, base, S)
<1> DEFINE Good(f, k) ==
        /\ f = [s \in SUBSET S |-> f[s]]
        /\ \A s \in SUBSET S : Cardinality(s) <= k => f[s] = SetStep(f, par, base, s)
           m == Cardinality(S)
           K == {k \in 0..m : \E f : Good(f, k)}
<1>1. m \in Nat
  BY Smaller
<1>2. \A s \in SUBSET S : s \in SUBSET (1..n)
  OBVIOUS
<1>3. 0 \in K
  <2> DEFINE f == [s \in SUBSET S |-> base]
  <2>1. ASSUME NEW s \in SUBSET S, Cardinality(s) <= 0 PROVE s = {}
    <3>1. Cardinality(s) \in 0..n /\ (Cardinality(s) = 0 <=> s = {})
      BY <1>2, Smaller
    <3> QED
      BY <2>1, <3>1
  <2>2. Good(f, 0)
    BY <2>1 DEF SetStep
  <2>3. \E g : Good(g, 0)
    <3> HIDE DEF Good
    <3> QED
      BY <2>2
  <2>4. 0 \in 0..m
    <3> HIDE DEF m
    <3> QED
      BY <1>1
  <2> QED
    BY <2>3, <2>4
<1>4. ASSUME NEW k \in 1..m, k - 1 \in K PROVE k \in K
  <2>1. PICK f : Good(f, k - 1)
    BY <1>4
  <2> DEFINE h == [s \in SUBSET S |->
                    IF Cardinality(s) <= k - 1 THEN f[s] ELSE SetStep(f, par, base, s)]
  <2>2. ASSUME NEW s \in SUBSET S, Cardinality(s) <= k
        PROVE  h[s] = SetStep(h, par, base, s)
    <3>1. h[s] = SetStep(f, par, base, s)
      BY <2>1
    <3>2. CASE s = {}
      BY <3>1, <3>2 DEF SetStep
    <3>3. CASE s # {}
      <4> DEFINE r == s \ {Chosen(s)}
      <4>1. r \in SUBSET S
        OBVIOUS
      <4>2. Cardinality(r) = Cardinality(s) - 1 /\ Cardinality(s) \in Nat
        <5>1. Chosen(s) \in s /\ s \in SUBSET (1..n)
          BY <1>2, <3>3, ChosenIs
        <5>2. /\ Cardinality(s) \in 0..n
              /\ \A x \in s : Cardinality(s \ {x}) = Cardinality(s) - 1
          <6> HIDE DEF K, Good, h
          <6> QED
            BY <5>1, Smaller
        <5>3. Cardinality(r) = Cardinality(s) - 1
          BY <5>1, <5>2, Zenon
        <5>4. Cardinality(s) \in Nat
          BY <5>2
        <5> QED
          BY <5>3, <5>4
      <4>3. Cardinality(r) <= k - 1
        BY <1>1, <2>2, <4>2
      <4>4. h[r] = f[r]
        BY <4>1, <4>3
      <4> HIDE DEF h
      <4> QED
        BY <3>1, <3>3, <4>4 DEF SetStep
    <3> QED
      BY <3>2, <3>3
  <2>3. h = [s \in SUBSET S |-> h[s]]
    OBVIOUS
  <2> HIDE DEF h
  <2>4. Good(h, k)
    BY <2>2, <2>3
  <2> HIDE DEF Good
  <2> QED
    BY <2>4
<1>5. \A k \in 0..m : k \in K
  <2> HIDE DEF K, m
  <2> QED
    BY <1>1, <1>3, <1>4, Induction
<1>6. PICK f : Good(f, m)
  <2>1. m \in K
    <3> HIDE DEF K, m
    <3> QED
      BY <1>1, <1>5
  <2> QED
    BY <2>1
<1>7. ASSUME NEW s \in SUBSET S PROVE Cardinality(s) <= m
  BY Smaller
<1>8. IsSetIter(f, par, base, S)
  <2>1. \A s \in SUBSET S : f[s] = SetStep(f, par, base, s)
    BY <1>6, <1>7
  <2>2. f = [s \in SUBSET S |-> f[s]]
    BY <1>6
  <2> QED
    BY <2>1, <2>2 DEF IsSetIter
<1> QED
  BY <1>8

LEMMA SetFoldIs ==
    ASSUME NEW par, NEW base, NEW n \in Nat, NEW S \in SUBSET (1..n)
    PROVE  \E f : IsSetIter(f, par, base, S) /\ SetFold(par, base, S) = f[S]
<1> DEFINE f == CHOOSE g : IsSetIter(g, par, base, S)
<1>1. IsSetIter(f, par, base, S)
  BY SetIterExists
<1>2. SetFold(par, base, S) = f[S]
  BY DEF SetFold, FoldSet, MapThenFoldSet, IsSetIter, SetStep, Chosen
<1> QED
  BY <1>1, <1>2

TwoIters(f, g, par, base, S, T, n) ==
    /\ n \in Nat /\ S \in SUBSET (1..n) /\ T \in SUBSET S
    /\ IsSetIter(f, par, base, S) /\ IsSetIter(g, par, base, T)

LEMMA SetItersAgree ==
    ASSUME NEW f, NEW g, NEW par, NEW base, NEW S, NEW T, NEW n,
           TwoIters(f, g, par, base, S, T, n)
    PROVE  f[T] = g[T]
<1> /\ n \in Nat /\ S \in SUBSET (1..n) /\ T \in SUBSET S
    /\ IsSetIter(f, par, base, S) /\ IsSetIter(g, par, base, T)
  BY DEF TwoIters
<1> DEFINE K == {k \in 0..n : \A s \in SUBSET T : Cardinality(s) = k => f[s] = g[s]}
<1>1. \A s \in SUBSET T : s \in SUBSET S /\ s \in SUBSET (1..n)
  OBVIOUS
<1>2. \A s \in SUBSET T : f[s] = SetStep(f, par, base, s) /\ g[s] = SetStep(g, par, base, s)
  <2>1. ASSUME NEW s \in SUBSET T PROVE f[s] = SetStep(f, par, base, s)
    BY <1>1 DEF IsSetIter
  <2>2. ASSUME NEW s \in SUBSET T PROVE g[s] = SetStep(g, par, base, s)
    BY DEF IsSetIter
  <2> QED
    BY <2>1, <2>2
<1>3. 0 \in K
  <2>1. ASSUME NEW s \in SUBSET T, Cardinality(s) = 0 PROVE f[s] = g[s]
    <3>1. s = {}
      BY <1>1, <2>1, Smaller
    <3> QED
      BY <1>2, <3>1 DEF SetStep
  <2> QED
    BY <2>1
<1>4. ASSUME NEW k \in 1..n, k - 1 \in K PROVE k \in K
  <2>1. ASSUME NEW s \in SUBSET T, Cardinality(s) = k PROVE f[s] = g[s]
    <3> DEFINE r == s \ {Chosen(s)}
    <3>1. s # {}
      BY <1>1, <2>1, Smaller
    <3>2. r \in SUBSET T /\ Cardinality(r) = k - 1
      BY <1>1, <2>1, <3>1, ChosenIs, Smaller
    <3>3. f[r] = g[r]
      BY <1>4, <3>2
    <3> QED
      BY <1>2, <3>1, <3>3 DEF SetStep
  <2> QED
    BY <2>1
<1>5. \A k \in 0..n : k \in K
  <2> HIDE DEF K
  <2> QED
    BY <1>3, <1>4, Induction
<1>6. ASSUME NEW s \in SUBSET T PROVE Cardinality(s) \in 0..n
  BY <1>1, Smaller
<1> QED
  BY <1>5, <1>6

FreeIter(f, par, V, base, S, n) ==
    /\ base \in V /\ n \in Nat /\ OrderIsFree(par, V, n)
    /\ S \in SUBSET (1..n) /\ IsSetIter(f, par, base, S)

LEMMA AnyIsLast ==
    ASSUME NEW f, NEW par, NEW V, NEW base, NEW S, NEW n, FreeIter(f, par, V, base, S, n)
    PROVE  /\ f[S] \in V
           /\ \A x \in S : f[S] = Op(par, f[S \ {x}], x)
<1> /\ base \in V /\ n \in Nat /\ OrderIsFree(par, V, n)
    /\ S \in SUBSET (1..n) /\ IsSetIter(f, par, base, S)
  BY DEF FreeIter
<1> DEFINE Fine(s) == /\ f[s] \in V
                      /\ \A x \in s : f[s] = Op(par, f[s \ {x}], x)
           K == {k \in 0..n : \A s \in SUBSET S : Cardinality(s) <= k => Fine(s)}
<1>1. \A s \in SUBSET S : s \in SUBSET (1..n)
  OBVIOUS
<1>2. \A s \in SUBSET S : f[s] = SetStep(f, par, base, s)
  BY DEF IsSetIter
<1>3. 0 \in K
  <2>1. ASSUME NEW s \in SUBSET S, Cardinality(s) <= 0 PROVE Fine(s)
    <3>1. s = {}
      <4>1. Cardinality(s) \in 0..n /\ (Cardinality(s) = 0 <=> s = {})
        BY <1>1, Smaller
      <4> QED
        BY <2>1, <4>1
    <3> QED
      BY <1>2, <3>1 DEF SetStep
  <2> QED
    BY <2>1
<1>4. ASSUME NEW k \in 1..n, k - 1 \in K PROVE k \in K
  <2>1. ASSUME NEW s \in SUBSET S, Cardinality(s) = k PROVE Fine(s)
    <3> DEFINE c == Chosen(s)
               Less(t, x) == t \ {x}
    <3>1. s # {} /\ c \in s /\ s \in SUBSET (1..n)
      BY <1>1, <2>1, ChosenIs, Smaller
    <3>2. f[s] = Op(par, f[Less(s, c)], c)
      BY <1>2, <3>1 DEF SetStep
    <3>3. ASSUME NEW x \in s PROVE Less(s, x) \in SUBSET S /\ Fine(Less(s, x))
      <4>1. Less(s, x) \in SUBSET S /\ Cardinality(Less(s, x)) = k - 1
        BY <1>1, <2>1, Smaller
      <4>2. Cardinality(Less(s, x)) <= k - 1
        BY <4>1
      <4> HIDE DEF Less, Fine
      <4> QED
        BY <1>4, <4>1, <4>2
    <3>4. f[Less(s, c)] \in V /\ c \in 1..n
      BY <3>1, <3>3
    <3>5. f[s] \in V
      <4> HIDE DEF c, Less
      <4> QED
        BY <3>2, <3>4 DEF OrderIsFree
    <3>6. ASSUME NEW x \in s PROVE f[s] = Op(par, f[Less(s, x)], x)
      <4>1. CASE x = c
        BY <3>2, <4>1
      <4>2. CASE x # c
        <5> DEFINE both == Less(Less(s, c), x)
        <5>1. x \in Less(s, c) /\ c \in Less(s, x) /\ Less(Less(s, x), c) = both
          BY <3>1, <4>2
        <5>2. f[Less(s, c)] = Op(par, f[both], x)
          BY <3>1, <3>3, <5>1
        <5>3. f[Less(s, x)] = Op(par, f[both], c)
          BY <3>3, <5>1
        <5>4. f[both] \in V
          <6>1. both \in SUBSET S /\ both \in SUBSET Less(s, c)
            OBVIOUS
          <6>2. Less(s, c) \in SUBSET (1..n) /\ Cardinality(Less(s, c)) = k - 1
            BY <1>1, <2>1, <3>1, Smaller
          <6>3. Cardinality(both) <= k - 1
            BY <6>1, <6>2, Smaller
          <6> HIDE DEF both, Fine
          <6>4. Fine(both)
            BY <1>4, <6>1, <6>3
          <6> QED
            BY <6>4 DEF Fine
        <5>5. x \in 1..n /\ c \in 1..n
          BY <3>1
        <5> HIDE DEF c, Less, both
        <5> QED
          BY <3>2, <5>2, <5>3, <5>4, <5>5 DEF OrderIsFree
      <4> QED
        BY <4>1, <4>2
    <3> QED
      BY <3>5, <3>6
  <2>2. ASSUME NEW s \in SUBSET S, Cardinality(s) <= k
        PROVE  Cardinality(s) = k \/ Cardinality(s) <= k - 1
    <3>1. Cardinality(s) \in 0..n
      BY <1>1, Smaller
    <3> QED
      BY <2>2, <3>1
  <2> HIDE DEF Fine
  <2> QED
    BY <1>4, <2>1, <2>2
<1>5. \A k \in 0..n : k \in K
  <2> HIDE DEF K
  <2> QED
    BY <1>3, <1>4, Induction
<1>6. ASSUME NEW s \in SUBSET S PROVE Cardinality(s) \in 0..n
  BY <1>1, Smaller
<1> QED
  BY <1>5, <1>6

LEMMA SetFoldEmpty ==
    ASSUME NEW par, NEW base
    PROVE  SetFold(par, base, {}) = base
<1>1. {} \in SUBSET (1..0) /\ {} \in SUBSET {} /\ 0 \in Nat
  OBVIOUS
<1>2. PICK f : IsSetIter(f, par, base, {}) /\ SetFold(par, base, {}) = f[{}]
  BY <1>1, SetFoldIs
<1> QED
  BY <1>1, <1>2 DEF IsSetIter, SetStep

LEMMA SetFoldTyped ==
    ASSUME NEW par, NEW V, NEW base \in V, NEW n \in Nat, OrderIsFree(par, V, n),
           NEW S \in SUBSET (1..n)
    PROVE  SetFold(par, base, S) \in V
<1>1. PICK f : IsSetIter(f, par, base, S) /\ SetFold(par, base, S) = f[S]
  BY SetFoldIs
<1>2. FreeIter(f, par, V, base, S, n)
  BY <1>1 DEF FreeIter
<1>3. f[S] \in V
  BY <1>2, AnyIsLast
<1> QED
  BY <1>1, <1>3

LEMMA SetFoldLast ==
    ASSUME NEW par, NEW V, NEW base \in V, NEW n \in Nat, OrderIsFree(par, V, n),
           NEW S \in SUBSET (1..n), NEW x \in S
    PROVE  SetFold(par, base, S) = Op(par, SetFold(par, base, S \ {x}), x)
<1> DEFINE T == S \ {x}
<1>1. T \in SUBSET S /\ T \in SUBSET T /\ S \in SUBSET S /\ T \in SUBSET (1..n)
  OBVIOUS
<1>2. PICK f : IsSetIter(f, par, base, S) /\ SetFold(par, base, S) = f[S]
  BY SetFoldIs
<1>3. PICK g : IsSetIter(g, par, base, T) /\ SetFold(par, base, T) = g[T]
  BY <1>1, SetFoldIs
<1>4. f[T] = g[T]
  <2> HIDE DEF T
  <2>1. TwoIters(f, g, par, base, S, T, n)
    BY <1>1, <1>2, <1>3 DEF TwoIters
  <2> QED
    BY <2>1, SetItersAgree
<1>5. f[S] \in V /\ \A y \in S : f[S] = Op(par, f[S \ {y}], y)
  <2>1. FreeIter(f, par, V, base, S, n)
    BY <1>2 DEF FreeIter
  <2> QED
    BY <2>1, AnyIsLast
<1> QED
  BY <1>2, <1>3, <1>4, <1>5
=============================================================================
