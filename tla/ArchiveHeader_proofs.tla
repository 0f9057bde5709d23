------------------------- MODULE ArchiveHeader_proofs -------------------------
(***************************************************************************)
(* What ArchiveHeader promises of every file: opening it ends after two    *)
(* steps for each byte of its headers at most, and what it leaves fits     *)
(* together.                                                               *)
(***************************************************************************)
EXTENDS ArchiveHeader, FiniteSetTheorems, TLAPS

(***************************************************************************)
(* A reader, and what any reading leaves of one: no more bytes than there  *)
(* were.  After a failure the value is 0.                                  *)
(***************************************************************************)
Results == {"ok", "archive", "unsupported", "undefined"}

IsReader(r) ==
    /\ r = [sd |-> r.sd, v |-> r.v, res |-> r.res]
    /\ r.sd \in Seq(Nat) /\ r.res \in Results
    /\ Failed(r) => r.v = 0

Keeps(r, e) ==
    /\ IsReader(e)
    /\ Len(e.sd) <= Len(r.sd)
    /\ Failed(r) => Failed(e)

Gives(r, e, V) == Keeps(r, e) /\ (~Failed(e) => e.v \in V)

Takes(r, e) == ~Failed(e) => Len(e.sd) < Len(r.sd)

LEMMA RefusedIs ==
    ASSUME NEW r, IsReader(r), NEW why \in Results \ {"ok"}
    PROVE  Keeps(r, Refused(r, why)) /\ Failed(Refused(r, why)) /\ Refused(r, why).v = 0
<1>1. CASE Failed(r)
  BY <1>1 DEF IsReader, Keeps, Failed, Refused
<1>2. CASE ~Failed(r)
  <2>1. Refused(r, why) = [sd |-> r.sd, v |-> 0, res |-> why] /\ why # "ok"
    BY <1>2 DEF IsReader, Refused
  <2> QED
    BY <1>2, <2>1 DEF IsReader, Keeps, Failed
<1> QED
  BY <1>1, <1>2

LEMMA ValueIs ==
    ASSUME NEW r, NEW v, IsReader(r)
    PROVE  /\ Keeps(r, Value(r, v))
           /\ Value(r, v).sd = r.sd /\ Value(r, v).res = r.res
           /\ Failed(Value(r, v)) <=> Failed(r)
           /\ ~Failed(r) => Value(r, v).v = v
BY DEF IsReader, Keeps, Failed, Value

LEMMA KeepsSelf ==
    ASSUME NEW r, IsReader(r)
    PROVE  Keeps(r, r)
BY DEF IsReader, Keeps

LEMMA KeepsOn ==
    ASSUME NEW r, NEW q, NEW e, Keeps(r, q), Keeps(q, e), r.sd \in Seq(Nat)
    PROVE  Keeps(r, e)
BY DEF IsReader, Keeps

LEMMA GivesOn ==
    ASSUME NEW r, NEW q, NEW e, NEW V, IsReader(r), Keeps(r, q), Gives(q, e, V)
    PROVE  Gives(r, e, V)
BY KeepsOn DEF IsReader, Gives

LEMMA GivesValue ==
    ASSUME NEW r, NEW q, NEW v, NEW V, IsReader(r), Keeps(r, q), ~Failed(q) => v \in V
    PROVE  Gives(r, Value(q, v), V)
<1>1. IsReader(q)
  BY DEF Keeps
<1> QED
  BY <1>1, ValueIs, KeepsOn DEF Gives, IsReader

LEMMA CutIs ==
    ASSUME NEW s \in Seq(Nat), NEW n \in 0..Len(s)
    PROVE  /\ SubSeq(s, 1, n) \in Seq(Nat) /\ Len(SubSeq(s, 1, n)) = n
           /\ SubSeq(s, n + 1, Len(s)) \in Seq(Nat)
           /\ Len(SubSeq(s, n + 1, Len(s))) = Len(s) - n
OBVIOUS

LEMMA SzReadByteIs ==
    ASSUME NEW r, IsReader(r)
    PROVE  /\ Gives(r, SzReadByte(r), Nat) /\ Takes(r, SzReadByte(r))
           /\ SzReadByte(r).v \in Nat
<1>1. CASE Failed(r) \/ r.sd = << >>
  <2>1. SzReadByte(r) = Refused(r, "archive")
    BY <1>1 DEF SzReadByte
  <2> QED
    BY <2>1, RefusedIs DEF Gives, Takes, Results
<1>2. CASE ~(Failed(r) \/ r.sd = << >>)
  <2>1. Tail(r.sd) \in Seq(Nat) /\ Head(r.sd) \in Nat /\ Len(Tail(r.sd)) = Len(r.sd) - 1
        /\ Len(r.sd) \in Nat
    BY <1>2 DEF IsReader
  <2>2. SzReadByte(r) = [sd |-> Tail(r.sd), v |-> Head(r.sd), res |-> r.res]
    BY <1>2 DEF SzReadByte, IsReader
  <2> QED
    BY <1>2, <2>1, <2>2 DEF Gives, Keeps, Takes, IsReader, Failed
<1> QED
  BY <1>1, <1>2

LEMMA SzReadBytesIs ==
    ASSUME NEW r, IsReader(r), NEW size, ~Failed(r) => size \in Nat
    PROVE  Gives(r, SzReadBytes(r, size), {s \in Seq(Nat) : Len(s) = size})
<1>1. CASE Failed(r)
  BY <1>1, KeepsSelf DEF SzReadBytes, Gives
<1>2. CASE ~Failed(r) /\ size > Len(r.sd)
  <2>1. IsReader([r EXCEPT !.sd = << >>]) /\ ~Failed([r EXCEPT !.sd = << >>])
    BY <1>2 DEF IsReader, Failed
  <2>2. Keeps([r EXCEPT !.sd = << >>], SzReadBytes(r, size)) /\ Failed(SzReadBytes(r, size))
    BY <1>2, <2>1, RefusedIs DEF SzReadBytes, Results
  <2>3. Len([r EXCEPT !.sd = << >>].sd) <= Len(r.sd)
    BY DEF IsReader
  <2> QED
    BY <1>2, <2>1, <2>2, <2>3 DEF Gives, Keeps, IsReader
<1>3. CASE ~Failed(r) /\ ~(size > Len(r.sd))
  <2>1. size \in 0..Len(r.sd) /\ Len(r.sd) \in Nat
    BY <1>3 DEF IsReader
  <2>2. /\ SubSeq(r.sd, 1, size) \in Seq(Nat) /\ Len(SubSeq(r.sd, 1, size)) = size
        /\ SubSeq(r.sd, size + 1, Len(r.sd)) \in Seq(Nat)
        /\ Len(SubSeq(r.sd, size + 1, Len(r.sd))) = Len(r.sd) - size
    BY <2>1, CutIs DEF IsReader
  <2>3. SzReadBytes(r, size) = [sd |-> SubSeq(r.sd, size + 1, Len(r.sd)),
                                v |-> SubSeq(r.sd, 1, size), res |-> r.res]
    BY <1>3 DEF SzReadBytes, IsReader
  <2> QED
    BY <1>3, <2>1, <2>2, <2>3 DEF Gives, Keeps, IsReader, Failed
<1> QED
  BY <1>1, <1>2, <1>3

-----------------------------------------------------------------------------
(***************************************************************************)
(* Folds, for whose operations Strings_proofs is instantiated.             *)
(***************************************************************************)
FoldOp(par, a, x) ==
    CASE par[1] = "bytes" -> Shifted(a, x)
      [] par[1] = "sum" -> a + x
      [] par[1] = "give" -> GiveTo(par[2], a, x)
      [] par[1] = "fill" -> FillFile(a, x)

Folds == INSTANCE Strings_proofs WITH Op <- FoldOp

LEMMA NatSteps ==
    ASSUME NEW g, NEW n \in Nat, g[0] \in Nat, \A k \in 1..n : g[k - 1] \in Nat => g[k] \in Nat
    PROVE  g[n] \in Nat
<1> DEFINE S == {k \in 0..n : g[k] \in Nat}
<1>1. 0 \in S /\ \A k \in 1..n : k - 1 \in S => k \in S
  OBVIOUS
<1>2. n \in 0..n
  OBVIOUS
<1> HIDE DEF S
<1>3. n \in S
  BY <1>1, <1>2, Folds!Induction
<1> QED
  BY <1>3 DEF S

LEMMA TotalIsFold ==
    ASSUME NEW numbers
    PROVE  Total(numbers) = Folds!Fold(<<"sum">>, 0, numbers)
BY DEF Total, Folds!Fold, FoldOp, FoldLeft, MapThenFoldSet, Folds!FoldLeft, Folds!MapThenFoldSet,
       Max, Folds!Max

LEMMA TotalIs ==
    ASSUME NEW n \in Nat, NEW numbers, DOMAIN numbers = 1..n, \A i \in 1..n : numbers[i] \in Nat
    PROVE  Total(numbers) \in Nat
<1>1. PICK g : Folds!Steps(g, <<"sum">>, 0, numbers, n)
  BY Folds!FoldSteps
<1>2. g[0] \in Nat /\ \A k \in 1..n : g[k - 1] \in Nat => g[k] \in Nat
  BY <1>1 DEF Folds!Steps, FoldOp
<1>3. g[n] \in Nat
  BY <1>2, NatSteps
<1> QED
  BY <1>1, <1>3, TotalIsFold DEF Folds!Steps

LEMMA LowEndianIs ==
    ASSUME NEW bytes \in Seq(Nat)
    PROVE  LowEndian(bytes) \in Nat
<1> DEFINE back == Reverse(bytes)
           n == Len(bytes)
<1>1. n \in Nat /\ DOMAIN back = 1..n /\ \A i \in 1..n : back[i] \in Nat
  BY DEF Reverse
<1>2. LowEndian(bytes) = Folds!Fold(<<"bytes">>, 0, back)
  <2> HIDE DEF back
  <2> QED
    BY DEF LowEndian, back, Folds!Fold, FoldOp, FoldLeft, MapThenFoldSet,
           Folds!FoldLeft, Folds!MapThenFoldSet, Max, Folds!Max
<1> HIDE DEF back, n
<1>3. PICK g : Folds!Steps(g, <<"bytes">>, 0, back, n)
  BY <1>1, Folds!FoldSteps
<1>4. g[0] \in Nat /\ \A k \in 1..n : g[k - 1] \in Nat => g[k] \in Nat
  <2>1. \A a \in Nat, x \in Nat : Shifted(a, x) \in Nat
    BY DEF Shifted, Huge
  <2> QED
    BY <1>1, <1>3, <2>1 DEF Folds!Steps, FoldOp
<1>5. g[n] \in Nat
  BY <1>1, <1>4, NatSteps
<1>6. Folds!Fold(<<"bytes">>, 0, back) \in Nat
  BY <1>3, <1>5 DEF Folds!Steps
<1> QED
  BY <1>2, <1>6

-----------------------------------------------------------------------------
(***************************************************************************)
(* Numbers.                                                                *)
(***************************************************************************)
LEMMA SzReadUInt32Is ==
    ASSUME NEW r, IsReader(r)
    PROVE  Gives(r, SzReadUInt32(r), Nat)
<1>1. PICK q : q = SzReadBytes(r, 4)
  OBVIOUS
<1>2. Gives(r, q, Seq(Nat))
  BY <1>1, SzReadBytesIs DEF Gives
<1>3. IsReader(q) /\ (~Failed(q) => LowEndian(q.v) \in Nat)
  BY <1>2, LowEndianIs DEF Gives, Keeps
<1>4. SzReadUInt32(r) = Value(q, LowEndian(q.v))
  BY <1>1 DEF SzReadUInt32
<1> QED
  BY <1>2, <1>3, <1>4, ValueIs, KeepsOn DEF Gives, IsReader

LEMMA CountIs ==
    ASSUME NEW n \in Nat, NEW S \in SUBSET (1..n)
    PROVE  Cardinality(S) \in Nat
<1>1. IsFiniteSet(1..n)
  BY FS_Interval
<1>2. IsFiniteSet(S)
  BY <1>1, FS_Subset
<1> QED
  BY <1>2, FS_CardinalityType

LEMMA LeadingOnesIs ==
    ASSUME NEW byte
    PROVE  LeadingOnes(byte) \in Nat
<1> DEFINE S == {n \in 1..8 : \A k \in 1..n : Has(byte, Mask[k])}
<1>1. S \in SUBSET (1..8)
  OBVIOUS
<1>2. Cardinality(S) \in Nat
  <2> HIDE DEF S
  <2> QED
    BY <1>1, CountIs
<1> QED
  BY <1>2 DEF LeadingOnes

LEMMA WithHighBitsIs ==
    ASSUME NEW bytes \in Seq(Nat), NEW first \in Nat
    PROVE  WithHighBits(bytes, first) \in Nat
<1>1. CASE Len(bytes) < 8
  <2>1. PICK k \in 1..8 : k = Len(bytes) + 1
    BY <1>1
  <2>2. first % Mask[k] \in Nat
    <3>1. Mask[k] \in Nat \ {0}
      BY DEF Mask
    <3> QED
      BY <3>1
  <2>3. bytes \o <<first % Mask[Len(bytes) + 1]>> \in Seq(Nat)
    BY <2>1, <2>2
  <2> QED
    BY <1>1, <2>3, LowEndianIs DEF WithHighBits
<1>2. CASE ~(Len(bytes) < 8)
  BY <1>2, LowEndianIs DEF WithHighBits
<1> QED
  BY <1>1, <1>2

LEMMA SzReadNumberIs ==
    ASSUME NEW r, IsReader(r)
    PROVE  /\ Gives(r, SzReadNumber(r), Nat) /\ Takes(r, SzReadNumber(r))
           /\ SzReadNumber(r).v \in Nat
<1>1. PICK q : q = SzReadByte(r)
  OBVIOUS
<1>2. Gives(r, q, Nat) /\ Takes(r, q) /\ q.v \in Nat
  BY <1>1, SzReadByteIs
<1>3. PICK p : p = SzReadBytes(q, LeadingOnes(q.v))
  OBVIOUS
<1>4. Gives(q, p, Seq(Nat))
  BY <1>2, <1>3, LeadingOnesIs, SzReadBytesIs DEF Gives, Keeps
<1>5. SzReadNumber(r) = Value(p, WithHighBits(p.v, q.v))
  BY <1>1, <1>3 DEF SzReadNumber
<1>6. IsReader(p) /\ (~Failed(p) => WithHighBits(p.v, q.v) \in Nat)
  BY <1>2, <1>4, WithHighBitsIs DEF Gives, Keeps
<1>7. Keeps(r, p) /\ (~Failed(p) => Len(p.sd) < Len(r.sd))
  BY <1>2, <1>4 DEF Gives, Keeps, Takes, IsReader
<1> QED
  BY <1>5, <1>6, <1>7, ValueIs DEF Gives, Keeps, Takes, IsReader

LEMMA SzReadNumber32Is ==
    ASSUME NEW r, IsReader(r)
    PROVE  Gives(r, SzReadNumber32(r), Nat) /\ SzReadNumber32(r).v \in Nat
<1>1. PICK q : q = SzReadNumber(r)
  OBVIOUS
<1>2. Gives(r, q, Nat) /\ q.v \in Nat
  BY <1>1, SzReadNumberIs
<1>3. SzReadNumber32(r) = IF q.v >= Huge THEN Refused(q, "unsupported") ELSE q
  BY <1>1 DEF SzReadNumber32
<1>4. Keeps(q, Refused(q, "unsupported")) /\ Failed(Refused(q, "unsupported"))
      /\ Refused(q, "unsupported").v = 0
  BY <1>2, RefusedIs DEF Gives, Keeps, Results
<1> QED
  BY <1>2, <1>3, <1>4 DEF Gives, Keeps, IsReader

LEMMA SzSkeepDataSizeIs ==
    ASSUME NEW r, IsReader(r), NEW size, ~Failed(r) => size \in Nat
    PROVE  Keeps(r, SzSkeepDataSize(r, size))
<1>1. CASE Failed(r) \/ size > Len(r.sd)
  BY <1>1, RefusedIs DEF SzSkeepDataSize, Results
<1>2. CASE ~(Failed(r) \/ size > Len(r.sd))
  <2>1. size \in 0..Len(r.sd) /\ Len(r.sd) \in Nat
    BY <1>2 DEF IsReader
  <2>2. /\ SubSeq(r.sd, size + 1, Len(r.sd)) \in Seq(Nat)
        /\ Len(SubSeq(r.sd, size + 1, Len(r.sd))) = Len(r.sd) - size
    BY <2>1, CutIs DEF IsReader
  <2>3. SzSkeepDataSize(r, size) = [sd |-> SubSeq(r.sd, size + 1, Len(r.sd)),
                                    v |-> r.v, res |-> r.res]
    BY <1>2 DEF SzSkeepDataSize, IsReader
  <2> QED
    BY <1>2, <2>1, <2>2, <2>3 DEF Keeps, IsReader, Failed
<1> QED
  BY <1>1, <1>2

LEMMA SzSkeepDataIs ==
    ASSUME NEW r, IsReader(r)
    PROVE  Keeps(r, SzSkeepData(r))
<1>1. PICK q : q = SzReadNumber(r)
  OBVIOUS
<1>2. Gives(r, q, Nat) /\ q.v \in Nat
  BY <1>1, SzReadNumberIs
<1>3. SzSkeepData(r) = SzSkeepDataSize(q, q.v)
  BY <1>1 DEF SzSkeepData
<1>4. Keeps(q, SzSkeepDataSize(q, q.v))
  BY <1>2, SzSkeepDataSizeIs DEF Gives, Keeps
<1> QED
  BY <1>2, <1>3, <1>4, KeepsOn DEF Gives, IsReader

-----------------------------------------------------------------------------
(***************************************************************************)
(* One reader for each of a sequence.  g are the values of the fold.       *)
(***************************************************************************)
Collects(g, r, n, V) ==
    /\ g[0] = [r |-> r, l |-> << >>]
    /\ \A k \in 1..n : IsReader(g[k - 1].r) =>
          \E q : Gives(g[k - 1].r, q, V) /\ g[k] = [r |-> q, l |-> Append(g[k - 1].l, q.v)]

LEMMA CollectedIs ==
    ASSUME NEW g, NEW r, IsReader(r), NEW n \in Nat, NEW V, Collects(g, r, n, V),
           NEW e, e = Value(g[n].r, g[n].l)
    PROVE  Gives(r, e, [1..n -> V])
<1> DEFINE W == V \cup {0}
           Good(k) == /\ Keeps(r, g[k].r)
                      /\ g[k].l \in Seq(W) /\ Len(g[k].l) = k
                      /\ ~Failed(g[k].r) => \A i \in 1..k : g[k].l[i] \in V
           S == {k \in 0..n : Good(k)}
<1>1. 0 \in S
  <2>1. g[0].r = r /\ g[0].l = << >>
    BY DEF Collects
  <2>2. Good(0)
    BY <2>1, KeepsSelf
  <2> QED
    BY <2>2
<1>2. ASSUME NEW k \in 1..n, k - 1 \in S PROVE k \in S
  <2>1. Good(k - 1)
    BY <1>2
  <2>2. PICK q : Gives(g[k - 1].r, q, V) /\ g[k] = [r |-> q, l |-> Append(g[k - 1].l, q.v)]
    BY <2>1 DEF Collects, Keeps
  <2>3. q.v \in W /\ g[k].r = q /\ g[k].l = Append(g[k - 1].l, q.v)
    BY <2>2 DEF Gives, Keeps, IsReader
  <2>4. Keeps(r, q) /\ (~Failed(q) => ~Failed(g[k - 1].r) /\ q.v \in V)
    BY <2>1, <2>2, KeepsOn DEF Gives, Keeps, IsReader
  <2> DEFINE l == g[k - 1].l
             m == Append(l, q.v)
  <2>5. l \in Seq(W) /\ Len(l) = k - 1
    BY <2>1
  <2>6. m \in Seq(W) /\ Len(m) = k /\ m[k] = q.v /\ \A i \in 1..(k - 1) : m[i] = l[i]
    <3> HIDE DEF l, W
    <3> QED
      BY <2>3, <2>5
  <2>7. ~Failed(q) => \A i \in 1..k : m[i] \in V
    BY <2>1, <2>4, <2>6
  <2>8. Good(k)
    BY <2>3, <2>4, <2>6, <2>7
  <2> QED
    BY <2>8
<1>3. n \in S
  <2> HIDE DEF S
  <2>1. n \in 0..n
    OBVIOUS
  <2> QED
    BY <1>1, <1>2, <2>1, Folds!Induction
<1>4. /\ Keeps(r, g[n].r) /\ g[n].l \in Seq(W) /\ Len(g[n].l) = n
      /\ ~Failed(g[n].r) => \A i \in 1..n : g[n].l[i] \in V
  BY <1>3
<1>5. ~Failed(g[n].r) => g[n].l \in [1..n -> V]
  <2> HIDE DEF W, S
  <2>1. g[n].l = [i \in 1..n |-> g[n].l[i]]
    BY <1>4
  <2> QED
    BY <1>4, <2>1
<1> HIDE DEF W, S, Good
<1>6. IsReader(g[n].r) /\ r.sd \in Seq(Nat)
  BY <1>4 DEF Keeps, IsReader
<1> QED
  BY <1>4, <1>5, <1>6, ValueIs, KeepsOn DEF Gives

ReadPair(r) == Numbers32(r, 2)
ReadFolder(r) == SzGetNextFolderItem(r)

(* The readers of one of a sequence's elements, each by its name.          *)
ReadBy(par, r, x) ==
    CASE par[1] = "number" -> SzReadNumber(r)
      [] par[1] = "number32" -> SzReadNumber32(r)
      [] par[1] = "option" -> UInt32Option(r, x)
      [] par[1] = "coder" -> ReadCoder(r)
      [] par[1] = "pair" -> ReadPair(r)
      [] par[1] = "folder" -> ReadFolder(r)
      [] par[1] = "unpackSizes" -> FolderUnpackSizes(r, x)
      [] par[1] = "sizes" -> FolderSizes(r, x, par[2])
      [] par[1] = "word" -> SzReadUInt32(r)
      [] par[1] = "time" -> TimeOption(r, x)

ListTurn(par, a, x) ==
    LET Add(q, l) == [r |-> q, l |-> Append(l, q.v)] IN Add(ReadBy(par, a.r, x), a.l)

Lists == INSTANCE Strings_proofs WITH Op <- ListTurn

(* What the reader of that name makes of the elements are all values of V. *)
Reads(par, seq, n, V) ==
    DOMAIN seq = 1..n /\ \A r : IsReader(r) => \A i \in 1..n : Gives(r, ReadBy(par, r, seq[i]), V)

List(par, r, seq) ==
    Value(Lists!Fold(par, [r |-> r, l |-> << >>], seq).r,
          Lists!Fold(par, [r |-> r, l |-> << >>], seq).l)

LEMMA ListIs ==
    ASSUME NEW r, IsReader(r), NEW n \in Nat, NEW par, NEW seq, NEW V, Reads(par, seq, n, V)
    PROVE  Gives(r, List(par, r, seq), [1..n -> V])
<1>1. PICK g : Lists!Steps(g, par, [r |-> r, l |-> << >>], seq, n)
  BY Lists!FoldSteps DEF Reads
<1>2. Collects(g, r, n, V)
  BY <1>1 DEF Lists!Steps, ListTurn, Collects, Reads
<1>3. List(par, r, seq) = Value(g[n].r, g[n].l)
  BY <1>1 DEF List, Lists!Steps
<1> QED
  BY <1>2, <1>3, CollectedIs

LEMMA TimesIs ==
    ASSUME NEW n \in Nat
    PROVE  DOMAIN Times(n) = 1..n
BY DEF Times

LEMMA NumbersIs ==
    ASSUME NEW r, IsReader(r), NEW n \in Nat
    PROVE  Gives(r, Numbers(r, n), [1..n -> Nat])
<1>1. Numbers(r, n) = List(<<"number">>, r, Times(n))
  BY DEF Numbers, ForEach, List, ListTurn, ReadBy, FoldLeft, MapThenFoldSet,
         Lists!Fold, Lists!FoldLeft, Lists!MapThenFoldSet, Max, Lists!Max
<1>2. Reads(<<"number">>, Times(n), n, Nat)
  BY TimesIs, SzReadNumberIs DEF Reads, ReadBy
<1> QED
  BY <1>1, <1>2, ListIs

LEMMA Numbers32Is ==
    ASSUME NEW r, IsReader(r), NEW n \in Nat
    PROVE  Gives(r, Numbers32(r, n), [1..n -> Nat])
<1>1. Numbers32(r, n) = List(<<"number32">>, r, Times(n))
  BY DEF Numbers32, ForEach, List, ListTurn, ReadBy, FoldLeft, MapThenFoldSet,
         Lists!Fold, Lists!FoldLeft, Lists!MapThenFoldSet, Max, Lists!Max
<1>2. Reads(<<"number32">>, Times(n), n, Nat)
  BY TimesIs, SzReadNumber32Is DEF Reads, ReadBy
<1> QED
  BY <1>1, <1>2, ListIs

-----------------------------------------------------------------------------
(***************************************************************************)
(* Loops.  t[k] is the turn when k bytes are left.                         *)
(***************************************************************************)
LEMMA RestIs ==
    ASSUME NEW r, IsReader(r), NEW k \in 0..Len(r.sd)
    PROVE  /\ IsReader(Rest(r, k)) /\ Len(Rest(r, k).sd) = k
           /\ Failed(Rest(r, k)) <=> Failed(r)
<1>1. Len(r.sd) \in Nat /\ Len(r.sd) - k \in 0..Len(r.sd) /\ r.sd \in Seq(Nat)
  BY DEF IsReader
<1>2. PICK m \in 0..Len(r.sd) : m = Len(r.sd) - k
  BY <1>1
<1>3. Rest(r, k) = [sd |-> SubSeq(r.sd, m + 1, Len(r.sd)), v |-> r.v, res |-> r.res]
  <2>1. Len(r.sd) - k + 1 = m + 1
    BY <1>2
  <2>2. Rest(r, k) = [r EXCEPT !.sd = SubSeq(r.sd, m + 1, Len(r.sd))]
    BY <2>1 DEF Rest
  <2> QED
    BY <2>2 DEF IsReader
<1>4. SubSeq(r.sd, m + 1, Len(r.sd)) \in Seq(Nat)
      /\ Len(SubSeq(r.sd, m + 1, Len(r.sd))) = Len(r.sd) - m
  BY <1>1, CutIs
<1>5. Len(r.sd) - m = k
  BY <1>1, <1>2
<1> QED
  BY <1>3, <1>4, <1>5 DEF IsReader, Failed

TurnIs(r, k, t) == Keeps(Rest(r, k), t.r) /\ (~t.ends => Len(t.r.sd) < k)

LEMMA LoopKeeps ==
    ASSUME NEW r, IsReader(r), NEW from, NEW t, NEW n, n = Len(r.sd),
           \A k \in 0..n : TurnIs(r, k, t[k]),
           \A k \in 0..n : from[k] = IF t[k].ends THEN t[k].r ELSE from[Len(t[k].r.sd)]
    PROVE  Keeps(r, from[n])
<1> DEFINE S == {k \in 0..n : \A i \in 0..k : Keeps(Rest(r, i), from[i])}
<1>1. n \in Nat
  BY DEF IsReader
<1>2. ASSUME NEW k \in 0..n, \A i \in 0..(k - 1) : Keeps(Rest(r, i), from[i])
      PROVE  Keeps(Rest(r, k), from[k])
  <2>1. CASE t[k].ends
    BY <2>1 DEF TurnIs
  <2>2. CASE ~t[k].ends
    <3>1. PICK q : q = t[k].r
      OBVIOUS
    <3>2. Keeps(Rest(r, k), q) /\ Len(q.sd) < k /\ q.sd \in Seq(Nat) /\ IsReader(Rest(r, k))
      BY <2>2, <3>1, RestIs DEF TurnIs, Keeps, IsReader
    <3>3. PICK i \in 0..(k - 1) : i = Len(q.sd)
      BY <3>2
    <3>4. Keeps(Rest(r, i), from[i]) /\ from[k] = from[i]
      BY <1>2, <2>2, <3>1, <3>3
    <3>5. Len(Rest(r, i).sd) = i /\ Len(Rest(r, k).sd) = k /\ (Failed(Rest(r, k)) <=> Failed(r))
          /\ (Failed(Rest(r, i)) <=> Failed(r))
      <4>1. i \in 0..Len(r.sd) /\ k \in 0..Len(r.sd)
        BY <1>1
      <4> QED
        BY <4>1, RestIs
    <3> QED
      BY <3>4, <3>5 DEF Keeps, IsReader
  <2> QED
    BY <2>1, <2>2
<1>3. 0 \in S
  BY <1>1, <1>2
<1>4. ASSUME NEW k \in 1..n, k - 1 \in S PROVE k \in S
  <2>1. \A i \in 0..(k - 1) : Keeps(Rest(r, i), from[i])
    BY <1>4
  <2>2. Keeps(Rest(r, k), from[k])
    BY <1>2, <2>1
  <2>3. \A i \in 0..k : i = k \/ i \in 0..(k - 1)
    OBVIOUS
  <2> QED
    BY <2>1, <2>2, <2>3
<1>5. n \in S
  <2> HIDE DEF S
  <2>1. n \in 0..n
    BY <1>1
  <2> QED
    BY <1>1, <1>3, <1>4, <2>1, Folds!Induction
<1>6. Keeps(Rest(r, n), from[n])
  BY <1>1, <1>5
<1>7. Len(Rest(r, n).sd) = n /\ (Failed(Rest(r, n)) <=> Failed(r))
  BY <1>1, RestIs
<1> QED
  BY <1>6, <1>7 DEF Keeps

LEMMA TurnedIs ==
    ASSUME NEW q, NEW ends
    PROVE  /\ Turned(q, ends).r = q /\ (ends => Turned(q, ends).ends)
           /\ ~Turned(q, ends).ends => ~Failed(q)
BY DEF Turned

LEMMA WaitTurnIs ==
    ASSUME NEW r, IsReader(r), NEW attribute
    PROVE  /\ Keeps(r, WaitTurn(r, attribute).r)
           /\ ~WaitTurn(r, attribute).ends => Len(WaitTurn(r, attribute).r.sd) < Len(r.sd)
<1>1. PICK q : q = SzReadID(r)
  OBVIOUS
<1>2. Gives(r, q, Nat) /\ Takes(r, q)
  BY <1>1, SzReadNumberIs DEF SzReadID
<1>3. IsReader(q)
  BY <1>2 DEF Gives, Keeps
<1>4. PICK t : t = WaitTurn(r, attribute)
  OBVIOUS
<1>5. t = IF q.v = attribute THEN Turned(q, TRUE)
          ELSE IF q.v = k7zIdEnd THEN Turned(Refused(q, "archive"), TRUE)
          ELSE Turned(SzSkeepData(q), FALSE)
  BY <1>1, <1>4 DEF WaitTurn
<1>6. CASE q.v = attribute
  <2>1. t.r = q /\ t.ends
    BY <1>5, <1>6, TurnedIs
  <2> QED
    BY <1>2, <1>4, <2>1 DEF Gives
<1>7. CASE q.v # attribute /\ q.v = k7zIdEnd
  <2>1. t.r = Refused(q, "archive") /\ t.ends
    BY <1>5, <1>7, TurnedIs
  <2>2. Keeps(q, Refused(q, "archive"))
    BY <1>3, RefusedIs DEF Results
  <2>3. Keeps(r, Refused(q, "archive"))
    BY <1>2, <2>2, KeepsOn DEF Gives, IsReader
  <2> QED
    BY <1>4, <2>1, <2>3
<1>8. CASE q.v # attribute /\ q.v # k7zIdEnd
  <2>1. t.r = SzSkeepData(q) /\ (~t.ends => ~Failed(SzSkeepData(q)))
    BY <1>5, <1>8, TurnedIs
  <2>2. Keeps(q, SzSkeepData(q))
    BY <1>3, SzSkeepDataIs
  <2>3. Keeps(r, SzSkeepData(q))
    BY <1>2, <2>2, KeepsOn DEF Gives, IsReader
  <2> QED
    BY <1>2, <1>4, <2>1, <2>2, <2>3 DEF Keeps, Takes, IsReader
<1> QED
  BY <1>6, <1>7, <1>8

(* A loop's turn, by the loop's name; par[2] is the reader it begins with. *)
TurnBy(par, r) ==
    CASE par[1] = "wait" -> WaitTurn(r, par[3])
      [] par[1] = "alternatives" -> AlternativeTurn(r)

LoopOp(par, from, n) ==
    LET After(t) == IF t.ends THEN t.r ELSE from[Len(t.r.sd)]
    IN  After(TurnBy(par, Rest(par[2], n)))

Loops == INSTANCE Strings_proofs WITH Op <- LoopOp

LEMMA LoopIs ==
    ASSUME NEW par, NEW r, par[2] = r, IsReader(r),
           \A q : IsReader(q) =>
               /\ Keeps(q, TurnBy(par, q).r)
               /\ ~TurnBy(par, q).ends => Len(TurnBy(par, q).r.sd) < Len(q.sd)
    PROVE  Keeps(r, Loops!Recursion(par, Len(r.sd))[Len(r.sd)])
<1> DEFINE n == Len(r.sd)
           from == Loops!Recursion(par, n)
           t == [k \in 0..n |-> TurnBy(par, Rest(r, k))]
<1>1. n \in Nat
  BY DEF IsReader
<1>2. \A k \in 0..n : t[k] = TurnBy(par, Rest(r, k)) /\ TurnIs(r, k, t[k])
  BY RestIs DEF TurnIs
<1>3. \A k \in 0..n : \A f : LoopOp(par, f, k)
                             = IF t[k].ends THEN t[k].r ELSE f[Len(t[k].r.sd)]
  <2> HIDE DEF t, n
  <2> QED
    BY <1>2 DEF LoopOp
<1>4. Loops!RestsOnLess(par, n)
  <2> HIDE DEF t
  <2>1. \A k \in 0..n : t[k].r.sd \in Seq(Nat)
    BY <1>2 DEF TurnIs, Keeps, IsReader
  <2>2. \A k \in 0..n : ~t[k].ends => Len(t[k].r.sd) \in 0..n /\ Len(t[k].r.sd) < k
    BY <1>1, <1>2, <2>1 DEF TurnIs
  <2> HIDE DEF n
  <2> QED
    BY <1>3, <2>2 DEF Loops!RestsOnLess
<1>5. \A k \in 0..n : from[k] = LoopOp(par, from, k)
  <2> HIDE DEF n
  <2> QED
    BY <1>1, <1>4, Loops!RecursionIs
<1>6. \A k \in 0..n : from[k] = IF t[k].ends THEN t[k].r ELSE from[Len(t[k].r.sd)]
  <2> HIDE DEF n, t, from
  <2> QED
    BY <1>3, <1>5
<1> HIDE DEF t, from
<1>7. Keeps(r, from[n])
  BY <1>2, <1>6, LoopKeeps
<1> QED
  BY <1>7 DEF from

LEMMA SzWaitAttributeIs ==
    ASSUME NEW r, IsReader(r), NEW attribute
    PROVE  Keeps(r, SzWaitAttribute(r, attribute))
<1>1. SzWaitAttribute(r, attribute)
      = Loops!Recursion(<<"wait", r, attribute>>, Len(r.sd))[Len(r.sd)]
  BY DEF SzWaitAttribute, Loop, Loops!Recursion, LoopOp, TurnBy
<1>2. \A q : TurnBy(<<"wait", r, attribute>>, q) = WaitTurn(q, attribute)
  BY DEF TurnBy
<1> QED
  BY <1>1, <1>2, WaitTurnIs, LoopIs

-----------------------------------------------------------------------------
(***************************************************************************)
(* Vectors and digests.                                                    *)
(***************************************************************************)
LEMMA SzReadBoolVectorIs ==
    ASSUME NEW r, IsReader(r), NEW n \in Nat
    PROVE  Gives(r, SzReadBoolVector(r, n), [1..n -> BOOLEAN])
<1>1. PICK q : q = SzReadBytes(r, (n + 7) \div 8)
  OBVIOUS
<1>2. Keeps(r, q)
  <2>1. (n + 7) \div 8 \in Nat
    OBVIOUS
  <2> QED
    BY <1>1, <2>1, SzReadBytesIs DEF Gives
<1>3. SzReadBoolVector(r, n) = Value(q, [i \in 1..n |-> BitOf(q.v, i)])
  BY <1>1 DEF SzReadBoolVector
<1>4. [i \in 1..n |-> BitOf(q.v, i)] \in [1..n -> BOOLEAN]
  BY DEF BitOf, Has
<1> QED
  BY <1>2, <1>3, <1>4, GivesValue

LEMMA SzReadBoolVector2Is ==
    ASSUME NEW r, IsReader(r), NEW n \in Nat
    PROVE  Gives(r, SzReadBoolVector2(r, n), [1..n -> BOOLEAN])
<1>1. PICK q : q = SzReadByte(r)
  OBVIOUS
<1>2. Keeps(r, q) /\ IsReader(q)
  BY <1>1, SzReadByteIs DEF Gives, Keeps
<1>3. SzReadBoolVector2(r, n) = IF q.v = 0 THEN SzReadBoolVector(q, n)
                                ELSE Value(q, [i \in 1..n |-> TRUE])
  BY <1>1 DEF SzReadBoolVector2
<1>4. CASE q.v = 0
  BY <1>2, <1>3, <1>4, SzReadBoolVectorIs, GivesOn
<1>5. CASE q.v # 0
  <2>1. PICK all \in [1..n -> BOOLEAN] : all = [i \in 1..n |-> TRUE]
    OBVIOUS
  <2>2. SzReadBoolVector2(r, n) = Value(q, all)
    BY <1>3, <1>5, <2>1
  <2> QED
    BY <1>2, <2>2, GivesValue
<1> QED
  BY <1>4, <1>5

LEMMA SzReadSwitchIs ==
    ASSUME NEW r, IsReader(r)
    PROVE  Keeps(r, SzReadSwitch(r))
<1>1. PICK q : q = SzReadByte(r)
  OBVIOUS
<1>2. Keeps(r, q) /\ IsReader(q)
  BY <1>1, SzReadByteIs DEF Gives, Keeps
<1>3. SzReadSwitch(r) = IF q.v = 0 THEN q ELSE Refused(q, "unsupported")
  BY <1>1 DEF SzReadSwitch
<1>4. Keeps(q, Refused(q, "unsupported"))
  BY <1>2, RefusedIs DEF Results
<1> QED
  BY <1>2, <1>3, <1>4, KeepsOn DEF IsReader

LEMMA UInt32sIs ==
    ASSUME NEW r, IsReader(r), NEW n \in Nat, NEW defined,
           ~Failed(r) => defined \in [1..n -> BOOLEAN]
    PROVE  Gives(r, UInt32s(r, defined), [1..n -> Seq(Nat)])
<1>1. CASE Failed(r)
  BY <1>1, KeepsSelf DEF UInt32s, Gives
<1>2. CASE ~Failed(r)
  <2>1. UInt32s(r, defined) = List(<<"option">>, r, defined)
    BY <1>2 DEF UInt32s, ForEach, List, ListTurn, ReadBy, FoldLeft, MapThenFoldSet,
           Lists!Fold, Lists!FoldLeft, Lists!MapThenFoldSet, Max, Lists!Max
  <2>2. ASSUME NEW q, IsReader(q), NEW i \in 1..n
        PROVE  Gives(q, ReadBy(<<"option">>, q, defined[i]), Seq(Nat))
    <3>1. PICK p : p = SzReadUInt32(q)
      OBVIOUS
    <3>2. Gives(q, p, Nat)
      BY <2>2, <3>1, SzReadUInt32Is
    <3>3. ~Failed(p) => <<p.v>> \in Seq(Nat)
      BY <3>2 DEF Gives
    <3>4. Gives(q, Value(p, <<p.v>>), Seq(Nat))
      BY <2>2, <3>2, <3>3, GivesValue DEF Gives
    <3>5. Gives(q, Value(q, << >>), Seq(Nat))
      <4>1. << >> \in Seq(Nat)
        OBVIOUS
      <4> QED
        BY <2>2, <4>1, KeepsSelf, GivesValue
    <3>6. ReadBy(<<"option">>, q, defined[i])
          = IF defined[i] THEN Value(p, <<p.v>>) ELSE Value(q, << >>)
      BY <3>1 DEF ReadBy, UInt32Option
    <3> QED
      BY <3>4, <3>5, <3>6
  <2>3. Reads(<<"option">>, defined, n, Seq(Nat))
    BY <1>2, <2>2 DEF Reads
  <2> QED
    BY <2>1, <2>3, ListIs
<1> QED
  BY <1>1, <1>2

LEMMA SzReadHashDigestsIs ==
    ASSUME NEW r, IsReader(r), NEW n \in Nat
    PROVE  Gives(r, SzReadHashDigests(r, n), [1..n -> Seq(Nat)])
<1>1. PICK q : q = SzReadBoolVector2(r, n)
  OBVIOUS
<1>2. Gives(r, q, [1..n -> BOOLEAN]) /\ IsReader(q)
  BY <1>1, SzReadBoolVector2Is DEF Gives, Keeps
<1>3. Gives(q, UInt32s(q, q.v), [1..n -> Seq(Nat)])
  BY <1>2, UInt32sIs DEF Gives
<1>4. SzReadHashDigests(r, n) = UInt32s(q, q.v)
  BY <1>1 DEF SzReadHashDigests
<1> QED
  BY <1>2, <1>3, <1>4, GivesOn DEF Gives

-----------------------------------------------------------------------------
(***************************************************************************)
(* Coders.                                                                 *)
(***************************************************************************)
CoderSet == [id: Seq(Nat), numIn: Nat, numOut: Nat, props: Seq(Nat)]

LEMMA MethodIDIs ==
    ASSUME NEW r, IsReader(r), NEW main \in Nat
    PROVE  Gives(r, MethodID(r, main), Seq(Nat))
<1>1. PICK q : q = SzReadBytes(r, main % 16)
  OBVIOUS
<1>2. Gives(r, q, Seq(Nat)) /\ IsReader(q)
  <2>1. main % 16 \in Nat
    OBVIOUS
  <2> QED
    BY <1>1, <2>1, SzReadBytesIs DEF Gives, Keeps
<1>3. MethodID(r, main) = IF main % 16 > 8 THEN Refused(q, "unsupported") ELSE q
  BY <1>1 DEF MethodID
<1>4. Keeps(q, Refused(q, "unsupported")) /\ Failed(Refused(q, "unsupported"))
  BY <1>2, RefusedIs DEF Results
<1> QED
  BY <1>2, <1>3, <1>4, KeepsOn DEF Gives, IsReader

LEMMA CoderStreamsIs ==
    ASSUME NEW r, IsReader(r), NEW main \in Nat
    PROVE  Gives(r, CoderStreams(r, main), [1..2 -> Nat])
<1>1. CASE Has(main, 16)
  <2>1. PICK q : q = Numbers32(r, 2)
    OBVIOUS
  <2>2. Gives(r, q, [1..2 -> Nat]) /\ IsReader(q)
    BY <2>1, Numbers32Is DEF Gives, Keeps
  <2>3. \/ CoderStreams(r, main) = q
        \/ CoderStreams(r, main) = Refused(q, "unsupported")
    BY <1>1, <2>1 DEF CoderStreams
  <2>4. Keeps(q, Refused(q, "unsupported")) /\ Failed(Refused(q, "unsupported"))
    BY <2>2, RefusedIs DEF Results
  <2> QED
    BY <2>2, <2>3, <2>4, KeepsOn DEF Gives, IsReader
<1>2. CASE ~Has(main, 16)
  <2>1. <<1, 1>> \in [1..2 -> Nat]
    OBVIOUS
  <2> QED
    BY <1>2, <2>1, KeepsSelf, GivesValue DEF CoderStreams
<1> QED
  BY <1>1, <1>2

LEMMA CoderPropsIs ==
    ASSUME NEW r, IsReader(r), NEW main \in Nat
    PROVE  Gives(r, CoderProps(r, main), Seq(Nat))
<1>1. CASE Has(main, 32)
  <2>1. PICK q : q = SzReadNumber(r)
    OBVIOUS
  <2>2. Keeps(r, q) /\ IsReader(q) /\ q.v \in Nat
    BY <2>1, SzReadNumberIs DEF Gives, Keeps
  <2>3. Gives(q, SzReadBytes(q, q.v), Seq(Nat))
    BY <2>2, SzReadBytesIs DEF Gives
  <2>4. CoderProps(r, main) = SzReadBytes(q, q.v)
    BY <1>1, <2>1 DEF CoderProps
  <2> QED
    BY <2>2, <2>3, <2>4, GivesOn
<1>2. CASE ~Has(main, 32)
  <2>1. << >> \in Seq(Nat) /\ CoderProps(r, main) = Value(r, << >>)
    BY <1>2 DEF CoderProps
  <2> QED
    BY <2>1, KeepsSelf, GivesValue
<1> QED
  BY <1>1, <1>2

LEMMA SkipsKeep ==
    ASSUME NEW r, IsReader(r), NEW main
    PROVE  Keeps(r, SkipStreams(r, main)) /\ Keeps(r, SkipProps(r, main))
<1>1. Keeps(r, SkipStreams(r, main))
  BY Numbers32Is, KeepsSelf DEF SkipStreams, Gives
<1>2. Keeps(r, SkipProps(r, main))
  BY SzSkeepDataIs, KeepsSelf DEF SkipProps
<1> QED
  BY <1>1, <1>2

LEMMA AlternativeTurnIs ==
    ASSUME NEW r, IsReader(r)
    PROVE  /\ Keeps(r, AlternativeTurn(r).r)
           /\ ~AlternativeTurn(r).ends => Len(AlternativeTurn(r).r.sd) < Len(r.sd)
<1>1. PICK q : q = SzReadByte(r)
  OBVIOUS
<1>2. Keeps(r, q) /\ IsReader(q) /\ Takes(r, q) /\ q.v \in Nat
  BY <1>1, SzReadByteIs DEF Gives, Keeps
<1>3. PICK a : a = SzSkeepDataSize(q, q.v % 16)
  OBVIOUS
<1>4. Keeps(q, a) /\ IsReader(a)
  <2>1. q.v % 16 \in Nat
    BY <1>2
  <2> QED
    BY <1>2, <1>3, <2>1, SzSkeepDataSizeIs DEF Keeps
<1>5. PICK b : b = SkipStreams(a, q.v)
  OBVIOUS
<1>6. Keeps(a, b) /\ IsReader(b)
  BY <1>4, <1>5, SkipsKeep DEF Keeps
<1>7. PICK c : c = SkipProps(b, q.v)
  OBVIOUS
<1>8. Keeps(b, c)
  BY <1>6, <1>7, SkipsKeep
<1>9. AlternativeTurn(r) = Turned(c, ~Has(q.v, 128))
  BY <1>1, <1>3, <1>5, <1>7 DEF AlternativeTurn
<1>10. PICK t : t = AlternativeTurn(r)
  OBVIOUS
<1>11. t.r = c /\ (~t.ends => ~Failed(c))
  BY <1>9, <1>10, TurnedIs
<1>12. Keeps(q, c)
  BY <1>2, <1>4, <1>6, <1>8, KeepsOn DEF IsReader
<1> QED
  BY <1>2, <1>10, <1>11, <1>12, KeepsOn DEF Keeps, Takes, IsReader

LEMMA AlternativesKeep ==
    ASSUME NEW r, IsReader(r), NEW main
    PROVE  Keeps(r, Alternatives(r, main))
<1>1. Alternatives(r, main)
      = IF Has(main, 128) THEN Loops!Recursion(<<"alternatives", r>>, Len(r.sd))[Len(r.sd)] ELSE r
  BY DEF Alternatives, Loop, Loops!Recursion, LoopOp, TurnBy
<1>2. \A q : TurnBy(<<"alternatives", r>>, q) = AlternativeTurn(q)
  BY DEF TurnBy
<1> QED
  BY <1>1, <1>2, AlternativeTurnIs, LoopIs, KeepsSelf

LEMMA ReadCoderIs ==
    ASSUME NEW r, IsReader(r)
    PROVE  Gives(r, ReadCoder(r), CoderSet)
<1>1. PICK m : m = SzReadByte(r)
  OBVIOUS
<1>2. Keeps(r, m) /\ IsReader(m) /\ m.v \in Nat
  BY <1>1, SzReadByteIs DEF Gives, Keeps
<1>3. PICK i : i = MethodID(m, m.v)
  OBVIOUS
<1>4. Gives(m, i, Seq(Nat)) /\ IsReader(i)
  BY <1>2, <1>3, MethodIDIs DEF Gives, Keeps
<1>5. PICK s : s = CoderStreams(i, m.v)
  OBVIOUS
<1>6. Gives(i, s, [1..2 -> Nat]) /\ IsReader(s)
  BY <1>2, <1>4, <1>5, CoderStreamsIs DEF Gives, Keeps
<1>7. PICK p : p = CoderProps(s, m.v)
  OBVIOUS
<1>8. Gives(s, p, Seq(Nat)) /\ IsReader(p)
  BY <1>2, <1>6, <1>7, CoderPropsIs DEF Gives, Keeps
<1>9. PICK a : a = Alternatives(p, m.v)
  OBVIOUS
<1>10. Keeps(p, a)
  BY <1>8, <1>9, AlternativesKeep
<1> DEFINE coder == [id |-> i.v, numIn |-> s.v[1], numOut |-> s.v[2], props |-> p.v]
<1>11. ReadCoder(r) = Value(a, coder)
  BY <1>1, <1>3, <1>5, <1>7, <1>9 DEF ReadCoder
<1>12. ~Failed(a) => i.v \in Seq(Nat) /\ s.v \in [1..2 -> Nat] /\ p.v \in Seq(Nat)
  BY <1>4, <1>6, <1>8, <1>10 DEF Gives, Keeps
<1>13. ~Failed(a) => coder \in CoderSet
  BY <1>12 DEF CoderSet
<1>14. Keeps(r, a)
  BY <1>2, <1>4, <1>6, <1>8, <1>10, KeepsOn DEF Gives, IsReader
<1> HIDE DEF coder
<1> QED
  BY <1>11, <1>13, <1>14, GivesValue

-----------------------------------------------------------------------------
(***************************************************************************)
(* Folders.                                                                *)
(***************************************************************************)
Pair == [1..2 -> Nat]

FolderSet == [coders: Seq(CoderSet), bindPairs: Seq(Pair), packStreams: Seq(Nat),
              sizes: Seq(Nat), crc: Seq(Nat), num: Nat]

LEMMA ListIsSeq ==
    ASSUME NEW n \in Nat, NEW V, NEW l \in [1..n -> V]
    PROVE  l \in Seq(V) /\ Len(l) = n
OBVIOUS

LEMMA CoderSumsAre ==
    ASSUME NEW coders \in Seq(CoderSet)
    PROVE  NumIn(coders) \in Nat /\ NumOut(coders) \in Nat
<1>1. Len(coders) \in Nat /\ DOMAIN coders = 1..Len(coders)
  OBVIOUS
<1>2. \A i \in 1..Len(coders) : coders[i].numIn \in Nat /\ coders[i].numOut \in Nat
  <2>1. \A i \in 1..Len(coders) : coders[i] \in CoderSet
    OBVIOUS
  <2> QED
    BY <2>1 DEF CoderSet
<1> DEFINE ins == [i \in DOMAIN coders |-> coders[i].numIn]
           outs == [i \in DOMAIN coders |-> coders[i].numOut]
<1>3. /\ DOMAIN ins = 1..Len(coders) /\ DOMAIN outs = 1..Len(coders)
      /\ \A i \in 1..Len(coders) : ins[i] \in Nat /\ outs[i] \in Nat
  BY <1>1, <1>2
<1>4. Total(ins) \in Nat /\ Total(outs) \in Nat
  <2> HIDE DEF ins, outs
  <2> QED
    BY <1>1, <1>3, TotalIs
<1> QED
  BY <1>4 DEF NumIn, NumOut

Coders(r, n) == ForEach(r, Times(n), LAMBDA q, i : ReadCoder(q))

LEMMA CodersAre ==
    ASSUME NEW r, IsReader(r), NEW n \in Nat
    PROVE  Gives(r, Coders(r, n), [1..n -> CoderSet])
<1>1. Coders(r, n) = List(<<"coder">>, r, Times(n))
  BY DEF Coders, ForEach, List, ListTurn, ReadBy, FoldLeft, MapThenFoldSet,
         Lists!Fold, Lists!FoldLeft, Lists!MapThenFoldSet, Max, Lists!Max
<1>2. Reads(<<"coder">>, Times(n), n, CoderSet)
  BY TimesIs, ReadCoderIs DEF Reads, ReadBy
<1> QED
  BY <1>1, <1>2, ListIs

BindPairs(r, n) == ForEach(r, Times(n), LAMBDA q, i : Numbers32(q, 2))

LEMMA BindPairsAre ==
    ASSUME NEW r, IsReader(r), NEW n \in Nat
    PROVE  Gives(r, BindPairs(r, n), [1..n -> Pair])
<1>1. BindPairs(r, n) = List(<<"pair">>, r, Times(n))
  BY DEF BindPairs, ReadPair, ForEach, List, ListTurn, ReadBy, FoldLeft, MapThenFoldSet,
         Lists!Fold, Lists!FoldLeft, Lists!MapThenFoldSet, Max, Lists!Max
<1>2. Reads(<<"pair">>, Times(n), n, Pair)
  BY TimesIs, Numbers32Is DEF Reads, ReadBy, ReadPair, Pair
<1> QED
  BY <1>1, <1>2, ListIs

LEMMA PackStreamsAre ==
    ASSUME NEW r, IsReader(r), NEW n \in Nat, NEW pairs \in Seq(Pair)
    PROVE  Gives(r, PackStreams(r, n, pairs), Seq(Nat))
<1> DEFINE free == {i \in 0..(n - 1) : ~InIsBound(pairs, i)}
<1>1. Gives(r, Refused(r, "unsupported"), Seq(Nat))
  BY RefusedIs DEF Results, Gives
<1>2. CASE n < Len(pairs)
  BY <1>1, <1>2 DEF PackStreams
<1>3. CASE ~(n < Len(pairs)) /\ n - Len(pairs) # 1
  <2>1. PICK m \in Nat : m = n - Len(pairs)
    <3>1. Len(pairs) \in Nat
      OBVIOUS
    <3> QED
      BY <1>3, <3>1
  <2>2. Gives(r, Numbers32(r, m), [1..m -> Nat])
    BY Numbers32Is
  <2>3. PackStreams(r, n, pairs) = Numbers32(r, m)
    BY <1>3, <2>1 DEF PackStreams
  <2> QED
    BY <2>2, <2>3, ListIsSeq DEF Gives
<1>4. CASE ~(n < Len(pairs)) /\ n - Len(pairs) = 1
  <2>1. CASE free = {}
    BY <1>1, <1>4, <2>1 DEF PackStreams
  <2>2. CASE free # {}
    <3>1. free \subseteq Nat
      OBVIOUS
    <3>2. PICK m \in free : \A i \in free : m <= i
      <4> HIDE DEF free
      <4> QED
        BY <2>2, <3>1, Folds!LeastNumber
    <3>3. Min(free) \in free
      <4> HIDE DEF free
      <4> QED
        BY <3>2 DEF Min
    <3>4. <<Min(free)>> \in Seq(Nat)
      <4> HIDE DEF free
      <4>1. PICK l \in Nat : l = Min(free)
        BY <3>1, <3>3
      <4> QED
        BY <4>1
    <3>5. PackStreams(r, n, pairs) = Value(r, <<Min(free)>>)
      BY <1>4, <2>2 DEF PackStreams
    <3> HIDE DEF free
    <3> QED
      BY <3>4, <3>5, KeepsSelf, GivesValue
  <2> QED
    BY <2>1, <2>2
<1> QED
  BY <1>2, <1>3, <1>4

LEMMA FolderItemIs ==
    ASSUME NEW r, IsReader(r), NEW coders \in Seq(CoderSet)
    PROVE  Gives(r, FolderItem(r, coders), FolderSet)
<1>1. CASE NumOut(coders) = 0
  BY <1>1, RefusedIs DEF FolderItem, Results, Gives
<1>2. CASE NumOut(coders) # 0
  <2>1. PICK n \in Nat : n = NumOut(coders) - 1
    BY <1>2, CoderSumsAre
  <2>2. PICK q : q = BindPairs(r, n)
    OBVIOUS
  <2>3. Gives(r, q, [1..n -> Pair]) /\ IsReader(q)
    BY <2>2, BindPairsAre DEF Gives, Keeps
  <2>4. PICK p : p = PackStreams(q, NumIn(coders), q.v)
    OBVIOUS
  <2> DEFINE folder == [coders |-> coders, bindPairs |-> q.v, packStreams |-> p.v,
                        sizes |-> << >>, crc |-> << >>, num |-> 0]
  <2>5. FolderItem(r, coders) = IF Failed(q) THEN q ELSE Value(p, folder)
    BY <1>2, <2>1, <2>2, <2>4 DEF FolderItem, BindPairs
  <2>6. CASE Failed(q)
    BY <2>3, <2>5, <2>6 DEF Gives
  <2>7. CASE ~Failed(q)
    <3>1. q.v \in Seq(Pair)
      BY <2>3, <2>7, ListIsSeq DEF Gives
    <3>2. Gives(q, p, Seq(Nat))
      BY <2>3, <2>4, <3>1, CoderSumsAre, PackStreamsAre
    <3>3. ~Failed(p) => folder \in FolderSet
      BY <3>1, <3>2 DEF Gives, FolderSet
    <3>4. Keeps(r, p)
      BY <2>3, <3>2, KeepsOn DEF Gives, IsReader
    <3> HIDE DEF folder
    <3> QED
      BY <2>5, <2>7, <3>3, <3>4, GivesValue
  <2> QED
    BY <2>6, <2>7
<1> QED
  BY <1>1, <1>2

LEMMA SzGetNextFolderItemIs ==
    ASSUME NEW r, IsReader(r)
    PROVE  Gives(r, SzGetNextFolderItem(r), FolderSet)
<1>1. PICK n : n = SzReadNumber32(r)
  OBVIOUS
<1>2. Gives(r, n, Nat) /\ IsReader(n) /\ n.v \in Nat
  BY <1>1, SzReadNumber32Is DEF Gives, Keeps
<1>3. PICK q : q = Coders(n, n.v)
  OBVIOUS
<1>4. Gives(n, q, [1..n.v -> CoderSet]) /\ IsReader(q)
  BY <1>2, <1>3, CodersAre DEF Gives, Keeps
<1>5. SzGetNextFolderItem(r) = IF n.v > NUM_FOLDER_CODERS_MAX THEN Refused(n, "unsupported")
                               ELSE IF Failed(q) THEN q ELSE FolderItem(q, q.v)
  BY <1>1, <1>3 DEF SzGetNextFolderItem, Coders
<1>6. Keeps(n, Refused(n, "unsupported")) /\ Failed(Refused(n, "unsupported"))
  BY <1>2, RefusedIs DEF Results
<1>7. Gives(r, Refused(n, "unsupported"), FolderSet)
  BY <1>2, <1>6, KeepsOn DEF Gives, IsReader
<1>8. Keeps(r, q)
  BY <1>2, <1>4, KeepsOn DEF Gives, IsReader
<1>9. CASE Failed(q)
  BY <1>5, <1>7, <1>8, <1>9 DEF Gives
<1>10. CASE ~Failed(q)
  <2>1. q.v \in Seq(CoderSet)
    BY <1>2, <1>4, <1>10, ListIsSeq DEF Gives
  <2>2. Gives(r, FolderItem(q, q.v), FolderSet)
    BY <1>4, <1>8, <2>1, FolderItemIs, GivesOn
  <2> QED
    BY <1>5, <1>7, <1>10, <2>2
<1> QED
  BY <1>9, <1>10

(* Folders with a size for each of what they put out.                      *)
SizedFolders == {f \in FolderSet : f.sizes \in [1..NumOut(f.coders) -> Nat]}

LEMMA FolderUnpackSizesIs ==
    ASSUME NEW r, IsReader(r), NEW f \in FolderSet
    PROVE  Gives(r, FolderUnpackSizes(r, f), SizedFolders)
<1>1. PICK n \in Nat : n = NumOut(f.coders)
  BY CoderSumsAre DEF FolderSet
<1>2. PICK q : q = Numbers(r, n)
  OBVIOUS
<1>3. Gives(r, q, [1..n -> Nat])
  BY <1>2, NumbersIs
<1> DEFINE sized == [f EXCEPT !.sizes = q.v]
<1>4. FolderUnpackSizes(r, f) = Value(q, sized)
  BY <1>1, <1>2 DEF FolderUnpackSizes
<1>5. ~Failed(q) => sized \in SizedFolders
  <2>1. SUFFICES ASSUME ~Failed(q) PROVE sized \in SizedFolders
    OBVIOUS
  <2>2. q.v \in [1..n -> Nat] /\ q.v \in Seq(Nat)
    BY <1>3, <2>1, ListIsSeq DEF Gives
  <2>3. sized \in FolderSet /\ sized.sizes = q.v /\ sized.coders = f.coders
    BY <2>2 DEF FolderSet
  <2> HIDE DEF sized
  <2> QED
    BY <1>1, <2>2, <2>3 DEF SizedFolders
<1> HIDE DEF sized
<1> QED
  BY <1>3, <1>4, <1>5, GivesValue DEF Gives

LEMMA UnpackSizesAre ==
    ASSUME NEW r, IsReader(r), NEW n \in Nat, NEW folders,
           ~Failed(r) => folders \in [1..n -> FolderSet]
    PROVE  Gives(r, UnpackSizes(r, folders), [1..n -> SizedFolders])
<1>1. CASE Failed(r)
  BY <1>1, KeepsSelf DEF UnpackSizes, Gives
<1>2. CASE ~Failed(r)
  <2>1. UnpackSizes(r, folders) = List(<<"unpackSizes">>, r, folders)
    BY <1>2 DEF UnpackSizes, ForEach, List, ListTurn, ReadBy, FoldLeft, MapThenFoldSet,
           Lists!Fold, Lists!FoldLeft, Lists!MapThenFoldSet, Max, Lists!Max
  <2>2. Reads(<<"unpackSizes">>, folders, n, SizedFolders)
    BY <1>2, FolderUnpackSizesIs DEF Reads, ReadBy
  <2> QED
    BY <2>1, <2>2, ListIs
<1> QED
  BY <1>1, <1>2

FolderList(r, n) == ForEach(r, Times(n), LAMBDA q, i : SzGetNextFolderItem(q))

LEMMA FolderListIs ==
    ASSUME NEW r, IsReader(r), NEW n \in Nat
    PROVE  Gives(r, FolderList(r, n), [1..n -> FolderSet])
<1>1. FolderList(r, n) = List(<<"folder">>, r, Times(n))
  BY DEF FolderList, ForEach, List, ListTurn, ReadBy, ReadFolder, FoldLeft, MapThenFoldSet,
         Lists!Fold, Lists!FoldLeft, Lists!MapThenFoldSet, Max, Lists!Max
<1>2. Reads(<<"folder">>, Times(n), n, FolderSet)
  BY TimesIs, SzGetNextFolderItemIs DEF Reads, ReadBy, ReadFolder
<1> QED
  BY <1>1, <1>2, ListIs

LEMMA UnpackPrefixIs ==
    ASSUME NEW r, IsReader(r)
    PROVE  Gives(r, UnpackPrefix(r), Seq(SizedFolders))
<1>1. PICK w : w = SzWaitAttribute(r, k7zIdFolder)
  OBVIOUS
<1>2. Keeps(r, w) /\ IsReader(w)
  BY <1>1, SzWaitAttributeIs DEF Keeps
<1>3. PICK n : n = SzReadNumber32(w)
  OBVIOUS
<1>4. Keeps(w, n) /\ IsReader(n) /\ n.v \in Nat
  BY <1>2, <1>3, SzReadNumber32Is DEF Gives, Keeps
<1>5. PICK s : s = SzReadSwitch(n)
  OBVIOUS
<1>6. Keeps(n, s) /\ IsReader(s)
  BY <1>4, <1>5, SzReadSwitchIs DEF Keeps
<1>7. PICK l : l = FolderList(s, n.v)
  OBVIOUS
<1>8. Gives(s, l, [1..n.v -> FolderSet]) /\ IsReader(l)
  BY <1>4, <1>6, <1>7, FolderListIs DEF Gives, Keeps
<1>9. PICK q : q = SzWaitAttribute(l, k7zIdCodersUnpackSize)
  OBVIOUS
<1>10. Keeps(l, q) /\ IsReader(q)
  BY <1>8, <1>9, SzWaitAttributeIs DEF Keeps
<1>11. Gives(q, UnpackSizes(q, l.v), [1..n.v -> SizedFolders])
  <2>1. ~Failed(q) => l.v \in [1..n.v -> FolderSet]
    BY <1>8, <1>10 DEF Gives, Keeps
  <2> QED
    BY <1>4, <1>10, <2>1, UnpackSizesAre
<1>12. UnpackPrefix(r) = UnpackSizes(q, l.v)
  BY <1>1, <1>3, <1>5, <1>7, <1>9 DEF UnpackPrefix, FolderList
<1>13. Keeps(r, q)
  BY <1>2, <1>4, <1>6, <1>8, <1>10, KeepsOn DEF Gives, IsReader
<1>14. Gives(r, UnpackPrefix(r), [1..n.v -> SizedFolders])
  BY <1>11, <1>12, <1>13, GivesOn
<1> QED
  BY <1>4, <1>14, ListIsSeq DEF Gives

PackInfo == [dataPos: Nat, sizes: Seq(Nat)]

LEMMA PackPrefixIs ==
    ASSUME NEW r, IsReader(r)
    PROVE  Gives(r, PackPrefix(r), PackInfo)
<1>1. PICK o : o = SzReadNumber(r)
  OBVIOUS
<1>2. Keeps(r, o) /\ IsReader(o) /\ o.v \in Nat
  BY <1>1, SzReadNumberIs DEF Gives, Keeps
<1>3. PICK n : n = SzReadNumber32(o)
  OBVIOUS
<1>4. Keeps(o, n) /\ IsReader(n) /\ n.v \in Nat
  BY <1>2, <1>3, SzReadNumber32Is DEF Gives, Keeps
<1>5. PICK w : w = SzWaitAttribute(n, k7zIdSize)
  OBVIOUS
<1>6. Keeps(n, w) /\ IsReader(w)
  BY <1>4, <1>5, SzWaitAttributeIs DEF Keeps
<1>7. PICK q : q = Numbers(w, n.v)
  OBVIOUS
<1>8. Gives(w, q, [1..n.v -> Nat])
  BY <1>4, <1>6, <1>7, NumbersIs
<1> DEFINE v == [dataPos |-> o.v, sizes |-> q.v]
<1>9. PackPrefix(r) = Value(q, v)
  BY <1>1, <1>3, <1>5, <1>7 DEF PackPrefix
<1>10. Keeps(r, q)
  BY <1>2, <1>4, <1>6, <1>8, KeepsOn DEF Gives, IsReader
<1>11. ~Failed(q) => v \in PackInfo
  BY <1>2, <1>4, <1>8, ListIsSeq DEF Gives, PackInfo
<1> HIDE DEF v
<1> QED
  BY <1>9, <1>10, <1>11, GivesValue

-----------------------------------------------------------------------------
(***************************************************************************)
(* The sizes of a folder's files.                                          *)
(***************************************************************************)
LEMMA MaxIn ==
    ASSUME NEW k \in Nat, NEW s \in SUBSET (0..k), s # {}
    PROVE  Max(s) \in s
<1> DEFINE Bounds == {b \in Nat : \A i \in s : i <= b}
<1>1. Bounds \subseteq Nat /\ k \in Bounds
  OBVIOUS
<1>2. PICK b \in Bounds : \A c \in Bounds : b <= c
  BY <1>1, Folds!LeastNumber
<1>3. b \in s
  <2>1. PICK i \in s : i <= b
    OBVIOUS
  <2>2. SUFFICES ASSUME b \notin s PROVE FALSE
    OBVIOUS
  <2>3. b - 1 \in Nat /\ \A j \in s : j <= b - 1
    BY <2>1, <2>2
  <2> QED
    BY <1>2, <2>3
<1>4. \A i \in s : b >= i
  OBVIOUS
<1> QED
  BY <1>3, <1>4 DEF Max

LEMMA UnpackSizeIs ==
    ASSUME NEW f \in SizedFolders
    PROVE  SzFolder_GetUnpackSize(f) \in Nat
<1>1. f \in FolderSet /\ f.sizes \in [1..NumOut(f.coders) -> Nat]
  BY DEF SizedFolders
<1>2. PICK n \in Nat : n = NumOut(f.coders)
  BY <1>1, CoderSumsAre DEF FolderSet
<1> DEFINE free == {i \in 0..(NumOut(f.coders) - 1) : ~OutIsBound(f.bindPairs, i)}
<1>3. free \subseteq 0..(n - 1)
  BY <1>2
<1>4. SzFolder_GetUnpackSize(f) = IF free = {} THEN 0 ELSE f.sizes[1 + Max(free)]
  BY DEF SzFolder_GetUnpackSize
<1> HIDE DEF free
<1>5. CASE free = {}
  BY <1>4, <1>5
<1>6. CASE free # {}
  <2>1. PICK m \in Nat : m = n - 1
    <3>1. PICK i \in 0..(n - 1) : TRUE
      BY <1>3, <1>6
    <3> QED
      BY <3>1
  <2>2. Max(free) \in 0..m
    BY <1>3, <1>6, <2>1, MaxIn
  <2>3. 1 + Max(free) \in 1..n
    BY <2>1, <2>2
  <2> QED
    BY <1>1, <1>2, <1>4, <1>6, <2>3
<1> QED
  BY <1>5, <1>6

LEMMA LastSizeIs ==
    ASSUME NEW f \in SizedFolders, NEW sizes \in Seq(Nat)
    PROVE  LastSize(f, sizes) \in Int
<1>1. Len(sizes) \in Nat /\ DOMAIN sizes = 1..Len(sizes) /\ \A i \in 1..Len(sizes) : sizes[i] \in Nat
  OBVIOUS
<1>2. Total(sizes) \in Nat
  BY <1>1, TotalIs
<1> QED
  BY <1>2, UnpackSizeIs DEF LastSize

LEMMA FolderSizesAre ==
    ASSUME NEW r, IsReader(r), NEW f \in SizedFolders, NEW type
    PROVE  Gives(r, FolderSizes(r, f, type), Seq(Int))
<1>1. f.num \in Nat
  BY DEF SizedFolders, FolderSet
<1>2. CASE f.num = 0
  <2>1. << >> \in Seq(Int) /\ FolderSizes(r, f, type) = Value(r, << >>)
    BY <1>2 DEF FolderSizes
  <2> QED
    BY <2>1, KeepsSelf, GivesValue
<1>3. CASE f.num # 0 /\ type = k7zIdSize
  <2>1. PICK n \in Nat : n = f.num - 1
    BY <1>1, <1>3
  <2>2. PICK q : q = Numbers(r, n)
    OBVIOUS
  <2>3. Gives(r, q, [1..n -> Nat])
    BY <2>2, NumbersIs
  <2>4. FolderSizes(r, f, type) = Value(q, Append(q.v, LastSize(f, q.v)))
    BY <1>3, <2>1, <2>2 DEF FolderSizes
  <2>5. ~Failed(q) => Append(q.v, LastSize(f, q.v)) \in Seq(Int)
    <3>1. SUFFICES ASSUME ~Failed(q) PROVE Append(q.v, LastSize(f, q.v)) \in Seq(Int)
      OBVIOUS
    <3>2. q.v \in Seq(Nat) /\ LastSize(f, q.v) \in Int
      BY <2>3, <3>1, ListIsSeq, LastSizeIs DEF Gives
    <3>3. q.v \in Seq(Int)
      BY <3>2
    <3> QED
      BY <3>2, <3>3
  <2> QED
    BY <2>3, <2>4, <2>5, GivesValue DEF Gives
<1>4. CASE f.num # 0 /\ type # k7zIdSize
  <2>1. << >> \in Seq(Nat)
    OBVIOUS
  <2>2. PICK last \in Int : last = LastSize(f, << >>)
    BY <2>1, LastSizeIs
  <2>3. FolderSizes(r, f, type) = Value(r, <<last>>)
    BY <1>4, <2>2 DEF FolderSizes
  <2>4. <<last>> \in Seq(Int)
    OBVIOUS
  <2> QED
    BY <2>3, <2>4, KeepsSelf, GivesValue
<1> QED
  BY <1>2, <1>3, <1>4

FileSizes(r, type) == ForEach(r, db.folders, LAMBDA q, f : FolderSizes(q, f, type))

LEMMA SizesAre ==
    ASSUME NEW r, IsReader(r), r.v \in Nat, db.folders \in Seq(SizedFolders)
    PROVE  Keeps(r, Sizes(r)) /\ (~Failed(Sizes(r)) => Sizes(r).v.type \in Nat)
<1>0. CASE Wrapped(db.folders)
  BY <1>0, RefusedIs DEF Sizes, Results
<1>1. PICK n \in Nat : n = Len(db.folders)
  OBVIOUS
<1>2. PICK l : l = FileSizes(r, r.v)
  OBVIOUS
<1>3. \A type : FileSizes(r, type) = List(<<"sizes", type>>, r, db.folders)
  BY DEF FileSizes, ForEach, List, ListTurn, ReadBy, FoldLeft, MapThenFoldSet,
         Lists!Fold, Lists!FoldLeft, Lists!MapThenFoldSet, Max, Lists!Max
<1>4. Reads(<<"sizes", r.v>>, db.folders, n, Seq(Int))
  BY <1>1, FolderSizesAre DEF Reads, ReadBy
<1>5. Keeps(r, l) /\ IsReader(l)
  BY <1>2, <1>3, <1>4, ListIs DEF Gives, Keeps
<1>6. PICK q : q = IF r.v = k7zIdSize THEN SzReadID(l) ELSE Value(l, r.v)
  OBVIOUS
<1>7. Keeps(l, q) /\ IsReader(q) /\ (~Failed(q) => q.v \in Nat)
  BY <1>5, <1>6, SzReadNumberIs, ValueIs DEF Gives, Keeps, SzReadID
<1> DEFINE v == [sizes |-> FlattenSeq(l.v), type |-> q.v]
<1>8. Wrapped(db.folders) \/ Sizes(r) = Value(q, v)
  BY <1>2, <1>6 DEF Sizes, FileSizes
<1>9. v.type = q.v
  OBVIOUS
<1> HIDE DEF v
<1>10. Keeps(r, q)
  BY <1>5, <1>7, KeepsOn DEF IsReader
<1> QED
  BY <1>0, <1>7, <1>8, <1>9, <1>10, ValueIs, KeepsOn DEF IsReader

-----------------------------------------------------------------------------
(***************************************************************************)
(* What is told of the files.                                              *)
(***************************************************************************)
LEMMA TimeIs ==
    ASSUME NEW r, IsReader(r)
    PROVE  Gives(r, Time(r), Pair)
<1>1. Time(r) = List(<<"word">>, r, Times(2))
  BY DEF Time, ForEach, List, ListTurn, ReadBy, FoldLeft, MapThenFoldSet,
         Lists!Fold, Lists!FoldLeft, Lists!MapThenFoldSet, Max, Lists!Max
<1>2. Reads(<<"word">>, Times(2), 2, Nat)
  BY TimesIs, SzReadUInt32Is DEF Reads, ReadBy
<1>3. Gives(r, List(<<"word">>, r, Times(2)), [1..2 -> Nat])
  BY <1>2, ListIs
<1> QED
  BY <1>1, <1>3 DEF Pair

LEMMA TimedIs ==
    ASSUME NEW r, IsReader(r), NEW n \in Nat, NEW defined,
           ~Failed(r) => defined \in [1..n -> BOOLEAN]
    PROVE  Gives(r, Timed(r, defined), [1..n -> Seq(Pair)])
<1>1. CASE Failed(r)
  BY <1>1, KeepsSelf DEF Timed, Gives
<1>2. CASE ~Failed(r)
  <2>1. Timed(r, defined) = List(<<"time">>, r, defined)
    BY <1>2 DEF Timed, ForEach, List, ListTurn, ReadBy, FoldLeft, MapThenFoldSet,
           Lists!Fold, Lists!FoldLeft, Lists!MapThenFoldSet, Max, Lists!Max
  <2>2. ASSUME NEW q, IsReader(q), NEW i \in 1..n
        PROVE  Gives(q, ReadBy(<<"time">>, q, defined[i]), Seq(Pair))
    <3>1. PICK p : p = Time(q)
      OBVIOUS
    <3>2. Gives(q, p, Pair)
      BY <2>2, <3>1, TimeIs
    <3>3. ~Failed(p) => <<p.v>> \in Seq(Pair)
      BY <3>2 DEF Gives
    <3>4. Gives(q, Value(p, <<p.v>>), Seq(Pair))
      BY <2>2, <3>2, <3>3, GivesValue DEF Gives
    <3>5. Gives(q, Value(q, << >>), Seq(Pair))
      <4>1. << >> \in Seq(Pair)
        OBVIOUS
      <4> QED
        BY <2>2, <4>1, KeepsSelf, GivesValue
    <3>6. ReadBy(<<"time">>, q, defined[i])
          = IF defined[i] THEN Value(p, <<p.v>>) ELSE Value(q, << >>)
      BY <3>1 DEF ReadBy, TimeOption
    <3> QED
      BY <3>4, <3>5, <3>6
  <2>3. Reads(<<"time">>, defined, n, Seq(Pair))
    BY <1>2, <2>2 DEF Reads
  <2> QED
    BY <2>1, <2>3, ListIs
<1> QED
  BY <1>1, <1>2

(* A vector of what is defined, a switch, and then the values.             *)
LEMMA AttributesKeep ==
    ASSUME NEW r, IsReader(r), NEW n \in Nat, NEW q, q = SzReadBoolVector2(r, n)
    PROVE  /\ Keeps(r, UInt32s(SzReadSwitch(q), q.v))
           /\ Keeps(r, Timed(SzReadSwitch(q), q.v))
<1>1. Gives(r, q, [1..n -> BOOLEAN]) /\ IsReader(q)
  BY SzReadBoolVector2Is DEF Gives, Keeps
<1>2. PICK s : s = SzReadSwitch(q)
  OBVIOUS
<1>3. Keeps(q, s) /\ IsReader(s)
  BY <1>1, <1>2, SzReadSwitchIs DEF Keeps
<1>4. ~Failed(s) => q.v \in [1..n -> BOOLEAN]
  BY <1>1, <1>3 DEF Gives, Keeps
<1>5. Gives(s, UInt32s(s, q.v), [1..n -> Seq(Nat)]) /\ Gives(s, Timed(s, q.v), [1..n -> Seq(Pair)])
  BY <1>3, <1>4, UInt32sIs, TimedIs
<1>6. Keeps(r, s)
  BY <1>1, <1>3, KeepsOn DEF Gives, IsReader
<1> QED
  BY <1>2, <1>5, <1>6, KeepsOn DEF Gives, IsReader

LEMMA NamesOfKeep ==
    ASSUME NEW r, IsReader(r), NEW size \in Nat
    PROVE  Keeps(r, NamesOf(r, size))
<1>1. PICK s : s = SzReadSwitch(r)
  OBVIOUS
<1>2. Keeps(r, s) /\ IsReader(s)
  BY <1>1, SzReadSwitchIs DEF Keeps
<1>3. CASE size % 2 = 0
  <2>1. Keeps(s, Refused(s, "archive"))
    BY <1>2, RefusedIs DEF Results
  <2> QED
    BY <1>1, <1>2, <1>3, <2>1, KeepsOn DEF NamesOf, IsReader
<1>4. CASE size % 2 # 0
  <2>1. size - 1 \in Nat
    BY <1>4
  <2>2. PICK q : q = SzReadBytes(s, size - 1)
    OBVIOUS
  <2>3. Keeps(s, q) /\ IsReader(q)
    BY <1>2, <2>1, <2>2, SzReadBytesIs DEF Gives, Keeps
  <2>4. NamesOf(r, size) = IF Failed(q) THEN q ELSE FileNames(q, Utf16(q.v), files.num)
    BY <1>1, <1>4, <2>2 DEF NamesOf
  <2>5. \A units, n : Keeps(q, FileNames(q, units, n))
    <3>1. TAKE units, n
    <3>2. \/ FileNames(q, units, n) = Refused(q, "archive")
          \/ \E v : FileNames(q, units, n) = Value(q, v)
      BY DEF FileNames
    <3> QED
      BY <2>3, <3>2, RefusedIs, ValueIs DEF Results
  <2>6. Keeps(r, q)
    BY <1>2, <2>3, KeepsOn DEF IsReader
  <2> QED
    BY <2>4, <2>5, <2>6, KeepsOn DEF IsReader
<1> QED
  BY <1>3, <1>4

(* A property's size, and what is read within it.                          *)
LEMMA WithinSize ==
    ASSUME NEW r, IsReader(r), NEW n, n = SzReadNumber(r), NEW e, Keeps(n, e), NEW all,
           all = IF n.v > Len(n.sd) THEN Refused(n, "archive") ELSE e
    PROVE  Keeps(r, all) /\ (~Failed(all) => all = e)
<1>1. Keeps(r, n) /\ IsReader(n) /\ n.v \in Nat
  BY SzReadNumberIs DEF Gives, Keeps
<1>2. Keeps(n, Refused(n, "archive")) /\ Failed(Refused(n, "archive"))
  BY <1>1, RefusedIs DEF Results
<1>3. Keeps(n, all)
  BY <1>2
<1> QED
  BY <1>1, <1>2, <1>3, KeepsOn DEF IsReader

-----------------------------------------------------------------------------
(***************************************************************************)
(* The digests are given out, one for each file.                           *)
(***************************************************************************)
LEMMA SumsRise ==
    ASSUME NEW n \in Nat, NEW x, \A k \in 1..n : x[k] \in Nat,
           NEW d, d[0] = 0, \A k \in 1..n : d[k] = d[k - 1] + x[k]
    PROVE  \A k \in 0..n : d[k] \in Nat /\ d[k] <= d[n]
<1> DEFINE S == {k \in 0..n : d[k] \in Nat /\ \A i \in 0..k : d[i] \in Nat /\ d[i] <= d[k]}
<1>1. 0 \in S
  OBVIOUS
<1>2. ASSUME NEW k \in 1..n, k - 1 \in S PROVE k \in S
  <2>1. d[k - 1] \in Nat /\ d[k] \in Nat /\ d[k - 1] <= d[k]
    BY <1>2
  <2>2. \A i \in 0..k : i = k \/ i \in 0..(k - 1)
    OBVIOUS
  <2> QED
    BY <1>2, <2>1, <2>2
<1>3. n \in S
  <2> HIDE DEF S
  <2>1. n \in 0..n
    OBVIOUS
  <2> QED
    BY <1>1, <1>2, <2>1, Folds!Induction
<1> QED
  BY <1>3

LEMMA MiddleIs ==
    ASSUME NEW V, NEW s \in Seq(V), NEW a \in Nat, NEW b \in Nat, a + b <= Len(s)
    PROVE  SubSeq(s, a + 1, a + b) \in Seq(V) /\ Len(SubSeq(s, a + 1, a + b)) = b
OBVIOUS

LEMMA JoinedIs ==
    ASSUME NEW V, NEW s \in Seq(V), NEW t \in Seq(V)
    PROVE  s \o t \in Seq(V) /\ Len(s \o t) = Len(s) + Len(t)
OBVIOUS

LEMMA NumsAre ==
    ASSUME NEW folders \in Seq(FolderSet), NEW n, n = Len(folders),
           NEW nums, nums = [i \in DOMAIN folders |-> folders[i].num],
           NEW asked, asked = [i \in DOMAIN folders |->
                                 IF Known(folders[i]) THEN 0 ELSE folders[i].num]
    PROVE  /\ n \in Nat /\ DOMAIN nums = 1..n /\ DOMAIN asked = 1..n
           /\ \A i \in 1..n : nums[i] \in Nat /\ asked[i] \in Nat
           /\ NumUnpackStreams(folders) \in Nat /\ NumDigests(folders) \in Nat
<1>1. n \in Nat /\ DOMAIN nums = 1..n /\ DOMAIN asked = 1..n
  OBVIOUS
<1>2. \A i \in 1..n : nums[i] \in Nat /\ asked[i] \in Nat
  <2>1. \A i \in 1..n : folders[i] \in FolderSet
    OBVIOUS
  <2>2. \A i \in 1..n : folders[i].num \in Nat
    BY <2>1 DEF FolderSet
  <2> QED
    BY <2>2
<1>3. Total(nums) \in Nat /\ Total(asked) \in Nat
  BY <1>1, <1>2, TotalIs
<1> QED
  BY <1>1, <1>2, <1>3 DEF NumUnpackStreams, NumDigests

LEMMA DistributedIs ==
    ASSUME NEW folders \in Seq(FolderSet), NEW m, m = NumDigests(folders),
           NEW digests \in [1..m -> Seq(Nat)]
    PROVE  /\ Distributed(folders, digests) \in Seq(Seq(Nat))
           /\ Len(Distributed(folders, digests)) = NumUnpackStreams(folders)
<1>1. PICK n : n = Len(folders)
  OBVIOUS
<1>2. PICK nums : nums = [i \in DOMAIN folders |-> folders[i].num]
  OBVIOUS
<1>3. PICK asked : asked = [i \in DOMAIN folders |->
                              IF Known(folders[i]) THEN 0 ELSE folders[i].num]
  OBVIOUS
<1>4. /\ n \in Nat /\ DOMAIN nums = 1..n /\ DOMAIN asked = 1..n /\ m \in Nat
      /\ \A i \in 1..n : nums[i] \in Nat /\ asked[i] \in Nat
  BY <1>1, <1>2, <1>3, NumsAre
<1>5. PICK s : Folds!Steps(s, <<"sum">>, 0, nums, n)
  BY <1>4, Folds!FoldSteps
<1>6. PICK d : Folds!Steps(d, <<"sum">>, 0, asked, n)
  BY <1>4, Folds!FoldSteps
<1>7. PICK g : Folds!Steps(g, <<"give", digests>>, [l |-> << >>, n |-> 0], folders, n)
  <2>1. n \in Nat /\ DOMAIN folders = 1..n
    BY <1>1
  <2> QED
    BY <2>1, Folds!FoldSteps
<1>8. NumUnpackStreams(folders) = s[n] /\ m = d[n]
  BY <1>2, <1>3, <1>5, <1>6, TotalIsFold DEF Folds!Steps, NumUnpackStreams, NumDigests
<1>9. Distributed(folders, digests) = g[n].l
  <2>1. Distributed(folders, digests)
        = Folds!Fold(<<"give", digests>>, [l |-> << >>, n |-> 0], folders).l
    BY DEF Distributed, Folds!Fold, FoldOp, FoldLeft, MapThenFoldSet,
           Folds!FoldLeft, Folds!MapThenFoldSet, Max, Folds!Max
  <2> QED
    BY <1>7, <2>1 DEF Folds!Steps
<1>10. /\ s[0] = 0 /\ \A k \in 1..n : s[k] = s[k - 1] + nums[k]
       /\ d[0] = 0 /\ \A k \in 1..n : d[k] = d[k - 1] + asked[k]
  BY <1>5, <1>6 DEF Folds!Steps, FoldOp
<1>11. g[0] = [l |-> << >>, n |-> 0] /\ \A k \in 1..n : g[k] = GiveTo(digests, g[k - 1], folders[k])
  BY <1>7 DEF Folds!Steps, FoldOp
<1>12. \A k \in 0..n : s[k] \in Nat /\ d[k] \in Nat /\ d[k] <= m
  <2>1. \A k \in 0..n : s[k] \in Nat
    BY <1>4, <1>10, SumsRise
  <2>2. \A k \in 0..n : d[k] \in Nat /\ d[k] <= d[n]
    BY <1>4, <1>10, SumsRise
  <2> QED
    BY <1>8, <2>1, <2>2
<1> DEFINE Good(a, k) == /\ a = [l |-> a.l, n |-> d[k]]
                         /\ a.l \in Seq(Seq(Nat)) /\ Len(a.l) = s[k]
           S == {k \in 0..n : Good(g[k], k)}
<1>13. 0 \in S
  <2>1. g[0].l = << >> /\ g[0] = [l |-> g[0].l, n |-> d[0]] /\ s[0] = 0
    BY <1>10, <1>11
  <2>2. << >> \in Seq(Seq(Nat)) /\ Len(<< >>) = 0
    OBVIOUS
  <2>3. Good(g[0], 0)
    BY <2>1, <2>2
  <2> QED
    BY <1>4, <2>3
<1>14. ASSUME NEW k \in 1..n, k - 1 \in S PROVE k \in S
  <2>1. PICK a : a = g[k - 1]
    OBVIOUS
  <2>2. PICK l \in Seq(Seq(Nat)) : a = [l |-> l, n |-> d[k - 1]] /\ Len(l) = s[k - 1]
    BY <1>14, <2>1
  <2> HIDE DEF S
  <2>9. /\ k - 1 \in 0..n /\ k \in 0..n
        /\ s[k] = s[k - 1] + nums[k] /\ d[k] = d[k - 1] + asked[k]
    BY <1>4, <1>10
  <2>10. s[k - 1] \in Nat /\ d[k - 1] \in Nat /\ s[k] \in Nat /\ d[k] \in Nat /\ d[k] <= m
    BY <1>12, <2>9
  <2>3. PICK f \in FolderSet : f = folders[k]
    BY <1>1, <1>4
  <2>4. f.num \in Nat /\ f.crc \in Seq(Nat)
    BY <2>3 DEF FolderSet
  <2>5. nums[k] = f.num /\ asked[k] = IF Known(f) THEN 0 ELSE f.num
    BY <1>1, <1>2, <1>3, <1>4, <2>3
  <2>6. g[k] = GiveTo(digests, a, f)
    BY <1>11, <2>1, <2>3
  <2>7. CASE Known(f)
    <3>1. f.num = 1 /\ asked[k] = 0
      BY <2>5, <2>7 DEF Known
    <3>2. d[k] = d[k - 1] /\ s[k] = s[k - 1] + 1
      BY <2>5, <2>9, <2>10, <3>1
    <3>3. g[k] = [l |-> Append(l, f.crc), n |-> d[k]]
      BY <2>2, <2>6, <2>7, <3>2 DEF GiveTo
    <3>4. Append(l, f.crc) \in Seq(Seq(Nat)) /\ Len(Append(l, f.crc)) = s[k]
      BY <2>2, <2>4, <3>2
    <3>5. Good(g[k], k)
      BY <3>3, <3>4
    <3> QED
      BY <2>9, <3>5 DEF S
  <2>8. CASE ~Known(f)
    <3>1. asked[k] = f.num
      BY <2>5, <2>8
    <3>2. d[k] = d[k - 1] + f.num /\ s[k] = s[k - 1] + f.num
      BY <2>5, <2>9, <3>1
    <3>3. PICK cut : cut = SubSeq(digests, d[k - 1] + 1, d[k - 1] + f.num)
      OBVIOUS
    <3>4. cut \in Seq(Seq(Nat)) /\ Len(cut) = f.num
      <4>1. digests \in Seq(Seq(Nat)) /\ Len(digests) = m
        BY <1>4, ListIsSeq
      <4>2. PICK from \in Nat, num \in Nat : from = d[k - 1] /\ num = f.num
        BY <2>4, <2>10
      <4>3. from + num <= Len(digests)
        BY <2>10, <3>2, <4>1, <4>2
      <4>4. cut = SubSeq(digests, from + 1, from + num)
        BY <3>3, <4>2
      <4>5. cut \in Seq(Seq(Nat)) /\ Len(cut) = num
        BY <4>1, <4>3, <4>4, MiddleIs
      <4> QED
        BY <4>2, <4>5
    <3>5. g[k] = [l |-> l \o cut, n |-> d[k]]
      <4>1. a.l = l /\ a.n = d[k - 1]
        BY <2>2
      <4> QED
        BY <2>6, <2>8, <3>2, <3>3, <4>1 DEF GiveTo
    <3>6. l \o cut \in Seq(Seq(Nat)) /\ Len(l \o cut) = s[k]
      BY <2>2, <3>2, <3>4, JoinedIs
    <3>7. Good(g[k], k)
      BY <3>5, <3>6
    <3> QED
      BY <2>9, <3>7 DEF S
  <2> QED
    BY <2>7, <2>8
<1>15. n \in S
  <2> HIDE DEF S
  <2>1. n \in 0..n
    BY <1>4
  <2> QED
    BY <1>4, <1>13, <1>14, <2>1, Folds!Induction
<1> QED
  BY <1>8, <1>9, <1>15

-----------------------------------------------------------------------------
(***************************************************************************)
(* SzArEx_Fill.  Before a file is placed, those placed have a folder that  *)
(* is no later one, and whose first file is one of them.                   *)
(***************************************************************************)
F == Len(db.folders)

IsFill(a, k) ==
    /\ a = [folder |-> a.folder, inFolder |-> a.inFolder, map |-> a.map, res |-> "ok",
            start |-> a.start]
    /\ a.folder \in Nat /\ a.inFolder \in Nat
    /\ a.map \in Seq(Int) /\ Len(a.map) = k
    /\ a.start \in [1..F -> Nat]

(* Where file i went, if the folders up to last may have files.            *)
WentTo(a, items, i, last) ==
    \/ a.map[i] = NoFolder /\ ~items[i].hasStream
    \/ a.map[i] \in 0..last /\ a.map[i] < F /\ a.start[a.map[i] + 1] \in 1..i

(* With files in the folder at hand, and before that.                      *)
InFolder(a, items, k) ==
    /\ IsFill(a, k)
    /\ a.folder < F /\ a.start[a.folder + 1] \in 1..(k + 1)
    /\ \A i \in 1..k : WentTo(a, items, i, a.folder)

GoodFill(a, items, k) ==
    /\ IsFill(a, k)
    /\ a.inFolder # 0 => InFolder(a, items, k)
    /\ a.inFolder = 0 => \A i \in 1..k : WentTo(a, items, i, a.folder - 1)

LEMMA MinIs ==
    ASSUME NEW s, s \subseteq Nat, s # {}
    PROVE  Min(s) \in s
<1>1. PICK m \in s : \A i \in s : m <= i
  BY Folds!LeastNumber
<1> QED
  BY <1>1 DEF Min

LEMMA NextFolderIs ==
    ASSUME db.folders \in Seq(FolderSet), NEW a, NEW items, NEW k \in Nat,
           GoodFill(a, items, k), a.inFolder = 0, NEW q, q = NextFolder(a, k + 1)
    PROVE  q.res = "archive" \/ InFolder(q, items, k)
<1> DEFINE filled == {j \in a.folder..(Len(db.folders) - 1) : db.folders[j + 1].num # 0}
<1>1. IsFill(a, k) /\ \A i \in 1..k : WentTo(a, items, i, a.folder - 1)
  BY DEF GoodFill
<1>2. F \in Nat /\ a.folder \in Nat
  BY <1>1 DEF F, IsFill
<1>5. PICK f, n, map, before :
        a = [folder |-> f, inFolder |-> n, map |-> map, res |-> "ok", start |-> before]
  BY <1>1 DEF IsFill
<1>3. CASE filled = {}
  <2>1. q = [a EXCEPT !.res = "archive"]
    BY <1>3 DEF NextFolder
  <2> QED
    BY <1>1, <2>1 DEF IsFill
<1>4. CASE filled # {}
  <2>1. PICK g \in filled : g = Min(filled)
    <3>1. filled \subseteq Nat
      BY <1>2
    <3> HIDE DEF filled
    <3> QED
      BY <1>4, <3>1, MinIs
  <2>2. g \in Nat /\ a.folder <= g /\ g < F
    BY <1>2, <2>1 DEF F
  <2> DEFINE start == [j \in DOMAIN a.start |-> IF j - 1 \in a.folder..g THEN k + 1 ELSE a.start[j]]
  <2>3. q = [a EXCEPT !.folder = g, !.start = start]
    BY <1>4, <2>1 DEF NextFolder
  <2>4. /\ start \in [1..F -> Nat] /\ start[g + 1] = k + 1
        /\ \A j \in 1..F : j - 1 < a.folder => start[j] = a.start[j]
    BY <1>1, <1>2, <2>2 DEF IsFill
  <2> HIDE DEF start, filled
  <2>5. q = [folder |-> g, inFolder |-> a.inFolder, map |-> a.map, res |-> "ok", start |-> start]
    <3>1. q = [folder |-> g, inFolder |-> n, map |-> map, res |-> "ok", start |-> start]
      BY <1>5, <2>3
    <3> QED
      BY <1>5, <3>1
  <2>9. q.folder = g /\ q.map = a.map /\ q.start = start /\ q.inFolder = a.inFolder
    BY <2>5
  <2>6. IsFill(q, k)
    BY <1>1, <2>2, <2>4, <2>5, <2>9 DEF IsFill
  <2>7. ASSUME NEW i \in 1..k PROVE WentTo(q, items, i, g)
    <3>1. CASE a.map[i] = NoFolder /\ ~items[i].hasStream
      BY <2>9, <3>1 DEF WentTo
    <3>2. CASE /\ a.map[i] \in 0..(a.folder - 1) /\ a.map[i] < F
               /\ a.start[a.map[i] + 1] \in 1..i
      <4>1. PICK h \in Nat : h = a.map[i] /\ h < a.folder /\ h < F
        BY <1>2, <3>2
      <4>2. h + 1 \in 1..F /\ h + 1 - 1 < a.folder /\ h \in 0..g /\ h < F
        BY <1>2, <2>2, <4>1
      <4>3. start[h + 1] = a.start[h + 1]
        BY <2>4, <4>2
      <4> QED
        BY <2>9, <3>2, <4>1, <4>2, <4>3 DEF WentTo
    <3> QED
      BY <1>1, <3>1, <3>2 DEF WentTo
  <2>8. InFolder(q, items, k)
    <3>1. k + 1 \in 1..(k + 1)
      OBVIOUS
    <3> QED
      BY <2>2, <2>4, <2>6, <2>7, <2>9, <3>1 DEF InFolder
  <2> QED
    BY <2>8
<1> QED
  BY <1>3, <1>4

LEMMA PlacedIs ==
    ASSUME db.folders \in Seq(FolderSet), NEW a, NEW items, NEW k \in Nat, InFolder(a, items, k),
           items[k + 1].hasStream \/ a.inFolder # 0, NEW q, q = Placed(a, items[k + 1])
    PROVE  GoodFill(q, items, k + 1)
<1>1. /\ IsFill(a, k) /\ a.folder \in Nat /\ a.folder < F /\ a.start[a.folder + 1] \in 1..(k + 1)
      /\ \A i \in 1..k : WentTo(a, items, i, a.folder) /\ F \in Nat
  BY DEF InFolder, IsFill, F
<1> DEFINE map == Append(a.map, a.folder)
<1>2. /\ map \in Seq(Int) /\ Len(map) = k + 1 /\ map[k + 1] = a.folder
      /\ \A i \in 1..k : map[i] = a.map[i]
  BY <1>1 DEF IsFill
<1>3. \E f, n : /\ q = [folder |-> f, inFolder |-> n, map |-> map, res |-> "ok", start |-> a.start]
                /\ n \in Nat
                /\ \/ f = a.folder + 1 /\ n = 0
                   \/ f = a.folder /\ n # 0
  <2>1. a = [folder |-> a.folder, inFolder |-> a.inFolder, map |-> a.map, res |-> "ok",
             start |-> a.start]
    BY <1>1 DEF IsFill
  <2>2. a.inFolder \in Nat
    BY <1>1 DEF IsFill
  <2> DEFINE p == [a EXCEPT !.map = Append(@, a.folder)]
  <2>7. p = [folder |-> a.folder, inFolder |-> a.inFolder, map |-> map, res |-> "ok",
             start |-> a.start]
    <3> HIDE DEF map
    <3>1. p = [a EXCEPT !.map = map]
      BY DEF map
    <3> HIDE DEF p
    <3> QED
      BY <2>1, <3>1
  <2>3. \/ ~items[k + 1].hasStream /\ q = p
        \/ q = [p EXCEPT !.inFolder = 0, !.folder = p.folder + 1]
        \/ q = [p EXCEPT !.inFolder = p.inFolder + 1]
    BY DEF Placed
  <2> HIDE DEF map, p
  <2>8. p.folder = a.folder /\ p.inFolder = a.inFolder
    BY <2>7
  <2>4. CASE ~items[k + 1].hasStream /\ q = p
    BY <2>2, <2>4, <2>7
  <2>5. CASE q = [p EXCEPT !.inFolder = 0, !.folder = p.folder + 1]
    <3>1. q = [folder |-> a.folder + 1, inFolder |-> 0, map |-> map, res |-> "ok",
               start |-> a.start]
      BY <2>5, <2>7, <2>8
    <3> QED
      BY <3>1
  <2>6. CASE q = [p EXCEPT !.inFolder = p.inFolder + 1]
    <3>1. q = [folder |-> a.folder, inFolder |-> a.inFolder + 1, map |-> map, res |-> "ok",
               start |-> a.start]
      BY <2>6, <2>7, <2>8
    <3>2. a.inFolder + 1 \in Nat /\ a.inFolder + 1 # 0
      BY <2>2
    <3> QED
      BY <3>1, <3>2
  <2> QED
    BY <2>3, <2>4, <2>5, <2>6
<1> HIDE DEF map
<1>4. PICK f, n : /\ q = [folder |-> f, inFolder |-> n, map |-> map, res |-> "ok", start |-> a.start]
                  /\ n \in Nat
                  /\ \/ f = a.folder + 1 /\ n = 0
                     \/ f = a.folder /\ n # 0
  BY <1>3
<1>5. IsFill(q, k + 1)
  BY <1>1, <1>2, <1>4 DEF IsFill
<1>6. ASSUME NEW i \in 1..(k + 1) PROVE WentTo(q, items, i, a.folder)
  <2>1. CASE i = k + 1
    BY <1>1, <1>2, <1>4, <2>1 DEF WentTo
  <2>2. CASE i # k + 1
    <3>1. i \in 1..k
      BY <2>2
    <3>2. WentTo(a, items, i, a.folder) /\ map[i] = a.map[i]
      BY <1>1, <1>2, <3>1
    <3> QED
      BY <1>4, <3>2 DEF WentTo
  <2> QED
    BY <2>1, <2>2
<1>7. CASE f = a.folder + 1 /\ n = 0
  <2>1. q.inFolder = 0 /\ q.folder - 1 = a.folder
    BY <1>1, <1>4, <1>7
  <2> QED
    BY <1>5, <1>6, <2>1 DEF GoodFill
<1>8. CASE f = a.folder /\ n # 0
  <2>1. q.inFolder # 0 /\ q.folder = a.folder /\ q.start = a.start
    BY <1>4, <1>8
  <2>2. a.start[a.folder + 1] \in 1..(k + 1 + 1)
    BY <1>1
  <2>3. InFolder(q, items, k + 1)
    BY <1>1, <1>5, <1>6, <2>1, <2>2 DEF InFolder
  <2> QED
    BY <1>5, <2>1, <2>3 DEF GoodFill
<1> QED
  BY <1>4, <1>7, <1>8

LEMMA FillFileIs ==
    ASSUME db.folders \in Seq(FolderSet), NEW a, NEW items, NEW k \in Nat,
           GoodFill(a, items, k), NEW q, q = FillFile(a, items[k + 1])
    PROVE  q.res = "archive" \/ GoodFill(q, items, k + 1)
<1>1. IsFill(a, k) /\ Len(a.map) + 1 = k + 1 /\ a.res = "ok"
  BY DEF GoodFill, IsFill
<1>2. CASE ~items[k + 1].hasStream /\ a.inFolder = 0
  <2>1. q = [a EXCEPT !.map = Append(a.map, NoFolder)]
    BY <1>1, <1>2 DEF FillFile
  <2> DEFINE map == Append(a.map, NoFolder)
  <2>2. /\ map \in Seq(Int) /\ Len(map) = k + 1 /\ map[k + 1] = NoFolder
        /\ \A i \in 1..k : map[i] = a.map[i]
    BY <1>1 DEF IsFill, NoFolder
  <2> HIDE DEF map
  <2>3. q = [folder |-> a.folder, inFolder |-> a.inFolder, map |-> map, res |-> "ok",
             start |-> a.start]
    BY <1>1, <2>1 DEF IsFill, map
  <2>8. q.folder = a.folder /\ q.map = map /\ q.start = a.start
    BY <2>3
  <2>4. IsFill(q, k + 1)
    BY <1>1, <2>2, <2>3 DEF IsFill
  <2>5. \A i \in 1..k : WentTo(a, items, i, a.folder - 1)
    BY <1>2 DEF GoodFill
  <2>6. ASSUME NEW i \in 1..(k + 1) PROVE WentTo(q, items, i, q.folder - 1)
    <3>1. CASE i = k + 1
      BY <1>2, <2>2, <2>3, <3>1 DEF WentTo
    <3>2. CASE i # k + 1
      <4>1. i \in 1..k
        BY <3>2
      <4>2. WentTo(a, items, i, a.folder - 1) /\ map[i] = a.map[i]
        BY <2>2, <2>5, <4>1
      <4> QED
        BY <2>8, <4>2 DEF WentTo
    <3> QED
      BY <3>1, <3>2
  <2>7. q.inFolder = 0
    BY <1>2, <2>3
  <2> QED
    BY <2>4, <2>6, <2>7 DEF GoodFill
<1>3. CASE items[k + 1].hasStream /\ a.inFolder = 0
  <2>1. PICK p : p = NextFolder(a, k + 1)
    OBVIOUS
  <2>2. p.res = "archive" \/ InFolder(p, items, k)
    BY <1>3, <2>1, NextFolderIs
  <2>3. q = IF p.res # "ok" THEN p ELSE Placed(p, items[k + 1])
    BY <1>1, <1>3, <2>1 DEF FillFile
  <2>4. CASE p.res = "archive"
    BY <2>3, <2>4
  <2>5. CASE InFolder(p, items, k)
    <3>1. p.res = "ok"
      BY <2>5 DEF InFolder, IsFill
    <3> QED
      BY <1>3, <2>3, <2>5, <3>1, PlacedIs
  <2> QED
    BY <2>2, <2>4, <2>5
<1>4. CASE a.inFolder # 0
  <2>1. InFolder(a, items, k)
    BY <1>4 DEF GoodFill
  <2>2. q = Placed(a, items[k + 1])
    BY <1>1, <1>4 DEF FillFile
  <2> QED
    BY <1>4, <2>1, <2>2, PlacedIs
<1> QED
  BY <1>2, <1>3, <1>4

LEMMA FilledIs ==
    ASSUME db.folders \in Seq(FolderSet), NEW n \in Nat, NEW items, DOMAIN items = 1..n,
           NEW a, a = Filled(items)
    PROVE  a.res = "archive" \/ GoodFill(a, items, n)
<1> DEFINE base == [folder |-> 0, inFolder |-> 0, map |-> << >>, res |-> "ok",
                    start |-> [j \in DOMAIN db.folders |-> 0]]
<1>1. a = Folds!Fold(<<"fill">>, base, items)
  BY DEF Filled, Folds!Fold, FoldOp, FoldLeft, MapThenFoldSet,
         Folds!FoldLeft, Folds!MapThenFoldSet, Max, Folds!Max
<1>2. GoodFill(base, items, 0)
  BY DEF GoodFill, IsFill, F
<1> HIDE DEF base
<1>3. PICK g : Folds!Steps(g, <<"fill">>, base, items, n)
  BY Folds!FoldSteps
<1>4. g[0] = base /\ a = g[n] /\ \A k \in 1..n : g[k] = FillFile(g[k - 1], items[k])
  BY <1>1, <1>3 DEF Folds!Steps, FoldOp
<1> DEFINE S == {k \in 0..n : g[k].res = "archive" \/ GoodFill(g[k], items, k)}
<1>5. 0 \in S
  BY <1>2, <1>4
<1>6. ASSUME NEW k \in 1..n, k - 1 \in S PROVE k \in S
  <2>1. PICK m \in Nat : m = k - 1
    OBVIOUS
  <2>2. k = m + 1 /\ g[k] = FillFile(g[m], items[m + 1])
    BY <1>4, <2>1
  <2>3. CASE g[m].res = "archive"
    <3>1. g[k] = g[m]
      BY <2>2, <2>3 DEF FillFile
    <3> QED
      BY <2>3, <3>1
  <2>4. CASE GoodFill(g[m], items, m)
    BY <2>2, <2>4, FillFileIs
  <2> QED
    BY <1>6, <2>1, <2>3, <2>4
<1>7. n \in S
  <2> HIDE DEF S
  <2>1. n \in 0..n
    OBVIOUS
  <2> QED
    BY <1>5, <1>6, <2>1, Folds!Induction
<1> QED
  BY <1>4, <1>7

-----------------------------------------------------------------------------
(***************************************************************************)
(* The inductive invariant.                                                *)
(***************************************************************************)
DbSet == [dataPos: Nat, packSizes: Seq(Nat), packCrcs: Seq(Seq(Nat)),
          folders: Seq(SizedFolders)]

StreamsFit ==
    /\ streams = [sizes |-> streams.sizes, digests |-> streams.digests,
                  listed |-> streams.listed, type |-> streams.type]
    /\ streams.type \in Nat
    /\ Len(streams.digests) = Len(streams.sizes)

FilesFit ==
    /\ files = [num |-> files.num, names |-> files.names, emptyStream |-> files.emptyStream,
                emptyFile |-> files.emptyFile, mtime |-> files.mtime, attrib |-> files.attrib,
                items |-> files.items]
    /\ files.num \in Nat
    /\ files.emptyStream \in Seq(BOOLEAN)

ParsedFits ==
    /\ db \in DbSet /\ Len(db.packCrcs) = Len(db.packSizes)
    /\ StreamsFit
    /\ FilesFit

(* Each step but SubEnd and DecodePackedStreams reads something; the step  *)
(* before those has read for two.                                          *)
Owed == IF at \in {"digests", "decode"} THEN 1 ELSE 0

TurnsInv ==
    /\ turns \in Nat
    /\ at = "open" => turns = 0
    /\ at \notin {"open", "names", "done"} => turns + Owed <= 2 * Used + 1

(* Where the header is read.                                               *)
Before == {"open", "type", "header", "properties", "main", "files info", "streams",
           "pack", "unpack", "sub", "digests", "decode", "files"}

HeaderInv ==
    /\ sd \in Seq(Nat)
    /\ at = "open" => sd = << >> /\ encoded = "no"
    /\ at = "decode" => encoded = "packed"
    /\ at = "digests" => Len(streams.sizes) = NumUnpackStreams(db.folders)
    /\ at \in Before => fill = NoFill /\ files.items = << >>

IInv == TypeOK /\ HeaderInv /\ ParsedFits /\ TurnsInv

InLoops == Before \ {"open", "decode"}

LEMMA StartIs ==
    ASSUME IInv
    PROVE  IsReader(Start) /\ Start.sd = sd /\ ~Failed(Start)
BY DEF IInv, HeaderInv, Start, Reader, IsReader, Failed, Results

(* What is read next, and what is read behind it.                          *)
LEMMA IdIs ==
    ASSUME IInv, NEW id, id = SzReadID(Start)
    PROVE  /\ IsReader(id) /\ Keeps(Start, id) /\ id.v \in Nat /\ id.res # "none"
           /\ ~Failed(id) => Len(id.sd) < Len(sd)
<1>1. Gives(Start, id, Nat) /\ Takes(Start, id) /\ id.v \in Nat
  BY StartIs, SzReadNumberIs DEF SzReadID
<1> QED
  BY <1>1, StartIs DEF Gives, Keeps, Takes, IsReader, Results

LEMMA BehindIs ==
    ASSUME IInv, NEW id, id = SzReadID(Start), ~Failed(id), NEW r, Keeps(id, r)
    PROVE  /\ r.sd \in Seq(Nat) /\ Len(r.sd) < Len(sd) /\ r.res # "none"
<1>1. IsReader(id) /\ Len(id.sd) < Len(sd) /\ Len(sd) \in Nat
  BY IdIs DEF IInv, HeaderInv
<1>2. IsReader(r) /\ Len(r.sd) <= Len(id.sd) /\ Len(r.sd) \in Nat /\ Len(id.sd) \in Nat
  BY <1>1 DEF Keeps, IsReader
<1> QED
  BY <1>1, <1>2 DEF IsReader, Results

LEMMA NothingIs ==
    /\ NoDb \in DbSet /\ NoDb.packCrcs = << >> /\ NoDb.packSizes = << >> /\ NoDb.folders = << >>
    /\ NoStreams.type \in Nat /\ NoStreams.digests = << >> /\ NoStreams.sizes = << >>
    /\ NoFiles.items = << >> /\ NoFiles.num = 0 /\ NoFiles.emptyStream = << >>
    /\ NoFill.map = << >>
BY DEF NoDb, NoStreams, NoFiles, NoFill, DbSet, k7zIdEnd

LEMMA Refusing ==
    ASSUME IInv, at \in Before, NEW why, why # "none", Refuse(why), turns' = turns + 1
    PROVE  IInv'
<1>1. /\ at' = "done" /\ result' = why /\ sd' = << >> /\ db' = NoDb /\ streams' = NoStreams
      /\ files' = NoFiles /\ file' = file /\ encoded' = encoded /\ fill' = fill
  BY DEF Refuse
<1>2. fill = NoFill
  BY DEF IInv, HeaderInv
<1>3. TypeOK'
  <2>1. Len(fill'.map) = Len(files'.items) /\ DOMAIN fill'.map = {}
    BY <1>1, <1>2, NothingIs
  <2>2. Len(db'.packCrcs) = Len(db'.packSizes) /\ Len(streams'.digests) = Len(streams'.sizes)
    BY <1>1, NothingIs
  <2> QED
    BY <1>1, <2>1, <2>2 DEF IInv, TypeOK
<1>4. HeaderInv'
  <2>1. at' \notin Before /\ at' \notin {"open", "decode", "digests"}
    BY <1>1 DEF Before
  <2>2. << >> \in Seq(Nat)
    OBVIOUS
  <2> QED
    BY <1>1, <2>1, <2>2 DEF HeaderInv
<1>5. ParsedFits'
  <2>1. StreamsFit'
    BY <1>1, NothingIs DEF StreamsFit, NoStreams
  <2>2. FilesFit'
    BY <1>1, NothingIs DEF FilesFit, NoFiles
  <2> QED
    BY <1>1, <2>1, <2>2, NothingIs DEF ParsedFits
<1>6. TurnsInv'
  BY <1>1 DEF TurnsInv, IInv
<1> QED
  BY <1>3, <1>4, <1>5, <1>6 DEF IInv

LEMMA HeadersAre ==
    ASSUME file \in Files, file' = file, encoded' = "decoded" <=> encoded = "decoded"
    PROVE  \E all \in Nat : Used = all - Len(sd) /\ Used' = all - Len(sd')
<1>1. PICK hdr, bytes : hdr = file.next /\ bytes = file.packed.bytes
  OBVIOUS
<1>2. hdr \in Seq(Nat) /\ bytes \in Seq(Nat)
  BY <1>1, FilesAssumption
<1>3. PICK m \in Nat, n \in Nat : m = Len(hdr) /\ n = Len(bytes)
  BY <1>2
<1>4. /\ Used = m + (IF encoded = "decoded" THEN n ELSE 0) - Len(sd)
      /\ Used' = m + (IF encoded = "decoded" THEN n ELSE 0) - Len(sd')
  BY <1>1, <1>3 DEF Used
<1>5. m + (IF encoded = "decoded" THEN n ELSE 0) \in Nat
  OBVIOUS
<1> QED
  BY <1>4, <1>5

(* A step that reads something and goes on.                                *)
LEMMA Going ==
    ASSUME IInv, at \in InLoops, turns' = turns + 1,
           sd' \in Seq(Nat), Len(sd') < Len(sd), file' = file, fill' = fill,
           at' \in (Before \ {"open"}) \cup {"done"}, result' = "none" <=> at' # "done",
           encoded' = encoded \/ (encoded = "no" /\ encoded' = "packed"),
           at' = "decode" => encoded' = "packed",
           at' = "digests" => Len(streams'.sizes) = NumUnpackStreams(db'.folders),
           files'.items = files.items, ParsedFits'
    PROVE  IInv'
<1>1. fill = NoFill /\ files.items = << >>
  BY DEF IInv, HeaderInv, InLoops
<1>2. TypeOK'
  <2>1. Len(fill'.map) = Len(files'.items) /\ DOMAIN fill'.map = {}
    BY <1>1, NothingIs
  <2>2. Len(db'.packCrcs) = Len(db'.packSizes) /\ Len(streams'.digests) = Len(streams'.sizes)
    BY DEF ParsedFits, StreamsFit
  <2>3. file' \in Files /\ encoded' \in {"no", "packed", "decoded"}
    BY DEF IInv, TypeOK
  <2> QED
    BY <2>1, <2>2, <2>3 DEF TypeOK, Before
<1>3. HeaderInv'
  <2>1. at' \in Before => fill' = NoFill /\ files'.items = << >>
    BY <1>1
  <2> QED
    BY <2>1 DEF HeaderInv
<1>4. TurnsInv'
  <2>1. Used \in Int /\ Used' \in Int /\ Used' >= Used + 1
    <3>1. file \in Files /\ file' = file /\ (encoded' = "decoded" <=> encoded = "decoded")
      BY DEF IInv, TypeOK
    <3>2. \E all \in Nat : Used = all - Len(sd) /\ Used' = all - Len(sd')
      BY <3>1, HeadersAre
    <3>3. Len(sd) \in Nat /\ Len(sd') \in Nat
      BY DEF IInv, HeaderInv
    <3> QED
      BY <3>2, <3>3
  <2>2. turns \in Nat /\ turns + Owed <= 2 * Used + 1 /\ Owed \in {0, 1}
    <3>1. at \notin {"open", "names", "done"}
      BY DEF InLoops, Before
    <3> QED
      BY <3>1 DEF IInv, TurnsInv, Owed
  <2>3. turns' \in Nat /\ turns' <= 2 * Used'
    <3>1. PICK u \in Int, v \in Int, t \in Nat, o \in {0, 1} :
            u = Used /\ v = Used' /\ t = turns /\ o = Owed
      BY <2>1, <2>2
    <3>2. v >= u + 1 /\ t + o <= 2 * u + 1
      BY <2>1, <2>2, <3>1
    <3>3. t + 1 <= 2 * v
      BY <3>2
    <3>4. turns' = t + 1
      BY <3>1
    <3>5. turns' \in Nat /\ turns' <= 2 * v
      BY <3>3, <3>4
    <3> QED
      BY <3>1, <3>5
  <2>8. Owed' \in {0, 1}
    BY DEF Owed
  <2>9. turns' \in Nat /\ turns' + Owed' <= 2 * Used' + 1
    BY <2>1, <2>3, <2>8
  <2>10. at' # "open"
    BY DEF Before
  <2> QED
    BY <2>9, <2>10 DEF TurnsInv
<1> QED
  BY <1>2, <1>3, <1>4 DEF IInv

(* What was parsed stays.                                                  *)
LEMMA Moving ==
    ASSUME IInv, at \in InLoops, turns' = turns + 1,
           sd' \in Seq(Nat), Len(sd') < Len(sd), UNCHANGED <<file, fill, parsed>>,
           at' \in ((Before \ {"open", "digests"}) \cup {"done", at}),
           result' = "none" <=> at' # "done",
           encoded' = encoded \/ (encoded = "no" /\ encoded' = "packed"),
           at' = "decode" => encoded' = "packed"
    PROVE  IInv'
<1>1. db' = db /\ streams' = streams /\ files' = files
  BY DEF parsed
<1>2. ParsedFits'
  BY <1>1 DEF IInv, ParsedFits, StreamsFit, FilesFit
<1>3. at' = "digests" => Len(streams'.sizes) = NumUnpackStreams(db'.folders)
  BY <1>1 DEF IInv, HeaderInv
<1> QED
  BY <1>1, <1>2, <1>3, Going DEF InLoops

LEMMA UnexpectedIs ==
    ASSUME IInv, NEW place \in Before, NEW ids, NEW why, why # "none", Unexpected(place, ids, why),
           turns' = turns + 1
    PROVE  IInv'
<1>1. PICK id : id = SzReadID(Start)
  OBVIOUS
<1>2. at = place /\ (Refuse(id.res) \/ Refuse(why))
  BY <1>1 DEF Unexpected
<1> QED
  BY <1>1, <1>2, IdIs, Refusing

LEMMA SkippingIs ==
    ASSUME IInv, NEW place \in InLoops, NEW ids, Skipping(place, ids), turns' = turns + 1
    PROVE  IInv'
<1>1. PICK id : id = SzReadID(Start)
  OBVIOUS
<1>2. PICK r : r = SzSkeepData(id)
  OBVIOUS
<1>3. /\ at = place
      /\ \/ Failed(id) /\ Refuse(id.res)
         \/ ~Failed(id) /\ Failed(r) /\ Refuse(r.res)
         \/ /\ ~Failed(id) /\ sd' = r.sd
            /\ UNCHANGED <<file, at, encoded, parsed, fill, names, result>>
  BY <1>1, <1>2 DEF Skipping
<1>4. Keeps(id, r)
  BY <1>1, <1>2, IdIs, SzSkeepDataIs
<1>5. at \in Before /\ at \in InLoops
  BY <1>3 DEF InLoops
<1>6. CASE Failed(id) /\ Refuse(id.res)
  BY <1>1, <1>5, <1>6, IdIs, Refusing
<1>7. CASE ~Failed(id) /\ Refuse(r.res)
  BY <1>1, <1>4, <1>5, <1>7, BehindIs, Refusing
<1>8. CASE ~Failed(id) /\ sd' = r.sd /\ UNCHANGED <<file, at, encoded, parsed, fill, names, result>>
  <2>1. sd' \in Seq(Nat) /\ Len(sd') < Len(sd)
    BY <1>1, <1>4, <1>8, BehindIs
  <2>2. at' = at /\ result' = result /\ encoded' = encoded
    BY <1>8
  <2>3. (result' = "none" <=> at' # "done") /\ (at' = "decode" => encoded' = "packed")
    BY <2>2 DEF IInv, TypeOK, HeaderInv
  <2> QED
    BY <1>5, <1>8, <2>1, <2>2, <2>3, Moving
<1> QED
  BY <1>3, <1>6, <1>7, <1>8

-----------------------------------------------------------------------------
(***************************************************************************)
(* The steps that go from one loop to another.                             *)
(***************************************************************************)
Moved(place, target) ==
    /\ at = place
    /\ ~Failed(SzReadID(Start)) /\ sd' = SzReadID(Start).sd
    /\ Opened(target)
    /\ UNCHANGED <<file, fill, parsed>>

LEMMA MovedIs ==
    ASSUME IInv, NEW place \in InLoops, NEW target \in (Before \ {"open", "digests"}) \cup {"done"},
           Moved(place, target), turns' = turns + 1,
           encoded' = encoded \/ (encoded = "no" /\ encoded' = "packed"),
           target = "decode" => encoded' = "packed"
    PROVE  IInv'
<1>1. PICK id : id = SzReadID(Start)
  OBVIOUS
<1>2. at = place /\ ~Failed(id) /\ sd' = id.sd
  BY <1>1 DEF Moved
<1>3. Keeps(id, id)
  BY <1>1, IdIs, KeepsSelf
<1>4. sd' \in Seq(Nat) /\ Len(sd') < Len(sd)
  BY <1>1, <1>2, <1>3, BehindIs
<1>5. at' = target /\ (result' = "none" <=> at' # "done")
  <2>1. at # "done"
    BY <1>2 DEF InLoops, Before
  <2>2. result = "none"
    BY <2>1 DEF IInv, TypeOK
  <2> QED
    BY <2>2 DEF Moved, Opened
<1>6. UNCHANGED <<file, fill, parsed>>
  BY DEF Moved
<1> QED
  BY <1>2, <1>4, <1>5, <1>6, Moving

(* The database changes, and what is told of files does not.               *)
LEMMA DbChanges ==
    ASSUME IInv, db' \in DbSet, Len(db'.packCrcs) = Len(db'.packSizes),
           streams' = streams, files' = files
    PROVE  ParsedFits' /\ files'.items = files.items
BY DEF IInv, ParsedFits, StreamsFit, FilesFit

LEMMA StreamsInfoIs ==
    ASSUME IInv, at \in InLoops, turns' = turns + 1,
           NEW id, id = SzReadID(Start), ~Failed(id), sd' = id.sd, file' = file,
           NEW how, how = encoded \/ (encoded = "no" /\ how = "packed"), StreamsInfo(how)
    PROVE  IInv'
<1>1. PICK old \in Nat : db' = [db EXCEPT !.dataPos = old]
  BY FilesAssumption DEF StreamsInfo
<1>2. /\ at' = "streams" /\ result' = result /\ encoded' = how
      /\ streams' = streams /\ files' = files /\ fill' = fill
  BY DEF StreamsInfo, Opened
<1>3. db' \in DbSet /\ Len(db'.packCrcs) = Len(db'.packSizes)
  <2>1. db \in DbSet /\ Len(db.packCrcs) = Len(db.packSizes)
    BY DEF IInv, ParsedFits
  <2> QED
    BY <1>1, <2>1 DEF DbSet
<1>4. ParsedFits' /\ files'.items = files.items
  BY <1>2, <1>3, DbChanges
<1>5. sd' \in Seq(Nat) /\ Len(sd') < Len(sd)
  BY IdIs, KeepsSelf, BehindIs
<1>6. at' \in (Before \ {"open"}) \cup {"done"} /\ (result' = "none" <=> at' # "done")
  BY <1>2 DEF IInv, TypeOK, InLoops, Before
<1>7. at' # "decode" /\ at' # "digests"
  BY <1>2
<1> QED
  BY <1>2, <1>4, <1>5, <1>6, <1>7, Going

LEMMA HeaderIDs ==
    ASSUME IInv, EncodedHeader \/ Header \/ OtherHeader \/ ArchiveProperties, turns' = turns + 1
    PROVE  IInv'
<1>1. CASE EncodedHeader
  <2>1. PICK id : id = SzReadID(Start)
    OBVIOUS
  <2>2. /\ at = "type" /\ encoded = "no" /\ ~Failed(id) /\ sd' = id.sd /\ file' = file
        /\ StreamsInfo("packed")
    BY <1>1, <2>1 DEF EncodedHeader, Reading, NoMore
  <2>3. at \in InLoops
    BY <2>2 DEF InLoops, Before
  <2> QED
    BY <2>1, <2>2, <2>3, StreamsInfoIs
<1>2. CASE Header
  <2>1. Moved("type", "header") /\ encoded' = encoded
    BY <1>2 DEF Header, Reading, NoMore, Goto, Moved, parsed
  <2> QED
    BY <2>1, MovedIs DEF InLoops, Before
<1>3. CASE OtherHeader
  <2>1. "type" \in Before /\ "unsupported" # "none"
    BY DEF Before
  <2> QED
    BY <1>3, <2>1, UnexpectedIs DEF OtherHeader
<1>4. CASE ArchiveProperties
  <2>1. Moved("header", "properties") /\ encoded' = encoded
    BY <1>4 DEF ArchiveProperties, Reading, NoMore, Goto, Moved, parsed
  <2> QED
    BY <2>1, MovedIs DEF InLoops, Before
<1> QED
  BY <1>1, <1>2, <1>3, <1>4

LEMMA ArchivePropertyKeeps ==
    ASSUME IInv, ArchiveProperty, turns' = turns + 1
    PROVE  IInv'
<1>1. PICK id : id = SzReadID(Start)
  OBVIOUS
<1>2. /\ at = "properties"
      /\ \/ Failed(id) /\ Refuse(id.res)
         \/ /\ ~Failed(id)
            /\ sd' = IF id.v = k7zIdEnd THEN id.sd ELSE SzSkeepData(id).sd
            /\ Goto(IF id.v = k7zIdEnd THEN "main" ELSE at) /\ UNCHANGED <<file, names>>
  BY <1>1 DEF ArchiveProperty
<1>3. at \in Before /\ at \in InLoops
  BY <1>2 DEF InLoops, Before
<1>4. CASE Failed(id) /\ Refuse(id.res)
  BY <1>1, <1>3, <1>4, IdIs, Refusing
<1>5. CASE /\ ~Failed(id)
           /\ sd' = IF id.v = k7zIdEnd THEN id.sd ELSE SzSkeepData(id).sd
           /\ Goto(IF id.v = k7zIdEnd THEN "main" ELSE at) /\ UNCHANGED <<file, names>>
  <2>1. Keeps(id, id) /\ Keeps(id, SzSkeepData(id))
    BY <1>1, IdIs, KeepsSelf, SzSkeepDataIs
  <2>2. sd' \in Seq(Nat) /\ Len(sd') < Len(sd)
    BY <1>1, <1>2, <1>5, <2>1, BehindIs
  <2>3. /\ at' \in {"main", "properties"} /\ result' = result /\ encoded' = encoded
        /\ UNCHANGED <<file, fill, parsed>>
    BY <1>2, <1>5 DEF Goto, Opened
  <2>4. at' \in Before \ {"open", "digests"} /\ (result' = "none" <=> at' # "done")
        /\ at' # "decode"
    <3>1. result = "none"
      BY <1>2 DEF IInv, TypeOK
    <3> QED
      BY <2>3, <3>1 DEF Before
  <2> QED
    BY <1>3, <2>2, <2>3, <2>4, Moving
<1> QED
  BY <1>2, <1>4, <1>5

LEMMA InfoIDs ==
    ASSUME IInv, MainStreamsInfo \/ NoFilesInfo \/ NoInfo \/ StreamsEnd \/ NoStream \/ EndOfLoop,
           turns' = turns + 1
    PROVE  IInv'
<1>1. CASE MainStreamsInfo
  <2>1. PICK id : id = SzReadID(Start)
    OBVIOUS
  <2>2. /\ at \in {"header", "main"} /\ ~Failed(id) /\ sd' = id.sd /\ file' = file
        /\ StreamsInfo(encoded)
    BY <1>1, <2>1 DEF MainStreamsInfo, Reading, NoMore
  <2>3. at \in InLoops
    BY <2>2 DEF InLoops, Before
  <2> QED
    BY <2>1, <2>2, <2>3, StreamsInfoIs
<1>2. CASE NoFilesInfo
  <2>1. PICK place \in {"header", "main", "files info"} :
          Moved(place, "done") /\ encoded' = encoded
    BY <1>2 DEF NoFilesInfo, Reading, NoMore, Goto, Moved, parsed
  <2> QED
    BY <2>1, MovedIs DEF InLoops, Before
<1>3. CASE NoInfo
  <2>1. \A place \in {"header", "main", "files info"} : place \in Before
    BY DEF Before
  <2>2. "archive" # "none"
    OBVIOUS
  <2> QED
    BY <1>3, <2>1, <2>2, UnexpectedIs DEF NoInfo
<1>4. CASE StreamsEnd
  <2>1. PICK target : target = IF encoded = "packed" THEN "decode" ELSE "files info"
    OBVIOUS
  <2>2. Moved("streams", target) /\ encoded' = encoded
    BY <1>4, <2>1 DEF StreamsEnd, Reading, NoMore, Goto, Moved, parsed
  <2> QED
    BY <2>1, <2>2, MovedIs DEF InLoops, Before
<1>5. CASE NoStream
  <2>1. "streams" \in Before /\ "unsupported" # "none"
    BY DEF Before
  <2> QED
    BY <1>5, <2>1, UnexpectedIs DEF NoStream
<1>6. CASE EndOfLoop
  <2>1. PICK place \in {"pack", "unpack"} : Moved(place, "streams") /\ encoded' = encoded
    BY <1>6 DEF EndOfLoop, Reading, NoMore, Goto, Moved, parsed
  <2> QED
    BY <2>1, MovedIs DEF InLoops, Before
<1> QED
  BY <1>1, <1>2, <1>3, <1>4, <1>5, <1>6

LEMMA SkipKeeps ==
    ASSUME IInv, Skip \/ OtherProperty, turns' = turns + 1
    PROVE  IInv'
<1>1. \A place \in {"pack", "unpack", "sub", "files"} : place \in InLoops
  BY DEF InLoops, Before
<1> QED
  BY <1>1, SkippingIs DEF Skip, OtherProperty

LEMMA OpenKeeps ==
    ASSUME IInv, Open, turns' = turns + 1
    PROVE  IInv'
<1>1. at = "open" /\ at \in Before /\ turns = 0 /\ encoded = "no" /\ result = "none"
      /\ file \in Files /\ fill = NoFill /\ files.items = << >>
  BY DEF Open, Before, IInv, TypeOK, HeaderInv, TurnsInv
<1>2. CASE Refusal # "ok"
  <2>1. Refusal # "none"
    BY DEF Refusal
  <2> QED
    BY <1>1, <1>2, <2>1, Refusing DEF Open
<1>3. CASE Refusal = "ok"
  <2>1. /\ sd' = file.next /\ UNCHANGED <<file, encoded, db, streams, files, fill, names>>
        /\ at' \in {"done", "type"} /\ (result' = "none" <=> at' # "done")
    BY <1>1, <1>3 DEF Open, Opened, parsed
  <2>2. sd' \in Seq(Nat) /\ Len(file.next) \in Nat
    BY <1>1, <2>1, FilesAssumption
  <2>3. TypeOK'
    <3>1. Len(fill'.map) = Len(files'.items) /\ DOMAIN fill'.map = {}
      BY <1>1, <2>1, NothingIs
    <3> QED
      BY <2>1, <3>1 DEF IInv, TypeOK
  <2>4. HeaderInv'
    BY <1>1, <2>1, <2>2 DEF HeaderInv
  <2>5. ParsedFits'
    BY <2>1 DEF IInv, ParsedFits, StreamsFit, FilesFit
  <2>6. TurnsInv'
    <3>1. Used' = 0
      <4>1. Used' = Len(file.next) + 0 - Len(file.next)
        BY <1>1, <2>1 DEF Used
      <4> QED
        BY <2>2, <4>1
    <3>2. turns' = 1 /\ at' # "open" /\ Owed' = 0
      BY <1>1, <2>1 DEF Owed
    <3> QED
      BY <3>1, <3>2 DEF TurnsInv
  <2> QED
    BY <2>3, <2>4, <2>5, <2>6 DEF IInv
<1> QED
  BY <1>2, <1>3

-----------------------------------------------------------------------------
(***************************************************************************)
(* The steps that read something behind an ID.                             *)
(***************************************************************************)
LEMMA ReadingOn ==
    ASSUME IInv, at \in InLoops, turns' = turns + 1,
           NEW id, id = SzReadID(Start), ~Failed(id), NEW r, Keeps(id, r),
           NEW target \in InLoops,
           \/ Failed(r) /\ Refuse(r.res)
           \/ /\ sd' = r.sd /\ Opened(target) /\ UNCHANGED <<file, encoded, fill>>
              /\ files'.items = files.items /\ ParsedFits'
              /\ target = "digests" => Len(streams'.sizes) = NumUnpackStreams(db'.folders)
    PROVE  IInv'
<1>1. r.sd \in Seq(Nat) /\ Len(r.sd) < Len(sd) /\ r.res # "none"
  BY BehindIs
<1>2. CASE Failed(r) /\ Refuse(r.res)
  BY <1>1, <1>2, Refusing DEF InLoops
<1>3. CASE /\ sd' = r.sd /\ Opened(target) /\ UNCHANGED <<file, encoded, fill>>
           /\ files'.items = files.items /\ ParsedFits'
           /\ target = "digests" => Len(streams'.sizes) = NumUnpackStreams(db'.folders)
  <2>1. target # "done" /\ at # "done" /\ target \in Before \ {"open"} /\ target # "decode"
    BY DEF InLoops, Before
  <2>2. at' = target /\ result' = "none"
    BY <1>3, <2>1 DEF Opened, IInv, TypeOK
  <2>3. at' \in (Before \ {"open"}) \cup {"done"} /\ (result' = "none" <=> at' # "done")
        /\ at' # "decode" /\ encoded' = encoded /\ file' = file /\ fill' = fill
    BY <1>3, <2>1, <2>2
  <2> QED
    BY <1>1, <1>3, <2>2, <2>3, Going
<1> QED
  BY <1>2, <1>3

LEMMA FilesInfoKeeps ==
    ASSUME IInv, FilesInfo, turns' = turns + 1
    PROVE  IInv'
<1>1. PICK id : id = SzReadID(Start)
  OBVIOUS
<1>2. PICK r : r = SzReadNumber32(id)
  OBVIOUS
<1>3. /\ at \in {"header", "main", "files info"} /\ ~Failed(id)
      /\ \/ Failed(r) /\ Refuse(r.res)
         \/ /\ ~Failed(r) /\ sd' = r.sd /\ files' = [files EXCEPT !.num = r.v]
            /\ Opened("files") /\ UNCHANGED <<encoded, db, streams, fill, file, names>>
  BY <1>1, <1>2 DEF FilesInfo, Reading
<1>4. Keeps(id, r) /\ r.v \in Nat
  BY <1>1, <1>2, IdIs, SzReadNumber32Is DEF Gives
<1>5. at \in InLoops /\ "files" \in InLoops /\ "files" # "digests"
  BY <1>3 DEF InLoops, Before
<1>6. CASE Failed(r) /\ Refuse(r.res)
  BY <1>1, <1>3, <1>4, <1>5, <1>6, ReadingOn
<1>7. CASE /\ ~Failed(r) /\ sd' = r.sd /\ files' = [files EXCEPT !.num = r.v]
           /\ Opened("files") /\ UNCHANGED <<encoded, db, streams, fill, file, names>>
  <2>1. FilesFit /\ files' = [files EXCEPT !.num = r.v]
    BY <1>7 DEF IInv, ParsedFits
  <2>2. FilesFit' /\ files'.items = files.items
    <3>1. PICK n \in Nat : n = r.v
      BY <1>4
    <3>2. files' = [num |-> n, names |-> files.names, emptyStream |-> files.emptyStream,
                    emptyFile |-> files.emptyFile, mtime |-> files.mtime,
                    attrib |-> files.attrib, items |-> files.items]
      BY <2>1, <3>1 DEF FilesFit
    <3> QED
      BY <2>1, <3>2 DEF FilesFit
  <2>3. ParsedFits'
    BY <1>7, <2>2 DEF IInv, ParsedFits, StreamsFit
  <2> QED
    BY <1>1, <1>3, <1>4, <1>5, <1>7, <2>2, <2>3, ReadingOn
<1> QED
  BY <1>3, <1>6, <1>7

LEMMA PackInfoKeeps ==
    ASSUME IInv, PackInfoStart \/ PackCrcs, turns' = turns + 1
    PROVE  IInv'
<1>1. PICK id : id = SzReadID(Start)
  OBVIOUS
<1>2. IsReader(id)
  BY <1>1, IdIs
<1>3. db \in DbSet /\ Len(db.packCrcs) = Len(db.packSizes)
  BY DEF IInv, ParsedFits
<1>4. CASE PackInfoStart
  <2>1. PICK r : r = PackPrefix(id)
    OBVIOUS
  <2>2. /\ at = "streams" /\ ~Failed(id)
        /\ \/ Failed(r) /\ Refuse(r.res)
           \/ /\ ~Failed(r) /\ sd' = r.sd
              /\ db' = [db EXCEPT !.dataPos = r.v.dataPos, !.packSizes = r.v.sizes,
                                  !.packCrcs = [i \in DOMAIN r.v.sizes |-> << >>]]
              /\ Opened("pack") /\ UNCHANGED <<encoded, streams, files, fill, file, names>>
    BY <1>1, <1>4, <2>1 DEF PackInfoStart, Reading
  <2>3. Keeps(id, r) /\ (~Failed(r) => r.v \in PackInfo)
    BY <1>2, <2>1, PackPrefixIs DEF Gives
  <2>4. at \in InLoops /\ "pack" \in InLoops /\ "pack" # "digests"
    BY <2>2 DEF InLoops, Before
  <2>5. CASE Failed(r) /\ Refuse(r.res)
    BY <1>1, <2>2, <2>3, <2>4, <2>5, ReadingOn
  <2>6. CASE ~(Failed(r) /\ Refuse(r.res))
    <3>1. PICK offset \in Nat, sizes \in Seq(Nat) : offset = r.v.dataPos /\ sizes = r.v.sizes
      BY <2>2, <2>3, <2>6 DEF PackInfo
    <3>2. db' = [db EXCEPT !.dataPos = offset, !.packSizes = sizes,
                           !.packCrcs = [i \in DOMAIN sizes |-> << >>]]
      BY <2>2, <2>6, <3>1
    <3>3. PICK crcs : crcs = [i \in DOMAIN sizes |-> << >>]
      OBVIOUS
    <3>4. crcs \in Seq(Seq(Nat)) /\ Len(crcs) = Len(sizes)
      <4>1. PICK n \in Nat : n = Len(sizes)
        OBVIOUS
      <4>2. << >> \in Seq(Nat) /\ DOMAIN sizes = 1..n
        BY <4>1
      <4>3. crcs \in [1..n -> Seq(Nat)]
        BY <3>3, <4>2
      <4> QED
        BY <4>1, <4>3, ListIsSeq
    <3>5. db' \in DbSet /\ Len(db'.packCrcs) = Len(db'.packSizes)
      <4>1. db' = [db EXCEPT !.dataPos = offset, !.packSizes = sizes, !.packCrcs = crcs]
        BY <3>2, <3>3
      <4>2. db'.packCrcs = crcs /\ db'.packSizes = sizes /\ db' \in DbSet
        BY <1>3, <3>4, <4>1 DEF DbSet
      <4> QED
        BY <3>4, <4>2
    <3>6. ParsedFits' /\ files'.items = files.items
      BY <2>2, <2>6, <3>5, DbChanges
    <3> QED
      BY <1>1, <2>2, <2>3, <2>4, <2>6, <3>6, ReadingOn
  <2> QED
    BY <2>5, <2>6
<1>5. CASE PackCrcs
  <2>1. PICK n \in Nat : n = Len(db.packSizes)
    BY <1>3 DEF DbSet
  <2>2. PICK r : r = SzReadHashDigests(id, n)
    OBVIOUS
  <2>3. /\ at = "pack" /\ ~Failed(id)
        /\ \/ Failed(r) /\ Refuse(r.res)
           \/ /\ ~Failed(r) /\ sd' = r.sd
              /\ db' = [db EXCEPT !.packCrcs = r.v]
              /\ Opened("pack") /\ UNCHANGED <<encoded, streams, files, fill, file, names>>
    BY <1>1, <1>5, <2>1, <2>2 DEF PackCrcs, Reading
  <2>4. Keeps(id, r) /\ (~Failed(r) => r.v \in [1..n -> Seq(Nat)])
    BY <1>2, <2>2, SzReadHashDigestsIs DEF Gives
  <2>5. at \in InLoops /\ "pack" \in InLoops /\ "pack" # "digests"
    BY <2>3 DEF InLoops, Before
  <2>6. CASE Failed(r) /\ Refuse(r.res)
    BY <1>1, <2>3, <2>4, <2>5, <2>6, ReadingOn
  <2>7. CASE ~(Failed(r) /\ Refuse(r.res))
    <3>1. PICK crcs : crcs = r.v
      OBVIOUS
    <3>2. crcs \in Seq(Seq(Nat)) /\ Len(crcs) = n
      BY <2>3, <2>4, <2>7, <3>1, ListIsSeq
    <3>3. db' = [db EXCEPT !.packCrcs = crcs]
      BY <2>3, <2>7, <3>1
    <3>4. db'.packCrcs = crcs /\ db'.packSizes = db.packSizes /\ db' \in DbSet
      BY <1>3, <3>2, <3>3 DEF DbSet
    <3>5. ParsedFits' /\ files'.items = files.items
      BY <2>1, <2>3, <2>7, <3>2, <3>4, DbChanges
    <3> QED
      BY <1>1, <2>3, <2>4, <2>5, <2>7, <3>5, ReadingOn
  <2> QED
    BY <2>6, <2>7
<1> QED
  BY <1>4, <1>5

(* A folder keeps its coders and sizes when it gets a checksum or a number *)
(* of files.                                                               *)
LEMMA FolderChanges ==
    ASSUME NEW f \in SizedFolders, NEW crc \in Seq(Nat), NEW num \in Nat
    PROVE  [f EXCEPT !.crc = crc] \in SizedFolders /\ [f EXCEPT !.num = num] \in SizedFolders
<1>1. f \in FolderSet /\ f.sizes \in [1..NumOut(f.coders) -> Nat]
  BY DEF SizedFolders
<1>2. PICK n : n = NumOut(f.coders)
  OBVIOUS
<1>3. f = [coders |-> f.coders, bindPairs |-> f.bindPairs, packStreams |-> f.packStreams,
           sizes |-> f.sizes, crc |-> f.crc, num |-> f.num]
  BY <1>1 DEF FolderSet
<1>4. PICK c, d : c = [f EXCEPT !.crc = crc] /\ d = [f EXCEPT !.num = num]
  OBVIOUS
<1>5. c \in FolderSet /\ c.coders = f.coders /\ c.sizes = f.sizes
  BY <1>1, <1>4 DEF FolderSet
<1>6. d \in FolderSet /\ d.coders = f.coders /\ d.sizes = f.sizes
  BY <1>1, <1>4 DEF FolderSet
<1> QED
  BY <1>1, <1>4, <1>5, <1>6 DEF SizedFolders

LEMMA WithCrcsIs ==
    ASSUME NEW folders \in Seq(SizedFolders), NEW n, n = Len(folders), NEW crcs \in [1..n -> Seq(Nat)]
    PROVE  WithCrcs(folders, crcs) \in Seq(SizedFolders)
<1>1. n \in Nat /\ DOMAIN folders = 1..n /\ \A i \in 1..n : folders[i] \in SizedFolders
  OBVIOUS
<1>2. PICK l : l = WithCrcs(folders, crcs)
  OBVIOUS
<1>3. l = [i \in 1..n |-> [folders[i] EXCEPT !.crc = crcs[i]]]
  BY <1>1, <1>2 DEF WithCrcs
<1>4. \A i \in 1..n : [folders[i] EXCEPT !.crc = crcs[i]] \in SizedFolders
  <2>1. 0 \in Nat
    OBVIOUS
  <2> QED
    BY <1>1, <2>1, FolderChanges
<1>5. l \in [1..n -> SizedFolders]
  BY <1>3, <1>4
<1> QED
  BY <1>1, <1>2, <1>5, ListIsSeq

LEMMA WithNumsIs ==
    ASSUME NEW folders \in Seq(SizedFolders), NEW n, n = Len(folders), NEW nums \in [1..n -> Nat]
    PROVE  WithNums(folders, nums) \in Seq(SizedFolders)
<1>1. n \in Nat /\ DOMAIN folders = 1..n /\ \A i \in 1..n : folders[i] \in SizedFolders
  OBVIOUS
<1>2. PICK l : l = WithNums(folders, nums)
  OBVIOUS
<1>3. l = [i \in 1..n |-> [folders[i] EXCEPT !.num = nums[i]]]
  BY <1>1, <1>2 DEF WithNums
<1>4. \A i \in 1..n : [folders[i] EXCEPT !.num = nums[i]] \in SizedFolders
  <2>1. << >> \in Seq(Nat)
    OBVIOUS
  <2> QED
    BY <1>1, <2>1, FolderChanges
<1>5. l \in [1..n -> SizedFolders]
  BY <1>3, <1>4
<1> QED
  BY <1>1, <1>2, <1>5, ListIsSeq

(* A step that reads folders and goes on.                                  *)
LEMMA SettingFolders ==
    ASSUME IInv, at \in InLoops, turns' = turns + 1,
           NEW id, id = SzReadID(Start), ~Failed(id), NEW r, Keeps(id, r),
           NEW target \in InLoops \ {"digests"}, NEW folders,
           \/ Failed(r) /\ Refuse(r.res)
           \/ /\ ~Failed(r) /\ sd' = r.sd /\ SetFolders(folders, target) /\ file' = file,
           ~Failed(r) => folders \in Seq(SizedFolders)
    PROVE  IInv'
<1>1. CASE Failed(r) /\ Refuse(r.res)
  BY <1>1, ReadingOn
<1>2. CASE ~Failed(r) /\ sd' = r.sd /\ SetFolders(folders, target) /\ file' = file
  <2>1. db \in DbSet /\ Len(db.packCrcs) = Len(db.packSizes)
    BY DEF IInv, ParsedFits
  <2>2. /\ db' = [db EXCEPT !.folders = folders] /\ Opened(target)
        /\ UNCHANGED <<encoded, streams, files, fill>>
    BY <1>2 DEF SetFolders
  <2>3. db' \in DbSet /\ db'.packCrcs = db.packCrcs /\ db'.packSizes = db.packSizes
    BY <1>2, <2>1, <2>2 DEF DbSet
  <2>4. ParsedFits' /\ files'.items = files.items
    BY <2>1, <2>2, <2>3, DbChanges
  <2> QED
    BY <1>2, <2>2, <2>4, ReadingOn
<1> QED
  BY <1>1, <1>2

LEMMA UnpackInfoKeeps ==
    ASSUME IInv, UnpackInfoStart \/ UnpackCrcs, turns' = turns + 1
    PROVE  IInv'
<1>1. PICK id : id = SzReadID(Start)
  OBVIOUS
<1>2. IsReader(id)
  BY <1>1, IdIs
<1>3. db.folders \in Seq(SizedFolders)
  BY DEF IInv, ParsedFits, DbSet
<1>4. CASE UnpackInfoStart
  <2>1. PICK r : r = UnpackPrefix(id)
    OBVIOUS
  <2>2. /\ at = "streams" /\ ~Failed(id)
        /\ \/ Failed(r) /\ Refuse(r.res)
           \/ /\ ~Failed(r) /\ sd' = r.sd /\ SetFolders(r.v, "unpack") /\ file' = file
    BY <1>1, <1>4, <2>1 DEF UnpackInfoStart, Reading
  <2>3. Keeps(id, r) /\ (~Failed(r) => r.v \in Seq(SizedFolders))
    BY <1>2, <2>1, UnpackPrefixIs DEF Gives
  <2>4. at \in InLoops /\ "unpack" \in InLoops \ {"digests"}
    BY <2>2 DEF InLoops, Before
  <2> QED
    BY <1>1, <2>2, <2>3, <2>4, SettingFolders
<1>5. CASE UnpackCrcs
  <2>1. PICK n \in Nat : n = Len(db.folders)
    BY <1>3
  <2>2. PICK r : r = SzReadHashDigests(id, n)
    OBVIOUS
  <2>3. PICK folders : folders = WithCrcs(db.folders, r.v)
    OBVIOUS
  <2>4. /\ at = "unpack" /\ ~Failed(id)
        /\ \/ Failed(r) /\ Refuse(r.res)
           \/ /\ ~Failed(r) /\ sd' = r.sd /\ SetFolders(folders, "unpack") /\ file' = file
    BY <1>1, <1>5, <2>1, <2>2, <2>3 DEF UnpackCrcs, Reading
  <2>5. Keeps(id, r) /\ (~Failed(r) => r.v \in [1..n -> Seq(Nat)])
    BY <1>2, <2>2, SzReadHashDigestsIs DEF Gives
  <2>6. ~Failed(r) => folders \in Seq(SizedFolders)
    BY <1>3, <2>1, <2>3, <2>5, WithCrcsIs
  <2>7. at \in InLoops /\ "unpack" \in InLoops \ {"digests"}
    BY <2>4 DEF InLoops, Before
  <2> QED
    BY <1>1, <2>4, <2>5, <2>6, <2>7, SettingFolders
<1> QED
  BY <1>4, <1>5

LEMMA SubNumbersKeep ==
    ASSUME IInv, SubStreamsStart \/ SubNumbers, turns' = turns + 1
    PROVE  IInv'
<1>1. PICK id : id = SzReadID(Start)
  OBVIOUS
<1>2. IsReader(id) /\ Keeps(id, id)
  BY <1>1, IdIs, KeepsSelf
<1>3. db.folders \in Seq(SizedFolders)
  BY DEF IInv, ParsedFits, DbSet
<1>4. PICK n \in Nat : n = Len(db.folders)
  BY <1>3
<1>5. CASE SubStreamsStart
  <2>1. PICK ones : ones = [i \in 1..n |-> 1]
    OBVIOUS
  <2>2. PICK folders : folders = WithNums(db.folders, ones)
    OBVIOUS
  <2>3. folders = [i \in DOMAIN db.folders |-> [db.folders[i] EXCEPT !.num = 1]]
    <3>1. DOMAIN db.folders = 1..n
      BY <1>3, <1>4
    <3>2. \A i \in 1..n : [db.folders[i] EXCEPT !.num = ones[i]] = [db.folders[i] EXCEPT !.num = 1]
      BY <2>1
    <3> QED
      BY <2>2, <3>1, <3>2 DEF WithNums
  <2>4. /\ at = "streams" /\ ~Failed(id) /\ sd' = id.sd /\ SetFolders(folders, "sub")
        /\ file' = file
    BY <1>1, <1>5, <2>3 DEF SubStreamsStart, Reading, NoMore
  <2>5. folders \in Seq(SizedFolders)
    <3>1. ones \in [1..n -> Nat]
      BY <2>1
    <3> QED
      BY <1>3, <1>4, <2>2, <3>1, WithNumsIs
  <2>6. at \in InLoops /\ "sub" \in InLoops \ {"digests"}
    BY <2>4 DEF InLoops, Before
  <2> QED
    BY <1>1, <1>2, <2>4, <2>5, <2>6, SettingFolders
<1>6. CASE SubNumbers
  <2>1. PICK r : r = Numbers32(id, n)
    OBVIOUS
  <2>2. PICK folders : folders = WithNums(db.folders, r.v)
    OBVIOUS
  <2>3. /\ at = "sub" /\ ~Failed(id)
        /\ \/ Failed(r) /\ Refuse(r.res)
           \/ /\ ~Failed(r) /\ sd' = r.sd /\ SetFolders(folders, "sub") /\ file' = file
    BY <1>1, <1>4, <1>6, <2>1, <2>2 DEF SubNumbers, Reading
  <2>4. Keeps(id, r) /\ (~Failed(r) => r.v \in [1..n -> Nat])
    BY <1>2, <2>1, Numbers32Is DEF Gives
  <2>5. ~Failed(r) => folders \in Seq(SizedFolders)
    BY <1>3, <1>4, <2>2, <2>4, WithNumsIs
  <2>6. at \in InLoops /\ "sub" \in InLoops \ {"digests"}
    BY <2>3 DEF InLoops, Before
  <2> QED
    BY <1>1, <2>3, <2>4, <2>5, <2>6, SettingFolders
<1> QED
  BY <1>5, <1>6

(* The number of files that the folders say they have.                     *)
LEMMA StreamsAre ==
    ASSUME IInv
    PROVE  db.folders \in Seq(FolderSet) /\ NumUnpackStreams(db.folders) \in Nat
<1>1. db.folders \in Seq(SizedFolders)
  BY DEF IInv, ParsedFits, DbSet
<1>2. SizedFolders \subseteq FolderSet
  BY DEF SizedFolders
<1>3. PICK folders : folders = db.folders
  OBVIOUS
<1>4. folders \in Seq(FolderSet)
  BY <1>1, <1>2, <1>3
<1>5. NumUnpackStreams(folders) \in Nat
  BY <1>4, NumsAre
<1> QED
  BY <1>3, <1>4, <1>5

LEMMA SubSizesKeep ==
    ASSUME IInv, SubSizes, turns' = turns + 1
    PROVE  IInv'
<1>1. PICK id : id = SzReadID(Start)
  OBVIOUS
<1>2. PICK r : r = Sizes(id)
  OBVIOUS
<1>3. PICK n \in Nat : n = NumUnpackStreams(db.folders)
  BY StreamsAre
<1>4. /\ at = "sub" /\ ~Failed(id)
      /\ \/ Failed(r) /\ Refuse(r.res)
         \/ /\ ~Failed(r) /\ sd' = r.sd /\ file' = file
            /\ \E old \in Memory :
                 streams' = [sizes |-> Places(r.v.sizes, old), type |-> r.v.type, listed |-> FALSE,
                             digests |-> [i \in 1..n |-> << >>]]
            /\ Opened("digests") /\ UNCHANGED <<encoded, db, files, fill>>
  BY <1>1, <1>2, <1>3 DEF SubSizes, Reading
<1>5. Keeps(id, r) /\ (~Failed(r) => r.v.type \in Nat)
  <2>1. db.folders \in Seq(SizedFolders)
    BY DEF IInv, ParsedFits, DbSet
  <2> QED
    BY <1>1, <1>2, <2>1, IdIs, SizesAre
<1>6. at \in InLoops /\ "digests" \in InLoops
  BY <1>4 DEF InLoops, Before
<1>7. CASE Failed(r) /\ Refuse(r.res)
  BY <1>1, <1>4, <1>5, <1>6, <1>7, ReadingOn
<1>8. CASE ~(Failed(r) /\ Refuse(r.res))
  <2>1. PICK old \in Memory :
          streams' = [sizes |-> Places(r.v.sizes, old), type |-> r.v.type, listed |-> FALSE,
                      digests |-> [i \in 1..n |-> << >>]]
    BY <1>4, <1>8
  <2>9. PICK type \in Nat : type = r.v.type
    BY <1>4, <1>5, <1>8
  <2>2. PICK sizes, digests :
          sizes = Places(r.v.sizes, old) /\ digests = [i \in 1..n |-> << >>]
    OBVIOUS
  <2>3. Len(sizes) = n /\ Len(digests) = n
    <3>1. sizes = [i \in 1..n |-> IF i \in DOMAIN r.v.sizes THEN r.v.sizes[i] ELSE old]
      BY <1>3, <2>2 DEF Places
    <3> QED
      BY <2>2, <3>1
  <2>4. streams' = [sizes |-> sizes, type |-> type, listed |-> FALSE, digests |-> digests]
    BY <2>1, <2>2, <2>9
  <2>5. StreamsFit' /\ Len(streams'.sizes) = NumUnpackStreams(db'.folders)
    BY <1>3, <1>4, <1>8, <2>3, <2>4 DEF StreamsFit
  <2>6. ParsedFits'
    BY <1>4, <1>8, <2>5 DEF IInv, ParsedFits, FilesFit
  <2> QED
    BY <1>1, <1>4, <1>5, <1>6, <1>8, <2>5, <2>6, ReadingOn
<1> QED
  BY <1>7, <1>8

(* A turn of the last loop: the next ID is read behind what r has read.    *)
LEMMA DigestsTurnKeeps ==
    ASSUME IInv, at = "digests", turns' = turns + 1,
           NEW r, Keeps(Start, r), NEW digests, NEW listed,
           \/ Failed(r) /\ Refuse(r.res)
           \/ \E id \in {SzReadID(r)} :
                \/ Failed(id) /\ Refuse(id.res)
                \/ /\ ~Failed(id) /\ sd' = id.sd
                   /\ streams' = [streams EXCEPT !.type = id.v, !.digests = digests,
                                                 !.listed = listed]
                   /\ UNCHANGED <<file, at, encoded, db, files, fill, names, result>>,
           ~Failed(r) => Len(digests) = Len(streams.sizes)
    PROVE  IInv'
<1>1. at \in Before /\ at \in InLoops
  BY DEF InLoops, Before
<1>2. IsReader(r) /\ Len(r.sd) <= Len(sd) /\ r.res # "none"
  BY StartIs DEF Keeps, IsReader, Results
<1>3. CASE Failed(r) /\ Refuse(r.res)
  BY <1>1, <1>2, <1>3, Refusing
<1>4. CASE \E id \in {SzReadID(r)} :
             \/ Failed(id) /\ Refuse(id.res)
             \/ /\ ~Failed(id) /\ sd' = id.sd
                /\ streams' = [streams EXCEPT !.type = id.v, !.digests = digests,
                                              !.listed = listed]
                /\ UNCHANGED <<file, at, encoded, db, files, fill, names, result>>
  <2>1. PICK id : id = SzReadID(r)
    OBVIOUS
  <2>2. Gives(r, id, Nat) /\ Takes(r, id)
    BY <1>2, <2>1, SzReadNumberIs DEF SzReadID
  <2>3. IsReader(id) /\ id.res # "none" /\ (Failed(r) => Failed(id))
    BY <2>2 DEF Gives, Keeps, IsReader, Results
  <2>4. CASE Failed(id) /\ Refuse(id.res)
    BY <1>1, <2>3, <2>4, Refusing
  <2>5. CASE /\ ~Failed(id) /\ sd' = id.sd
             /\ streams' = [streams EXCEPT !.type = id.v, !.digests = digests,
                                           !.listed = listed]
             /\ UNCHANGED <<file, at, encoded, db, files, fill, names, result>>
    <3>1. PICK type \in Nat : type = id.v
      BY <2>2, <2>5 DEF Gives
    <3>2. sd' \in Seq(Nat) /\ Len(sd') < Len(sd)
      <4>1. Len(id.sd) \in Nat /\ Len(r.sd) \in Nat /\ Len(sd) \in Nat
        BY <1>2, <2>3 DEF IsReader, IInv, HeaderInv
      <4> QED
        BY <1>2, <2>2, <2>3, <2>5, <4>1 DEF Takes, IsReader
    <3>3. StreamsFit
      BY DEF IInv, ParsedFits
    <3>4. streams' = [sizes |-> streams.sizes, digests |-> digests, listed |-> listed,
                      type |-> type]
      <4>1. streams' = [streams EXCEPT !.type = type, !.digests = digests, !.listed = listed]
        BY <2>5, <3>1
      <4> QED
        BY <3>3, <4>1 DEF StreamsFit
    <3>5. StreamsFit' /\ streams'.sizes = streams.sizes
      <4>1. Len(digests) = Len(streams.sizes)
        BY <2>3, <2>5
      <4>2. PICK sizes : sizes = streams.sizes
        OBVIOUS
      <4>3. streams' = [sizes |-> sizes, digests |-> digests, listed |-> listed, type |-> type]
        BY <3>4, <4>2
      <4>4. /\ streams'.sizes = sizes /\ streams'.digests = digests
            /\ streams'.listed = listed /\ streams'.type = type
        BY <4>3
      <4> QED
        BY <4>1, <4>2, <4>3, <4>4 DEF StreamsFit
    <3>6. ParsedFits'
      BY <2>5, <3>5 DEF IInv, ParsedFits, FilesFit
    <3>7. Len(streams'.sizes) = NumUnpackStreams(db'.folders)
      BY <2>5, <3>5 DEF IInv, HeaderInv
    <3>8. /\ at' \in (Before \ {"open"}) \cup {"done"} /\ (result' = "none" <=> at' # "done")
          /\ at' # "decode" /\ encoded' = encoded /\ fill' = fill /\ file' = file
          /\ files'.items = files.items
      BY <2>5 DEF IInv, TypeOK, Before
    <3> QED
      BY <1>1, <3>2, <3>6, <3>7, <3>8, Going
  <2> QED
    BY <1>4, <2>1, <2>4, <2>5
<1> QED
  BY <1>3, <1>4

LEMMA DigestsKeep ==
    ASSUME IInv, SubDigests \/ SubOther, turns' = turns + 1
    PROVE  IInv'
<1>1. at = "digests" /\ IsReader(Start)
  BY StartIs DEF SubDigests, SubOther
<1>2. /\ db.folders \in Seq(FolderSet) /\ Len(streams.digests) = Len(streams.sizes)
      /\ Len(streams.sizes) = NumUnpackStreams(db.folders)
  BY <1>1, StreamsAre DEF IInv, TypeOK, HeaderInv
<1>3. CASE SubDigests
  <2>1. PICK m : m = NumDigests(db.folders)
    OBVIOUS
  <2>2. m \in Nat
    <3>1. PICK folders : folders = db.folders
      OBVIOUS
    <3>2. NumDigests(folders) \in Nat
      BY <1>2, <3>1, NumsAre
    <3> QED
      BY <2>1, <3>1, <3>2
  <2>3. PICK r : r = OnlyList(SzReadHashDigests(Start, m))
    OBVIOUS
  <2>4. Keeps(Start, r) /\ (~Failed(r) => r.v \in [1..m -> Seq(Nat)])
    <3>1. PICK q : q = SzReadHashDigests(Start, m)
      OBVIOUS
    <3>2. Keeps(Start, q) /\ IsReader(q) /\ (~Failed(q) => q.v \in [1..m -> Seq(Nat)])
      BY <1>1, <2>2, <3>1, SzReadHashDigestsIs DEF Gives, Keeps
    <3>3. Keeps(q, Refused(q, "undefined")) /\ Failed(Refused(q, "undefined"))
      BY <3>2, RefusedIs DEF Results
    <3>4. r = q \/ r = Refused(q, "undefined")
      BY <2>3, <3>1 DEF OnlyList
    <3> QED
      BY <1>1, <3>2, <3>3, <3>4, KeepsOn DEF IsReader
  <2>8. PICK listed : listed = TRUE
    OBVIOUS
  <2>5. PICK digests : digests = Distributed(db.folders, r.v)
    OBVIOUS
  <2>6. ~Failed(r) => Len(digests) = Len(streams.sizes)
    BY <1>2, <2>1, <2>4, <2>5, DistributedIs
  <2>7. \/ Failed(r) /\ Refuse(r.res)
        \/ \E id \in {SzReadID(r)} :
             \/ Failed(id) /\ Refuse(id.res)
             \/ /\ ~Failed(id) /\ sd' = id.sd
                /\ streams' = [streams EXCEPT !.type = id.v, !.digests = digests,
                                              !.listed = listed]
                /\ UNCHANGED <<file, at, encoded, db, files, fill, names, result>>
    BY <1>3, <2>1, <2>3, <2>5, <2>8 DEF SubDigests, DigestsTurn
  <2> QED
    BY <1>1, <2>4, <2>6, <2>7, DigestsTurnKeeps
<1>4. CASE SubOther
  <2>1. PICK r : r = SzSkeepData(Start)
    OBVIOUS
  <2>2. PICK digests, listed : digests = streams.digests /\ listed = streams.listed
    OBVIOUS
  <2>3. Keeps(Start, r)
    BY <1>1, <2>1, SzSkeepDataIs
  <2>4. \/ Failed(r) /\ Refuse(r.res)
        \/ \E id \in {SzReadID(r)} :
             \/ Failed(id) /\ Refuse(id.res)
             \/ /\ ~Failed(id) /\ sd' = id.sd
                /\ streams' = [streams EXCEPT !.type = id.v, !.digests = digests,
                                              !.listed = listed]
                /\ UNCHANGED <<file, at, encoded, db, files, fill, names, result>>
    BY <1>4, <2>1, <2>2 DEF SubOther, DigestsTurn
  <2> QED
    BY <1>1, <1>2, <2>2, <2>3, <2>4, DigestsTurnKeeps
<1> QED
  BY <1>3, <1>4

-----------------------------------------------------------------------------
(***************************************************************************)
(* The two steps that read nothing: the step before has read for them.     *)
(***************************************************************************)
LEMMA SubEndKeeps ==
    ASSUME IInv, SubEnd, turns' = turns + 1
    PROVE  IInv'
<1>1. /\ at = "digests" /\ at' = "streams" /\ result' = result
      /\ file' = file /\ sd' = sd /\ encoded' = encoded /\ fill' = fill
      /\ db' = db /\ streams' = streams /\ files' = files
  BY DEF SubEnd, Goto, Opened, parsed
<1>2. TypeOK'
  BY <1>1 DEF IInv, TypeOK, IsPlaced
<1>3. HeaderInv'
  BY <1>1 DEF IInv, HeaderInv, Before
<1>4. ParsedFits'
  BY <1>1 DEF IInv, ParsedFits, StreamsFit, FilesFit
<1>5. TurnsInv'
  <2>1. Used' = Used
    BY <1>1 DEF Used
  <2>2. PICK u : u = Used
    OBVIOUS
  <2>3. turns \in Nat /\ turns + 1 <= 2 * u + 1
    BY <1>1, <2>2 DEF IInv, TurnsInv, Owed
  <2>4. Owed' = 0 /\ turns' = turns + 1
    BY <1>1 DEF Owed
  <2>5. turns' \in Nat /\ turns' + Owed' <= 2 * Used' + 1
    BY <2>1, <2>2, <2>3, <2>4
  <2> QED
    BY <1>1, <2>5 DEF TurnsInv
<1> QED
  BY <1>2, <1>3, <1>4, <1>5 DEF IInv

LEMMA DecodePackedStreamsKeeps ==
    ASSUME IInv, DecodePackedStreams, turns' = turns + 1
    PROVE  IInv'
<1>1. at = "decode" /\ at \in Before /\ encoded = "packed" /\ result = "none"
  BY DEF DecodePackedStreams, Before, IInv, HeaderInv, TypeOK
<1>2. CASE Refuse("archive") \/ Refuse("undefined") \/ Refuse("data error") \/ Refuse("crc")
  <2>1. "archive" # "none" /\ "undefined" # "none" /\ "data error" # "none" /\ "crc" # "none"
    OBVIOUS
  <2> QED
    BY <1>1, <1>2, <2>1, Refusing
<1>3. CASE ~(Refuse("archive") \/ Refuse("undefined") \/ Refuse("data error") \/ Refuse("crc"))
  <2>1. /\ sd' = file.packed.bytes /\ encoded' = "decoded" /\ Opened("type")
        /\ db' = NoDb /\ streams' = NoStreams /\ UNCHANGED <<file, files, fill, names>>
    BY <1>3 DEF DecodePackedStreams
  <2>2. at' = "type" /\ result' = "none"
    BY <1>1, <2>1 DEF Opened
  <2>3. file \in Files /\ file.next \in Seq(Nat) /\ file.packed.bytes \in Seq(Nat)
    BY FilesAssumption DEF IInv, TypeOK
  <2>4. fill = NoFill /\ files.items = << >>
    BY <1>1 DEF IInv, HeaderInv
  <2>5. TypeOK'
    <3>1. Len(fill'.map) = Len(files'.items) /\ DOMAIN fill'.map = {}
      BY <2>1, <2>4, NothingIs
    <3>2. Len(db'.packCrcs) = Len(db'.packSizes) /\ Len(streams'.digests) = Len(streams'.sizes)
      BY <2>1, NothingIs
    <3> QED
      BY <2>1, <2>2, <2>3, <3>1, <3>2 DEF TypeOK
  <2>6. HeaderInv'
    BY <2>1, <2>2, <2>3, <2>4 DEF HeaderInv
  <2>7. ParsedFits'
    <3>1. StreamsFit'
      BY <2>1, NothingIs DEF StreamsFit, NoStreams
    <3>2. FilesFit'
      BY <2>1 DEF FilesFit, IInv, ParsedFits
    <3> QED
      BY <2>1, <3>1, <3>2, NothingIs DEF ParsedFits
  <2>8. TurnsInv'
    <3>1. PICK m \in Nat, k \in Nat, n \in Nat :
            m = Len(file.next) /\ k = Len(file.packed.bytes) /\ n = Len(sd)
      BY <2>3 DEF IInv, HeaderInv
    <3>2. Used = m - n /\ Used' = m
      <4>1. Used = m + 0 - n
        BY <1>1, <3>1 DEF Used
      <4>2. file' = file /\ Len(sd') = k /\ encoded' = "decoded"
        BY <2>1, <3>1
      <4>3. Used' = m + k - k
        BY <3>1, <4>2 DEF Used
      <4> QED
        BY <4>1, <4>3
    <3>3. turns \in Nat /\ turns + 1 <= 2 * (m - n) + 1
      BY <1>1, <3>2 DEF IInv, TurnsInv, Owed
    <3>4. Owed' = 0 /\ turns' = turns + 1
      BY <2>2 DEF Owed
    <3>5. turns' \in Nat /\ turns' + Owed' <= 2 * Used' + 1
      BY <3>2, <3>3, <3>4
    <3> QED
      BY <2>2, <3>5 DEF TurnsInv
  <2> QED
    BY <2>5, <2>6, <2>7, <2>8 DEF IInv
<1> QED
  BY <1>2, <1>3

-----------------------------------------------------------------------------
(***************************************************************************)
(* The properties of the files, and the steps behind the header.           *)
(***************************************************************************)
LEMMA FilesPropertyKeeps ==
    ASSUME IInv, at = "files", turns' = turns + 1,
           NEW id, id = SzReadID(Start), ~Failed(id),
           NEW n, n = SzReadNumber(id), NEW e, Keeps(n, e), NEW all,
           all = IF n.v > Len(n.sd) THEN Refused(n, "archive") ELSE e,
           \/ Failed(all) /\ Refuse(all.res)
           \/ /\ ~Failed(all) /\ sd' = all.sd /\ file' = file
              /\ Opened("files") /\ UNCHANGED <<encoded, db, streams, fill>>,
           ~Failed(all) => FilesFit' /\ files'.items = files.items
    PROVE  IInv'
<1>1. at \in InLoops /\ "files" \in InLoops /\ "files" # "digests"
  BY DEF InLoops, Before
<1>2. Keeps(id, all)
  BY IdIs, WithinSize
<1>3. CASE Failed(all) /\ Refuse(all.res)
  BY <1>1, <1>2, <1>3, ReadingOn
<1>4. CASE /\ ~Failed(all) /\ sd' = all.sd /\ file' = file
           /\ Opened("files") /\ UNCHANGED <<encoded, db, streams, fill>>
  <2>1. ParsedFits'
    BY <1>4 DEF IInv, ParsedFits, StreamsFit
  <2> QED
    BY <1>1, <1>2, <1>4, <2>1, ReadingOn
<1> QED
  BY <1>3, <1>4

(* What the reader behind the size is given, and one property is set.      *)
LEMMA OneProperty ==
    ASSUME IInv, NEW v,
           \/ files' = [files EXCEPT !.names = v]
           \/ files' = [files EXCEPT !.emptyStream = v] /\ v \in Seq(BOOLEAN)
           \/ files' = [files EXCEPT !.emptyFile = v]
           \/ files' = [files EXCEPT !.attrib = v]
           \/ files' = [files EXCEPT !.mtime = v]
    PROVE  FilesFit' /\ files'.items = files.items
<1>1. FilesFit
  BY DEF IInv, ParsedFits
<1>2. PICK num, nms, es, ef, mt, at1, its :
        /\ num = files.num /\ nms = files.names /\ es = files.emptyStream /\ ef = files.emptyFile
        /\ mt = files.mtime /\ at1 = files.attrib /\ its = files.items
  OBVIOUS
<1>3. files = [num |-> num, names |-> nms, emptyStream |-> es, emptyFile |-> ef,
               mtime |-> mt, attrib |-> at1, items |-> its]
      /\ num \in Nat /\ es \in Seq(BOOLEAN)
  BY <1>1, <1>2 DEF FilesFit
<1>4. CASE files' = [files EXCEPT !.names = v]
  <2>1. files' = [num |-> num, names |-> v, emptyStream |-> es, emptyFile |-> ef,
                  mtime |-> mt, attrib |-> at1, items |-> its]
    BY <1>3, <1>4
  <2> QED
    BY <1>2, <1>3, <2>1 DEF FilesFit
<1>5. CASE files' = [files EXCEPT !.emptyStream = v] /\ v \in Seq(BOOLEAN)
  <2>1. files' = [num |-> num, names |-> nms, emptyStream |-> v, emptyFile |-> ef,
                  mtime |-> mt, attrib |-> at1, items |-> its]
    BY <1>3, <1>5
  <2> QED
    BY <1>2, <1>3, <1>5, <2>1 DEF FilesFit
<1>6. CASE files' = [files EXCEPT !.emptyFile = v]
  <2>1. files' = [num |-> num, names |-> nms, emptyStream |-> es, emptyFile |-> v,
                  mtime |-> mt, attrib |-> at1, items |-> its]
    BY <1>3, <1>6
  <2> QED
    BY <1>2, <1>3, <2>1 DEF FilesFit
<1>7. CASE files' = [files EXCEPT !.attrib = v]
  <2>1. files' = [num |-> num, names |-> nms, emptyStream |-> es, emptyFile |-> ef,
                  mtime |-> mt, attrib |-> v, items |-> its]
    BY <1>3, <1>7
  <2> QED
    BY <1>2, <1>3, <2>1 DEF FilesFit
<1>8. CASE files' = [files EXCEPT !.mtime = v]
  <2>1. files' = [num |-> num, names |-> nms, emptyStream |-> es, emptyFile |-> ef,
                  mtime |-> v, attrib |-> at1, items |-> its]
    BY <1>3, <1>8
  <2> QED
    BY <1>2, <1>3, <2>1 DEF FilesFit
<1> QED
  BY <1>4, <1>5, <1>6, <1>7, <1>8

LEMMA FilesPropertiesKeep ==
    ASSUME IInv, Names \/ EmptyStreams \/ EmptyFiles \/ WinAttributes \/ MTime, turns' = turns + 1
    PROVE  IInv'
<1>1. PICK id : id = SzReadID(Start)
  OBVIOUS
<1>2. PICK n : n = SzReadNumber(id)
  OBVIOUS
<1>3. IsReader(id) /\ IsReader(n) /\ n.v \in Nat
  BY <1>1, <1>2, IdIs, SzReadNumberIs DEF Gives, Keeps
<1>4. files.num \in Nat /\ files.emptyStream \in Seq(BOOLEAN)
  BY DEF IInv, ParsedFits, FilesFit
<1> DEFINE Going1(all) == /\ ~Failed(all) /\ sd' = all.sd /\ file' = file
                          /\ Opened("files") /\ UNCHANGED <<encoded, db, streams, fill>>
           Within(e) == IF n.v > Len(n.sd) THEN Refused(n, "archive") ELSE e
<1>5. CASE Names
  <2>1. PICK e : e = NamesOf(n, n.v)
    OBVIOUS
  <2>2. PICK all : all = Within(e)
    OBVIOUS
  <2>3. /\ at = "files" /\ ~Failed(id)
        /\ \/ Failed(all) /\ Refuse(all.res)
           \/ Going1(all) /\ files' = [files EXCEPT !.names = all.v]
    BY <1>1, <1>2, <1>5, <2>1, <2>2 DEF Names, FilesProperty, Reading
  <2>4. Keeps(n, e)
    BY <1>3, <2>1, NamesOfKeep
  <2>5. CASE Failed(all) /\ Refuse(all.res)
    BY <1>1, <1>2, <2>2, <2>3, <2>4, <2>5, FilesPropertyKeeps
  <2>6. CASE Going1(all) /\ files' = [files EXCEPT !.names = all.v]
    <3>1. FilesFit' /\ files'.items = files.items
      BY <2>6, OneProperty
    <3> QED
      BY <1>1, <1>2, <2>2, <2>3, <2>4, <2>6, <3>1, FilesPropertyKeeps
  <2> QED
    BY <2>3, <2>5, <2>6
<1>6. CASE EmptyStreams
  <2>1. PICK e : e = SzReadBoolVector(n, files.num)
    OBVIOUS
  <2>2. PICK all : all = Within(e)
    OBVIOUS
  <2>3. /\ at = "files" /\ ~Failed(id)
        /\ \/ Failed(all) /\ Refuse(all.res)
           \/ Going1(all) /\ files' = [files EXCEPT !.emptyStream = all.v]
    BY <1>1, <1>2, <1>6, <2>1, <2>2 DEF EmptyStreams, FilesProperty, Reading
  <2>4. Keeps(n, e) /\ (~Failed(e) => e.v \in [1..files.num -> BOOLEAN])
    BY <1>3, <1>4, <2>1, SzReadBoolVectorIs DEF Gives
  <2>5. CASE Failed(all) /\ Refuse(all.res)
    BY <1>1, <1>2, <2>2, <2>3, <2>4, <2>5, FilesPropertyKeeps
  <2>6. CASE Going1(all) /\ files' = [files EXCEPT !.emptyStream = all.v]
    <3>1. all = e
      BY <1>2, <1>3, <2>2, <2>4, <2>6, WithinSize
    <3>2. all.v \in Seq(BOOLEAN)
      BY <1>4, <2>4, <2>6, <3>1, ListIsSeq
    <3>3. FilesFit' /\ files'.items = files.items
      BY <2>6, <3>2, OneProperty
    <3> QED
      BY <1>1, <1>2, <2>2, <2>3, <2>4, <2>6, <3>3, FilesPropertyKeeps
  <2> QED
    BY <2>3, <2>5, <2>6
<1>7. CASE EmptyFiles
  <2>1. PICK m : m = NumEmptyStreams
    OBVIOUS
  <2>2. m \in Nat
    <3>1. PICK k \in Nat : DOMAIN files.emptyStream = 1..k
      BY <1>4
    <3>2. {i \in DOMAIN files.emptyStream : files.emptyStream[i]} \in SUBSET (1..k)
      BY <3>1
    <3> QED
      BY <2>1, <3>2, CountIs DEF NumEmptyStreams
  <2>3. PICK e : e = SzReadBoolVector(n, m)
    OBVIOUS
  <2>4. PICK all : all = Within(e)
    OBVIOUS
  <2>5. /\ at = "files" /\ ~Failed(id)
        /\ \/ Failed(all) /\ Refuse(all.res)
           \/ Going1(all) /\ files' = [files EXCEPT !.emptyFile = all.v]
    BY <1>1, <1>2, <1>7, <2>1, <2>3, <2>4 DEF EmptyFiles, FilesProperty, Reading
  <2>6. Keeps(n, e)
    BY <1>3, <2>2, <2>3, SzReadBoolVectorIs DEF Gives
  <2>7. CASE Failed(all) /\ Refuse(all.res)
    BY <1>1, <1>2, <2>4, <2>5, <2>6, <2>7, FilesPropertyKeeps
  <2>8. CASE Going1(all) /\ files' = [files EXCEPT !.emptyFile = all.v]
    <3>1. FilesFit' /\ files'.items = files.items
      BY <2>8, OneProperty
    <3> QED
      BY <1>1, <1>2, <2>4, <2>5, <2>6, <2>8, <3>1, FilesPropertyKeeps
  <2> QED
    BY <2>5, <2>7, <2>8
<1>8. PICK q : q = SzReadBoolVector2(n, files.num)
  OBVIOUS
<1>9. CASE WinAttributes
  <2>1. PICK e : e = UInt32s(SzReadSwitch(q), q.v)
    OBVIOUS
  <2>2. PICK all : all = Within(e)
    OBVIOUS
  <2>3. /\ at = "files" /\ ~Failed(id)
        /\ \/ Failed(all) /\ Refuse(all.res)
           \/ Going1(all) /\ files' = [files EXCEPT !.attrib = all.v]
    BY <1>1, <1>2, <1>8, <1>9, <2>1, <2>2 DEF WinAttributes, FilesProperty, Reading
  <2>4. Keeps(n, e)
    BY <1>3, <1>4, <1>8, <2>1, AttributesKeep
  <2>5. CASE Failed(all) /\ Refuse(all.res)
    BY <1>1, <1>2, <2>2, <2>3, <2>4, <2>5, FilesPropertyKeeps
  <2>6. CASE Going1(all) /\ files' = [files EXCEPT !.attrib = all.v]
    <3>1. FilesFit' /\ files'.items = files.items
      BY <2>6, OneProperty
    <3> QED
      BY <1>1, <1>2, <2>2, <2>3, <2>4, <2>6, <3>1, FilesPropertyKeeps
  <2> QED
    BY <2>3, <2>5, <2>6
<1>10. CASE MTime
  <2>1. PICK e : e = Timed(SzReadSwitch(q), q.v)
    OBVIOUS
  <2>2. PICK all : all = Within(e)
    OBVIOUS
  <2>3. /\ at = "files" /\ ~Failed(id)
        /\ \/ Failed(all) /\ Refuse(all.res)
           \/ Going1(all) /\ files' = [files EXCEPT !.mtime = all.v]
    BY <1>1, <1>2, <1>8, <1>10, <2>1, <2>2 DEF MTime, FilesProperty, Reading
  <2>4. Keeps(n, e)
    BY <1>3, <1>4, <1>8, <2>1, AttributesKeep
  <2>5. CASE Failed(all) /\ Refuse(all.res)
    BY <1>1, <1>2, <2>2, <2>3, <2>4, <2>5, FilesPropertyKeeps
  <2>6. CASE Going1(all) /\ files' = [files EXCEPT !.mtime = all.v]
    <3>1. FilesFit' /\ files'.items = files.items
      BY <2>6, OneProperty
    <3> QED
      BY <1>1, <1>2, <2>2, <2>3, <2>4, <2>6, <3>1, FilesPropertyKeeps
  <2> QED
    BY <2>3, <2>5, <2>6
<1> QED
  BY <1>5, <1>6, <1>7, <1>9, <1>10

LEMMA FilesEndKeeps ==
    ASSUME IInv, FilesEnd, turns' = turns + 1
    PROVE  IInv'
<1>1. PICK id : id = SzReadID(Start)
  OBVIOUS
<1>2. PICK items : items = Items
  OBVIOUS
<1>3. PICK a : a = Filled(items)
  OBVIOUS
<1>4. PICK pack, start : /\ pack = SumsBefore(db.packSizes)
                         /\ start = SumsBefore([j \in DOMAIN db.folders |->
                                                  Len(db.folders[j].packStreams)])
  OBVIOUS
<1>5. /\ at = "files" /\ ~Failed(id)
      /\ \/ Refuse("undefined")
         \/ a.res # "ok" /\ Refuse(a.res)
         \/ /\ a.res = "ok" /\ files' = [files EXCEPT !.items = items]
            /\ fill' = [startFile |-> a.start, map |-> a.map, packPos |-> pack,
                        startPack |-> start]
            /\ sd' = id.sd /\ at' = "names"
            /\ UNCHANGED <<file, encoded, db, streams, names, result>>
  BY <1>1, <1>2, <1>3, <1>4 DEF FilesEnd
<1>6. PICK n \in Nat : n = files.num
  BY DEF IInv, ParsedFits, FilesFit
<1>7. DOMAIN items = 1..n /\ Len(items) = n
  <2>1. items = [i \in 1..n |-> Item(i)]
    BY <1>2, <1>6 DEF Items
  <2> QED
    BY <2>1
<1>8. a.res = "archive" \/ GoodFill(a, items, n)
  BY <1>3, <1>7, StreamsAre, FilledIs
<1>11. CASE Refuse("undefined")
  BY <1>5, <1>11, Refusing DEF Before
<1>9. CASE a.res # "ok" /\ Refuse(a.res)
  <2>1. a.res # "none"
    BY <1>8, <1>9 DEF GoodFill, IsFill
  <2> QED
    BY <1>5, <1>9, <2>1, Refusing DEF Before
<1>10. CASE /\ a.res = "ok" /\ files' = [files EXCEPT !.items = items]
            /\ fill' = [startFile |-> a.start, map |-> a.map, packPos |-> pack,
                        startPack |-> start]
            /\ sd' = id.sd /\ at' = "names"
            /\ UNCHANGED <<file, encoded, db, streams, names, result>>
  <2>1. IsFill(a, n) /\ \A i \in 1..n : \E last : WentTo(a, items, i, last)
    BY <1>8, <1>10 DEF GoodFill, InFolder
  <2>2. fill'.map = a.map /\ fill'.startFile = a.start
    BY <1>10
  <2>3. files'.items = items /\ FilesFit'
    <3>1. FilesFit
      BY DEF IInv, ParsedFits
    <3>2. PICK num, nms, es, ef, mt, at1 :
            /\ num = files.num /\ nms = files.names /\ es = files.emptyStream
            /\ ef = files.emptyFile /\ mt = files.mtime /\ at1 = files.attrib
      OBVIOUS
    <3>3. files' = [num |-> num, names |-> nms, emptyStream |-> es, emptyFile |-> ef,
                    mtime |-> mt, attrib |-> at1, items |-> items]
      BY <1>10, <3>1, <3>2 DEF FilesFit
    <3>4. num \in Nat /\ es \in Seq(BOOLEAN)
      BY <3>1, <3>2 DEF FilesFit
    <3> QED
      BY <3>3, <3>4 DEF FilesFit
  <2>4. DOMAIN a.map = 1..n /\ Len(a.map) = n
    BY <2>1 DEF IsFill
  <2>5. \A i \in 1..n : IsPlaced(i)'
    <3> SUFFICES ASSUME NEW i \in 1..n PROVE IsPlaced(i)'
      OBVIOUS
    <3>1. PICK last : WentTo(a, items, i, last)
      BY <2>1
    <3>2. db' = db /\ DOMAIN db.folders = 1..F /\ F \in Nat
      BY <1>10, StreamsAre DEF F
    <3>3. CASE a.map[i] = NoFolder /\ ~items[i].hasStream
      BY <2>2, <2>3, <3>3 DEF IsPlaced, NoFolder
    <3>4. CASE a.map[i] \in 0..last /\ a.map[i] < F /\ a.start[a.map[i] + 1] \in 1..i
      <4>1. PICK g \in Int : g = a.map[i] /\ g >= 0 /\ g < F
        BY <2>1, <2>4, <3>4 DEF IsFill
      <4>2. g + 1 \in DOMAIN db'.folders
        BY <3>2, <4>1
      <4> QED
        BY <2>2, <3>4, <4>1, <4>2 DEF IsPlaced
    <3> QED
      BY <3>1, <3>3, <3>4 DEF WentTo
  <2>6. TypeOK'
    <3>1. Len(fill'.map) = Len(files'.items) /\ \A i \in DOMAIN fill'.map : IsPlaced(i)'
      BY <1>7, <2>2, <2>3, <2>4, <2>5
    <3> QED
      BY <1>5, <1>10, <3>1 DEF IInv, TypeOK
  <2>7. HeaderInv'
    <3>1. sd' \in Seq(Nat)
      BY <1>1, <1>10, IdIs DEF IsReader
    <3>2. at' \notin Before /\ at' \notin {"open", "decode", "digests"}
      BY <1>10 DEF Before
    <3> QED
      BY <3>1, <3>2 DEF HeaderInv
  <2>8. ParsedFits'
    BY <1>10, <2>3 DEF IInv, ParsedFits, StreamsFit
  <2>9. TurnsInv'
    BY <1>10 DEF IInv, TurnsInv
  <2> QED
    BY <2>6, <2>7, <2>8, <2>9 DEF IInv
<1> QED
  BY <1>5, <1>9, <1>10, <1>11

LEMMA NamingKeeps ==
    ASSUME IInv, ReadName \/ AllNamed, turns' = turns + 1
    PROVE  IInv'
<1>1. /\ at = "names" /\ UNCHANGED <<file, sd, encoded, db, streams, files, fill>>
      /\ at' \in {"names", "done"} /\ (result' = "none" <=> at' # "done")
  <2>1. CASE ReadName
    BY <2>1 DEF ReadName, parsed, IInv, TypeOK
  <2>2. CASE AllNamed
    BY <2>2 DEF AllNamed, Opened, parsed
  <2> QED
    BY <2>1, <2>2
<1>2. TypeOK'
  BY <1>1 DEF IInv, TypeOK, IsPlaced
<1>3. HeaderInv'
  <2>1. at' \notin Before /\ at' \notin {"open", "decode", "digests"}
    BY <1>1 DEF Before
  <2> QED
    BY <1>1, <2>1 DEF IInv, HeaderInv
<1>4. ParsedFits'
  BY <1>1 DEF IInv, ParsedFits, StreamsFit, FilesFit
<1>5. TurnsInv'
  BY <1>1 DEF IInv, TurnsInv
<1> QED
  BY <1>2, <1>3, <1>4, <1>5 DEF IInv

-----------------------------------------------------------------------------
(***************************************************************************)
(* The theorems.                                                           *)
(***************************************************************************)
LEMMA InitIs ==
    ASSUME Init
    PROVE  IInv
<1>1. /\ file \in Files /\ at = "open" /\ sd = << >> /\ encoded = "no" /\ db = NoDb
      /\ streams = NoStreams /\ files = NoFiles /\ fill = NoFill /\ result = "none" /\ turns = 0
  BY DEF Init
<1>2. TypeOK
  <2>1. Len(fill.map) = Len(files.items) /\ DOMAIN fill.map = {}
    BY <1>1, NothingIs
  <2>2. Len(db.packCrcs) = Len(db.packSizes) /\ Len(streams.digests) = Len(streams.sizes)
    BY <1>1, NothingIs
  <2> QED
    BY <1>1, <2>1, <2>2 DEF TypeOK
<1>3. HeaderInv
  <2>1. << >> \in Seq(Nat) /\ at \notin {"decode", "digests"}
    BY <1>1
  <2> QED
    BY <1>1, <2>1, NothingIs DEF HeaderInv
<1>4. ParsedFits
  <2>1. StreamsFit
    BY <1>1, NothingIs DEF StreamsFit, NoStreams
  <2>2. FilesFit
    <3>1. << >> \in Seq(BOOLEAN) /\ 0 \in Nat
      OBVIOUS
    <3> QED
      BY <1>1, <3>1 DEF FilesFit, NoFiles
  <2> QED
    BY <1>1, <2>1, <2>2, NothingIs DEF ParsedFits
<1>5. TurnsInv
  BY <1>1 DEF TurnsInv
<1> QED
  BY <1>2, <1>3, <1>4, <1>5 DEF IInv

LEMMA StutterKeeps ==
    ASSUME IInv, UNCHANGED vars
    PROVE  IInv'
<1>1. /\ file' = file /\ at' = at /\ sd' = sd /\ encoded' = encoded /\ db' = db
      /\ streams' = streams /\ files' = files /\ fill' = fill /\ result' = result /\ turns' = turns
  BY DEF vars, parsed
<1>2. TypeOK'
  BY <1>1 DEF IInv, TypeOK, IsPlaced
<1>3. HeaderInv'
  BY <1>1 DEF IInv, HeaderInv
<1>4. ParsedFits'
  BY <1>1 DEF IInv, ParsedFits, StreamsFit, FilesFit
<1>5. TurnsInv'
  <2>1. Used' = Used /\ Owed' = Owed
    BY <1>1 DEF Used, Owed
  <2> QED
    BY <1>1, <2>1 DEF IInv, TurnsInv
<1> QED
  BY <1>2, <1>3, <1>4, <1>5 DEF IInv

LEMMA NextKeeps ==
    ASSUME IInv, [Next]_vars
    PROVE  IInv'
<1>1. CASE UNCHANGED vars
  BY <1>1, StutterKeeps
<1>2. CASE Next
  <2> USE <1>2 DEF Next
  <2>1. CASE Open
    BY <2>1, OpenKeeps
  <2>2. CASE EncodedHeader \/ Header \/ OtherHeader \/ ArchiveProperties
    BY <2>2, HeaderIDs
  <2>3. CASE ArchiveProperty
    BY <2>3, ArchivePropertyKeeps
  <2>4. CASE MainStreamsInfo \/ NoFilesInfo \/ NoInfo \/ StreamsEnd \/ NoStream \/ EndOfLoop
    BY <2>4, InfoIDs
  <2>5. CASE FilesInfo
    BY <2>5, FilesInfoKeeps
  <2>6. CASE Skip \/ OtherProperty
    BY <2>6, SkipKeeps
  <2>7. CASE PackInfoStart \/ PackCrcs
    BY <2>7, PackInfoKeeps
  <2>8. CASE UnpackInfoStart \/ UnpackCrcs
    BY <2>8, UnpackInfoKeeps
  <2>9. CASE SubStreamsStart \/ SubNumbers
    BY <2>9, SubNumbersKeep
  <2>10. CASE SubSizes
    BY <2>10, SubSizesKeep
  <2>11. CASE SubDigests \/ SubOther
    BY <2>11, DigestsKeep
  <2>12. CASE SubEnd
    BY <2>12, SubEndKeeps
  <2>13. CASE DecodePackedStreams
    BY <2>13, DecodePackedStreamsKeeps
  <2>14. CASE Names \/ EmptyStreams \/ EmptyFiles \/ WinAttributes \/ MTime
    BY <2>14, FilesPropertiesKeep
  <2>15. CASE FilesEnd
    BY <2>15, FilesEndKeeps
  <2>16. CASE ReadName \/ AllNamed
    BY <2>16, NamingKeeps
  <2> QED
    BY <2>1, <2>2, <2>3, <2>4, <2>5, <2>6, <2>7, <2>8, <2>9, <2>10, <2>11, <2>12, <2>13, <2>14,
       <2>15, <2>16 DEF Step
<1> QED
  BY <1>1, <1>2

(* The inductive invariant: the tables fit together, and each step that    *)
(* was taken has been paid for by a byte of a header.                      *)
THEOREM Invariance == Spec => []IInv
<1>1. Init => IInv
  BY InitIs
<1>2. IInv /\ [Next]_vars => IInv'
  BY NextKeeps
<1> QED
  BY <1>1, <1>2, PTL DEF Spec

(* For every file that is read without leaving an array, the tables that   *)
(* SzArEx_Open leaves fit together: there is a checksum for each packed    *)
(* stream, a digest for each file of a folder, and SzArEx_Fill puts each   *)
(* file that has a stream into a folder that is there, whose first file    *)
(* comes no later than it - also with folders that have no file, and with  *)
(* files that have no stream.  7zIn.c:789, 831, 908, 1101, 1111 and 1181   *)
(* look at no bound: a header that is read beyond one there has the result *)
(* "undefined", and nothing is said of what the code does with it.         *)
THEOREM TypeCorrect == Spec => []TypeOK
<1>1. IInv => TypeOK
  BY DEF IInv
<1> QED
  BY <1>1, Invariance, PTL

(* Opening takes no more than two steps for each byte of the header that   *)
(* was used up, and two more, on whatever bytes the file holds; an end as  *)
(* undefined is an end here, and is not in the code.                       *)
THEOREM LoopsAreBounded == Spec => []LoopsEnd
<1>1. IInv => LoopsEnd
  <2> SUFFICES ASSUME IInv PROVE LoopsEnd
    OBVIOUS
  <2>1. CASE at = "open"
    <3>1. turns = 0 /\ sd = << >> /\ encoded = "no" /\ file.next \in Seq(Nat)
      BY <2>1, FilesAssumption DEF IInv, TypeOK, HeaderInv, TurnsInv
    <3>2. PICK m \in Nat : m = Len(file.next)
      BY <3>1
    <3>3. Used = m + 0 - 0
      BY <3>1, <3>2 DEF Used
    <3> QED
      BY <3>1, <3>3 DEF LoopsEnd
  <2>2. CASE at \notin {"open", "names", "done"}
    <3>1. turns \in Nat /\ turns + Owed <= 2 * Used + 1 /\ Owed \in {0, 1}
      BY <2>2 DEF IInv, TurnsInv, Owed
    <3>2. Used \in Int
      <4>1. file.next \in Seq(Nat) /\ file.packed.bytes \in Seq(Nat) /\ sd \in Seq(Nat)
        BY FilesAssumption DEF IInv, TypeOK, HeaderInv
      <4>2. PICK m \in Nat, k \in Nat, n \in Nat :
              m = Len(file.next) /\ k = Len(file.packed.bytes) /\ n = Len(sd)
        BY <4>1
      <4>3. Used = m + (IF encoded = "decoded" THEN k ELSE 0) - n
        BY <4>2 DEF Used
      <4> QED
        BY <4>3
    <3> QED
      BY <3>1, <3>2 DEF LoopsEnd
  <2>3. CASE at \in {"names", "done"}
    BY <2>3 DEF LoopsEnd
  <2> QED
    BY <2>1, <2>2, <2>3
<1> QED
  BY <1>1, Invariance, PTL
=============================================================================
