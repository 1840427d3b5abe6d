---- MODULE HttpParserProofs ----
(***************************************************************************)
(* What the parser of HttpParser returns, for every alphabet, every        *)
(* request line of a known form and any number of header lines. The loops  *)
(* of the parser are recursive functions: that they have their equations,  *)
(* and what they compute for every text, is proved by induction, from the  *)
(* least element of a set of numbers.                                      *)
(***************************************************************************)
EXTENDS HttpRequests, SequenceTheorems, FiniteSetTheorems, WellFoundedInduction, TLAPS

(* Every set of numbers that is not empty has a least one, as finite sets  *)
(* of numbers are well-founded under inclusion. All induction below rests  *)
(* on this.                                                                *)
LEMMA Least ==
    ASSUME NEW T, T \subseteq Nat, T # {}
    PROVE  \E x \in T : \A y \in T : x <= y
<1> DEFINE F == {0 .. t : t \in T}
<1>1. IsWellFoundedOn(StrictSubsetOrdering(Nat), FiniteSubsetsOf(Nat))
  BY FS_StrictSubsetOrderingWellFounded
<1>2. F \subseteq FiniteSubsetsOf(Nat)
  <2>1. \A t \in T : IsFiniteSet(0 .. t)
    BY FS_Interval
  <2>2. \A t \in T : 0 .. t \in SUBSET Nat
    OBVIOUS
  <2> QED
    BY <2>1, <2>2 DEF FiniteSubsetsOf
<1>3. F # {}
  OBVIOUS
<1>4. \E m \in F : \A y \in F : ~(<<y, m>> \in StrictSubsetOrdering(Nat))
  BY <1>1, <1>2, <1>3, WFMin
<1>5. PICK x \in T : \A y \in T : ~(<<0 .. y, 0 .. x>> \in StrictSubsetOrdering(Nat))
  BY <1>4
<1>6. ASSUME NEW y \in T, ~(x <= y) PROVE FALSE
  <2>1. x \in Nat /\ y \in Nat /\ y < x
    BY <1>6
  <2>2. 0 .. y \subseteq 0 .. x /\ 0 .. y # 0 .. x
    BY <2>1
  <2>3. 0 .. y \in SUBSET Nat /\ 0 .. x \in SUBSET Nat
    BY <2>1
  <2> QED
    BY <1>5, <2>2, <2>3 DEF StrictSubsetOrdering
<1> QED
  BY <1>6

(* Induction over the numbers, for a set in place of a predicate.          *)
LEMMA Induct ==
    ASSUME NEW S, 0 \in S, \A n \in Nat : n \in S => n + 1 \in S
    PROVE  \A n \in Nat : n \in S
<1> DEFINE T == Nat \ S
<1>1. CASE T = {}
  BY <1>1
<1>2. CASE T # {}
  <2>1. PICK x \in T : \A y \in T : x <= y
    BY <1>2, Least
  <2>2. x \in Nat /\ x # 0 /\ x - 1 \in Nat
    OBVIOUS
  <2>3. x - 1 \in S
    BY <2>1, <2>2
  <2>4. x - 1 + 1 \in S
    BY <2>2, <2>3
  <2> QED
    BY <2>1, <2>2, <2>4
<1> QED
  BY <1>1, <1>2

(* The same over the numbers from 0 to n.                                  *)
LEMMA UpTo ==
    ASSUME NEW n \in Nat, NEW S, 0 \in S, \A i \in 1 .. n : i - 1 \in S => i \in S
    PROVE  \A i \in 0 .. n : i \in S
<1> DEFINE T == {i \in Nat : i <= n => i \in S}
<1>1. 0 \in T
  OBVIOUS
<1>2. ASSUME NEW i \in Nat, i \in T PROVE i + 1 \in T
  <2>1. CASE i + 1 <= n
    <3>1. i + 1 \in 1 .. n /\ (i + 1) - 1 = i
      BY <2>1
    <3>2. i \in S
      BY <1>2, <2>1
    <3> QED
      BY <3>1, <3>2
  <2> QED
    BY <2>1
<1> HIDE DEF T
<1>3. \A i \in Nat : i \in T
  BY <1>1, <1>2, Induct
<1> QED
  BY <1>3 DEF T

(* Induction over sequences: what the empty one has, and one keeps when an *)
(* element is appended, every one has.                                     *)
LEMMA SeqInduct ==
    ASSUME NEW S, NEW P, <<>> \in P,
           \A s \in Seq(S), e \in S : s \in P => Append(s, e) \in P
    PROVE  \A s \in Seq(S) : s \in P
<1> DEFINE T == {n \in Nat : \A s \in Seq(S) : Len(s) = n => s \in P}
<1>1. 0 \in T
  BY EmptySeq
<1>2. ASSUME NEW n \in Nat, n \in T PROVE n + 1 \in T
  <2> SUFFICES ASSUME NEW s \in Seq(S), Len(s) = n + 1 PROVE s \in P
    OBVIOUS
  <2>1. PICK f \in Seq(S), e \in S : s = Append(f, e)
    BY SequenceEmptyOrAppend, EmptySeq
  <2>2. Len(f) = n
    BY <2>1, AppendProperties, LenProperties
  <2> QED
    BY <1>2, <2>1, <2>2
<1> HIDE DEF T
<1>3. \A n \in Nat : n \in T
  BY <1>1, <1>2, Induct
<1> QED
  BY <1>3, LenProperties DEF T

Solvable(n, V, base, step) ==
    \E f \in [0 .. n -> V] :
      f[0] = base /\ \A i \in 1 .. n : f[i] = step[<<f[i - 1], i>>]

(* A recursion over 0 .. n has a solution; so the function that CHOOSE     *)
(* picks in Scan and HostFrom satisfies its equation.                      *)
LEMMA Solution ==
    ASSUME NEW n \in Nat, NEW V, NEW base \in V, NEW step \in [V \X (1 .. n) -> V]
    PROVE  Solvable(n, V, base, step)
<1> DEFINE Solves(f, k) == f[0] = base /\ \A i \in 1 .. k : f[i] = step[<<f[i - 1], i>>]
           T == {k \in Nat : k <= n => \E f \in [0 .. k -> V] : Solves(f, k)}
<1>1. 0 \in T
  <2>1. [i \in 0 .. 0 |-> base] \in [0 .. 0 -> V]
    OBVIOUS
  <2>2. Solves([i \in 0 .. 0 |-> base], 0)
    OBVIOUS
  <2> QED
    BY <2>1, <2>2
<1>2. ASSUME NEW k \in Nat, k \in T PROVE k + 1 \in T
  <2> SUFFICES ASSUME k + 1 <= n PROVE \E f \in [0 .. k + 1 -> V] : Solves(f, k + 1)
    OBVIOUS
  <2>1. PICK f \in [0 .. k -> V] : Solves(f, k)
    BY <1>2
  <2> DEFINE v == step[<<f[k], k + 1>>]
             g == [i \in 0 .. k + 1 |-> IF i = k + 1 THEN v ELSE f[i]]
  <2>2. v \in V
    BY <2>1
  <2>3. g \in [0 .. k + 1 -> V]
    BY <2>1, <2>2
  <2>4. g[0] = base
    BY <2>1
  <2>5. ASSUME NEW i \in 1 .. k + 1 PROVE g[i] = step[<<g[i - 1], i>>]
    <3>1. CASE i = k + 1
      <4>1. g[i] = v /\ g[i - 1] = f[k]
        BY <3>1
      <4> QED
        BY <3>1, <4>1
    <3>2. CASE i # k + 1
      <4>1. i \in 1 .. k /\ g[i] = f[i] /\ g[i - 1] = f[i - 1]
        BY <3>2
      <4> QED
        BY <2>1, <4>1
    <3> QED
      BY <3>1, <3>2
  <2> QED
    BY <2>3, <2>4, <2>5
<1> HIDE DEF T
<1>3. n \in T
  BY <1>1, <1>2, Induct
<1> QED
  BY <1>3 DEF T, Solvable

(* The loop of split. A state of it is the items so far and the one begun. *)
Splits(S) == [items : Seq(Seq(S)), item : Seq(S)]

LEMMA BehindType ==
    ASSUME NEW S, NEW split \in Splits(S), NEW symbol \in S, NEW delimiters
    PROVE  Behind(split, symbol, delimiters) \in Splits(S)
  BY DEF Behind, Cut, Splits

(* f is the run of the loop over a line: f[i] is its state behind i        *)
(* symbols.                                                                *)
Scanned(S, line, delimiters, f) ==
    /\ f \in [0 .. Len(line) -> Splits(S)]
    /\ f[0] = [items |-> <<>>, item |-> <<>>]
    /\ \A i \in 1 .. Len(line) : f[i] = Behind(f[i - 1], line[i], delimiters)
    /\ Scan(line, delimiters) = f[Len(line)]

LEMMA ScanEquation ==
    ASSUME NEW S, NEW line \in Seq(S), NEW delimiters
    PROVE  \E f : Scanned(S, line, delimiters, f)
<1> DEFINE n == Len(line)
           base == [items |-> <<>>, item |-> <<>>]
           step == [x \in Splits(S) \X (1 .. n) |-> Behind(x[1], line[x[2]], delimiters)]
           Rec(g) == g = [i \in 0 .. n |-> IF i = 0 THEN base
                                           ELSE Behind(g[i - 1], line[i], delimiters)]
           scan == CHOOSE g : Rec(g)
<1>1. n \in Nat /\ \A i \in 1 .. n : line[i] \in S
  BY LenProperties, ElementOfSeq
<1>2. base \in Splits(S)
  BY EmptySeq DEF Splits
<1>3. step \in [Splits(S) \X (1 .. n) -> Splits(S)]
  <2>1. ASSUME NEW x \in Splits(S) \X (1 .. n)
        PROVE  Behind(x[1], line[x[2]], delimiters) \in Splits(S)
    <3>1. x[1] \in Splits(S) /\ line[x[2]] \in S
      BY <1>1
    <3> QED
      BY <3>1, BehindType
  <2> QED
    BY <2>1
<1>4. PICK f \in [0 .. n -> Splits(S)] :
        f[0] = base /\ \A i \in 1 .. n : f[i] = step[<<f[i - 1], i>>]
  <2>1. Solvable(n, Splits(S), base, step)
    <3> HIDE DEF n, base, step
    <3> QED
      BY <1>1, <1>2, <1>3, Solution
  <2> QED
    BY <2>1 DEF Solvable
<1>5. \A i \in 1 .. n : f[i - 1] \in Splits(S) /\ <<f[i - 1], i>> \in Splits(S) \X (1 .. n)
  BY <1>1, <1>4
<1>6. \A i \in 1 .. n : f[i] = Behind(f[i - 1], line[i], delimiters)
  BY <1>4, <1>5
<1>7. Rec(f)
  <2> HIDE DEF step, base
  <2>1. \A i \in 0 .. n : i # 0 => i \in 1 .. n
    BY <1>1
  <2>2. \A i \in 0 .. n : f[i] = IF i = 0 THEN base ELSE Behind(f[i - 1], line[i], delimiters)
    BY <1>4, <1>6, <2>1
  <2>3. f = [i \in 0 .. n |-> f[i]]
    BY <1>4
  <2> QED
    BY <2>2, <2>3
<1>8. Rec(scan)
  <2> HIDE DEF Rec
  <2> QED
    BY <1>7
<1>9. Scan(line, delimiters) = scan[n]
  BY Zenon DEF Scan
<1> HIDE DEF scan
<1>10. scan[0] = base /\ \A i \in 1 .. n : scan[i] = Behind(scan[i - 1], line[i], delimiters)
  <2>1. \A i \in 1 .. n : i \in 0 .. n /\ i # 0
    BY <1>1
  <2>2. 0 \in 0 .. n
    BY <1>1
  <2> QED
    BY <1>8, <2>1, <2>2
<1>11. scan = f
  <2> DEFINE Same == {i \in 0 .. n : scan[i] = f[i]}
  <2>1. 0 \in Same
    BY <1>1, <1>4, <1>10
  <2>2. \A i \in 1 .. n : i - 1 \in Same => i \in Same
    <3> HIDE DEF step, base
    <3>1. \A i \in 1 .. n : i \in 0 .. n
      BY <1>1
    <3> QED
      BY <1>6, <1>10, <3>1
  <2>3. \A i \in 0 .. n : i \in Same
    <3> HIDE DEF Same
    <3> QED
      BY <1>1, <2>1, <2>2, UpTo
  <2>4. DOMAIN scan = 0 .. n /\ scan = [i \in 0 .. n |-> scan[i]]
    BY <1>8
  <2> QED
    BY <1>4, <2>3, <2>4
<1> QED
  BY <1>4, <1>6, <1>9, <1>11 DEF Scanned

LEMMA ScanType ==
    ASSUME NEW S, NEW line \in Seq(S), NEW delimiters
    PROVE  Scan(line, delimiters) \in Splits(S)
<1>1. Len(line) \in 0 .. Len(line)
  BY LenProperties
<1>2. PICK f : Scanned(S, line, delimiters, f)
  BY ScanEquation
<1> QED
  BY <1>1, <1>2 DEF Scanned

LEMMA ScanEmpty ==
    ASSUME NEW delimiters
    PROVE  Scan(<<>>, delimiters) = [items |-> <<>>, item |-> <<>>]
<1>1. <<>> \in Seq({}) /\ Len(<<>>) = 0
  BY EmptySeq
<1>2. PICK f : Scanned({}, <<>>, delimiters, f)
  BY <1>1, ScanEquation
<1> QED
  BY <1>1, <1>2 DEF Scanned

(* One more symbol is one more turn of the loop.                           *)
LEMMA ScanAppend ==
    ASSUME NEW S, NEW line \in Seq(S), NEW symbol \in S, NEW delimiters
    PROVE  Scan(Append(line, symbol), delimiters)
             = Behind(Scan(line, delimiters), symbol, delimiters)
<1> DEFINE n == Len(line)
           longer == Append(line, symbol)
<1>1. /\ n \in Nat /\ longer \in Seq(S) /\ Len(longer) = n + 1
      /\ longer[n + 1] = symbol /\ \A i \in 1 .. n : longer[i] = line[i]
  BY AppendProperties, LenProperties
<1>2. PICK f : Scanned(S, line, delimiters, f)
  BY ScanEquation
<1>3. PICK g : Scanned(S, longer, delimiters, g)
  <2> HIDE DEF longer
  <2> QED
    BY <1>1, ScanEquation
<1> HIDE DEF longer
<1>2a. /\ f[0] = [items |-> <<>>, item |-> <<>>]
       /\ \A i \in 1 .. n : f[i] = Behind(f[i - 1], line[i], delimiters)
       /\ Scan(line, delimiters) = f[n]
  BY <1>2 DEF Scanned
<1>3a. /\ g[0] = [items |-> <<>>, item |-> <<>>]
       /\ \A i \in 1 .. n + 1 : g[i] = Behind(g[i - 1], longer[i], delimiters)
       /\ Scan(longer, delimiters) = g[n + 1]
  BY <1>1, <1>3 DEF Scanned
<1> HIDE DEF n
<1> DEFINE Same == {i \in 0 .. n : f[i] = g[i]}
<1>4. 0 \in Same
  BY <1>1, <1>2a, <1>3a
<1>5. ASSUME NEW i \in 1 .. n, i - 1 \in Same PROVE i \in Same
  <2>1. i \in 1 .. n + 1 /\ longer[i] = line[i]
    BY <1>1
  <2>2. f[i] = Behind(f[i - 1], line[i], delimiters)
    BY <1>2a
  <2>3. g[i] = Behind(g[i - 1], line[i], delimiters)
    BY <1>3a, <2>1
  <2> QED
    BY <1>1, <1>5, <2>2, <2>3
<1>6. n \in Same
  <2> HIDE DEF Same
  <2>1. \A i \in 0 .. n : i \in Same
    BY <1>1, <1>4, <1>5, UpTo
  <2> QED
    BY <1>1, <2>1
<1>7. g[n + 1] = Behind(g[n], symbol, delimiters)
  <2>1. n + 1 \in 1 .. n + 1 /\ (n + 1) - 1 = n
    BY <1>1
  <2> QED
    BY <1>1, <1>3a, <2>1
<1> QED
  BY <1>2a, <1>3a, <1>6, <1>7 DEF n, longer

LEMMA ConcatAppend ==
    ASSUME NEW S, NEW s \in Seq(S), NEW t \in Seq(S), NEW e \in S
    PROVE  s \o Append(t, e) = Append(s \o t, e)
<1>1. <<e>> \in Seq(S)
  OBVIOUS
<1>2. Append(t, e) = t \o <<e>> /\ s \o t \in Seq(S)
  BY AppendIsConcat, ConcatProperties
<1>3. Append(s \o t, e) = (s \o t) \o <<e>>
  BY <1>2, AppendIsConcat
<1>4. (s \o t) \o <<e>> = s \o (t \o <<e>>)
  BY <1>1, ConcatAssociative
<1> QED
  BY <1>2, <1>3, <1>4

(* Symbols that are no delimiters only lengthen the item begun.            *)
LEMMA ScanWord ==
    ASSUME NEW S, NEW line \in Seq(S), NEW word \in Seq(S), NEW delimiters,
           \A i \in 1 .. Len(word) : word[i] \notin delimiters
    PROVE  Scan(line \o word, delimiters)
             = [items |-> Scan(line, delimiters).items,
                item |-> Scan(line, delimiters).item \o word]
<1> DEFINE Clear(w) == \A i \in 1 .. Len(w) : w[i] \notin delimiters
           split == Scan(line, delimiters)
           Result(w) == [items |-> split.items, item |-> split.item \o w]
           P == {w \in Seq(S) : Clear(w) => Scan(line \o w, delimiters) = Result(w)}
<1>1. split \in Splits(S) /\ split.item \in Seq(S)
  BY ScanType DEF Splits
<1>2. <<>> \in P
  <2>1. line \o <<>> = line /\ split.item \o <<>> = split.item /\ <<>> \in Seq(S)
    BY <1>1, ConcatEmptySeq, EmptySeq
  <2>2. split = [items |-> split.items, item |-> split.item]
    BY <1>1 DEF Splits
  <2> QED
    BY <2>1, <2>2
<1>3. ASSUME NEW w \in Seq(S), NEW e \in S, w \in P PROVE Append(w, e) \in P
  <2>1. Append(w, e) \in Seq(S)
    BY AppendProperties
  <2> SUFFICES ASSUME Clear(Append(w, e))
               PROVE  Scan(line \o Append(w, e), delimiters) = Result(Append(w, e))
    BY <2>1
  <2>2. Clear(w) /\ e \notin delimiters
    BY AppendProperties, LenProperties
  <2>3. line \o w \in Seq(S) /\ line \o Append(w, e) = Append(line \o w, e)
    BY ConcatProperties
  <2>4. split.item \o Append(w, e) = Append(split.item \o w, e)
    <3> DEFINE item == split.item
    <3>1. item \in Seq(S)
      BY <1>1
    <3> HIDE DEF item
    <3>2. item \o Append(w, e) = Append(item \o w, e)
      BY <3>1, ConcatAppend
    <3> QED
      BY <3>2 DEF item
  <2>5. Scan(line \o w, delimiters) = Result(w)
    BY <1>3, <2>2
  <2>6. Scan(line \o Append(w, e), delimiters) = Behind(Result(w), e, delimiters)
    BY <2>3, <2>5, ScanAppend
  <2>7. Behind(Result(w), e, delimiters) = Result(Append(w, e))
    BY <2>2, <2>4 DEF Behind
  <2> QED
    BY <2>6, <2>7
<1> HIDE DEF P
<1>4. word \in P
  BY <1>2, <1>3, SeqInduct
<1> QED
  BY <1>4 DEF P

----
(* The invariant of the loop: item i of those so far is the run from st[i] *)
(* to en[i] of the line, the runs are in order with a delimiter behind     *)
(* each, the item begun starts at b, and every other symbol before b is a  *)
(* delimiter.                                                              *)
Marked(line, delimiters, split, st, en, b) ==
    LET m == Len(split.items) IN
    /\ m \in Nat
    /\ st \in [1 .. m -> 1 .. Len(line)]
    /\ en \in [1 .. m -> 1 .. Len(line)]
    /\ b \in 1 .. Len(line) + 1
    /\ b = 1 \/ line[b - 1] \in delimiters
    /\ \A p \in b .. Len(line) : line[p] \notin delimiters
    /\ split.item = SubSeq(line, b, Len(line))
    /\ \A i \in 1 .. m :
         /\ st[i] <= en[i] /\ en[i] + 1 < b
         /\ split.items[i] = SubSeq(line, st[i], en[i])
         /\ \A p \in st[i] .. en[i] : line[p] \notin delimiters
         /\ st[i] = 1 \/ line[st[i] - 1] \in delimiters
         /\ line[en[i] + 1] \in delimiters
    /\ \A i, j \in 1 .. m : i < j => en[i] < st[j]
    /\ \A p \in 1 .. b - 1 :
         line[p] \in delimiters \/ \E i \in 1 .. m : p \in st[i] .. en[i]

IsMarked(line, delimiters) ==
    \E st, en, b : Marked(line, delimiters, Scan(line, delimiters), st, en, b)

LEMMA SubSeqAppend ==
    ASSUME NEW S, NEW s \in Seq(S), NEW e \in S,
           NEW i \in 1 .. Len(s) + 1, NEW j \in 0 .. Len(s)
    PROVE  SubSeq(Append(s, e), i, j) = SubSeq(s, i, j)
  BY AppendProperties, LenProperties

LEMMA SubSeqToEnd ==
    ASSUME NEW S, NEW s \in Seq(S), NEW e \in S, NEW i \in 1 .. Len(s) + 1
    PROVE  SubSeq(Append(s, e), i, Len(s) + 1) = Append(SubSeq(s, i, Len(s)), e)
  BY AppendProperties, LenProperties

LEMMA MarkedEmpty ==
    ASSUME NEW delimiters
    PROVE  IsMarked(<<>>, delimiters)
<1> DEFINE e == <<>>
<1>1. Scan(<<>>, delimiters) = [items |-> <<>>, item |-> <<>>]
  BY ScanEmpty
<1>2. Marked(<<>>, delimiters, [items |-> <<>>, item |-> <<>>], <<>>, <<>>, 1)
  BY DEF Marked
<1> QED
  BY <1>1, <1>2 DEF IsMarked

(* Closed runs stay what they are when one more symbol is read.            *)
LEMMA RunsKept ==
    ASSUME NEW S, NEW line \in Seq(S), NEW symbol \in S, NEW delimiters,
           NEW split \in Splits(S), NEW st, NEW en, NEW b,
           Marked(line, delimiters, split, st, en, b),
           NEW i \in 1 .. Len(split.items)
    PROVE  LET longer == Append(line, symbol) IN
           /\ split.items[i] = SubSeq(longer, st[i], en[i])
           /\ \A p \in st[i] .. en[i] : longer[p] \notin delimiters
           /\ st[i] = 1 \/ longer[st[i] - 1] \in delimiters
           /\ longer[en[i] + 1] \in delimiters
<1> DEFINE n == Len(line)
           longer == Append(line, symbol)
           x == st[i]
           y == en[i]
<1>1. /\ n \in Nat /\ longer \in Seq(S) /\ Len(longer) = n + 1
      /\ \A p \in 1 .. n : longer[p] = line[p]
  BY AppendProperties, LenProperties
<1>2. x \in 1 .. n /\ y \in 1 .. n /\ y + 1 < b /\ b \in 1 .. n + 1
  BY DEF Marked
<1>3. /\ split.items[i] = SubSeq(line, x, y)
      /\ \A p \in x .. y : line[p] \notin delimiters
      /\ x = 1 \/ line[x - 1] \in delimiters
      /\ line[y + 1] \in delimiters
  BY DEF Marked
<1>4. x \in 1 .. n + 1 /\ y \in 0 .. n
  BY <1>1, <1>2
<1>5. SubSeq(longer, x, y) = SubSeq(line, x, y)
  BY <1>4, SubSeqAppend
<1> HIDE DEF n, longer, x, y
<1>6. /\ y + 1 \in 1 .. n
      /\ x = 1 \/ x - 1 \in 1 .. n
      /\ \A p \in x .. y : p \in 1 .. n
  BY <1>1, <1>2
<1>7. split.items[i] = SubSeq(longer, x, y) /\ longer[y + 1] \in delimiters
  BY <1>1, <1>3, <1>5, <1>6
<1>8. x = 1 \/ longer[x - 1] \in delimiters
  BY <1>1, <1>3, <1>6
<1>9. \A p \in x .. y : longer[p] \notin delimiters
  BY <1>1, <1>3, <1>6
<1> QED
  BY <1>7, <1>8, <1>9 DEF longer, x, y

(* A symbol that is no delimiter lengthens the item begun.                 *)
LEMMA MarkedInside ==
    ASSUME NEW S, NEW line \in Seq(S), NEW symbol \in S, NEW delimiters,
           NEW split \in Splits(S), NEW st, NEW en, NEW b,
           Marked(line, delimiters, split, st, en, b),
           symbol \notin delimiters
    PROVE  Marked(Append(line, symbol), delimiters, Behind(split, symbol, delimiters), st, en, b)
<1> DEFINE n == Len(line)
           longer == Append(line, symbol)
           more == Behind(split, symbol, delimiters)
           m == Len(split.items)
<1>1. /\ n \in Nat /\ longer \in Seq(S) /\ Len(longer) = n + 1
      /\ longer[n + 1] = symbol /\ \A i \in 1 .. n : longer[i] = line[i]
  BY AppendProperties, LenProperties
<1>2. more.items = split.items /\ more.item = Append(split.item, symbol)
  BY DEF Behind, Splits
<1>3. /\ m \in Nat
      /\ st \in [1 .. m -> 1 .. n]
      /\ en \in [1 .. m -> 1 .. n]
      /\ b \in 1 .. n + 1
      /\ b = 1 \/ line[b - 1] \in delimiters
      /\ \A p \in b .. n : line[p] \notin delimiters
      /\ split.item = SubSeq(line, b, n)
  BY DEF Marked
<1>4. ASSUME NEW i \in 1 .. m
      PROVE  /\ st[i] <= en[i] /\ en[i] + 1 < b
             /\ split.items[i] = SubSeq(line, st[i], en[i])
             /\ \A p \in st[i] .. en[i] : line[p] \notin delimiters
             /\ st[i] = 1 \/ line[st[i] - 1] \in delimiters
             /\ line[en[i] + 1] \in delimiters
  BY DEF Marked
<1>5. /\ \A i, j \in 1 .. m : i < j => en[i] < st[j]
      /\ \A p \in 1 .. b - 1 :
           line[p] \in delimiters \/ \E i \in 1 .. m : p \in st[i] .. en[i]
  BY DEF Marked
<1>6. more.item = SubSeq(longer, b, n + 1)
  BY <1>1, <1>2, <1>3, SubSeqToEnd
<1>7. ASSUME NEW i \in 1 .. m
      PROVE  /\ more.items[i] = SubSeq(longer, st[i], en[i])
             /\ \A p \in st[i] .. en[i] : longer[p] \notin delimiters
             /\ st[i] = 1 \/ longer[st[i] - 1] \in delimiters
             /\ longer[en[i] + 1] \in delimiters
  <2>1. /\ split.items[i] = SubSeq(longer, st[i], en[i])
        /\ \A p \in st[i] .. en[i] : longer[p] \notin delimiters
        /\ st[i] = 1 \/ longer[st[i] - 1] \in delimiters
        /\ longer[en[i] + 1] \in delimiters
    BY RunsKept
  <2> HIDE DEF longer, more, n, m
  <2> QED
    BY <1>2, <2>1
<1> HIDE DEF longer, more, n
<1>8. /\ b \in 1 .. (n + 1) + 1
      /\ b = 1 \/ longer[b - 1] \in delimiters
      /\ \A p \in b .. n + 1 : longer[p] \notin delimiters
  <2>1. b \in 1 .. (n + 1) + 1 /\ (b = 1 \/ b - 1 \in 1 .. n)
    BY <1>1, <1>3
  <2>2. b = 1 \/ longer[b - 1] \in delimiters
    BY <1>1, <1>3, <2>1
  <2>3. \A p \in b .. n + 1 : p = n + 1 \/ (p \in b .. n /\ p \in 1 .. n)
    BY <1>1, <1>3
  <2>4. \A p \in b .. n + 1 : longer[p] \notin delimiters
    BY <1>1, <1>3, <2>3
  <2> QED
    BY <2>1, <2>2, <2>4
<1>9. \A p \in 1 .. b - 1 :
        longer[p] \in delimiters \/ \E i \in 1 .. m : p \in st[i] .. en[i]
  BY <1>1, <1>3, <1>5
<1>10. st \in [1 .. m -> 1 .. n + 1] /\ en \in [1 .. m -> 1 .. n + 1]
  BY <1>1, <1>3
<1>11. Len(longer) = n + 1 /\ Len(more.items) = m
  BY <1>1, <1>2
<1> HIDE DEF m
<1>12. Marked(longer, delimiters, more, st, en, b)
  BY <1>3, <1>4, <1>5, <1>6, <1>7, <1>8, <1>9, <1>10, <1>11 DEF Marked
<1> QED
  BY <1>12 DEF longer, more

(* A delimiter behind a delimiter, or at the start, changes no item.       *)
LEMMA MarkedBlank ==
    ASSUME NEW S, NEW line \in Seq(S), NEW symbol \in S, NEW delimiters,
           NEW split \in Splits(S), NEW st, NEW en, NEW b,
           Marked(line, delimiters, split, st, en, b),
           symbol \in delimiters, split.item = <<>>
    PROVE  Marked(Append(line, symbol), delimiters, Behind(split, symbol, delimiters),
                  st, en, Len(line) + 2)
<1> DEFINE n == Len(line)
           longer == Append(line, symbol)
           m == Len(split.items)
<1>1. /\ n \in Nat /\ longer \in Seq(S) /\ Len(longer) = n + 1
      /\ longer[n + 1] = symbol /\ \A i \in 1 .. n : longer[i] = line[i]
  BY AppendProperties, LenProperties
<1>2. Behind(split, symbol, delimiters) = split
  BY DEF Behind, Cut
<1>3. /\ m \in Nat
      /\ st \in [1 .. m -> 1 .. n]
      /\ en \in [1 .. m -> 1 .. n]
      /\ b \in 1 .. n + 1
      /\ split.item = SubSeq(line, b, n)
  BY DEF Marked
<1>4. ASSUME NEW i \in 1 .. m
      PROVE  st[i] <= en[i] /\ en[i] + 1 < b
  BY DEF Marked
<1>5. /\ \A i, j \in 1 .. m : i < j => en[i] < st[j]
      /\ \A p \in 1 .. b - 1 :
           line[p] \in delimiters \/ \E i \in 1 .. m : p \in st[i] .. en[i]
  BY DEF Marked
<1>6. ASSUME NEW i \in 1 .. m
      PROVE  /\ split.items[i] = SubSeq(longer, st[i], en[i])
             /\ \A p \in st[i] .. en[i] : longer[p] \notin delimiters
             /\ st[i] = 1 \/ longer[st[i] - 1] \in delimiters
             /\ longer[en[i] + 1] \in delimiters
  BY RunsKept
<1>7. b = n + 1
  <2>1. ASSUME b <= n PROVE FALSE
    <3>1. Len(SubSeq(line, b, n)) = n - b + 1
      BY <1>1, <1>3, <2>1, SubSeqProperties
    <3> QED
      BY <1>1, <1>3, <2>1, <3>1, EmptySeq
  <2> QED
    BY <1>1, <1>3, <2>1
<1>8. SubSeq(longer, n + 2, n + 1) = <<>>
  BY <1>1, SubSeqEmpty
<1> HIDE DEF longer, n, m
<1>9. \A i \in 1 .. m : st[i] \in 1 .. n + 1 /\ en[i] \in 1 .. n + 1 /\ en[i] + 1 < n + 2
  BY <1>1, <1>3, <1>4, <1>7
<1>10. st \in [1 .. m -> 1 .. n + 1] /\ en \in [1 .. m -> 1 .. n + 1]
  BY <1>3, <1>9
<1>11. ASSUME NEW p \in 1 .. (n + 2) - 1
       PROVE  longer[p] \in delimiters \/ \E i \in 1 .. m : p \in st[i] .. en[i]
  <2>1. p = n + 1 \/ p \in 1 .. n
    BY <1>1
  <2>2. CASE p \in 1 .. n
    <3>1. p \in 1 .. b - 1
      BY <1>1, <1>7, <2>2
    <3> QED
      BY <1>1, <1>5, <2>2, <3>1
  <2> QED
    BY <1>1, <2>1, <2>2
<1>12. /\ n + 2 \in 1 .. (n + 1) + 1
       /\ longer[(n + 2) - 1] \in delimiters
       /\ \A p \in n + 2 .. n + 1 : longer[p] \notin delimiters
  BY <1>1
<1>13. Len(split.items) = m
  BY DEF m
<1>14. Marked(longer, delimiters, split, st, en, n + 2)
  BY <1>1, <1>3, <1>4, <1>5, <1>6, <1>8, <1>9, <1>10, <1>11, <1>12, <1>13 DEF Marked
<1> QED
  BY <1>2, <1>14 DEF longer, n

(* A delimiter behind an item begun closes it: it becomes the last run.    *)
LEMMA MarkedEnd ==
    ASSUME NEW S, NEW line \in Seq(S), NEW symbol \in S, NEW delimiters,
           NEW split \in Splits(S), NEW st, NEW en, NEW b,
           Marked(line, delimiters, split, st, en, b),
           symbol \in delimiters, split.item # <<>>
    PROVE  LET m == Len(split.items) IN
           Marked(Append(line, symbol), delimiters, Behind(split, symbol, delimiters),
                  [i \in 1 .. m + 1 |-> IF i = m + 1 THEN b ELSE st[i]],
                  [i \in 1 .. m + 1 |-> IF i = m + 1 THEN Len(line) ELSE en[i]],
                  Len(line) + 2)
<1> DEFINE n == Len(line)
           longer == Append(line, symbol)
           more == Behind(split, symbol, delimiters)
           m == Len(split.items)
           st2 == [i \in 1 .. m + 1 |-> IF i = m + 1 THEN b ELSE st[i]]
           en2 == [i \in 1 .. m + 1 |-> IF i = m + 1 THEN n ELSE en[i]]
<1>1. /\ n \in Nat /\ longer \in Seq(S) /\ Len(longer) = n + 1
      /\ longer[n + 1] = symbol /\ \A i \in 1 .. n : longer[i] = line[i]
  BY AppendProperties, LenProperties
<1>2. more = [items |-> Append(split.items, split.item), item |-> <<>>]
  BY DEF Behind, Cut
<1>2a. /\ Len(more.items) = m + 1 /\ more.items[m + 1] = split.item
       /\ \A i \in 1 .. m : more.items[i] = split.items[i]
       /\ more.item = <<>>
  BY <1>2, AppendProperties, LenProperties DEF Splits
<1>3. /\ m \in Nat
      /\ st \in [1 .. m -> 1 .. n]
      /\ en \in [1 .. m -> 1 .. n]
      /\ b \in 1 .. n + 1
      /\ b = 1 \/ line[b - 1] \in delimiters
      /\ \A p \in b .. n : line[p] \notin delimiters
      /\ split.item = SubSeq(line, b, n)
  BY DEF Marked
<1>4. ASSUME NEW i \in 1 .. m
      PROVE  st[i] <= en[i] /\ en[i] + 1 < b
  BY DEF Marked
<1>5. /\ \A i, j \in 1 .. m : i < j => en[i] < st[j]
      /\ \A p \in 1 .. b - 1 :
           line[p] \in delimiters \/ \E i \in 1 .. m : p \in st[i] .. en[i]
  BY DEF Marked
<1>6. ASSUME NEW i \in 1 .. m
      PROVE  /\ split.items[i] = SubSeq(longer, st[i], en[i])
             /\ \A p \in st[i] .. en[i] : longer[p] \notin delimiters
             /\ st[i] = 1 \/ longer[st[i] - 1] \in delimiters
             /\ longer[en[i] + 1] \in delimiters
  BY RunsKept
<1>7. b <= n
  <2>1. ASSUME b = n + 1 PROVE FALSE
    <3>1. SubSeq(line, b, n) = <<>>
      BY <1>1, <2>1, SubSeqEmpty
    <3> QED
      BY <1>3, <3>1
  <2> QED
    BY <1>1, <1>3, <2>1
<1>8. SubSeq(longer, n + 2, n + 1) = <<>>
  BY <1>1, SubSeqEmpty
<1>8a. SubSeq(longer, b, n) = SubSeq(line, b, n)
  <2>1. b \in 1 .. n + 1 /\ n \in 0 .. n
    BY <1>1, <1>3
  <2> QED
    BY <2>1, SubSeqAppend
<1> HIDE DEF longer, n, m, more
<1>9. /\ \A i \in 1 .. m + 1 : i # m + 1 => i \in 1 .. m /\ st2[i] = st[i] /\ en2[i] = en[i]
      /\ st2[m + 1] = b /\ en2[m + 1] = n /\ m + 1 \in 1 .. m + 1
      /\ \A i \in 1 .. m : i \in 1 .. m + 1 /\ st2[i] = st[i] /\ en2[i] = en[i]
  BY <1>3
<1>10. st2 \in [1 .. m + 1 -> 1 .. n + 1] /\ en2 \in [1 .. m + 1 -> 1 .. n + 1]
  <2>1. ASSUME NEW i \in 1 .. m + 1
        PROVE  (IF i = m + 1 THEN b ELSE st[i]) \in 1 .. n + 1
    <3>1. \A j \in 1 .. m : st[j] \in 1 .. n + 1
      <4>1. 1 .. n \subseteq 1 .. n + 1
        BY <1>1
      <4>2. \A j \in 1 .. m : st[j] \in 1 .. n
        BY <1>3
      <4> QED
        BY <4>1, <4>2
    <3>2. i # m + 1 => i \in 1 .. m
      BY <1>3
    <3> QED
      BY <1>3, <3>1, <3>2
  <2>2. ASSUME NEW i \in 1 .. m + 1
        PROVE  (IF i = m + 1 THEN n ELSE en[i]) \in 1 .. n + 1
    <3>1. \A j \in 1 .. m : en[j] \in 1 .. n + 1
      <4>1. 1 .. n \subseteq 1 .. n + 1
        BY <1>1
      <4>2. \A j \in 1 .. m : en[j] \in 1 .. n
        BY <1>3
      <4> QED
        BY <4>1, <4>2
    <3>2. i # m + 1 => i \in 1 .. m
      BY <1>3
    <3>3. n \in 1 .. n + 1
      BY <1>1, <1>3, <1>7
    <3> QED
      BY <3>1, <3>2, <3>3
  <2> QED
    BY <2>1, <2>2
<1> HIDE DEF st2, en2
<1>11. ASSUME NEW i \in 1 .. m + 1
       PROVE  /\ st2[i] <= en2[i] /\ en2[i] + 1 < n + 2
              /\ more.items[i] = SubSeq(longer, st2[i], en2[i])
              /\ \A p \in st2[i] .. en2[i] : longer[p] \notin delimiters
              /\ st2[i] = 1 \/ longer[st2[i] - 1] \in delimiters
              /\ longer[en2[i] + 1] \in delimiters
  <2>1. CASE i = m + 1
    <3>1. st2[i] = b /\ en2[i] = n
      BY <1>9, <2>1
    <3>2. b <= n /\ n + 1 < n + 2
      BY <1>1, <1>7
    <3>3. more.items[i] = SubSeq(longer, b, n)
      BY <1>2a, <1>3, <1>8a, <2>1
    <3>4. \A p \in b .. n : longer[p] \notin delimiters
      <4>1. \A p \in b .. n : p \in 1 .. n
        BY <1>1, <1>3
      <4> QED
        BY <1>1, <1>3, <4>1
    <3>5. b = 1 \/ longer[b - 1] \in delimiters
      <4>1. b = 1 \/ b - 1 \in 1 .. n
        BY <1>1, <1>3
      <4> QED
        BY <1>1, <1>3, <4>1
    <3>6. longer[n + 1] \in delimiters
      BY <1>1
    <3> QED
      BY <3>1, <3>2, <3>3, <3>4, <3>5, <3>6
  <2>2. CASE i # m + 1
    <3>1. i \in 1 .. m /\ st2[i] = st[i] /\ en2[i] = en[i]
      BY <1>9, <2>2
    <3>2. st[i] <= en[i] /\ en[i] + 1 < n + 2
      BY <1>1, <1>3, <1>4, <1>7, <3>1
    <3>3. more.items[i] = SubSeq(longer, st[i], en[i])
      BY <1>2a, <1>6, <3>1
    <3> QED
      BY <1>6, <3>1, <3>2, <3>3
  <2> QED
    BY <2>1, <2>2
<1>12. ASSUME NEW i \in 1 .. m + 1, NEW j \in 1 .. m + 1, i < j
       PROVE  en2[i] < st2[j]
  <2>1. i \in 1 .. m /\ en2[i] = en[i]
    BY <1>3, <1>9, <1>12
  <2>2. CASE j = m + 1
    <3>1. st2[j] = b /\ en[i] + 1 < b /\ en[i] \in 1 .. n /\ b \in 1 .. n + 1
      BY <1>3, <1>4, <1>9, <2>1, <2>2
    <3> QED
      BY <1>1, <2>1, <3>1
  <2>3. CASE j # m + 1
    BY <1>5, <1>9, <1>12, <2>1, <2>3
  <2> QED
    BY <2>2, <2>3
<1>13. ASSUME NEW p \in 1 .. (n + 2) - 1
       PROVE  longer[p] \in delimiters \/ \E i \in 1 .. m + 1 : p \in st2[i] .. en2[i]
  <2>1. p = n + 1 \/ p \in b .. n \/ (p \in 1 .. b - 1 /\ p \in 1 .. n)
    BY <1>1, <1>3
  <2>2. CASE p = n + 1
    BY <1>1, <2>2
  <2>3. CASE p \in b .. n
    <3>1. p \in st2[m + 1] .. en2[m + 1]
      BY <1>9, <2>3
    <3> QED
      BY <1>9, <3>1
  <2>4. CASE p \in 1 .. b - 1 /\ p \in 1 .. n
    <3>1. longer[p] \in delimiters \/ \E i \in 1 .. m : p \in st[i] .. en[i]
      BY <1>1, <1>5, <2>4
    <3>2. ASSUME NEW i \in 1 .. m, p \in st[i] .. en[i]
          PROVE  i \in 1 .. m + 1 /\ p \in st2[i] .. en2[i]
      BY <1>9, <3>2
    <3> QED
      BY <3>1, <3>2
  <2> QED
    BY <2>1, <2>2, <2>3, <2>4
<1>14. /\ n + 2 \in 1 .. (n + 1) + 1
       /\ longer[(n + 2) - 1] \in delimiters
       /\ \A p \in n + 2 .. n + 1 : longer[p] \notin delimiters
  BY <1>1
<1>15. m + 1 \in Nat /\ more.item = SubSeq(longer, n + 2, n + 1)
  <2>1. m + 1 \in Nat
    BY <1>3
  <2>2. more.item = SubSeq(longer, n + 2, n + 1)
    BY <1>2a, <1>8
  <2> QED
    BY <2>1, <2>2
<1>16. Marked(longer, delimiters, more, st2, en2, n + 2)
  BY <1>1, <1>2a, <1>10, <1>11, <1>12, <1>13, <1>14, <1>15 DEF Marked
<1> QED
  BY <1>16 DEF longer, n, m, more, st2, en2

(* The invariant holds of every text.                                      *)
LEMMA ScanMarks ==
    ASSUME NEW S, NEW line \in Seq(S), NEW delimiters
    PROVE  IsMarked(line, delimiters)
<1> DEFINE P == {s \in Seq(S) : IsMarked(s, delimiters)}
<1>1. <<>> \in P
  BY MarkedEmpty, EmptySeq
<1>2. ASSUME NEW s \in Seq(S), NEW e \in S, s \in P PROVE Append(s, e) \in P
  <2> DEFINE split == Scan(s, delimiters)
             more == Scan(Append(s, e), delimiters)
             m == Len(split.items)
  <2>1. PICK st, en, b : Marked(s, delimiters, split, st, en, b)
    BY <1>2 DEF IsMarked
  <2>2. split \in Splits(S) /\ Append(s, e) \in Seq(S)
    BY ScanType, AppendProperties
  <2>3. more = Behind(split, e, delimiters)
    BY ScanAppend
  <2> HIDE DEF split, more
  <2>4. \E st2, en2, b2 : Marked(Append(s, e), delimiters, more, st2, en2, b2)
    <3>1. CASE e \notin delimiters
      BY <2>1, <2>2, <2>3, <3>1, MarkedInside
    <3>2. CASE e \in delimiters /\ split.item = <<>>
      BY <2>1, <2>2, <2>3, <3>2, MarkedBlank
    <3>3. CASE e \in delimiters /\ split.item # <<>>
      BY <2>1, <2>2, <2>3, <3>3, MarkedEnd
    <3> QED
      BY <3>1, <3>2, <3>3
  <2> QED
    BY <2>2, <2>4 DEF more, IsMarked
<1> HIDE DEF P
<1>3. line \in P
  BY <1>1, <1>2, SeqInduct
<1> QED
  BY <1>3 DEF P

----
(* What split returns: the items are disjoint runs in order, and every     *)
(* symbol that is no delimiter is in one.                                  *)
Found(line, delimiters, items, st, en) ==
    LET m == Len(items) IN
    /\ m \in Nat
    /\ st \in [1 .. m -> 1 .. Len(line)]
    /\ en \in [1 .. m -> 1 .. Len(line)]
    /\ \A i \in 1 .. m :
         /\ st[i] <= en[i]
         /\ items[i] = SubSeq(line, st[i], en[i])
         /\ \A p \in st[i] .. en[i] : line[p] \notin delimiters
         /\ st[i] = 1 \/ line[st[i] - 1] \in delimiters
         /\ en[i] = Len(line) \/ line[en[i] + 1] \in delimiters
    /\ \A i, j \in 1 .. m : i < j => en[i] < st[j]
    /\ \A p \in 1 .. Len(line) :
         line[p] \in delimiters \/ \E i \in 1 .. m : p \in st[i] .. en[i]

(* What split returns of a text is what it has closed behind one more      *)
(* delimiter.                                                              *)
LEMMA SplitIsClosed ==
    ASSUME NEW S, NEW line \in Seq(S), NEW delimiters, NEW d \in delimiters \cap S
    PROVE  Split(line, delimiters) = Scan(Append(line, d), delimiters).items
<1>1. Scan(Append(line, d), delimiters) = Behind(Scan(line, delimiters), d, delimiters)
  BY ScanAppend
<1> QED
  BY <1>1 DEF Split, Behind

(* The invariant behind one more delimiter says this of every text.        *)
LEMMA SplitFinds ==
    ASSUME NEW S, NEW line \in Seq(S), NEW delimiters, delimiters # {}
    PROVE  \E st, en : Found(line, delimiters, Split(line, delimiters), st, en)
<1>1. PICK d : d \in delimiters
  OBVIOUS
<1> DEFINE SS == S \union {d}
           n == Len(line)
           longer == Append(line, d)
           items == Split(line, delimiters)
           m == Len(items)
<1>2. line \in Seq(SS) /\ d \in delimiters \cap SS
  BY <1>1, SeqMonotonic
<1>3. /\ n \in Nat /\ longer \in Seq(SS) /\ Len(longer) = n + 1
      /\ longer[n + 1] = d /\ \A i \in 1 .. n : longer[i] = line[i]
  BY <1>2, AppendProperties, LenProperties
<1>4. items = Scan(longer, delimiters).items
  BY <1>2, SplitIsClosed
<1>5. PICK st, en, b : Marked(longer, delimiters, Scan(longer, delimiters), st, en, b)
  <2> HIDE DEF longer
  <2> QED
    BY <1>3, ScanMarks DEF IsMarked
<1> HIDE DEF SS, items, n
<1>6. /\ m \in Nat
      /\ st \in [1 .. m -> 1 .. n + 1]
      /\ en \in [1 .. m -> 1 .. n + 1]
      /\ b \in 1 .. (n + 1) + 1
      /\ \A p \in b .. n + 1 : longer[p] \notin delimiters
      /\ \A i, j \in 1 .. m : i < j => en[i] < st[j]
      /\ \A p \in 1 .. b - 1 :
           longer[p] \in delimiters \/ \E i \in 1 .. m : p \in st[i] .. en[i]
  <2> HIDE DEF longer
  <2> QED
    BY <1>3, <1>4, <1>5 DEF Marked
<1>7. ASSUME NEW i \in 1 .. m
      PROVE  /\ st[i] <= en[i] /\ en[i] + 1 < b
             /\ items[i] = SubSeq(longer, st[i], en[i])
             /\ \A p \in st[i] .. en[i] : longer[p] \notin delimiters
             /\ st[i] = 1 \/ longer[st[i] - 1] \in delimiters
             /\ longer[en[i] + 1] \in delimiters
  <2> HIDE DEF longer
  <2> QED
    BY <1>3, <1>4, <1>5 DEF Marked
<1>8. b = n + 2
  <2>1. ~(n + 1 \in b .. n + 1)
    BY <1>1, <1>3, <1>6
  <2> QED
    BY <1>3, <1>6, <2>1
<1> HIDE DEF longer, m
<1>9. ASSUME NEW i \in 1 .. m
      PROVE  st[i] \in 1 .. n /\ en[i] \in 1 .. n
  <2> DEFINE x == st[i]
             y == en[i]
  <2>1. x \in 1 .. n + 1 /\ y \in 1 .. n + 1 /\ x <= y /\ y + 1 < n + 2
    BY <1>6, <1>7, <1>8
  <2> HIDE DEF x, y
  <2>2. x \in 1 .. n /\ y \in 1 .. n
    BY <1>3, <2>1
  <2> QED
    BY <2>2 DEF x, y
<1>10. ASSUME NEW i \in 1 .. m
       PROVE  /\ items[i] = SubSeq(line, st[i], en[i])
              /\ \A p \in st[i] .. en[i] : line[p] \notin delimiters
              /\ st[i] = 1 \/ line[st[i] - 1] \in delimiters
              /\ en[i] = n \/ line[en[i] + 1] \in delimiters
  <2> DEFINE x == st[i]
             y == en[i]
  <2>1. x \in 1 .. n /\ y \in 1 .. n
    BY <1>9
  <2>2. /\ items[i] = SubSeq(longer, x, y)
        /\ \A p \in x .. y : longer[p] \notin delimiters
        /\ x = 1 \/ longer[x - 1] \in delimiters
        /\ longer[y + 1] \in delimiters
    BY <1>7
  <2>3. SubSeq(longer, x, y) = SubSeq(line, x, y)
    <3>1. x \in 1 .. n + 1 /\ y \in 0 .. n /\ line \in Seq(SS) /\ d \in SS
      BY <1>2, <1>3, <2>1
    <3> HIDE DEF x, y
    <3> QED
      BY <3>1, SubSeqAppend DEF longer, n
  <2> HIDE DEF x, y
  <2>4. \A p \in x .. y : p \in 1 .. n
    BY <1>3, <2>1
  <2>5. x = 1 \/ x - 1 \in 1 .. n
    BY <1>3, <2>1
  <2>6. y = n \/ y + 1 \in 1 .. n
    BY <1>3, <2>1
  <2>7. items[i] = SubSeq(line, x, y)
    BY <2>2, <2>3
  <2>8. \A p \in x .. y : line[p] \notin delimiters
    BY <1>3, <2>2, <2>4
  <2>9. x = 1 \/ line[x - 1] \in delimiters
    BY <1>3, <2>2, <2>5
  <2>10. y = n \/ line[y + 1] \in delimiters
    BY <1>3, <2>2, <2>6
  <2> QED
    BY <2>7, <2>8, <2>9, <2>10 DEF x, y
<1>11. ASSUME NEW p \in 1 .. n
       PROVE  line[p] \in delimiters \/ \E i \in 1 .. m : p \in st[i] .. en[i]
  <2>1. p \in 1 .. b - 1
    BY <1>3, <1>8
  <2> QED
    BY <1>3, <1>6, <2>1
<1>12. st \in [1 .. m -> 1 .. n] /\ en \in [1 .. m -> 1 .. n]
  BY <1>6, <1>9
<1>13. Found(line, delimiters, items, st, en)
  <2>1. Len(items) = m /\ Len(line) = n
    BY DEF m, n
  <2> QED
    BY <1>6, <1>7, <1>10, <1>11, <1>12, <2>1 DEF Found
<1> QED
  BY <1>13 DEF items

(* The first k runs are k.                                                 *)
FirstMarks(st, en, k) == {<<st[i], en[i]>> : i \in 1 .. k}

LEMMA CountMarks ==
    ASSUME NEW m \in Nat, NEW st, NEW en,
           \A i, j \in 1 .. m : i < j => st[i] # st[j]
    PROVE  \A k \in 0 .. m : Cardinality(FirstMarks(st, en, k)) = k
<1> DEFINE part(k) == {<<st[i], en[i]>> : i \in 1 .. k}
           P == {k \in 0 .. m : IsFiniteSet(part(k)) /\ Cardinality(part(k)) = k}
<1>1. 0 \in P
  <2>1. part(0) = {}
    OBVIOUS
  <2> QED
    BY <2>1, FS_EmptySet
<1>2. ASSUME NEW k \in 1 .. m, k - 1 \in P PROVE k \in P
  <2> DEFINE x == <<st[k], en[k]>>
  <2>1. \A i : i \in 1 .. k <=> (i \in 1 .. k - 1 \/ i = k)
    OBVIOUS
  <2>2. part(k) = part(k - 1) \union {x}
    BY <2>1
  <2>3. x \notin part(k - 1)
    <3> SUFFICES ASSUME NEW i \in 1 .. k - 1, x = <<st[i], en[i]>> PROVE FALSE
      OBVIOUS
    <3>1. i \in 1 .. m /\ i < k
      OBVIOUS
    <3> QED
      BY <3>1
  <2>4. IsFiniteSet(part(k - 1)) /\ Cardinality(part(k - 1)) = k - 1
    BY <1>2
  <2> HIDE DEF part, x
  <2>5. IsFiniteSet(part(k)) /\ Cardinality(part(k)) = (k - 1) + 1
    BY <2>2, <2>3, <2>4, FS_AddElement
  <2> QED
    BY <2>5
<1>3. \A k \in 0 .. m : k \in P
  <2> HIDE DEF P
  <2> QED
    BY <1>1, <1>2, UpTo
<1> QED
  BY <1>3 DEF FirstMarks

(* Runs found are maximal ones, and in order.                              *)
LEMMA FoundRuns ==
    ASSUME NEW S, NEW line \in Seq(S), NEW delimiters, NEW items, NEW st, NEW en,
           Found(line, delimiters, items, st, en)
    PROVE  /\ \A i \in 1 .. Len(items) : <<st[i], en[i]>> \in Runs(line, delimiters)
           /\ \A i, j \in 1 .. Len(items) : i < j => st[i] < st[j]
<1> DEFINE n == Len(line)
           m == Len(items)
           inside == {i \in DOMAIN line : line[i] \notin delimiters}
           runs == Runs(line, delimiters)
<1>2. n \in Nat /\ DOMAIN line = 1 .. n
  BY LenProperties
<1>3. /\ m \in Nat
      /\ st \in [1 .. m -> 1 .. n]
      /\ en \in [1 .. m -> 1 .. n]
      /\ \A i, j \in 1 .. m : i < j => en[i] < st[j]
      /\ \A p \in 1 .. n :
           line[p] \in delimiters \/ \E i \in 1 .. m : p \in st[i] .. en[i]
  BY DEF Found
<1>4. ASSUME NEW i \in 1 .. m
      PROVE  /\ st[i] <= en[i]
             /\ items[i] = SubSeq(line, st[i], en[i])
             /\ \A p \in st[i] .. en[i] : line[p] \notin delimiters
             /\ st[i] = 1 \/ line[st[i] - 1] \in delimiters
             /\ en[i] = n \/ line[en[i] + 1] \in delimiters
  BY DEF Found
<1>5. runs = {run \in inside \X inside :
                /\ run[1] <= run[2] /\ run[1] .. run[2] \subseteq inside
                /\ run[1] - 1 \notin inside /\ run[2] + 1 \notin inside}
  BY DEF Runs
<1>6. \A p : p \in inside <=> (p \in 1 .. n /\ line[p] \notin delimiters)
  BY <1>2
<1>6a. inside \subseteq 1 .. n
  BY <1>6
<1> HIDE DEF m, n, inside, runs
<1>7. ASSUME NEW i \in 1 .. m PROVE <<st[i], en[i]>> \in runs
  <2> DEFINE x == st[i]
             y == en[i]
  <2>1. x \in 1 .. n /\ y \in 1 .. n /\ x <= y
    BY <1>3, <1>4
  <2>2. /\ \A p \in x .. y : line[p] \notin delimiters
        /\ x = 1 \/ line[x - 1] \in delimiters
        /\ y = n \/ line[y + 1] \in delimiters
    BY <1>4
  <2> HIDE DEF x, y
  <2>3. \A p \in x .. y : p \in 1 .. n
    BY <1>2, <2>1
  <2>4. x .. y \subseteq inside /\ x \in inside /\ y \in inside
    BY <1>2, <1>6, <2>1, <2>2, <2>3
  <2>5. x - 1 \notin inside
    BY <1>2, <1>6, <2>1, <2>2
  <2>6. y + 1 \notin inside
    BY <1>2, <1>6, <2>1, <2>2
  <2>7. <<x, y>> \in runs
    BY <1>5, <2>1, <2>4, <2>5, <2>6
  <2> QED
    BY <2>7 DEF x, y
<1>9. \A i, j \in 1 .. m : i < j => st[i] < st[j]
  <2> SUFFICES ASSUME NEW i \in 1 .. m, NEW j \in 1 .. m, i < j PROVE st[i] < st[j]
    OBVIOUS
  <2>1. st[i] <= en[i] /\ en[i] < st[j] /\ st[i] \in 1 .. n /\ st[j] \in 1 .. n /\ en[i] \in 1 .. n
    BY <1>3, <1>4
  <2> QED
    BY <2>1
<1> QED
  BY <1>7, <1>9 DEF runs, m

(* split returns the maximal runs of any text, in their order.             *)
THEOREM SplitReturnsRuns ==
    ASSUME NEW S, NEW line \in Seq(S), NEW delimiters, delimiters # {}
    PROVE  LET runs  == Runs(line, delimiters)
               items == Split(line, delimiters)
           IN  /\ Len(items) = Cardinality(runs)
               /\ \A run \in runs :
                    items[Cardinality({other \in runs : other[1] <= run[1]})]
                      = SubSeq(line, run[1], run[2])
<1> DEFINE n == Len(line)
           items == Split(line, delimiters)
           m == Len(items)
           inside == {i \in DOMAIN line : line[i] \notin delimiters}
           runs == Runs(line, delimiters)
<1>1. PICK st, en : Found(line, delimiters, items, st, en)
  BY SplitFinds
<1>2. n \in Nat /\ DOMAIN line = 1 .. n
  BY LenProperties
<1>3. /\ m \in Nat
      /\ st \in [1 .. m -> 1 .. n]
      /\ en \in [1 .. m -> 1 .. n]
      /\ \A i, j \in 1 .. m : i < j => en[i] < st[j]
      /\ \A p \in 1 .. n :
           line[p] \in delimiters \/ \E i \in 1 .. m : p \in st[i] .. en[i]
  <2> HIDE DEF items
  <2> QED
    BY <1>1 DEF Found
<1>4. ASSUME NEW i \in 1 .. m
      PROVE  /\ st[i] <= en[i]
             /\ items[i] = SubSeq(line, st[i], en[i])
             /\ \A p \in st[i] .. en[i] : line[p] \notin delimiters
             /\ st[i] = 1 \/ line[st[i] - 1] \in delimiters
             /\ en[i] = n \/ line[en[i] + 1] \in delimiters
  <2> HIDE DEF items
  <2> QED
    BY <1>1 DEF Found
<1>5. runs = {run \in inside \X inside :
                /\ run[1] <= run[2] /\ run[1] .. run[2] \subseteq inside
                /\ run[1] - 1 \notin inside /\ run[2] + 1 \notin inside}
  BY DEF Runs
<1>6. \A p : p \in inside <=> (p \in 1 .. n /\ line[p] \notin delimiters)
  BY <1>2
<1>6a. inside \subseteq 1 .. n
  BY <1>6
<1> HIDE DEF items, m, n, inside, runs
<1>7. \A i \in 1 .. m : <<st[i], en[i]>> \in runs
  BY <1>1, FoundRuns DEF runs, m
<1>8. ASSUME NEW run \in runs PROVE \E i \in 1 .. m : run = <<st[i], en[i]>>
  <2>1. /\ run \in inside \X inside /\ run = <<run[1], run[2]>>
        /\ run[1] \in inside /\ run[2] \in inside /\ run[1] <= run[2]
        /\ run[1] .. run[2] \subseteq inside
        /\ run[1] - 1 \notin inside /\ run[2] + 1 \notin inside
    BY <1>5
  <2> DEFINE a == run[1]
             z == run[2]
  <2>2. a \in 1 .. n /\ z \in 1 .. n /\ a <= z
    BY <1>6a, <2>1
  <2>3. PICK i \in 1 .. m : a \in st[i] .. en[i]
    BY <1>3, <1>6, <2>1
  <2> DEFINE x == st[i]
             y == en[i]
  <2>4. /\ x \in 1 .. n /\ y \in 1 .. n
        /\ \A p \in x .. y : line[p] \notin delimiters
        /\ y = n \/ line[y + 1] \in delimiters
    BY <1>3, <1>4
  <2>5. a \in x .. y /\ a - 1 \notin inside /\ z + 1 \notin inside /\ a .. z \subseteq inside
    BY <2>1, <2>3
  <2>5a. run = <<a, z>>
    BY <2>1
  <2> HIDE DEF a, z, x, y
  <2>6. a = x
    <3> SUFFICES ASSUME x < a PROVE FALSE
      BY <1>2, <2>2, <2>4, <2>5
    <3>1. a - 1 \in x .. y /\ a - 1 \in 1 .. n
      BY <1>2, <2>2, <2>4, <2>5
    <3> QED
      BY <1>6, <2>4, <2>5, <3>1
  <2>7. ~(z < y)
    <3> SUFFICES ASSUME z < y PROVE FALSE
      OBVIOUS
    <3>1. z + 1 \in x .. y /\ z + 1 \in 1 .. n
      BY <1>2, <2>2, <2>4, <2>5
    <3> QED
      BY <1>6, <2>4, <2>5, <3>1
  <2>8. ~(y < z)
    <3> SUFFICES ASSUME y < z PROVE FALSE
      OBVIOUS
    <3>1. y + 1 \in a .. z /\ y # n
      BY <1>2, <2>2, <2>4, <2>5
    <3>2. y + 1 \in inside
      BY <2>5, <3>1
    <3> QED
      BY <1>6, <2>4, <3>1, <3>2
  <2>9. y = z
    BY <2>2, <2>4, <2>7, <2>8
  <2> QED
    BY <2>5a, <2>6, <2>9 DEF x, y
<1>9. \A i, j \in 1 .. m : i < j => st[i] < st[j]
  BY <1>1, FoundRuns DEF m
<1>10. \A i, j \in 1 .. m : i < j => st[i] # st[j]
  <2> SUFFICES ASSUME NEW i \in 1 .. m, NEW j \in 1 .. m, i < j PROVE st[i] # st[j]
    OBVIOUS
  <2>1. st[i] < st[j] /\ st[i] \in 1 .. n
    BY <1>3, <1>9
  <2> QED
    BY <2>1
<1>11. \A k \in 0 .. m : Cardinality(FirstMarks(st, en, k)) = k
  BY <1>3, <1>10, CountMarks
<1>12. runs = {<<st[i], en[i]>> : i \in 1 .. m}
  BY <1>7, <1>8
<1>13. Cardinality(runs) = m
  <2>1. m \in 0 .. m
    BY <1>3
  <2> QED
    BY <1>11, <1>12, <2>1 DEF FirstMarks
<1>14. ASSUME NEW run \in runs
       PROVE  items[Cardinality({other \in runs : other[1] <= run[1]})]
                = SubSeq(line, run[1], run[2])
  <2>1. PICK k \in 1 .. m : run = <<st[k], en[k]>>
    BY <1>8
  <2> DEFINE before == {other \in runs : other[1] <= run[1]}
             part == {<<st[i], en[i]>> : i \in 1 .. k}
  <2>2. \A i \in 1 .. m : st[i] <= st[k] <=> i \in 1 .. k
    <3> SUFFICES ASSUME NEW i \in 1 .. m PROVE st[i] <= st[k] <=> i <= k
      OBVIOUS
    <3>1. st[i] \in 1 .. n /\ st[k] \in 1 .. n
      BY <1>3
    <3>2. (i < k => st[i] < st[k]) /\ (k < i => st[k] < st[i]) /\ (i = k => st[i] = st[k])
      BY <1>9
    <3>3. i < k \/ k < i \/ i = k
      OBVIOUS
    <3> QED
      BY <3>1, <3>2, <3>3
  <2>3. run[1] = st[k] /\ run[2] = en[k]
    BY <2>1
  <2>4. before \subseteq part
    <3> SUFFICES ASSUME NEW other \in runs, other[1] <= st[k] PROVE other \in part
      BY <2>3
    <3>1. PICK i \in 1 .. m : other = <<st[i], en[i]>>
      BY <1>8
    <3>2. i \in 1 .. k
      BY <2>2, <3>1
    <3> QED
      BY <3>1, <3>2
  <2>5. part \subseteq before
    <3> SUFFICES ASSUME NEW i \in 1 .. k PROVE <<st[i], en[i]>> \in before
      OBVIOUS
    <3>1. i \in 1 .. m
      BY <1>3
    <3>2. <<st[i], en[i]>> \in runs /\ st[i] <= st[k]
      BY <1>7, <2>2, <3>1
    <3> QED
      BY <2>3, <3>2
  <2>6. before = part
    BY <2>4, <2>5
  <2>7. Cardinality(part) = k
    <3>1. k \in 0 .. m
      BY <1>3
    <3> QED
      BY <1>11, <3>1 DEF FirstMarks
  <2>8. items[k] = SubSeq(line, st[k], en[k])
    BY <1>4
  <2> QED
    BY <2>3, <2>6, <2>7, <2>8
<1> QED
  BY <1>13, <1>14 DEF runs, items, m

----
(* find returns the first place of a name that is in the line.             *)
LEMMA FindFirst ==
    ASSUME NEW S, NEW line \in Seq(S), NEW name, Contains(line, name)
    PROVE  /\ Find(name, line) \in 1 .. Len(line) /\ line[Find(name, line)] = name
           /\ \A j \in 1 .. Find(name, line) - 1 : line[j] # name
<1> DEFINE n == Len(line)
           places == {i \in 1 .. n : line[i] = name}
<1>1. n \in Nat /\ DOMAIN line = 1 .. n
  BY LenProperties
<1>2. places # {} /\ places \subseteq Nat
  BY <1>1 DEF Contains
<1>3. PICK x \in places : \A y \in places : x <= y
  <2> HIDE DEF places
  <2> QED
    BY <1>2, Least
<1>4. x \in 1 .. n /\ line[x] = name /\ \A j \in 1 .. x - 1 : line[j] # name
  <2>1. x \in 1 .. n /\ line[x] = name
    BY <1>3
  <2>2. ASSUME NEW j \in 1 .. x - 1, line[j] = name PROVE FALSE
    <3>1. j \in 1 .. n /\ j < x
      BY <1>1, <2>1
    <3>2. x <= j
      BY <1>3, <2>2, <3>1
    <3> QED
      BY <1>1, <2>1, <3>1, <3>2
  <2> QED
    BY <2>1, <2>2
<1>5. \E i \in DOMAIN line : line[i] = name /\ \A j \in 1 .. i - 1 : line[j] # name
  BY <1>1, <1>4
<1>6. /\ Find(name, line) \in DOMAIN line
      /\ line[Find(name, line)] = name
      /\ \A j \in 1 .. Find(name, line) - 1 : line[j] # name
  BY <1>5 DEF Find
<1> QED
  BY <1>1, <1>6

LEMMA HeaderValueType ==
    ASSUME NEW S, NEW line \in Seq(S), NEW name, Contains(line, name)
    PROVE  HeaderValue(name, line) \in Seq(S)
<1> DEFINE f == Find(name, line)
<1>1. f \in 1 .. Len(line) /\ Len(line) \in Nat
  BY FindFirst, LenProperties
<1> HIDE DEF f
<1>2. ASSUME NEW i \in f + 2 .. Len(line) PROVE i \in 1 .. Len(line)
  BY <1>1
<1>3. SubSeq(line, f + 2, Len(line)) \in Seq(S)
  <2>1. f + 2 \in Int /\ Len(line) \in Int /\ \A i \in f + 2 .. Len(line) : line[i] \in S
    BY <1>1, <1>2, ElementOfSeq
  <2> QED
    BY <1>1, <1>2, SubSeqProperties
<1> QED
  BY <1>3 DEF HeaderValue, f

(* A line of two symbols has no value behind its name.                     *)
LEMMA HeaderValueShort ==
    ASSUME NEW S, NEW line \in Seq(S), NEW name, Contains(line, name), Len(line) <= 2
    PROVE  HeaderValue(name, line) = <<>>
<1> DEFINE f == Find(name, line)
<1>1. f \in 1 .. Len(line) /\ Len(line) \in Nat
  BY FindFirst, LenProperties
<1> HIDE DEF f
<1>2. f + 2 \in Int /\ Len(line) \in Int /\ f + 2 > Len(line)
  BY <1>1
<1>3. SubSeq(line, f + 2, Len(line)) = <<>>
  BY <1>2, SubSeqEmpty
<1> QED
  BY <1>3 DEF HeaderValue, f

(* The value behind a name that starts the line is what follows the blank. *)
LEMMA HeaderValueOf ==
    ASSUME NEW S, NEW line \in Seq(S), NEW name, Len(line) > 2, line[1] = name
    PROVE  /\ HeaderValue(name, line) = SubSeq(line, 3, Len(line))
           /\ HeaderValue(name, line) # <<>>
<1> DEFINE f == Find(name, line)
           n == Len(line)
<1>1. n \in Nat /\ n > 2 /\ DOMAIN line = 1 .. n
  BY LenProperties
<1>3. Contains(line, name)
  <2>1. 1 \in 1 .. n
    BY <1>1
  <2> QED
    BY <2>1 DEF Contains
<1>4. f \in 1 .. n /\ \A j \in 1 .. f - 1 : line[j] # name
  BY <1>3, FindFirst
<1>5. SubSeq(line, 3, n) # <<>>
  <2>1. Len(SubSeq(line, 3, n)) = n - 3 + 1
    BY <1>1, SubSeqProperties
  <2> HIDE DEF n
  <2>2. n - 3 + 1 # 0
    BY <1>1
  <2> QED
    BY <2>1, <2>2, EmptySeq
<1> HIDE DEF f, n
<1>6. f = 1
  <2>1. CASE f > 1
    <3>1. 1 \in 1 .. f - 1
      BY <1>1, <1>4, <2>1
    <3> QED
      BY <1>4, <3>1
  <2> QED
    BY <1>1, <1>4, <2>1
<1>7. f + 2 = 3
  BY <1>6
<1> QED
  BY <1>5, <1>7 DEF HeaderValue, f, n

LEMMA HostBehindType ==
    ASSUME NEW S, NEW host \in Seq(S), NEW line \in Seq(S)
    PROVE  HostBehind(host, line) \in Seq(S)
  BY HeaderValueType DEF HostBehind

(* h is the run of the loop over the header lines.                         *)
HostSteps(S, request, lines, h) ==
    /\ h \in [0 .. Len(lines) -> Seq(S)]
    /\ h[0] = request.host
    /\ \A i \in 1 .. Len(lines) : h[i] = HostBehind(h[i - 1], lines[i])
    /\ HostFrom(request, lines) = h[Len(lines)]

LEMMA HostEquation ==
    ASSUME NEW S, NEW request, request.host \in Seq(S), NEW lines \in Seq(Seq(S))
    PROVE  \E h : HostSteps(S, request, lines, h)
<1> DEFINE n == Len(lines)
           base == request.host
           step == [x \in Seq(S) \X (1 .. n) |-> HostBehind(x[1], lines[x[2]])]
           Rec(g) == g = [i \in 0 .. n |-> IF i = 0 THEN base
                                           ELSE HostBehind(g[i - 1], lines[i])]
           host == CHOOSE g : Rec(g)
<1>1. n \in Nat /\ \A i \in 1 .. n : lines[i] \in Seq(S)
  BY LenProperties, ElementOfSeq
<1>2. base \in Seq(S)
  OBVIOUS
<1>3. step \in [Seq(S) \X (1 .. n) -> Seq(S)]
  <2>1. ASSUME NEW x \in Seq(S) \X (1 .. n)
        PROVE  HostBehind(x[1], lines[x[2]]) \in Seq(S)
    <3>1. x[1] \in Seq(S) /\ lines[x[2]] \in Seq(S)
      BY <1>1
    <3> QED
      BY <3>1, HostBehindType
  <2> QED
    BY <2>1
<1>4. PICK f \in [0 .. n -> Seq(S)] :
        f[0] = base /\ \A i \in 1 .. n : f[i] = step[<<f[i - 1], i>>]
  <2>1. Solvable(n, Seq(S), base, step)
    <3> HIDE DEF n, base, step
    <3> QED
      BY <1>1, <1>2, <1>3, Solution
  <2> QED
    BY <2>1 DEF Solvable
<1>5. \A i \in 1 .. n : f[i - 1] \in Seq(S) /\ <<f[i - 1], i>> \in Seq(S) \X (1 .. n)
  <2> DEFINE V == Seq(S)
  <2>1. f \in [0 .. n -> V] /\ \A i \in 1 .. n : i - 1 \in 0 .. n
    BY <1>1, <1>4
  <2> HIDE DEF V
  <2>2. \A i \in 1 .. n : f[i - 1] \in V /\ <<f[i - 1], i>> \in V \X (1 .. n)
    BY <2>1
  <2> QED
    BY <2>2 DEF V
<1>6. \A i \in 1 .. n : f[i] = HostBehind(f[i - 1], lines[i])
  BY <1>4, <1>5
<1>7. Rec(f)
  <2> HIDE DEF step, base
  <2>1. \A i \in 0 .. n : i # 0 => i \in 1 .. n
    BY <1>1
  <2>2. \A i \in 0 .. n : f[i] = IF i = 0 THEN base ELSE HostBehind(f[i - 1], lines[i])
    BY <1>4, <1>6, <2>1
  <2>3. f = [i \in 0 .. n |-> f[i]]
    BY <1>4
  <2> QED
    BY <2>2, <2>3
<1>8. Rec(host)
  <2> HIDE DEF Rec
  <2> QED
    BY <1>7
<1>9. HostFrom(request, lines) = host[n]
  BY Zenon DEF HostFrom
<1> HIDE DEF host
<1>10. host[0] = base /\ \A i \in 1 .. n : host[i] = HostBehind(host[i - 1], lines[i])
  <2>1. \A i \in 1 .. n : i \in 0 .. n /\ i # 0
    BY <1>1
  <2>2. 0 \in 0 .. n
    BY <1>1
  <2> QED
    BY <1>8, <2>1, <2>2
<1>11. host = f
  <2> DEFINE Same == {i \in 0 .. n : host[i] = f[i]}
  <2>1. 0 \in Same
    BY <1>1, <1>4, <1>10
  <2>2. \A i \in 1 .. n : i - 1 \in Same => i \in Same
    <3> HIDE DEF step, base
    <3>1. \A i \in 1 .. n : i \in 0 .. n
      BY <1>1
    <3> QED
      BY <1>6, <1>10, <3>1
  <2>3. \A i \in 0 .. n : i \in Same
    <3> HIDE DEF Same
    <3> QED
      BY <1>1, <2>1, <2>2, UpTo
  <2>4. DOMAIN host = 0 .. n /\ host = [i \in 0 .. n |-> host[i]]
    BY <1>8
  <2> QED
    BY <1>4, <2>3, <2>4
<1> QED
  BY <1>4, <1>6, <1>9, <1>11 DEF HostSteps

(* A host that is there stays.                                             *)
LEMMA HostKept ==
    ASSUME NEW S, NEW request, request.host \in Seq(S), NEW lines \in Seq(Seq(S)),
           request.host # <<>>
    PROVE  HostFrom(request, lines) = request.host
<1> DEFINE n == Len(lines)
<1>1. n \in Nat
  BY LenProperties
<1>2. PICK h : HostSteps(S, request, lines, h)
  BY HostEquation
<1>3. /\ h[0] = request.host
      /\ \A i \in 1 .. n : h[i] = HostBehind(h[i - 1], lines[i])
      /\ HostFrom(request, lines) = h[n]
  BY <1>2 DEF HostSteps
<1> DEFINE P == {i \in 0 .. n : h[i] = request.host}
<1>4. 0 \in P
  BY <1>1, <1>3
<1>5. \A i \in 1 .. n : i - 1 \in P => i \in P
  BY <1>1, <1>3 DEF HostBehind
<1> HIDE DEF P, n
<1>6. n \in P
  <2>1. \A i \in 0 .. n : i \in P
    BY <1>1, <1>4, <1>5, UpTo
  <2> QED
    BY <1>1, <2>1
<1> QED
  BY <1>3, <1>6 DEF P

(* The lines with a value behind "Host:".                                  *)
WithHost(lines) == {i \in DOMAIN lines : Contains(lines[i], "Host:") /\ Len(lines[i]) > 2}

(* Without one, it is that of the first line with a Host: field that is    *)
(* not empty.                                                              *)
LEMMA HostOfFirst ==
    ASSUME NEW S, NEW request, request.host = <<>>, NEW lines \in Seq(Seq(S)),
           \A i \in WithHost(lines) : lines[i][1] = "Host:"
    PROVE  LET host == HostFrom(request, lines) IN
           /\ host = <<>> <=> WithHost(lines) = {}
           /\ host # <<>> => \E i \in WithHost(lines) :
                               /\ \A j \in WithHost(lines) : i <= j
                               /\ host = SubSeq(lines[i], 3, Len(lines[i]))
<1> DEFINE n == Len(lines)
           F == WithHost(lines)
           First(i, k) == i \in F /\ i <= k /\ \A j \in F : i <= j
           Value(i) == SubSeq(lines[i], 3, Len(lines[i]))
<1>1. /\ n \in Nat /\ DOMAIN lines = 1 .. n /\ \A i \in 1 .. n : lines[i] \in Seq(S)
      /\ request.host \in Seq(S)
  BY LenProperties, ElementOfSeq, EmptySeq
<1>2. PICK h : HostSteps(S, request, lines, h)
  BY <1>1, HostEquation
<1>3. /\ h[0] = <<>>
      /\ \A i \in 1 .. n : h[i] = HostBehind(h[i - 1], lines[i])
      /\ HostFrom(request, lines) = h[n]
  BY <1>2 DEF HostSteps
<1>4. F \subseteq 1 .. n
  BY <1>1 DEF WithHost
<1>5. ASSUME NEW i \in F PROVE HostBehind(<<>>, lines[i]) = Value(i) /\ Value(i) # <<>>
  <2>1. /\ i \in 1 .. n /\ lines[i] \in Seq(S) /\ Contains(lines[i], "Host:")
        /\ Len(lines[i]) > 2 /\ lines[i][1] = "Host:"
    BY <1>1, <1>4 DEF WithHost
  <2>2. HeaderValue("Host:", lines[i]) = Value(i) /\ HeaderValue("Host:", lines[i]) # <<>>
    BY <2>1, HeaderValueOf
  <2> QED
    BY <2>1, <2>2 DEF HostBehind
<1>6. ASSUME NEW i \in 1 .. n, i \notin F PROVE HostBehind(<<>>, lines[i]) = <<>>
  <2>1. CASE ~Contains(lines[i], "Host:")
    BY <2>1 DEF HostBehind
  <2>2. CASE Contains(lines[i], "Host:")
    <3>1. lines[i] \in Seq(S) /\ Len(lines[i]) \in Nat /\ Len(lines[i]) <= 2
      BY <1>1, <1>6, <2>2, LenProperties DEF WithHost
    <3>2. HeaderValue("Host:", lines[i]) = <<>>
      BY <2>2, <3>1, HeaderValueShort
    <3> QED
      BY <3>2 DEF HostBehind
  <2> QED
    BY <2>1, <2>2
<1> HIDE DEF F, n, Value
<1> DEFINE P == {k \in 0 .. n :
                   \/ h[k] = <<>> /\ \A i \in F : i > k
                   \/ h[k] # <<>> /\ \E i \in F : First(i, k) /\ h[k] = Value(i)}
<1>7. 0 \in P
  <2>1. \A i \in F : i > 0
    BY <1>1, <1>4
  <2> QED
    BY <1>1, <1>3, <2>1
<1>8. ASSUME NEW k \in 1 .. n, k - 1 \in P PROVE k \in P
  <2>1. h[k] = HostBehind(h[k - 1], lines[k])
    BY <1>3
  <2>2. CASE h[k - 1] = <<>> /\ \A i \in F : i > k - 1
    <3>1. \A i \in F : i \in Int /\ i >= k
      BY <1>1, <1>4, <2>2
    <3>2. CASE k \in F
      <4>1. h[k] = Value(k) /\ Value(k) # <<>>
        BY <1>5, <2>1, <2>2, <3>2
      <4>2. First(k, k)
        BY <3>1, <3>2
      <4> QED
        BY <3>2, <4>1, <4>2
    <3>3. CASE k \notin F
      <4>1. h[k] = <<>>
        BY <1>6, <2>1, <2>2, <3>3
      <4>2. \A i \in F : i > k
        BY <3>1, <3>3
      <4> QED
        BY <4>1, <4>2
    <3> QED
      BY <3>2, <3>3
  <2>3. CASE h[k - 1] # <<>> /\ \E i \in F : First(i, k - 1) /\ h[k - 1] = Value(i)
    <3>1. h[k] = h[k - 1]
      BY <2>1, <2>3 DEF HostBehind
    <3>2. PICK i \in F : First(i, k - 1) /\ h[k - 1] = Value(i)
      BY <2>3
    <3>3. First(i, k)
      BY <1>1, <1>4, <3>2
    <3> QED
      BY <2>3, <3>1, <3>2, <3>3
  <2> QED
    BY <1>8, <2>2, <2>3
<1>9. n \in P
  <2> HIDE DEF P
  <2>1. \A k \in 0 .. n : k \in P
    BY <1>1, <1>7, <1>8, UpTo
  <2> QED
    BY <1>1, <2>1
<1>10. CASE h[n] = <<>> /\ \A i \in F : i > n
  <2>1. F = {}
    BY <1>1, <1>4, <1>10
  <2> QED
    BY <1>3, <1>10, <2>1 DEF F
<1>11. CASE h[n] # <<>> /\ \E i \in F : First(i, n) /\ h[n] = Value(i)
  BY <1>3, <1>11 DEF F, Value
<1> QED
  BY <1>9, <1>10, <1>11

----
(* The symbols of a line, and of a text.                                   *)
InLine == Plain \union {" ", ":", "Host:"}
InText == InLine \union {"CR", "LF"}
Requests == [method : Methods, target : Targets, version : BOOLEAN]

LEMMA AppendPair ==
    ASSUME NEW S, NEW a \in S, NEW b \in S
    PROVE  Append(<<a>>, b) = <<a, b>>
<1> DEFINE s == Append(<<a>>, b)
           t == <<a, b>>
<1>2. s \in Seq(S) /\ Len(s) = 2 /\ s[1] = a /\ s[2] = b
  BY AppendProperties
<1>3. t \in Seq(S) /\ Len(t) = 2 /\ t[1] = a /\ t[2] = b
  OBVIOUS
<1> HIDE DEF s, t
<1>4. \A i \in 1 .. 2 : s[i] = t[i]
  <2>1. \A i \in 1 .. 2 : i = 1 \/ i = 2
    OBVIOUS
  <2> QED
    BY <1>2, <1>3, <2>1
<1>5. s = t
  BY <1>2, <1>3, <1>4, SeqEqual
<1> QED
  BY <1>5 DEF s, t

LEMMA AppendTriple ==
    ASSUME NEW S, NEW a \in S, NEW b \in S, NEW c \in S
    PROVE  Append(<<a, b>>, c) = <<a, b, c>>
<1> DEFINE s == Append(<<a, b>>, c)
           t == <<a, b, c>>
<1>1. <<a, b>> \in Seq(S) /\ Len(<<a, b>>) = 2 /\ <<a, b>>[1] = a /\ <<a, b>>[2] = b
  OBVIOUS
<1>2. s \in Seq(S) /\ Len(s) = 3 /\ s[1] = a /\ s[2] = b /\ s[3] = c
  BY <1>1, AppendProperties
<1>3. t \in Seq(S) /\ Len(t) = 3 /\ t[1] = a /\ t[2] = b /\ t[3] = c
  OBVIOUS
<1> HIDE DEF s, t
<1>4. \A i \in 1 .. 3 : s[i] = t[i]
  <2>1. \A i \in 1 .. 3 : i = 1 \/ i = 2 \/ i = 3
    OBVIOUS
  <2> QED
    BY <1>2, <1>3, <2>1
<1>5. s = t
  BY <1>2, <1>3, <1>4, SeqEqual
<1> QED
  BY <1>5 DEF s, t

LEMMA ShortSeqs ==
    ASSUME NEW S, NEW a \in S, NEW b \in S
    PROVE  /\ <<a>> \in Seq(S) /\ <<a>> # <<>>
           /\ <<a, b>> \in Seq(S) /\ Len(<<a, b>>) = 2
  OBVIOUS

LEMMA ConcatPair ==
    ASSUME NEW S, NEW s \in Seq(S), NEW a \in S, NEW b \in S
    PROVE  s \o <<a, b>> = Append(Append(s, a), b)
  OBVIOUS

(* What a delimiter does to a state of the loop, and what another symbol   *)
(* does.                                                                   *)
LEMMA ScanBlank ==
    ASSUME NEW S, NEW line \in Seq(S), NEW symbol \in S, NEW delimiters, symbol \in delimiters
    PROVE  LET split == Scan(line, delimiters) IN
           Scan(Append(line, symbol), delimiters)
             = [items |-> IF split.item = <<>> THEN split.items
                          ELSE Append(split.items, split.item),
                item  |-> <<>>]
<1> DEFINE split == Scan(line, delimiters)
<1>1. Scan(Append(line, symbol), delimiters) = Cut(split)
  BY ScanAppend DEF Behind
<1>2. split = [items |-> split.items, item |-> split.item]
  BY ScanType DEF Splits
<1> HIDE DEF split
<1>3. Cut(split) = [items |-> IF split.item = <<>> THEN split.items
                              ELSE Append(split.items, split.item),
                    item  |-> <<>>]
  BY <1>2 DEF Cut
<1> QED
  BY <1>1, <1>3 DEF split

LEMMA ScanSymbol ==
    ASSUME NEW S, NEW line \in Seq(S), NEW symbol \in S, NEW delimiters, symbol \notin delimiters
    PROVE  LET split == Scan(line, delimiters) IN
           Scan(Append(line, symbol), delimiters)
             = [items |-> split.items, item |-> Append(split.item, symbol)]
<1> DEFINE split == Scan(line, delimiters)
<1>1. Scan(Append(line, symbol), delimiters) = [split EXCEPT !.item = Append(@, symbol)]
  BY ScanAppend DEF Behind
<1>2. split = [items |-> split.items, item |-> split.item]
  BY ScanType DEF Splits
<1> HIDE DEF split
<1> QED
  BY <1>1, <1>2 DEF split

(* A request line is never empty, and only its two blanks are blanks.      *)
LEMMA RequestLineType ==
    ASSUME NEW line \in Requests
    PROVE  /\ RequestLine(line) \in Seq(InLine) /\ RequestLine(line) # <<>>
           /\ line.target \in Seq(InLine) /\ line.method \in InLine /\ line.method # " "
           /\ \A i \in 1 .. Len(line.target) : line.target[i] \notin {" "}
<1> DEFINE start == <<line.method, " ">>
           target == line.target
           end == IF line.version THEN <<" ", "1.1">> ELSE <<>>
<1>1. line.method \in Plain /\ line.method \in InLine /\ " " \in InLine /\ "1.1" \in InLine
  BY SymbolsAssumption DEF Requests, InLine
<1>2. line.method # " "
  BY <1>1, SymbolsAssumption
<1>3. target \in Seq(Plain \union {":"})
  BY TargetsAssumption DEF Requests
<1>4. target \in Seq(InLine)
  BY <1>3, SeqMonotonic DEF InLine
<1>5. \A i \in 1 .. Len(target) : target[i] \notin {" "}
  <2> HIDE DEF target
  <2>1. \A i \in 1 .. Len(target) : target[i] \in Plain \union {":"}
    BY <1>3, ElementOfSeq
  <2>2. " " \notin Plain \union {":"}
    BY SymbolsAssumption
  <2> QED
    BY <2>1, <2>2
<1>6. start \in Seq(InLine) /\ end \in Seq(InLine) /\ Len(start) = 2
  <2>1. <<" ", "1.1">> \in Seq(InLine) /\ <<>> \in Seq(InLine)
    BY <1>1, ShortSeqs, EmptySeq
  <2>2. start \in Seq(InLine) /\ Len(start) = 2
    BY <1>1, ShortSeqs
  <2> QED
    BY <2>1, <2>2
<1> HIDE DEF start, target, end
<1>7. /\ start \o target \o end \in Seq(InLine)
      /\ Len(start \o target \o end) = Len(start \o target) + Len(end)
  BY <1>4, <1>6, ConcatProperties
<1>8. Len(start \o target) = 2 + Len(target) /\ Len(target) \in Nat /\ Len(end) \in Nat
  <2>1. Len(target) \in Nat /\ Len(end) \in Nat
    BY <1>4, <1>6, LenProperties
  <2>2. Len(start \o target) = Len(start) + Len(target)
    BY <1>4, <1>6, ConcatProperties
  <2> QED
    BY <1>6, <2>1, <2>2
<1>9. start \o target \o end # <<>>
  BY <1>7, <1>8, EmptySeq
<1>10. RequestLine(line) = start \o target \o end
  BY DEF RequestLine, start, target, end
<1> QED
  BY <1>1, <1>2, <1>4, <1>5, <1>7, <1>9, <1>10 DEF target

(* The fields of a request line: an empty target is none.                  *)
FieldsOf(line) ==
    IF line.target = <<>>
      THEN IF line.version THEN <<<<line.method>>, <<"1.1">>>> ELSE <<<<line.method>>>>
      ELSE IF line.version THEN <<<<line.method>>, line.target, <<"1.1">>>>
           ELSE <<<<line.method>>, line.target>>

(* The request line splits into these fields.                              *)
LEMMA RequestLineSplit ==
    ASSUME NEW line \in Requests
    PROVE  Split(RequestLine(line), {" "}) = FieldsOf(line)
<1> DEFINE m == line.method
           t == line.target
           D == {" "}
           start == <<m, " ">>
           Two == IF t = <<>> THEN <<<<m>>>> ELSE <<<<m>>, t>>
<1>1. m \in InLine /\ m \notin D /\ " " \in InLine /\ " " \in D /\ t \in Seq(InLine)
      /\ \A i \in 1 .. Len(t) : t[i] \notin D
  BY RequestLineType DEF InLine
<1>1a. "1.1" \in InLine /\ "1.1" \notin D
  BY SymbolsAssumption DEF InLine
<1>1b. <<m>> \in Seq(InLine) /\ <<"1.1">> \in Seq(InLine) /\ <<m>> # <<>> /\ <<"1.1">> # <<>>
  BY <1>1, <1>1a, ShortSeqs
<1> HIDE DEF m, t, D
<1>2. Scan(<<>>, D) = [items |-> <<>>, item |-> <<>>]
  BY ScanEmpty
<1>3. Scan(<<m>>, D) = [items |-> <<>>, item |-> <<m>>]
  <2>1. <<>> \in Seq(InLine) /\ Append(<<>>, m) = <<m>>
    OBVIOUS
  <2>2. Scan(Append(<<>>, m), D) = [items |-> Scan(<<>>, D).items,
                                    item |-> Append(Scan(<<>>, D).item, m)]
    BY <1>1, <2>1, ScanSymbol
  <2> QED
    BY <1>2, <2>1, <2>2
<1>4. Scan(start, D) = [items |-> <<<<m>>>>, item |-> <<>>]
  <2>1. <<m>> \in Seq(InLine) /\ Append(<<m>>, " ") = start /\ <<m>> # <<>>
    <3>1. Append(<<m>>, " ") = start
      BY <1>1, AppendPair
    <3>2. <<m>> \in Seq(InLine) /\ <<m>> # <<>>
      BY <1>1b
    <3> QED
      BY <3>1, <3>2
  <2>2. Scan(Append(<<m>>, " "), D)
          = [items |-> IF Scan(<<m>>, D).item = <<>> THEN Scan(<<m>>, D).items
                       ELSE Append(Scan(<<m>>, D).items, Scan(<<m>>, D).item),
             item  |-> <<>>]
    BY <1>1, <2>1, ScanBlank
  <2>3. Append(<<>>, <<m>>) = <<<<m>>>>
    OBVIOUS
  <2> HIDE DEF start
  <2>4. Scan(<<m>>, D).item = <<m>> /\ Scan(<<m>>, D).items = <<>>
    BY <1>3
  <2> QED
    BY <2>1, <2>2, <2>3, <2>4
<1>5. start \in Seq(InLine)
  <2>1. m \in InLine /\ " " \in InLine
    BY <1>1
  <2> QED
    BY <2>1, ShortSeqs
<1> HIDE DEF start
<1>6. Scan(start \o t, D) = [items |-> <<<<m>>>>, item |-> t]
  <2>1. Scan(start \o t, D) = [items |-> Scan(start, D).items, item |-> Scan(start, D).item \o t]
    BY <1>1, <1>5, ScanWord
  <2>2. <<>> \o t = t
    BY <1>1, ConcatEmptySeq
  <2> QED
    BY <1>4, <2>1, <2>2
<1>7. start \o t \in Seq(InLine)
  BY <1>1, <1>5, ConcatProperties
<1>8. CASE ~line.version
  <2>1. RequestLine(line) = start \o t
    <3>1. (start \o t) \o <<>> = start \o t
      BY <1>7, ConcatEmptySeq
    <3> QED
      BY <1>8, <3>1 DEF RequestLine, start, m, t
  <2>2. Split(start \o t, D) = IF t = <<>> THEN <<<<m>>>> ELSE Append(<<<<m>>>>, t)
    BY <1>6 DEF Split, Cut
  <2>3. Append(<<<<m>>>>, t) = <<<<m>>, t>>
    BY <1>1, <1>1b, AppendPair
  <2> QED
    BY <1>8, <2>1, <2>2, <2>3 DEF FieldsOf, m, t, D
<1>9. CASE line.version
  <2> DEFINE s1 == Append(start \o t, " ")
             s2 == Append(s1, "1.1")
  <2>1. RequestLine(line) = s2
    <3> DEFINE q == start \o t
    <3>1. q \o <<" ", "1.1">> = Append(Append(q, " "), "1.1")
      <4>1. q \in Seq(InLine)
        BY <1>7
      <4>2. " " \in InLine /\ "1.1" \in InLine
        BY <1>1, <1>1a
      <4> HIDE DEF q
      <4>3. \A b, v \in InLine : q \o <<b, v>> = Append(Append(q, b), v)
        BY <4>1, ConcatPair
      <4> QED
        BY <4>2, <4>3, Zenon
    <3> QED
      BY <1>9, <3>1 DEF RequestLine, start, m, t
  <2>2. s1 \in Seq(InLine) /\ s2 \in Seq(InLine)
    BY <1>1, <1>1a, <1>7, AppendProperties
  <2>3. Scan(s1, D) = [items |-> Two, item |-> <<>>]
    <3>1. Scan(s1, D) = [items |-> IF Scan(start \o t, D).item = <<>> THEN Scan(start \o t, D).items
                                   ELSE Append(Scan(start \o t, D).items, Scan(start \o t, D).item),
                         item  |-> <<>>]
      BY <1>1, <1>7, ScanBlank
    <3>2. Append(<<<<m>>>>, t) = <<<<m>>, t>>
      BY <1>1, <1>1b, AppendPair
    <3> HIDE DEF s1
    <3> QED
      BY <1>6, <3>1, <3>2
  <2> HIDE DEF s1
  <2>4. Scan(s2, D) = [items |-> Two, item |-> <<"1.1">>]
    <3>1. Scan(s2, D) = [items |-> Scan(s1, D).items, item |-> Append(Scan(s1, D).item, "1.1")]
      BY <1>1a, <2>2, ScanSymbol
    <3>2. Append(<<>>, "1.1") = <<"1.1">>
      OBVIOUS
    <3> HIDE DEF s2, Two
    <3> QED
      BY <2>3, <3>1, <3>2
  <2> HIDE DEF s2
  <2>5. Split(s2, D) = Append(Two, <<"1.1">>)
    <3>1. <<"1.1">> # <<>>
      BY <1>1b
    <3> HIDE DEF Two
    <3> QED
      BY <2>4, <3>1 DEF Split, Cut
  <2>6. Append(Two, <<"1.1">>) = IF t = <<>> THEN <<<<m>>, <<"1.1">>>> ELSE <<<<m>>, t, <<"1.1">>>>
    <3>1. Append(<<<<m>>>>, <<"1.1">>) = <<<<m>>, <<"1.1">>>>
      BY <1>1b, AppendPair
    <3>2. Append(<<<<m>>, t>>, <<"1.1">>) = <<<<m>>, t, <<"1.1">>>>
      BY <1>1, <1>1b, AppendTriple
    <3> QED
      BY <3>1, <3>2
  <2> QED
    BY <1>9, <2>1, <2>5, <2>6 DEF FieldsOf, m, t, D
<1> QED
  BY <1>8, <1>9

(* A line that is read with its end becomes the next item.                 *)
LEMMA LineRead ==
    ASSUME NEW S, NEW s \in Seq(S), NEW word \in Seq(S), word # <<>>, NEW delimiters,
           NEW cr \in S, NEW lf \in S, cr \in delimiters, lf \in delimiters,
           Scan(s, delimiters).item = <<>>,
           \A i \in 1 .. Len(word) : word[i] \notin delimiters
    PROVE  Scan(s \o word \o <<cr, lf>>, delimiters)
             = [items |-> Append(Scan(s, delimiters).items, word), item |-> <<>>]
<1> DEFINE before == Scan(s, delimiters).items
           behind == Append(before, word)
           s0 == s \o word
           s1 == Append(s0, cr)
           s2 == Append(s1, lf)
<1>1. s0 \in Seq(S)
  BY ConcatProperties
<1>2. Scan(s0, delimiters) = [items |-> before, item |-> word]
  <2>1. Scan(s0, delimiters) = [items |-> before, item |-> Scan(s, delimiters).item \o word]
    BY ScanWord
  <2>2. <<>> \o word = word
    BY ConcatEmptySeq
  <2> QED
    BY <2>1, <2>2
<1> HIDE DEF s0
<1>3. s1 \in Seq(S)
  BY <1>1, AppendProperties
<1>4. Scan(s1, delimiters) = [items |-> behind, item |-> <<>>]
  <2>1. Scan(s1, delimiters)
          = [items |-> IF Scan(s0, delimiters).item = <<>> THEN Scan(s0, delimiters).items
                       ELSE Append(Scan(s0, delimiters).items, Scan(s0, delimiters).item),
             item  |-> <<>>]
    BY <1>1, ScanBlank
  <2> HIDE DEF s1, before
  <2> QED
    BY <1>2, <2>1
<1> HIDE DEF s1
<1>5. Scan(s2, delimiters) = [items |-> behind, item |-> <<>>]
  <2>1. Scan(s2, delimiters)
          = [items |-> IF Scan(s1, delimiters).item = <<>> THEN Scan(s1, delimiters).items
                       ELSE Append(Scan(s1, delimiters).items, Scan(s1, delimiters).item),
             item  |-> <<>>]
    BY <1>3, ScanBlank
  <2> HIDE DEF s2, behind
  <2> QED
    BY <1>4, <2>1
<1>6. s0 \o <<cr, lf>> = s2
  BY <1>1, ConcatPair DEF s1
<1> QED
  BY <1>5, <1>6 DEF s0

(* The inductive invariant: the text is split, up to its last symbol, into *)
(* the request line and the header lines, and no item is begun. It names   *)
(* every line, where the properties speak only of what follows from them.  *)
LinesInv ==
    /\ asked \in Requests /\ headers \in Seq(HeaderLines) /\ text \in Seq(InText)
    /\ Scan(text, {"CR", "LF"}) = [items |-> <<RequestLine(asked)>> \o headers, item |-> <<>>]

LEMMA LineWord ==
    ASSUME NEW word \in Seq(InLine)
    PROVE  word \in Seq(InText) /\ \A i \in 1 .. Len(word) : word[i] \notin {"CR", "LF"}
<1>1. word \in Seq(InText)
  BY SeqMonotonic DEF InText
<1>2. \A i \in 1 .. Len(word) : word[i] \in InLine
  BY ElementOfSeq
<1>3. \A symbol \in InLine : symbol \notin {"CR", "LF"}
  BY SymbolsAssumption DEF InLine
<1> QED
  BY <1>1, <1>2, <1>3

LEMMA LineEndRead ==
    ASSUME NEW s \in Seq(InText), NEW word \in Seq(InLine), word # <<>>,
           Scan(s, {"CR", "LF"}).item = <<>>
    PROVE  /\ s \o word \o LineEnd \in Seq(InText)
           /\ Scan(s \o word \o LineEnd, {"CR", "LF"})
                = [items |-> Append(Scan(s, {"CR", "LF"}).items, word), item |-> <<>>]
<1>1. word \in Seq(InText) /\ \A i \in 1 .. Len(word) : word[i] \notin {"CR", "LF"}
  BY LineWord
<1>2. "CR" \in {"CR", "LF"} \cap InText /\ "LF" \in {"CR", "LF"} \cap InText
  BY DEF InText
<1>3. LineEnd \in Seq(InText)
  <2>1. \A a, b \in InText : <<a, b>> \in Seq(InText)
    BY ShortSeqs
  <2> QED
    BY <1>2, <2>1, Zenon DEF LineEnd
<1>4. s \o word \o LineEnd \in Seq(InText)
  BY <1>1, <1>3, ConcatProperties
<1>5. \A cr, lf \in {"CR", "LF"} \cap InText :
        Scan(s \o word \o <<cr, lf>>, {"CR", "LF"})
          = [items |-> Append(Scan(s, {"CR", "LF"}).items, word), item |-> <<>>]
  <2> DEFINE D == {"CR", "LF"}
  <2>1. Scan(s, D).item = <<>> /\ \A i \in 1 .. Len(word) : word[i] \notin D
    BY <1>1
  <2> HIDE DEF D
  <2>2. ASSUME NEW cr \in D \cap InText, NEW lf \in D \cap InText
        PROVE  Scan(s \o word \o <<cr, lf>>, D)
                 = [items |-> Append(Scan(s, D).items, word), item |-> <<>>]
    <3>1. cr \in InText /\ lf \in InText /\ cr \in D /\ lf \in D
      OBVIOUS
    <3>2. word \in Seq(InText) /\ word # <<>>
      BY <1>1
    <3> QED
      BY <2>1, <3>1, <3>2, LineRead
  <2> QED
    BY <2>2 DEF D
<1> QED
  BY <1>2, <1>4, <1>5, Zenon DEF LineEnd

(* An empty line adds no item.                                             *)
LEMMA BlankRead ==
    ASSUME NEW s \in Seq(InText), Scan(s, {"CR", "LF"}).item = <<>>
    PROVE  /\ s \o LineEnd \in Seq(InText)
           /\ Scan(s \o LineEnd, {"CR", "LF"}) = Scan(s, {"CR", "LF"})
<1> DEFINE D == {"CR", "LF"}
           split == Scan(s, D)
<1>1. "CR" \in D \cap InText /\ "LF" \in D \cap InText
  BY DEF InText
<1>2. split = [items |-> split.items, item |-> <<>>]
  BY ScanType DEF Splits
<1> HIDE DEF D
<1>3. ASSUME NEW cr \in D \cap InText, NEW lf \in D \cap InText
      PROVE  s \o <<cr, lf>> \in Seq(InText) /\ Scan(s \o <<cr, lf>>, D) = split
  <2> DEFINE s1 == Append(s, cr)
             s2 == Append(s1, lf)
  <2>1. cr \in InText /\ lf \in InText /\ cr \in D /\ lf \in D
    OBVIOUS
  <2>2. s1 \in Seq(InText) /\ s2 \in Seq(InText) /\ s \o <<cr, lf>> = s2
    BY <2>1, AppendProperties, ConcatPair
  <2> HIDE DEF split
  <2>3. Scan(s1, D) = split
    <3>1. Scan(s1, D) = [items |-> IF split.item = <<>> THEN split.items
                                   ELSE Append(split.items, split.item),
                         item  |-> <<>>]
      BY <2>1, ScanBlank DEF split
    <3>2. split.item = <<>>
      BY <1>2
    <3> HIDE DEF s1
    <3> QED
      BY <1>2, <3>1, <3>2
  <2> HIDE DEF s1
  <2>4. Scan(s2, D) = split
    <3>1. Scan(s2, D) = [items |-> IF split.item = <<>> THEN split.items
                                   ELSE Append(split.items, split.item),
                         item  |-> <<>>]
      BY <2>1, <2>2, <2>3, ScanBlank
    <3>2. split.item = <<>>
      BY <1>2
    <3> HIDE DEF s2
    <3> QED
      BY <1>2, <3>1, <3>2
  <2> QED
    BY <2>2, <2>4
<1> QED
  BY <1>1, <1>3, Zenon DEF LineEnd, D, split

LEMMA HeaderLineType ==
    ASSUME NEW line \in HeaderLines
    PROVE  line \in Seq(InLine) /\ line # <<>>
  BY HeaderLinesAssumption DEF InLine

(* The invariant holds, for any header lines in any number.                *)
THEOREM LinesRead == Spec => []LinesInv
<1>1. Init => LinesInv
  <2> SUFFICES ASSUME Init PROVE LinesInv
    OBVIOUS
  <2> DEFINE r == RequestLine(asked)
  <2>1. asked \in Requests /\ headers = <<>> /\ text = r \o LineEnd
    BY DEF Init, Requests
  <2>2. r \in Seq(InLine) /\ r # <<>>
    BY <2>1, RequestLineType
  <2> HIDE DEF r
  <2>3. Scan(<<>>, {"CR", "LF"}) = [items |-> <<>>, item |-> <<>>]
    BY ScanEmpty
  <2>4. <<>> \in Seq(InText) /\ <<>> \o r = r
    BY <2>2, ConcatEmptySeq, EmptySeq
  <2>5. Append(<<>>, r) = <<r>> \o <<>>
    <3>1. <<r>> \in Seq(Seq(InLine)) /\ Append(<<>>, r) = <<r>>
      BY <2>2
    <3> QED
      BY <3>1, ConcatEmptySeq
  <2>6. /\ <<>> \o r \o LineEnd \in Seq(InText)
        /\ Scan(<<>> \o r \o LineEnd, {"CR", "LF"})
             = [items |-> Append(Scan(<<>>, {"CR", "LF"}).items, r), item |-> <<>>]
    <3> DEFINE e == <<>>
    <3>1. e \in Seq(InText) /\ Scan(e, {"CR", "LF"}).item = <<>>
      BY <2>3, <2>4
    <3> HIDE DEF e
    <3>2. /\ e \o r \o LineEnd \in Seq(InText)
          /\ Scan(e \o r \o LineEnd, {"CR", "LF"})
               = [items |-> Append(Scan(e, {"CR", "LF"}).items, r), item |-> <<>>]
      BY <2>2, <3>1, LineEndRead
    <3> QED
      BY <3>2 DEF e
  <2>7. headers \in Seq(HeaderLines)
    BY <2>1, EmptySeq
  <2> QED
    BY <2>1, <2>3, <2>4, <2>5, <2>6, <2>7 DEF LinesInv, r
<1>2. LinesInv /\ [Next]_vars => LinesInv'
  <2> SUFFICES ASSUME LinesInv, [Next]_vars PROVE LinesInv'
    OBVIOUS
  <2> USE DEF LinesInv
  <2>1. CASE AddHeader
    <3>1. PICK line \in HeaderLines :
            headers' = Append(headers, line) /\ text' = text \o line \o LineEnd /\ asked' = asked
      BY <2>1 DEF AddHeader
    <3> DEFINE r == RequestLine(asked)
               lines == <<r>> \o headers
    <3>2. line \in Seq(InLine) /\ line # <<>>
      BY HeaderLineType
    <3>3. Scan(text, {"CR", "LF"}).item = <<>> /\ Scan(text, {"CR", "LF"}).items = lines
      OBVIOUS
    <3>4. /\ text' \in Seq(InText)
          /\ Scan(text', {"CR", "LF"})
               = [items |-> Append(Scan(text, {"CR", "LF"}).items, line), item |-> <<>>]
      BY <3>1, <3>2, <3>3, LineEndRead
    <3>5. r \in Seq(InLine) /\ headers \in Seq(Seq(InLine))
      <4>1. HeaderLines \subseteq Seq(InLine)
        BY HeaderLineType
      <4> QED
        BY <4>1, RequestLineType, SeqMonotonic
    <3>6. Append(lines, line) = <<r>> \o Append(headers, line)
      <4> HIDE DEF r
      <4>1. <<r>> \in Seq(Seq(InLine))
        BY <3>5
      <4> QED
        BY <3>2, <3>5, <4>1, ConcatAppend
    <3>7. headers' \in Seq(HeaderLines)
      BY <3>1, AppendProperties
    <3>8. Scan(text', {"CR", "LF"}) = [items |-> <<r>> \o headers', item |-> <<>>]
      <4> HIDE DEF r, lines
      <4> QED
        BY <3>1, <3>3, <3>4, <3>6
    <3> QED
      BY <3>1, <3>4, <3>7, <3>8
  <2>2. CASE EndHeaders
    <3>1. text' = text \o LineEnd /\ asked' = asked /\ headers' = headers
      BY <2>2 DEF EndHeaders
    <3>2. text' \in Seq(InText) /\ Scan(text', {"CR", "LF"}) = Scan(text, {"CR", "LF"})
      BY <3>1, BlankRead
    <3> QED
      BY <3>1, <3>2
  <2>3. CASE UNCHANGED vars
    BY <2>3 DEF vars
  <2> QED
    BY <2>1, <2>2, <2>3 DEF Next
<1> QED
  BY <1>1, <1>2, PTL DEF Spec

(* What get_headers splits the text into.                                  *)
LEMMA TextLines ==
    ASSUME LinesInv
    PROVE  LET lines == Split(text, {"CR", "LF"}) IN
           /\ Len(lines) = Len(headers) + 1
           /\ lines[1] = RequestLine(asked)
           /\ Tail(lines) = headers
           /\ headers \in Seq(Seq(InLine))
<1> DEFINE r == RequestLine(asked)
           lines == Split(text, {"CR", "LF"})
<1>1. lines = <<r>> \o headers
  BY DEF LinesInv, Split, Cut
<1>2. r \in Seq(InLine) /\ headers \in Seq(Seq(InLine))
  <2>1. HeaderLines \subseteq Seq(InLine)
    BY HeaderLineType
  <2> QED
    BY <2>1, RequestLineType, SeqMonotonic DEF LinesInv
<1> HIDE DEF r, lines
<1>3. <<r>> \in Seq(Seq(InLine)) /\ Len(<<r>>) = 1 /\ <<r>>[1] = r /\ Tail(<<r>>) = <<>>
  BY <1>2
<1>4. Len(lines) = Len(headers) + 1 /\ lines[1] = r
  BY <1>1, <1>2, <1>3, ConcatProperties, LenProperties
<1>5. Tail(lines) = headers
  BY <1>1, <1>2, <1>3
<1> QED
  BY <1>2, <1>4, <1>5 DEF r, lines

(* Two items are the first and the second run, and neither is empty.       *)
LEMMA TwoItems ==
    ASSUME NEW S, NEW line \in Seq(S), NEW delimiters, delimiters # {},
           Len(Split(line, delimiters)) = 2
    PROVE  \E one, two \in Runs(line, delimiters) :
             /\ one[1] < two[1]
             /\ Split(line, delimiters)[1] = SubSeq(line, one[1], one[2])
             /\ Split(line, delimiters)[2] = SubSeq(line, two[1], two[2])
             /\ Split(line, delimiters)[1] # <<>> /\ Split(line, delimiters)[2] # <<>>
<1> DEFINE items == Split(line, delimiters)
           n == Len(line)
<1>1. PICK st, en : Found(line, delimiters, items, st, en)
  BY SplitFinds
<1> HIDE DEF items
<1>2. /\ \A i \in 1 .. Len(items) : <<st[i], en[i]>> \in Runs(line, delimiters)
      /\ \A i, j \in 1 .. Len(items) : i < j => st[i] < st[j]
  BY <1>1, FoundRuns
<1>3. Len(items) = 2 /\ 1 \in 1 .. Len(items) /\ 2 \in 1 .. Len(items)
  BY DEF items
<1>4. st[1] < st[2]
  BY <1>2, <1>3
<1>5. ASSUME NEW i \in 1 .. Len(items)
      PROVE  items[i] = SubSeq(line, st[i], en[i]) /\ items[i] # <<>>
  <2>1. st[i] \in 1 .. n /\ en[i] \in 1 .. n /\ st[i] <= en[i]
        /\ items[i] = SubSeq(line, st[i], en[i])
    BY <1>1 DEF Found
  <2>2. n \in Nat /\ \A p \in st[i] .. en[i] : line[p] \in S
    <3>1. n \in Nat /\ \A p \in 1 .. n : line[p] \in S
      BY LenProperties, ElementOfSeq
    <3> HIDE DEF n
    <3> QED
      BY <2>1, <3>1
  <2> HIDE DEF n
  <2>3. Len(SubSeq(line, st[i], en[i])) = en[i] - st[i] + 1
    <3>1. st[i] \in Int /\ en[i] \in Int
      BY <2>1, <2>2
    <3>2. Len(SubSeq(line, st[i], en[i]))
            = IF st[i] <= en[i] THEN en[i] - st[i] + 1 ELSE 0
      BY <2>2, <3>1, SubSeqProperties
    <3> QED
      BY <2>1, <3>2
  <2>4. Len(SubSeq(line, st[i], en[i])) # 0
    BY <2>1, <2>2, <2>3
  <2> QED
    BY <2>1, <2>4, EmptySeq
<1>6. <<st[1], en[1]>> \in Runs(line, delimiters) /\ <<st[2], en[2]>> \in Runs(line, delimiters)
  BY <1>2, <1>3
<1>7. /\ items[1] = SubSeq(line, st[1], en[1]) /\ items[2] = SubSeq(line, st[2], en[2])
      /\ items[1] # <<>> /\ items[2] # <<>>
  BY <1>3, <1>5
<1> DEFINE one == <<st[1], en[1]>>
           two == <<st[2], en[2]>>
<1>8. one[1] = st[1] /\ one[2] = en[1] /\ two[1] = st[2] /\ two[2] = en[2]
  OBVIOUS
<1> HIDE DEF one, two
<1>9. /\ one[1] < two[1]
      /\ items[1] = SubSeq(line, one[1], one[2]) /\ items[2] = SubSeq(line, two[1], two[2])
  BY <1>4, <1>7, <1>8
<1>10. one \in Runs(line, delimiters) /\ two \in Runs(line, delimiters)
  BY <1>6 DEF one, two
<1> QED
  BY <1>7, <1>9, <1>10 DEF items

LEMMA PartOfNone ==
    ASSUME NEW i
    PROVE  PartOfTwo(<<>>, i) = <<>>
<1>1. Split(<<>>, {":"}) = <<>>
  BY ScanEmpty DEF Split, Cut
<1>2. Len(<<>>) # 2
  OBVIOUS
<1> HIDE <1>1
<1> QED
  BY <1>1, <1>2 DEF PartOfTwo

(* get_host and get_service find the two parts of the target, or nothing.  *)
LEMMA TargetParts ==
    ASSUME LinesInv
    PROVE  LET first  == PartOfTwo(asked.target, 1)
               second == PartOfTwo(asked.target, 2)
           IN  /\ HasTwoParts => /\ asked.target # <<>>
                                 /\ first # <<>> /\ second # <<>>
                                 /\ IsFirst(first) /\ IsSecond(second)
               /\ ~HasTwoParts => first = <<>> /\ second = <<>>
<1> DEFINE t == asked.target
           items == Split(t, {":"})
<1>1. t \in Seq(InLine)
  BY RequestLineType DEF LinesInv
<1>2. HasTwoParts <=> Len(items) = 2
  <2>1. Len(items) = Cardinality(Runs(t, {":"}))
    <3> HIDE DEF t
    <3> DEFINE D == {":"}
    <3>1. D # {}
      OBVIOUS
    <3> HIDE DEF D
    <3>2. Len(Split(t, D)) = Cardinality(Runs(t, D))
      BY <1>1, <3>1, SplitReturnsRuns
    <3> QED
      BY <3>2 DEF D
  <2> HIDE DEF items
  <2> QED
    BY <2>1 DEF HasTwoParts, Parts
<1>3. CASE Len(items) = 2
  <2>1. PICK one, two \in Runs(t, {":"}) :
          /\ one[1] < two[1]
          /\ items[1] = SubSeq(t, one[1], one[2])
          /\ items[2] = SubSeq(t, two[1], two[2])
          /\ items[1] # <<>> /\ items[2] # <<>>
    <3> HIDE DEF t
    <3> DEFINE D == {":"}
    <3>1. D # {}
      OBVIOUS
    <3>2. Len(Split(t, D)) = 2
      BY <1>3
    <3> HIDE DEF D
    <3>3. \E one, two \in Runs(t, D) :
            /\ one[1] < two[1]
            /\ Split(t, D)[1] = SubSeq(t, one[1], one[2])
            /\ Split(t, D)[2] = SubSeq(t, two[1], two[2])
            /\ Split(t, D)[1] # <<>> /\ Split(t, D)[2] # <<>>
      BY <1>1, <3>1, <3>2, TwoItems
    <3> QED
      BY <3>3 DEF D
  <2>2. t # <<>>
    <3>1. t = <<>> => items = <<>>
      BY ScanEmpty DEF Split, Cut
    <3>2. Len(<<>>) = 0
      OBVIOUS
    <3> HIDE DEF items, t
    <3> QED
      BY <1>3, <3>1, <3>2
  <2>3. PartOfTwo(t, 1) = items[1] /\ PartOfTwo(t, 2) = items[2]
    BY <1>3 DEF PartOfTwo
  <2>4. IsFirst(items[1]) /\ IsSecond(items[2])
    <3> HIDE DEF items
    <3> QED
      BY <2>1 DEF IsFirst, IsSecond, Parts, Part
  <2> HIDE DEF items
  <2> QED
    BY <1>2, <1>3, <2>1, <2>2, <2>3, <2>4
<1>4. CASE Len(items) # 2
  BY <1>2, <1>4 DEF PartOfTwo
<1> QED
  BY <1>3, <1>4

(* What get_request_fields makes of a request line with three fields.      *)
Known(line) ==
    IF line.method = Connect THEN Request(Connect, line.target, line.target)
    ELSE IF line.method \in Forwarded THEN Request(line.method, line.target, <<>>)
    ELSE NoRequest

(* get_request_fields reads a line if it has a target and a version.       *)
LEMMA RequestLineFields ==
    ASSUME NEW line \in Requests
    PROVE  /\ HasRequestFields(RequestLine(line)) <=> line.version /\ line.target # <<>>
           /\ line.version /\ line.target # <<>> =>
                RequestFields(RequestLine(line)) = Known(line)
<1> DEFINE m == line.method
           t == line.target
           v == <<"1.1">>
           fields == Split(RequestLine(line), {" "})
<1>1. fields = FieldsOf(line)
  BY RequestLineSplit
<1>2. m \in InLine /\ t \in Seq(InLine) /\ v \in Seq(InLine)
  <2>1. "1.1" \in InLine
    BY SymbolsAssumption DEF InLine
  <2> QED
    BY <2>1, RequestLineType, ShortSeqs
<1> HIDE DEF m, t, v, fields
<1>3. fields = IF t = <<>> THEN IF line.version THEN <<<<m>>, v>> ELSE <<<<m>>>>
               ELSE IF line.version THEN <<<<m>>, t, v>> ELSE <<<<m>>, t>>
  BY <1>1 DEF FieldsOf, m, t, v
<1>4. Len(fields) = 3 <=> line.version /\ t # <<>>
  <2>1. /\ Len(<<<<m>>>>) = 1 /\ Len(<<<<m>>, v>>) = 2 /\ Len(<<<<m>>, t>>) = 2
        /\ Len(<<<<m>>, t, v>>) = 3
    OBVIOUS
  <2>2. line.version \in BOOLEAN
    BY DEF Requests
  <2> QED
    BY <1>3, <2>1, <2>2
<1>5. ASSUME line.version, t # <<>> PROVE RequestFields(RequestLine(line)) = Known(line)
  <2>1. fields = <<<<m>>, t, v>>
    BY <1>3, <1>5
  <2>2. fields[1] = <<m>> /\ fields[2] = t
    BY <2>1
  <2>3. Len(<<m>>) = 1 /\ <<m>>[1] = m /\ (<<m>> = <<Connect>> <=> m = Connect)
    OBVIOUS
  <2>4. RequestFields(RequestLine(line))
          = CASE fields[1] = <<Connect>> -> Request(Connect, fields[2], fields[2])
              [] Len(fields[1]) = 1 /\ fields[1][1] \in Forwarded ->
                   Request(fields[1][1], fields[2], <<>>)
              [] OTHER -> NoRequest
    BY DEF RequestFields, fields
  <2>5. Connect \notin Forwarded
    BY DEF Connect, Forwarded
  <2>6. RequestFields(RequestLine(line))
          = CASE m = Connect -> Request(Connect, t, t)
              [] m \in Forwarded -> Request(m, t, <<>>)
              [] OTHER -> NoRequest
    <3>1. fields[1][1] = m
      BY <2>2, <2>3
    <3> HIDE DEF Connect, Forwarded
    <3> QED
      BY <2>2, <2>3, <2>4, <3>1
  <2> HIDE DEF Request, Connect, Forwarded, NoRequest
  <2>7. RequestFields(RequestLine(line))
          = IF m = Connect THEN Request(Connect, t, t)
            ELSE IF m \in Forwarded THEN Request(m, t, <<>>) ELSE NoRequest
    BY <2>5, <2>6
  <2> QED
    BY <2>7 DEF Known, m, t
<1> QED
  BY <1>4, <1>5 DEF HasRequestFields, fields, t

(* What get_headers returns for a request line and header lines.           *)
Answer(line, lines) ==
    LET host == HostFrom(Known(line), lines)
    IN  IF lines = <<>> \/ ~line.version \/ line.target = <<>> \/ host = <<>>
          THEN NoRequest
          ELSE [Known(line) EXCEPT !.host = host]

LEMMA HeadersAnswer ==
    ASSUME LinesInv
    PROVE  GetHeaders(text) = Answer(asked, headers)
<1> DEFINE lines == Split(text, {"CR", "LF"})
           first == RequestLine(asked)
<1>1. Len(lines) = Len(headers) + 1 /\ lines[1] = first /\ Tail(lines) = headers
      /\ headers \in Seq(Seq(InLine))
  BY TextLines
<1>2. asked \in Requests
  BY DEF LinesInv
<1>3. /\ HasRequestFields(first) <=> asked.version /\ asked.target # <<>>
      /\ asked.version /\ asked.target # <<>> => RequestFields(first) = Known(asked)
  BY <1>2, RequestLineFields
<1>4. Len(lines) < 2 <=> headers = <<>>
  BY <1>1, LenProperties, EmptySeq
<1>5. GetHeaders(text)
        = IF Len(lines) < 2 \/ ~HasRequestFields(lines[1])
             \/ HostFrom(RequestFields(lines[1]), Tail(lines)) = <<>>
            THEN NoRequest
            ELSE [RequestFields(lines[1])
                    EXCEPT !.host = HostFrom(RequestFields(lines[1]), Tail(lines))]
  BY DEF GetHeaders
<1> HIDE DEF lines, first
<1>6. GetHeaders(text)
        = IF headers = <<>> \/ ~HasRequestFields(first)
             \/ HostFrom(RequestFields(first), headers) = <<>>
            THEN NoRequest
            ELSE [RequestFields(first) EXCEPT !.host = HostFrom(RequestFields(first), headers)]
  BY <1>1, <1>4, <1>5
<1>7. CASE asked.version /\ asked.target # <<>>
  BY <1>3, <1>6, <1>7 DEF Answer
<1>8. CASE ~(asked.version /\ asked.target # <<>>)
  BY <1>3, <1>6, <1>8 DEF Answer
<1> QED
  BY <1>7, <1>8

LEMMA NotUsable == ~Usable(NoRequest)
  BY DEF Usable, Host, NoRequest, Request, None, Connect

(* split returns the maximal runs of every text that a request can be,     *)
(* whether it is split at blanks, at colons or at line ends                *)
(* (http.cpp:10-27).                                                       *)
THEOREM SplittingIsRuns == Spec => []SplitIsRuns
<1>1. LinesInv => SplitIsRuns
  <2> SUFFICES ASSUME LinesInv, NEW delimiters \in {{" "}, {":"}, {"CR", "LF"}}
               PROVE  LET runs  == Runs(text, delimiters)
                          items == Split(text, delimiters)
                      IN  /\ Len(items) = Cardinality(runs)
                          /\ \A run \in runs :
                               items[Cardinality({other \in runs : other[1] <= run[1]})]
                                 = SubSeq(text, run[1], run[2])
    BY DEF SplitIsRuns
  <2>1. text \in Seq(InText) /\ delimiters # {}
    BY DEF LinesInv
  <2> QED
    BY <2>1, SplitReturnsRuns
<1> QED
  BY <1>1, LinesRead, PTL

(* A request with an unknown method is refused, whatever its Host: fields  *)
(* say.                                                                    *)
THEOREM UnknownIsRefused == Spec => []UnknownRefused
<1>1. LinesInv => UnknownRefused
  <2> SUFFICES ASSUME LinesInv, asked.method \notin Forwarded \union {Connect}
               PROVE  ~Usable(GetHeaders(text))
    BY DEF UnknownRefused
  <2>1. Known(asked) = NoRequest
    BY DEF Known
  <2>2. GetHeaders(text) = Answer(asked, headers)
    BY HeadersAnswer
  <2> DEFINE host == HostFrom(NoRequest, headers)
             kept == [NoRequest EXCEPT !.host = host]
  <2>3. GetHeaders(text) \in {NoRequest, kept}
    BY <2>1, <2>2 DEF Answer
  <2> HIDE DEF host
  <2>4. Service(kept) = <<>>
    <3>1. kept.method # Connect /\ kept.uri = <<>>
      BY DEF NoRequest, Request, None, Connect
    <3> HIDE DEF kept
    <3> QED
      BY <3>1, PartOfNone DEF Service
  <2> HIDE DEF kept
  <2> QED
    BY <2>3, <2>4, NotUsable DEF Usable
<1> QED
  BY <1>1, LinesRead, PTL

(* A CONNECT leads to the host and the port of its request line or is      *)
(* refused; no header line changes that.                                   *)
THEOREM ConnectLeadsToTarget == Spec => []ConnectTarget
<1>1. LinesInv => ConnectTarget
  <2> SUFFICES ASSUME LinesInv, asked.method = Connect
               PROVE  IF asked.version /\ headers # <<>> /\ HasTwoParts
                        THEN /\ Usable(GetHeaders(text))
                             /\ IsFirst(Host(GetHeaders(text)))
                             /\ IsSecond(Service(GetHeaders(text)))
                        ELSE ~Usable(GetHeaders(text))
    BY DEF ConnectTarget
  <2> DEFINE t == asked.target
             request == Request(Connect, t, t)
  <2>1. Known(asked) = request
    BY DEF Known
  <2>2. GetHeaders(text) = Answer(asked, headers)
    BY HeadersAnswer
  <2>3. t \in Seq(InLine) /\ headers \in Seq(Seq(InLine))
    BY RequestLineType, TextLines DEF LinesInv
  <2>4. request.host = t /\ request.method = Connect /\ [request EXCEPT !.host = t] = request
    BY DEF Request
  <2>5. t # <<>> => HostFrom(request, headers) = t
    <3> HIDE DEF request, t
    <3>1. request.host \in Seq(InLine)
      BY <2>3, <2>4
    <3> QED
      BY <2>3, <2>4, <3>1, HostKept
  <2>6. Host(request) = PartOfTwo(t, 1) /\ Service(request) = PartOfTwo(t, 2)
    <3> HIDE DEF request
    <3> QED
      BY <2>4 DEF Host, Service
  <2>7. /\ HasTwoParts => /\ t # <<>>
                          /\ PartOfTwo(t, 1) # <<>> /\ PartOfTwo(t, 2) # <<>>
                          /\ IsFirst(PartOfTwo(t, 1)) /\ IsSecond(PartOfTwo(t, 2))
        /\ ~HasTwoParts => PartOfTwo(t, 1) = <<>> /\ PartOfTwo(t, 2) = <<>>
    BY TargetParts
  <2> HIDE DEF request
  <2>8. GetHeaders(text) = IF headers = <<>> \/ ~asked.version \/ t = <<>>
                             THEN NoRequest ELSE request
    BY <2>1, <2>2, <2>4, <2>5 DEF Answer
  <2> HIDE DEF t
  <2>9. CASE asked.version /\ headers # <<>> /\ HasTwoParts
    <3>1. GetHeaders(text) = request
      BY <2>7, <2>8, <2>9
    <3> QED
      BY <2>6, <2>7, <2>9, <3>1 DEF Usable
  <2>10. CASE ~(asked.version /\ headers # <<>> /\ HasTwoParts)
    <3>1. CASE GetHeaders(text) = NoRequest
      BY <2>10, <3>1, NotUsable
    <3>2. CASE GetHeaders(text) # NoRequest
      <4>1. GetHeaders(text) = request /\ ~HasTwoParts
        BY <2>8, <2>10, <3>2
      <4> QED
        BY <2>6, <2>7, <2>10, <4>1 DEF Usable
    <3> QED
      BY <3>1, <3>2
  <2> QED
    BY <2>9, <2>10
<1> QED
  BY <1>1, LinesRead, PTL

(* A forwarded request leads to its first Host: field with a value, or is  *)
(* refused.                                                                *)
THEOREM ForwardLeadsToHost == Spec => []ForwardTarget
<1>1. LinesInv => ForwardTarget
  <2> SUFFICES ASSUME LinesInv, asked.method \in Forwarded,
                      \A i \in HostFields : headers[i][1] = "Host:"
               PROVE  IF asked.version /\ HostFields # {} /\ HasTwoParts
                        THEN /\ Usable(GetHeaders(text))
                             /\ \E i \in HostFields :
                                  /\ \A j \in HostFields : i <= j
                                  /\ Host(GetHeaders(text))
                                       = SubSeq(headers[i], 3, Len(headers[i]))
                             /\ IsFirst(Service(GetHeaders(text)))
                        ELSE ~Usable(GetHeaders(text))
    BY DEF ForwardTarget
  <2> DEFINE t == asked.target
             m == asked.method
             request == Request(m, t, <<>>)
             host == HostFrom(request, headers)
             kept == [request EXCEPT !.host = host]
  <2>1. Known(asked) = request /\ m # Connect
    BY DEF Known, Connect, Forwarded
  <2>2. GetHeaders(text) = Answer(asked, headers)
    BY HeadersAnswer
  <2>3. headers \in Seq(Seq(InLine)) /\ request.host = <<>>
    BY TextLines DEF Request
  <2>4. HostFields = WithHost(headers)
    BY DEF HostFields, WithHost
  <2>5. /\ host = <<>> <=> HostFields = {}
        /\ host # <<>> => \E i \in HostFields :
                            /\ \A j \in HostFields : i <= j
                            /\ host = SubSeq(headers[i], 3, Len(headers[i]))
    <3>1. \A i \in WithHost(headers) : headers[i][1] = "Host:"
      BY <2>4
    <3> HIDE DEF request
    <3> QED
      BY <2>3, <2>4, <3>1, HostOfFirst
  <2>6. /\ HasTwoParts => /\ t # <<>> /\ PartOfTwo(t, 1) # <<>> /\ IsFirst(PartOfTwo(t, 1))
        /\ ~HasTwoParts => PartOfTwo(t, 1) = <<>>
    BY TargetParts
  <2> HIDE DEF host
  <2>7. Host(kept) = host /\ Service(kept) = PartOfTwo(t, 1)
    <3>1. kept.host = host /\ kept.method = m /\ kept.uri = t
      BY DEF Request
    <3> HIDE DEF kept, m, t
    <3> QED
      BY <2>1, <3>1 DEF Host, Service
  <2>8. headers = <<>> => HostFields = {}
    BY DEF HostFields
  <2>9. GetHeaders(text) = IF headers = <<>> \/ ~asked.version \/ t = <<>> \/ host = <<>>
                             THEN NoRequest ELSE kept
    <3> HIDE DEF request, NoRequest
    <3> QED
      BY <2>1, <2>2 DEF Answer, host
  <2> HIDE DEF kept, t, m, request
  <2>10. CASE asked.version /\ HostFields # {} /\ HasTwoParts
    <3>1. GetHeaders(text) = kept /\ host # <<>>
      BY <2>5, <2>6, <2>8, <2>9, <2>10
    <3>2. Usable(kept) /\ IsFirst(Service(kept))
      BY <2>6, <2>7, <2>10, <3>1 DEF Usable
    <3> QED
      BY <2>5, <2>7, <2>10, <3>1, <3>2
  <2>11. CASE ~(asked.version /\ HostFields # {} /\ HasTwoParts)
    <3>1. CASE GetHeaders(text) = NoRequest
      BY <2>11, <3>1, NotUsable
    <3>2. CASE GetHeaders(text) # NoRequest
      <4>1. GetHeaders(text) = kept /\ asked.version /\ host # <<>>
        BY <2>9, <3>2
      <4>2. ~HasTwoParts
        BY <2>5, <2>11, <4>1
      <4> QED
        BY <2>6, <2>7, <2>11, <4>1, <4>2 DEF Usable
    <3> QED
      BY <3>1, <3>2
  <2> QED
    BY <2>10, <2>11
<1> QED
  BY <1>1, LinesRead, PTL
====
