----------------------------- MODULE WireProofs -----------------------------
(***************************************************************************)
(* The stream of a connection, for any message of any class: what the      *)
(* class writes has the size it announced and is read back as it was, two  *)
(* messages read as one are the second merged into the first, a cut takes  *)
(* the cells that fit, and what was cut anywhere is still read as fields   *)
(* of the class or not at all.                                             *)
(* Sequences of cells are built by concatenation and read by folds; what   *)
(* is said of them by induction is said of sets of numbers (NatSet).       *)
(***************************************************************************)
EXTENDS Wire, TLAPS, FiniteSetTheorems, SequenceTheorems, WellFoundedInduction

-----------------------------------------------------------------------------
(* Sequences *)

\* Induction, for a set in place of a predicate.
LEMMA NatSet ==
  ASSUME NEW S, 0 \in S, \A n \in Nat : n \in S => n + 1 \in S
  PROVE  \A n \in Nat : n \in S
<1> DEFINE out  == {n \in Nat : n \notin S}
           less == OpToRel(<, Nat)
<1>1. SUFFICES out = {}
  OBVIOUS
<1>2. SUFFICES ASSUME out # {} PROVE FALSE
  OBVIOUS
<1>3. \E x \in out : \A y \in out : ~ (<<y, x>> \in less)
  <2>1. out \subseteq Nat
    OBVIOUS
  <2> HIDE DEF out
  <2> QED
    BY <1>2, <2>1, WFMin, NatLessThanWellFounded
<1>4. PICK x \in out : \A y \in out : ~ (<<y, x>> \in less)
  BY <1>3
<1>5. \A y \in out : ~ (y < x)
  BY <1>4 DEF OpToRel
<1>6. x # 0
  BY DEF out
<1>7. x - 1 \in Nat /\ x - 1 < x
  BY <1>6
<1>8. x - 1 \in S
  BY <1>5, <1>7
<1>9. x \in S
  <2>1. (x - 1) + 1 = x
    OBVIOUS
  <2> QED
    BY <1>7, <1>8, <2>1
<1> QED
  BY <1>9

\* A sequence, of whatever it is.
IsSeq(s) == \E S : s \in Seq(S)

\* The concatenations of the first elements.
Flattens(f, s) ==
  f = [i \in 1..Len(s) |-> IF i = 1 THEN s[i] ELSE f[i - 1] \o s[i]]

\* The function that concatenates the first elements one by one exists.
LEMMA FlattenExists ==
  ASSUME NEW s
  PROVE  \A n \in Nat : \E f : f = [i \in 1..n |-> IF i = 1 THEN s[i] ELSE f[i - 1] \o s[i]]
<1> DEFINE done == {n \in Nat : \E f : f = [i \in 1..n |-> IF i = 1 THEN s[i] ELSE f[i - 1] \o s[i]]}
<1>1. 0 \in done
  <2> DEFINE f == [i \in 1..0 |-> s[i]]
  <2>1. f = [i \in 1..0 |-> IF i = 1 THEN s[i] ELSE f[i - 1] \o s[i]]
    OBVIOUS
  <2> QED
    BY <2>1
<1>2. ASSUME NEW n \in Nat, n \in done PROVE n + 1 \in done
  <2>1. PICK f : f = [i \in 1..n |-> IF i = 1 THEN s[i] ELSE f[i - 1] \o s[i]]
    BY <1>2
  <2> DEFINE last == IF n = 0 THEN s[n + 1] ELSE f[n] \o s[n + 1]
             g == [i \in 1..(n + 1) |-> IF i = n + 1 THEN last ELSE f[i]]
  <2>2. ASSUME NEW i \in 1..(n + 1)
        PROVE  g[i] = IF i = 1 THEN s[i] ELSE g[i - 1] \o s[i]
    <3>1. CASE i = n + 1
      <4>1. g[i] = last
        BY <3>1
      <4>2. CASE n = 0
        BY <3>1, <4>1, <4>2
      <4>3. CASE n # 0
        <5>1. n \in 1..(n + 1) /\ n # n + 1 /\ i - 1 = n /\ i # 1
          BY <3>1, <4>3
        <5>2. g[n] = f[n]
          BY <5>1
        <5> QED
          BY <3>1, <4>1, <4>3, <5>1, <5>2
      <4> QED
        BY <4>2, <4>3
    <3>2. CASE i # n + 1
      <4>1. i \in 1..n /\ g[i] = f[i]
        BY <3>2
      <4>2. f[i] = IF i = 1 THEN s[i] ELSE f[i - 1] \o s[i]
        BY <2>1, <4>1
      <4>3. CASE i # 1
        <5>1. i - 1 \in 1..(n + 1) /\ i - 1 # n + 1
          BY <4>1, <4>3
        <5>2. g[i - 1] = f[i - 1]
          BY <5>1
        <5> QED
          BY <4>1, <4>2, <4>3, <5>2
      <4> QED
        BY <4>1, <4>2, <4>3
    <3> QED
      BY <3>1, <3>2
  <2>3. g = [i \in 1..(n + 1) |-> IF i = 1 THEN s[i] ELSE g[i - 1] \o s[i]]
    <3> DEFINE h == [i \in 1..(n + 1) |-> IF i = 1 THEN s[i] ELSE g[i - 1] \o s[i]]
    <3>1. DOMAIN g = 1..(n + 1) /\ g = [i \in 1..(n + 1) |-> g[i]]
      OBVIOUS
    <3>2. \A i \in 1..(n + 1) : g[i] = IF i = 1 THEN s[i] ELSE g[i - 1] \o s[i]
      BY <2>2
    <3> HIDE DEF g
    <3> QED
      BY <3>1, <3>2
  <2>4. \E h : h = [i \in 1..(n + 1) |-> IF i = 1 THEN s[i] ELSE h[i - 1] \o s[i]]
    <3> HIDE DEF g
    <3> QED
      BY <2>3
  <2>5. n + 1 \in Nat
    OBVIOUS
  <2> HIDE DEF g
  <2> QED
    BY <2>4, <2>5, Zenon
<1> HIDE DEF done
<1>3. \A n \in Nat : n \in done
  BY <1>1, <1>2, NatSet
<1> QED
  BY <1>3 DEF done

\* FlattenSeq is the last of the concatenations.
LEMMA FlattenUnfold ==
  ASSUME NEW s, Len(s) \in Nat \ {0}
  PROVE  \E f : Flattens(f, s) /\ FlattenSeq(s) = f[Len(s)]
<1> DEFINE flat == CHOOSE f : Flattens(f, s)
<1>1. \E f : Flattens(f, s)
  BY FlattenExists DEF Flattens
<1>2. Flattens(flat, s)
  BY <1>1
<1>3. FlattenSeq(s) = flat[Len(s)]
  BY DEF FlattenSeq, Flattens
<1> QED
  BY <1>2, <1>3

\* Sequences concatenate to a sequence that begins like the first.
LEMMA ConcatSeq ==
  ASSUME NEW s, NEW t, IsSeq(s), IsSeq(t)
  PROVE  /\ IsSeq(s \o t)
         /\ Len(s \o t) = Len(s) + Len(t)
         /\ Len(s) \in Nat /\ Len(t) \in Nat
         /\ \A i \in 1..Len(s) : (s \o t)[i] = s[i]
         /\ \A i \in 1..Len(t) : (s \o t)[Len(s) + i] = t[i]
<1>1. PICK S : s \in Seq(S)
  BY DEF IsSeq
<1>2. PICK T : t \in Seq(T)
  BY DEF IsSeq
<1>3. s \in Seq(S \cup T) /\ t \in Seq(S \cup T)
  BY <1>1, <1>2, SeqMonotonic
<1>4. s \o t \in Seq(S \cup T)
  BY <1>3, ConcatProperties
<1>5. /\ Len(s \o t) = Len(s) + Len(t)
      /\ Len(s) \in Nat /\ Len(t) \in Nat
      /\ \A i \in 1..(Len(s) + Len(t)) : (s \o t)[i] = IF i <= Len(s) THEN s[i] ELSE t[i - Len(s)]
  BY <1>3, ConcatProperties, LenProperties
<1>6. \A i \in 1..Len(s) : (s \o t)[i] = s[i]
  BY <1>5
<1>7. ASSUME NEW i \in 1..Len(t) PROVE (s \o t)[Len(s) + i] = t[i]
  <2>1. Len(s) + i \in 1..(Len(s) + Len(t)) /\ ~ (Len(s) + i <= Len(s)) /\ Len(s) + i - Len(s) = i
    BY <1>5
  <2> QED
    BY <1>5, <2>1
<1> QED
  BY <1>4, <1>5, <1>6, <1>7 DEF IsSeq

\* What FlattenSeq returns: a sequence that begins with the first of them.
LEMMA FlattenFacts ==
  ASSUME NEW s, IsSeq(s), \A i \in DOMAIN s : IsSeq(s[i])
  PROVE  /\ IsSeq(FlattenSeq(s))
         /\ Len(s) = 1 => FlattenSeq(s) = s[1]
         /\ s # <<>> => /\ Len(FlattenSeq(s)) >= Len(s[1])
                        /\ \A i \in 1..Len(s[1]) : FlattenSeq(s)[i] = s[1][i]
<1>1. Len(s) \in Nat /\ DOMAIN s = 1..Len(s) /\ (s = <<>> <=> Len(s) = 0)
  BY LenProperties, EmptySeq DEF IsSeq
<1>2. CASE Len(s) = 0
  <2>1. FlattenSeq(s) = s
    BY <1>2 DEF FlattenSeq
  <2> QED
    BY <1>1, <1>2, <2>1
<1>3. CASE Len(s) # 0
  <2>1. PICK f : Flattens(f, s) /\ FlattenSeq(s) = f[Len(s)]
    BY <1>1, <1>3, FlattenUnfold
  <2> DEFINE Good(x) == IsSeq(x) /\ Len(x) >= Len(s[1]) /\ \A j \in 1..Len(s[1]) : x[j] = s[1][j]
             good == {n \in Nat : n + 1 \in DOMAIN s => Good(f[n + 1])}
  <2>2. f[1] = s[1] /\ IsSeq(s[1])
    <3>1. 1 \in 1..Len(s)
      BY <1>1, <1>3
    <3> QED
      BY <1>1, <2>1, <3>1 DEF Flattens
  <2>3. Len(s[1]) \in Nat
    BY <2>2, LenProperties DEF IsSeq
  <2>4. 0 \in good
    BY <2>2, <2>3
  <2>5. ASSUME NEW n \in Nat, n \in good PROVE n + 1 \in good
    <3>1. SUFFICES ASSUME n + 2 \in DOMAIN s PROVE Good(f[n + 2])
      OBVIOUS
    <3>2. n + 1 \in DOMAIN s /\ n + 2 \in 1..Len(s) /\ n + 2 # 1 /\ (n + 2) - 1 = n + 1
      BY <1>1, <3>1
    <3>3. f[n + 2] = f[n + 1] \o s[n + 2]
      BY <2>1, <3>2 DEF Flattens
    <3>4. Good(f[n + 1])
      BY <2>5, <3>2
    <3>5. IsSeq(s[n + 2])
      BY <3>1
    <3> DEFINE a == f[n + 1]
               b == s[n + 2]
    <3>6. /\ IsSeq(a \o b)
          /\ Len(a \o b) = Len(a) + Len(b)
          /\ Len(a) \in Nat /\ Len(b) \in Nat
          /\ \A i \in 1..Len(a) : (a \o b)[i] = a[i]
      <4>1. IsSeq(a) /\ IsSeq(b)
        BY <3>4, <3>5
      <4> HIDE DEF Good, good, a, b
      <4> QED
        BY <4>1, ConcatSeq
    <3>7. Len(a \o b) >= Len(s[1])
      <4>1. Len(a) >= Len(s[1])
        BY <3>4
      <4> HIDE DEF Good, good, a, b
      <4> QED
        BY <2>3, <3>6, <4>1
    <3>8. ASSUME NEW j \in 1..Len(s[1]) PROVE (a \o b)[j] = s[1][j]
      <4>1. Len(a) >= Len(s[1]) /\ a[j] = s[1][j]
        BY <3>4
      <4> HIDE DEF Good, good, a, b
      <4>2. j \in 1..Len(a)
        BY <2>3, <3>6, <4>1
      <4> QED
        BY <3>6, <4>1, <4>2
    <3> QED
      BY <3>3, <3>6, <3>7, <3>8
  <2>6. \A n \in Nat : n \in good
    <3> HIDE DEF good
    <3> QED
      BY <2>4, <2>5, NatSet
  <2>7. Good(f[Len(s)])
    <3>1. Len(s) - 1 \in Nat /\ (Len(s) - 1) + 1 = Len(s) /\ Len(s) \in DOMAIN s
      BY <1>1, <1>3
    <3> QED
      BY <2>6, <3>1
  <2> QED
    BY <2>1, <2>2, <2>7
<1> QED
  BY <1>2, <1>3

\* A function on 1..n is a sequence of n elements.
LEMMA SeqOfFunction ==
  ASSUME NEW n \in Nat, NEW g, g = [i \in 1..n |-> g[i]]
  PROVE  IsSeq(g) /\ Len(g) = n
<1>1. g \in [1..n -> {g[i] : i \in 1..n}]
  OBVIOUS
<1>2. g \in Seq({g[i] : i \in 1..n})
  BY <1>1
<1>3. DOMAIN g = 1..n
  BY <1>1
<1>4. Len(g) \in Nat /\ DOMAIN g = 1..Len(g)
  BY <1>2, LenProperties
<1>5. Len(g) = n
  BY <1>3, <1>4
<1> QED
  BY <1>2, <1>5 DEF IsSeq

\* A tuple is a sequence.
LEMMA TupleIsSeq ==
  /\ IsSeq(<< >>)
  /\ \A x : IsSeq(<<x>>) /\ Len(<<x>>) = 1
  /\ \A x, y : IsSeq(<<x, y>>)
  /\ \A x, y, z : IsSeq(<<x, y, z>>)
  /\ \A x, y, z, u : IsSeq(<<x, y, z, u>>)
  /\ \A x, y, z, u, v : IsSeq(<<x, y, z, u, v>>)
  /\ \A x, y, z, u, v, w : IsSeq(<<x, y, z, u, v, w>>)
<1>1. << >> \in Seq({})
  OBVIOUS
<1>2. ASSUME NEW x PROVE <<x>> \in Seq({x}) /\ Len(<<x>>) = 1
  OBVIOUS
<1>3. ASSUME NEW x, NEW y PROVE <<x, y>> \in Seq({x, y})
  OBVIOUS
<1>4. ASSUME NEW x, NEW y, NEW z PROVE <<x, y, z>> \in Seq({x, y, z})
  OBVIOUS
<1>5. ASSUME NEW x, NEW y, NEW z, NEW u PROVE <<x, y, z, u>> \in Seq({x, y, z, u})
  OBVIOUS
<1>6. ASSUME NEW x, NEW y, NEW z, NEW u, NEW v PROVE <<x, y, z, u, v>> \in Seq({x, y, z, u, v})
  OBVIOUS
<1>7. ASSUME NEW x, NEW y, NEW z, NEW u, NEW v, NEW w
      PROVE  <<x, y, z, u, v, w>> \in Seq({x, y, z, u, v, w})
  OBVIOUS
<1> QED
  BY <1>1, <1>2, <1>3, <1>4, <1>5, <1>6, <1>7 DEF IsSeq

-----------------------------------------------------------------------------
(* What is written *)

\* A field is written as a sequence of cells,
LEMMA ScalarCellsSeq ==
  ASSUME NEW number, NEW kind, NEW v
  PROVE  IsSeq(ScalarCells(number, kind, v))
BY TupleIsSeq DEF ScalarCells

\* a repeated field too.
LEMMA EntriesCellsSeq ==
  ASSUME NEW number, NEW entries, IsSeq(entries)
  PROVE  IsSeq(EntriesCells(number, entries))
<1> DEFINE Cells(k) == LET body == SerializeEntry(entries[k])
                       IN  <<TagCell(number, "entries"), Cell("len", body, LenSize(TotalSize(body)))>>
           cells == [k \in DOMAIN entries |-> Cells(k)]
<1>1. Len(entries) \in Nat /\ DOMAIN entries = 1..Len(entries)
  BY LenProperties DEF IsSeq
<1>2. \A k : IsSeq(Cells(k))
  BY TupleIsSeq
<1>3. EntriesCells(number, entries) = FlattenSeq(cells)
  BY DEF EntriesCells
<1> HIDE DEF Cells
<1>4. IsSeq(cells) /\ \A k \in DOMAIN cells : IsSeq(cells[k])
  BY <1>1, <1>2, SeqOfFunction
<1> HIDE DEF cells
<1> QED
  BY <1>3, <1>4, FlattenFacts

\* A message is written as a sequence of cells.
LEMMA SerializeSeq ==
  ASSUME NEW fields, NEW m, IsSeq(fields),
         \A i \in DOMAIN fields : fields[i].kind = "entries" => IsSeq(m[fields[i].name])
  PROVE  IsSeq(Serialize(fields, m))
<1> DEFINE Cells(i) == LET v == m[fields[i].name]
                       IN  IF fields[i].kind = "entries" THEN EntriesCells(i, v)
                           ELSE ScalarCells(i, fields[i].kind, v)
           cells == [i \in DOMAIN fields |-> Cells(i)]
<1>1. Len(fields) \in Nat /\ DOMAIN fields = 1..Len(fields)
  BY LenProperties DEF IsSeq
<1>2. \A i \in DOMAIN fields : IsSeq(Cells(i))
  BY ScalarCellsSeq, EntriesCellsSeq
<1>3. Serialize(fields, m) = FlattenSeq(cells)
  BY DEF Serialize
<1> HIDE DEF Cells
<1>4. IsSeq(cells) /\ \A i \in DOMAIN cells : IsSeq(cells[i])
  BY <1>1, <1>2, SeqOfFunction
<1> HIDE DEF cells
<1> QED
  BY <1>3, <1>4, FlattenFacts

\* A cut that leaves nothing has taken everything.
LEMMA CutAll ==
  ASSUME NEW cells, IsSeq(cells), NEW n
  PROVE  Cut(cells, n).tail = <<>> => Cut(cells, n).head = cells
<1> DEFINE fits == {k \in DOMAIN cells : TotalSize(SubSeq(cells, 1, k)) <= n}
           fit  == Cardinality(fits)
           room == n - TotalSize(SubSeq(cells, 1, fit))
           From(k) == SubSeq(cells, k, Len(cells))
           Torn(size) == <<Cell("torn", <<>>, size)>>
<1>1. PICK S : cells \in Seq(S)
  BY DEF IsSeq
<1>2. Len(cells) \in Nat /\ DOMAIN cells = 1..Len(cells)
  BY <1>1, LenProperties
<1>3. fit \in Nat /\ fit <= Len(cells)
  <2>1. IsFiniteSet(1..Len(cells)) /\ Cardinality(1..Len(cells)) = Len(cells)
    <3> DEFINE len == Len(cells)
    <3>1. len \in Nat
      BY <1>2
    <3> HIDE DEF len
    <3>2. IsFiniteSet(1..len) /\ Cardinality(1..len) = len
      BY <3>1, FS_Interval
    <3> QED
      BY <3>2 DEF len
  <2>2. fits \in SUBSET (1..Len(cells))
    BY <1>2
  <2> HIDE DEF fits
  <2>3. IsFiniteSet(fits) /\ Cardinality(fits) <= Len(cells)
    BY <2>1, <2>2, FS_Subset
  <2> QED
    BY <2>3, FS_CardinalityType
<1>4. Cut(cells, n) =
        IF fit = Len(cells) \/ room = 0
          THEN [head |-> SubSeq(cells, 1, fit), tail |-> From(fit + 1)]
          ELSE [head |-> SubSeq(cells, 1, fit) \o Torn(room),
                tail |-> Torn(cells[fit + 1].size - room) \o From(fit + 2)]
  BY DEF Cut
<1> HIDE DEF fits, fit, room
<1>5. PICK f \in 0..Len(cells) :
        \/ /\ f = Len(cells)
           /\ Cut(cells, n).head = SubSeq(cells, 1, f)
        \/ /\ f # Len(cells)
           /\ Cut(cells, n).tail = SubSeq(cells, f + 1, Len(cells))
        \/ /\ f # Len(cells)
           /\ \E size : Cut(cells, n).tail = <<Cell("torn", <<>>, size)>> \o SubSeq(cells, f + 2, Len(cells))
  <2>0. \A x, y : [head |-> x, tail |-> y].head = x /\ [head |-> x, tail |-> y].tail = y
    OBVIOUS
  <2>1. fit \in 0..Len(cells)
    BY <1>2, <1>3
  <2>2. CASE fit = Len(cells)
    <3>1. Cut(cells, n).head = SubSeq(cells, 1, fit)
      BY <1>4, <2>0, <2>2, Zenon
    <3> QED
      BY <2>1, <2>2, <3>1, Zenon
  <2>3. CASE fit # Len(cells) /\ room = 0
    <3>1. Cut(cells, n).tail = SubSeq(cells, fit + 1, Len(cells))
      BY <1>4, <2>0, <2>3, Zenon
    <3> QED
      BY <2>1, <2>3, <3>1, Zenon
  <2>4. CASE fit # Len(cells) /\ ~ (room = 0)
    <3>1. Cut(cells, n).tail = Torn(cells[fit + 1].size - room) \o From(fit + 2)
      BY <1>4, <2>0, <2>4, Zenon
    <3> QED
      BY <2>1, <2>4, <3>1, Zenon
  <2> QED
    BY <2>2, <2>3, <2>4
<1>6. CASE f = Len(cells)
  <2>1. Cut(cells, n).head = SubSeq(cells, 1, Len(cells))
    BY <1>5, <1>6
  <2> QED
    BY <1>1, <2>1, SubSeqFull
<1>7. CASE f # Len(cells)
  <2>1. f \in Nat /\ f + 1 <= Len(cells)
    <3>1. f \in 0..Len(cells) /\ Len(cells) \in Nat
      BY <1>2
    <3> QED
      BY <1>7, <3>1
  <2>2. \A i \in (f + 1)..Len(cells) : cells[i] \in S
    BY <1>1, <1>2, <2>1, ElementOfSeq
  <2>3. Len(Cut(cells, n).tail) > 0
    <3>1. CASE Cut(cells, n).tail = SubSeq(cells, f + 1, Len(cells))
      <4>1. Len(SubSeq(cells, f + 1, Len(cells))) = Len(cells) - (f + 1) + 1
        BY <1>2, <2>1, <2>2, SubSeqProperties
      <4> QED
        BY <1>2, <2>1, <3>1, <4>1
    <3>2. ASSUME NEW size,
                 Cut(cells, n).tail = <<Cell("torn", <<>>, size)>> \o SubSeq(cells, f + 2, Len(cells))
          PROVE  Len(Cut(cells, n).tail) > 0
      <4> DEFINE torn == <<Cell("torn", <<>>, size)>>
                 rest == SubSeq(cells, f + 2, Len(cells))
      <4>1. IsSeq(torn) /\ Len(torn) = 1
        BY TupleIsSeq
      <4>2. IsSeq(rest)
        <5>1. \A i \in (f + 2)..Len(cells) : cells[i] \in S
          BY <1>2, <2>1, <2>2
        <5>2. SubSeq(cells, f + 2, Len(cells)) \in Seq(S)
          BY <1>2, <2>1, <5>1, SubSeqProperties
        <5> QED
          BY <5>2 DEF IsSeq
      <4>3. Cut(cells, n).tail = torn \o rest
        BY <3>2
      <4> HIDE DEF torn, rest
      <4>4. Len(torn \o rest) = Len(torn) + Len(rest) /\ Len(rest) \in Nat
        BY <4>1, <4>2, ConcatSeq
      <4> QED
        BY <4>1, <4>3, <4>4
    <3> QED
      BY <1>5, <1>7, <3>1, <3>2
  <2>4. Len(<<>>) = 0
    OBVIOUS
  <2> QED
    BY <2>3, <2>4
<1> QED
  BY <1>6, <1>7

\* FlattenSeq appends one element after the other.
LEMMA FlattenSteps ==
  ASSUME NEW s, IsSeq(s), \A i \in DOMAIN s : IsSeq(s[i])
  PROVE  \E f : /\ f[0] = <<>> /\ FlattenSeq(s) = f[Len(s)]
                /\ \A i \in 0..Len(s) : IsSeq(f[i])
                /\ \A i \in 1..Len(s) : f[i] = f[i - 1] \o s[i]
<1> DEFINE n == Len(s)
<1>1. n \in Nat /\ DOMAIN s = 1..n /\ (n = 0 => s = <<>>)
  BY LenProperties, EmptySeq DEF IsSeq
<1>2. CASE n = 0
  <2> DEFINE f == [i \in {0} |-> <<>>]
  <2>1. f[0] = <<>> /\ IsSeq(f[0])
    BY TupleIsSeq
  <2>2. FlattenSeq(s) = <<>>
    BY <1>1, <1>2 DEF FlattenSeq
  <2> HIDE DEF f
  <2> QED
    BY <1>2, <2>1, <2>2
<1>3. CASE n # 0
  <2>1. PICK g : Flattens(g, s) /\ FlattenSeq(s) = g[n]
    BY <1>1, <1>3, FlattenUnfold
  <2> HIDE DEF n
  <2>2. \A i \in 1..n : g[i] = IF i = 1 THEN s[i] ELSE g[i - 1] \o s[i]
    BY <2>1 DEF Flattens, n
  <2> DEFINE f == [i \in 0..n |-> IF i = 0 THEN <<>> ELSE g[i]]
  <2>3. f[0] = <<>> /\ \A i \in 1..n : f[i] = g[i]
    BY <1>1
  <2> HIDE DEF f
  <2>4. ASSUME NEW i \in 1..n PROVE f[i] = f[i - 1] \o s[i]
    <3>1. CASE i = 1
      <4>1. f[i - 1] = <<>> /\ f[i] = s[i] /\ IsSeq(s[i])
        BY <1>1, <2>2, <2>3, <3>1
      <4> QED
        BY <4>1, ConcatEmptySeq DEF IsSeq
    <3>2. CASE i # 1
      <4>1. i - 1 \in 1..n
        BY <1>1, <3>2
      <4> QED
        BY <2>2, <2>3, <3>2, <4>1
    <3> QED
      BY <3>1, <3>2
  <2> DEFINE done == {k \in Nat : k <= n => IsSeq(f[k])}
  <2>5. 0 \in done
    BY <2>3, TupleIsSeq
  <2>6. ASSUME NEW k \in Nat, k \in done PROVE k + 1 \in done
    <3>1. SUFFICES ASSUME k + 1 <= n PROVE IsSeq(f[k + 1])
      OBVIOUS
    <3>2. k + 1 \in 1..n /\ (k + 1) - 1 = k /\ IsSeq(f[k]) /\ IsSeq(s[k + 1])
      BY <1>1, <2>6, <3>1
    <3>3. IsSeq(f[k] \o s[k + 1])
      BY <3>2, ConcatSeq
    <3> QED
      BY <2>4, <3>2, <3>3
  <2> HIDE DEF done
  <2>7. \A k \in Nat : k \in done
    BY <2>5, <2>6, NatSet
  <2>8. \A i \in 0..n : IsSeq(f[i])
    BY <2>7, <1>1 DEF done
  <2>9. FlattenSeq(s) = f[n]
    BY <1>1, <1>3, <2>1, <2>3
  <2> QED
    BY <2>3, <2>4, <2>8, <2>9 DEF n
<1> QED
  BY <1>2, <1>3

-----------------------------------------------------------------------------
(* Folds *)

\* What the folds of Wire do with one more element.  The folds choose a function
\* on sets of positions; they are proved about together, by their names.
FoldStep(fold, x, v, e) ==
  CASE fold = "Parse"        -> ReadField(x[1], v, x[2][2*e - 1].value, x[2][2*e].value)
    [] fold = "ParseEntry"   -> ReadScalar(LogEntryFields, v, x[2*e - 1].value, x[2*e].value)
    [] fold = "TotalSize"    -> v + e.size
    [] fold = "EntrySize"    -> v + ScalarSize(e.kind, x[e.name])
    [] fold = "EntriesSize"  -> v + 1 + LenSize(EntrySize(e))
    [] fold = "ByteSizeLong" ->
         v + (IF e.kind = "entries" THEN EntriesSize(x[e.name]) ELSE ScalarSize(e.kind, x[e.name]))

\* The value of a fold on every set of positions.
FoldsTo(f, fold, x, base, s, n) ==
  f = [p \in SUBSET (1..n) |->
         IF p = {} THEN base ELSE FoldStep(fold, x, f[p \ {Max(p)}], s[Max(p)])]

\* The value of a fold after i elements.
Steps(v, fold, x, base, s, n) ==
  v[0] = base /\ \A i \in 1..n : v[i] = FoldStep(fold, x, v[i - 1], s[i])

\* The largest position of a set that holds the last one.
LEMMA MaxOf ==
  ASSUME NEW n \in Nat, NEW p \in SUBSET (1..(n + 1)), n + 1 \in p
  PROVE  Max(p) = n + 1
<1>1. \A x \in p : (\A y \in p : x >= y) <=> x = n + 1
  OBVIOUS
<1>2. (CHOOSE x \in p : \A y \in p : x >= y) = n + 1
  BY <1>1
<1> QED
  BY <1>2 DEF Max

\* A fold has a value on every set of positions.
LEMMA FoldExists ==
  ASSUME NEW fold, NEW x, NEW base, NEW s
  PROVE  \A n \in Nat : \E f : FoldsTo(f, fold, x, base, s, n)
<1> DEFINE Read(v, i) == FoldStep(fold, x, v, s[i])
           done == {n \in Nat : \E f : FoldsTo(f, fold, x, base, s, n)}
<1> HIDE DEF Read
<1>1. \A f, n : FoldsTo(f, fold, x, base, s, n) <=>
        f = [p \in SUBSET (1..n) |-> IF p = {} THEN base ELSE Read(f[p \ {Max(p)}], Max(p))]
  BY DEF FoldsTo, Read
<1>2. 0 \in done
  <2> DEFINE f == [p \in SUBSET (1..0) |-> base]
             g == [p \in SUBSET (1..0) |->
                     IF p = {} THEN base ELSE Read(f[p \ {Max(p)}], Max(p))]
  <2>1. \A p \in SUBSET (1..0) : p = {}
    OBVIOUS
  <2>2. f = g
    BY <2>1
  <2>3. FoldsTo(f, fold, x, base, s, 0)
    BY <1>1, <2>2
  <2> QED
    BY <2>3
<1>3. ASSUME NEW n \in Nat, n \in done PROVE n + 1 \in done
  <2>1. PICK f : FoldsTo(f, fold, x, base, s, n)
    BY <1>3
  <2>2. \A p \in SUBSET (1..n) : f[p] = IF p = {} THEN base ELSE Read(f[p \ {Max(p)}], Max(p))
    BY <1>1, <2>1
  <2> DEFINE g == [p \in SUBSET (1..(n + 1)) |->
                     IF n + 1 \in p THEN Read(f[p \ {n + 1}], n + 1) ELSE f[p]]
             h == [p \in SUBSET (1..(n + 1)) |->
                     IF p = {} THEN base ELSE Read(g[p \ {Max(p)}], Max(p))]
  <2>3. ASSUME NEW p \in SUBSET (1..(n + 1))
        PROVE  g[p] = IF p = {} THEN base ELSE Read(g[p \ {Max(p)}], Max(p))
    <3>1. CASE n + 1 \in p
      <4>1. Max(p) = n + 1
        BY <3>1, MaxOf
      <4>2. p \ {n + 1} \in SUBSET (1..(n + 1)) /\ n + 1 \notin p \ {n + 1}
        OBVIOUS
      <4>3. g[p \ {n + 1}] = f[p \ {n + 1}]
        BY <4>2
      <4> QED
        BY <3>1, <4>1, <4>3
    <3>2. CASE n + 1 \notin p
      <4>1. p \in SUBSET (1..n)
        BY <3>2
      <4>2. \A y : p \ {y} \in SUBSET (1..(n + 1)) /\ n + 1 \notin p \ {y}
        BY <3>2
      <4>3. \A y : g[p \ {y}] = f[p \ {y}]
        BY <4>2
      <4> QED
        BY <2>2, <3>2, <4>1, <4>3
    <3> QED
      BY <3>1, <3>2
  <2>4. g = h
    BY <2>3
  <2>5. FoldsTo(g, fold, x, base, s, n + 1)
    <3> HIDE DEF g
    <3> QED
      BY <1>1, <2>4
  <2> HIDE DEF g
  <2> QED
    BY <2>5
<1> HIDE DEF done
<1>4. \A n \in Nat : n \in done
  BY <1>2, <1>3, NatSet
<1> QED
  BY <1>4 DEF done

\* The value of a fold, as FoldLeft chooses it.
FoldOf(fold, x, base, s) ==
  (CHOOSE f : f = [p \in SUBSET (DOMAIN s) |->
     IF p = {} THEN base ELSE FoldStep(fold, x, f[p \ {Max(p)}], s[Max(p)])])[DOMAIN s]

\* A fold of a sequence is reached step by step.
LEMMA FoldUnfold ==
  ASSUME NEW fold, NEW x, NEW base, NEW s, NEW n \in Nat, DOMAIN s = 1..n
  PROVE  \E v : Steps(v, fold, x, base, s, n) /\ FoldOf(fold, x, base, s) = v[n]
<1> DEFINE f == CHOOSE g : FoldsTo(g, fold, x, base, s, n)
           v == [i \in 0..n |-> f[1..i]]
<1>1. FoldsTo(f, fold, x, base, s, n)
  BY FoldExists
<1>2. FoldOf(fold, x, base, s) = f[1..n]
  BY DEF FoldOf, FoldsTo
<1> HIDE DEF f
<1>3. ASSUME NEW i \in 1..n
      PROVE  f[1..i] = FoldStep(fold, x, f[1..(i - 1)], s[i])
  <2>1. 1..i \in SUBSET (1..n) /\ 1..i # {}
    OBVIOUS
  <2>2. Max(1..i) = i
    <3> DEFINE k == i - 1
    <3>1. k \in Nat /\ k + 1 = i
      OBVIOUS
    <3> HIDE DEF k
    <3>2. 1..i \in SUBSET (1..(k + 1)) /\ k + 1 \in 1..i
      BY <3>1
    <3>3. Max(1..i) = k + 1
      BY <3>1, <3>2, MaxOf
    <3> QED
      BY <3>1, <3>3
  <2>3. (1..i) \ {i} = 1..(i - 1)
    OBVIOUS
  <2>4. f[1..i] = FoldStep(fold, x, f[(1..i) \ {Max(1..i)}], s[Max(1..i)])
    BY <1>1, <2>1 DEF FoldsTo
  <2> QED
    BY <2>2, <2>3, <2>4
<1>4. f[1..0] = base
  <2>1. 1..0 = {} /\ {} \in SUBSET (1..n)
    OBVIOUS
  <2> QED
    BY <1>1, <2>1 DEF FoldsTo
<1>5. Steps(v, fold, x, base, s, n)
  <2>1. v[0] = base
    BY <1>4
  <2>2. ASSUME NEW i \in 1..n PROVE v[i] = FoldStep(fold, x, v[i - 1], s[i])
    <3>1. i \in 0..n /\ i - 1 \in 0..n
      OBVIOUS
    <3>2. v[i] = f[1..i] /\ v[i - 1] = f[1..(i - 1)]
      BY <3>1
    <3> HIDE DEF v
    <3> QED
      BY <1>3, <3>2
  <2> HIDE DEF v
  <2> QED
    BY <2>1, <2>2 DEF Steps
<1>6. FoldOf(fold, x, base, s) = v[n]
  BY <1>2
<1> HIDE DEF v
<1> QED
  BY <1>5, <1>6

\* Folds that do the same steps give the same.
LEMMA StepsUnique ==
  ASSUME NEW fold, NEW other, NEW x, NEW y, NEW base, NEW s, NEW t, NEW n \in Nat, NEW v, NEW w,
         Steps(v, fold, x, base, s, n), Steps(w, other, y, base, t, n),
         \A i \in 1..n : \A u : FoldStep(fold, x, u, s[i]) = FoldStep(other, y, u, t[i])
  PROVE  v[n] = w[n]
<1> DEFINE same == {k \in Nat : k <= n => v[k] = w[k]}
<1>1. 0 \in same
  BY DEF Steps
<1>2. ASSUME NEW k \in Nat, k \in same PROVE k + 1 \in same
  <2>1. SUFFICES ASSUME k + 1 <= n PROVE v[k + 1] = w[k + 1]
    OBVIOUS
  <2>2. v[k] = w[k]
    BY <1>2, <2>1
  <2> DEFINE i == k + 1
  <2>3. i \in 1..n /\ i - 1 = k
    BY <2>1
  <2> HIDE DEF i
  <2>4. v[i] = w[i]
    BY <2>2, <2>3 DEF Steps
  <2> QED
    BY <2>4 DEF i
<1> HIDE DEF same
<1>3. \A k \in Nat : k \in same
  BY <1>1, <1>2, NatSet
<1> QED
  BY <1>3 DEF same

\* The fold of nothing is its base.
LEMMA FoldNone ==
  ASSUME NEW fold, NEW x, NEW base
  PROVE  FoldOf(fold, x, base, <<>>) = base
<1>1. DOMAIN <<>> = 1..0
  OBVIOUS
<1>2. PICK v : Steps(v, fold, x, base, <<>>, 0) /\ FoldOf(fold, x, base, <<>>) = v[0]
  BY <1>1, FoldUnfold
<1> QED
  BY <1>2 DEF Steps

\* The folds of Wire.
LEMMA WireFolds ==
  /\ \A fields, cells :
       Parse(fields, cells) =
         FoldOf("Parse", <<fields, cells>>, Cleared(fields), [i \in 1..(Len(cells) \div 2) |-> i])
  /\ \A cells : ParseEntry(cells) =
       FoldOf("ParseEntry", cells, Cleared(LogEntryFields), [i \in 1..(Len(cells) \div 2) |-> i])
  /\ \A cells : TotalSize(cells) = FoldOf("TotalSize", 0, 0, cells)
  /\ \A e : EntrySize(e) = FoldOf("EntrySize", e, 0, LogEntryFields)
  /\ \A entries : EntriesSize(entries) = FoldOf("EntriesSize", 0, 0, entries)
  /\ \A fields, m : ByteSizeLong(fields, m) = FoldOf("ByteSizeLong", m, 0, fields)
<1>1. ASSUME NEW fields, NEW cells
      PROVE  Parse(fields, cells) =
         FoldOf("Parse", <<fields, cells>>, Cleared(fields), [i \in 1..(Len(cells) \div 2) |-> i])
  BY DEF Parse, FoldLeft, MapThenFoldSet, FoldOf, FoldStep
<1>2. ASSUME NEW cells
      PROVE  ParseEntry(cells) =
       FoldOf("ParseEntry", cells, Cleared(LogEntryFields), [i \in 1..(Len(cells) \div 2) |-> i])
  BY DEF ParseEntry, FoldLeft, MapThenFoldSet, FoldOf, FoldStep
<1>3. ASSUME NEW cells PROVE TotalSize(cells) = FoldOf("TotalSize", 0, 0, cells)
  BY DEF TotalSize, FoldLeft, MapThenFoldSet, FoldOf, FoldStep
<1>4. ASSUME NEW e PROVE EntrySize(e) = FoldOf("EntrySize", e, 0, LogEntryFields)
  BY DEF EntrySize, FoldLeft, MapThenFoldSet, FoldOf, FoldStep
<1>5. ASSUME NEW entries
      PROVE EntriesSize(entries) = FoldOf("EntriesSize", 0, 0, entries)
  BY DEF EntriesSize, FoldLeft, MapThenFoldSet, FoldOf, FoldStep
<1>6. ASSUME NEW fields, NEW m
      PROVE  ByteSizeLong(fields, m) = FoldOf("ByteSizeLong", m, 0, fields)
  BY DEF ByteSizeLong, FoldLeft, MapThenFoldSet, FoldOf, FoldStep
<1> QED
  BY <1>1, <1>2, <1>3, <1>4, <1>5, <1>6

\* What each fold of the model does in a step.
LEMMA FoldSteps ==
  /\ \A x, v, e : FoldStep("Parse", x, v, e) = ReadField(x[1], v, x[2][2*e - 1].value, x[2][2*e].value)
  /\ \A x, v, e : FoldStep("ParseEntry", x, v, e) =
                    ReadScalar(LogEntryFields, v, x[2*e - 1].value, x[2*e].value)
  /\ \A x, v, e : FoldStep("TotalSize", x, v, e) = v + e.size
  /\ \A x, v, e : FoldStep("EntrySize", x, v, e) = v + ScalarSize(e.kind, x[e.name])
  /\ \A x, v, e : FoldStep("EntriesSize", x, v, e) = v + 1 + LenSize(EntrySize(e))
  /\ \A x, v, e : FoldStep("ByteSizeLong", x, v, e) =
       v + (IF e.kind = "entries" THEN EntriesSize(x[e.name]) ELSE ScalarSize(e.kind, x[e.name]))
BY DEF FoldStep

-----------------------------------------------------------------------------
(* Sizes, and what a cut takes *)

\* A varint takes at least a byte; the flag of a bool takes one.
LEMMA VarintSizes ==
  /\ \A v : VarintSize(v) \in Nat \ {0}
  /\ VarintSize(0) = 1 /\ VarintSize(1) = 1
<1> DEFINE steps == {7, 14, 21, 28}
           Longer(v) == {b \in steps : v >= 2^b}
<1>1. ASSUME NEW v PROVE Cardinality(Longer(v)) \in Nat
  <2>0. PICK n \in Int : steps \subseteq 1..n
    <3>1. steps \subseteq 1..28 /\ 28 \in Int
      OBVIOUS
    <3> HIDE DEF steps
    <3> QED
      BY <3>1
  <2>1. Longer(v) \in SUBSET (1..n)
    <3>1. Longer(v) \subseteq steps
      <4> HIDE DEF steps
      <4> QED
        BY Zenon
    <3> HIDE DEF steps, Longer
    <3> QED
      BY <2>0, <3>1
  <2>2. IsFiniteSet(1..n)
    BY FS_Interval
  <2> HIDE DEF Longer
  <2>3. IsFiniteSet(Longer(v))
    BY <2>1, <2>2, FS_Subset
  <2> QED
    BY <2>3, FS_CardinalityType
<1>2. \A v : VarintSize(v) = IF v < 0 THEN 10 ELSE 1 + Cardinality(Longer(v))
  BY DEF VarintSize
<1>3. Longer(0) = {} /\ Longer(1) = {}
  <2>1. ~ (0 >= 2^7) /\ ~ (0 >= 2^14) /\ ~ (0 >= 2^21) /\ ~ (0 >= 2^28)
    OBVIOUS
  <2>2. ~ (1 >= 2^7) /\ ~ (1 >= 2^14) /\ ~ (1 >= 2^21) /\ ~ (1 >= 2^28)
    OBVIOUS
  <2> QED
    BY <2>1, <2>2, Zenon
<1> HIDE DEF Longer
<1>4. Cardinality({}) = 0
  BY FS_EmptySet
<1> QED
  BY <1>1, <1>2, <1>3, <1>4

\* A value with its length before it takes at least a byte.
LEMMA LenSizes == ASSUME NEW n \in Nat PROVE LenSize(n) \in Nat \ {0}
<1>1. VarintSize(n) \in Nat \ {0}
  BY VarintSizes
<1> QED
  BY <1>1 DEF LenSize

\* A sequence of cells, none without bytes.
Sized(cells) == IsSeq(cells) /\ \A i \in 1..Len(cells) : cells[i].size \in Nat \ {0}

\* A sequence is a function on its positions,
LEMMA SeqFacts ==
  ASSUME NEW s, IsSeq(s)
  PROVE  Len(s) \in Nat /\ DOMAIN s = 1..Len(s) /\ (Len(s) = 0 => s = <<>>)
BY LenProperties, EmptySeq DEF IsSeq

\* Sequences of the same elements are the same.
LEMMA SameSeq ==
  ASSUME NEW s, NEW t, IsSeq(s), IsSeq(t), Len(s) = Len(t), \A i \in 1..Len(s) : s[i] = t[i]
  PROVE  s = t
<1>1. PICK S : s \in Seq(S)
  BY DEF IsSeq
<1>2. PICK T : t \in Seq(T)
  BY DEF IsSeq
<1>3. s \in Seq(S \cup T) /\ t \in Seq(S \cup T)
  BY <1>1, <1>2, SeqMonotonic
<1> QED
  BY <1>3, SeqEqual

\* its beginning is a sequence,
LEMMA PrefixFacts ==
  ASSUME NEW s, IsSeq(s), NEW i \in 0..Len(s)
  PROVE  /\ IsSeq(SubSeq(s, 1, i)) /\ Len(SubSeq(s, 1, i)) = i
         /\ \A j \in 1..i : SubSeq(s, 1, i)[j] = s[j]
<1>1. PICK S : s \in Seq(S)
  BY DEF IsSeq
<1>2. Len(s) \in Nat
  BY SeqFacts
<1>3. \A j \in 1..i : s[j] \in S
  BY <1>1, <1>2, ElementOfSeq
<1>4. i \in Int /\ 1 \in Int /\ (i - 1) + 1 = i /\ i >= 0
  BY <1>2
<1>5. /\ SubSeq(s, 1, i) \in Seq(S)
      /\ Len(SubSeq(s, 1, i)) = IF 1 <= i THEN (i - 1) + 1 ELSE 0
      /\ \A j \in 1..((i - 1) + 1) : SubSeq(s, 1, i)[j] = s[1 + j - 1]
  BY <1>3, <1>4, SubSeqProperties
<1> QED
  BY <1>4, <1>5 DEF IsSeq

\* and its rest is one.
LEMMA SuffixFacts ==
  ASSUME NEW s, IsSeq(s), NEW i \in 0..Len(s)
  PROVE  /\ IsSeq(SubSeq(s, i + 1, Len(s))) /\ Len(SubSeq(s, i + 1, Len(s))) = Len(s) - i
         /\ \A j \in 1..(Len(s) - i) : SubSeq(s, i + 1, Len(s))[j] = s[i + j]
<1>1. PICK S : s \in Seq(S)
  BY DEF IsSeq
<1>2. Len(s) \in Nat
  BY SeqFacts
<1> DEFINE n == Len(s)
           t == SubSeq(s, i + 1, n)
<1>3. \A j \in (i + 1)..n : s[j] \in S
  BY <1>1, <1>2, ElementOfSeq
<1>4. i \in Int /\ i + 1 \in Int /\ n \in Int /\ i <= n /\ n - (i + 1) + 1 = n - i
  BY <1>2
<1> HIDE DEF n
<1>5. /\ t \in Seq(S)
      /\ Len(t) = IF i + 1 <= n THEN n - (i + 1) + 1 ELSE 0
      /\ \A j \in 1..(n - (i + 1) + 1) : t[j] = s[i + 1 + j - 1]
  BY <1>3, <1>4, SubSeqProperties
<1>6. Len(t) = n - i
  BY <1>4, <1>5
<1>7. ASSUME NEW j \in 1..(n - i) PROVE t[j] = s[i + j]
  <2>1. i + 1 + j - 1 = i + j
    BY <1>4
  <2> HIDE DEF t
  <2> QED
    BY <1>4, <1>5, <2>1
<1>8. IsSeq(t)
  BY <1>5 DEF IsSeq
<1> QED
  BY <1>6, <1>7, <1>8 DEF n

\* The size of a stream is a fold.
LEMMA SumOf == \A cells : TotalSize(cells) = FoldOf("TotalSize", 0, 0, cells)
BY WireFolds

\* The sizes of the prefixes of a sequence of cells.
LEMMA Totals ==
  ASSUME NEW c, Sized(c)
  PROVE  \E v : /\ v[0] = 0 /\ \A i \in 1..Len(c) : v[i] = v[i - 1] + c[i].size
                /\ \A i \in 0..Len(c) : v[i] \in Nat /\ TotalSize(SubSeq(c, 1, i)) = v[i]
                /\ TotalSize(c) = v[Len(c)]
<1> DEFINE n == Len(c)
<1>1. n \in Nat /\ DOMAIN c = 1..n
  BY SeqFacts DEF Sized
<1>2. \A v, e : FoldStep("TotalSize", 0, v, e) = v + e.size
  BY FoldSteps
<1> HIDE DEF n
<1>3. PICK v : Steps(v, "TotalSize", 0, 0, c, n) /\ FoldOf("TotalSize", 0, 0, c) = v[n]
  BY <1>1, FoldUnfold
<1>4. v[0] = 0 /\ \A i \in 1..n : v[i] = v[i - 1] + c[i].size
  BY <1>2, <1>3 DEF Steps
<1>5. \A i \in 0..n : v[i] \in Nat
  <2> DEFINE done == {k \in Nat : k <= n => v[k] \in Nat}
  <2>1. 0 \in done
    BY <1>4
  <2>2. ASSUME NEW k \in Nat, k \in done PROVE k + 1 \in done
    <3>1. SUFFICES ASSUME k + 1 <= n PROVE v[k + 1] \in Nat
      OBVIOUS
    <3>2. v[k] \in Nat /\ k + 1 \in 1..n /\ (k + 1) - 1 = k
      BY <1>1, <2>2, <3>1
    <3>3. c[k + 1].size \in Nat
      BY <3>2 DEF Sized, n
    <3> QED
      BY <1>4, <3>2, <3>3
  <2> HIDE DEF done
  <2>3. \A k \in Nat : k \in done
    BY <2>1, <2>2, NatSet
  <2> QED
    BY <1>1, <2>3 DEF done
<1>6. ASSUME NEW i \in 0..n PROVE TotalSize(SubSeq(c, 1, i)) = v[i]
  <2> DEFINE p == SubSeq(c, 1, i)
  <2>1. i \in Nat /\ IsSeq(p) /\ Len(p) = i /\ \A j \in 1..i : p[j] = c[j]
    BY <1>1, PrefixFacts DEF Sized, n
  <2> HIDE DEF p
  <2>2. DOMAIN p = 1..i
    BY <2>1, SeqFacts
  <2>3. PICK w : Steps(w, "TotalSize", 0, 0, p, i) /\ FoldOf("TotalSize", 0, 0, p) = w[i]
    BY <2>1, <2>2, FoldUnfold
  <2>4. Steps(v, "TotalSize", 0, 0, c, i)
    BY <1>1, <1>3 DEF Steps
  <2>5. w[i] = v[i]
    <3>1. \A j \in 1..i : \A u : FoldStep("TotalSize", 0, u, p[j]) = FoldStep("TotalSize", 0, u, c[j])
      BY <2>1
    <3> QED
      BY <2>1, <2>3, <2>4, <3>1, StepsUnique
  <2> QED
    BY <2>3, <2>5, SumOf DEF p
<1>7. TotalSize(c) = v[n]
  BY <1>3, SumOf
<1> QED
  BY <1>4, <1>5, <1>6, <1>7 DEF n

\* The longer prefix has more bytes.
LEMMA TotalsGrow ==
  ASSUME NEW c, Sized(c), NEW v, v[0] = 0, \A i \in 1..Len(c) : v[i] = v[i - 1] + c[i].size,
         \A i \in 0..Len(c) : v[i] \in Nat
  PROVE  \A i \in 0..Len(c) : \A j \in 0..Len(c) : i < j => v[i] < v[j]
<1> DEFINE n == Len(c)
<1>1. n \in Nat
  BY SeqFacts DEF Sized
<1>2. ASSUME NEW i \in 0..n PROVE \A j \in 0..n : i < j => v[i] < v[j]
  <2> DEFINE done == {k \in Nat : i < k /\ k <= n => v[i] < v[k]}
  <2>1. 0 \in done
    BY <1>1
  <2>2. ASSUME NEW k \in Nat, k \in done PROVE k + 1 \in done
    <3>1. SUFFICES ASSUME i < k + 1, k + 1 <= n PROVE v[i] < v[k + 1]
      OBVIOUS
    <3>2. k + 1 \in 1..n /\ (k + 1) - 1 = k /\ k \in 0..n
      BY <1>1, <3>1
    <3>3. v[k + 1] = v[k] + c[k + 1].size /\ c[k + 1].size \in Nat \ {0} /\ v[k] \in Nat /\ v[i] \in Nat
      BY <3>2 DEF Sized
    <3>4. i = k \/ v[i] < v[k]
      BY <1>1, <2>2, <3>1
    <3> QED
      BY <3>3, <3>4
  <2> HIDE DEF done
  <2>3. \A k \in Nat : k \in done
    BY <2>1, <2>2, NatSet
  <2> QED
    BY <1>1, <2>3 DEF done
<1> QED
  BY <1>2

\* An empty stream has no bytes.
LEMMA TotalNone == TotalSize(<<>>) = 0
BY FoldNone, SumOf

\* Streams of cells with sizes stay such when one is written behind the other,
LEMMA SizedConcat ==
  ASSUME NEW c, NEW d, Sized(c), Sized(d)
  PROVE  Sized(c \o d)
<1>1. /\ IsSeq(c \o d) /\ Len(c \o d) = Len(c) + Len(d) /\ Len(c) \in Nat /\ Len(d) \in Nat
      /\ \A i \in 1..Len(c) : (c \o d)[i] = c[i]
      /\ \A i \in 1..Len(d) : (c \o d)[Len(c) + i] = d[i]
  BY ConcatSeq DEF Sized
<1>2. ASSUME NEW i \in 1..Len(c \o d) PROVE (c \o d)[i].size \in Nat \ {0}
  <2>1. CASE i <= Len(c)
    BY <1>1, <2>1 DEF Sized
  <2>2. CASE i > Len(c)
    <3>1. i - Len(c) \in 1..Len(d) /\ Len(c) + (i - Len(c)) = i
      BY <1>1, <2>2
    <3> QED
      BY <1>1, <3>1 DEF Sized
  <2> QED
    BY <1>1, <2>1, <2>2
<1> QED
  BY <1>1, <1>2 DEF Sized

\* and their bytes add up.
LEMMA TotalConcat ==
  ASSUME NEW c, NEW d, Sized(c), Sized(d)
  PROVE  TotalSize(c \o d) = TotalSize(c) + TotalSize(d) /\ TotalSize(c) \in Nat /\ TotalSize(d) \in Nat
<1> DEFINE e == c \o d
           k == Len(c)
           n == Len(d)
<1>1. /\ Sized(e) /\ Len(e) = k + n /\ k \in Nat /\ n \in Nat
      /\ \A i \in 1..k : e[i] = c[i]
      /\ \A i \in 1..n : e[k + i] = d[i]
  BY ConcatSeq, SizedConcat DEF Sized
<1> HIDE DEF e, k, n
<1>2. PICK v : /\ v[0] = 0 /\ \A i \in 1..k : v[i] = v[i - 1] + c[i].size
               /\ \A i \in 0..k : v[i] \in Nat
               /\ TotalSize(c) = v[k]
  BY Totals DEF k
<1>3. PICK w : /\ w[0] = 0 /\ \A i \in 1..n : w[i] = w[i - 1] + d[i].size
               /\ \A i \in 0..n : w[i] \in Nat
               /\ TotalSize(d) = w[n]
  BY Totals DEF n
<1>4. PICK u : /\ u[0] = 0 /\ \A i \in 1..(k + n) : u[i] = u[i - 1] + e[i].size
               /\ TotalSize(e) = u[k + n]
  BY <1>1, Totals
<1>5. u[k] = v[k]
  <2> DEFINE same == {i \in Nat : i <= k => u[i] = v[i]}
  <2>1. 0 \in same
    BY <1>2, <1>4
  <2>2. ASSUME NEW i \in Nat, i \in same PROVE i + 1 \in same
    <3>1. SUFFICES ASSUME i + 1 <= k PROVE u[i + 1] = v[i + 1]
      OBVIOUS
    <3>2. i + 1 \in 1..k /\ i + 1 \in 1..(k + n) /\ (i + 1) - 1 = i /\ u[i] = v[i]
      BY <1>1, <2>2, <3>1
    <3>3. u[i + 1] = u[i] + e[i + 1].size /\ e[i + 1] = c[i + 1]
      BY <1>1, <1>4, <3>2
    <3>4. v[i + 1] = v[i] + c[i + 1].size
      BY <1>2, <3>2
    <3> QED
      BY <3>2, <3>3, <3>4
  <2> HIDE DEF same
  <2>3. \A i \in Nat : i \in same
    BY <2>1, <2>2, NatSet
  <2> QED
    BY <1>1, <2>3 DEF same
<1>6. u[k + n] = v[k] + w[n]
  <2> DEFINE same == {i \in Nat : i <= n => u[k + i] = v[k] + w[i]}
  <2>1. 0 \in same
    BY <1>1, <1>2, <1>3, <1>5
  <2>2. ASSUME NEW i \in Nat, i \in same PROVE i + 1 \in same
    <3>1. SUFFICES ASSUME i + 1 <= n PROVE u[k + (i + 1)] = v[k] + w[i + 1]
      OBVIOUS
    <3>2. /\ i + 1 \in 1..n /\ k + (i + 1) \in 1..(k + n) /\ (k + (i + 1)) - 1 = k + i
          /\ (i + 1) - 1 = i /\ u[k + i] = v[k] + w[i] /\ i \in 0..n
      BY <1>1, <2>2, <3>1
    <3>3. u[k + (i + 1)] = u[k + i] + e[k + (i + 1)].size /\ e[k + (i + 1)] = d[i + 1]
      BY <1>1, <1>4, <3>2
    <3>4. w[i + 1] = w[i] + d[i + 1].size /\ d[i + 1].size \in Nat /\ w[i] \in Nat /\ v[k] \in Nat
      BY <1>1, <1>2, <1>3, <3>2 DEF Sized, n
    <3> QED
      BY <3>2, <3>3, <3>4
  <2> HIDE DEF same
  <2>3. \A i \in Nat : i \in same
    BY <2>1, <2>2, NatSet
  <2> QED
    BY <1>1, <2>3 DEF same
<1> QED
  BY <1>1, <1>2, <1>3, <1>4, <1>5, <1>6 DEF e

-----------------------------------------------------------------------------
(* What a cut takes *)

\* The cell that a cut inside a cell leaves on each side.
TornCells(size) == <<Cell("torn", <<>>, size)>>

\* It has the bytes that are left.
LEMMA TornSized == ASSUME NEW n \in Nat \ {0} PROVE Sized(TornCells(n)) /\ TotalSize(TornCells(n)) = n
<1>1. /\ IsSeq(TornCells(n)) /\ Len(TornCells(n)) = 1
      /\ TornCells(n)[1].size = n
  BY TupleIsSeq DEF TornCells, Cell
<1> HIDE DEF TornCells
<1>2. Sized(TornCells(n))
  BY <1>1 DEF Sized
<1>3. PICK v : /\ v[0] = 0 /\ \A i \in 1..Len(TornCells(n)) : v[i] = v[i - 1] + TornCells(n)[i].size
               /\ TotalSize(TornCells(n)) = v[Len(TornCells(n))]
  BY <1>2, Totals
<1>4. 1 \in 1..Len(TornCells(n)) /\ 1 - 1 = 0
  BY <1>1
<1>5. v[1] = 0 + n
  BY <1>1, <1>3, <1>4
<1> QED
  BY <1>1, <1>2, <1>3, <1>5

\* The prefixes of at most n bytes are those up to one of them.
LEMMA Threshold ==
  ASSUME NEW N \in Nat, NEW v, NEW n \in Nat, v[0] = 0,
         \A i \in 0..N : v[i] \in Nat,
         \A i \in 0..N : \A j \in 0..N : i < j => v[i] < v[j]
  PROVE  \E f \in 0..N : /\ {k \in 1..N : v[k] <= n} = 1..f
                         /\ v[f] <= n /\ (f = N \/ v[f + 1] > n)
<1> DEFINE Reaches(f) == v[f] <= n /\ v[f + 1] > n
           done == {k \in Nat : k <= N => v[k] <= n \/ \E f \in 0..(N - 1) : Reaches(f)}
<1>1. 0 \in done
  OBVIOUS
<1>2. ASSUME NEW k \in Nat, k \in done PROVE k + 1 \in done
  <2>1. SUFFICES ASSUME k + 1 <= N PROVE v[k + 1] <= n \/ \E f \in 0..(N - 1) : Reaches(f)
    OBVIOUS
  <2>2. CASE v[k] <= n
    <3>1. k \in 0..(N - 1) /\ v[k] \in Nat /\ v[k + 1] \in Nat
      BY <2>1
    <3> QED
      BY <2>2, <3>1
  <2>3. CASE ~ (v[k] <= n)
    BY <1>2, <2>1, <2>3
  <2> QED
    BY <2>2, <2>3
<1>3. \A k \in Nat : k \in done
  <2> HIDE DEF done
  <2> QED
    BY <1>1, <1>2, NatSet
<1>4. PICK f \in 0..N : v[f] <= n /\ (f = N \/ v[f + 1] > n)
  <2>1. CASE v[N] <= n
    BY <2>1
  <2>2. CASE ~ (v[N] <= n)
    <3>1. PICK f \in 0..(N - 1) : Reaches(f)
      BY <1>3, <2>2
    <3> QED
      BY <3>1
  <2> QED
    BY <2>1, <2>2
<1>5. ASSUME NEW k \in 1..N PROVE v[k] <= n <=> k \in 1..f
  <2>1. f \in Nat /\ k \in 0..N /\ v[k] \in Nat /\ v[f] \in Nat
    OBVIOUS
  <2>2. CASE k < f
    BY <1>4, <2>1, <2>2
  <2>3. CASE k = f
    BY <1>4, <2>1, <2>3
  <2>4. CASE k > f
    <3>1. f + 1 \in 0..N /\ v[f + 1] > n /\ v[f + 1] \in Nat
      BY <1>4, <2>1, <2>4
    <3>2. k = f + 1 \/ v[f + 1] < v[k]
      BY <2>1, <2>4, <3>1
    <3> QED
      BY <2>1, <2>4, <3>1, <3>2
  <2> QED
    BY <2>1, <2>2, <2>3, <2>4
<1>6. {k \in 1..N : v[k] <= n} = 1..f
  <2>1. 1..f \subseteq 1..N
    OBVIOUS
  <2> QED
    BY <1>5, <2>1
<1> QED
  BY <1>4, <1>6

\* What a cut of n bytes takes: the f cells that fit, and a part of the next one
\* where there is room.
Fitting(c, n, f) ==
  /\ TotalSize(SubSeq(c, 1, f)) <= n
  /\ f # Len(c) => TotalSize(SubSeq(c, 1, f + 1)) > n

\* A cut after n bytes when the first f cells fit.
CutAfter(c, n, f) ==
  LET head == SubSeq(c, 1, f)
      room == n - TotalSize(head)
  IN  IF f = Len(c) THEN [head |-> c, tail |-> <<>>]
      ELSE IF room = 0 THEN [head |-> head, tail |-> SubSeq(c, f + 1, Len(c))]
      ELSE [head |-> head \o TornCells(room),
            tail |-> TornCells(c[f + 1].size - room) \o SubSeq(c, f + 2, Len(c))]

\* Every cut is one of these.
LEMMA CutFacts ==
  ASSUME NEW c, Sized(c), NEW n \in Nat
  PROVE  \E f \in 0..Len(c) : Fitting(c, n, f) /\ Cut(c, n) = CutAfter(c, n, f)
<1> DEFINE N == Len(c)
           Size(k) == TotalSize(SubSeq(c, 1, k))
<1>1. N \in Nat /\ DOMAIN c = 1..N
  BY SeqFacts DEF Sized
<1>2. PICK v : /\ v[0] = 0 /\ \A i \in 1..N : v[i] = v[i - 1] + c[i].size
               /\ \A i \in 0..N : v[i] \in Nat /\ Size(i) = v[i]
  BY Totals
<1>3. \A i \in 0..N : \A j \in 0..N : i < j => v[i] < v[j]
  BY <1>2, TotalsGrow
<1> HIDE DEF N
<1>4. PICK f \in 0..N : /\ {k \in 1..N : v[k] <= n} = 1..f
                        /\ v[f] <= n /\ (f = N \/ v[f + 1] > n)
  BY <1>1, <1>2, <1>3, Threshold
<1>5. Cardinality({k \in DOMAIN c : Size(k) <= n}) = f
  <2>1. {k \in DOMAIN c : Size(k) <= n} = {k \in 1..N : v[k] <= n}
    <3>1. \A k \in 1..N : Size(k) = v[k]
      BY <1>1, <1>2
    <3> HIDE DEF Size
    <3> QED
      BY <1>1, <3>1
  <2>2. Cardinality(1..f) = f
    <3>1. f \in Nat /\ 1 \in Int
      BY <1>1
    <3>2. Cardinality(1..f) = IF 1 > f THEN 0 ELSE f - 1 + 1
      BY <3>1, FS_Interval
    <3> QED
      BY <3>1, <3>2
  <2> HIDE DEF Size
  <2> QED
    BY <1>4, <2>1, <2>2
<1> DEFINE head == SubSeq(c, 1, f)
           room == n - TotalSize(head)
<1>6. Cut(c, n) =
        IF f = Len(c) \/ room = 0
          THEN [head |-> head, tail |-> SubSeq(c, f + 1, Len(c))]
          ELSE [head |-> head \o TornCells(room),
                tail |-> TornCells(c[f + 1].size - room) \o SubSeq(c, f + 2, Len(c))]
  BY <1>5 DEF Cut, TornCells
<1>7. f = Len(c) => SubSeq(c, 1, f) = c /\ SubSeq(c, f + 1, Len(c)) = <<>>
  <2> SUFFICES ASSUME f = Len(c) PROVE SubSeq(c, 1, f) = c /\ SubSeq(c, f + 1, Len(c)) = <<>>
    OBVIOUS
  <2>1. SubSeq(c, 1, Len(c)) = c
    BY SubSeqFull DEF Sized, IsSeq
  <2>2. IsSeq(SubSeq(c, f + 1, Len(c))) /\ Len(SubSeq(c, f + 1, Len(c))) = 0
    BY <1>1, SuffixFacts DEF Sized, N
  <2> QED
    BY <2>1, <2>2, SeqFacts
<1>8. Cut(c, n) = CutAfter(c, n, f)
  <2> HIDE DEF head, room
  <2>1. CASE f = Len(c)
    <3>1. Cut(c, n) = [head |-> head, tail |-> SubSeq(c, f + 1, Len(c))]
      BY <1>6, <2>1
    <3>2. CutAfter(c, n, f) = [head |-> c, tail |-> <<>>]
      BY <2>1 DEF CutAfter
    <3> QED
      BY <1>7, <2>1, <3>1, <3>2 DEF head
  <2>2. CASE f # Len(c) /\ room = 0
    <3>1. Cut(c, n) = [head |-> head, tail |-> SubSeq(c, f + 1, Len(c))]
      BY <1>6, <2>2
    <3>2. CutAfter(c, n, f) = [head |-> head, tail |-> SubSeq(c, f + 1, Len(c))]
      BY <2>2 DEF CutAfter, head, room
    <3> QED
      BY <3>1, <3>2
  <2>3. CASE f # Len(c) /\ ~ (room = 0)
    <3>1. Cut(c, n) = [head |-> head \o TornCells(room),
                tail |-> TornCells(c[f + 1].size - room) \o SubSeq(c, f + 2, Len(c))]
      BY <1>6, <2>3
    <3>2. CutAfter(c, n, f) = [head |-> head \o TornCells(room),
                tail |-> TornCells(c[f + 1].size - room) \o SubSeq(c, f + 2, Len(c))]
      BY <2>3 DEF CutAfter, head, room
    <3> QED
      BY <3>1, <3>2
  <2> QED
    BY <2>1, <2>2, <2>3
<1>9. Fitting(c, n, f)
  <2>1. Size(f) <= n
    <3>1. Size(f) = v[f]
      BY <1>2
    <3> HIDE DEF Size
    <3> QED
      BY <1>4, <3>1
  <2>2. f # N => Size(f + 1) > n
    <3>1. f # N => f + 1 \in 0..N
      BY <1>1
    <3>2. f # N => Size(f + 1) = v[f + 1]
      BY <1>2, <3>1
    <3> HIDE DEF Size
    <3> QED
      BY <1>4, <3>2
  <2> QED
    BY <2>1, <2>2 DEF Fitting, N
<1> QED
  BY <1>8, <1>9 DEF N

\* Two fittings are one.
LEMMA FittingOnce ==
  ASSUME NEW c, Sized(c), NEW n \in Nat, NEW f \in 0..Len(c), NEW g \in 0..Len(c),
         Fitting(c, n, f), Fitting(c, n, g)
  PROVE  f = g
<1> DEFINE N == Len(c)
<1>1. N \in Nat
  BY SeqFacts DEF Sized
<1>2. PICK v : /\ v[0] = 0 /\ \A i \in 1..N : v[i] = v[i - 1] + c[i].size
               /\ \A i \in 0..N : v[i] \in Nat /\ TotalSize(SubSeq(c, 1, i)) = v[i]
  BY Totals
<1>3. \A i \in 0..N : \A j \in 0..N : i < j => v[i] < v[j]
  BY <1>2, TotalsGrow
<1> HIDE DEF N
<1>4. ASSUME NEW i \in 0..N, NEW j \in 0..N, Fitting(c, n, i), Fitting(c, n, j) PROVE ~ (i < j)
  <2> SUFFICES ASSUME i < j PROVE FALSE
    OBVIOUS
  <2>1. i # N /\ i + 1 \in 0..N
    BY <1>1
  <2>2. v[i + 1] > n
    BY <1>2, <1>4, <2>1 DEF Fitting, N
  <2>3. v[j] <= n
    BY <1>2, <1>4 DEF Fitting
  <2>4. i + 1 = j \/ v[i + 1] < v[j]
    BY <1>1, <1>3, <2>1
  <2>5. v[i + 1] \in Nat /\ v[j] \in Nat
    BY <1>2, <2>1
  <2> QED
    BY <2>2, <2>3, <2>4, <2>5
<1>5. ~ (f < g) /\ ~ (g < f)
  BY <1>4 DEF N
<1> QED
  BY <1>1, <1>5 DEF N

\* A cut as long as the first of two streams takes it as it is.
LEMMA CutWhole ==
  ASSUME NEW a, NEW b, Sized(a), Sized(b)
  PROVE  Cut(a \o b, TotalSize(a)) = [head |-> a, tail |-> b]
<1> DEFINE c == a \o b
           k == Len(a)
           n == TotalSize(a)
<1>1. /\ Sized(c) /\ IsSeq(c) /\ Len(c) = k + Len(b) /\ k \in Nat /\ Len(b) \in Nat
      /\ \A i \in 1..k : c[i] = a[i]
      /\ \A i \in 1..Len(b) : c[k + i] = b[i]
  BY ConcatSeq, SizedConcat DEF Sized
<1>2. n \in Nat
  BY TotalConcat
<1> HIDE DEF c
<1>3. SubSeq(c, 1, k) = a
  <2> DEFINE p == SubSeq(c, 1, k)
  <2>1. IsSeq(p) /\ Len(p) = k /\ \A j \in 1..k : p[j] = c[j]
    <3>1. IsSeq(c) /\ k \in 0..Len(c)
      BY <1>1
    <3> HIDE DEF k, n
    <3> QED
      BY <3>1, PrefixFacts
  <2> HIDE DEF p
  <2>2. \A j \in 1..Len(p) : p[j] = a[j]
    BY <1>1, <2>1
  <2>3. p = a
    BY <2>1, <2>2, SameSeq DEF Sized
  <2> QED
    BY <2>3 DEF p
<1>4. SubSeq(c, k + 1, Len(c)) = b
  <2> DEFINE p == SubSeq(c, k + 1, Len(c))
  <2>1. IsSeq(p) /\ Len(p) = Len(c) - k /\ \A j \in 1..(Len(c) - k) : p[j] = c[k + j]
    <3>1. IsSeq(c) /\ k \in 0..Len(c)
      BY <1>1
    <3> HIDE DEF k, n
    <3> QED
      BY <3>1, SuffixFacts
  <2> HIDE DEF p
  <2>2. Len(p) = Len(b) /\ \A j \in 1..Len(p) : p[j] = b[j]
    BY <1>1, <2>1
  <2>3. p = b
    BY <2>1, <2>2, SameSeq DEF Sized
  <2> QED
    BY <2>3 DEF p
<1>0. TotalSize(SubSeq(c, 1, k)) = n
  <2> HIDE DEF k
  <2> QED
    BY <1>3
<1>5. Fitting(c, n, k)
  <2>1. TotalSize(SubSeq(c, 1, k)) <= n
    <3> HIDE DEF n, k
    <3> QED
      BY <1>0, <1>2
  <2>2. ASSUME k # Len(c) PROVE TotalSize(SubSeq(c, 1, k + 1)) > n
    <3>1. PICK v : /\ \A i \in 1..Len(c) : v[i] = v[i - 1] + c[i].size
                   /\ \A i \in 0..Len(c) : v[i] \in Nat /\ TotalSize(SubSeq(c, 1, i)) = v[i]
      BY <1>1, Totals
    <3>2. k + 1 \in 1..Len(c) /\ (k + 1) - 1 = k /\ k \in 0..Len(c) /\ k + 1 \in 0..Len(c)
      BY <1>1, <2>2
    <3>3. v[k + 1] = v[k] + c[k + 1].size /\ v[k] = n /\ c[k + 1].size \in Nat \ {0}
      BY <1>1, <1>3, <3>1, <3>2 DEF Sized
    <3> HIDE DEF k, n
    <3>4. v[k + 1] > n
      BY <1>2, <3>3
    <3> QED
      BY <3>1, <3>2, <3>4
  <2> QED
    BY <2>1, <2>2 DEF Fitting
<1>6. PICK f \in 0..Len(c) : Fitting(c, n, f) /\ Cut(c, n) = CutAfter(c, n, f)
  BY <1>1, <1>2, CutFacts
<1>7. f = k
  BY <1>1, <1>2, <1>5, <1>6, FittingOnce
<1>8. CASE k = Len(c)
  <2>1. b = <<>>
    BY <1>1, <1>8, SeqFacts DEF Sized
  <2>2. c = a
    BY <1>3, <1>8, <1>1, SubSeqFull DEF IsSeq
  <2>3. CutAfter(c, n, k) = [head |-> c, tail |-> <<>>]
    BY <1>8 DEF CutAfter
  <2> QED
    BY <1>6, <1>7, <2>1, <2>2, <2>3 DEF c
<1>9. CASE k # Len(c)
  <2>1. n - TotalSize(SubSeq(c, 1, k)) = 0
    <3> HIDE DEF n, k
    <3> QED
      BY <1>0, <1>2
  <2>2. CutAfter(c, n, k) = [head |-> SubSeq(c, 1, k), tail |-> SubSeq(c, k + 1, Len(c))]
    <3> HIDE DEF n, k
    <3> QED
      BY <1>9, <2>1 DEF CutAfter
  <2> QED
    BY <1>3, <1>4, <1>6, <1>7, <2>2 DEF c
<1> QED
  BY <1>8, <1>9

\* A cut longer than the stream takes all of it.
LEMMA CutShort ==
  ASSUME NEW c, Sized(c), NEW n \in Nat, TotalSize(c) <= n
  PROVE  Cut(c, n) = [head |-> c, tail |-> <<>>]
<1>1. PICK f \in 0..Len(c) : Fitting(c, n, f) /\ Cut(c, n) = CutAfter(c, n, f)
  BY CutFacts
<1>2. Len(c) \in 0..Len(c)
  BY SeqFacts DEF Sized
<1>3. SubSeq(c, 1, Len(c)) = c
  BY SubSeqFull DEF Sized, IsSeq
<1>4. Fitting(c, n, Len(c))
  BY <1>3 DEF Fitting
<1>5. f = Len(c)
  BY <1>1, <1>2, <1>4, FittingOnce
<1> QED
  BY <1>1, <1>5 DEF CutAfter

-----------------------------------------------------------------------------
(* Reading pairs of cells *)

\* Parse, from a message that need not be Cleared.
ReadFrom(r, fields, cells) ==
  FoldOf("Parse", <<fields, cells>>, r, [i \in 1..(Len(cells) \div 2) |-> i])

\* Parsing is reading into a cleared message.
LEMMA ParseIsRead == \A fields, cells : Parse(fields, cells) = ReadFrom(Cleared(fields), fields, cells)
BY WireFolds DEF ReadFrom

\* A stream of n pairs of cells.
Pairs(c, n) == IsSeq(c) /\ n \in Nat /\ Len(c) = 2 * n

\* A message after each field that is read into it.
ReadsTo(v, r, fields, c, n) ==
  v[0] = r /\ \A i \in 1..n : v[i] = ReadField(fields, v[i - 1], c[2*i - 1].value, c[2*i].value)

\* A stream of pairs is read pair by pair.
LEMMA ReadSteps ==
  ASSUME NEW r, NEW fields, NEW c, NEW n, Pairs(c, n)
  PROVE  \E v : ReadsTo(v, r, fields, c, n) /\ ReadFrom(r, fields, c) = v[n]
<1> DEFINE s == [i \in 1..(Len(c) \div 2) |-> i]
           x == <<fields, c>>
<1>1. n \in Nat /\ Len(c) \div 2 = n
  BY DEF Pairs
<1>2. DOMAIN s = 1..n /\ \A i \in 1..n : s[i] = i
  BY <1>1
<1>3. ReadFrom(r, fields, c) = FoldOf("Parse", x, r, s)
  BY DEF ReadFrom
<1>4. \A u, e : FoldStep("Parse", x, u, e) = ReadField(fields, u, c[2*e - 1].value, c[2*e].value)
  BY FoldSteps
<1> HIDE DEF s, x
<1>5. PICK v : Steps(v, "Parse", x, r, s, n) /\ FoldOf("Parse", x, r, s) = v[n]
  BY <1>1, <1>2, FoldUnfold
<1>6. ReadsTo(v, r, fields, c, n)
  <2>1. ASSUME NEW i \in 1..n
        PROVE  v[i] = ReadField(fields, v[i - 1], c[2*i - 1].value, c[2*i].value)
    <3>1. v[i] = FoldStep("Parse", x, v[i - 1], s[i])
      BY <1>5 DEF Steps
    <3>2. s[i] = i
      BY <1>2
    <3> QED
      BY <1>4, <3>1, <3>2, Zenon
  <2> QED
    BY <1>5, <2>1 DEF ReadsTo, Steps
<1> QED
  BY <1>3, <1>5, <1>6

\* Reads of the same pairs give the same.
LEMMA ReadsOnce ==
  ASSUME NEW fields, NEW r, NEW c, NEW d, NEW n \in Nat, NEW v, NEW w,
         ReadsTo(v, r, fields, c, n), ReadsTo(w, r, fields, d, n),
         \A i \in 1..(2*n) : c[i] = d[i]
  PROVE  v[n] = w[n]
<1> DEFINE same == {k \in Nat : k <= n => v[k] = w[k]}
<1>1. 0 \in same
  BY DEF ReadsTo
<1>2. ASSUME NEW k \in Nat, k \in same PROVE k + 1 \in same
  <2>1. SUFFICES ASSUME k + 1 <= n PROVE v[k + 1] = w[k + 1]
    OBVIOUS
  <2> DEFINE i == k + 1
  <2>2. v[k] = w[k] /\ i \in 1..n /\ i - 1 = k
    BY <1>2, <2>1
  <2>3. 2*i - 1 \in 1..(2*n) /\ 2*i \in 1..(2*n)
    BY <2>1
  <2> HIDE DEF i
  <2>4. c[2*i - 1] = d[2*i - 1] /\ c[2*i] = d[2*i]
    BY <2>3
  <2>5. v[i] = w[i]
    BY <2>2, <2>4 DEF ReadsTo
  <2> QED
    BY <2>5 DEF i
<1> HIDE DEF same
<1>3. \A k \in Nat : k \in same
  BY <1>1, <1>2, NatSet
<1> QED
  BY <1>3 DEF same

\* Pairs written behind pairs are pairs.
LEMMA PairsConcat ==
  ASSUME NEW c, NEW d, NEW h, NEW k, Pairs(c, h), Pairs(d, k)
  PROVE  Pairs(c \o d, h + k)
<1>1. IsSeq(c \o d) /\ Len(c \o d) = Len(c) + Len(d)
  BY ConcatSeq DEF Pairs
<1> QED
  BY <1>1 DEF Pairs

\* What is read of two streams is read of the one and then of the other.
LEMMA ReadConcat ==
  ASSUME NEW r, NEW fields, NEW c, NEW d, NEW h, NEW k, Pairs(c, h), Pairs(d, k)
  PROVE  ReadFrom(r, fields, c \o d) = ReadFrom(ReadFrom(r, fields, c), fields, d)
<1> DEFINE e == c \o d
           q == ReadFrom(r, fields, c)
           n == h + k
<1>1. /\ h \in Nat /\ k \in Nat /\ Len(c) = 2 * h /\ Len(d) = 2 * k
      /\ \A i \in 1..(2*h) : e[i] = c[i]
      /\ \A i \in 1..(2*k) : e[2*h + i] = d[i]
  <2>1. h \in Nat /\ k \in Nat /\ Len(c) = 2 * h /\ Len(d) = 2 * k /\ IsSeq(c) /\ IsSeq(d)
    BY DEF Pairs
  <2>2. /\ \A i \in 1..Len(c) : e[i] = c[i]
        /\ \A i \in 1..Len(d) : e[Len(c) + i] = d[i]
    BY <2>1, ConcatSeq
  <2> HIDE DEF e
  <2> QED
    BY <2>1, <2>2
<1>2. Pairs(e, n)
  BY PairsConcat
<1> HIDE DEF e, q, n
<1>3. PICK u : ReadsTo(u, r, fields, e, n) /\ ReadFrom(r, fields, e) = u[n]
  BY <1>2, ReadSteps
<1>4. PICK v : ReadsTo(v, r, fields, c, h) /\ ReadFrom(r, fields, c) = v[h]
  BY ReadSteps
<1>5. PICK w : ReadsTo(w, q, fields, d, k) /\ ReadFrom(q, fields, d) = w[k]
  BY ReadSteps
<1>6. u[h] = q
  <2>1. ReadsTo(u, r, fields, e, h)
    BY <1>1, <1>3 DEF ReadsTo, n
  <2> QED
    BY <1>1, <1>4, <2>1, ReadsOnce DEF q
<1>7. u[n] = w[k]
  <2> DEFINE same == {i \in Nat : i <= k => u[h + i] = w[i]}
  <2>1. 0 \in same
    BY <1>1, <1>5, <1>6 DEF ReadsTo
  <2>2. ASSUME NEW i \in Nat, i \in same PROVE i + 1 \in same
    <3>1. SUFFICES ASSUME i + 1 <= k PROVE u[h + (i + 1)] = w[i + 1]
      OBVIOUS
    <3> DEFINE j == i + 1
               p == h + j
    <3>2. /\ j \in 1..k /\ j - 1 = i /\ p \in 1..n /\ p - 1 = h + i /\ u[h + i] = w[i]
          /\ 2*j - 1 \in 1..(2*k) /\ 2*j \in 1..(2*k)
          /\ 2*p - 1 = 2*h + (2*j - 1) /\ 2*p = 2*h + 2*j
      BY <1>1, <2>2, <3>1 DEF n
    <3> HIDE DEF j, p
    <3>3. e[2*p - 1] = d[2*j - 1] /\ e[2*p] = d[2*j]
      BY <1>1, <3>2
    <3>4. u[p] = ReadField(fields, u[p - 1], e[2*p - 1].value, e[2*p].value)
      BY <1>3, <3>2 DEF ReadsTo
    <3>5. w[j] = ReadField(fields, w[j - 1], d[2*j - 1].value, d[2*j].value)
      BY <1>5, <3>2 DEF ReadsTo
    <3>6. u[p] = w[j]
      BY <3>2, <3>3, <3>4, <3>5
    <3> QED
      BY <3>6 DEF j, p
  <2> HIDE DEF same
  <2>3. \A i \in Nat : i \in same
    BY <2>1, <2>2, NatSet
  <2> QED
    BY <1>1, <2>3 DEF same, n
<1> QED
  BY <1>3, <1>5, <1>7 DEF e, q

\* Nothing read changes nothing.
LEMMA ReadNone ==
  ASSUME NEW r, NEW fields
  PROVE  Pairs(<<>>, 0) /\ ReadFrom(r, fields, <<>>) = r
<1>1. Pairs(<<>>, 0)
  BY TupleIsSeq DEF Pairs
<1>2. PICK v : ReadsTo(v, r, fields, <<>>, 0) /\ ReadFrom(r, fields, <<>>) = v[0]
  BY <1>1, ReadSteps
<1> QED
  BY <1>1, <1>2 DEF ReadsTo

\* One pair is one field read.
LEMMA ReadPair ==
  ASSUME NEW r, NEW fields, NEW a, NEW b
  PROVE  Pairs(<<a, b>>, 1) /\ ReadFrom(r, fields, <<a, b>>) = ReadField(fields, r, a.value, b.value)
<1> DEFINE c == <<a, b>>
<1>1. IsSeq(c) /\ Len(c) = 2 * 1 /\ c[1] = a /\ c[2] = b
  BY TupleIsSeq
<1> HIDE DEF c
<1>2. Pairs(c, 1)
  BY <1>1 DEF Pairs
<1>3. PICK v : ReadsTo(v, r, fields, c, 1) /\ ReadFrom(r, fields, c) = v[1]
  BY <1>2, ReadSteps
<1>4. v[1] = ReadField(fields, v[1 - 1], c[2*1 - 1].value, c[2*1].value) /\ v[0] = r
  <2>1. 1 \in 1..1
    OBVIOUS
  <2> QED
    BY <1>3, <2>1 DEF ReadsTo
<1>5. 1 - 1 = 0 /\ 2*1 - 1 = 1 /\ 2*1 = 2
  OBVIOUS
<1>6. v[1] = ReadField(fields, r, a.value, b.value)
  BY <1>1, <1>4, <1>5
<1> QED
  BY <1>2, <1>3, <1>6 DEF c

\* What every pair keeps, the stream keeps.
LEMMA ReadKeeps ==
  ASSUME NEW fields, NEW c, NEW n, Pairs(c, n), NEW S, NEW r \in S,
         \A i \in 1..n : \A x \in S : ReadField(fields, x, c[2*i - 1].value, c[2*i].value) \in S
  PROVE  ReadFrom(r, fields, c) \in S
<1>1. PICK v : ReadsTo(v, r, fields, c, n) /\ ReadFrom(r, fields, c) = v[n]
  BY ReadSteps
<1> DEFINE kept == {k \in Nat : k <= n => v[k] \in S}
<1>2. 0 \in kept
  BY <1>1 DEF ReadsTo
<1>3. ASSUME NEW k \in Nat, k \in kept PROVE k + 1 \in kept
  <2>1. SUFFICES ASSUME k + 1 <= n PROVE v[k + 1] \in S
    OBVIOUS
  <2> DEFINE i == k + 1
  <2>2. v[k] \in S /\ i \in 1..n /\ i - 1 = k
    BY <1>3, <2>1 DEF Pairs
  <2> HIDE DEF i
  <2>3. v[i] \in S
    BY <1>1, <2>2 DEF ReadsTo
  <2> QED
    BY <2>3 DEF i
<1> HIDE DEF kept
<1>4. \A k \in Nat : k \in kept
  BY <1>2, <1>3, NatSet
<1> QED
  BY <1>1, <1>4 DEF kept, Pairs

-----------------------------------------------------------------------------
(* Classes *)

\* The kinds of fields,
Kinds == {"int32", "bool", "bytes", "entries"}

\* what a field of a kind holds,
TypeOf(kind) ==
  CASE kind = "int32" -> Int [] kind = "bool" -> BOOLEAN [] kind = "bytes" -> Seq(STRING)
    [] kind = "entries" -> Seq(LogEntry)

\* and what any field can hold.
AnyValue == UNION {TypeOf(kind) : kind \in Kinds}

\* The names of a class.
Names(fields) == {fields[i].name : i \in DOMAIN fields}

\* The messages of a class.
Messages(fields) ==
  {m \in [Names(fields) -> AnyValue] :
     \A i \in DOMAIN fields : m[fields[i].name] \in TypeOf(fields[i].kind)}

\* What makes a sequence of fields a class: no two have one name.
Class(fields) ==
  /\ IsSeq(fields)
  /\ \A i \in DOMAIN fields : fields[i].kind \in Kinds
  /\ \A i, j \in DOMAIN fields : fields[i].name = fields[j].name => i = j

\* One without a repeated field.
Scalars(fields) == \A i \in DOMAIN fields : fields[i].kind # "entries"

\* The type, the default and the wire type of each kind.
LEMMA KindTypes ==
  /\ TypeOf("int32") = Int /\ TypeOf("bool") = BOOLEAN
  /\ TypeOf("bytes") = Seq(STRING) /\ TypeOf("entries") = Seq(LogEntry)
  /\ Default("int32") = 0 /\ Default("bool") = FALSE
  /\ Default("bytes") = <<>> /\ Default("entries") = <<>>
  /\ WireType("int32") = "varint" /\ WireType("bool") = "varint"
  /\ WireType("bytes") = "len" /\ WireType("entries") = "len"
<1>1. TypeOf("int32") = Int /\ TypeOf("bool") = BOOLEAN
      /\ TypeOf("bytes") = Seq(STRING) /\ TypeOf("entries") = Seq(LogEntry)
  <2>1. /\ "int32" # "bool" /\ "int32" # "bytes" /\ "int32" # "entries" /\ "bool" # "bytes"
        /\ "bool" # "entries" /\ "bytes" # "entries"
    OBVIOUS
  <2> QED
    BY <2>1, Zenon DEF TypeOf
<1>2. Default("int32") = 0 /\ Default("bool") = FALSE
      /\ Default("bytes") = <<>> /\ Default("entries") = <<>>
  <2>1. "bool" # "int32" /\ "bytes" # "int32" /\ "entries" # "int32" /\ "bytes" # "bool" /\ "entries" # "bool"
    OBVIOUS
  <2> QED
    BY <2>1, Zenon DEF Default
<1>3. /\ WireType("int32") = "varint" /\ WireType("bool") = "varint"
      /\ WireType("bytes") = "len" /\ WireType("entries") = "len"
  BY DEF WireType
<1> QED
  BY <1>1, <1>2, <1>3, Zenon

\* A default is of its kind.
LEMMA DefaultTypes == \A kind \in Kinds : Default(kind) \in TypeOf(kind)
<1>1. 0 \in Int /\ FALSE \in BOOLEAN /\ <<>> \in Seq(STRING) /\ <<>> \in Seq(LogEntry)
  OBVIOUS
<1> QED
  BY <1>1, KindTypes, Zenon DEF Kinds

\* A field is found by its name.
LEMMA InMessage ==
  ASSUME NEW fields, Class(fields), NEW i \in DOMAIN fields
  PROVE  /\ fields[i].name \in Names(fields) /\ TypeOf(fields[i].kind) \subseteq AnyValue
         /\ (CHOOSE f \in ToSet(fields) : f.name = fields[i].name) = fields[i]
<1>1. fields[i].name \in Names(fields)
  BY DEF Names
<1>2. TypeOf(fields[i].kind) \subseteq AnyValue
  BY DEF Class, AnyValue
<1>3. fields[i] \in ToSet(fields)
  BY DEF ToSet
<1>4. \A f \in ToSet(fields) : f.name = fields[i].name => f = fields[i]
  BY DEF ToSet, Class
<1> QED
  BY <1>1, <1>2, <1>3, <1>4

\* A message has a value of its kind for every name,
LEMMA MessageFacts ==
  ASSUME NEW fields, Class(fields), NEW m \in Messages(fields)
  PROVE  /\ DOMAIN m = Names(fields) /\ m = [x \in Names(fields) |-> m[x]]
         /\ \A i \in DOMAIN fields : m[fields[i].name] \in TypeOf(fields[i].kind)
BY DEF Messages

\* A message that holds what another holds is the other.
LEMMA SameMessage ==
  ASSUME NEW fields, Class(fields), NEW m, NEW n,
         m = [x \in Names(fields) |-> m[x]], n = [x \in Names(fields) |-> n[x]],
         \A i \in DOMAIN fields : m[fields[i].name] = n[fields[i].name]
  PROVE  m = n
<1>1. \A x \in Names(fields) : m[x] = n[x]
  BY DEF Names
<1> QED
  BY <1>1

\* and what has these is a message.
LEMMA MessageOf ==
  ASSUME NEW fields, Class(fields), NEW m, m = [x \in Names(fields) |-> m[x]],
         \A i \in DOMAIN fields : m[fields[i].name] \in TypeOf(fields[i].kind)
  PROVE  m \in Messages(fields)
<1>1. \A x \in Names(fields) : m[x] \in AnyValue
  BY InMessage DEF Names
<1>2. m \in [Names(fields) -> AnyValue]
  BY <1>1
<1> QED
  BY <1>2 DEF Messages

\* A message stays one when a field is given a value of its type.
LEMMA FieldSet ==
  ASSUME NEW fields, Class(fields), NEW m \in Messages(fields), NEW i \in DOMAIN fields,
         NEW v, NEW r, r = [m EXCEPT ![fields[i].name] = v]
  PROVE  /\ DOMAIN r = Names(fields)
         /\ r[fields[i].name] = v
         /\ \A j \in DOMAIN fields \ {i} : r[fields[j].name] = m[fields[j].name]
         /\ v \in TypeOf(fields[i].kind) => r \in Messages(fields)
<1>1. m = [x \in Names(fields) |-> m[x]] /\ \A j \in DOMAIN fields : m[fields[j].name] \in TypeOf(fields[j].kind)
  BY MessageFacts
<1>2. \A j \in DOMAIN fields : fields[j].name \in Names(fields)
  BY InMessage
<1>3. \A j \in DOMAIN fields \ {i} : fields[j].name # fields[i].name
  BY DEF Class
<1>4. /\ DOMAIN r = Names(fields) /\ r = [x \in Names(fields) |-> r[x]]
      /\ r[fields[i].name] = v
      /\ \A j \in DOMAIN fields \ {i} : r[fields[j].name] = m[fields[j].name]
  BY <1>1, <1>2, <1>3
<1>5. ASSUME v \in TypeOf(fields[i].kind) PROVE r \in Messages(fields)
  <2>1. \A j \in DOMAIN fields : r[fields[j].name] \in TypeOf(fields[j].kind)
    BY <1>1, <1>4, <1>5
  <2> QED
    BY <1>4, <2>1, MessageOf
<1> QED
  BY <1>4, <1>5

\* A cleared message is a message of defaults.
LEMMA ClearedMessage ==
  ASSUME NEW fields, Class(fields)
  PROVE  /\ Cleared(fields) \in Messages(fields)
         /\ \A i \in DOMAIN fields : Cleared(fields)[fields[i].name] = Default(fields[i].kind)
<1>1. Cleared(fields) = [x \in Names(fields) |->
                           Default((CHOOSE f \in ToSet(fields) : f.name = x).kind)]
  BY DEF Cleared, Names
<1>2. \A i \in DOMAIN fields : Cleared(fields)[fields[i].name] = Default(fields[i].kind)
  BY <1>1, InMessage
<1>3. Cleared(fields) = [x \in Names(fields) |-> Cleared(fields)[x]]
  BY <1>1
<1>4. \A i \in DOMAIN fields : Default(fields[i].kind) \in TypeOf(fields[i].kind)
  BY DefaultTypes DEF Class
<1> HIDE DEF Cleared
<1> QED
  BY <1>2, <1>3, <1>4, MessageOf

\* What one field takes over of another message.
MergeValue(kind, a, b) ==
  IF kind = "entries" THEN a \o b ELSE IF b = Default(kind) THEN a ELSE b

\* A merge goes field by field.
LEMMA MergeFacts ==
  ASSUME NEW fields, Class(fields), NEW r \in Messages(fields), NEW m
  PROVE  /\ MergeFrom(fields, r, m) = [x \in Names(fields) |-> MergeFrom(fields, r, m)[x]]
         /\ \A i \in DOMAIN fields : MergeFrom(fields, r, m)[fields[i].name] =
              MergeValue(fields[i].kind, r[fields[i].name], m[fields[i].name])
<1> DEFINE Value(x) == LET kind == (CHOOSE f \in ToSet(fields) : f.name = x).kind
                       IN  IF kind = "entries" THEN r[x] \o m[x]
                           ELSE IF m[x] = Default(kind) THEN r[x] ELSE m[x]
<1>1. MergeFrom(fields, r, m) = [x \in Names(fields) |-> Value(x)]
  BY MessageFacts DEF MergeFrom
<1>2. \A i \in DOMAIN fields :
        Value(fields[i].name) = MergeValue(fields[i].kind, r[fields[i].name], m[fields[i].name])
  BY InMessage DEF MergeValue
<1> HIDE DEF Value
<1> QED
  BY <1>1, <1>2, InMessage

\* A merged value is of its kind, and a default changes nothing.
LEMMA MergeTypes ==
  ASSUME NEW kind \in Kinds, NEW a \in TypeOf(kind), NEW b \in TypeOf(kind)
  PROVE  /\ MergeValue(kind, a, b) \in TypeOf(kind)
         /\ MergeValue(kind, Default(kind), b) = b
         /\ MergeValue(kind, a, Default(kind)) = a
<1>1. CASE kind = "entries"
  <2>1. a \in Seq(LogEntry) /\ b \in Seq(LogEntry) /\ Default(kind) = <<>> /\ TypeOf(kind) = Seq(LogEntry)
    BY <1>1, KindTypes
  <2>2. a \o b \in Seq(LogEntry) /\ <<>> \o b = b /\ a \o <<>> = a
    BY <2>1, ConcatProperties, ConcatEmptySeq
  <2> QED
    BY <1>1, <2>1, <2>2 DEF MergeValue
<1>2. CASE kind # "entries"
  BY <1>2 DEF MergeValue
<1> QED
  BY <1>1, <1>2

\* A message that is merged into a cleared one.
LEMMA MergeCleared ==
  ASSUME NEW fields, Class(fields), NEW m \in Messages(fields)
  PROVE  MergeFrom(fields, Cleared(fields), m) = m
<1> DEFINE r == MergeFrom(fields, Cleared(fields), m)
<1>1. Cleared(fields) \in Messages(fields)
  BY ClearedMessage
<1>2. /\ r = [x \in Names(fields) |-> r[x]]
      /\ \A i \in DOMAIN fields : r[fields[i].name] =
              MergeValue(fields[i].kind, Cleared(fields)[fields[i].name], m[fields[i].name])
  BY <1>1, MergeFacts
<1> HIDE DEF r
<1>3. ASSUME NEW i \in DOMAIN fields PROVE r[fields[i].name] = m[fields[i].name]
  <2>1. m[fields[i].name] \in TypeOf(fields[i].kind) /\ fields[i].kind \in Kinds
    BY MessageFacts DEF Class
  <2>2. Cleared(fields)[fields[i].name] = Default(fields[i].kind)
    BY ClearedMessage
  <2> QED
    BY <1>2, <2>1, <2>2, MergeTypes, DefaultTypes
<1>4. m = [x \in Names(fields) |-> m[x]]
  BY MessageFacts
<1>5. r = m
  BY <1>2, <1>3, <1>4, SameMessage
<1> QED
  BY <1>5 DEF r

-----------------------------------------------------------------------------
(* Fields on a stream *)

\* A tag and a value that the class reads into a message.
GoodPair(fields, a, b) ==
  /\ a.part = "tag" /\ b.part \in {"varint", "len"} /\ a.value[1] \in Nat \ {0}
  /\ \A x \in Messages(fields) : ReadField(fields, x, a.value, b.value) \in Messages(fields)

\* n pairs of cells that a message of the class can be read from.
Goods(fields, c, n) ==
  Pairs(c, n) /\ Sized(c) /\ \A i \in 1..n : GoodPair(fields, c[2*i - 1], c[2*i])

\* Such a stream has no torn field,
LEMMA GoodsWhole ==
  ASSUME NEW fields, NEW c, NEW n, Goods(fields, c, n)
  PROVE  Whole(c)
<1>1. n \in Nat /\ Len(c) = 2*n /\ DOMAIN c = 1..(2*n)
  BY SeqFacts DEF Goods, Pairs
<1>2. Len(c) % 2 = 0
  BY <1>1
<1>3. ASSUME NEW i \in 1..(2*n)
      PROVE  IF i % 2 = 1 THEN c[i].part = "tag" ELSE c[i].part \in {"varint", "len"}
  <2>1. CASE i % 2 = 1
    <3>1. PICK j \in 1..n : i = 2*j - 1
      <4>1. (i + 1) \div 2 \in 1..n /\ i = 2*((i + 1) \div 2) - 1
        BY <1>1, <2>1
      <4> QED
        BY <4>1
    <3>2. c[2*j - 1].part = "tag"
      BY DEF Goods, GoodPair
    <3> QED
      BY <2>1, <3>1, <3>2
  <2>2. CASE i % 2 # 1
    <3>1. PICK j \in 1..n : i = 2*j
      <4>1. i \div 2 \in 1..n /\ i = 2*(i \div 2)
        BY <1>1, <2>2
      <4> QED
        BY <4>1
    <3>2. c[2*j].part \in {"varint", "len"}
      BY DEF Goods, GoodPair
    <3> QED
      BY <2>2, <3>1, <3>2
  <2> QED
    BY <2>1, <2>2
<1> QED
  BY <1>1, <1>2, <1>3 DEF Whole

\* stays such when another is written behind it,
LEMMA GoodsConcat ==
  ASSUME NEW fields, NEW c, NEW d, NEW h, NEW k, Goods(fields, c, h), Goods(fields, d, k)
  PROVE  Goods(fields, c \o d, h + k)
<1> DEFINE e == c \o d
<1>1. Pairs(e, h + k) /\ Sized(e)
  BY PairsConcat, SizedConcat DEF Goods
<1>2. h \in Nat /\ k \in Nat /\ Len(c) = 2 * h /\ Len(d) = 2 * k /\ IsSeq(c) /\ IsSeq(d)
  BY DEF Goods, Pairs
<1>3. /\ \A i \in 1..Len(c) : e[i] = c[i]
      /\ \A i \in 1..Len(d) : e[Len(c) + i] = d[i]
  BY <1>2, ConcatSeq
<1> HIDE DEF e
<1>4. ASSUME NEW i \in 1..(h + k) PROVE GoodPair(fields, e[2*i - 1], e[2*i])
  <2>1. CASE i <= h
    <3>1. i \in 1..h /\ 2*i - 1 \in 1..Len(c) /\ 2*i \in 1..Len(c)
      BY <1>2, <2>1
    <3>2. e[2*i - 1] = c[2*i - 1] /\ e[2*i] = c[2*i]
      BY <1>3, <3>1
    <3> QED
      BY <3>1, <3>2 DEF Goods
  <2>2. CASE i > h
    <3> DEFINE j == i - h
    <3>1. /\ j \in 1..k /\ 2*j - 1 \in 1..Len(d) /\ 2*j \in 1..Len(d)
          /\ Len(c) + (2*j - 1) = 2*i - 1 /\ Len(c) + 2*j = 2*i
      BY <1>2, <2>2
    <3> HIDE DEF j
    <3>2. e[2*i - 1] = d[2*j - 1] /\ e[2*i] = d[2*j]
      BY <1>3, <3>1
    <3> QED
      BY <3>1, <3>2 DEF Goods
  <2> QED
    BY <1>2, <2>1, <2>2
<1> QED
  BY <1>1, <1>4 DEF Goods, e

\* and may be empty
LEMMA GoodsNone == ASSUME NEW fields PROVE Goods(fields, <<>>, 0)
<1>1. Sized(<<>>)
  BY TupleIsSeq DEF Sized
<1> QED
  BY <1>1, ReadNone DEF Goods

\* or one pair.
LEMMA GoodsPair ==
  ASSUME NEW fields, NEW a, NEW b, GoodPair(fields, a, b), a.size \in Nat \ {0}, b.size \in Nat \ {0}
  PROVE  Goods(fields, <<a, b>>, 1) /\ TotalSize(<<a, b>>) = a.size + b.size
<1> DEFINE c == <<a, b>>
<1>1. IsSeq(c) /\ Len(c) = 2 /\ c[1] = a /\ c[2] = b /\ Pairs(c, 1)
  BY TupleIsSeq, ReadPair
<1> HIDE DEF c
<1>2. Sized(c)
  <2>1. \A i \in 1..2 : i = 1 \/ i = 2
    OBVIOUS
  <2> QED
    BY <1>1, <2>1 DEF Sized
<1>3. \A i \in 1..1 : 2*i - 1 = 1 /\ 2*i = 2
  OBVIOUS
<1>4. Goods(fields, c, 1)
  BY <1>1, <1>2, <1>3 DEF Goods
<1>5. PICK v : /\ v[0] = 0 /\ \A i \in 1..Len(c) : v[i] = v[i - 1] + c[i].size
               /\ TotalSize(c) = v[Len(c)]
  BY <1>2, Totals
<1>6. v[1] = v[0] + a.size /\ v[2] = v[1] + b.size
  <2>1. 1 \in 1..2 /\ 2 \in 1..2 /\ 1 - 1 = 0 /\ 2 - 1 = 1
    OBVIOUS
  <2> QED
    BY <1>1, <1>5, <2>1
<1>7. TotalSize(c) = a.size + b.size
  BY <1>1, <1>5, <1>6
<1> QED
  BY <1>4, <1>7 DEF c

\* Reading good pairs keeps a message one.
LEMMA GoodsRead ==
  ASSUME NEW fields, NEW c, NEW n, Goods(fields, c, n), NEW r \in Messages(fields)
  PROVE  ReadFrom(r, fields, c) \in Messages(fields)
<1>1. \A i \in 1..n : \A x \in Messages(fields) :
        ReadField(fields, x, c[2*i - 1].value, c[2*i].value) \in Messages(fields)
  BY DEF Goods, GoodPair
<1> QED
  BY <1>1, ReadKeeps DEF Goods

\* What a class writes of its fields, and how much of it.
FieldCells(fields, m, i) ==
  IF fields[i].kind = "entries" THEN EntriesCells(i, m[fields[i].name])
  ELSE ScalarCells(i, fields[i].kind, m[fields[i].name])

\* The bytes announced for a field.
FieldSize(fields, m, i) ==
  IF fields[i].kind = "entries" THEN EntriesSize(m[fields[i].name])
  ELSE ScalarSize(fields[i].kind, m[fields[i].name])

\* A field is written as its size says, and read into any message as what that
\* message takes over.
FieldWritten(fields, m, i) ==
  /\ \E n : Goods(fields, FieldCells(fields, m, i), n)
  /\ TotalSize(FieldCells(fields, m, i)) = FieldSize(fields, m, i)
  /\ \A r \in Messages(fields) : ReadFrom(r, fields, FieldCells(fields, m, i)) =
       [r EXCEPT ![fields[i].name] = MergeValue(fields[i].kind, @, m[fields[i].name])]

\* A scalar that is written is read back,
LEMMA ScalarRead ==
  ASSUME NEW fields, Class(fields), NEW i \in DOMAIN fields, fields[i].kind # "entries",
         NEW v \in TypeOf(fields[i].kind), v # Default(fields[i].kind), NEW r
  PROVE  ReadField(fields, r, TagCell(i, fields[i].kind).value, ValueCell(fields[i].kind, v).value)
           = [r EXCEPT ![fields[i].name] = v]
<1> DEFINE kind == fields[i].kind
           tag  == TagCell(i, kind).value
           value == ValueCell(kind, v).value
           read == IF kind = "bool" THEN value # 0 ELSE value
<1>1. tag[1] = i /\ tag[2] = WireType(kind)
  BY DEF TagCell, Cell
<1>2. i \in 1..Len(fields) /\ Len(fields) \in Nat
  BY SeqFacts DEF Class
<1>3. kind \in {"int32", "bool", "bytes"}
  BY DEF Class, Kinds
<1>4. read = v
  <2>1. CASE kind = "bool"
    <3>1. v = TRUE
      BY <2>1, KindTypes
    <3>2. value = 1
      BY <2>1, <3>1 DEF ValueCell, WireType, Varint, Cell
    <3>3. (1 # 0) = TRUE
      OBVIOUS
    <3> HIDE DEF kind, value
    <3> QED
      BY <2>1, <3>1, <3>2, <3>3, Zenon
  <2>2. CASE kind = "int32"
    BY <2>2 DEF ValueCell, WireType, Varint, Cell
  <2>3. CASE kind = "bytes"
    BY <2>3 DEF ValueCell, WireType, Cell
  <2> QED
    BY <1>3, <2>1, <2>2, <2>3
<1>5. ReadField(fields, r, tag, value) = ReadScalar(fields, r, tag, value)
  <2> HIDE DEF value, tag
  <2> QED
    BY <1>1, <1>3 DEF ReadField
<1>6. ReadScalar(fields, r, tag, value) = [r EXCEPT ![fields[i].name] = read]
  <2>1. ~ (tag[1] > Len(fields) \/ tag[2] # WireType(fields[tag[1]].kind)) /\ fields[tag[1]] = fields[i]
    BY <1>1, <1>2
  <2> HIDE DEF tag, value
  <2> QED
    BY <2>1 DEF ReadScalar
<1> HIDE DEF read
<1> QED
  BY <1>4, <1>5, <1>6

\* has the bytes announced,
LEMMA ScalarSized ==
  ASSUME NEW kind \in Kinds \ {"entries"}, NEW v \in TypeOf(kind), v # Default(kind), NEW number
  PROVE  /\ TagCell(number, kind).size = 1 /\ ValueCell(kind, v).size \in Nat \ {0}
         /\ ScalarSize(kind, v) = 1 + ValueCell(kind, v).size
<1>1. TagCell(number, kind).size = 1
  BY DEF TagCell, Cell
<1>2. CASE kind = "bool"
  <2>1. v = TRUE
    BY <1>2, KindTypes
  <2>2. ValueCell(kind, v).size = VarintSize(1)
    BY <1>2, <2>1 DEF ValueCell, WireType, Varint, Cell
  <2>3. ScalarSize(kind, v) = 1 + 1
    BY <1>2 DEF ScalarSize
  <2> QED
    BY <1>1, <2>2, <2>3, VarintSizes
<1>3. CASE kind = "int32"
  <2>1. ValueCell(kind, v).size = VarintSize(v)
    BY <1>3 DEF ValueCell, WireType, Varint, Cell
  <2>2. ScalarSize(kind, v) = 1 + VarintSize(v)
    BY <1>3 DEF ScalarSize
  <2> QED
    BY <1>1, <2>1, <2>2, VarintSizes
<1>4. CASE kind = "bytes"
  <2>1. ValueCell(kind, v).size = LenSize(Len(v))
    BY <1>4 DEF ValueCell, WireType, Cell
  <2>2. ScalarSize(kind, v) = 1 + LenSize(Len(v))
    BY <1>4 DEF ScalarSize
  <2>3. LenSize(Len(v)) \in Nat \ {0}
    <3>1. v \in Seq(STRING)
      BY <1>4, KindTypes
    <3>2. Len(v) \in Nat
      BY <3>1, LenProperties
    <3> QED
      BY <3>2, LenSizes
  <2> QED
    BY <1>1, <2>1, <2>2, <2>3
<1> QED
  BY <1>2, <1>3, <1>4 DEF Kinds

\* and so the field is written faithfully, its default too, which is not.
LEMMA ScalarWritten ==
  ASSUME NEW fields, Class(fields), NEW m \in Messages(fields), NEW i \in DOMAIN fields,
         fields[i].kind # "entries"
  PROVE  FieldWritten(fields, m, i)
<1> DEFINE kind == fields[i].kind
           x == fields[i].name
           v == m[x]
           cells == FieldCells(fields, m, i)
           a == TagCell(i, kind)
           b == ValueCell(kind, v)
<1>1. v \in TypeOf(kind) /\ kind \in Kinds \ {"entries"}
  BY MessageFacts DEF Class
<1>2. FieldSize(fields, m, i) = ScalarSize(kind, v)
  BY DEF FieldSize
<1>3. CASE v = Default(kind)
  <2>1. cells = <<>>
    BY <1>3 DEF FieldCells, ScalarCells
  <2>2. ScalarSize(kind, v) = 0
    BY <1>3 DEF ScalarSize
  <2>3. ASSUME NEW r \in Messages(fields)
        PROVE  ReadFrom(r, fields, <<>>) = [r EXCEPT ![x] = MergeValue(kind, @, v)]
    <3>1. MergeValue(kind, r[x], v) = r[x]
      BY <1>1, <1>3 DEF MergeValue
    <3>2. r = [y \in Names(fields) |-> r[y]]
      BY MessageFacts
    <3>3. [r EXCEPT ![x] = r[x]] = r
      BY <3>2
    <3> HIDE DEF kind, x, v
    <3> QED
      BY <3>1, <3>3, ReadNone
  <2>4. (\E n : Goods(fields, cells, n)) /\ TotalSize(cells) = FieldSize(fields, m, i)
    BY <1>2, <2>1, <2>2, GoodsNone, TotalNone
  <2>5. \A r \in Messages(fields) : ReadFrom(r, fields, cells) = [r EXCEPT ![x] = MergeValue(kind, @, v)]
    BY <2>1, <2>3
  <2> HIDE DEF cells, kind, v
  <2> QED
    BY <2>4, <2>5 DEF FieldWritten, cells, kind, v
<1>4. CASE v # Default(kind)
  <2>1. cells = <<a, b>>
    BY <1>4 DEF FieldCells, ScalarCells
  <2>2. \A r : ReadField(fields, r, a.value, b.value) = [r EXCEPT ![x] = v]
    BY <1>1, <1>4, ScalarRead
  <2>3. a.part = "tag" /\ b.part \in {"varint", "len"} /\ a.value[1] \in Nat \ {0}
    <3>1. i \in Nat \ {0}
      BY SeqFacts DEF Class
    <3> QED
      BY <3>1 DEF TagCell, ValueCell, Cell
  <2>4. a.size = 1 /\ b.size \in Nat \ {0} /\ ScalarSize(kind, v) = 1 + b.size
    <3> HIDE DEF kind, x, v
    <3>1. /\ TagCell(i, kind).size = 1 /\ ValueCell(kind, v).size \in Nat \ {0}
          /\ ScalarSize(kind, v) = 1 + ValueCell(kind, v).size
      BY <1>1, <1>4, ScalarSized
    <3> QED
      BY <3>1
  <2>5. \A r \in Messages(fields) : [r EXCEPT ![x] = v] \in Messages(fields)
    BY <1>1, FieldSet
  <2>6. ASSUME NEW r \in Messages(fields)
        PROVE  [r EXCEPT ![x] = v] = [r EXCEPT ![x] = MergeValue(kind, @, v)]
    <3>1. MergeValue(kind, r[x], v) = v
      BY <1>1, <1>4 DEF MergeValue
    <3> HIDE DEF kind, x, v
    <3> QED
      BY <3>1
  <2> HIDE DEF a, b, x, v, kind
  <2>7. GoodPair(fields, a, b)
    BY <2>2, <2>3, <2>5 DEF GoodPair
  <2>8. Goods(fields, <<a, b>>, 1) /\ TotalSize(<<a, b>>) = 1 + b.size
    BY <2>4, <2>7, GoodsPair
  <2>9. ASSUME NEW r \in Messages(fields)
        PROVE  ReadFrom(r, fields, <<a, b>>) = [r EXCEPT ![x] = MergeValue(kind, @, v)]
    <3>1. ReadFrom(r, fields, <<a, b>>) = ReadField(fields, r, a.value, b.value)
      BY ReadPair
    <3>2. ReadField(fields, r, a.value, b.value) = [r EXCEPT ![x] = v]
      BY <2>2
    <3> QED
      BY <2>6, <3>1, <3>2
  <2> QED
    BY <1>2, <2>1, <2>4, <2>8, <2>9 DEF FieldWritten, kind, x, v
<1> QED
  BY <1>3, <1>4

-----------------------------------------------------------------------------
(* Messages on a stream *)

\* A message is written field by field, each as its size says, and read into any
\* message of its class as what that message takes over.
Faithful(fields, m) ==
  /\ \E n : Goods(fields, Serialize(fields, m), n)
  /\ TotalSize(Serialize(fields, m)) = ByteSizeLong(fields, m)
  /\ \A r \in Messages(fields) :
       ReadFrom(r, fields, Serialize(fields, m)) = MergeFrom(fields, r, m)

\* A message whose fields are written faithfully is.
LEMMA FieldsWritten ==
  ASSUME NEW fields, Class(fields), NEW m \in Messages(fields),
         \A i \in DOMAIN fields : FieldWritten(fields, m, i)
  PROVE  Faithful(fields, m)
<1> DEFINE N == Len(fields)
           s == [i \in 1..N |-> FieldCells(fields, m, i)]
<1>1. N \in Nat /\ DOMAIN fields = 1..N
  BY SeqFacts DEF Class
<1>2. Serialize(fields, m) = FlattenSeq(s)
  BY <1>1 DEF Serialize, FieldCells
<1>3. IsSeq(s) /\ Len(s) = N /\ DOMAIN s = 1..N /\ \A i \in 1..N : s[i] = FieldCells(fields, m, i)
  BY <1>1, SeqOfFunction
<1> HIDE DEF s
<1>4. ASSUME NEW i \in DOMAIN s PROVE IsSeq(s[i])
  <2>1. FieldWritten(fields, m, i) /\ s[i] = FieldCells(fields, m, i)
    BY <1>1, <1>3
  <2>2. \E n : Goods(fields, s[i], n)
    BY <2>1 DEF FieldWritten
  <2> QED
    BY <2>2 DEF Goods, Pairs
<1>5. PICK f : /\ f[0] = <<>> /\ FlattenSeq(s) = f[N]
               /\ \A i \in 1..N : f[i] = f[i - 1] \o s[i]
  <2>1. \E f : /\ f[0] = <<>> /\ FlattenSeq(s) = f[Len(s)]
               /\ \A i \in 0..Len(s) : IsSeq(f[i])
               /\ \A i \in 1..Len(s) : f[i] = f[i - 1] \o s[i]
    BY <1>3, <1>4, FlattenSteps
  <2> HIDE DEF N
  <2> QED
    BY <1>3, <2>1
<1>6. PICK v : Steps(v, "ByteSizeLong", m, 0, fields, N) /\ FoldOf("ByteSizeLong", m, 0, fields) = v[N]
  BY <1>1, FoldUnfold
<1>7. v[0] = 0 /\ \A i \in 1..N : v[i] = v[i - 1] + FieldSize(fields, m, i)
  BY <1>6, FoldSteps DEF Steps, FieldSize
<1>8. ByteSizeLong(fields, m) = v[N]
  BY <1>6, WireFolds
<1> HIDE DEF N
\* What r has taken over of the first k fields.
<1> DEFINE Partly(q, r, k) ==
             \A j \in 1..N : q[fields[j].name] =
               IF j <= k THEN MergeValue(fields[j].kind, r[fields[j].name], m[fields[j].name])
               ELSE r[fields[j].name]
           Done(k) == /\ \E n : Goods(fields, f[k], n)
                      /\ TotalSize(f[k]) = v[k]
                      /\ \A r \in Messages(fields) : Partly(ReadFrom(r, fields, f[k]), r, k)
           done == {k \in Nat : k <= N => Done(k)}
<1>9. 0 \in done
  <2>1. ASSUME NEW r PROVE Partly(ReadFrom(r, fields, f[0]), r, 0)
    <3>1. ReadFrom(r, fields, f[0]) = r
      BY <1>5, ReadNone
    <3>2. \A j \in 1..N : ~ (j <= 0)
      OBVIOUS
    <3> QED
      BY <3>1, <3>2
  <2>2. Goods(fields, f[0], 0) /\ TotalSize(f[0]) = v[0]
    BY <1>5, <1>7, GoodsNone, TotalNone
  <2> QED
    BY <2>1, <2>2
<1>10. ASSUME NEW k \in Nat, k \in done PROVE k + 1 \in done
  <2>1. SUFFICES ASSUME k + 1 <= N PROVE Done(k + 1)
    OBVIOUS
  <2> DEFINE i == k + 1
             c == f[k]
             d == s[i]
             x == fields[i].name
  <2>2. i \in 1..N /\ i - 1 = k /\ i \in DOMAIN fields /\ k <= N
    BY <1>1, <2>1
  <2>3. Done(k)
    BY <1>10, <2>2
  <2>4. FieldWritten(fields, m, i)
    BY <2>2
  <2>5. d = FieldCells(fields, m, i) /\ f[i] = c \o d /\ v[i] = v[k] + FieldSize(fields, m, i)
    BY <1>3, <1>5, <1>7, <2>2
  <2>6. PICK h : Goods(fields, c, h)
    BY <2>3
  <2>7. PICK l : Goods(fields, d, l)
    BY <2>4, <2>5 DEF FieldWritten
  <2>8. TotalSize(c) = v[k] /\ TotalSize(d) = FieldSize(fields, m, i)
    BY <2>3, <2>4, <2>5 DEF FieldWritten
  <2>9. \A r \in Messages(fields) : Partly(ReadFrom(r, fields, c), r, k)
    BY <2>3
  <2>10. \A r \in Messages(fields) : ReadFrom(r, fields, d) =
           [r EXCEPT ![x] = MergeValue(fields[i].kind, r[x], m[x])]
    BY <2>4, <2>5 DEF FieldWritten
  <2> HIDE DEF i, c, d, Done
  <2>11. Goods(fields, f[i], h + l)
    BY <2>5, <2>6, <2>7, GoodsConcat
  <2>12. TotalSize(f[i]) = v[i]
    <3>1. TotalSize(c \o d) = TotalSize(c) + TotalSize(d)
      BY <2>6, <2>7, TotalConcat DEF Goods
    <3> QED
      BY <2>5, <2>8, <3>1
  <2>13. ASSUME NEW r \in Messages(fields) PROVE Partly(ReadFrom(r, fields, f[i]), r, i)
    <3> DEFINE q == ReadFrom(r, fields, c)
               p == ReadFrom(q, fields, d)
    <3>1. ReadFrom(r, fields, f[i]) = p
      BY <2>5, <2>6, <2>7, ReadConcat DEF Goods
    <3>2. q \in Messages(fields)
      BY <2>6, GoodsRead
    <3>3. Partly(q, r, k)
      BY <2>9
    <3>4. p = [q EXCEPT ![x] = MergeValue(fields[i].kind, q[x], m[x])]
      BY <2>10, <3>2
    <3> HIDE DEF q, p
    <3>5. /\ p[x] = MergeValue(fields[i].kind, q[x], m[x])
          /\ \A j \in DOMAIN fields \ {i} : p[fields[j].name] = q[fields[j].name]
      <4> DEFINE u == MergeValue(fields[i].kind, q[x], m[x])
      <4>1. p = [q EXCEPT ![fields[i].name] = u]
        BY <3>4
      <4> HIDE DEF u, x
      <4>2. /\ p[fields[i].name] = u
            /\ \A j \in DOMAIN fields \ {i} : p[fields[j].name] = q[fields[j].name]
        <5>1. q = [y \in Names(fields) |-> q[y]] /\ fields[i].name \in Names(fields)
          BY <2>2, <3>2, MessageFacts, InMessage
        <5>2. \A j \in DOMAIN fields \ {i} :
                fields[j].name # fields[i].name /\ fields[j].name \in Names(fields)
          BY <2>2, InMessage DEF Class
        <5> QED
          BY <4>1, <5>1, <5>2
      <4> QED
        BY <4>2 DEF u, x
    <3>6. q[x] = r[x]
      BY <2>2, <3>3 DEF i
    <3>7. ASSUME NEW j \in 1..N
          PROVE  p[fields[j].name] =
               IF j <= i THEN MergeValue(fields[j].kind, r[fields[j].name], m[fields[j].name])
               ELSE r[fields[j].name]
      <4>1. CASE j = i
        BY <2>2, <3>5, <3>6, <4>1
      <4>2. CASE j # i
        <5>1. p[fields[j].name] = q[fields[j].name]
          BY <1>1, <3>5, <4>2 DEF N
        <5>2. j <= i <=> j <= k
          BY <4>2 DEF i
        <5> QED
          BY <3>3, <5>1, <5>2
      <4> QED
        BY <4>1, <4>2
    <3> QED
      BY <3>1, <3>7
  <2> QED
    BY <2>11, <2>12, <2>13 DEF Done, i
<1> HIDE DEF done
<1>11. \A k \in Nat : k \in done
  BY <1>9, <1>10, NatSet
<1>12. Done(N)
  BY <1>1, <1>11 DEF done, N
<1>13. ASSUME NEW r \in Messages(fields)
       PROVE  ReadFrom(r, fields, f[N]) = MergeFrom(fields, r, m)
  <2> DEFINE q == ReadFrom(r, fields, f[N])
             p == MergeFrom(fields, r, m)
  <2>1. q \in Messages(fields)
    BY <1>12, GoodsRead
  <2>2. Partly(q, r, N)
    BY <1>12
  <2>3. /\ p = [x \in Names(fields) |-> p[x]]
        /\ \A j \in DOMAIN fields : p[fields[j].name] =
             MergeValue(fields[j].kind, r[fields[j].name], m[fields[j].name])
    BY MergeFacts
  <2>4. q = [x \in Names(fields) |-> q[x]]
    BY <2>1, MessageFacts
  <2> HIDE DEF q, p
  <2>5. ASSUME NEW j \in DOMAIN fields PROVE q[fields[j].name] = p[fields[j].name]
    <3>1. j \in 1..N /\ j <= N
      BY <1>1 DEF N
    <3> QED
      BY <2>2, <2>3, <3>1
  <2>6. q = p
    BY <2>3, <2>4, <2>5, SameMessage
  <2> QED
    BY <2>6 DEF q, p
<1> QED
  BY <1>2, <1>5, <1>8, <1>12, <1>13 DEF Faithful

\* A class without repeated fields.
LEMMA ScalarsWritten ==
  ASSUME NEW fields, Class(fields), Scalars(fields), NEW m \in Messages(fields)
  PROVE  Faithful(fields, m)
BY ScalarWritten, FieldsWritten DEF Scalars

\* What is written is read back as it was.
LEMMA ReadsBack ==
  ASSUME NEW fields, Class(fields), NEW m \in Messages(fields), Faithful(fields, m)
  PROVE  Whole(Serialize(fields, m)) /\ Parse(fields, Serialize(fields, m)) = m
<1>1. Whole(Serialize(fields, m))
  BY GoodsWhole DEF Faithful
<1>2. ReadFrom(Cleared(fields), fields, Serialize(fields, m)) = MergeFrom(fields, Cleared(fields), m)
  BY ClearedMessage DEF Faithful
<1> QED
  BY <1>1, <1>2, ParseIsRead, MergeCleared

\* Two messages read as one are the second merged into the first.
LEMMA ReadsMerged ==
  ASSUME NEW fields, Class(fields), NEW m \in Messages(fields), NEW n \in Messages(fields),
         Faithful(fields, m), Faithful(fields, n)
  PROVE  Parse(fields, Serialize(fields, m) \o Serialize(fields, n)) = MergeFrom(fields, m, n)
<1> DEFINE c == Serialize(fields, m)
           d == Serialize(fields, n)
           r == Cleared(fields)
<1>1. ReadFrom(r, fields, c) = m
  BY ReadsBack, ParseIsRead
<1>2. ReadFrom(m, fields, d) = MergeFrom(fields, m, n)
  BY DEF Faithful
<1>3. PICK h, k : Goods(fields, c, h) /\ Goods(fields, d, k)
  BY DEF Faithful
<1>4. Parse(fields, c \o d) = ReadFrom(r, fields, c \o d)
  BY ParseIsRead
<1> HIDE DEF c, d, r
<1>5. ReadFrom(r, fields, c \o d) = ReadFrom(ReadFrom(r, fields, c), fields, d)
  BY <1>3, ReadConcat DEF Goods
<1> QED
  BY <1>1, <1>2, <1>4, <1>5 DEF c, d, r

-----------------------------------------------------------------------------
(* The classes *)

\* LogEntry is a class, and its messages are the records of its type.
LEMMA LogEntryClass ==
  Class(LogEntryFields) /\ Scalars(LogEntryFields) /\ \A m : m \in LogEntry <=> m \in Messages(LogEntryFields)
<1> DEFINE F == LogEntryFields
<1>1. IsSeq(F)
  BY TupleIsSeq, Zenon DEF LogEntryFields
<1>2. /\ DOMAIN F = 1..3
      /\ F[1].name = "Command" /\ F[1].kind = "bytes"
      /\ F[2].name = "LogTerm" /\ F[2].kind = "int32"
      /\ F[3].name = "LogIndex" /\ F[3].kind = "int32"
  BY DEF LogEntryFields, Bytes, Int32
<1>3. \A i \in 1..3 : i = 1 \/ i = 2 \/ i = 3
  OBVIOUS
<1> HIDE DEF F
<1>4. Class(F) /\ Scalars(F)
  BY <1>1, <1>2, <1>3 DEF Class, Kinds, Scalars
<1>5. Names(F) = {"Command", "LogTerm", "LogIndex"}
  BY <1>2, <1>3 DEF Names
<1>6. ASSUME NEW m \in LogEntry PROVE m \in Messages(F)
  <2>1. m = [x \in {"Command", "LogTerm", "LogIndex"} |-> m[x]]
    BY DEF LogEntry
  <2>2. /\ m["Command"] \in Seq(STRING)
        /\ m["LogTerm"] \in Int
        /\ m["LogIndex"] \in Int
    BY DEF LogEntry
  <2>3. \A i \in DOMAIN F : m[F[i].name] \in TypeOf(F[i].kind)
    BY <1>2, <1>3, <2>2, KindTypes
  <2> QED
    BY <1>4, <1>5, <2>1, <2>3, MessageOf
<1>7. ASSUME NEW m \in Messages(F) PROVE m \in LogEntry
  <2>1. m = [x \in {"Command", "LogTerm", "LogIndex"} |-> m[x]]
    BY <1>4, <1>5, MessageFacts
  <2>2. \A i \in DOMAIN F : m[F[i].name] \in TypeOf(F[i].kind)
    BY <1>4, MessageFacts
  <2>3. /\ m["Command"] \in Seq(STRING)
        /\ m["LogTerm"] \in Int
        /\ m["LogIndex"] \in Int
    <3>1. /\ m["Command"] \in TypeOf("bytes")
          /\ m["LogTerm"] \in TypeOf("int32")
          /\ m["LogIndex"] \in TypeOf("int32")
      BY <1>2, <2>2
    <3> QED
      BY <3>1, KindTypes
  <2> QED
    BY <2>1, <2>3 DEF LogEntry
<1> QED
  BY <1>4, <1>6, <1>7 DEF F

\* AppendEntriesArgs is a class, and its messages are the records of its type.
LEMMA AppendEntriesArgsClass ==
  Class(AppendEntriesArgsFields) /\ \A m : m \in AppendEntriesArgs <=> m \in Messages(AppendEntriesArgsFields)
<1> DEFINE F == AppendEntriesArgsFields
<1>1. IsSeq(F)
  BY TupleIsSeq, Zenon DEF AppendEntriesArgsFields
<1>2. /\ DOMAIN F = 1..6
      /\ F[1].name = "Term" /\ F[1].kind = "int32"
      /\ F[2].name = "LeaderId" /\ F[2].kind = "int32"
      /\ F[3].name = "PrevLogIndex" /\ F[3].kind = "int32"
      /\ F[4].name = "PrevLogTerm" /\ F[4].kind = "int32"
      /\ F[5].name = "Entries" /\ F[5].kind = "entries"
      /\ F[6].name = "LeaderCommit" /\ F[6].kind = "int32"
  BY DEF AppendEntriesArgsFields, Entries, Int32
<1>3. \A i \in 1..6 : i = 1 \/ i = 2 \/ i = 3 \/ i = 4 \/ i = 5 \/ i = 6
  OBVIOUS
<1> HIDE DEF F
<1>4. Class(F)
  BY <1>1, <1>2, <1>3 DEF Class, Kinds
<1>5. Names(F) = {"Term", "LeaderId", "PrevLogIndex", "PrevLogTerm", "Entries", "LeaderCommit"}
  BY <1>2, <1>3 DEF Names
<1>6. ASSUME NEW m \in AppendEntriesArgs PROVE m \in Messages(F)
  <2>1. m = [x \in {"Term", "LeaderId", "PrevLogIndex", "PrevLogTerm", "Entries", "LeaderCommit"} |-> m[x]]
    BY DEF AppendEntriesArgs
  <2>2. /\ m["Term"] \in Int
        /\ m["LeaderId"] \in Int
        /\ m["PrevLogIndex"] \in Int
        /\ m["PrevLogTerm"] \in Int
        /\ m["Entries"] \in Seq(LogEntry)
        /\ m["LeaderCommit"] \in Int
    BY DEF AppendEntriesArgs
  <2>3. \A i \in DOMAIN F : m[F[i].name] \in TypeOf(F[i].kind)
    BY <1>2, <1>3, <2>2, KindTypes
  <2> QED
    BY <1>4, <1>5, <2>1, <2>3, MessageOf
<1>7. ASSUME NEW m \in Messages(F) PROVE m \in AppendEntriesArgs
  <2>1. m = [x \in {"Term", "LeaderId", "PrevLogIndex", "PrevLogTerm", "Entries", "LeaderCommit"} |-> m[x]]
    BY <1>4, <1>5, MessageFacts
  <2>2. \A i \in DOMAIN F : m[F[i].name] \in TypeOf(F[i].kind)
    BY <1>4, MessageFacts
  <2>3. /\ m["Term"] \in Int
        /\ m["LeaderId"] \in Int
        /\ m["PrevLogIndex"] \in Int
        /\ m["PrevLogTerm"] \in Int
        /\ m["Entries"] \in Seq(LogEntry)
        /\ m["LeaderCommit"] \in Int
    <3>1. /\ m["Term"] \in TypeOf("int32")
          /\ m["LeaderId"] \in TypeOf("int32")
          /\ m["PrevLogIndex"] \in TypeOf("int32")
          /\ m["PrevLogTerm"] \in TypeOf("int32")
          /\ m["Entries"] \in TypeOf("entries")
          /\ m["LeaderCommit"] \in TypeOf("int32")
      BY <1>2, <2>2
    <3> QED
      BY <3>1, KindTypes
  <2> QED
    BY <2>1, <2>3 DEF AppendEntriesArgs
<1> QED
  BY <1>4, <1>6, <1>7 DEF F

\* AppendEntriesReply is a class, and its messages are the records of its type.
LEMMA AppendEntriesReplyClass ==
  Class(AppendEntriesReplyFields) /\ Scalars(AppendEntriesReplyFields) /\ \A m : m \in AppendEntriesReply <=> m \in Messages(AppendEntriesReplyFields)
<1> DEFINE F == AppendEntriesReplyFields
<1>1. IsSeq(F)
  BY TupleIsSeq, Zenon DEF AppendEntriesReplyFields
<1>2. /\ DOMAIN F = 1..4
      /\ F[1].name = "Term" /\ F[1].kind = "int32"
      /\ F[2].name = "Success" /\ F[2].kind = "bool"
      /\ F[3].name = "UpdateNextIndex" /\ F[3].kind = "int32"
      /\ F[4].name = "AppState" /\ F[4].kind = "int32"
  BY DEF AppendEntriesReplyFields, Bool, Int32
<1>3. \A i \in 1..4 : i = 1 \/ i = 2 \/ i = 3 \/ i = 4
  OBVIOUS
<1> HIDE DEF F
<1>4. Class(F) /\ Scalars(F)
  BY <1>1, <1>2, <1>3 DEF Class, Kinds, Scalars
<1>5. Names(F) = {"Term", "Success", "UpdateNextIndex", "AppState"}
  BY <1>2, <1>3 DEF Names
<1>6. ASSUME NEW m \in AppendEntriesReply PROVE m \in Messages(F)
  <2>1. m = [x \in {"Term", "Success", "UpdateNextIndex", "AppState"} |-> m[x]]
    BY DEF AppendEntriesReply
  <2>2. /\ m["Term"] \in Int
        /\ m["Success"] \in BOOLEAN
        /\ m["UpdateNextIndex"] \in Int
        /\ m["AppState"] \in Int
    BY DEF AppendEntriesReply
  <2>3. \A i \in DOMAIN F : m[F[i].name] \in TypeOf(F[i].kind)
    BY <1>2, <1>3, <2>2, KindTypes
  <2> QED
    BY <1>4, <1>5, <2>1, <2>3, MessageOf
<1>7. ASSUME NEW m \in Messages(F) PROVE m \in AppendEntriesReply
  <2>1. m = [x \in {"Term", "Success", "UpdateNextIndex", "AppState"} |-> m[x]]
    BY <1>4, <1>5, MessageFacts
  <2>2. \A i \in DOMAIN F : m[F[i].name] \in TypeOf(F[i].kind)
    BY <1>4, MessageFacts
  <2>3. /\ m["Term"] \in Int
        /\ m["Success"] \in BOOLEAN
        /\ m["UpdateNextIndex"] \in Int
        /\ m["AppState"] \in Int
    <3>1. /\ m["Term"] \in TypeOf("int32")
          /\ m["Success"] \in TypeOf("bool")
          /\ m["UpdateNextIndex"] \in TypeOf("int32")
          /\ m["AppState"] \in TypeOf("int32")
      BY <1>2, <2>2
    <3> QED
      BY <3>1, KindTypes
  <2> QED
    BY <2>1, <2>3 DEF AppendEntriesReply
<1> QED
  BY <1>4, <1>6, <1>7 DEF F

\* RequestVoteArgs is a class, and its messages are the records of its type.
LEMMA RequestVoteArgsClass ==
  Class(RequestVoteArgsFields) /\ Scalars(RequestVoteArgsFields) /\ \A m : m \in RequestVoteArgs <=> m \in Messages(RequestVoteArgsFields)
<1> DEFINE F == RequestVoteArgsFields
<1>1. IsSeq(F)
  BY TupleIsSeq, Zenon DEF RequestVoteArgsFields
<1>2. /\ DOMAIN F = 1..4
      /\ F[1].name = "Term" /\ F[1].kind = "int32"
      /\ F[2].name = "CandidateId" /\ F[2].kind = "int32"
      /\ F[3].name = "LastLogIndex" /\ F[3].kind = "int32"
      /\ F[4].name = "LastLogTerm" /\ F[4].kind = "int32"
  BY DEF RequestVoteArgsFields, Int32
<1>3. \A i \in 1..4 : i = 1 \/ i = 2 \/ i = 3 \/ i = 4
  OBVIOUS
<1> HIDE DEF F
<1>4. Class(F) /\ Scalars(F)
  BY <1>1, <1>2, <1>3 DEF Class, Kinds, Scalars
<1>5. Names(F) = {"Term", "CandidateId", "LastLogIndex", "LastLogTerm"}
  BY <1>2, <1>3 DEF Names
<1>6. ASSUME NEW m \in RequestVoteArgs PROVE m \in Messages(F)
  <2>1. m = [x \in {"Term", "CandidateId", "LastLogIndex", "LastLogTerm"} |-> m[x]]
    BY DEF RequestVoteArgs
  <2>2. /\ m["Term"] \in Int
        /\ m["CandidateId"] \in Int
        /\ m["LastLogIndex"] \in Int
        /\ m["LastLogTerm"] \in Int
    BY DEF RequestVoteArgs
  <2>3. \A i \in DOMAIN F : m[F[i].name] \in TypeOf(F[i].kind)
    BY <1>2, <1>3, <2>2, KindTypes
  <2> QED
    BY <1>4, <1>5, <2>1, <2>3, MessageOf
<1>7. ASSUME NEW m \in Messages(F) PROVE m \in RequestVoteArgs
  <2>1. m = [x \in {"Term", "CandidateId", "LastLogIndex", "LastLogTerm"} |-> m[x]]
    BY <1>4, <1>5, MessageFacts
  <2>2. \A i \in DOMAIN F : m[F[i].name] \in TypeOf(F[i].kind)
    BY <1>4, MessageFacts
  <2>3. /\ m["Term"] \in Int
        /\ m["CandidateId"] \in Int
        /\ m["LastLogIndex"] \in Int
        /\ m["LastLogTerm"] \in Int
    <3>1. /\ m["Term"] \in TypeOf("int32")
          /\ m["CandidateId"] \in TypeOf("int32")
          /\ m["LastLogIndex"] \in TypeOf("int32")
          /\ m["LastLogTerm"] \in TypeOf("int32")
      BY <1>2, <2>2
    <3> QED
      BY <3>1, KindTypes
  <2> QED
    BY <2>1, <2>3 DEF RequestVoteArgs
<1> QED
  BY <1>4, <1>6, <1>7 DEF F

\* RequestVoteReply is a class, and its messages are the records of its type.
LEMMA RequestVoteReplyClass ==
  Class(RequestVoteReplyFields) /\ Scalars(RequestVoteReplyFields) /\ \A m : m \in RequestVoteReply <=> m \in Messages(RequestVoteReplyFields)
<1> DEFINE F == RequestVoteReplyFields
<1>1. IsSeq(F)
  BY TupleIsSeq, Zenon DEF RequestVoteReplyFields
<1>2. /\ DOMAIN F = 1..3
      /\ F[1].name = "Term" /\ F[1].kind = "int32"
      /\ F[2].name = "VoteGranted" /\ F[2].kind = "bool"
      /\ F[3].name = "VoteState" /\ F[3].kind = "int32"
  BY DEF RequestVoteReplyFields, Bool, Int32
<1>3. \A i \in 1..3 : i = 1 \/ i = 2 \/ i = 3
  OBVIOUS
<1> HIDE DEF F
<1>4. Class(F) /\ Scalars(F)
  BY <1>1, <1>2, <1>3 DEF Class, Kinds, Scalars
<1>5. Names(F) = {"Term", "VoteGranted", "VoteState"}
  BY <1>2, <1>3 DEF Names
<1>6. ASSUME NEW m \in RequestVoteReply PROVE m \in Messages(F)
  <2>1. m = [x \in {"Term", "VoteGranted", "VoteState"} |-> m[x]]
    BY DEF RequestVoteReply
  <2>2. /\ m["Term"] \in Int
        /\ m["VoteGranted"] \in BOOLEAN
        /\ m["VoteState"] \in Int
    BY DEF RequestVoteReply
  <2>3. \A i \in DOMAIN F : m[F[i].name] \in TypeOf(F[i].kind)
    BY <1>2, <1>3, <2>2, KindTypes
  <2> QED
    BY <1>4, <1>5, <2>1, <2>3, MessageOf
<1>7. ASSUME NEW m \in Messages(F) PROVE m \in RequestVoteReply
  <2>1. m = [x \in {"Term", "VoteGranted", "VoteState"} |-> m[x]]
    BY <1>4, <1>5, MessageFacts
  <2>2. \A i \in DOMAIN F : m[F[i].name] \in TypeOf(F[i].kind)
    BY <1>4, MessageFacts
  <2>3. /\ m["Term"] \in Int
        /\ m["VoteGranted"] \in BOOLEAN
        /\ m["VoteState"] \in Int
    <3>1. /\ m["Term"] \in TypeOf("int32")
          /\ m["VoteGranted"] \in TypeOf("bool")
          /\ m["VoteState"] \in TypeOf("int32")
      BY <1>2, <2>2
    <3> QED
      BY <3>1, KindTypes
  <2> QED
    BY <2>1, <2>3 DEF RequestVoteReply
<1> QED
  BY <1>4, <1>6, <1>7 DEF F

\* InstallSnapshotRequest is a class, and its messages are the records of its type.
LEMMA InstallSnapshotRequestClass ==
  Class(InstallSnapshotRequestFields) /\ Scalars(InstallSnapshotRequestFields) /\ \A m : m \in InstallSnapshotRequest <=> m \in Messages(InstallSnapshotRequestFields)
<1> DEFINE F == InstallSnapshotRequestFields
<1>1. IsSeq(F)
  BY TupleIsSeq, Zenon DEF InstallSnapshotRequestFields
<1>2. /\ DOMAIN F = 1..5
      /\ F[1].name = "LeaderId" /\ F[1].kind = "int32"
      /\ F[2].name = "Term" /\ F[2].kind = "int32"
      /\ F[3].name = "LastSnapShotIncludeIndex" /\ F[3].kind = "int32"
      /\ F[4].name = "LastSnapShotIncludeTerm" /\ F[4].kind = "int32"
      /\ F[5].name = "Data" /\ F[5].kind = "bytes"
  BY DEF InstallSnapshotRequestFields, Bytes, Int32
<1>3. \A i \in 1..5 : i = 1 \/ i = 2 \/ i = 3 \/ i = 4 \/ i = 5
  OBVIOUS
<1> HIDE DEF F
<1>4. Class(F) /\ Scalars(F)
  BY <1>1, <1>2, <1>3 DEF Class, Kinds, Scalars
<1>5. Names(F) = {"LeaderId", "Term", "LastSnapShotIncludeIndex", "LastSnapShotIncludeTerm", "Data"}
  BY <1>2, <1>3 DEF Names
<1>6. ASSUME NEW m \in InstallSnapshotRequest PROVE m \in Messages(F)
  <2>1. m = [x \in {"LeaderId", "Term", "LastSnapShotIncludeIndex", "LastSnapShotIncludeTerm", "Data"} |-> m[x]]
    BY DEF InstallSnapshotRequest
  <2>2. /\ m["LeaderId"] \in Int
        /\ m["Term"] \in Int
        /\ m["LastSnapShotIncludeIndex"] \in Int
        /\ m["LastSnapShotIncludeTerm"] \in Int
        /\ m["Data"] \in Seq(STRING)
    BY DEF InstallSnapshotRequest
  <2>3. \A i \in DOMAIN F : m[F[i].name] \in TypeOf(F[i].kind)
    BY <1>2, <1>3, <2>2, KindTypes
  <2> QED
    BY <1>4, <1>5, <2>1, <2>3, MessageOf
<1>7. ASSUME NEW m \in Messages(F) PROVE m \in InstallSnapshotRequest
  <2>1. m = [x \in {"LeaderId", "Term", "LastSnapShotIncludeIndex", "LastSnapShotIncludeTerm", "Data"} |-> m[x]]
    BY <1>4, <1>5, MessageFacts
  <2>2. \A i \in DOMAIN F : m[F[i].name] \in TypeOf(F[i].kind)
    BY <1>4, MessageFacts
  <2>3. /\ m["LeaderId"] \in Int
        /\ m["Term"] \in Int
        /\ m["LastSnapShotIncludeIndex"] \in Int
        /\ m["LastSnapShotIncludeTerm"] \in Int
        /\ m["Data"] \in Seq(STRING)
    <3>1. /\ m["LeaderId"] \in TypeOf("int32")
          /\ m["Term"] \in TypeOf("int32")
          /\ m["LastSnapShotIncludeIndex"] \in TypeOf("int32")
          /\ m["LastSnapShotIncludeTerm"] \in TypeOf("int32")
          /\ m["Data"] \in TypeOf("bytes")
      BY <1>2, <2>2
    <3> QED
      BY <3>1, KindTypes
  <2> QED
    BY <2>1, <2>3 DEF InstallSnapshotRequest
<1> QED
  BY <1>4, <1>6, <1>7 DEF F

\* InstallSnapshotResponse is a class, and its messages are the records of its type.
LEMMA InstallSnapshotResponseClass ==
  Class(InstallSnapshotResponseFields) /\ Scalars(InstallSnapshotResponseFields) /\ \A m : m \in InstallSnapshotResponse <=> m \in Messages(InstallSnapshotResponseFields)
<1> DEFINE F == InstallSnapshotResponseFields
<1>1. IsSeq(F)
  BY TupleIsSeq, Zenon DEF InstallSnapshotResponseFields
<1>2. /\ DOMAIN F = 1..1
      /\ F[1].name = "Term" /\ F[1].kind = "int32"
  BY DEF InstallSnapshotResponseFields, Int32
<1>3. \A i \in 1..1 : i = 1
  OBVIOUS
<1> HIDE DEF F
<1>4. Class(F) /\ Scalars(F)
  BY <1>1, <1>2, <1>3 DEF Class, Kinds, Scalars
<1>5. Names(F) = {"Term"}
  BY <1>2, <1>3 DEF Names
<1>6. ASSUME NEW m \in InstallSnapshotResponse PROVE m \in Messages(F)
  <2>1. m = [x \in {"Term"} |-> m[x]]
    BY DEF InstallSnapshotResponse
  <2>2. /\ m["Term"] \in Int
    BY DEF InstallSnapshotResponse
  <2>3. \A i \in DOMAIN F : m[F[i].name] \in TypeOf(F[i].kind)
    BY <1>2, <1>3, <2>2, KindTypes
  <2> QED
    BY <1>4, <1>5, <2>1, <2>3, MessageOf
<1>7. ASSUME NEW m \in Messages(F) PROVE m \in InstallSnapshotResponse
  <2>1. m = [x \in {"Term"} |-> m[x]]
    BY <1>4, <1>5, MessageFacts
  <2>2. \A i \in DOMAIN F : m[F[i].name] \in TypeOf(F[i].kind)
    BY <1>4, MessageFacts
  <2>3. /\ m["Term"] \in Int
    <3>1. /\ m["Term"] \in TypeOf("int32")
      BY <1>2, <2>2
    <3> QED
      BY <3>1, KindTypes
  <2> QED
    BY <2>1, <2>3 DEF InstallSnapshotResponse
<1> QED
  BY <1>4, <1>6, <1>7 DEF F

\* GetArgs is a class, and its messages are the records of its type.
LEMMA GetArgsClass ==
  Class(GetArgsFields) /\ Scalars(GetArgsFields) /\ \A m : m \in GetArgs <=> m \in Messages(GetArgsFields)
<1> DEFINE F == GetArgsFields
<1>1. IsSeq(F)
  BY TupleIsSeq, Zenon DEF GetArgsFields
<1>2. /\ DOMAIN F = 1..3
      /\ F[1].name = "Key" /\ F[1].kind = "bytes"
      /\ F[2].name = "ClientId" /\ F[2].kind = "bytes"
      /\ F[3].name = "RequestId" /\ F[3].kind = "int32"
  BY DEF GetArgsFields, Bytes, Int32
<1>3. \A i \in 1..3 : i = 1 \/ i = 2 \/ i = 3
  OBVIOUS
<1> HIDE DEF F
<1>4. Class(F) /\ Scalars(F)
  BY <1>1, <1>2, <1>3 DEF Class, Kinds, Scalars
<1>5. Names(F) = {"Key", "ClientId", "RequestId"}
  BY <1>2, <1>3 DEF Names
<1>6. ASSUME NEW m \in GetArgs PROVE m \in Messages(F)
  <2>1. m = [x \in {"Key", "ClientId", "RequestId"} |-> m[x]]
    BY DEF GetArgs
  <2>2. /\ m["Key"] \in Seq(STRING)
        /\ m["ClientId"] \in Seq(STRING)
        /\ m["RequestId"] \in Int
    BY DEF GetArgs
  <2>3. \A i \in DOMAIN F : m[F[i].name] \in TypeOf(F[i].kind)
    BY <1>2, <1>3, <2>2, KindTypes
  <2> QED
    BY <1>4, <1>5, <2>1, <2>3, MessageOf
<1>7. ASSUME NEW m \in Messages(F) PROVE m \in GetArgs
  <2>1. m = [x \in {"Key", "ClientId", "RequestId"} |-> m[x]]
    BY <1>4, <1>5, MessageFacts
  <2>2. \A i \in DOMAIN F : m[F[i].name] \in TypeOf(F[i].kind)
    BY <1>4, MessageFacts
  <2>3. /\ m["Key"] \in Seq(STRING)
        /\ m["ClientId"] \in Seq(STRING)
        /\ m["RequestId"] \in Int
    <3>1. /\ m["Key"] \in TypeOf("bytes")
          /\ m["ClientId"] \in TypeOf("bytes")
          /\ m["RequestId"] \in TypeOf("int32")
      BY <1>2, <2>2
    <3> QED
      BY <3>1, KindTypes
  <2> QED
    BY <2>1, <2>3 DEF GetArgs
<1> QED
  BY <1>4, <1>6, <1>7 DEF F

\* GetReply is a class, and its messages are the records of its type.
LEMMA GetReplyClass ==
  Class(GetReplyFields) /\ Scalars(GetReplyFields) /\ \A m : m \in GetReply <=> m \in Messages(GetReplyFields)
<1> DEFINE F == GetReplyFields
<1>1. IsSeq(F)
  BY TupleIsSeq, Zenon DEF GetReplyFields
<1>2. /\ DOMAIN F = 1..2
      /\ F[1].name = "Err" /\ F[1].kind = "bytes"
      /\ F[2].name = "Value" /\ F[2].kind = "bytes"
  BY DEF GetReplyFields, Bytes
<1>3. \A i \in 1..2 : i = 1 \/ i = 2
  OBVIOUS
<1> HIDE DEF F
<1>4. Class(F) /\ Scalars(F)
  BY <1>1, <1>2, <1>3 DEF Class, Kinds, Scalars
<1>5. Names(F) = {"Err", "Value"}
  BY <1>2, <1>3 DEF Names
<1>6. ASSUME NEW m \in GetReply PROVE m \in Messages(F)
  <2>1. m = [x \in {"Err", "Value"} |-> m[x]]
    BY DEF GetReply
  <2>2. /\ m["Err"] \in Seq(STRING)
        /\ m["Value"] \in Seq(STRING)
    BY DEF GetReply
  <2>3. \A i \in DOMAIN F : m[F[i].name] \in TypeOf(F[i].kind)
    BY <1>2, <1>3, <2>2, KindTypes
  <2> QED
    BY <1>4, <1>5, <2>1, <2>3, MessageOf
<1>7. ASSUME NEW m \in Messages(F) PROVE m \in GetReply
  <2>1. m = [x \in {"Err", "Value"} |-> m[x]]
    BY <1>4, <1>5, MessageFacts
  <2>2. \A i \in DOMAIN F : m[F[i].name] \in TypeOf(F[i].kind)
    BY <1>4, MessageFacts
  <2>3. /\ m["Err"] \in Seq(STRING)
        /\ m["Value"] \in Seq(STRING)
    <3>1. /\ m["Err"] \in TypeOf("bytes")
          /\ m["Value"] \in TypeOf("bytes")
      BY <1>2, <2>2
    <3> QED
      BY <3>1, KindTypes
  <2> QED
    BY <2>1, <2>3 DEF GetReply
<1> QED
  BY <1>4, <1>6, <1>7 DEF F

\* PutAppendArgs is a class, and its messages are the records of its type.
LEMMA PutAppendArgsClass ==
  Class(PutAppendArgsFields) /\ Scalars(PutAppendArgsFields) /\ \A m : m \in PutAppendArgs <=> m \in Messages(PutAppendArgsFields)
<1> DEFINE F == PutAppendArgsFields
<1>1. IsSeq(F)
  BY TupleIsSeq, Zenon DEF PutAppendArgsFields
<1>2. /\ DOMAIN F = 1..5
      /\ F[1].name = "Key" /\ F[1].kind = "bytes"
      /\ F[2].name = "Value" /\ F[2].kind = "bytes"
      /\ F[3].name = "Op" /\ F[3].kind = "bytes"
      /\ F[4].name = "ClientId" /\ F[4].kind = "bytes"
      /\ F[5].name = "RequestId" /\ F[5].kind = "int32"
  BY DEF PutAppendArgsFields, Bytes, Int32
<1>3. \A i \in 1..5 : i = 1 \/ i = 2 \/ i = 3 \/ i = 4 \/ i = 5
  OBVIOUS
<1> HIDE DEF F
<1>4. Class(F) /\ Scalars(F)
  BY <1>1, <1>2, <1>3 DEF Class, Kinds, Scalars
<1>5. Names(F) = {"Key", "Value", "Op", "ClientId", "RequestId"}
  BY <1>2, <1>3 DEF Names
<1>6. ASSUME NEW m \in PutAppendArgs PROVE m \in Messages(F)
  <2>1. m = [x \in {"Key", "Value", "Op", "ClientId", "RequestId"} |-> m[x]]
    BY DEF PutAppendArgs
  <2>2. /\ m["Key"] \in Seq(STRING)
        /\ m["Value"] \in Seq(STRING)
        /\ m["Op"] \in Seq(STRING)
        /\ m["ClientId"] \in Seq(STRING)
        /\ m["RequestId"] \in Int
    BY DEF PutAppendArgs
  <2>3. \A i \in DOMAIN F : m[F[i].name] \in TypeOf(F[i].kind)
    BY <1>2, <1>3, <2>2, KindTypes
  <2> QED
    BY <1>4, <1>5, <2>1, <2>3, MessageOf
<1>7. ASSUME NEW m \in Messages(F) PROVE m \in PutAppendArgs
  <2>1. m = [x \in {"Key", "Value", "Op", "ClientId", "RequestId"} |-> m[x]]
    BY <1>4, <1>5, MessageFacts
  <2>2. \A i \in DOMAIN F : m[F[i].name] \in TypeOf(F[i].kind)
    BY <1>4, MessageFacts
  <2>3. /\ m["Key"] \in Seq(STRING)
        /\ m["Value"] \in Seq(STRING)
        /\ m["Op"] \in Seq(STRING)
        /\ m["ClientId"] \in Seq(STRING)
        /\ m["RequestId"] \in Int
    <3>1. /\ m["Key"] \in TypeOf("bytes")
          /\ m["Value"] \in TypeOf("bytes")
          /\ m["Op"] \in TypeOf("bytes")
          /\ m["ClientId"] \in TypeOf("bytes")
          /\ m["RequestId"] \in TypeOf("int32")
      BY <1>2, <2>2
    <3> QED
      BY <3>1, KindTypes
  <2> QED
    BY <2>1, <2>3 DEF PutAppendArgs
<1> QED
  BY <1>4, <1>6, <1>7 DEF F

\* PutAppendReply is a class, and its messages are the records of its type.
LEMMA PutAppendReplyClass ==
  Class(PutAppendReplyFields) /\ Scalars(PutAppendReplyFields) /\ \A m : m \in PutAppendReply <=> m \in Messages(PutAppendReplyFields)
<1> DEFINE F == PutAppendReplyFields
<1>1. IsSeq(F)
  BY TupleIsSeq, Zenon DEF PutAppendReplyFields
<1>2. /\ DOMAIN F = 1..1
      /\ F[1].name = "Err" /\ F[1].kind = "bytes"
  BY DEF PutAppendReplyFields, Bytes
<1>3. \A i \in 1..1 : i = 1
  OBVIOUS
<1> HIDE DEF F
<1>4. Class(F) /\ Scalars(F)
  BY <1>1, <1>2, <1>3 DEF Class, Kinds, Scalars
<1>5. Names(F) = {"Err"}
  BY <1>2, <1>3 DEF Names
<1>6. ASSUME NEW m \in PutAppendReply PROVE m \in Messages(F)
  <2>1. m = [x \in {"Err"} |-> m[x]]
    BY DEF PutAppendReply
  <2>2. /\ m["Err"] \in Seq(STRING)
    BY DEF PutAppendReply
  <2>3. \A i \in DOMAIN F : m[F[i].name] \in TypeOf(F[i].kind)
    BY <1>2, <1>3, <2>2, KindTypes
  <2> QED
    BY <1>4, <1>5, <2>1, <2>3, MessageOf
<1>7. ASSUME NEW m \in Messages(F) PROVE m \in PutAppendReply
  <2>1. m = [x \in {"Err"} |-> m[x]]
    BY <1>4, <1>5, MessageFacts
  <2>2. \A i \in DOMAIN F : m[F[i].name] \in TypeOf(F[i].kind)
    BY <1>4, MessageFacts
  <2>3. /\ m["Err"] \in Seq(STRING)
    <3>1. /\ m["Err"] \in TypeOf("bytes")
      BY <1>2, <2>2
    <3> QED
      BY <3>1, KindTypes
  <2> QED
    BY <2>1, <2>3 DEF PutAppendReply
<1> QED
  BY <1>4, <1>6, <1>7 DEF F

\* RpcHeader is a class, and its messages are the records of its type.
LEMMA RpcHeaderClass ==
  Class(RpcHeaderFields) /\ Scalars(RpcHeaderFields) /\ \A m \in RpcHeader : m \in Messages(RpcHeaderFields)
<1> DEFINE F == RpcHeaderFields
<1>1. IsSeq(F)
  BY TupleIsSeq, Zenon DEF RpcHeaderFields
<1>2. /\ DOMAIN F = 1..3
      /\ F[1].name = "service_name" /\ F[1].kind = "bytes"
      /\ F[2].name = "method_name" /\ F[2].kind = "bytes"
      /\ F[3].name = "args_size" /\ F[3].kind = "int32"
  BY DEF RpcHeaderFields, Bytes, Int32
<1>3. \A i \in 1..3 : i = 1 \/ i = 2 \/ i = 3
  OBVIOUS
<1> HIDE DEF F
<1>4. Class(F) /\ Scalars(F)
  BY <1>1, <1>2, <1>3 DEF Class, Kinds, Scalars
<1>5. Names(F) = {"service_name", "method_name", "args_size"}
  BY <1>2, <1>3 DEF Names
<1>6. ASSUME NEW m \in RpcHeader PROVE m \in Messages(F)
  <2>1. m = [x \in {"service_name", "method_name", "args_size"} |-> m[x]]
    BY DEF RpcHeader
  <2>2. /\ m["service_name"] \in Seq(STRING)
        /\ m["method_name"] \in Seq(STRING)
        /\ m["args_size"] \in Int
    BY DEF RpcHeader
  <2>3. \A i \in DOMAIN F : m[F[i].name] \in TypeOf(F[i].kind)
    BY <1>2, <1>3, <2>2, KindTypes
  <2> QED
    BY <1>4, <1>5, <2>1, <2>3, MessageOf
<1> QED
  BY <1>4, <1>6 DEF F

-----------------------------------------------------------------------------
(* Repeated fields *)

\* An entry is written, announced and read like a message of a class of its own.
LEMMA EntryWritten ==
  ASSUME NEW e \in LogEntry
  PROVE  /\ SerializeEntry(e) = Serialize(LogEntryFields, e)
         /\ EntrySize(e) = ByteSizeLong(LogEntryFields, e)
<1> DEFINE F == LogEntryFields
<1>1. Len(F) \in Nat /\ DOMAIN F = 1..Len(F) /\ \A i \in DOMAIN F : F[i].kind # "entries"
  BY LogEntryClass, SeqFacts DEF Class, Scalars
<1>2. SerializeEntry(e) = Serialize(F, e)
  <2> DEFINE Cells(i) == ScalarCells(i, F[i].kind, e[F[i].name])
             a == [i \in DOMAIN F |-> Cells(i)]
             b == [i \in DOMAIN F |-> IF F[i].kind = "entries" THEN EntriesCells(i, e[F[i].name])
                                      ELSE Cells(i)]
  <2>1. SerializeEntry(e) = FlattenSeq(a) /\ Serialize(F, e) = FlattenSeq(b)
    BY DEF SerializeEntry, Serialize
  <2> HIDE DEF F, Cells
  <2>2. a = b
    BY <1>1
  <2> QED
    BY <2>1, <2>2
<1>3. EntrySize(e) = ByteSizeLong(F, e)
  <2>1. EntrySize(e) = FoldOf("EntrySize", e, 0, F) /\ ByteSizeLong(F, e) = FoldOf("ByteSizeLong", e, 0, F)
    BY WireFolds
  <2> DEFINE N == Len(F)
  <2>2. N \in Nat /\ DOMAIN F = 1..N
    BY <1>1
  <2> HIDE DEF F, N
  <2>3. PICK v : Steps(v, "EntrySize", e, 0, F, N) /\ FoldOf("EntrySize", e, 0, F) = v[N]
    BY <2>2, FoldUnfold
  <2>4. PICK w : Steps(w, "ByteSizeLong", e, 0, F, N) /\ FoldOf("ByteSizeLong", e, 0, F) = w[N]
    BY <2>2, FoldUnfold
  <2>5. ASSUME NEW i \in 1..N, NEW u
        PROVE  FoldStep("EntrySize", e, u, F[i]) = FoldStep("ByteSizeLong", e, u, F[i])
    <3>1. F[i].kind # "entries"
      BY <1>1, <2>2
    <3> QED
      BY <3>1, FoldSteps
  <2>6. v[N] = w[N]
    BY <2>2, <2>3, <2>4, <2>5, StepsUnique
  <2> QED
    BY <2>1, <2>3, <2>4, <2>6
<1> QED
  BY <1>2, <1>3

\* An entry is parsed as a message of its class,
LEMMA ParseEntryIsParse ==
  ASSUME NEW c, NEW n, Goods(LogEntryFields, c, n)
  PROVE  ParseEntry(c) = Parse(LogEntryFields, c)
<1> DEFINE F == LogEntryFields
           s == [i \in 1..(Len(c) \div 2) |-> i]
           x == <<F, c>>
           r == Cleared(F)
<1>1. Len(F) \in Nat /\ DOMAIN F = 1..Len(F) /\ \A i \in DOMAIN F : F[i].kind # "entries"
  BY LogEntryClass, SeqFacts DEF Class, Scalars
<1>2. n \in Nat /\ DOMAIN s = 1..n /\ \A i \in 1..n : s[i] = i
  BY DEF Goods, Pairs
<1>3. ParseEntry(c) = FoldOf("ParseEntry", c, r, s) /\ Parse(F, c) = FoldOf("Parse", x, r, s)
  BY WireFolds
<1>4. ASSUME NEW i \in 1..n, NEW u PROVE FoldStep("ParseEntry", c, u, s[i]) = FoldStep("Parse", x, u, s[i])
  <2> DEFINE tag == c[2*i - 1].value
             v == c[2*i].value
  <2>1. tag[1] \in Nat \ {0}
    BY DEF Goods, GoodPair
  <2>2. FoldStep("ParseEntry", c, u, i) = ReadScalar(F, u, tag, v)
        /\ FoldStep("Parse", x, u, i) = ReadField(F, u, tag, v)
    BY FoldSteps
  <2> HIDE DEF tag, v, F
  <2>3. ReadField(F, u, tag, v) = ReadScalar(F, u, tag, v)
    <3>1. ~ (tag[1] <= Len(F) /\ tag[2] = "len" /\ F[tag[1]].kind = "entries")
      BY <1>1, <2>1
    <3> QED
      BY <3>1 DEF ReadField
  <2>4. s[i] = i
    BY <1>2
  <2> HIDE DEF s
  <2> QED
    BY <2>2, <2>3, <2>4
<1> HIDE DEF F, s, x, r
<1>5. PICK v : Steps(v, "ParseEntry", c, r, s, n) /\ FoldOf("ParseEntry", c, r, s) = v[n]
  BY <1>2, FoldUnfold
<1>6. PICK w : Steps(w, "Parse", x, r, s, n) /\ FoldOf("Parse", x, r, s) = w[n]
  BY <1>2, FoldUnfold
<1>7. v[n] = w[n]
  BY <1>2, <1>4, <1>5, <1>6, StepsUnique
<1> QED
  BY <1>3, <1>5, <1>6, <1>7 DEF F

\* so it is read back as it was written.
LEMMA EntryFacts ==
  ASSUME NEW e \in LogEntry
  PROVE  /\ \E n : Goods(LogEntryFields, SerializeEntry(e), n)
         /\ TotalSize(SerializeEntry(e)) = EntrySize(e)
         /\ ParseEntry(SerializeEntry(e)) = e
<1>1. Class(LogEntryFields) /\ e \in Messages(LogEntryFields) /\ Faithful(LogEntryFields, e)
  BY LogEntryClass, ScalarsWritten
<1>2. SerializeEntry(e) = Serialize(LogEntryFields, e) /\ EntrySize(e) = ByteSizeLong(LogEntryFields, e)
  BY EntryWritten
<1>3. PICK n : Goods(LogEntryFields, SerializeEntry(e), n)
  BY <1>1, <1>2 DEF Faithful
<1>4. ParseEntry(SerializeEntry(e)) = Parse(LogEntryFields, SerializeEntry(e))
  BY <1>3, ParseEntryIsParse
<1> QED
  BY <1>1, <1>2, <1>3, <1>4, ReadsBack DEF Faithful

\* The cells of one entry of a repeated field.
EntryCells(i, e) ==
  <<TagCell(i, "entries"), Cell("len", SerializeEntry(e), LenSize(TotalSize(SerializeEntry(e))))>>

\* One element of a repeated field is appended when it is read.
LEMMA EntryCellsFacts ==
  ASSUME NEW fields, Class(fields), NEW i \in DOMAIN fields, fields[i].kind = "entries",
         NEW e \in LogEntry
  PROVE  /\ Goods(fields, EntryCells(i, e), 1)
         /\ TotalSize(EntryCells(i, e)) = 1 + LenSize(EntrySize(e))
         /\ \A r : ReadFrom(r, fields, EntryCells(i, e)) = [r EXCEPT ![fields[i].name] = Append(@, e)]
<1> DEFINE body == SerializeEntry(e)
           a == TagCell(i, "entries")
           b == Cell("len", body, LenSize(TotalSize(body)))
           x == fields[i].name
<1>1. ParseEntry(body) = e /\ TotalSize(body) = EntrySize(e) /\ TotalSize(body) \in Nat
  <2>1. PICK n : Goods(LogEntryFields, body, n)
    BY EntryFacts
  <2>2. TotalSize(body) \in Nat
    BY <2>1, TotalConcat DEF Goods
  <2> QED
    BY <2>2, EntryFacts
<1>2. /\ a.part = "tag" /\ a.size = 1 /\ a.value[1] = i /\ a.value[2] = "len"
      /\ b.part = "len" /\ b.value = body /\ b.size = LenSize(EntrySize(e))
  BY <1>1, KindTypes DEF TagCell, Cell
<1>3. b.size \in Nat \ {0}
  BY <1>1, <1>2, LenSizes
<1>4. i \in 1..Len(fields) /\ Len(fields) \in Nat
  BY SeqFacts DEF Class
<1>5. EntryCells(i, e) = <<a, b>>
  BY DEF EntryCells
<1> HIDE DEF a, b, body
<1>6. ASSUME NEW r PROVE ReadField(fields, r, a.value, b.value) = [r EXCEPT ![x] = Append(@, e)]
  <2>1. a.value[1] <= Len(fields) /\ a.value[2] = "len" /\ fields[a.value[1]].kind = "entries"
    BY <1>2, <1>4
  <2>2. ReadField(fields, r, a.value, b.value) =
          [r EXCEPT ![fields[a.value[1]].name] = Append(@, ParseEntry(b.value))]
    BY <2>1 DEF ReadField
  <2> QED
    BY <1>1, <1>2, <2>2
<1>7. ASSUME NEW r \in Messages(fields) PROVE [r EXCEPT ![x] = Append(@, e)] \in Messages(fields)
  <2> DEFINE v == Append(r[x], e)
             q == [r EXCEPT ![x] = v]
  <2>1. v \in Seq(LogEntry)
    <3>1. r[x] \in Seq(LogEntry)
      BY MessageFacts, KindTypes
    <3> QED
      BY <3>1, AppendProperties
  <2>2. TypeOf(fields[i].kind) = Seq(LogEntry)
    BY KindTypes
  <2> HIDE DEF v
  <2>3. q \in Messages(fields)
    <3>1. q = [r EXCEPT ![fields[i].name] = v]
      OBVIOUS
    <3> HIDE DEF q
    <3> QED
      BY <2>1, <2>2, <3>1, FieldSet
  <2> QED
    BY <2>3 DEF v
<1> HIDE DEF x
<1>8. GoodPair(fields, a, b)
  <2>1. \A r \in Messages(fields) : ReadField(fields, r, a.value, b.value) \in Messages(fields)
    BY <1>6, <1>7
  <2>2. a.part = "tag" /\ b.part \in {"varint", "len"} /\ a.value[1] \in Nat \ {0}
    BY <1>2, <1>4
  <2> QED
    BY <2>1, <2>2 DEF GoodPair
<1>9. Goods(fields, <<a, b>>, 1) /\ TotalSize(<<a, b>>) = 1 + b.size
  BY <1>2, <1>3, <1>8, GoodsPair
<1>10. ASSUME NEW r PROVE ReadFrom(r, fields, <<a, b>>) = [r EXCEPT ![x] = Append(@, e)]
  <2>1. ReadFrom(r, fields, <<a, b>>) = ReadField(fields, r, a.value, b.value)
    BY ReadPair
  <2>2. ReadField(fields, r, a.value, b.value) = [r EXCEPT ![x] = Append(@, e)]
    BY <1>6
  <2> QED
    BY <2>1, <2>2
<1> QED
  BY <1>2, <1>5, <1>9, <1>10 DEF x

\* So a repeated field is written faithfully, element by element.
LEMMA EntriesWritten ==
  ASSUME NEW fields, Class(fields), NEW m \in Messages(fields), NEW i \in DOMAIN fields,
         fields[i].kind = "entries"
  PROVE  FieldWritten(fields, m, i)
<1> DEFINE x == fields[i].name
           entries == m[x]
           N == Len(entries)
           s == [k \in 1..N |-> EntryCells(i, entries[k])]
<1>1. entries \in Seq(LogEntry) /\ N \in Nat /\ DOMAIN entries = 1..N
  <2>1. entries \in Seq(LogEntry)
    BY MessageFacts, KindTypes
  <2> QED
    BY <2>1, LenProperties
<1>2. \A k \in 1..N : entries[k] \in LogEntry
  BY <1>1, ElementOfSeq
<1>3. FieldCells(fields, m, i) = FlattenSeq(s)
  <2>1. FieldCells(fields, m, i) = EntriesCells(i, entries)
    BY DEF FieldCells
  <2> HIDE DEF entries
  <2> QED
    BY <1>1, <2>1 DEF EntriesCells, EntryCells
<1>4. FieldSize(fields, m, i) = EntriesSize(entries)
  BY DEF FieldSize
<1> HIDE DEF entries, N
<1>5. IsSeq(s) /\ Len(s) = N /\ DOMAIN s = 1..N /\ \A k \in 1..N : s[k] = EntryCells(i, entries[k])
  BY <1>1, SeqOfFunction
<1> HIDE DEF s
<1>6. \A k \in DOMAIN s : IsSeq(s[k])
  BY <1>5, TupleIsSeq DEF EntryCells
<1>7. PICK g : /\ g[0] = <<>> /\ FlattenSeq(s) = g[N]
               /\ \A k \in 1..N : g[k] = g[k - 1] \o s[k]
  BY <1>5, <1>6, FlattenSteps
<1>8. PICK v : Steps(v, "EntriesSize", 0, 0, entries, N) /\ FoldOf("EntriesSize", 0, 0, entries) = v[N]
  BY <1>1, FoldUnfold
<1>9. v[0] = 0 /\ \A k \in 1..N : v[k] = v[k - 1] + 1 + LenSize(EntrySize(entries[k]))
  BY <1>8, FoldSteps DEF Steps
<1>10. EntriesSize(entries) = v[N]
  BY <1>8, WireFolds
<1> DEFINE Taken(k, r) == [r EXCEPT ![x] = @ \o SubSeq(entries, 1, k)]
           Done(k) == /\ \E n : Goods(fields, g[k], n)
                      /\ TotalSize(g[k]) = v[k]
                      /\ \A r \in Messages(fields) : ReadFrom(r, fields, g[k]) = Taken(k, r)
           done == {k \in Nat : k <= N => Done(k)}
<1>11. ASSUME NEW r \in Messages(fields)
       PROVE  /\ r[x] \in Seq(LogEntry) /\ r = [y \in Names(fields) |-> r[y]] /\ x \in Names(fields)
  BY MessageFacts, KindTypes, InMessage
<1> HIDE DEF x
<1>12. 0 \in done
  <2>1. Goods(fields, g[0], 0) /\ TotalSize(g[0]) = v[0]
    BY <1>7, <1>9, GoodsNone, TotalNone
  <2>2. ASSUME NEW r \in Messages(fields) PROVE ReadFrom(r, fields, g[0]) = Taken(0, r)
    <3>1. ReadFrom(r, fields, g[0]) = r
      BY <1>7, ReadNone
    <3>2. SubSeq(entries, 1, 0) = <<>>
      BY SubSeqEmpty
    <3>3. r[x] \o SubSeq(entries, 1, 0) = r[x]
      BY <1>11, <3>2, ConcatEmptySeq
    <3>4. [r EXCEPT ![x] = r[x]] = r
      BY <1>11
    <3> QED
      BY <3>1, <3>3, <3>4
  <2> QED
    BY <2>1, <2>2
<1> HIDE DEF Done
<1>13. ASSUME NEW k \in Nat, k \in done PROVE k + 1 \in done
  <2>1. SUFFICES ASSUME k + 1 <= N PROVE Done(k + 1)
    OBVIOUS
  <2> DEFINE j == k + 1
             c == g[k]
             d == s[j]
             e == entries[j]
  <2>2. j \in 1..N /\ j - 1 = k /\ k <= N /\ j \in Nat
    BY <1>1, <2>1
  <2>3. Done(k)
    BY <1>13, <2>2
  <2>4. e \in LogEntry
    BY <1>2, <2>2
  <2>5. d = EntryCells(i, e) /\ g[j] = c \o d /\ v[j] = v[k] + 1 + LenSize(EntrySize(e))
    BY <1>5, <1>7, <1>9, <2>2
  <2>6. PICK h : Goods(fields, c, h)
    BY <2>3 DEF Done
  <2>7. TotalSize(c) = v[k] /\ \A r \in Messages(fields) : ReadFrom(r, fields, c) = Taken(k, r)
    BY <2>3 DEF Done
  <2> HIDE DEF j, c, d, e
  <2>8. /\ Goods(fields, d, 1) /\ TotalSize(d) = 1 + LenSize(EntrySize(e))
        /\ \A r : ReadFrom(r, fields, d) = [r EXCEPT ![x] = Append(@, e)]
    BY <2>4, <2>5, EntryCellsFacts DEF x
  <2>9. Goods(fields, g[j], h + 1)
    BY <2>5, <2>6, <2>8, GoodsConcat
  <2>10. TotalSize(g[j]) = v[j]
    <3>1. TotalSize(c \o d) = TotalSize(c) + TotalSize(d) /\ TotalSize(c) \in Nat /\ TotalSize(d) \in Nat
      BY <2>6, <2>8, TotalConcat DEF Goods
    <3>2. LenSize(EntrySize(e)) \in Nat
      <4>1. \E n : Goods(LogEntryFields, SerializeEntry(e), n)
        BY <2>4, EntryFacts
      <4>2. TotalSize(SerializeEntry(e)) \in Nat
        BY <4>1, TotalConcat DEF Goods
      <4> QED
        BY <2>4, <4>2, EntryFacts, LenSizes
    <3> DEFINE l == LenSize(EntrySize(e))
    <3>3. /\ TotalSize(g[j]) = TotalSize(c) + TotalSize(d) /\ TotalSize(c) = v[k]
          /\ TotalSize(d) = 1 + l /\ v[j] = v[k] + 1 + l /\ l \in Nat /\ v[k] \in Nat
      BY <2>5, <2>7, <2>8, <3>1, <3>2
    <3> HIDE DEF l
    <3> QED
      BY <3>3
  <2>11. ASSUME NEW r \in Messages(fields) PROVE ReadFrom(r, fields, g[j]) = Taken(j, r)
    <3> DEFINE q == ReadFrom(r, fields, c)
    <3>1. ReadFrom(r, fields, g[j]) = ReadFrom(q, fields, d)
      BY <2>5, <2>6, <2>8, ReadConcat DEF Goods
    <3>2. q = Taken(k, r)
      BY <2>7
    <3>3. ReadFrom(q, fields, d) = [q EXCEPT ![x] = Append(q[x], e)]
      BY <2>8
    <3> HIDE DEF q
    <3>4. q[x] = r[x] \o SubSeq(entries, 1, k)
      BY <1>11, <3>2
    <3>5. Append(q[x], e) = r[x] \o SubSeq(entries, 1, j)
      <4> DEFINE a == r[x]
                 b == SubSeq(entries, 1, k)
      <4>1. a \in Seq(LogEntry)
        BY <1>11
      <4>2. b \in Seq(LogEntry)
        <5>1. \A l \in 1..k : entries[l] \in LogEntry
          BY <1>1, <1>2, <2>2
        <5> QED
          BY <5>1, SubSeqProperties
      <4>3. SubSeq(entries, 1, j) = b \o <<e>>
        <5>1. j \in 1..Len(entries) /\ 1 \in 1..Len(entries)
          BY <1>1, <2>2 DEF N
        <5>2. SubSeq(entries, 1, j) = SubSeq(entries, 1, j - 1) \o <<entries[j]>>
          BY <1>1, <5>1, SubSeqRecursiveSecond
        <5> QED
          BY <2>2, <5>2 DEF e
      <4>4. q[x] = a \o b
        BY <3>4
      <4> HIDE DEF a, b
      <4>5. <<e>> \in Seq(LogEntry)
        BY <2>4
      <4>6. (a \o b) \o <<e>> = a \o (b \o <<e>>)
        BY <4>1, <4>2, <4>5, ConcatAssociative
      <4>7. Append(a \o b, e) = (a \o b) \o <<e>>
        BY <2>4, <4>1, <4>2, AppendIsConcat, ConcatProperties
      <4>8. Append(q[x], e) = a \o SubSeq(entries, 1, j)
        BY <4>3, <4>4, <4>6, <4>7
      <4> QED
        BY <4>8 DEF a
    <3>6. [q EXCEPT ![x] = r[x] \o SubSeq(entries, 1, j)] = Taken(j, r)
      <4> DEFINE u == r[x] \o SubSeq(entries, 1, j)
                 w == r[x] \o SubSeq(entries, 1, k)
      <4>1. q = [r EXCEPT ![x] = w] /\ Taken(j, r) = [r EXCEPT ![x] = u]
        BY <3>2
      <4> HIDE DEF u, w
      <4>2. [q EXCEPT ![x] = u] = [r EXCEPT ![x] = u]
        BY <1>11, <4>1
      <4> QED
        BY <4>1, <4>2 DEF u
    <3> QED
      BY <3>1, <3>3, <3>5, <3>6
  <2> QED
    BY <2>2, <2>9, <2>10, <2>11 DEF Done, j
<1> HIDE DEF done
<1>14. \A k \in Nat : k \in done
  BY <1>12, <1>13, NatSet
<1>15. Done(N)
  BY <1>1, <1>14 DEF done
<1>16. SubSeq(entries, 1, N) = entries
  BY <1>1, SubSeqFull DEF N
<1>17. ASSUME NEW r \in Messages(fields)
       PROVE  ReadFrom(r, fields, g[N]) = [r EXCEPT ![x] = MergeValue(fields[i].kind, @, m[x])]
  <2>1. ReadFrom(r, fields, g[N]) = [r EXCEPT ![x] = r[x] \o entries]
    BY <1>15, <1>16 DEF Done
  <2>2. MergeValue(fields[i].kind, r[x], m[x]) = r[x] \o entries
    BY DEF MergeValue, entries
  <2> QED
    BY <2>1, <2>2
<1> QED
  BY <1>3, <1>4, <1>7, <1>10, <1>15, <1>17 DEF FieldWritten, x, Done

\* Every message of a class is written, announced and read as FieldWritten says.
LEMMA AllWritten ==
  ASSUME NEW fields, Class(fields), NEW m \in Messages(fields)
  PROVE  Faithful(fields, m)
BY ScalarWritten, EntriesWritten, FieldsWritten

-----------------------------------------------------------------------------
(* The messages of the two services *)

\* The requests and answers of every method are messages of classes,
\* and no answer has a repeated field.
LEMMA MethodClasses ==
  ASSUME NEW method \in RaftMethods \cup KvMethods
  PROVE  /\ Class(RequestFields(method)) /\ Class(ResponseFields(method))
         /\ Scalars(ResponseFields(method))
         /\ \A m : IsRequest(method, m) <=> m \in Messages(RequestFields(method))
         /\ \A m : IsResponse(method, m) <=> m \in Messages(ResponseFields(method))
<1>1. CASE method = "AppendEntries"
  <2>1. RequestFields(method) = AppendEntriesArgsFields /\ ResponseFields(method) = AppendEntriesReplyFields
    BY <1>1 DEF RequestFields, ResponseFields, RaftRequest, RaftResponse, RaftMethods
  <2>2. \A m : (IsRequest(method, m) <=> m \in AppendEntriesArgs) /\ (IsResponse(method, m) <=> m \in AppendEntriesReply)
    BY <1>1 DEF IsRequest, IsResponse
  <2> QED
    BY <2>1, <2>2, AppendEntriesArgsClass, AppendEntriesReplyClass
<1>2. CASE method = "InstallSnapshot"
  <2>1. RequestFields(method) = InstallSnapshotRequestFields /\ ResponseFields(method) = InstallSnapshotResponseFields
    BY <1>2 DEF RequestFields, ResponseFields, RaftRequest, RaftResponse, RaftMethods
  <2>2. \A m : /\ IsRequest(method, m) <=> m \in InstallSnapshotRequest
               /\ IsResponse(method, m) <=> m \in InstallSnapshotResponse
    BY <1>2 DEF IsRequest, IsResponse
  <2> QED
    BY <2>1, <2>2, InstallSnapshotRequestClass, InstallSnapshotResponseClass
<1>3. CASE method = "RequestVote"
  <2>1. RequestFields(method) = RequestVoteArgsFields /\ ResponseFields(method) = RequestVoteReplyFields
    BY <1>3 DEF RequestFields, ResponseFields, RaftRequest, RaftResponse, RaftMethods
  <2>2. \A m : (IsRequest(method, m) <=> m \in RequestVoteArgs) /\ (IsResponse(method, m) <=> m \in RequestVoteReply)
    BY <1>3 DEF IsRequest, IsResponse
  <2> QED
    BY <2>1, <2>2, RequestVoteArgsClass, RequestVoteReplyClass
<1>4. CASE method = "PutAppend"
  <2>1. RequestFields(method) = PutAppendArgsFields /\ ResponseFields(method) = PutAppendReplyFields
    BY <1>4 DEF RequestFields, ResponseFields, KvRequest, KvResponse, RaftMethods
  <2>2. \A m : (IsRequest(method, m) <=> m \in PutAppendArgs) /\ (IsResponse(method, m) <=> m \in PutAppendReply)
    BY <1>4 DEF IsRequest, IsResponse
  <2> QED
    BY <2>1, <2>2, PutAppendArgsClass, PutAppendReplyClass
<1>5. CASE method = "Get"
  <2>1. RequestFields(method) = GetArgsFields /\ ResponseFields(method) = GetReplyFields
    BY <1>5 DEF RequestFields, ResponseFields, KvRequest, KvResponse, RaftMethods
  <2>2. \A m : (IsRequest(method, m) <=> m \in GetArgs) /\ (IsResponse(method, m) <=> m \in GetReply)
    BY <1>5 DEF IsRequest, IsResponse
  <2> QED
    BY <2>1, <2>2, GetArgsClass, GetReplyClass
<1> QED
  BY <1>1, <1>2, <1>3, <1>4, <1>5 DEF RaftMethods, KvMethods

\* What is written of a message has the bytes announced and is read back as the
\* message.
ReadBack(fields, m) ==
  /\ \E n : Goods(fields, Serialize(fields, m), n)
  /\ Whole(Serialize(fields, m)) /\ Parse(fields, Serialize(fields, m)) = m
  /\ TotalSize(Serialize(fields, m)) = ByteSizeLong(fields, m)

\* Every message of every class is read back,
LEMMA MessageReadBack ==
  ASSUME NEW fields, Class(fields), NEW m \in Messages(fields)
  PROVE  ReadBack(fields, m)
<1>1. Faithful(fields, m)
  BY AllWritten
<1> QED
  BY <1>1, ReadsBack DEF ReadBack, Faithful

\* and two that are read as one are merged.
LEMMA MessagesMerge ==
  ASSUME NEW fields, Class(fields), NEW m \in Messages(fields), NEW n \in Messages(fields)
  PROVE  Parse(fields, Serialize(fields, m) \o Serialize(fields, n)) = MergeFrom(fields, m, n)
BY AllWritten, ReadsMerged

\* An answer is read back as it was.
THEOREM AnswersReadBack ==
  ASSUME NEW method \in RaftMethods \cup KvMethods, NEW r, IsResponse(method, r)
  PROVE  /\ IsSeq(Serialize(ResponseFields(method), r)) /\ Whole(Serialize(ResponseFields(method), r))
         /\ Parse(ResponseFields(method), Serialize(ResponseFields(method), r)) = r
<1>1. ReadBack(ResponseFields(method), r)
  BY MethodClasses, MessageReadBack
<1> QED
  BY <1>1 DEF ReadBack, Goods, Pairs

\* So are the arguments of a call, a repeated field with them.
THEOREM RequestsReadBack ==
  ASSUME NEW method \in RaftMethods \cup KvMethods, NEW m, IsRequest(method, m)
  PROVE  /\ IsSeq(Serialize(RequestFields(method), m)) /\ Whole(Serialize(RequestFields(method), m))
         /\ Parse(RequestFields(method), Serialize(RequestFields(method), m)) = m
<1>1. ReadBack(RequestFields(method), m)
  BY MethodClasses, MessageReadBack
<1> QED
  BY <1>1 DEF ReadBack, Goods, Pairs

-----------------------------------------------------------------------------
(* The first bytes of a stream *)

\* What is written in three parts can be taken apart in two ways.
LEMMA ConcatAssoc ==
  ASSUME NEW a, NEW b, NEW c, IsSeq(a), IsSeq(b), IsSeq(c)
  PROVE  (a \o b) \o c = a \o (b \o c)
<1>1. PICK S, T, U : a \in Seq(S) /\ b \in Seq(T) /\ c \in Seq(U)
  BY DEF IsSeq
<1> DEFINE V == S \cup T \cup U
<1>2. a \in Seq(V) /\ b \in Seq(V) /\ c \in Seq(V)
  BY <1>1
<1> HIDE DEF V
<1> QED
  BY <1>2, ConcatAssociative

\* The same with the operator kept closed, for where the provers open it too often.
Then(a, b) == a \o b

LEMMA ThenAssoc ==
  ASSUME NEW a, NEW b, NEW c, IsSeq(a), IsSeq(b), IsSeq(c)
  PROVE  Then(Then(a, b), c) = Then(a, Then(b, c))
BY ConcatAssoc DEF Then

\* Nothing is written by an empty part.
LEMMA ConcatNone == ASSUME NEW a, IsSeq(a) PROVE a \o <<>> = a /\ <<>> \o a = a
BY ConcatEmptySeq DEF IsSeq

\* What is behind the first cell.
LEMMA TailOfConcat ==
  ASSUME NEW x, NEW a, IsSeq(a)
  PROVE  Tail(<<x>> \o a) = a /\ (<<x>> \o a)[1] = x
<1> DEFINE s == <<x>> \o a
<1>1. IsSeq(<<x>>) /\ Len(<<x>>) = 1 /\ <<x>>[1] = x
  BY TupleIsSeq
<1>2. /\ IsSeq(s) /\ Len(s) = 1 + Len(a) /\ Len(a) \in Nat
      /\ s[1] = x /\ \A i \in 1..Len(a) : s[1 + i] = a[i]
  <2> DEFINE y == <<x>>
  <2>1. IsSeq(y) /\ Len(y) = 1 /\ y[1] = x
    BY <1>1
  <2> HIDE DEF y
  <2>2. /\ IsSeq(y \o a) /\ Len(y \o a) = Len(y) + Len(a) /\ Len(a) \in Nat
        /\ \A i \in 1..Len(y) : (y \o a)[i] = y[i]
        /\ \A i \in 1..Len(a) : (y \o a)[Len(y) + i] = a[i]
    <3>1. IsSeq(y)
      BY <2>1
    <3> QED
      BY <3>1, ConcatSeq
  <2>3. 1 \in 1..Len(y)
    BY <2>1
  <2>4. (y \o a)[1] = x
    BY <2>1, <2>2, <2>3
  <2>5. \A i \in 1..Len(a) : (y \o a)[1 + i] = a[i]
    BY <2>1, <2>2
  <2>6. Len(y \o a) = 1 + Len(a)
    BY <2>1, <2>2
  <2> QED
    BY <2>2, <2>4, <2>5, <2>6 DEF y
<1> HIDE DEF s
<1>3. PICK S : s \in Seq(S)
  BY <1>2 DEF IsSeq
<1>4. s # <<>>
  BY <1>2
<1>5. /\ IsSeq(Tail(s)) /\ Len(Tail(s)) = Len(s) - 1
      /\ \A i \in 1..Len(Tail(s)) : Tail(s)[i] = s[i + 1]
  BY <1>3, <1>4, HeadTailProperties DEF IsSeq
<1>6. Len(Tail(s)) = Len(a)
  BY <1>2, <1>5
<1>7. \A i \in 1..Len(a) : Tail(s)[i] = a[i]
  <2> TAKE i \in 1..Len(a)
  <2>1. i + 1 = 1 + i
    BY <1>2
  <2> QED
    BY <1>2, <1>5, <1>6, <2>1
<1>8. Tail(s) = a
  BY <1>5, <1>6, <1>7, SameSeq
<1> QED
  BY <1>2, <1>8 DEF s

\* The first cells of a stream have their sizes,
LEMMA PrefixSized ==
  ASSUME NEW c, Sized(c), NEW f \in 0..Len(c)
  PROVE  Sized(SubSeq(c, 1, f)) /\ TotalSize(SubSeq(c, 1, f)) \in Nat
<1>1. Len(c) \in Nat
  BY SeqFacts DEF Sized
<1>2. /\ IsSeq(SubSeq(c, 1, f)) /\ Len(SubSeq(c, 1, f)) = f
      /\ \A j \in 1..f : SubSeq(c, 1, f)[j] = c[j]
  BY PrefixFacts DEF Sized
<1>3. \A j \in 1..f : j \in 1..Len(c)
  BY <1>1
<1>4. Sized(SubSeq(c, 1, f))
  BY <1>2, <1>3 DEF Sized
<1> QED
  BY <1>4, TotalConcat

\* the others too.
LEMMA SuffixSized ==
  ASSUME NEW c, Sized(c), NEW f \in 0..Len(c)
  PROVE  Sized(SubSeq(c, f + 1, Len(c)))
<1>1. Len(c) \in Nat
  BY SeqFacts DEF Sized
<1>2. /\ IsSeq(SubSeq(c, f + 1, Len(c))) /\ Len(SubSeq(c, f + 1, Len(c))) = Len(c) - f
      /\ \A j \in 1..(Len(c) - f) : SubSeq(c, f + 1, Len(c))[j] = c[f + j]
  BY SuffixFacts DEF Sized
<1>3. \A j \in 1..(Len(c) - f) : f + j \in 1..Len(c)
  BY <1>1
<1> QED
  BY <1>2, <1>3 DEF Sized

\* The first n bytes, when the first f cells fit in them.
HeadAt(c, n, f) ==
  LET whole == SubSeq(c, 1, f)
  IN  IF n = TotalSize(whole) THEN whole ELSE whole \o TornCells(n - TotalSize(whole))

\* The first n bytes of a stream are its whole cells and a torn one.
LEMMA CutHead ==
  ASSUME NEW c, Sized(c), NEW n \in Nat, n <= TotalSize(c), NEW f \in 0..Len(c), Fitting(c, n, f)
  PROVE  Cut(c, n).head = HeadAt(c, n, f)
<1>1. PICK g \in 0..Len(c) : Fitting(c, n, g) /\ Cut(c, n) = CutAfter(c, n, g)
  BY CutFacts
<1>2. g = f
  BY <1>1, FittingOnce
<1>3. TotalSize(SubSeq(c, 1, f)) \in Nat /\ TotalSize(c) \in Nat
  BY PrefixSized, TotalConcat
<1> DEFINE whole == SubSeq(c, 1, f)
<1>4. CASE f = Len(c)
  <2>1. whole = c
    BY <1>4, SubSeqFull DEF Sized, IsSeq
  <2>2. TotalSize(whole) <= n
    BY DEF Fitting
  <2>3. n = TotalSize(whole)
    <3> HIDE DEF whole
    <3> QED
      BY <1>3, <2>1, <2>2
  <2>4. Cut(c, n).head = c
    BY <1>1, <1>2, <1>4 DEF CutAfter
  <2> QED
    BY <2>1, <2>3, <2>4 DEF HeadAt
<1>5. CASE f # Len(c) /\ n = TotalSize(whole)
  <2>1. n - TotalSize(whole) = 0
    BY <1>5
  <2> QED
    BY <1>1, <1>2, <1>5, <2>1 DEF CutAfter, HeadAt
<1>6. CASE f # Len(c) /\ n # TotalSize(whole)
  <2>1. n - TotalSize(whole) # 0
    <3>1. TotalSize(whole) \in Nat
      BY <1>3
    <3> HIDE DEF whole
    <3> QED
      BY <1>6, <3>1
  <2> QED
    BY <1>1, <1>2, <1>6, <2>1 DEF CutAfter, HeadAt
<1> QED
  BY <1>4, <1>5, <1>6

\* They are n bytes, and whole cells but for the last.
LEMMA HeadSized ==
  ASSUME NEW c, Sized(c), NEW n \in Nat, n <= TotalSize(c)
  PROVE  /\ Sized(Cut(c, n).head) /\ TotalSize(Cut(c, n).head) = n
         /\ \E f \in 0..Len(c) : \E torn :
              /\ Cut(c, n).head = SubSeq(c, 1, f) \o torn
              /\ torn = <<>> \/ \E size \in Nat \ {0} : torn = TornCells(size)
<1>1. PICK f \in 0..Len(c) : Fitting(c, n, f)
  BY CutFacts
<1> DEFINE whole == SubSeq(c, 1, f)
           room  == n - TotalSize(whole)
           head  == Cut(c, n).head
<1>2. head = HeadAt(c, n, f)
  BY <1>1, CutHead
<1>3. Sized(whole) /\ TotalSize(whole) \in Nat /\ TotalSize(whole) <= n
  BY <1>1, PrefixSized DEF Fitting
<1>4. CASE n = TotalSize(whole)
  <2>1. head = whole
    BY <1>2, <1>4 DEF HeadAt
  <2>2. whole \o <<>> = whole
    BY <1>3, ConcatNone DEF Sized
  <2> HIDE DEF head, whole
  <2>3. Sized(head) /\ TotalSize(head) = n /\ head = whole \o <<>>
    BY <1>3, <1>4, <2>1, <2>2
  <2> QED
    BY <2>3 DEF head, whole
<1>5. CASE n # TotalSize(whole)
  <2>1. head = whole \o TornCells(room)
    BY <1>2, <1>5 DEF HeadAt
  <2>2. room \in Nat \ {0}
    <3> HIDE DEF whole
    <3> QED
      BY <1>3, <1>5
  <2>3. Sized(TornCells(room)) /\ TotalSize(TornCells(room)) = room
    BY <2>2, TornSized
  <2>4. Sized(head) /\ TotalSize(head) = n
    <3>1. TotalSize(head) = TotalSize(whole) + room /\ Sized(head)
      <4> HIDE DEF head, whole, room
      <4> QED
        BY <1>3, <2>1, <2>3, TotalConcat, SizedConcat
    <3>2. TotalSize(whole) + room = n
      <4> HIDE DEF whole
      <4> QED
        BY <1>3
    <3> QED
      BY <3>1, <3>2
  <2> HIDE DEF head, whole, room
  <2>5. \E torn : head = whole \o torn /\ \E size \in Nat \ {0} : torn = TornCells(size)
    BY <2>1, <2>2
  <2> QED
    BY <2>4, <2>5 DEF head, whole
<1> QED
  BY <1>4, <1>5

\* The first bytes of a stream that begins with a are those of a,
LEMMA CutBefore ==
  ASSUME NEW a, NEW b, Sized(a), Sized(b), NEW n \in Nat, n < TotalSize(a)
  PROVE  Cut(a \o b, n).head = Cut(a, n).head
<1> DEFINE c == a \o b
<1>1. /\ IsSeq(c) /\ Len(c) = Len(a) + Len(b) /\ Len(a) \in Nat /\ Len(b) \in Nat
      /\ \A i \in 1..Len(a) : c[i] = a[i]
  BY ConcatSeq DEF Sized
<1>2. Sized(c) /\ TotalSize(c) = TotalSize(a) + TotalSize(b) /\ TotalSize(a) \in Nat /\ TotalSize(b) \in Nat
  BY SizedConcat, TotalConcat
<1>3. n <= TotalSize(a) /\ n <= TotalSize(c)
  <2> HIDE DEF c
  <2> QED
    BY <1>2
<1> HIDE DEF c
<1>4. \A i \in 0..Len(a) : SubSeq(c, 1, i) = SubSeq(a, 1, i)
  <2> TAKE i \in 0..Len(a)
  <2> DEFINE p == SubSeq(c, 1, i)
             q == SubSeq(a, 1, i)
  <2>1. i \in 0..Len(c)
    BY <1>1
  <2>2. IsSeq(p) /\ Len(p) = i /\ \A j \in 1..i : p[j] = c[j]
    BY <1>1, <2>1, PrefixFacts
  <2>3. IsSeq(q) /\ Len(q) = i /\ \A j \in 1..i : q[j] = a[j]
    BY PrefixFacts DEF Sized
  <2>4. \A j \in 1..i : j \in 1..Len(a)
    BY <1>1
  <2> HIDE DEF p, q
  <2>5. p = q
    BY <1>1, <2>2, <2>3, <2>4, SameSeq
  <2> QED
    BY <2>5 DEF p, q
<1>5. PICK f \in 0..Len(a) : Fitting(a, n, f)
  BY CutFacts
<1>6. f # Len(a)
  <2>1. SubSeq(a, 1, Len(a)) = a
    BY SubSeqFull DEF Sized, IsSeq
  <2> SUFFICES ASSUME f = Len(a) PROVE FALSE
    OBVIOUS
  <2>2. TotalSize(a) <= n
    BY <1>5, <2>1 DEF Fitting
  <2> QED
    BY <1>2, <2>2
<1>7. f \in 0..Len(c) /\ f + 1 \in 0..Len(a)
  BY <1>1, <1>6
<1>8. Fitting(c, n, f)
  <2>1. TotalSize(SubSeq(c, 1, f)) <= n
    BY <1>4, <1>5 DEF Fitting
  <2>2. TotalSize(SubSeq(c, 1, f + 1)) > n
    BY <1>4, <1>5, <1>6, <1>7 DEF Fitting
  <2> QED
    BY <2>1, <2>2 DEF Fitting
<1>9. HeadAt(c, n, f) = HeadAt(a, n, f)
  BY <1>4 DEF HeadAt
<1>10. Cut(c, n).head = HeadAt(c, n, f)
  BY <1>2, <1>3, <1>7, <1>8, CutHead
<1>11. Cut(a, n).head = HeadAt(a, n, f)
  BY <1>3, <1>5, CutHead
<1> QED
  BY <1>9, <1>10, <1>11 DEF c

\* and behind a those of what follows.
LEMMA CutPast ==
  ASSUME NEW a, NEW b, Sized(a), Sized(b), NEW n \in Nat, n <= TotalSize(b)
  PROVE  Cut(a \o b, TotalSize(a) + n).head = a \o Cut(b, n).head
<1> DEFINE c == a \o b
           k == Len(a)
           m == TotalSize(a) + n
<1>1. /\ IsSeq(c) /\ Len(c) = k + Len(b) /\ k \in Nat /\ Len(b) \in Nat
      /\ \A i \in 1..k : c[i] = a[i]
      /\ \A i \in 1..Len(b) : c[k + i] = b[i]
  BY ConcatSeq DEF Sized
<1>2. Sized(c) /\ TotalSize(c) = TotalSize(a) + TotalSize(b) /\ TotalSize(a) \in Nat /\ TotalSize(b) \in Nat
  BY SizedConcat, TotalConcat
<1> HIDE DEF c
<1>3. m \in Nat /\ m <= TotalSize(c)
  BY <1>2
<1> HIDE DEF m, k
<1>4. ASSUME NEW i \in 0..Len(b)
      PROVE  /\ k + i \in 0..Len(c) /\ SubSeq(c, 1, k + i) = a \o SubSeq(b, 1, i)
             /\ Sized(SubSeq(b, 1, i)) /\ TotalSize(SubSeq(b, 1, i)) \in Nat
             /\ TotalSize(SubSeq(c, 1, k + i)) = TotalSize(a) + TotalSize(SubSeq(b, 1, i))
  <2> DEFINE p == SubSeq(c, 1, k + i)
             q == SubSeq(b, 1, i)
             r == a \o q
  <2>1. k + i \in 0..Len(c)
    BY <1>1
  <2>2. IsSeq(p) /\ Len(p) = k + i /\ \A j \in 1..(k + i) : p[j] = c[j]
    BY <1>1, <2>1, PrefixFacts
  <2>3. IsSeq(q) /\ Len(q) = i /\ \A j \in 1..i : q[j] = b[j]
    BY PrefixFacts DEF Sized
  <2>4. Sized(q) /\ TotalSize(q) \in Nat
    BY PrefixSized
  <2> HIDE DEF p, q
  <2>5. /\ IsSeq(r) /\ Len(r) = k + i
        /\ \A j \in 1..k : r[j] = a[j]
        /\ \A j \in 1..i : r[k + j] = q[j]
    <3>1. /\ IsSeq(a \o q) /\ Len(a \o q) = Len(a) + Len(q)
          /\ \A j \in 1..Len(a) : (a \o q)[j] = a[j]
          /\ \A j \in 1..Len(q) : (a \o q)[Len(a) + j] = q[j]
      <4>1. IsSeq(a) /\ IsSeq(q)
        BY <2>3 DEF Sized
      <4> QED
        BY <4>1, ConcatSeq
    <3> QED
      BY <2>3, <3>1 DEF k
  <2> HIDE DEF r
  <2>6. ASSUME NEW j \in 1..(k + i) PROVE p[j] = r[j]
    <3>1. CASE j <= k
      <4>1. j \in 1..k
        BY <1>1, <3>1
      <4> QED
        BY <1>1, <2>2, <2>5, <4>1
    <3>2. CASE j > k
      <4>1. PICK l \in 1..i : j = k + l /\ l \in 1..Len(b)
        <5>1. j - k \in 1..i /\ j = k + (j - k) /\ j - k \in 1..Len(b)
          BY <1>1, <3>2
        <5> QED
          BY <5>1
      <4>2. p[j] = c[k + l] /\ c[k + l] = b[l] /\ r[k + l] = q[l] /\ q[l] = b[l]
        BY <1>1, <2>2, <2>3, <2>5, <4>1
      <4> QED
        BY <4>1, <4>2
    <3>3. j <= k \/ j > k
      BY <1>1
    <3> QED
      BY <3>1, <3>2, <3>3
  <2>7. p = r
    BY <2>2, <2>5, <2>6, SameSeq
  <2>8. TotalSize(r) = TotalSize(a) + TotalSize(q)
    BY <2>4, TotalConcat DEF r
  <2> QED
    BY <2>1, <2>4, <2>7, <2>8 DEF p, q, r
<1>5. PICK g \in 0..Len(b) : Fitting(b, n, g)
  BY CutFacts
<1> DEFINE f == k + g
           q == SubSeq(b, 1, g)
<1>6. /\ f \in 0..Len(c) /\ SubSeq(c, 1, f) = a \o q /\ Sized(q) /\ TotalSize(q) \in Nat
      /\ TotalSize(SubSeq(c, 1, f)) = TotalSize(a) + TotalSize(q)
  BY <1>4
<1>7. Fitting(c, m, f)
  <2>1. TotalSize(SubSeq(c, 1, f)) <= m
    <3>1. TotalSize(q) <= n
      BY <1>5 DEF Fitting
    <3> HIDE DEF f, q
    <3> QED
      BY <1>2, <1>6, <3>1 DEF m
  <2>2. ASSUME f # Len(c) PROVE TotalSize(SubSeq(c, 1, f + 1)) > m
    <3>1. g # Len(b) /\ g + 1 \in 0..Len(b) /\ k + (g + 1) = f + 1
      BY <1>1, <2>2
    <3>2. TotalSize(SubSeq(b, 1, g + 1)) > n
      BY <1>5, <3>1 DEF Fitting
    <3>3. TotalSize(SubSeq(c, 1, f + 1)) = TotalSize(a) + TotalSize(SubSeq(b, 1, g + 1))
          /\ TotalSize(SubSeq(b, 1, g + 1)) \in Nat
      <4> HIDE DEF f
      <4> QED
        BY <1>4, <3>1
    <3> HIDE DEF f
    <3> QED
      BY <1>2, <3>2, <3>3 DEF m
  <2> QED
    BY <2>1, <2>2 DEF Fitting
<1>8. Cut(c, m).head = HeadAt(c, m, f) /\ Cut(b, n).head = HeadAt(b, n, g)
  <2> HIDE DEF f
  <2> QED
    BY <1>2, <1>3, <1>5, <1>6, <1>7, CutHead
<1> HIDE DEF f
<1>9. CASE n = TotalSize(q)
  <2>1. m = TotalSize(SubSeq(c, 1, f))
    BY <1>6, <1>9 DEF m
  <2>2. HeadAt(c, m, f) = a \o q /\ HeadAt(b, n, g) = q
    BY <1>6, <1>9, <2>1 DEF HeadAt
  <2> QED
    BY <1>8, <2>2 DEF c, m
<1>10. CASE n # TotalSize(q)
  <2> DEFINE room == n - TotalSize(q)
  <2>1. m # TotalSize(SubSeq(c, 1, f)) /\ m - TotalSize(SubSeq(c, 1, f)) = room
    <3> HIDE DEF q
    <3> QED
      BY <1>2, <1>6, <1>10 DEF m
  <2>2. HeadAt(c, m, f) = (a \o q) \o TornCells(room)
    <3> HIDE DEF q, room
    <3> QED
      BY <1>6, <2>1 DEF HeadAt
  <2>3. HeadAt(b, n, g) = q \o TornCells(room)
    BY <1>10 DEF HeadAt
  <2>4. IsSeq(TornCells(room))
    BY TupleIsSeq DEF TornCells
  <2> DEFINE torn == TornCells(room)
  <2>5. (a \o q) \o torn = a \o (q \o torn)
    <3>1. IsSeq(a) /\ IsSeq(q) /\ IsSeq(torn)
      BY <1>6, <2>4 DEF Sized
    <3> HIDE DEF q, torn
    <3>2. Then(Then(a, q), torn) = Then(a, Then(q, torn))
      BY <3>1, ThenAssoc
    <3> QED
      BY <3>2 DEF Then
  <2>6. Cut(c, m).head = (a \o q) \o torn
    <3> HIDE DEF q, room, m
    <3> QED
      BY <1>8, <2>2
  <2>7. Cut(b, n).head = q \o torn
    <3> HIDE DEF q, room
    <3> QED
      BY <1>8, <2>3
  <2> HIDE DEF q, room, torn
  <2>8. Cut(c, m).head = a \o (q \o torn)
    BY <2>5, <2>6, Zenon
  <2>9. Cut(c, m).head = a \o Cut(b, n).head
    BY <2>7, <2>8, Zenon
  <2> QED
    BY <2>9 DEF c, m
<1> QED
  BY <1>9, <1>10

-----------------------------------------------------------------------------
(* Streams that are cut and still read *)

\* Every tag has its value behind it, and any message can take the field.
Follows(fields, c) ==
  \A i \in 1..Len(c) : c[i].part = "tag" => i + 1 \in 1..Len(c) /\ GoodPair(fields, c[i], c[i + 1])

\* What is torn is not whole.
LEMMA TornNotWhole ==
  ASSUME NEW c, IsSeq(c), NEW size
  PROVE  ~ Whole(c \o TornCells(size))
<1> DEFINE t == TornCells(size)
           d == c \o t
<1>1. IsSeq(t) /\ Len(t) = 1 /\ t[1].part = "torn"
  <2>1. \A x : IsSeq(<<x>>) /\ Len(<<x>>) = 1 /\ <<x>>[1] = x
    BY TupleIsSeq
  <2> QED
    BY <2>1 DEF TornCells, Cell
<1> HIDE DEF t
<1>2. /\ IsSeq(d) /\ Len(d) = Len(c) + Len(t) /\ Len(c) \in Nat
      /\ \A i \in 1..Len(t) : d[Len(c) + i] = t[i]
  <2>1. IsSeq(t)
    BY <1>1
  <2> QED
    BY <2>1, ConcatSeq
<1> HIDE DEF d
<1> DEFINE n == Len(c) + 1
<1>3. n \in DOMAIN d
  BY <1>1, <1>2, SeqFacts
<1>4. d[n] = t[1]
  <2>1. 1 \in 1..Len(t)
    BY <1>1
  <2> QED
    BY <1>2, <2>1
<1>5. d[n].part = "torn"
  BY <1>1, <1>4
<1> HIDE DEF n
<1>6. ~ Whole(d)
  BY <1>3, <1>5 DEF Whole
<1> QED
  BY <1>6 DEF d, t

\* What is left of whole fields are whole fields, if it parses at all.
LEMMA WholeGoods ==
  ASSUME NEW fields, NEW c, Sized(c), Follows(fields, c), NEW f \in 0..Len(c), NEW torn,
         torn = <<>> \/ \E size \in Nat \ {0} : torn = TornCells(size),
         Whole(SubSeq(c, 1, f) \o torn)
  PROVE  \E k : Goods(fields, SubSeq(c, 1, f) \o torn, k)
<1> DEFINE p == SubSeq(c, 1, f)
<1>1. Len(c) \in Nat
  BY SeqFacts DEF Sized
<1>2. IsSeq(p) /\ Len(p) = f /\ \A j \in 1..f : p[j] = c[j]
  BY PrefixFacts DEF Sized
<1>3. Sized(p)
  BY PrefixSized
<1>4. DOMAIN p = 1..f
  BY <1>2, SeqFacts
<1> HIDE DEF p
<1>5. torn = <<>>
  BY <1>2, TornNotWhole DEF p
<1>6. p \o torn = p
  BY <1>2, <1>5, ConcatNone
<1>7. Whole(p)
  BY <1>6 DEF p
<1>8. f \in Nat /\ f % 2 = 0
  BY <1>1, <1>2, <1>7 DEF Whole
<1>9. PICK n \in Nat : f = 2 * n
  <2>1. f \div 2 \in Nat /\ f = 2 * (f \div 2)
    BY <1>8
  <2> QED
    BY <2>1
<1>10. ASSUME NEW i \in 1..n PROVE GoodPair(fields, p[2*i - 1], p[2*i])
  <2> DEFINE j == 2*i - 1
  <2>1. j \in 1..f /\ j + 1 \in 1..f /\ j % 2 = 1 /\ j + 1 = 2*i /\ j \in 1..Len(c)
    BY <1>1, <1>9
  <2> HIDE DEF j
  <2>2. p[j].part = "tag"
    BY <1>4, <1>7, <2>1 DEF Whole
  <2>3. p[j] = c[j] /\ p[j + 1] = c[j + 1]
    BY <1>2, <2>1
  <2>4. GoodPair(fields, c[j], c[j + 1])
    BY <2>1, <2>2, <2>3 DEF Follows
  <2> QED
    BY <2>1, <2>3, <2>4 DEF j
<1>11. Goods(fields, p, n)
  BY <1>2, <1>3, <1>9, <1>10 DEF Goods, Pairs
<1> QED
  BY <1>6, <1>11 DEF p

\* What a class writes is such a stream.
LEMMA GoodsFollow ==
  ASSUME NEW fields, NEW c, NEW n, Goods(fields, c, n)
  PROVE  Sized(c) /\ Follows(fields, c)
<1>1. n \in Nat /\ Len(c) = 2*n /\ Sized(c)
  BY DEF Goods, Pairs
<1>2. ASSUME NEW i \in 1..Len(c), c[i].part = "tag"
      PROVE  i + 1 \in 1..Len(c) /\ GoodPair(fields, c[i], c[i + 1])
  <2>1. CASE i % 2 = 1
    <3>1. PICK j \in 1..n : i = 2*j - 1 /\ i + 1 = 2*j
      <4>1. (i + 1) \div 2 \in 1..n /\ i = 2*((i + 1) \div 2) - 1
        BY <1>1, <2>1
      <4> QED
        BY <4>1
    <3>2. GoodPair(fields, c[2*j - 1], c[2*j])
      BY DEF Goods
    <3> QED
      BY <1>1, <3>1, <3>2
  <2>2. CASE i % 2 # 1
    <3>1. PICK j \in 1..n : i = 2*j
      <4>1. i \div 2 \in 1..n /\ i = 2*(i \div 2)
        BY <1>1, <2>2
      <4> QED
        BY <4>1
    <3>2. c[2*j].part \in {"varint", "len"}
      BY DEF Goods, GoodPair
    <3> QED
      BY <1>2, <3>1, <3>2
  <2> QED
    BY <2>1, <2>2
<1> QED
  BY <1>1, <1>2 DEF Follows

\* Whole fields, cut: what parses is a message.
LEMMA HeadParses ==
  ASSUME NEW fields, Class(fields), NEW c, Sized(c), Follows(fields, c),
         NEW n \in Nat, n <= TotalSize(c), Whole(Cut(c, n).head)
  PROVE  Parse(fields, Cut(c, n).head) \in Messages(fields)
<1>1. PICK f \in 0..Len(c) : \E torn :
        /\ Cut(c, n).head = SubSeq(c, 1, f) \o torn
        /\ torn = <<>> \/ \E size \in Nat \ {0} : torn = TornCells(size)
  BY HeadSized
<1>2. PICK torn :
        /\ Cut(c, n).head = SubSeq(c, 1, f) \o torn
        /\ torn = <<>> \/ \E size \in Nat \ {0} : torn = TornCells(size)
  BY <1>1
<1>3. \E k : Goods(fields, Cut(c, n).head, k)
  BY <1>2, WholeGoods
<1> QED
  BY <1>3, ClearedMessage, GoodsRead, ParseIsRead

-----------------------------------------------------------------------------
(* Streams of answers *)

\* A tag and the value behind it.
Tagged(a, b) ==
  /\ a.value[1] \in Nat \ {0} /\ b.part \in {"varint", "len"} /\ a.value[2] = b.part
  /\ b.value \in IF b.part = "varint" THEN Int ELSE Seq(STRING)

\* A stream of answers; it may begin inside a field, and does not end inside one.
Stream(c) ==
  Sized(c) /\ \A i \in 1..Len(c) : c[i].part = "tag" => i + 1 \in 1..Len(c) /\ Tagged(c[i], c[i + 1])

\* A class without repeated fields can take a field of any stream.
LEMMA TaggedGood ==
  ASSUME NEW fields, Class(fields), Scalars(fields), NEW a, NEW b, a.part = "tag", Tagged(a, b)
  PROVE  GoodPair(fields, a, b)
<1> DEFINE number == a.value[1]
           v == b.value
<1>1. number \in Nat \ {0} /\ b.part \in {"varint", "len"} /\ a.value[2] = b.part
  BY DEF Tagged
<1>2. ASSUME NEW x \in Messages(fields) PROVE ReadField(fields, x, a.value, v) \in Messages(fields)
  <2>1. CASE number > Len(fields)
    <3>1. ~ (number <= Len(fields))
      BY <1>1, <2>1, SeqFacts DEF Class
    <3> QED
      BY <2>1, <3>1 DEF ReadField, ReadScalar
  <2>2. CASE number <= Len(fields)
    <3>1. number \in DOMAIN fields
      BY <1>1, <2>2, SeqFacts DEF Class
    <3> DEFINE kind == fields[number].kind
               set  == IF kind = "bool" THEN v # 0 ELSE v
               r    == [x EXCEPT ![fields[number].name] = set]
    <3>2. kind \in Kinds \ {"entries"}
      BY <3>1 DEF Class, Scalars
    <3>3. ~ (number > Len(fields))
      BY <1>1, <2>2, SeqFacts DEF Class
    <3>4. CASE a.value[2] # WireType(kind)
      BY <3>2, <3>4 DEF ReadField, ReadScalar
    <3>5. CASE a.value[2] = WireType(kind)
      <4>1. ReadField(fields, x, a.value, v) = r
        BY <3>2, <3>3, <3>5 DEF ReadField, ReadScalar
      <4>2. set \in TypeOf(kind)
        <5>1. CASE kind = "bool"
          BY <5>1, KindTypes
        <5>2. CASE kind = "int32"
          <6>1. b.part = "varint"
            BY <1>1, <3>5, <5>2 DEF WireType
          <6> QED
            BY <5>2, <6>1, KindTypes DEF Tagged
        <5>3. CASE kind = "bytes"
          <6>1. b.part = "len"
            BY <1>1, <3>5, <5>3 DEF WireType
          <6> QED
            BY <5>3, <6>1, KindTypes DEF Tagged
        <5> HIDE DEF kind, set
        <5> QED
          BY <3>2, <5>1, <5>2, <5>3 DEF Kinds
      <4>3. r \in Messages(fields)
        <5>1. \E z : z = r
          OBVIOUS
        <5> HIDE DEF set, number, v
        <5> QED
          BY <3>1, <4>2, FieldSet
      <4> QED
        BY <4>1, <4>3
    <3> QED
      BY <3>4, <3>5
  <2> QED
    BY <1>1, <2>1, <2>2, SeqFacts DEF Class
<1> QED
  BY <1>1, <1>2 DEF GoodPair

\* So any stream can be read by any such class.
LEMMA StreamFollows ==
  ASSUME NEW fields, Class(fields), Scalars(fields), NEW c, Stream(c)
  PROVE  Sized(c) /\ Follows(fields, c)
BY TaggedGood DEF Stream, Follows

\* Nothing is a stream,
LEMMA StreamNone == Stream(<<>>)
<1>1. Sized(<<>>) /\ Len(<<>>) = 0
  BY TupleIsSeq DEF Sized
<1> QED
  BY <1>1 DEF Stream

\* two streams, one written behind the other, are one,
LEMMA StreamConcat ==
  ASSUME NEW c, NEW d, Stream(c), Stream(d)
  PROVE  Stream(c \o d)
<1> DEFINE e == c \o d
           k == Len(c)
<1>1. /\ IsSeq(e) /\ Len(e) = k + Len(d) /\ k \in Nat /\ Len(d) \in Nat
      /\ \A i \in 1..k : e[i] = c[i]
      /\ \A i \in 1..Len(d) : e[k + i] = d[i]
  <2>1. IsSeq(c) /\ IsSeq(d)
    BY DEF Stream, Sized
  <2> QED
    BY <2>1, ConcatSeq
<1>2. Sized(e)
  BY SizedConcat DEF Stream
<1> HIDE DEF e
<1>3. ASSUME NEW i \in 1..Len(e), e[i].part = "tag"
      PROVE  i + 1 \in 1..Len(e) /\ Tagged(e[i], e[i + 1])
  <2>1. CASE i <= k
    <3>1. i \in 1..k /\ e[i] = c[i]
      BY <1>1, <2>1
    <3>2. i + 1 \in 1..k /\ Tagged(c[i], c[i + 1])
      BY <1>3, <3>1 DEF Stream
    <3>3. e[i + 1] = c[i + 1] /\ i + 1 \in 1..Len(e)
      <4> HIDE DEF k
      <4> QED
        BY <1>1, <3>2
    <3> QED
      BY <3>1, <3>2, <3>3
  <2>2. CASE i > k
    <3>1. PICK j \in 1..Len(d) : i = k + j
      <4> HIDE DEF k
      <4>1. i - k \in 1..Len(d) /\ i = k + (i - k)
        BY <1>1, <2>2
      <4> QED
        BY <4>1
    <3> HIDE DEF k
    <3>2. e[i] = d[j]
      BY <1>1, <3>1
    <3>3. j + 1 \in 1..Len(d) /\ Tagged(d[j], d[j + 1])
      BY <1>3, <3>2 DEF Stream
    <3> DEFINE next == j + 1
    <3>4. i + 1 = k + next /\ i + 1 \in 1..Len(e)
      BY <1>1, <3>1, <3>3
    <3>5. next \in 1..Len(d) /\ Tagged(d[j], d[next])
      BY <3>3
    <3> HIDE DEF next
    <3>6. e[k + next] = d[next]
      BY <1>1, <3>5
    <3> QED
      BY <3>2, <3>4, <3>5, <3>6
  <2>3. i <= k \/ i > k
    <3> HIDE DEF k
    <3> QED
      BY <1>1
  <2> QED
    BY <2>1, <2>2, <2>3
<1> QED
  BY <1>2, <1>3 DEF Stream, e

\* any number of them too,
LEMMA StreamFlat ==
  ASSUME NEW s, IsSeq(s), \A i \in DOMAIN s : Stream(s[i])
  PROVE  Stream(FlattenSeq(s))
<1> DEFINE N == Len(s)
<1>1. N \in Nat /\ DOMAIN s = 1..N
  BY SeqFacts
<1>2. \A i \in DOMAIN s : IsSeq(s[i])
  BY DEF Stream, Sized
<1>3. PICK f : /\ f[0] = <<>> /\ FlattenSeq(s) = f[N]
               /\ \A i \in 1..N : f[i] = f[i - 1] \o s[i]
  BY <1>2, FlattenSteps
<1> HIDE DEF N
<1> DEFINE good == {n \in Nat : n <= N => Stream(f[n])}
<1>4. 0 \in good
  BY <1>3, StreamNone
<1>5. ASSUME NEW n \in Nat, n \in good PROVE n + 1 \in good
  <2> SUFFICES ASSUME n + 1 <= N PROVE Stream(f[n + 1])
    OBVIOUS
  <2>1. n + 1 \in 1..N /\ (n + 1) - 1 = n /\ n <= N
    BY <1>1
  <2>2. Stream(f[n]) /\ Stream(s[n + 1])
    BY <1>1, <1>5, <2>1
  <2>3. f[n + 1] = f[n] \o s[n + 1]
    BY <1>3, <2>1
  <2> QED
    BY <2>2, <2>3, StreamConcat
<1> HIDE DEF good
<1>6. \A n \in Nat : n \in good
  BY <1>4, <1>5, NatSet
<1>7. Stream(f[N])
  BY <1>1, <1>6 DEF good
<1> QED
  BY <1>3, <1>7

\* what follows a cell of a stream is one,
LEMMA StreamSuffix ==
  ASSUME NEW c, Stream(c), NEW f \in 0..Len(c)
  PROVE  Stream(SubSeq(c, f + 1, Len(c)))
<1> DEFINE s == SubSeq(c, f + 1, Len(c))
<1>1. Len(c) \in Nat /\ IsSeq(c)
  BY SeqFacts DEF Stream, Sized
<1>2. IsSeq(s) /\ Len(s) = Len(c) - f /\ \A j \in 1..(Len(c) - f) : s[j] = c[f + j]
  BY <1>1, SuffixFacts
<1>3. Sized(s)
  BY SuffixSized DEF Stream
<1> HIDE DEF s
<1>4. ASSUME NEW i \in 1..Len(s), s[i].part = "tag"
      PROVE  i + 1 \in 1..Len(s) /\ Tagged(s[i], s[i + 1])
  <2>1. f + i \in 1..Len(c) /\ s[i] = c[f + i]
    BY <1>1, <1>2
  <2>2. (f + i) + 1 \in 1..Len(c) /\ Tagged(c[f + i], c[(f + i) + 1])
    BY <1>4, <2>1 DEF Stream
  <2>3. i + 1 \in 1..(Len(c) - f) /\ f + (i + 1) = (f + i) + 1
    BY <1>1, <1>2, <2>2
  <2>4. s[i + 1] = c[(f + i) + 1]
    BY <1>2, <2>3
  <2> QED
    BY <1>2, <2>1, <2>2, <2>3, <2>4
<1> QED
  BY <1>3, <1>4 DEF Stream, s

\* and so is what is left of a cell.
LEMMA StreamTorn == ASSUME NEW n \in Nat \ {0} PROVE Stream(TornCells(n))
<1>1. Sized(TornCells(n))
  BY TornSized
<1>2. Len(TornCells(n)) = 1 /\ TornCells(n)[1].part # "tag"
  <2>1. \A x : Len(<<x>>) = 1 /\ <<x>>[1] = x
    OBVIOUS
  <2> QED
    BY <2>1 DEF TornCells, Cell
<1>3. \A i \in 1..1 : i = 1
  OBVIOUS
<1> QED
  BY <1>1, <1>2, <1>3 DEF Stream

\* What is left of a stream of answers is one,
LEMMA CutStream ==
  ASSUME NEW c, Stream(c), NEW n \in Nat
  PROVE  Stream(Cut(c, n).tail)
<1>1. Sized(c) /\ Len(c) \in Nat /\ IsSeq(c)
  BY SeqFacts DEF Stream, Sized
<1>2. PICK f \in 0..Len(c) : Fitting(c, n, f) /\ Cut(c, n) = CutAfter(c, n, f)
  BY <1>1, CutFacts
<1> DEFINE whole == SubSeq(c, 1, f)
           room  == n - TotalSize(whole)
<1>3. CASE f = Len(c)
  BY <1>2, <1>3, StreamNone DEF CutAfter
<1>4. CASE f # Len(c) /\ room = 0
  <2>1. Cut(c, n).tail = SubSeq(c, f + 1, Len(c))
    BY <1>2, <1>4 DEF CutAfter
  <2> QED
    BY <2>1, StreamSuffix
<1>5. CASE f # Len(c) /\ room # 0
  <2> DEFINE next == c[f + 1].size - room
  <2>1. Cut(c, n).tail = TornCells(next) \o SubSeq(c, f + 2, Len(c))
    <3>1. f # Len(c) /\ ~ (n - TotalSize(SubSeq(c, 1, f)) = 0)
      BY <1>5
    <3>2. CutAfter(c, n, f).tail =
            TornCells(c[f + 1].size - (n - TotalSize(SubSeq(c, 1, f)))) \o SubSeq(c, f + 2, Len(c))
      BY <3>1 DEF CutAfter
    <3> QED
      BY <1>2, <3>2
  <2>2. next \in Nat \ {0}
    <3>1. PICK v : /\ \A i \in 1..Len(c) : v[i] = v[i - 1] + c[i].size
                   /\ \A i \in 0..Len(c) : v[i] \in Nat /\ TotalSize(SubSeq(c, 1, i)) = v[i]
      BY <1>1, Totals
    <3>2. f + 1 \in 1..Len(c) /\ (f + 1) - 1 = f /\ f + 1 \in 0..Len(c) /\ f \in 0..Len(c)
      BY <1>1, <1>5
    <3>3. v[f + 1] = v[f] + c[f + 1].size /\ v[f] \in Nat /\ v[f] = TotalSize(whole)
          /\ v[f + 1] = TotalSize(SubSeq(c, 1, f + 1))
      BY <3>1, <3>2
    <3>4. c[f + 1].size \in Nat \ {0}
      BY <1>1, <3>2 DEF Sized
    <3>5. v[f + 1] > n
      BY <1>2, <1>5, <3>3 DEF Fitting
    <3> DEFINE before == v[f]
               size   == c[f + 1].size
    <3>6. before \in Nat /\ size \in Nat /\ before + size > n /\ next = size - (n - before)
      BY <3>3, <3>4, <3>5
    <3> HIDE DEF before, size, next
    <3> QED
      BY <3>6
  <2>3. Stream(SubSeq(c, f + 2, Len(c)))
    <3>1. f + 1 \in 0..Len(c) /\ (f + 1) + 1 = f + 2
      BY <1>1, <1>5
    <3>2. Stream(SubSeq(c, (f + 1) + 1, Len(c)))
      BY <3>1, StreamSuffix
    <3> QED
      BY <3>1, <3>2
  <2> HIDE DEF next
  <2> QED
    BY <2>1, <2>2, <2>3, StreamTorn, StreamConcat
<1> QED
  BY <1>3, <1>4, <1>5

\* and what is taken from one is read as a message of any class, if it parses.
LEMMA StreamParses ==
  ASSUME NEW fields, Class(fields), Scalars(fields), NEW c, Stream(c), NEW n \in Nat,
         Whole(Cut(c, n).head)
  PROVE  Parse(fields, Cut(c, n).head) \in Messages(fields)
<1>1. Sized(c) /\ Follows(fields, c) /\ TotalSize(c) \in Nat
  BY StreamFollows, TotalConcat
<1>2. CASE n <= TotalSize(c)
  BY <1>1, <1>2, HeadParses
<1>3. CASE ~ (n <= TotalSize(c))
  <2> DEFINE m == TotalSize(c)
  <2>1. m \in Nat /\ m <= n /\ m <= TotalSize(c)
    BY <1>1, <1>3
  <2>2. Cut(c, n) = Cut(c, m)
    BY <1>1, <2>1, CutShort
  <2> HIDE DEF m
  <2> QED
    BY <1>1, <2>1, <2>2, HeadParses
<1> QED
  BY <1>2, <1>3

\* An answer is a stream of answers.
LEMMA AnswerStream ==
  ASSUME NEW fields, Class(fields), Scalars(fields), NEW m \in Messages(fields)
  PROVE  Stream(Serialize(fields, m))
<1> DEFINE N == Len(fields)
           Cells(i) == ScalarCells(i, fields[i].kind, m[fields[i].name])
           s == [i \in 1..N |-> Cells(i)]
<1>1. N \in Nat /\ DOMAIN fields = 1..N
  BY SeqFacts DEF Class
<1>2. ASSUME NEW i \in 1..N PROVE Stream(Cells(i))
  <2> DEFINE kind == fields[i].kind
             v == m[fields[i].name]
  <2>1. kind \in Kinds \ {"entries"} /\ v \in TypeOf(kind)
    BY <1>1, MessageFacts DEF Class, Scalars
  <2>2. CASE v = Default(kind)
    BY <2>2, StreamNone DEF ScalarCells
  <2>3. CASE v # Default(kind)
    <3> DEFINE a == TagCell(i, kind)
               b == ValueCell(kind, v)
               c == <<a, b>>
    <3>1. Cells(i) = c
      BY <2>3 DEF ScalarCells
    <3>2. a.size \in Nat \ {0} /\ b.size \in Nat \ {0}
      <4>1. TagCell(i, kind).size = 1 /\ ValueCell(kind, v).size \in Nat \ {0}
        <5> HIDE DEF kind, v
        <5> QED
          BY <2>1, <2>3, ScalarSized
      <4> QED
        BY <4>1
    <3>3. Tagged(a, b) /\ b.part # "tag"
      <4>1. a.value[1] = i /\ a.value[2] = WireType(kind) /\ i \in Nat \ {0}
        BY DEF TagCell, Cell
      <4>2. CASE WireType(kind) = "varint"
        <5>1. b.part = "varint" /\ b.value = Varint(kind, v)
          BY <4>2 DEF ValueCell, Cell
        <5>2. Varint(kind, v) \in Int
          <6>1. kind = "bool" => Varint(kind, v) \in {0, 1}
            BY DEF Varint
          <6>2. kind # "bool" => kind = "int32" /\ Varint(kind, v) = v
            BY <2>1, <4>2 DEF Varint, WireType
          <6>3. kind = "int32" => v \in Int
            BY <2>1, KindTypes
          <6> QED
            BY <6>1, <6>2, <6>3
        <5> HIDE DEF a, b
        <5> QED
          BY <4>1, <4>2, <5>1, <5>2 DEF Tagged
      <4>3. CASE WireType(kind) # "varint"
        <5>1. b.part = "len" /\ b.value = v /\ WireType(kind) = "len"
          BY <4>3 DEF ValueCell, Cell, WireType
        <5>2. kind = "bytes"
          BY <2>1, <4>3 DEF WireType, Kinds
        <5>3. v \in Seq(STRING)
          BY <2>1, <5>2, KindTypes
        <5> HIDE DEF a, b
        <5> QED
          BY <4>1, <5>1, <5>3 DEF Tagged
      <4> QED
        BY <4>2, <4>3
    <3> HIDE DEF a, b
    <3>4. IsSeq(c) /\ Len(c) = 2 /\ c[1] = a /\ c[2] = b
      BY TupleIsSeq
    <3> HIDE DEF c
    <3>5. \A j \in 1..2 : j = 1 \/ j = 2
      OBVIOUS
    <3>6. Stream(c)
      BY <3>2, <3>3, <3>4, <3>5 DEF Stream, Sized
    <3> QED
      BY <3>1, <3>6
  <2> QED
    BY <2>2, <2>3
<1>3. Serialize(fields, m) = FlattenSeq(s)
  <2>1. [i \in DOMAIN fields |->
           LET v == m[fields[i].name]
           IN  IF fields[i].kind = "entries" THEN EntriesCells(i, v)
               ELSE ScalarCells(i, fields[i].kind, v)] = s
    BY <1>1 DEF Scalars
  <2> QED
    BY <2>1 DEF Serialize
<1>4. IsSeq(s) /\ Len(s) = N /\ DOMAIN s = 1..N /\ \A i \in 1..N : s[i] = Cells(i)
  BY <1>1, SeqOfFunction
<1> HIDE DEF s, N, Cells
<1>5. \A i \in DOMAIN s : Stream(s[i])
  BY <1>2, <1>4
<1> QED
  BY <1>3, <1>4, <1>5, StreamFlat

\* Several streams written one after the other begin with the first.
LEMMA FlattenBegins ==
  ASSUME NEW s, IsSeq(s), Len(s) >= 1, \A i \in DOMAIN s : Sized(s[i])
  PROVE  \E rest : Sized(rest) /\ FlattenSeq(s) = s[1] \o rest
<1> DEFINE N == Len(s)
<1>1. N \in Nat /\ DOMAIN s = 1..N /\ N >= 1
  BY SeqFacts
<1>2. \A i \in DOMAIN s : IsSeq(s[i])
  BY DEF Sized
<1>3. PICK f : /\ f[0] = <<>> /\ FlattenSeq(s) = f[N]
               /\ \A i \in 1..N : f[i] = f[i - 1] \o s[i]
  BY <1>2, FlattenSteps
<1> HIDE DEF N
<1> DEFINE Begins(x) == \E rest : Sized(rest) /\ x = s[1] \o rest
           good == {n \in Nat : n + 1 <= N => Begins(f[n + 1])}
<1>4. 0 \in good
  <2>1. 1 \in 1..N /\ 1 - 1 = 0
    BY <1>1
  <2>2. f[1] = <<>> \o s[1] /\ IsSeq(s[1])
    BY <1>1, <1>2, <1>3, <2>1
  <2>3. f[1] = s[1] \o <<>>
    BY <2>2, ConcatNone
  <2>4. Sized(<<>>)
    BY TupleIsSeq DEF Sized
  <2>5. Begins(f[1])
    BY <2>3, <2>4
  <2> HIDE DEF Begins
  <2> QED
    BY <2>5
<1>5. ASSUME NEW n \in Nat, n \in good PROVE n + 1 \in good
  <2> SUFFICES ASSUME (n + 1) + 1 <= N PROVE Begins(f[(n + 1) + 1])
    OBVIOUS
  <2> DEFINE m == (n + 1) + 1
  <2>1. m \in 1..N /\ m - 1 = n + 1 /\ n + 1 <= N
    BY <1>1
  <2>2. Begins(f[n + 1])
    <3> HIDE DEF Begins
    <3> QED
      BY <1>5, <2>1
  <2>3. PICK rest : Sized(rest) /\ f[n + 1] = s[1] \o rest
    BY <2>2
  <2>4. f[m] = (s[1] \o rest) \o s[m] /\ Sized(s[m]) /\ IsSeq(s[1])
    <3>1. 1 \in DOMAIN s /\ m \in DOMAIN s
      BY <1>1, <2>1
    <3> HIDE DEF m
    <3> QED
      BY <1>2, <1>3, <2>1, <2>3, <3>1
  <2> HIDE DEF m
  <2>5. f[m] = s[1] \o (rest \o s[m])
    <3> DEFINE first == s[1]
               next  == s[m]
    <3>1. IsSeq(first) /\ IsSeq(next) /\ IsSeq(rest)
      BY <2>3, <2>4 DEF Sized
    <3>2. f[m] = (first \o rest) \o next
      BY <2>4
    <3> HIDE DEF first, next
    <3>3. Then(Then(first, rest), next) = Then(first, Then(rest, next))
      BY <3>1, ThenAssoc
    <3>4. (first \o rest) \o next = first \o (rest \o next)
      BY <3>3 DEF Then
    <3>5. f[m] = first \o (rest \o next)
      BY <3>2, <3>4, Zenon
    <3> QED
      BY <3>5 DEF first, next
  <2>6. Sized(rest \o s[m])
    BY <2>3, <2>4, SizedConcat
  <2>7. Begins(f[m])
    BY <2>5, <2>6
  <2> QED
    BY <2>7 DEF m
<1> HIDE DEF good, Begins
<1>6. \A n \in Nat : n \in good
  BY <1>4, <1>5, NatSet
<1>7. N - 1 \in Nat /\ (N - 1) + 1 = N /\ (N - 1) + 1 <= N
  BY <1>1
<1>8. Begins(f[N])
  <2> DEFINE n == N - 1
  <2>1. n \in Nat /\ n + 1 = N /\ n + 1 <= N
    BY <1>7
  <2> HIDE DEF n
  <2>2. n \in good
    BY <1>6, <2>1
  <2>3. Begins(f[n + 1])
    BY <2>1, <2>2 DEF good
  <2> QED
    BY <2>1, <2>3
<1> QED
  BY <1>3, <1>8 DEF Begins

\* Answers on a connection, one after the other.
Streams(q) == IsSeq(q) /\ \A i \in 1..Len(q) : Stream(q[i])

\* A queue of streams stays one when a stream is put behind it,
LEMMA StreamsFacts ==
  /\ Streams(<<>>)
  /\ \A c : Stream(c) => Streams(<<c>>)
  /\ \A q, r : Streams(q) /\ Streams(r) => Streams(q \o r)
<1>1. Streams(<<>>)
  <2>1. IsSeq(<<>>) /\ Len(<<>>) = 0
    BY TupleIsSeq
  <2> QED
    BY <2>1 DEF Streams
<1>2. ASSUME NEW c, Stream(c) PROVE Streams(<<c>>)
  <2> DEFINE q == <<c>>
  <2>1. IsSeq(q) /\ Len(q) = 1 /\ q[1] = c
    BY TupleIsSeq
  <2>2. \A i \in 1..1 : i = 1
    OBVIOUS
  <2> HIDE DEF q
  <2>3. Streams(q)
    BY <1>2, <2>1, <2>2 DEF Streams
  <2> QED
    BY <2>3 DEF q
<1>3. ASSUME NEW q, NEW r, Streams(q), Streams(r) PROVE Streams(q \o r)
  <2> DEFINE s == q \o r
             k == Len(q)
  <2>1. IsSeq(q) /\ IsSeq(r)
    BY <1>3 DEF Streams
  <2>2. /\ IsSeq(s) /\ Len(s) = k + Len(r) /\ k \in Nat /\ Len(r) \in Nat
        /\ \A i \in 1..k : s[i] = q[i]
        /\ \A i \in 1..Len(r) : s[k + i] = r[i]
    BY <2>1, ConcatSeq
  <2> HIDE DEF s
  <2>3. ASSUME NEW i \in 1..Len(s) PROVE Stream(s[i])
    <3>1. CASE i <= k
      <4>1. i \in 1..k
        BY <2>2, <3>1
      <4> QED
        BY <1>3, <2>2, <4>1 DEF Streams
    <3>2. CASE ~ (i <= k)
      <4> HIDE DEF k
      <4>1. i - k \in 1..Len(r) /\ k + (i - k) = i
        BY <2>2, <3>2
      <4>2. s[i] = r[i - k]
        BY <2>2, <4>1
      <4> QED
        BY <1>3, <4>1, <4>2 DEF Streams
    <3> QED
      BY <3>1, <3>2
  <2> QED
    BY <2>2, <2>3 DEF Streams, s
<1> QED
  BY <1>1, <1>2, <1>3

\* and when some are taken from it.
LEMMA StreamsParts ==
  ASSUME NEW q, Streams(q), NEW k \in 0..Len(q)
  PROVE  Streams(SubSeq(q, 1, k)) /\ Streams(SubSeq(q, k + 1, Len(q)))
<1> DEFINE p == SubSeq(q, 1, k)
           s == SubSeq(q, k + 1, Len(q))
<1>1. IsSeq(q) /\ Len(q) \in Nat
  BY SeqFacts DEF Streams
<1>2. IsSeq(p) /\ Len(p) = k /\ \A j \in 1..k : p[j] = q[j]
  BY <1>1, PrefixFacts
<1>3. IsSeq(s) /\ Len(s) = Len(q) - k /\ \A j \in 1..(Len(q) - k) : s[j] = q[k + j]
  BY <1>1, SuffixFacts
<1>4. (\A j \in 1..k : j \in 1..Len(q)) /\ \A j \in 1..(Len(q) - k) : k + j \in 1..Len(q)
  BY <1>1
<1> HIDE DEF p, s
<1>5. Streams(p)
  BY <1>2, <1>4 DEF Streams
<1>6. Streams(s)
  BY <1>3, <1>4 DEF Streams
<1> QED
  BY <1>5, <1>6 DEF p, s

=============================================================================
