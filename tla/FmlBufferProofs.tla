--------------------------- MODULE FmlBufferProofs --------------------------
(***************************************************************************)
(* Proofs about FmlBuffer, for any objects, fields, sizes and blocks.      *)
(***************************************************************************)
EXTENDS FmlBuffer, FiniteSetTheorems, SequenceTheorems, TLAPS

Values == Fields \cup {Null}
Data == Seq(Values)

-----------------------------------------------------------------------------
(* Space: what a change of the values does to the memory they need *)

\* The values of a sequence need finitely many units each, and those of one value
\* are not those of another.
LEMMA UnitsOf ==
  ASSUME NEW d \in Data
  PROVE  /\ IsFiniteSet(Units(d)) /\ Cardinality(Units(d)) \in Nat
         /\ \A x : x \in Units(d) <=>
              \E i \in 1..Len(d), n \in Int : n \in 1..Needed[d[i]] /\ x = <<i, n>>
<1>1. Len(d) \in Nat /\ \A i \in 1..Len(d) : d[i] \in Values
  BY LenProperties, ElementOfSeq DEF Data
<1>2. \A x : x \in Units(d) <=>
        \E i \in 1..Len(d), n \in Int : n \in 1..Needed[d[i]] /\ x = <<i, n>>
  BY DEF Units
<1>3. Units(d) \subseteq (1..Len(d)) \X (1..MaxSize)
  <2> SUFFICES ASSUME NEW i \in 1..Len(d), NEW n \in 1..Needed[d[i]]
               PROVE  n \in 1..MaxSize
    BY <1>2
  <2> QED  BY <1>1, SizesAssumption DEF Values
<1>4. IsFiniteSet((1..Len(d)) \X (1..MaxSize))
  <2>1. IsFiniteSet(1..Len(d)) /\ IsFiniteSet(1..MaxSize)
    BY <1>1, SizesAssumption, FS_Interval
  <2> QED  BY <2>1, FS_Product
<1>5. IsFiniteSet(Units(d)) /\ Cardinality(Units(d)) \in Nat
  BY <1>3, <1>4, FS_Subset, FS_CardinalityType
<1> QED  BY <1>2, <1>5

\* A buffer without values uses its header; any other at least that.
LEMMA UsedType ==
  /\ <<>> \in Data /\ Used(<<>>) = Header
  /\ \A d \in Data : Used(d) \in Nat /\ Used(d) >= Header
<1>1. <<>> \in Data /\ Len(<<>>) = 0
  BY EmptySeq DEF Data
<1>2. Units(<<>>) = {}
  BY <1>1, UnitsOf
<1>3. ASSUME NEW d \in Data
      PROVE  Used(d) \in Nat /\ Used(d) >= Header
  BY UnitsOf DEF Used, Header
<1> QED  BY <1>1, <1>2, <1>3, FS_EmptySet DEF Used, Header

\* Fadd32 takes what Fneeded32 said.
LEMMA UsedAppend ==
  ASSUME NEW d \in Data, NEW v \in Values
  PROVE  Append(d, v) \in Data /\ Used(Append(d, v)) = Used(d) + Needed[v]
<1> DEFINE e == Append(d, v)
           last == {Len(d) + 1} \X (1..Needed[v])
<1>1. /\ e \in Data /\ Len(e) = Len(d) + 1 /\ Len(d) \in Nat
      /\ \A i \in 1..Len(d) : e[i] = d[i]
      /\ e[Len(d) + 1] = v
  BY AppendProperties, LenProperties DEF Data
<1>2. /\ Needed[v] \in Nat
      /\ \A x : x \in Units(e) <=>
           \E i \in 1..Len(e), n \in Int : n \in 1..Needed[e[i]] /\ x = <<i, n>>
  BY <1>1, UnitsOf, SizesAssumption DEF Values
<1>3. Units(e) = Units(d) \cup last
  <2>1. ASSUME NEW x \in Units(e) PROVE x \in Units(d) \cup last
    <3>1. PICK i \in 1..Len(e), n \in Int : n \in 1..Needed[e[i]] /\ x = <<i, n>>
      BY <1>2, <2>1
    <3>2. CASE i = Len(d) + 1
      BY <1>1, <3>1, <3>2
    <3>3. CASE i # Len(d) + 1
      <4>1. i \in 1..Len(d) /\ n \in 1..Needed[d[i]]
        BY <1>1, <3>1, <3>3
      <4> QED  BY <3>1, <4>1, UnitsOf
    <3> QED  BY <3>2, <3>3
  <2>2. ASSUME NEW x \in Units(d) PROVE x \in Units(e)
    <3>1. PICK i \in 1..Len(d), n \in Int : n \in 1..Needed[d[i]] /\ x = <<i, n>>
      BY <2>2, UnitsOf
    <3>2. i \in 1..Len(e) /\ n \in 1..Needed[e[i]]
      BY <1>1, <3>1
    <3> QED  BY <1>2, <3>1, <3>2
  <2>3. ASSUME NEW x \in last PROVE x \in Units(e)
    <3>1. PICK n \in 1..Needed[v] : x = <<Len(d) + 1, n>>
      BY <2>3
    <3>2. Len(d) + 1 \in 1..Len(e) /\ n \in 1..Needed[e[Len(d) + 1]]
      BY <1>1, <3>1
    <3> QED  BY <1>2, <3>1, <3>2
  <2> QED  BY <2>1, <2>2, <2>3
<1>4. Units(d) \cap last = {}
  <2> SUFFICES ASSUME NEW x \in Units(d), x \in last PROVE FALSE
    OBVIOUS
  <2>1. PICK i \in 1..Len(d), n \in Int : n \in 1..Needed[d[i]] /\ x = <<i, n>>
    BY UnitsOf
  <2> QED  BY <1>1, <2>1
<1>5. IsFiniteSet(last) /\ Cardinality(last) = Needed[v]
  <2>1. IsFiniteSet(1..Needed[v]) /\ Cardinality(1..Needed[v]) = Needed[v]
    BY <1>2, FS_Interval, SizesAssumption DEF Values
  <2> DEFINE S == {Len(d) + 1}
             T == 1..Needed[v]
  <2>2. IsFiniteSet(S) /\ Cardinality(S) = 1
    BY FS_Singleton
  <2> HIDE DEF S, T
  <2>3. IsFiniteSet(S \X T) /\ Cardinality(S \X T) = 1 * Needed[v]
    BY <2>1, <2>2, FS_Product DEF T
  <2> QED  BY <1>2, <2>3 DEF S, T
<1>6. Cardinality(Units(e)) = Cardinality(Units(d)) + Needed[v]
  <2>1. Cardinality(Units(d) \cup last) =
          Cardinality(Units(d)) + Cardinality(last) - Cardinality(Units(d) \cap last)
    BY <1>5, UnitsOf, FS_Union
  <2>2. Cardinality(Units(d) \cap last) = 0
    BY <1>4, FS_EmptySet
  <2>3. Cardinality(Units(d)) \in Nat
    BY UnitsOf
  <2> HIDE DEF last
  <2> QED  BY <1>2, <1>3, <1>5, <2>1, <2>2, <2>3
<1>7. Cardinality(Units(d)) \in Nat
  BY UnitsOf
<1> QED  BY <1>1, <1>2, <1>6, <1>7 DEF Used, Header

\* Fdel32: the values after the occurrence move up.
LEMMA Removed ==
  ASSUME NEW d \in Data, NEW i \in 1..Len(d)
  PROVE  /\ RemoveAt(d, i) \in Data
         /\ Len(RemoveAt(d, i)) = Len(d) - 1
         /\ \A j \in 1..(Len(d) - 1) :
              RemoveAt(d, i)[j] = IF j < i THEN d[j] ELSE d[j + 1]
<1> DEFINE s == SubSeq(d, 1, i - 1)
           t == SubSeq(d, i + 1, Len(d))
<1>1. Len(d) \in Nat /\ i \in Nat /\ \A j \in 1..Len(d) : d[j] \in Values
  BY LenProperties, ElementOfSeq DEF Data
<1>2. s \in Data /\ Len(s) = i - 1 /\ \A j \in 1..(i - 1) : s[j] = d[j]
  <2>1. \A j \in 1..(i - 1) : d[j] \in Values
    BY <1>1
  <2>2. /\ s \in Seq(Values)
        /\ Len(s) = IF 1 <= i - 1 THEN i - 1 - 1 + 1 ELSE 0
        /\ \A j \in 1..(i - 1 - 1 + 1) : s[j] = d[1 + j - 1]
    BY <1>1, <2>1, SubSeqProperties
  <2> HIDE DEF s
  <2> QED  BY <1>1, <2>2 DEF Data
<1>3. t \in Data /\ Len(t) = Len(d) - i /\ \A j \in 1..(Len(d) - i) : t[j] = d[i + j]
  <2>1. \A j \in (i + 1)..Len(d) : d[j] \in Values
    BY <1>1
  <2>2. /\ t \in Seq(Values)
        /\ Len(t) = IF i + 1 <= Len(d) THEN Len(d) - (i + 1) + 1 ELSE 0
        /\ \A j \in 1..(Len(d) - (i + 1) + 1) : t[j] = d[i + 1 + j - 1]
    BY <1>1, <2>1, SubSeqProperties
  <2> HIDE DEF t
  <2> QED  BY <1>1, <2>2 DEF Data
<1>4. RemoveAt(d, i) = s \o t
  BY DEF RemoveAt
<1> HIDE DEF s, t
<1>5. /\ s \o t \in Data /\ Len(s \o t) = Len(s) + Len(t)
      /\ \A j \in 1..(Len(s) + Len(t)) :
           (s \o t)[j] = IF j <= Len(s) THEN s[j] ELSE t[j - Len(s)]
  BY <1>2, <1>3, ConcatProperties DEF Data
<1> QED  BY <1>1, <1>2, <1>3, <1>4, <1>5

\* It takes no more memory than before.
LEMMA UsedRemoved ==
  ASSUME NEW d \in Data, NEW i \in 1..Len(d)
  PROVE  Used(RemoveAt(d, i)) <= Used(d)
<1>1. PICK e : e = RemoveAt(d, i)
  OBVIOUS
<1>2. /\ e \in Data /\ Len(e) = Len(d) - 1 /\ Len(d) \in Nat /\ i \in Nat
      /\ \A j \in 1..(Len(d) - 1) : e[j] = IF j < i THEN d[j] ELSE d[j + 1]
  BY <1>1, Removed, LenProperties DEF Data
<1> DEFINE from(j) == IF j < i THEN j ELSE j + 1
           move == [x \in Units(e) |-> <<from(x[1]), x[2]>>]
<1>3. ASSUME NEW x \in Units(e)
      PROVE  /\ move[x] = <<from(x[1]), x[2]>> /\ move[x] \in Units(d)
             /\ x[1] \in Nat /\ x = <<x[1], x[2]>>
  <2>1. PICK j \in 1..Len(e), n \in Int : n \in 1..Needed[e[j]] /\ x = <<j, n>>
    BY <1>2, UnitsOf
  <2>2. from(j) \in 1..Len(d) /\ e[j] = d[from(j)]
    BY <1>2, <2>1
  <2>3. x[1] = j /\ x[2] = n /\ move[x] = <<from(j), n>>
    BY <2>1
  <2>4. <<from(j), n>> \in Units(d)
    <3>1. n \in 1..Needed[d[from(j)]]
      BY <2>1, <2>2
    <3> HIDE DEF from
    <3> QED  BY <2>2, <3>1, UnitsOf
  <2>5. j \in Nat
    BY <1>2, <2>1
  <2> HIDE DEF from, move
  <2> QED  BY <2>1, <2>3, <2>4, <2>5
<1>4. move \in Injection(Units(e), Units(d))
  <2>1. move \in [Units(e) -> Units(d)]
    BY <1>3
  <2>2. ASSUME NEW x \in Units(e), NEW y \in Units(e), move[x] = move[y]
        PROVE  x = y
    <3>1. from(x[1]) = from(y[1]) /\ x[2] = y[2]
      BY <1>3, <2>2
    <3>2. PICK k \in Nat, m \in Nat : k = x[1] /\ m = y[1]
      BY <1>3
    <3>3. k = m
      <4>1. from(k) = from(m)
        BY <3>1, <3>2
      <4> QED  BY <1>2, <4>1
    <3>4. x[1] = y[1]
      BY <3>2, <3>3
    <3> HIDE DEF move
    <3> QED  BY <1>3, <3>1, <3>4
  <2> HIDE DEF move
  <2> QED  BY <2>1, <2>2 DEF Injection, IsInjective
<1>5. Cardinality(Units(e)) <= Cardinality(Units(d))
  BY <1>4, UnitsOf, FS_Injection
<1>6. Cardinality(Units(e)) \in Nat /\ Cardinality(Units(d)) \in Nat
  BY <1>2, UnitsOf
<1> QED  BY <1>1, <1>5, <1>6 DEF Used, Header

\* Fchg32 puts the value where it was told and leaves the others alone.
LEMMA ChangedData ==
  ASSUME NEW d \in Data, NEW occ \in Nat, NEW v \in Values
  PROVE  /\ Changed(d, occ, v) \in Data
         /\ occ < Len(Changed(d, occ, v)) /\ Changed(d, occ, v)[occ + 1] = v
         /\ Len(d) <= Len(Changed(d, occ, v))
         /\ \A j \in 1..Len(d) : j # occ + 1 => Changed(d, occ, v)[j] = d[j]
<1>1. Len(d) \in Nat
  BY LenProperties DEF Data
<1>2. CASE occ < Len(d)
  <2>1. Changed(d, occ, v) = [d EXCEPT ![occ + 1] = v]
    BY <1>2 DEF Changed, ReplaceAt
  <2>2. occ + 1 \in 1..Len(d)
    BY <1>1, <1>2
  <2> QED  BY <1>1, <1>2, <2>1, <2>2, ExceptSeq DEF Data
<1>3. CASE ~(occ < Len(d))
  <2> DEFINE n == occ - Len(d)
             nulls == [i \in 1..n |-> Null]
  <2>1. n \in Nat
    BY <1>1, <1>3
  <2>2. nulls \in Data /\ Len(nulls) = n
    <3>1. nulls \in [1..n -> Values]
      BY DEF Values
    <3>2. nulls \in Seq(Values)
      BY <2>1, <3>1, SeqDef
    <3>3. DOMAIN nulls = 1..Len(nulls) /\ Len(nulls) \in Nat
      BY <3>2, LenProperties
    <3>4. DOMAIN nulls = 1..n
      OBVIOUS
    <3> HIDE DEF nulls, n
    <3>5. Len(nulls) = n
      <4>1. PICK m \in Nat : m = Len(nulls)
        BY <3>3
      <4>2. 1..m = 1..n
        BY <3>3, <3>4, <4>1
      <4>3. m \in 1..m => m \in 1..n
        BY <4>2
      <4>4. n \in 1..n => n \in 1..m
        BY <4>2
      <4> QED  BY <2>1, <4>1, <4>3, <4>4
    <3> QED  BY <3>2, <3>5 DEF Data
  <2>3. <<v>> \in Data /\ Len(<<v>>) = 1 /\ <<v>>[1] = v
    BY DEF Data
  <2>4. Changed(d, occ, v) = (d \o nulls) \o <<v>>
    BY <1>3 DEF Changed
  <2> HIDE DEF nulls
  <2>5. /\ d \o nulls \in Data /\ Len(d \o nulls) = occ
        /\ \A j \in 1..Len(d) : (d \o nulls)[j] = d[j]
    <3>1. /\ d \o nulls \in Seq(Values) /\ Len(d \o nulls) = Len(d) + Len(nulls)
          /\ \A j \in 1..(Len(d) + Len(nulls)) :
               (d \o nulls)[j] = IF j <= Len(d) THEN d[j] ELSE nulls[j - Len(d)]
      BY <2>2, ConcatProperties DEF Data
    <3> QED  BY <1>1, <2>1, <2>2, <3>1 DEF Data
  <2> DEFINE w == d \o nulls
  <2>6. /\ w \o <<v>> \in Seq(Values) /\ Len(w \o <<v>>) = Len(w) + 1
        /\ \A j \in 1..(Len(w) + 1) :
             (w \o <<v>>)[j] = IF j <= Len(w) THEN w[j] ELSE <<v>>[j - Len(w)]
    <3>1. PICK u : u = <<v>>
      OBVIOUS
    <3>2. u \in Seq(Values) /\ w \in Seq(Values) /\ Len(u) = 1
      BY <2>3, <2>5, <3>1 DEF Data
    <3> HIDE DEF w
    <3>3. /\ w \o u \in Seq(Values) /\ Len(w \o u) = Len(w) + Len(u)
          /\ \A j \in 1..(Len(w) + Len(u)) :
               (w \o u)[j] = IF j <= Len(w) THEN w[j] ELSE u[j - Len(w)]
      BY <3>2, ConcatProperties
    <3> QED  BY <3>1, <3>2, <3>3
  <2>7. \A j \in 1..Len(d) : w[j] = d[j]
    BY <2>5
  <2>8. w \in Data /\ Len(w) = occ
    BY <2>5
  <2> HIDE DEF w
  <2>9. Changed(d, occ, v) = w \o <<v>>
    BY <2>4 DEF w
  <2> QED  BY <1>1, <1>3, <2>3, <2>6, <2>7, <2>8, <2>9 DEF Data
<1> QED  BY <1>2, <1>3

-----------------------------------------------------------------------------
(* The invariant *)

Records == [type : {"none", "fml", "other"}, size : 0..MaxSize, data : Data]

HeapOK ==
  /\ heap \in [Blocks -> Records]
  /\ \A k \in Blocks : heap[k].type # "none" => Used(heap[k].data) <= heap[k].size

ObjectsOK ==
  /\ alive \subseteq Buffers /\ owns \subseteq alive
  /\ ptr \in [Buffers -> Blocks \cup {0}]
  /\ \A b \in Buffers : b \in alive <=> ptr[b] # 0
  /\ extent \in [Buffers -> Int]
  /\ occurrence \in [Fields -> Nat]
  /\ home \in [Fields -> alive \cup {None}]
  /\ orphaned \subseteq Blocks /\ doubled \subseteq Blocks
  /\ tuned \subseteq alive

\* A block has an owner unless it was taken from it, and an owner's block is there,
\* for it alone, unless it was given to another.
Owned ==
  /\ \A k \in Blocks : Lives(k) /\ k \notin orphaned => \E b \in owns : ptr[b] = k
  /\ \A b \in owns : ptr[b] \notin doubled =>
       /\ Lives(ptr[b])
       /\ \A c \in owns : ptr[c] = ptr[b] => c = b

\* The extent of an object is the default or more: one extend makes room for any value
\* that the default has room for.
ExtentKept == \A b \in alive \ tuned : extent[b] >= Default

\* The value an occurrence is right about is there.
Holds(data, occ, f) == occ < Len(data) /\ data[occ + 1] = f
Held ==
  \A f \in Fields, c \in alive :
    home[f] = c /\ Block(c).type = "fml" => Holds(Block(c).data, occurrence[f], f)

IInv ==
  /\ HeapOK /\ ObjectsOK /\ Owned
  /\ Held /\ ExtentKept /\ OneExtendEnough

\* The invariant gives what the run checks.
LEMMA Gives == IInv => TypeOK /\ FreedOnce /\ OccurrenceHeld
<1> SUFFICES ASSUME IInv PROVE TypeOK /\ FreedOnce /\ OccurrenceHeld
  OBVIOUS
<1>1. TypeOK
  BY DEF IInv, TypeOK, HeapOK, ObjectsOK, OneExtendEnough, Records, Data, Values
<1>2. ASSUME NEW k \in Blocks, Lives(k), k \notin orphaned
      PROVE  OwnersOf(k) # {}
  BY <1>2 DEF IInv, Owned, OwnersOf
<1>3. ASSUME NEW b \in owns, ptr[b] \notin doubled
      PROVE  Lives(ptr[b]) /\ OwnersOf(ptr[b]) = {b}
  BY <1>3 DEF IInv, Owned, OwnersOf
<1>4. OccurrenceHeld
  BY DEF OccurrenceHeld, IInv, Held, Holds, Valid
<1> QED  BY <1>1, <1>2, <1>3, <1>4 DEF FreedOnce

-----------------------------------------------------------------------------
(* Memory *)

\* A fresh block is free and nothing points to it.
LEMMA FreshBlock ==
  ASSUME NEW k \in Fresh
  PROVE  k \in Blocks /\ ~Lives(k) /\ \A b \in alive : ptr[b] # k
BY DEF Fresh, Spare

\* tprealloc or an answer: b's block stays or moves to a fresh one, no other block
\* changes.
LEMMA PlaceGives ==
  ASSUME HeapOK, ObjectsOK, NEW b \in alive, NEW k \in Places(b),
         NEW type \in {"fml", "other"}, NEW size \in 0..MaxSize, NEW data \in Data,
         Used(data) <= size, Place(b, k, type, size, data)
  PROVE  /\ HeapOK'
         /\ k \in Blocks /\ ptr[b] \in Blocks
         /\ heap'[k] = [type |-> type, size |-> size, data |-> data]
         /\ k # ptr[b] => /\ heap'[ptr[b]] = Dead
                          /\ ~Lives(k) /\ \A c \in alive : ptr[c] # k
         /\ \A j \in Blocks \ {k, ptr[b]} : heap'[j] = heap[j]
<1>1. ptr[b] \in Blocks
  BY DEF ObjectsOK
<1>2. k \in Blocks /\ (k # ptr[b] => ~Lives(k) /\ \A c \in alive : ptr[c] # k)
  BY <1>1, FreshBlock DEF Places
<1>3. PICK rec : rec = [type |-> type, size |-> size, data |-> data]
  OBVIOUS
<1>4. /\ rec \in Records /\ rec.data = data /\ rec.size = size
  BY <1>3 DEF Records
<1>5. Dead \in Records /\ Dead.type = "none"
  BY UsedType, SizesAssumption DEF Records, Dead
<1>6. heap' = [heap EXCEPT ![ptr[b]] = Dead, ![k] = rec]
  BY <1>3 DEF Place
<1>7. /\ heap' \in [Blocks -> Records] /\ heap'[k] = rec
      /\ k # ptr[b] => heap'[ptr[b]] = Dead
      /\ \A j \in Blocks \ {k, ptr[b]} : heap'[j] = heap[j]
  BY <1>1, <1>2, <1>4, <1>5, <1>6 DEF HeapOK
<1>8. \A j \in Blocks : heap'[j].type # "none" => Used(heap'[j].data) <= heap'[j].size
  BY <1>1, <1>2, <1>4, <1>5, <1>7 DEF HeapOK
<1> QED  BY <1>1, <1>2, <1>3, <1>7, <1>8 DEF HeapOK

\* The owners of the old place of a block lose it if they are not told where it went;
\* the others keep theirs.
LEMMA LeftOwned ==
  ASSUME ObjectsOK, Owned, NEW b \in alive, NEW k \in Blocks, k # ptr[b],
         ~Lives(k) /\ \A c \in alive : ptr[c] # k,
         \A j \in Blocks \ {k, ptr[b]} : heap'[j] = heap[j],
         \A j \in Blocks : Lives(j)' <=> j = k \/ (Lives(j) /\ j # ptr[b]),
         \A c \in owns : ptr'[c] = ptr[c], owns' = owns,
         orphaned' = orphaned \cup {k}, doubled' = (doubled \ {k}) \cup {ptr[b]}
  PROVE  Owned'
<1>1. \A c \in owns : ptr[c] \in Blocks /\ ptr[c] # k
  BY DEF ObjectsOK
<1>2. ASSUME NEW j \in Blocks, Lives(j)', j \notin orphaned'
      PROVE  \E o \in owns : ptr'[o] = j
  <2>1. Lives(j) /\ j \notin orphaned
    BY <1>2
  <2> QED  BY <2>1 DEF Owned
<1>3. ASSUME NEW c \in owns, ptr'[c] \notin doubled'
      PROVE  /\ heap'[ptr'[c]].type # "none"
             /\ \A d \in owns : ptr'[d] = ptr'[c] => d = c
  <2>1. ptr'[c] = ptr[c] /\ ptr[c] \in Blocks \ {k, ptr[b]} /\ ptr[c] \notin doubled
    BY <1>1, <1>3
  <2>2. Lives(ptr[c]) /\ \A d \in owns : ptr[d] = ptr[c] => d = c
    BY <2>1 DEF Owned
  <2>3. heap'[ptr[c]] = heap[ptr[c]]
    BY <2>1
  <2> QED  BY <2>1, <2>2, <2>3 DEF Lives
<1> QED  BY <1>2, <1>3 DEF Owned, Lives

\* ... and the object is told.
Moves(b, k, size, data) ==
  /\ Place(b, k, "fml", size, data)
  /\ ptr' = Assign(b, k) /\ Moved(b, k, TRUE)
  /\ alive' = alive /\ owns' = owns

\* The ownership follows the block, b finds the new data, and so do the objects that
\* share the block unless it moved away from them.
LEMMA MovesGives ==
  ASSUME HeapOK, ObjectsOK, Owned, NEW b, Valid(b), NEW k \in Places(b),
         NEW size \in 0..MaxSize, NEW data \in Data,
         Used(data) <= size, Moves(b, k, size, data)
  PROVE  /\ HeapOK' /\ Owned'
         /\ ptr' \in [Buffers -> Blocks \cup {0}]
         /\ \A c \in Buffers : c \in alive <=> ptr'[c] # 0
         /\ orphaned' \subseteq Blocks /\ doubled' \subseteq Blocks
         /\ heap'[ptr'[b]] = [type |-> "fml", size |-> size, data |-> data]
         /\ \A c \in alive : ptr[c] = ptr[b] /\ heap'[ptr'[c]].type = "fml"
              => heap'[ptr'[c]].data = data
         /\ \A c \in alive : ptr[c] # ptr[b] => heap'[ptr'[c]] = heap[ptr[c]]
<1>1. b \in alive /\ b \in Buffers /\ Lives(ptr[b])
  BY DEF Valid, Lives, Block, ObjectsOK
<1>2. /\ HeapOK'
      /\ k \in Blocks /\ ptr[b] \in Blocks
      /\ heap'[k] = [type |-> "fml", size |-> size, data |-> data]
      /\ k # ptr[b] => /\ heap'[ptr[b]] = Dead
                       /\ ~Lives(k) /\ \A c \in alive : ptr[c] # k
      /\ \A j \in Blocks \ {k, ptr[b]} : heap'[j] = heap[j]
  BY <1>1, PlaceGives DEF Moves
<1>3. \A c \in Buffers : ptr'[c] = IF c = b THEN k ELSE ptr[c]
  BY <1>1 DEF Moves, Assign, ObjectsOK
<1>4. /\ ptr' \in [Buffers -> Blocks \cup {0}]
      /\ \A c \in Buffers : c \in alive <=> ptr'[c] # 0
  BY <1>1, <1>2, <1>3 DEF Moves, Assign, ObjectsOK, Blocks
<1>5. orphaned' \subseteq Blocks /\ doubled' \subseteq Blocks
  BY <1>2 DEF Moves, Moved, ownerVars, ObjectsOK
<1>6. \A j \in Blocks : Lives(j)' <=> j = k \/ (Lives(j) /\ j # ptr[b])
  BY <1>2 DEF Lives, Dead
<1>7. Owned'
  <2>1. CASE k = ptr[b]
    <3>1. \A c \in Buffers : ptr'[c] = ptr[c]
      BY <1>3, <2>1
    <3>2. orphaned' = orphaned /\ doubled' = doubled /\ owns' = owns
      BY <2>1 DEF Moves, Moved, ownerVars
    <3>3. \A j \in Blocks : Lives(j)' <=> Lives(j)
      BY <1>1, <1>6, <2>1
    <3>4. owns \subseteq Buffers /\ \A c \in owns : ptr[c] \in Blocks
      BY DEF ObjectsOK
    <3> QED  BY <3>1, <3>2, <3>3, <3>4 DEF Owned, Lives
  <2>2. CASE k # ptr[b] /\ b \in owns
    <3>1. orphaned' = orphaned \ {k} /\ doubled' = doubled \ {k} /\ owns' = owns
      BY <2>2 DEF Moves, Moved
    <3>2. owns \subseteq Buffers /\ owns \subseteq alive /\ \A c \in owns : ptr[c] \in Blocks
      BY DEF ObjectsOK
    <3>3. \A c \in owns : ptr[c] # k
      BY <1>2, <2>2, <3>2
    <3>4. ASSUME NEW j \in Blocks, Lives(j)', j \notin orphaned'
          PROVE  \E o \in owns : ptr'[o] = j
      <4>1. CASE j = k
        BY <1>1, <1>3, <2>2, <4>1
      <4>2. CASE j # k
        <5>1. Lives(j) /\ j # ptr[b] /\ j \notin orphaned
          BY <1>6, <3>1, <3>4, <4>2
        <5>2. PICK o \in owns : ptr[o] = j
          BY <5>1 DEF Owned
        <5> QED  BY <1>3, <3>2, <5>1, <5>2
      <4> QED  BY <4>1, <4>2
    <3>5. ASSUME NEW c \in owns, ptr'[c] \notin doubled'
          PROVE  /\ heap'[ptr'[c]].type # "none"
                 /\ \A d \in owns : ptr'[d] = ptr'[c] => d = c
      <4>1. CASE c = b
        <5>1. ptr'[c] = k /\ \A d \in owns : ptr'[d] = k => d = b
          BY <1>1, <1>3, <3>2, <3>3, <4>1
        <5> QED  BY <1>2, <4>1, <5>1
      <4>2. CASE c # b
        <5>1. ptr'[c] = ptr[c] /\ ptr[c] \in Blocks /\ ptr[c] # k
          BY <1>3, <3>2, <3>3, <4>2
        <5>2. Lives(ptr[c]) /\ \A d \in owns : ptr[d] = ptr[c] => d = c
          BY <3>1, <3>5, <5>1 DEF Owned
        <5>3. ptr[c] # ptr[b]
          BY <2>2, <4>2, <5>2
        <5>4. heap'[ptr[c]] = heap[ptr[c]]
          BY <1>2, <5>1, <5>3
        <5>5. \A d \in owns : ptr'[d] = ptr'[c] => d = c
          BY <1>3, <3>2, <5>1, <5>2
        <5> QED  BY <5>1, <5>2, <5>4, <5>5 DEF Lives
      <4> QED  BY <4>1, <4>2
    <3> QED  BY <3>1, <3>4, <3>5 DEF Owned, Lives
  <2>3. CASE k # ptr[b] /\ b \notin owns
    <3>1. \A c \in owns : ptr'[c] = ptr[c]
      BY <1>3, <2>3 DEF ObjectsOK
    <3>2. orphaned' = orphaned \cup {k} /\ doubled' = (doubled \ {k}) \cup {ptr[b]}
      BY <2>3 DEF Moves, Moved
    <3>3. owns' = owns
      BY DEF Moves
    <3> QED  BY <1>1, <1>2, <1>6, <2>3, <3>1, <3>2, <3>3, LeftOwned
  <2> QED  BY <2>1, <2>2, <2>3
<1>8. heap'[ptr'[b]] = [type |-> "fml", size |-> size, data |-> data]
  BY <1>1, <1>2, <1>3
<1>9. ASSUME NEW c \in alive, ptr[c] = ptr[b], heap'[ptr'[c]].type = "fml"
      PROVE  heap'[ptr'[c]].data = data
  <2>1. CASE c = b \/ k = ptr[b]
    <3>1. ptr'[c] = k
      BY <1>1, <1>3, <1>9, <2>1 DEF ObjectsOK
    <3> QED  BY <1>2, <3>1
  <2>2. CASE c # b /\ k # ptr[b]
    <3>1. ptr'[c] = ptr[b] /\ heap'[ptr[b]] = Dead
      BY <1>2, <1>3, <1>9, <2>2 DEF ObjectsOK
    <3> QED  BY <1>9, <3>1 DEF Dead
  <2> QED  BY <2>1, <2>2
<1>10. ASSUME NEW c \in alive, ptr[c] # ptr[b]
       PROVE  heap'[ptr'[c]] = heap[ptr[c]]
  <2>1. c # b /\ c \in Buffers /\ ptr[c] \in Blocks
    BY <1>10 DEF ObjectsOK
  <2>2. ptr[c] # k
    BY <1>2, <1>10
  <2> QED  BY <1>2, <1>3, <1>10, <2>1, <2>2
<1> QED  BY <1>2, <1>4, <1>5, <1>7, <1>8, <1>9, <1>10

\* A change of a block's values is a move to where it is.
LEMMA DataChanges ==
  ASSUME HeapOK, ObjectsOK, NEW b, Valid(b), NEW data,
         heap' = [heap EXCEPT ![ptr[b]].data = data],
         UNCHANGED objectVars, UNCHANGED ownerVars
  PROVE  Moves(b, ptr[b], Block(b).size, data)
<1>1. b \in Buffers /\ ptr[b] \in Blocks
  BY DEF Valid, ObjectsOK
<1>2. PICK p \in Blocks : p = ptr[b]
  BY <1>1
<1>3. PICK rec \in Records : rec = heap[p]
  BY <1>2 DEF HeapOK
<1>4. [rec EXCEPT !.data = data] = [type |-> "fml", size |-> rec.size, data |-> data]
  BY <1>2, <1>3 DEF Records, Valid, Block
<1>5. heap' = [heap EXCEPT ![p] = [type |-> "fml", size |-> rec.size, data |-> data]]
  BY <1>2, <1>3, <1>4
<1>6. heap' = [heap EXCEPT ![p] = Dead, ![p] = [type |-> "fml", size |-> rec.size,
                                                data |-> data]]
  BY <1>2, <1>5 DEF HeapOK
<1>7. Place(b, ptr[b], "fml", Block(b).size, data)
  BY <1>2, <1>3, <1>6 DEF Place, Block
<1>8. ptr' = Assign(b, ptr[b])
  BY <1>1 DEF Assign, objectVars, ObjectsOK
<1> QED  BY <1>7, <1>8 DEF Moves, Moved, objectVars

-----------------------------------------------------------------------------
(* Steps: objects *)

\* Nothing is there.
LEMMA InitInv == Init => IInv
<1> SUFFICES ASSUME Init PROVE IInv
  OBVIOUS
<1>1. HeapOK /\ Owned
  BY UsedType, SizesAssumption DEF Init, HeapOK, Owned, Lives, Records, Dead
<1>2. ObjectsOK
  BY DEF Init, ObjectsOK
<1> QED
  BY <1>1, <1>2 DEF Init, IInv, Held, ExtentKept, OneExtendEnough

LEMMA CreateStep ==
  ASSUME IInv, NEW b \in Buffers, Create(b)
  PROVE  IInv'
<1>1. HeapOK /\ ObjectsOK /\ Owned /\ Held /\ ExtentKept /\ OneExtendEnough
  BY DEF IInv
<1>2. PICK k \in Fresh :
        /\ heap' = [heap EXCEPT ![k] = [type |-> "fml", size |-> Default, data |-> <<>>]]
        /\ ptr' = [ptr EXCEPT ![b] = k]
        /\ orphaned' = orphaned \ {k} /\ doubled' = doubled \ {k}
  BY DEF Create
<1>3. k \in Blocks /\ ~Lives(k) /\ k # 0 /\ \A c \in alive : ptr[c] # k
  BY FreshBlock DEF Blocks
<1>4. /\ b \notin alive /\ alive' = alive \cup {b} /\ owns' = owns \cup {b}
      /\ extent' = [extent EXCEPT ![b] = Default]
      /\ occurrence' = occurrence /\ home' = home /\ tuned' = tuned /\ short' = short
  BY DEF Create, fieldVars, sizeVars
<1>5. /\ [type |-> "fml", size |-> Default, data |-> <<>>] \in Records
      /\ Used(<<>>) <= Default
  BY UsedType, SizesAssumption DEF Records, Header
<1>6. HeapOK'
  BY <1>1, <1>2, <1>3, <1>5 DEF HeapOK
<1>7. ObjectsOK'
  BY <1>1, <1>2, <1>3, <1>4, SizesAssumption DEF ObjectsOK
<1>8. /\ \A c \in alive : ptr'[c] = ptr[c] /\ ptr[c] \in Blocks /\ heap'[ptr[c]] = heap[ptr[c]]
      /\ \A j \in Blocks \ {k} : heap'[j] = heap[j]
      /\ ptr'[b] = k /\ heap'[k].type = "fml"
  BY <1>1, <1>2, <1>3, <1>4 DEF HeapOK, ObjectsOK
<1>9. owns \subseteq alive /\ b \notin owns
  BY <1>1, <1>4 DEF ObjectsOK
<1>10. Owned'
  <2>1. ASSUME NEW j \in Blocks, Lives(j)', j \notin orphaned'
        PROVE  \E o \in owns' : ptr'[o] = j
    <3>1. CASE j = k
      BY <1>4, <1>8, <3>1
    <3>2. CASE j # k
      <4>1. Lives(j) /\ j \notin orphaned
        BY <1>2, <1>8, <2>1, <3>2 DEF Lives
      <4>2. PICK o \in owns : ptr[o] = j
        BY <1>1, <4>1 DEF Owned
      <4> QED  BY <1>4, <1>8, <1>9, <4>2
    <3> QED  BY <3>1, <3>2
  <2>2. ASSUME NEW c \in owns', ptr'[c] \notin doubled'
        PROVE  /\ heap'[ptr'[c]].type # "none"
               /\ \A d \in owns' : ptr'[d] = ptr'[c] => d = c
    <3>1. \A d \in owns : ptr'[d] # k
      BY <1>3, <1>8, <1>9
    <3>2. CASE c = b
      BY <1>4, <1>8, <3>1, <3>2
    <3>3. CASE c # b
      <4>1. c \in owns /\ ptr'[c] = ptr[c] /\ heap'[ptr[c]] = heap[ptr[c]]
        BY <1>4, <1>8, <1>9, <3>3
      <4>2. ptr[c] \notin doubled /\ ptr[c] # k
        BY <1>2, <1>3, <1>9, <2>2, <4>1
      <4>3. Lives(ptr[c]) /\ \A d \in owns : ptr[d] = ptr[c] => d = c
        BY <1>1, <4>1, <4>2 DEF Owned
      <4>4. \A d \in owns' : ptr'[d] = ptr'[c] => d = c
        BY <1>4, <1>8, <1>9, <4>1, <4>2, <4>3
      <4> QED  BY <4>1, <4>3, <4>4 DEF Lives
    <3> QED  BY <3>2, <3>3
  <2> QED  BY <2>1, <2>2 DEF Owned, Lives
<1>11. Held'
  <2>1. \A f \in Fields : home[f] # b
    BY <1>1, <1>4, NamesAssumption DEF ObjectsOK
  <2> QED  BY <1>1, <1>4, <1>8, <2>1 DEF Held, Block
<1>12. ExtentKept'
  BY <1>1, <1>4, SizesAssumption DEF ExtentKept, ObjectsOK
<1> QED
  BY <1>1, <1>4, <1>6, <1>7, <1>10, <1>11, <1>12 DEF IInv, OneExtendEnough

LEMMA WrapStep ==
  ASSUME IInv, NEW b \in Buffers, NEW c \in Buffers, Wrap(b, c)
  PROVE  IInv'
<1>1. HeapOK /\ ObjectsOK /\ Owned /\ Held /\ ExtentKept /\ OneExtendEnough
  BY DEF IInv
<1>2. PICK n \in Garbage : extent' = [extent EXCEPT ![b] = n]
  BY DEF Wrap
<1>3. /\ b \notin alive /\ c \in alive
      /\ alive' = alive \cup {b} /\ owns' = owns /\ ptr' = [ptr EXCEPT ![b] = ptr[c]]
      /\ heap' = heap /\ orphaned' = orphaned /\ doubled' = doubled
      /\ occurrence' = occurrence /\ home' = home
      /\ tuned' = tuned \cup {b} /\ short' = short
  BY DEF Wrap, Valid, fieldVars, ownerVars
<1>4. HeapOK'
  BY <1>1, <1>3 DEF HeapOK
<1>5. n \in Int
  BY SizesAssumption
<1>6. ObjectsOK'
  BY <1>1, <1>2, <1>3, <1>5 DEF ObjectsOK
<1>7. \A o \in alive : ptr'[o] = ptr[o]
  BY <1>1, <1>3 DEF ObjectsOK
<1>8. owns \subseteq alive
  BY <1>1 DEF ObjectsOK
<1>9. Owned'
  BY <1>1, <1>3, <1>7, <1>8 DEF Owned, Lives
<1>10. Held'
  <2>1. \A f \in Fields : home[f] # b
    BY <1>1, <1>3, NamesAssumption DEF ObjectsOK
  <2> QED  BY <1>1, <1>3, <1>7, <2>1 DEF Held, Block
<1>11. ExtentKept'
  BY <1>1, <1>2, <1>3 DEF ExtentKept, ObjectsOK
<1> QED
  BY <1>1, <1>3, <1>4, <1>6, <1>9, <1>10, <1>11 DEF IInv, OneExtendEnough

\* A copy of an owner is a second owner.
LEMMA CopyConstructStep ==
  ASSUME IInv, NEW b \in Buffers, NEW c \in Buffers, CopyConstruct(b, c)
  PROVE  IInv'
<1>1. HeapOK /\ ObjectsOK /\ Owned /\ Held /\ ExtentKept /\ OneExtendEnough
  BY DEF IInv
<1>2. /\ b \notin alive /\ c \in alive
      /\ alive' = alive \cup {b} /\ ptr' = [ptr EXCEPT ![b] = ptr[c]]
      /\ extent' = [extent EXCEPT ![b] = extent[c]]
      /\ heap' = heap /\ orphaned' = orphaned
      /\ occurrence' = occurrence /\ home' = home /\ short' = short
  BY DEF CopyConstruct, Valid, fieldVars
<1>3. /\ owns' = IF c \in owns THEN owns \cup {b} ELSE owns
      /\ doubled' = IF c \in owns THEN doubled \cup {ptr[c]} ELSE doubled
      /\ tuned' = IF c \in tuned THEN tuned \cup {b} ELSE tuned
  BY DEF CopyConstruct
<1>4. HeapOK'
  BY <1>1, <1>2 DEF HeapOK
<1>5. ptr[c] \in Blocks /\ owns \subseteq alive /\ \A o \in alive : ptr'[o] = ptr[o]
  BY <1>1, <1>2 DEF ObjectsOK
<1>6. owns' \subseteq alive' /\ tuned' \subseteq alive' /\ doubled' \subseteq Blocks
  BY <1>1, <1>2, <1>3, <1>5 DEF ObjectsOK
<1>7. ObjectsOK'
  BY <1>1, <1>2, <1>5, <1>6 DEF ObjectsOK
<1>8. Owned'
  <2>1. ASSUME NEW j \in Blocks, Lives(j), j \notin orphaned
        PROVE  \E o \in owns' : ptr'[o] = j
    <3>1. PICK o \in owns : ptr[o] = j
      BY <1>1, <2>1 DEF Owned
    <3> QED  BY <1>3, <1>5, <3>1
  <2>2. ASSUME NEW o \in owns', ptr'[o] \notin doubled'
        PROVE  Lives(ptr'[o]) /\ \A d \in owns' : ptr'[d] = ptr'[o] => d = o
    <3>1. ptr'[b] = ptr[c]
      BY <1>1, <1>2 DEF ObjectsOK
    <3>2. o \in owns /\ ptr'[o] = ptr[o] /\ ptr[o] \notin doubled
      BY <1>3, <1>5, <2>2, <3>1
    <3>3. Lives(ptr[o]) /\ \A d \in owns : ptr[d] = ptr[o] => d = o
      BY <1>1, <3>2 DEF Owned
    <3>4. \A d \in owns' : ptr'[d] = ptr'[o] => d = o
      BY <1>3, <1>5, <2>2, <3>1, <3>2, <3>3
    <3> QED  BY <3>2, <3>3, <3>4
  <2> QED  BY <1>2, <2>1, <2>2 DEF Owned, Lives
<1>9. Held'
  <2>1. \A f \in Fields : home[f] # b
    BY <1>1, <1>2, NamesAssumption DEF ObjectsOK
  <2> QED  BY <1>1, <1>2, <1>5, <2>1 DEF Held, Block
<1>10. ExtentKept'
  <2>1. alive \subseteq Buffers /\ tuned \subseteq alive /\ extent \in [Buffers -> Int]
    BY <1>1 DEF ObjectsOK
  <2>2. b \notin tuned' => extent'[b] >= Default
    BY <1>1, <1>2, <1>3, <2>1 DEF ExtentKept
  <2>3. \A o \in alive \ tuned' : extent'[o] >= Default
    BY <1>1, <1>2, <1>3, <2>1 DEF ExtentKept
  <2> QED  BY <1>2, <2>2, <2>3 DEF ExtentKept
<1> QED
  BY <1>1, <1>2, <1>4, <1>7, <1>8, <1>9, <1>10 DEF IInv, OneExtendEnough

LEMMA DestroyStep ==
  ASSUME IInv, NEW b \in Buffers, Destroy(b)
  PROVE  IInv'
<1>1. HeapOK /\ ObjectsOK /\ Owned /\ Held /\ ExtentKept /\ OneExtendEnough
  BY DEF IInv
<1>2. /\ b \in alive /\ ptr[b] \in Blocks
      /\ heap' = IF b \in owns THEN [heap EXCEPT ![ptr[b]] = Dead] ELSE heap
      /\ alive' = alive \ {b} /\ owns' = owns \ {b}
      /\ ptr' = [ptr EXCEPT ![b] = 0] /\ extent' = [extent EXCEPT ![b] = 0]
      /\ home' = [f \in Fields |-> IF home[f] = b THEN None ELSE home[f]]
      /\ occurrence' = occurrence /\ orphaned' = orphaned /\ doubled' = doubled
      /\ tuned' = tuned \ {b} /\ short' = short
  BY <1>1 DEF Destroy, Homeless, At, ObjectsOK, ownerVars
<1>3. Dead \in Records /\ Dead.type = "none"
  BY UsedType, SizesAssumption DEF Records, Dead
<1>4. HeapOK'
  BY <1>1, <1>2, <1>3 DEF HeapOK
<1>5. ObjectsOK'
  BY <1>1, <1>2 DEF ObjectsOK
<1>6. \A c \in alive \ {b} : ptr'[c] = ptr[c] /\ ptr[c] \in Blocks
  BY <1>1, <1>2 DEF ObjectsOK
<1>7. \A j \in Blocks : /\ heap'[j].type # "none" => heap'[j] = heap[j]
                        /\ heap'[j] # heap[j] => j = ptr[b] /\ b \in owns
  BY <1>1, <1>2, <1>3 DEF HeapOK
<1>8. owns \subseteq alive
  BY <1>1 DEF ObjectsOK
<1>9. Owned'
  <2>1. ASSUME NEW j \in Blocks, Lives(j)', j \notin orphaned'
        PROVE  \E o \in owns' : ptr'[o] = j
    <3>1. Lives(j) /\ j \notin orphaned
      BY <1>2, <1>7, <2>1 DEF Lives
    <3>2. PICK o \in owns : ptr[o] = j
      BY <1>1, <3>1 DEF Owned
    <3>3. o # b
      <4>1. SUFFICES ASSUME o = b PROVE FALSE
        OBVIOUS
      <4>2. heap'[j] = Dead
        BY <1>1, <1>2, <3>2, <4>1 DEF HeapOK
      <4> QED  BY <1>3, <2>1, <4>2 DEF Lives
    <3> QED  BY <1>2, <1>6, <1>8, <3>2, <3>3
  <2>2. ASSUME NEW c \in owns', ptr'[c] \notin doubled'
        PROVE  /\ heap'[ptr'[c]].type # "none"
               /\ \A d \in owns' : ptr'[d] = ptr'[c] => d = c
    <3>1. c \in owns /\ c # b /\ ptr'[c] = ptr[c] /\ ptr[c] \in Blocks
      BY <1>2, <1>6, <1>8
    <3>2. Lives(ptr[c]) /\ \A d \in owns : ptr[d] = ptr[c] => d = c
      BY <1>1, <1>2, <2>2, <3>1 DEF Owned
    <3>3. heap'[ptr[c]] = heap[ptr[c]]
      BY <1>7, <3>1, <3>2
    <3>4. \A d \in owns' : ptr'[d] = ptr'[c] => d = c
      BY <1>2, <1>6, <1>8, <3>1, <3>2
    <3> QED  BY <3>1, <3>2, <3>3, <3>4 DEF Lives
  <2> QED  BY <2>1, <2>2 DEF Owned, Lives
<1>10. Held'
  <2> SUFFICES ASSUME NEW f \in Fields, NEW c \in alive',
                      home'[f] = c, heap'[ptr'[c]].type = "fml"
               PROVE  Holds(heap'[ptr'[c]].data, occurrence'[f], f)
    BY DEF Held, Block
  <2>1. home[f] = c /\ c \in alive /\ ptr'[c] = ptr[c] /\ ptr[c] \in Blocks
    BY <1>1, <1>2, <1>6, NamesAssumption DEF ObjectsOK
  <2>2. heap'[ptr'[c]] = heap[ptr[c]]
    BY <1>7, <2>1
  <2> QED  BY <1>1, <1>2, <2>1, <2>2 DEF Held, Block
<1>11. ExtentKept'
  BY <1>1, <1>2 DEF ExtentKept, ObjectsOK
<1> QED
  BY <1>1, <1>2, <1>4, <1>5, <1>9, <1>10, <1>11 DEF IInv, OneExtendEnough

\* One owner more, who may be one too many, or one less, who may have been the last.
LEMMA SetHandlingMemoryStep ==
  ASSUME IInv, NEW b \in Buffers, NEW v \in BOOLEAN, SetHandlingMemory(b, v)
  PROVE  IInv'
<1>1. HeapOK /\ ObjectsOK /\ Owned /\ Held /\ ExtentKept /\ OneExtendEnough
  BY DEF IInv
<1>2. PICK k, others : k = ptr[b] /\ others = {c \in owns : ptr[c] = k} \ {b}
  OBVIOUS
<1>3. /\ b \in alive /\ heap' = heap /\ alive' = alive /\ ptr' = ptr /\ extent' = extent
      /\ occurrence' = occurrence /\ home' = home /\ tuned' = tuned /\ short' = short
  BY DEF SetHandlingMemory, fieldVars, sizeVars
<1>4. \/ /\ owns' = owns \cup {b} /\ orphaned' = orphaned \ {k}
         /\ doubled' = IF others = {} /\ Lives(k) THEN doubled \ {k} ELSE doubled \cup {k}
      \/ /\ owns' = owns \ {b}
         /\ orphaned' = IF others = {} THEN orphaned \cup {k} ELSE orphaned
         /\ doubled' = IF Lives(k) /\ \A c, d \in others : c = d
                         THEN doubled \ {k} ELSE doubled
  BY <1>2 DEF SetHandlingMemory, OwnersOf
<1>5. k \in Blocks
  BY <1>1, <1>2, <1>3 DEF ObjectsOK
<1>6. HeapOK'
  BY <1>1, <1>3 DEF HeapOK
<1>7. owns' \subseteq alive /\ orphaned' \subseteq Blocks /\ doubled' \subseteq Blocks
  BY <1>1, <1>3, <1>4, <1>5 DEF ObjectsOK
<1>8. ObjectsOK'
  BY <1>1, <1>3, <1>7 DEF ObjectsOK
<1>9. Owned'
  <2>1. ASSUME NEW j \in Blocks, Lives(j), j \notin orphaned'
        PROVE  \E o \in owns' : ptr[o] = j
    <3>1. CASE j \notin orphaned
      <4>1. PICK o \in owns : ptr[o] = j
        BY <1>1, <2>1, <3>1 DEF Owned
      <4>2. CASE o # b
        BY <1>4, <4>1, <4>2
      <4>3. CASE o = b
        BY <1>2, <1>4, <2>1, <4>1, <4>3
      <4> QED  BY <4>2, <4>3
    <3>2. CASE j \in orphaned
      BY <1>2, <1>4, <2>1, <3>2
    <3> QED  BY <3>1, <3>2
  <2>2. ASSUME NEW o \in owns', ptr[o] \notin doubled'
        PROVE  Lives(ptr[o]) /\ \A d \in owns' : ptr[d] = ptr[o] => d = o
    <3>1. CASE ptr[o] = k
      <4>1. Lives(k) /\ \A c, d \in owns' : ptr[c] = k /\ ptr[d] = k => c = d
        <5>1. CASE k \in doubled
          BY <1>2, <1>4, <2>2, <3>1, <5>1
        <5>2. CASE k \notin doubled
          <6>1. CASE owns' = owns \ {b}
            BY <1>1, <2>2, <3>1, <5>2, <6>1 DEF Owned
          <6>2. CASE owns' = owns \cup {b} /\ others = {} /\ Lives(k)
            BY <1>2, <6>2
          <6> QED  BY <1>4, <2>2, <3>1, <6>1, <6>2
        <5> QED  BY <5>1, <5>2
      <4> QED  BY <2>2, <3>1, <4>1
    <3>2. CASE ptr[o] # k
      <4>1. o \in owns /\ ptr[o] \notin doubled
        BY <1>2, <1>4, <2>2, <3>2
      <4>2. Lives(ptr[o]) /\ \A d \in owns : ptr[d] = ptr[o] => d = o
        BY <1>1, <4>1 DEF Owned
      <4> QED  BY <1>2, <1>4, <3>2, <4>2
    <3> QED  BY <3>1, <3>2
  <2> QED  BY <1>3, <2>1, <2>2 DEF Owned, Lives
<1>10. Held' /\ ExtentKept' /\ OneExtendEnough'
  BY <1>1, <1>3 DEF Held, Block, ExtentKept, OneExtendEnough
<1> QED  BY <1>6, <1>8, <1>9, <1>10 DEF IInv

\* The only owner that is given another buffer leaves its own, and is one more there.
LEMMA SetBufferStep ==
  ASSUME IInv, NEW b \in Buffers, NEW c \in Buffers, SetBuffer(b, c)
  PROVE  IInv'
<1>1. HeapOK /\ ObjectsOK /\ Owned /\ Held /\ ExtentKept /\ OneExtendEnough
  BY DEF IInv
<1>2. /\ b \in alive /\ c \in alive /\ ptr[b] \in Blocks /\ ptr[c] \in Blocks
      /\ ptr' = [ptr EXCEPT ![b] = ptr[c]]
      /\ orphaned' = IF {d \in owns : ptr[d] = ptr[b]} = {b}
                       THEN orphaned \cup {ptr[b]} ELSE orphaned
      /\ doubled' = IF b \in owns THEN doubled \cup {ptr[c]} ELSE doubled
      /\ home' = [f \in Fields |-> IF home[f] = b THEN None ELSE home[f]]
      /\ heap' = heap /\ alive' = alive /\ owns' = owns /\ extent' = extent
      /\ occurrence' = occurrence /\ tuned' = tuned /\ short' = short
  BY <1>1 DEF SetBuffer, OwnersOf, Valid, Homeless, At, ObjectsOK, sizeVars
<1>3. HeapOK' /\ ObjectsOK'
  BY <1>1, <1>2, NamesAssumption DEF HeapOK, ObjectsOK
<1>4. /\ ptr'[b] = ptr[c]
      /\ \A d \in alive \ {b} : ptr'[d] = ptr[d]
      /\ owns \subseteq alive
  BY <1>1, <1>2 DEF ObjectsOK
<1>5. Owned'
  <2>1. ASSUME NEW j \in Blocks, Lives(j), j \notin orphaned'
        PROVE  \E o \in owns : ptr'[o] = j
    <3>1. j \notin orphaned
      BY <1>2, <2>1
    <3>2. PICK o \in owns : ptr[o] = j
      BY <1>1, <2>1, <3>1 DEF Owned
    <3>3. CASE o # b
      BY <1>4, <3>2, <3>3
    <3>4. CASE o = b
      <4>1. PICK d \in owns : ptr[d] = j /\ d # b
        BY <1>2, <2>1, <3>2, <3>4
      <4> QED  BY <1>4, <4>1
    <3> QED  BY <3>3, <3>4
  <2>2. ASSUME NEW d \in owns, ptr'[d] \notin doubled'
        PROVE  Lives(ptr'[d]) /\ \A e \in owns : ptr'[e] = ptr'[d] => e = d
    <3>1. d # b /\ ptr'[d] = ptr[d] /\ ptr[d] \notin doubled
      BY <1>2, <1>4, <2>2
    <3>2. Lives(ptr[d]) /\ \A e \in owns : ptr[e] = ptr[d] => e = d
      BY <1>1, <3>1 DEF Owned
    <3>3. b \in owns => ptr[d] # ptr[c]
      BY <1>2, <2>2, <3>1
    <3> QED  BY <1>4, <3>1, <3>2, <3>3
  <2> QED  BY <1>2, <2>1, <2>2 DEF Owned, Lives
<1>6. Held'
  <2>1. \A f \in Fields : home'[f] # b
    BY <1>1, <1>2, NamesAssumption DEF ObjectsOK
  <2>2. \A f \in Fields : home'[f] = None \/ home'[f] = home[f]
    BY <1>2
  <2>3. None \notin alive
    BY <1>1, NamesAssumption DEF ObjectsOK
  <2> QED  BY <1>1, <1>2, <1>4, <2>1, <2>2, <2>3 DEF Held, Block
<1>7. ExtentKept' /\ OneExtendEnough'
  BY <1>1, <1>2 DEF ExtentKept, OneExtendEnough
<1> QED  BY <1>3, <1>5, <1>6, <1>7 DEF IInv

-----------------------------------------------------------------------------
(* Steps: memory and values *)

\* A block that moves, or whose values change: the fields homed in its objects have
\* to be right about the new values, the others are not concerned.
LEMMA MoveStep ==
  ASSUME IInv, NEW b, Valid(b), NEW k \in Places(b), NEW size \in 0..MaxSize,
         NEW data \in Data, Used(data) <= size, Moves(b, k, size, data),
         extent' \in [Buffers -> Int], tuned' \subseteq alive, ExtentKept',
         occurrence' \in [Fields -> Nat], home' \in [Fields -> alive \cup {None}],
         \A f \in Fields, c \in alive : home'[f] = c =>
           \/ ptr[c] = ptr[b] /\ Holds(data, occurrence'[f], f)
           \/ ptr[c] # ptr[b] /\ home[f] = c /\ occurrence'[f] = occurrence[f],
         short' = {}
  PROVE  IInv'
<1>1. HeapOK /\ ObjectsOK /\ Owned /\ Held
  BY DEF IInv
<1>2. /\ HeapOK' /\ Owned'
      /\ ptr' \in [Buffers -> Blocks \cup {0}]
      /\ \A c \in Buffers : c \in alive <=> ptr'[c] # 0
      /\ orphaned' \subseteq Blocks /\ doubled' \subseteq Blocks
      /\ heap'[ptr'[b]] = [type |-> "fml", size |-> size, data |-> data]
      /\ \A c \in alive : ptr[c] = ptr[b] /\ heap'[ptr'[c]].type = "fml"
           => heap'[ptr'[c]].data = data
      /\ \A c \in alive : ptr[c] # ptr[b] => heap'[ptr'[c]] = heap[ptr[c]]
  BY <1>1, MovesGives
<1>3. alive' = alive /\ owns' = owns
  BY DEF Moves
<1>4. ObjectsOK'
  BY <1>1, <1>2, <1>3 DEF ObjectsOK
<1>5. ASSUME NEW f \in Fields, NEW c \in alive, home'[f] = c, heap'[ptr'[c]].type = "fml"
      PROVE  Holds(heap'[ptr'[c]].data, occurrence'[f], f)
  <2>1. CASE ptr[c] = ptr[b]
    BY <1>2, <1>5, <2>1
  <2>2. CASE ptr[c] # ptr[b]
    <3>1. heap'[ptr'[c]] = heap[ptr[c]] /\ home[f] = c /\ occurrence'[f] = occurrence[f]
      BY <1>2, <1>5, <2>2
    <3> QED  BY <1>1, <1>5, <3>1 DEF Held, Block
  <2> QED  BY <2>1, <2>2
<1>6. Held'
  BY <1>3, <1>5 DEF Held, Block
<1> QED  BY <1>2, <1>4, <1>6 DEF IInv, OneExtendEnough

\* What Tuxedo has of a valid buffer.
LEMMA ValidBlock ==
  ASSUME HeapOK, ObjectsOK, NEW b, Valid(b)
  PROVE  /\ b \in alive /\ b \in Buffers /\ ptr[b] \in Blocks /\ ptr[b] \in Places(b)
         /\ Block(b).data \in Data /\ Used(Block(b).data) \in Nat
         /\ Block(b).size \in 0..MaxSize /\ Used(Block(b).data) <= Block(b).size
<1>1. b \in alive /\ b \in Buffers /\ ptr[b] \in Blocks
  BY DEF Valid, ObjectsOK
<1>2. /\ Block(b).data \in Data /\ Block(b).size \in 0..MaxSize
      /\ Used(Block(b).data) <= Block(b).size
  BY <1>1 DEF HeapOK, Valid, Block, Records
<1>3. Used(Block(b).data) \in Nat
  BY <1>2, UsedType
<1> QED  BY <1>1, <1>2, <1>3 DEF Places

-----------------------------------------------------------------------------
(* Steps: size *)

\* What an operation does to the extent alone.
LEMMA ExtentStep ==
  ASSUME IInv, NEW b \in alive, NEW n \in Int, extent' = [extent EXCEPT ![b] = n],
         tuned' = tuned \/ tuned' = tuned \cup {b},
         n >= Default \/ b \in tuned', UNCHANGED alive
  PROVE  /\ extent' \in [Buffers -> Int] /\ tuned' \subseteq alive /\ ExtentKept'
<1>1. extent \in [Buffers -> Int] /\ alive \subseteq Buffers /\ tuned \subseteq alive
  BY DEF IInv, ObjectsOK
<1>2. \A c \in alive \ tuned : extent[c] >= Default
  BY DEF IInv, ExtentKept
<1> QED  BY <1>1, <1>2 DEF ExtentKept

LEMMA SetExtentStep ==
  ASSUME IInv, NEW b \in Buffers, NEW n \in Sizes, SetExtent(b, n)
  PROVE  IInv'
<1>1. HeapOK /\ ObjectsOK /\ Owned /\ Held /\ OneExtendEnough
  BY DEF IInv
<1>2. /\ b \in alive /\ extent' = [extent EXCEPT ![b] = n]
      /\ tuned' = IF n < Default THEN tuned \cup {b} ELSE tuned
      /\ heap' = heap /\ alive' = alive /\ ptr' = ptr /\ owns' = owns
      /\ occurrence' = occurrence /\ home' = home /\ short' = short
      /\ orphaned' = orphaned /\ doubled' = doubled
  BY DEF SetExtent, fieldVars, ownerVars
<1>3. n \in Int /\ Default \in Int
  BY SizesAssumption
<1>4. (n >= Default \/ b \in tuned') /\ (tuned' = tuned \/ tuned' = tuned \cup {b})
  BY <1>2, <1>3
<1>5. extent' \in [Buffers -> Int] /\ tuned' \subseteq alive /\ ExtentKept'
  BY <1>2, <1>3, <1>4, ExtentStep
<1>6. ObjectsOK'
  BY <1>1, <1>2, <1>5 DEF ObjectsOK
<1>7. HeapOK' /\ Owned' /\ Held' /\ OneExtendEnough'
  BY <1>1, <1>2 DEF HeapOK, Owned, Lives, Held, Block, OneExtendEnough
<1> QED  BY <1>5, <1>6, <1>7 DEF IInv

\* resize, to any size: pack's or the program's
LEMMA ResizeStep ==
  ASSUME IInv, NEW b \in Buffers, NEW n \in 0..MaxSize, Resize(b, n)
  PROVE  IInv'
<1>1. HeapOK /\ ObjectsOK /\ Owned /\ Held /\ OneExtendEnough
  BY DEF IInv
<1>2. /\ Valid(b) /\ b \in alive /\ extent' = [extent EXCEPT ![b] = n]
      /\ n >= Used(Block(b).data)
      /\ tuned' = IF n < Default THEN tuned \cup {b} ELSE tuned
      /\ alive' = alive /\ owns' = owns
      /\ occurrence' = occurrence /\ home' = home /\ short' = short
  BY DEF Resize, Valid, fieldVars
<1>3. n \in Int /\ Default \in Int
  BY SizesAssumption
<1>4. (n >= Default \/ b \in tuned') /\ (tuned' = tuned \/ tuned' = tuned \cup {b})
  BY <1>2, <1>3
<1>5. extent' \in [Buffers -> Int] /\ tuned' \subseteq alive /\ ExtentKept'
  BY <1>2, <1>3, <1>4, ExtentStep
<1>6. CASE UNCHANGED <<heap, ptr, ownerVars>>
  <2>1. ObjectsOK'
    BY <1>1, <1>2, <1>5, <1>6 DEF ObjectsOK, ownerVars
  <2>2. HeapOK' /\ Owned' /\ Held' /\ OneExtendEnough'
    BY <1>1, <1>2, <1>6 DEF HeapOK, Owned, Lives, Held, Block, OneExtendEnough, ownerVars
  <2> QED  BY <1>5, <2>1, <2>2 DEF IInv
<1>7. ASSUME NEW k \in Places(b), Place(b, k, "fml", n, Block(b).data),
             ptr' = Assign(b, k), Moved(b, k, TRUE)
      PROVE  IInv'
  <2>1. PICK data : data = Block(b).data
    OBVIOUS
  <2>2. data \in Data /\ Used(data) <= n /\ Moves(b, k, n, data)
    BY <1>1, <1>2, <1>7, <2>1, ValidBlock DEF Moves
  <2>3. ASSUME NEW f \in Fields, NEW c \in alive, home[f] = c, ptr[c] = ptr[b]
        PROVE  Holds(data, occurrence[f], f)
    BY <1>1, <1>2, <2>1, <2>3 DEF Held, Valid, Block
  <2>4. occurrence' \in [Fields -> Nat] /\ home' \in [Fields -> alive \cup {None}]
    BY <1>1, <1>2 DEF ObjectsOK
  <2>5. short' = {}
    BY <1>1, <1>2 DEF OneExtendEnough
  <2>6. \A f \in Fields, c \in alive : home'[f] = c =>
          \/ ptr[c] = ptr[b] /\ Holds(data, occurrence'[f], f)
          \/ ptr[c] # ptr[b] /\ home[f] = c /\ occurrence'[f] = occurrence[f]
    BY <1>2, <2>3
  <2> QED  BY <1>2, <1>5, <2>2, <2>4, <2>5, <2>6, MoveStep
<1> QED  BY <1>6, <1>7 DEF Resize

-----------------------------------------------------------------------------
(* Steps: fields *)

\* Fadd32 in a block of any size: a value that fits is the last occurrence; one that
\* does not fit was to be expected.
LEMMA FaddStep ==
  ASSUME IInv, NEW b, Valid(b), NEW f \in Fields, NEW k \in Places(b),
         NEW size \in 0..MaxSize, Used(Block(b).data) <= size, Fadd(b, f, k, size),
         ptr' = Assign(b, k), Moved(b, k, TRUE), UNCHANGED <<alive, owns, tuned>>,
         extent' \in [Buffers -> Int], ExtentKept',
         Used(Block(b).data) + Needed[f] <= size \/ b \in tuned \/ ~(Needed[f] <= Default)
  PROVE  IInv'
<1>1. HeapOK /\ ObjectsOK /\ Held /\ OneExtendEnough
  BY DEF IInv
<1>2. PICK old : old = Block(b).data
  OBVIOUS
<1>3. PICK new : new = Append(old, f)
  OBVIOUS
<1>4. old \in Data /\ b \in alive /\ Used(old) \in Nat
  BY <1>1, <1>2, ValidBlock
<1>5. new \in Data /\ Used(new) = Used(old) + Needed[f]
  BY <1>3, <1>4, UsedAppend DEF Values
<1>6. ASSUME NEW g \in Fields, NEW c \in alive, home[g] = c, ptr[c] = ptr[b]
      PROVE  Holds(old, occurrence[g], g)
  BY <1>1, <1>2, <1>6 DEF Held, Valid, Block
<1>7. tuned' \subseteq alive
  BY <1>1 DEF ObjectsOK
<1>8. occurrence \in [Fields -> Nat] /\ home \in [Fields -> alive \cup {None}]
  BY <1>1 DEF ObjectsOK
<1>9. CASE Used(new) <= size
  <2>1. /\ Moves(b, k, size, new) /\ short' = {}
        /\ occurrence' = [occurrence EXCEPT ![f] = LastOf(new)]
        /\ home' = [home EXCEPT ![f] = b]
    BY <1>1, <1>2, <1>3, <1>9 DEF Fadd, Moves, OneExtendEnough
  <2>2. /\ Len(old) \in Nat /\ Len(new) = Len(old) + 1
        /\ \A i \in 1..Len(old) : new[i] = old[i]
        /\ new[Len(old) + 1] = f
    BY <1>3, <1>4, AppendProperties, LenProperties DEF Data, Values
  <2>3. LastOf(new) = Len(old) /\ Holds(new, Len(old), f)
    BY <2>2 DEF LastOf, Holds
  <2>4. ASSUME NEW g \in Fields, Holds(old, occurrence[g], g)
        PROVE  Holds(new, occurrence[g], g)
    <3>1. PICK occ \in Nat : occ = occurrence[g]
      BY <1>8
    <3> QED  BY <2>2, <2>4, <3>1 DEF Holds
  <2>5. occurrence' \in [Fields -> Nat] /\ home' \in [Fields -> alive \cup {None}]
    BY <1>4, <1>8, <2>1, <2>2, <2>3
  <2>6. ASSUME NEW g \in Fields, NEW c \in alive, home'[g] = c
        PROVE  \/ ptr[c] = ptr[b] /\ Holds(new, occurrence'[g], g)
               \/ ptr[c] # ptr[b] /\ home[g] = c /\ occurrence'[g] = occurrence[g]
    <3>1. CASE g = f
      BY <1>8, <2>1, <2>3, <2>6, <3>1
    <3>2. CASE g # f
      <4>1. home[g] = c /\ occurrence'[g] = occurrence[g]
        BY <1>8, <2>1, <2>6, <3>2
      <4> QED  BY <1>6, <2>4, <4>1
    <3> QED  BY <3>1, <3>2
  <2> QED  BY <1>5, <1>7, <1>9, <2>1, <2>5, <2>6, MoveStep
<1>10. CASE ~(Used(new) <= size)
  <2>1. /\ Moves(b, k, size, old)
        /\ short' = short \cup {c \in {b} \ tuned : Needed[f] <= Default}
        /\ occurrence' = occurrence /\ home' = home
    BY <1>2, <1>3, <1>10 DEF Fadd, Moves, fieldVars
  <2>2. b \in tuned \/ ~(Needed[f] <= Default)
    BY <1>2, <1>5, <1>10
  <2>3. short' = {}
    BY <1>1, <2>1, <2>2 DEF OneExtendEnough
  <2>4. \A g \in Fields, c \in alive : home'[g] = c =>
          \/ ptr[c] = ptr[b] /\ Holds(old, occurrence'[g], g)
          \/ ptr[c] # ptr[b] /\ home[g] = c /\ occurrence'[g] = occurrence[g]
    BY <1>6, <2>1
  <2>5. occurrence' \in [Fields -> Nat] /\ home' \in [Fields -> alive \cup {None}]
    BY <1>8, <2>1
  <2> QED  BY <1>2, <1>4, <1>7, <2>1, <2>3, <2>4, <2>5, MoveStep
<1> QED  BY <1>9, <1>10

\* The estimate of add is exact: what is not crowded fits.
LEMMA AddStep ==
  ASSUME IInv, NEW b \in Buffers, NEW f \in Fields, Add(b, f)
  PROVE  IInv'
<1>1. HeapOK /\ ObjectsOK /\ ExtentKept
  BY DEF IInv
<1>2. /\ Valid(b) /\ ~Crowded(b, f)
      /\ alive' = alive /\ ptr' = ptr /\ owns' = owns /\ extent' = extent
      /\ UNCHANGED ownerVars /\ tuned' = tuned
  BY DEF Add, objectVars
<1>3. PICK k, size : k = ptr[b] /\ size = Block(b).size
  OBVIOUS
<1>4. /\ k \in Places(b) /\ size \in 0..MaxSize /\ Used(Block(b).data) <= size
      /\ Used(Block(b).data) \in Nat
  BY <1>1, <1>2, <1>3, ValidBlock
<1>5. Fadd(b, f, k, size)
  BY <1>3 DEF Add
<1>6. ptr' = Assign(b, k) /\ Moved(b, k, TRUE)
  BY <1>1, <1>2, <1>3 DEF Assign, Moved, ObjectsOK
<1>7. Needed[f] \in Nat
  BY SizesAssumption
<1>8. Used(Block(b).data) + Needed[f] <= size
  BY <1>2, <1>3, <1>4, <1>7 DEF Crowded
<1>9. extent' \in [Buffers -> Int] /\ ExtentKept'
  BY <1>1, <1>2 DEF ObjectsOK, ExtentKept
<1> QED  BY <1>2, <1>4, <1>5, <1>6, <1>8, <1>9, FaddStep

\* An extend by the default or more makes room for any value that needs no more.
LEMMA AddExtendingStep ==
  ASSUME IInv, NEW b \in Buffers, NEW f \in Fields, AddExtending(b, f)
  PROVE  IInv'
<1>1. HeapOK /\ ObjectsOK /\ ExtentKept
  BY DEF IInv
<1>2. Valid(b) /\ extent' = [extent EXCEPT ![b] = Grown(b)]
  BY DEF AddExtending
<1>3. PICK k \in Places(b) :
        /\ Fadd(b, f, k, Grown(b))
        /\ ptr' = Assign(b, k) /\ Moved(b, k, TRUE)
  BY DEF AddExtending
<1>4. /\ b \in alive /\ Block(b).size \in Nat /\ Used(Block(b).data) \in Nat
      /\ Used(Block(b).data) <= Block(b).size
  BY <1>1, <1>2, SizesAssumption, ValidBlock
<1>5. PICK n \in Int : n = Grown(b)
  BY <1>1, <1>4 DEF Grown, ObjectsOK
<1>6. n \in 0..MaxSize /\ Used(Block(b).data) <= n
  BY <1>4, <1>5, SizesAssumption DEF AddExtending
<1>7. Needed[f] \in Nat /\ Default \in Nat
  BY SizesAssumption
<1>8. b \notin tuned => extent[b] \in Int /\ extent[b] >= Default
  BY <1>1, <1>4 DEF ExtentKept, ObjectsOK
<1>9. Used(Block(b).data) + Needed[f] <= n \/ b \in tuned \/ ~(Needed[f] <= Default)
  BY <1>4, <1>5, <1>7, <1>8 DEF Grown
<1>10. n >= Default \/ b \in tuned
  BY <1>4, <1>5, <1>7, <1>8 DEF Grown
<1>11. alive' = alive /\ owns' = owns /\ tuned' = tuned
  BY DEF AddExtending
<1>12. extent' \in [Buffers -> Int] /\ ExtentKept'
  BY <1>2, <1>4, <1>5, <1>10, <1>11, ExtentStep
<1> QED  BY <1>2, <1>3, <1>5, <1>6, <1>9, <1>11, <1>12, FaddStep

LEMMA AddThrowsStep ==
  ASSUME IInv, NEW b \in Buffers, NEW f \in Fields, AddThrows(b, f)
  PROVE  IInv'
<1>1. HeapOK /\ ObjectsOK /\ Owned /\ Held /\ ExtentKept /\ OneExtendEnough
  BY DEF IInv
<1>2. /\ Valid(b) /\ extent' = [extent EXCEPT ![b] = Capped(Grown(b))]
      /\ heap' = heap /\ alive' = alive /\ ptr' = ptr /\ owns' = owns
      /\ occurrence' = occurrence /\ home' = home
      /\ orphaned' = orphaned /\ doubled' = doubled
      /\ tuned' = tuned /\ short' = short
  BY DEF AddThrows, fieldVars, ownerVars, sizeVars
<1>3. b \in alive /\ Block(b).size \in Nat
  BY <1>1, <1>2, SizesAssumption, ValidBlock
<1>4. extent[b] \in Int /\ (b \notin tuned => extent[b] >= Default)
  BY <1>1, <1>3 DEF ExtentKept, ObjectsOK
<1>5. PICK n \in Int : n = Capped(Grown(b)) /\ (n >= Default \/ b \in tuned)
  BY <1>3, <1>4, SizesAssumption DEF Capped, Grown
<1>6. extent' \in [Buffers -> Int] /\ ExtentKept'
  BY <1>2, <1>3, <1>5, ExtentStep
<1>7. ObjectsOK'
  BY <1>1, <1>2, <1>6 DEF ObjectsOK
<1>8. HeapOK' /\ Owned' /\ Held' /\ OneExtendEnough'
  BY <1>1, <1>2 DEF HeapOK, Owned, Lives, Held, Block, OneExtendEnough
<1> QED  BY <1>6, <1>7, <1>8 DEF IInv

\* A change of values in place: Fchg32, Fdel32, Fcpy32
Rewrites(b, data) ==
  /\ heap' = [heap EXCEPT ![ptr[b]].data = data]
  /\ UNCHANGED <<objectVars, occurrence, ownerVars, sizeVars>>

\* It is enough that the fields still homed in the block are right about the new
\* values.
LEMMA ValuesStep ==
  ASSUME IInv, NEW b, Valid(b), NEW data \in Data, Used(data) <= Block(b).size,
         Rewrites(b, data), home' \in [Fields -> alive \cup {None}],
         \A f \in Fields, c \in alive : home'[f] = c =>
           \/ ptr[c] = ptr[b] /\ Holds(data, occurrence[f], f)
           \/ ptr[c] # ptr[b] /\ home[f] = c
  PROVE  IInv'
<1>1. HeapOK /\ ObjectsOK /\ ExtentKept /\ OneExtendEnough
  BY DEF IInv
<1>2. PICK k, size : k = ptr[b] /\ size = Block(b).size
  OBVIOUS
<1>3. k \in Places(b) /\ size \in 0..MaxSize
  BY <1>1, <1>2, ValidBlock
<1>4. Moves(b, ptr[b], Block(b).size, data)
  BY <1>1, DataChanges DEF Rewrites
<1>5. Moves(b, k, size, data)
  BY <1>2, <1>4
<1>6. /\ extent' \in [Buffers -> Int] /\ tuned' \subseteq alive /\ ExtentKept'
      /\ short' = {}
  BY <1>1 DEF Rewrites, objectVars, sizeVars, ObjectsOK, ExtentKept, OneExtendEnough
<1>7. occurrence' = occurrence /\ occurrence' \in [Fields -> Nat]
  BY <1>1 DEF Rewrites, ObjectsOK
<1>8. \A f \in Fields, c \in alive : home'[f] = c =>
        \/ ptr[c] = ptr[b] /\ Holds(data, occurrence'[f], f)
        \/ ptr[c] # ptr[b] /\ home[f] = c /\ occurrence'[f] = occurrence[f]
  BY <1>7
<1> QED  BY <1>2, <1>3, <1>5, <1>6, <1>7, <1>8, MoveStep

\* A field that writes over another's occurrence takes it.
LEMMA SetStep ==
  ASSUME IInv, NEW b \in Buffers, NEW f \in Fields, Set(b, f)
  PROVE  IInv'
<1>1. HeapOK /\ ObjectsOK /\ Held
  BY DEF IInv
<1>2. PICK old, data : old = Block(b).data /\ data = Changed(old, occurrence[f], f)
  OBVIOUS
<1>3. /\ Valid(b) /\ Used(data) <= Block(b).size
      /\ Rewrites(b, data)
      /\ \A g \in Fields : home'[g] =
           IF g = f THEN b
           ELSE IF /\ home[g] \in alive /\ ptr[home[g]] = ptr[b]
                   /\ occurrence[g] = occurrence[f] THEN None
           ELSE home[g]
      /\ home' = [g \in Fields |-> home'[g]]
  BY <1>2 DEF Set, In, Sharers, Rewrites
<1>4. old \in Data /\ b \in alive
  BY <1>1, <1>2, <1>3, ValidBlock
<1>5. occurrence \in [Fields -> Nat] /\ home \in [Fields -> alive \cup {None}]
  BY <1>1 DEF ObjectsOK
<1>6. PICK occ \in Nat : occ = occurrence[f]
  BY <1>5
<1>7. /\ data \in Data /\ occ < Len(data) /\ data[occ + 1] = f
      /\ Len(old) <= Len(data) /\ Len(old) \in Nat /\ Len(data) \in Nat
      /\ \A i \in 1..Len(old) : i # occ + 1 => data[i] = old[i]
  <2>1. f \in Values
    BY DEF Values
  <2>2. data = Changed(old, occ, f)
    BY <1>2, <1>6
  <2>3. data \in Data /\ occ < Len(data) /\ data[occ + 1] = f
    BY <1>4, <2>1, <2>2, ChangedData
  <2>4. /\ Len(old) <= Len(data)
        /\ \A i \in 1..Len(old) : i # occ + 1 => data[i] = old[i]
    BY <1>4, <2>1, <2>2, ChangedData
  <2> QED  BY <1>4, <2>3, <2>4, LenProperties DEF Data
<1>8. home' \in [Fields -> alive \cup {None}]
  BY <1>3, <1>4, <1>5
<1>9. ASSUME NEW g \in Fields, NEW c \in alive, home'[g] = c
      PROVE  \/ ptr[c] = ptr[b] /\ Holds(data, occurrence[g], g)
             \/ ptr[c] # ptr[b] /\ home[g] = c
  <2>1. CASE g = f
    BY <1>3, <1>6, <1>7, <1>9, <2>1 DEF Holds
  <2>2. CASE g # f /\ ptr[c] = ptr[b]
    <3>1. c # None
      BY <1>1, NamesAssumption DEF ObjectsOK
    <3>2. home[g] = c /\ occurrence[g] # occ
      BY <1>3, <1>6, <1>9, <2>2, <3>1
    <3>3. Holds(old, occurrence[g], g)
      BY <1>1, <1>2, <1>3, <2>2, <3>2 DEF Held, Valid, Block
    <3>4. PICK m \in Nat : m = occurrence[g]
      BY <1>5
    <3> QED  BY <1>7, <2>2, <3>2, <3>3, <3>4 DEF Holds
  <2>3. CASE g # f /\ ptr[c] # ptr[b]
    <3>1. c # None
      BY <1>1, NamesAssumption DEF ObjectsOK
    <3> QED  BY <1>3, <1>9, <2>3, <3>1
  <2> QED  BY <2>1, <2>2, <2>3
<1> QED  BY <1>3, <1>7, <1>8, <1>9, ValuesStep

\* get remembers any occurrence; the field is at home only where it finds itself.
LEMMA GetStep ==
  ASSUME IInv, NEW b \in Buffers, NEW f \in Fields, NEW occ \in Asked, Get(b, f, occ)
  PROVE  IInv'
<1>1. HeapOK /\ ObjectsOK /\ Owned /\ Held /\ ExtentKept /\ OneExtendEnough
  BY DEF IInv
<1>2. /\ Valid(b) /\ occurrence' = [occurrence EXCEPT ![f] = occ]
      /\ home' = [home EXCEPT ![f] = IF Holds(Block(b).data, occ, f) THEN b ELSE None]
      /\ heap' = heap /\ alive' = alive /\ ptr' = ptr /\ owns' = owns /\ extent' = extent
      /\ orphaned' = orphaned /\ doubled' = doubled /\ tuned' = tuned /\ short' = short
  BY DEF Get, Holds, objectVars, ownerVars, sizeVars
<1>3. b \in alive /\ occ \in Nat /\ None \notin alive
  BY <1>1, <1>2, ValidBlock, SizesAssumption, NamesAssumption DEF ObjectsOK
<1>4. HeapOK' /\ ObjectsOK' /\ Owned'
  BY <1>1, <1>2, <1>3 DEF HeapOK, ObjectsOK, Owned, Lives
<1>5. Held'
  <2> SUFFICES ASSUME NEW g \in Fields, NEW c \in alive,
                      home'[g] = c, heap[ptr[c]].type = "fml"
               PROVE  Holds(heap[ptr[c]].data, occurrence'[g], g)
    BY <1>2 DEF Held, Block
  <2>1. CASE g = f
    <3>1. Holds(Block(b).data, occ, f) /\ c = b /\ occurrence'[f] = occ
      BY <1>1, <1>2, <1>3, <2>1 DEF ObjectsOK
    <3> QED  BY <2>1, <3>1 DEF Block
  <2>2. CASE g # f
    <3>1. home[g] = c /\ occurrence'[g] = occurrence[g]
      BY <1>1, <1>2, <2>2 DEF ObjectsOK
    <3> QED  BY <1>1, <3>1 DEF Held, Block
  <2> QED  BY <2>1, <2>2
<1>6. ExtentKept' /\ OneExtendEnough'
  BY <1>1, <1>2 DEF ExtentKept, OneExtendEnough
<1> QED  BY <1>4, <1>5, <1>6 DEF IInv

\* The occurrences before the removed one stay.
LEMMA RemoveFieldStep ==
  ASSUME IInv, NEW b \in Buffers, NEW f \in Fields, RemoveField(b, f)
  PROVE  IInv'
<1>1. HeapOK /\ ObjectsOK /\ Held
  BY DEF IInv
<1>2. occurrence \in [Fields -> Nat] /\ home \in [Fields -> alive \cup {None}]
  BY <1>1 DEF ObjectsOK
<1>3. PICK occ \in Nat : occ = occurrence[f]
  BY <1>2
<1>4. PICK old, data : old = Block(b).data /\ data = RemoveAt(old, occ + 1)
  OBVIOUS
<1>5. Valid(b) /\ occ < Len(old)
  BY <1>3, <1>4 DEF RemoveField
<1>6. /\ b \in alive /\ ptr[b] \in Blocks
      /\ old \in Data /\ Used(old) \in Nat /\ Used(old) <= Block(b).size
      /\ Block(b).size \in Nat
  BY <1>1, <1>4, <1>5, SizesAssumption, ValidBlock
<1>7. Len(old) \in Nat /\ occ + 1 \in 1..Len(old)
  BY <1>5, <1>6, LenProperties DEF Data
<1>8. /\ data \in Data /\ Len(data) = Len(old) - 1
      /\ \A i \in 1..(Len(old) - 1) : data[i] = IF i < occ + 1 THEN old[i] ELSE old[i + 1]
  BY <1>4, <1>6, <1>7, Removed
<1>9. Used(data) <= Block(b).size
  <2>1. Used(data) <= Used(old) /\ Used(data) \in Nat
    BY <1>4, <1>6, <1>7, <1>8, UsedRemoved, UsedType
  <2> QED  BY <1>6, <2>1
<1>10. Rewrites(b, data)
  <2>1. heap' = [heap EXCEPT ![ptr[b]].data = RemoveAt(@, occ + 1)]
    BY <1>3 DEF RemoveField
  <2> QED  BY <1>4, <2>1 DEF Block, Rewrites, RemoveField
<1>11. home' = [g \in Fields |->
                  IF /\ home[g] \in alive /\ ptr[home[g]] = ptr[b]
                     /\ occurrence[g] >= occ THEN None ELSE home[g]]
  BY <1>3 DEF RemoveField, Homeless, In, Sharers
<1>12. home' \in [Fields -> alive \cup {None}]
  BY <1>2, <1>11
<1>13. ASSUME NEW g \in Fields, NEW c \in alive, home'[g] = c
       PROVE  \/ ptr[c] = ptr[b] /\ Holds(data, occurrence[g], g)
              \/ ptr[c] # ptr[b] /\ home[g] = c
  <2>1. c # None
    BY <1>1, NamesAssumption DEF ObjectsOK
  <2>2. home[g] = c /\ (ptr[c] = ptr[b] => ~(occurrence[g] >= occ))
    BY <1>11, <1>13, <2>1
  <2>3. CASE ptr[c] = ptr[b]
    <3>1. Holds(old, occurrence[g], g)
      BY <1>1, <1>4, <1>5, <2>2, <2>3 DEF Held, Valid, Block
    <3>2. PICK m \in Nat : m = occurrence[g]
      BY <1>2
    <3>3. m < occ
      BY <2>2, <2>3, <3>2
    <3>4. m + 1 \in 1..(Len(old) - 1) /\ m + 1 < occ + 1
      BY <1>7, <3>3
    <3>5. data[m + 1] = old[m + 1]
      BY <1>8, <3>4
    <3> QED  BY <1>7, <1>8, <2>3, <3>1, <3>2, <3>4, <3>5 DEF Holds
  <2> QED  BY <2>2, <2>3
<1> QED  BY <1>5, <1>8, <1>9, <1>10, <1>12, <1>13, ValuesStep

LEMMA CopyStep ==
  ASSUME IInv, NEW b \in Buffers, NEW c \in Buffers, Copy(b, c)
  PROVE  IInv'
<1>1. HeapOK /\ ObjectsOK
  BY DEF IInv
<1>2. PICK data : data = Block(c).data
  OBVIOUS
<1>3. /\ Valid(b) /\ Valid(c) /\ Used(data) <= Block(b).size
      /\ Rewrites(b, data)
      /\ home' = [g \in Fields |-> IF home[g] \in alive /\ ptr[home[g]] = ptr[b]
                                   THEN None ELSE home[g]]
  BY <1>2 DEF Copy, Homeless, In, Sharers, Rewrites
<1>4. data \in Data
  BY <1>1, <1>2, <1>3, ValidBlock
<1>5. home \in [Fields -> alive \cup {None}] /\ None \notin alive
  BY <1>1, NamesAssumption DEF ObjectsOK
<1>6. home' \in [Fields -> alive \cup {None}]
  BY <1>3, <1>5
<1>7. \A g \in Fields, d \in alive : home'[g] = d => ptr[d] # ptr[b] /\ home[g] = d
  BY <1>3, <1>5
<1> QED  BY <1>3, <1>4, <1>6, <1>7, ValuesStep

-----------------------------------------------------------------------------
(* Steps: answers *)

\* An answer in a block that has room for it; its fields are nobody's.
LEMMA AnswerGives ==
  ASSUME HeapOK, ObjectsOK, NEW b, Valid(b), NEW k \in Places(b),
         NEW type \in {"fml", "other"}, NEW data \in Answers, Answer(b, k, type, data)
  PROVE  /\ data \in Data
         /\ \E size \in 0..MaxSize : Used(data) <= size /\ Place(b, k, type, size, data)
         /\ home' \in [Fields -> alive \cup {None}]
         /\ \A f \in Fields, c \in alive : home'[f] = c => ptr[c] # ptr[b] /\ home[f] = c
         /\ alive' = alive /\ owns' = owns /\ extent' = extent
         /\ occurrence' = occurrence /\ tuned' = tuned /\ short' = short
<1>1. home \in [Fields -> alive \cup {None}] /\ None \notin alive
  BY NamesAssumption DEF ObjectsOK
<1>2. data \in Data
  <2>1. Null \in Values
    BY DEF Values
  <2>2. <<>> \in Data /\ <<Null>> \in Data
    BY <2>1, EmptySeq DEF Data
  <2> QED  BY <2>2 DEF Answers
<1>3. PICK size : size = IF k = ptr[b] THEN Block(b).size ELSE Default
  OBVIOUS
<1>4. size \in 0..MaxSize
  BY <1>3, ValidBlock, SizesAssumption
<1>5. Used(data) <= size /\ Place(b, k, type, size, data)
  BY <1>3 DEF Answer
<1>6. home' = [g \in Fields |-> IF home[g] \in alive /\ ptr[home[g]] = ptr[b]
                                THEN None ELSE home[g]]
  BY DEF Answer, Homeless, In, Sharers
<1>7. /\ home' \in [Fields -> alive \cup {None}]
      /\ \A f \in Fields, c \in alive : home'[f] = c => ptr[c] # ptr[b] /\ home[f] = c
  BY <1>1, <1>6
<1>8. /\ alive' = alive /\ owns' = owns /\ extent' = extent
      /\ occurrence' = occurrence /\ tuned' = tuned /\ short' = short
  BY DEF Answer, sizeVars
<1> QED  BY <1>2, <1>4, <1>5, <1>7, <1>8

LEMMA AnswerSetStep ==
  ASSUME IInv, NEW b \in Buffers, AnswerSet(b)
  PROVE  IInv'
<1>1. HeapOK /\ ObjectsOK /\ ExtentKept /\ OneExtendEnough
  BY DEF IInv
<1>2. PICK k \in Places(b), data \in Answers :
        Answer(b, k, "fml", data) /\ ptr' = Assign(b, k) /\ Moved(b, k, TRUE)
  BY DEF AnswerSet
<1>3. Valid(b)
  BY DEF AnswerSet
<1>4. /\ data \in Data
      /\ \E size \in 0..MaxSize : Used(data) <= size /\ Place(b, k, "fml", size, data)
      /\ home' \in [Fields -> alive \cup {None}]
      /\ \A f \in Fields, c \in alive : home'[f] = c => ptr[c] # ptr[b] /\ home[f] = c
      /\ alive' = alive /\ owns' = owns /\ extent' = extent
      /\ occurrence' = occurrence /\ tuned' = tuned /\ short' = short
  BY <1>1, <1>2, <1>3, AnswerGives
<1>5. PICK size \in 0..MaxSize : Used(data) <= size /\ Place(b, k, "fml", size, data)
  BY <1>4
<1>6. Moves(b, k, size, data)
  BY <1>2, <1>4, <1>5 DEF Moves
<1>7. /\ extent' \in [Buffers -> Int] /\ tuned' \subseteq alive /\ ExtentKept'
      /\ occurrence' \in [Fields -> Nat] /\ short' = {}
  BY <1>1, <1>4 DEF ObjectsOK, ExtentKept, OneExtendEnough
<1>8. \A f \in Fields, c \in alive : home'[f] = c =>
        \/ ptr[c] = ptr[b] /\ Holds(data, occurrence'[f], f)
        \/ ptr[c] # ptr[b] /\ home[f] = c /\ occurrence'[f] = occurrence[f]
  BY <1>4
<1> QED  BY <1>3, <1>4, <1>5, <1>6, <1>7, <1>8, MoveStep

\* An object that is not told where its block went does not free it.
LEMMA AnswerNotSetStep ==
  ASSUME IInv, NEW b \in Buffers, AnswerNotSet(b)
  PROVE  IInv'
<1>1. HeapOK /\ ObjectsOK /\ Owned /\ Held /\ ExtentKept /\ OneExtendEnough
  BY DEF IInv
<1>2. PICK k \in Places(b), type \in {"fml", "other"}, data \in Answers :
        /\ Answer(b, k, type, data)
        /\ Moved(b, k, FALSE)
  BY DEF AnswerNotSet
<1>3. Valid(b) /\ ptr' = ptr
  BY DEF AnswerNotSet
<1>4. /\ data \in Data
      /\ \E size \in 0..MaxSize : Used(data) <= size /\ Place(b, k, type, size, data)
      /\ home' \in [Fields -> alive \cup {None}]
      /\ \A f \in Fields, c \in alive : home'[f] = c => ptr[c] # ptr[b] /\ home[f] = c
      /\ alive' = alive /\ owns' = owns /\ extent' = extent
      /\ occurrence' = occurrence /\ tuned' = tuned /\ short' = short
  BY <1>1, <1>2, <1>3, AnswerGives
<1>5. PICK size \in 0..MaxSize : Used(data) <= size /\ Place(b, k, type, size, data)
  BY <1>4
<1>6. b \in alive /\ Lives(ptr[b])
  BY <1>3 DEF Valid, Block, Lives
<1>7. /\ HeapOK'
      /\ k \in Blocks /\ ptr[b] \in Blocks
      /\ heap'[k] = [type |-> type, size |-> size, data |-> data]
      /\ k # ptr[b] => /\ heap'[ptr[b]] = Dead
                       /\ ~Lives(k) /\ \A c \in alive : ptr[c] # k
      /\ \A j \in Blocks \ {k, ptr[b]} : heap'[j] = heap[j]
  BY <1>1, <1>4, <1>5, <1>6, PlaceGives
<1>8. \A c \in alive : ptr[c] \in Blocks
  BY <1>1 DEF ObjectsOK
<1>9. ObjectsOK'
  <2>1. orphaned' \subseteq Blocks /\ doubled' \subseteq Blocks
    BY <1>1, <1>2, <1>7 DEF Moved, ownerVars, ObjectsOK
  <2> QED  BY <1>1, <1>3, <1>4, <2>1 DEF ObjectsOK
<1>10. Owned'
  <2>1. type # "none"
    OBVIOUS
  <2>2. \A j \in Blocks : Lives(j)' <=> j = k \/ (Lives(j) /\ j # ptr[b])
    BY <1>7, <2>1 DEF Lives, Dead
  <2>3. CASE k = ptr[b]
    <3>1. orphaned' = orphaned /\ doubled' = doubled
      BY <1>2, <2>3 DEF Moved, ownerVars
    <3>2. \A j \in Blocks : Lives(j)' <=> Lives(j)
      BY <1>6, <2>2, <2>3
    <3>3. \A c \in owns : ptr[c] \in Blocks
      BY <1>1 DEF ObjectsOK
    <3> QED  BY <1>1, <1>3, <1>4, <3>1, <3>2, <3>3 DEF Owned, Lives
  <2>4. CASE k # ptr[b]
    <3>1. orphaned' = orphaned \cup {k} /\ doubled' = (doubled \ {k}) \cup {ptr[b]}
      BY <1>2, <2>4 DEF Moved
    <3>2. \A c \in owns : ptr'[c] = ptr[c]
      BY <1>3
    <3> QED  BY <1>1, <1>4, <1>6, <1>7, <2>2, <2>4, <3>1, <3>2, LeftOwned
  <2> QED  BY <2>3, <2>4
<1>11. Held'
  <2> SUFFICES ASSUME NEW f \in Fields, NEW c \in alive,
                      home'[f] = c, heap'[ptr[c]].type = "fml"
               PROVE  Holds(heap'[ptr[c]].data, occurrence[f], f)
    BY <1>3, <1>4 DEF Held, Block
  <2>1. ptr[c] # ptr[b] /\ home[f] = c
    BY <1>4
  <2>2. heap'[ptr[c]] = heap[ptr[c]]
    BY <1>7, <1>8, <2>1
  <2> QED  BY <1>1, <2>1, <2>2 DEF Held, Block
<1>12. ExtentKept' /\ OneExtendEnough'
  BY <1>1, <1>4 DEF ExtentKept, OneExtendEnough
<1> QED  BY <1>7, <1>9, <1>10, <1>11, <1>12 DEF IInv

-----------------------------------------------------------------------------
(* The theorems *)

\* Every step preserves the invariant.
LEMMA StepInv == IInv /\ [Next]_vars => IInv'
<1> SUFFICES ASSUME IInv, [Next]_vars PROVE IInv'
  OBVIOUS
<1>1. CASE UNCHANGED vars
  BY <1>1
  DEF IInv, HeapOK, ObjectsOK, Owned, Lives, Held, Block, ExtentKept, OneExtendEnough,
      vars, objectVars, fieldVars, ownerVars, sizeVars
<1>2. ASSUME NEW b \in Buffers,
             Create(b) \/ Destroy(b) \/ AnswerSet(b) \/ AnswerNotSet(b)
      PROVE  IInv'
  BY <1>2, CreateStep, DestroyStep, AnswerSetStep, AnswerNotSetStep
<1>3. ASSUME NEW b \in Buffers, Pack(b)
      PROVE  IInv'
  <2>1. PICK n : n = Used(Block(b).data)
    OBVIOUS
  <2>2. Valid(b) /\ Resize(b, n)
    BY <1>3, <2>1 DEF Pack, Resize
  <2>3. n \in 0..MaxSize
    <3>1. HeapOK /\ ObjectsOK
      BY DEF IInv
    <3>2. n \in Nat /\ Block(b).size \in 0..MaxSize /\ n <= Block(b).size
      BY <2>1, <2>2, <3>1, ValidBlock
    <3> QED  BY <3>2, SizesAssumption
  <2> QED  BY <2>2, <2>3, ResizeStep
<1>4. ASSUME NEW b \in Buffers, NEW c \in Buffers,
             Wrap(b, c) \/ CopyConstruct(b, c) \/ SetBuffer(b, c) \/ Copy(b, c)
      PROVE  IInv'
  BY <1>4, WrapStep, CopyConstructStep, SetBufferStep, CopyStep
<1>5. ASSUME NEW b \in Buffers, NEW n \in Sizes, Resize(b, n) \/ SetExtent(b, n)
      PROVE  IInv'
  <2>1. n \in 0..MaxSize
    BY SizesAssumption
  <2> QED  BY <1>5, <2>1, ResizeStep, SetExtentStep
<1>6. ASSUME NEW b \in Buffers, NEW f \in Fields,
             \/ Add(b, f) \/ AddExtending(b, f) \/ AddThrows(b, f)
             \/ Set(b, f) \/ RemoveField(b, f)
      PROVE  IInv'
  BY <1>6, AddStep, AddExtendingStep, AddThrowsStep, SetStep, RemoveFieldStep
<1>7. ASSUME NEW b \in Buffers, NEW f \in Fields, NEW occ \in Asked, Get(b, f, occ)
      PROVE  IInv'
  BY <1>7, GetStep
<1>8. ASSUME NEW b \in Buffers, NEW v \in BOOLEAN, SetHandlingMemory(b, v)
      PROVE  IInv'
  BY <1>8, SetHandlingMemoryStep
<1> QED  BY <1>1, <1>2, <1>3, <1>4, <1>5, <1>6, <1>7, <1>8 DEF Next

\* The invariant holds in every reachable state: whatever objects share a block, its
\* ownership, its values and the extents agree.
THEOREM Invariance == Spec => []IInv
<1>1. Init => IInv
  BY InitInv
<1>2. IInv /\ [Next]_vars => IInv'
  BY StepInv
<1> QED  BY <1>1, <1>2, PTL DEF Spec

\* Types; the values in a typed buffer never need more than its size (Fadd32, Fchg32
\* and Fcpy32 refuse, tprealloc is not asked for less), and an object has a block
\* exactly while it is constructed.
THEOREM TypeCorrect == Spec => []TypeOK
<1>1. IInv => TypeOK
  BY Gives
<1> QED  BY <1>1, Invariance, PTL

\* ~buffer (buffer.cpp) of some object frees each typed buffer, and of one only, for
\* any number of objects and in any order of operations, until an operation that the
\* property names leaves the buffer without an owner or gives it a second one.
THEOREM FreedOnceHolds == Spec => []FreedOnce
<1>1. IInv => FreedOnce
  BY Gives
<1> QED  BY <1>1, Invariance, PTL

\* add (buffer.cpp) leaves in the field the occurrence of the value it wrote, and the
\* field keeps finding it there through resizes, moves, adds and removals after it.
THEOREM OccurrenceHeldHolds == Spec => []OccurrenceHeld
<1>1. IInv => OccurrenceHeld
  BY Gives
<1> QED  BY <1>1, Invariance, PTL

\* add (buffer.cpp) extends once and tries once: with an extent of the default or more
\* that is enough for any value the default has room for.
THEOREM OneExtendSuffices == Spec => []OneExtendEnough
<1>1. IInv => OneExtendEnough
  BY DEF IInv
<1> QED  BY <1>1, Invariance, PTL
=============================================================================
