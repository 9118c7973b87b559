-------------------------- MODULE CarrayFieldProofs -------------------------
(***************************************************************************)
(* Proofs about CarrayField, for any objects and byte sequences.           *)
(*                                                                         *)
(* Every operation on an object is a function of its members, so the       *)
(* argument is about one object: Sound, preserved by each of them.         *)
(***************************************************************************)
EXTENDS CarrayField, TLAPS, SequenceTheorems

Objects == [value : Seq(Octets) \cup {Null}, bufferSize : Nat, length : Nat, blocks : Nat]

\* The members of one object agree with each other, but for _buffer_size ...
Sound(c) ==
  /\ c \in Objects
  /\ c.length <= Len(Bytes(c.value))
  /\ c.blocks = One(Bytes(c.value))
  /\ c.bufferSize = Len(Bytes(c.value)) \/ c.value = Null

\* ... which is the size of the memory unless new char[] threw.
Backed(c) == c.bufferSize = Len(Bytes(c.value))

IInv == TypeOK /\ WithinMemory /\ HoldsWhatItWasGiven /\ NothingLeaked

\* The invariant says that every object is sound and holds what it was given.
LEMMA EachSound ==
  IInv <=> /\ field \in [Fields -> Objects]
           /\ occurrence \in [Fields -> Nat]
           /\ data \in Seq(Seq(Octets))
           /\ process \in {"runs", "killed"}
           /\ given \in [Fields -> Seq(Octets) \cup {Null}]
           /\ failed \subseteq Fields
           /\ process = "killed" => failed # {}
           /\ \A f \in Fields : /\ Sound(field[f])
                                /\ Backed(field[f]) \/ f \in failed
                                /\ given[f] \in {Content(field[f]), Null}
  BY DEF IInv, TypeOK, WithinMemory, HoldsWhatItWasGiven, NothingLeaked, Sound, Backed, Objects

\* What a sound object keeps in its memory is a byte sequence.
LEMMA SoundBytes ==
  ASSUME NEW c, Sound(c)
  PROVE  /\ Bytes(c.value) \in Seq(Octets) /\ Len(Bytes(c.value)) \in Nat
         /\ Content(c) \in Seq(Octets)
         /\ Len(Content(c)) = c.length
         /\ c.value = Null => Bytes(c.value) = <<>> /\ Len(Bytes(c.value)) = 0
                              /\ c.length = 0 /\ c.blocks = 0
<1>1. Bytes(c.value) \in Seq(Octets) /\ Len(Bytes(c.value)) \in Nat
  BY EmptySeq, LenProperties DEF Sound, Objects, Bytes
<1>2. Content(c) \in Seq(Octets) /\ Len(Content(c)) = c.length
  BY <1>1, SubSeqProperties DEF Sound, Objects, Content
<1>3. c.value = Null => Bytes(c.value) = <<>> /\ Len(Bytes(c.value)) = 0
                        /\ c.length = 0 /\ c.blocks = 0
  BY DEF Sound, Objects, Bytes, One
<1> QED  BY <1>1, <1>2, <1>3

\* free_ressources leaves a sound object without memory, and says so unless the
\* object had none before.
LEMMA FreedSound ==
  ASSUME NEW c, Sound(c)
  PROVE  /\ Sound(Freed(c)) /\ Content(Freed(c)) = <<>>
         /\ Freed(c).blocks = 0 /\ Freed(c).value = Null /\ Freed(c).length = 0
         /\ Freed(c).bufferSize \in Nat
         /\ Backed(c) => Backed(Freed(c))
<1>1. CASE c.value = Null
  <2>1. Freed(c) = c
    BY <1>1 DEF Freed
  <2>2. c.length = 0 /\ c.blocks = 0 /\ Bytes(c.value) = <<>>
    BY <1>1, SoundBytes
  <2>3. Content(c) = <<>>
    BY <2>2 DEF Content
  <2> QED  BY <1>1, <2>1, <2>2, <2>3 DEF Sound, Objects
<1>2. CASE c.value # Null
  <2>1. Freed(c) = Empty
    BY <1>2 DEF Sound, Objects, Freed, Empty, Bytes, One
  <2>2. Sound(Empty) /\ Content(Empty) = <<>> /\ Backed(Empty)
    BY DEF Sound, Backed, Objects, Empty, Bytes, One, Content
  <2> QED  BY <2>1, <2>2 DEF Empty
<1> QED  BY <1>1, <1>2

\* Memory of the value's size, where there was none, holds just the value.
LEMMA AllocatedSound ==
  ASSUME NEW c, Sound(c), c.blocks = 0, NEW v \in Seq(Octets)
  PROVE  /\ Sound(Allocated(c, v)) /\ Backed(Allocated(c, v))
         /\ Content(Allocated(c, v)) = v
<1>1. v # Null /\ Bytes(v) = v
  BY ValuesAssumption DEF Bytes
<1>2. Sound(Allocated(c, v)) /\ Backed(Allocated(c, v))
  BY <1>1, LenProperties DEF Sound, Backed, Objects, Allocated, One
<1>3. Content(Allocated(c, v)) = v
  BY <1>1, SubSeqFull DEF Allocated, Content
<1> QED  BY <1>2, <1>3

\* A value copied into memory that is large enough: the rest is never shown.
LEMMA OverwrittenSound ==
  ASSUME NEW c, Sound(c), NEW v \in Seq(Octets), Len(v) <= Len(Bytes(c.value))
  PROVE  /\ Sound(Overwritten(c, v)) /\ Content(Overwritten(c, v)) = v
         /\ Backed(c) => Backed(Overwritten(c, v))
<1>1. CASE v = <<>>
  <2>1. Overwritten(c, v) = [value |-> c.value, bufferSize |-> c.bufferSize,
                             length |-> 0, blocks |-> c.blocks]
    BY <1>1 DEF Sound, Objects, Overwritten
  <2>2. Sound(Overwritten(c, v)) /\ (Backed(c) => Backed(Overwritten(c, v)))
    BY <2>1, SoundBytes DEF Sound, Backed, Objects
  <2>3. Content(Overwritten(c, v)) \in Seq(Octets) /\ Len(Content(Overwritten(c, v))) = 0
    BY <2>1, <2>2, SoundBytes
  <2> QED  BY <1>1, <2>2, <2>3, EmptySeq
<1>2. CASE v # <<>>
  <2> DEFINE rest == SubSeq(c.value, Len(v) + 1, Len(c.value))
  <2>1. Len(v) \in Nat /\ Len(v) > 0
    BY <1>2, LenProperties, EmptySeq
  <2>2. c.value # Null /\ c.value \in Seq(Octets) /\ c.bufferSize = Len(c.value)
        /\ Bytes(c.value) = c.value
    BY <2>1, SoundBytes DEF Sound, Objects, Bytes
  <2>3. rest \in Seq(Octets) /\ Len(rest) = Len(c.value) - Len(v)
    BY <2>1, <2>2, LenProperties, SubSeqProperties DEF Sound, Objects
  <2>4. v \o rest \in Seq(Octets) /\ Len(v \o rest) = c.bufferSize
    BY <2>1, <2>2, <2>3, ConcatProperties DEF Sound, Objects
  <2>5. SubSeq(v \o rest, 1, Len(v)) = v
    BY <2>3, SubSeqOfConcat1, SubSeqFull, LenProperties
  <2>6. Overwritten(c, v) = [value |-> v \o rest, bufferSize |-> c.bufferSize,
                             length |-> Len(v), blocks |-> c.blocks]
    BY <1>2 DEF Sound, Objects, Overwritten
  <2>7. v \o rest # Null /\ v \o rest # <<>> /\ c.value # <<>>
    <3>1. c.bufferSize \in Nat /\ c.bufferSize > 0
      BY <2>1, <2>2 DEF Sound, Objects
    <3>2. Len(<<>>) = 0
      BY EmptySeq
    <3>3. \A w \in Seq(Octets) : Len(w) = c.bufferSize => w # Null /\ w # <<>>
      BY <3>1, <3>2, ValuesAssumption
    <3> HIDE DEF rest
    <3> QED  BY <2>2, <2>4, <3>3
  <2>8. c.blocks = 1
    BY <2>2, <2>7 DEF Sound, Bytes, One
  <2> HIDE DEF rest
  <2>9. Sound(Overwritten(c, v)) /\ Backed(Overwritten(c, v))
    BY <2>1, <2>2, <2>4, <2>6, <2>7, <2>8 DEF Sound, Backed, Objects, Bytes, One
  <2> QED  BY <2>5, <2>6, <2>7, <2>9 DEF Content, Bytes
<1> QED  BY <1>1, <1>2

\* set_char_array: the object holds the value, in its own memory or in new one.
LEMMA AssignedSound ==
  ASSUME NEW c, Sound(c), NEW v \in Seq(Octets), ~FollowsNull(c, Len(v))
  PROVE  /\ Sound(Assigned(c, v)) /\ Content(Assigned(c, v)) = v
         /\ Backed(c) \/ Len(v) > c.bufferSize => Backed(Assigned(c, v))
<1>1. CASE Len(v) > c.bufferSize
  BY <1>1, FreedSound, AllocatedSound DEF Assigned
<1>2. CASE ~(Len(v) > c.bufferSize)
  <2>1. Len(v) \in Nat /\ c.bufferSize \in Nat /\ Assigned(c, v) = Overwritten(c, v)
    BY <1>2, LenProperties DEF Assigned, Sound, Objects
  <2>2. Len(v) <= Len(Bytes(c.value))
    <3>1. CASE c.value = Null
      BY <1>2, <2>1, <3>1, SoundBytes DEF FollowsNull
    <3>2. CASE c.value # Null
      BY <1>2, <2>1, <3>2 DEF Sound
    <3> QED  BY <3>1, <3>2
  <2> QED  BY <1>2, <2>1, <2>2, OverwrittenSound
<1> QED  BY <1>1, <1>2

\* After new char[] threw only _buffer_size is wrong.
LEMMA UnbackedSound ==
  ASSUME NEW c, Sound(c), NEW v \in Seq(Octets)
  PROVE  Sound(Unbacked(c, v)) /\ Content(Unbacked(c, v)) = <<>>
<1>1. PICK d : d = Freed(c)
  OBVIOUS
<1>2. Sound(d) /\ d.value = Null /\ d.length = 0
  BY <1>1, FreedSound
<1>3. Len(v) \in Nat
  BY LenProperties
<1>4. Unbacked(c, v) = [value |-> Null, bufferSize |-> Len(v), length |-> 0,
                        blocks |-> d.blocks]
  BY <1>1, <1>2 DEF Unbacked, Sound, Objects
<1> QED  BY <1>2, <1>3, <1>4 DEF Sound, Objects, Content

\* An operation on one object, after which it is sound and holds v.
LEMMA OneObject ==
  ASSUME IInv, NEW f \in Fields, NEW c, Sound(c), NEW v \in {Content(c), Null},
         field' = [field EXCEPT ![f] = c], given' = [given EXCEPT ![f] = v],
         occurrence' \in [Fields -> Nat], data' \in Seq(Seq(Octets)),
         process' = "runs",
         \/ failed' = failed \cup {f}
         \/ Backed(c) /\ failed' = failed \ {f}
         \/ (Backed(field[f]) => Backed(c)) /\ failed' = failed
  PROVE  IInv'
<1>1. c \in Objects /\ v \in Seq(Octets) \cup {Null}
  BY SoundBytes DEF Sound
<1>2. /\ field' \in [Fields -> Objects]
      /\ given' \in [Fields -> Seq(Octets) \cup {Null}]
      /\ failed' \subseteq Fields
  BY <1>1, EachSound
<1>3. ASSUME NEW g \in Fields
      PROVE  /\ Sound(field'[g]) /\ given'[g] \in {Content(field'[g]), Null}
             /\ Backed(field'[g]) \/ g \in failed'
  BY EachSound
<1> QED
  BY <1>2, <1>3
  DEF IInv, TypeOK, WithinMemory, HoldsWhatItWasGiven, NothingLeaked, Sound, Backed, Objects

\* A step that changes the FML buffer or the occurrence an object looks at, only.
LEMMA OthersOnly ==
  ASSUME IInv, UNCHANGED <<field, process, given, failed>>,
         occurrence' \in [Fields -> Nat], data' \in Seq(Seq(Octets))
  PROVE  IInv'
  BY DEF IInv, TypeOK, WithinMemory, HoldsWhatItWasGiven, NothingLeaked

\* The bytes of an occurrence, and removing one.
LEMMA Occurrences ==
  ASSUME NEW d \in Seq(Seq(Octets)), NEW n \in Nat, n < Len(d)
  PROVE  d[n + 1] \in Seq(Octets) /\ RemoveAt(d, n + 1) \in Seq(Seq(Octets))
<1>1. Len(d) \in Nat /\ n + 1 \in 1..Len(d)
  BY LenProperties
<1>2. d[n + 1] \in Seq(Octets)
  BY <1>1, ElementOfSeq
<1>3. SubSeq(d, 1, n + 1 - 1) \in Seq(Seq(Octets))
      /\ SubSeq(d, n + 1 + 1, Len(d)) \in Seq(Seq(Octets))
  BY <1>1, SubSeqProperties
<1> QED  BY <1>2, <1>3, ConcatProperties DEF RemoveAt

\* The initial state satisfies the invariant.
LEMMA InitInv == Init => IInv
<1> SUFFICES ASSUME Init PROVE IInv
  OBVIOUS
<1>1. Sound(Empty) /\ Backed(Empty) /\ Content(Empty) = <<>>
  BY DEF Sound, Backed, Objects, Empty, Bytes, One, Content
<1>2. <<>> \in Seq(Octets) /\ <<>> \in Seq(Seq(Octets))
  BY EmptySeq
<1>3. field \in [Fields -> Objects] /\ \A f \in Fields : field[f] = Empty
  BY <1>1 DEF Init, Sound
<1>4. given \in [Fields -> Seq(Octets)] /\ \A f \in Fields : given[f] = <<>>
  BY <1>2 DEF Init
<1>5. occurrence \in [Fields -> Nat] /\ data \in Seq(Seq(Octets))
  BY <1>2 DEF Init
<1>6. process = "runs" /\ failed = {}
  BY DEF Init
<1> QED  BY <1>1, <1>3, <1>4, <1>5, <1>6, EachSound

\* set_char_array, whether new char[] throws or not.
LEMMA SetStep ==
  ASSUME IInv, process = "runs", NEW f \in Fields, NEW v \in Seq(Octets),
         SetCharArray(f, v) \/ NewThrows(f, v)
  PROVE  IInv'
<1>1. PICK c : c = field[f]
  OBVIOUS
<1>2. Sound(c) /\ occurrence \in [Fields -> Nat] /\ data \in Seq(Seq(Octets))
  BY <1>1, EachSound
<1>3. CASE SetCharArray(f, v)
  <2>1. /\ ~FollowsNull(c, Len(v))
        /\ field' = [field EXCEPT ![f] = Assigned(c, v)] /\ given' = [given EXCEPT ![f] = v]
        /\ failed' = IF Len(v) > c.bufferSize THEN failed \ {f} ELSE failed
        /\ occurrence' = occurrence /\ data' = data /\ process' = "runs"
    BY <1>1, <1>3 DEF SetCharArray
  <2>2. /\ Sound(Assigned(c, v)) /\ Content(Assigned(c, v)) = v
        /\ Backed(c) \/ Len(v) > c.bufferSize => Backed(Assigned(c, v))
    BY <1>2, <2>1, AssignedSound
  <2> QED  BY <1>1, <1>2, <2>1, <2>2, OneObject
<1>4. CASE NewThrows(f, v)
  <2>1. /\ field' = [field EXCEPT ![f] = Unbacked(c, v)] /\ given' = [given EXCEPT ![f] = <<>>]
        /\ failed' = failed \cup {f}
        /\ occurrence' = occurrence /\ data' = data /\ process' = "runs"
    BY <1>1, <1>4 DEF NewThrows
  <2>2. Sound(Unbacked(c, v)) /\ Content(Unbacked(c, v)) = <<>>
    BY <1>2, UnbackedSound
  <2> QED  BY <1>2, <2>1, <2>2, OneObject
<1> QED  BY <1>3, <1>4

\* Only an object whose new char[] threw has a null pointer to follow.
LEMMA KilledStep ==
  ASSUME IInv, NEW f \in Fields, NEW n, Killed(f, n)
  PROVE  IInv'
<1>1. PICK c : c = field[f]
  OBVIOUS
<1>2. Sound(c) /\ (Backed(c) \/ f \in failed)
  BY <1>1, EachSound
<1>3. /\ c.value = Null /\ c.bufferSize > 0 /\ process' = "killed"
      /\ UNCHANGED <<field, occurrence, data, given, failed>>
  BY <1>1 DEF Killed, FollowsNull
<1>4. c.bufferSize # Len(Bytes(c.value))
  <2>1. Len(Bytes(c.value)) = 0 /\ c.bufferSize \in Nat
    BY <1>2, <1>3, SoundBytes DEF Sound, Objects
  <2> QED  BY <1>3, <2>1
<1>5. failed # {}
  BY <1>2, <1>4 DEF Backed
<1> QED
  BY <1>3, <1>5 DEF IInv, TypeOK, WithinMemory, HoldsWhatItWasGiven, NothingLeaked

\* get_char_array changes the length within the memory.
LEMMA LengthStep ==
  ASSUME IInv, process = "runs", NEW f \in Fields, NEW n \in Nat, GetCharArray(f, n)
  PROVE  IInv'
<1>1. PICK c : c = field[f]
  OBVIOUS
<1> DEFINE length == Smaller(n, c.bufferSize)
           d == [value |-> c.value, bufferSize |-> c.bufferSize,
                 length |-> length, blocks |-> c.blocks]
<1>2. Sound(c) /\ given[f] \in {Content(c), Null}
  BY <1>1, EachSound
<1>3. length \in Nat /\ length <= c.bufferSize /\ c.bufferSize \in Nat
      /\ ~FollowsNull(c, length)
  BY <1>1, <1>2 DEF Sound, Objects, Smaller, GetCharArray
<1>4. [c EXCEPT !.length = length] = d
  BY <1>2 DEF Sound, Objects
<1> HIDE DEF length
<1>5. length <= Len(Bytes(c.value))
  <2>1. CASE c.value = Null
    BY <1>2, <1>3, <2>1, SoundBytes DEF FollowsNull
  <2>2. CASE c.value # Null
    BY <1>2, <1>3, <2>2 DEF Sound
  <2> QED  BY <2>1, <2>2
<1>6. /\ Sound(d) /\ (length = c.length => Content(d) = Content(c))
      /\ Backed(c) => Backed(d)
  BY <1>2, <1>3, <1>5 DEF Sound, Backed, Objects, Content
<1>7. field' = [field EXCEPT ![f] = d]
  BY <1>1, <1>4 DEF GetCharArray, length
<1>8. PICK w : w = IF length = c.length THEN given[f] ELSE Null
  OBVIOUS
<1>9. given' = [given EXCEPT ![f] = w] /\ w \in {Content(d), Null}
  BY <1>1, <1>2, <1>6, <1>8 DEF GetCharArray, length
<1>10. /\ occurrence' \in [Fields -> Nat] /\ data' \in Seq(Seq(Octets))
       /\ process' = "runs" /\ failed' = failed
  BY DEF GetCharArray, IInv, TypeOK
<1> HIDE DEF d
<1> QED  BY <1>1, <1>6, <1>7, <1>9, <1>10, OneObject

\* free_ressources, the destructor with the next constructor, and a get that throws.
LEMMA FreeStep ==
  ASSUME IInv, process = "runs", NEW f \in Fields,
         occurrence' \in [Fields -> Nat], data' = data, process' = "runs",
         given' = [given EXCEPT ![f] = <<>>],
         \/ field' = [field EXCEPT ![f] = Freed(@)] /\ failed' = failed
         \/ /\ field' = [field EXCEPT ![f] = [Empty EXCEPT !.blocks = Freed(field[f]).blocks]]
            /\ failed' = failed \ {f}
         \/ /\ field[f].bufferSize = 0 /\ failed' = failed
            /\ field' = [field EXCEPT ![f] = [@ EXCEPT !.value = Null]]
  PROVE  IInv'
<1>1. PICK c : c = field[f]
  OBVIOUS
<1>2. Sound(c) /\ data' \in Seq(Seq(Octets))
  BY <1>1, EachSound
<1>3. Sound(Empty) /\ Backed(Empty) /\ Content(Empty) = <<>>
  BY DEF Sound, Backed, Objects, Empty, Bytes, One, Content
<1>4. CASE field' = [field EXCEPT ![f] = Freed(c)] /\ failed' = failed
  <2>1. /\ Sound(Freed(c)) /\ Content(Freed(c)) = <<>>
        /\ Backed(c) => Backed(Freed(c))
    BY <1>2, FreedSound
  <2> QED  BY <1>1, <1>2, <1>4, <2>1, OneObject
<1>5. CASE /\ field' = [field EXCEPT ![f] = [Empty EXCEPT !.blocks = Freed(c).blocks]]
           /\ failed' = failed \ {f}
  <2>1. [Empty EXCEPT !.blocks = Freed(c).blocks] = Empty
    BY <1>2, FreedSound DEF Empty
  <2> QED  BY <1>2, <1>3, <1>5, <2>1, OneObject
<1>6. CASE /\ c.bufferSize = 0 /\ failed' = failed
           /\ field' = [field EXCEPT ![f] = [c EXCEPT !.value = Null]]
  <2>1. Bytes(c.value) = <<>>
    BY <1>2, <1>6, SoundBytes, EmptySeq DEF Sound
  <2>2. c.length = 0 /\ c.blocks = 0
    BY <1>2, <2>1 DEF Sound, Objects, One
  <2>3. [c EXCEPT !.value = Null] = Empty
    <3>1. c \in Objects /\ c.bufferSize = 0
      BY <1>2, <1>6 DEF Sound
    <3> QED  BY <2>2, <3>1 DEF Objects, Empty
  <2> QED  BY <1>2, <1>3, <1>6, <2>3, OneObject
<1>7. ASSUME field' = [field EXCEPT ![f] = Freed(@)], failed' = failed
      PROVE  IInv'
  <2>1. field' = [field EXCEPT ![f] = Freed(c)]
    BY <1>1, <1>7
  <2> QED  BY <1>4, <1>7, <2>1
<1>8. ASSUME field' = [field EXCEPT ![f] = [Empty EXCEPT !.blocks = Freed(field[f]).blocks]],
             failed' = failed \ {f}
      PROVE  IInv'
  <2>1. field' = [field EXCEPT ![f] = [Empty EXCEPT !.blocks = Freed(c).blocks]]
    BY <1>1, <1>8
  <2> QED  BY <1>5, <1>8, <2>1
<1>9. ASSUME field[f].bufferSize = 0, failed' = failed,
             field' = [field EXCEPT ![f] = [@ EXCEPT !.value = Null]]
      PROVE  IInv'
  <2>1. field' = [field EXCEPT ![f] = [c EXCEPT !.value = Null]] /\ c.bufferSize = 0
    BY <1>1, <1>9
  <2> QED  BY <1>6, <1>9, <2>1
<1> QED  BY <1>7, <1>8, <1>9

\* get, when it finds the occurrence.
LEMMA GetStep ==
  ASSUME IInv, process = "runs", NEW f \in Fields, NEW occ \in Nat, occ < Len(data),
         Stored(occ) \in Seq(Octets),
         GetFirst(f, occ) \/ GetFits(f, occ) \/ GetLonger(f, occ)
  PROVE  IInv'
<1>1. PICK c, v : c = field[f] /\ v = Stored(occ)
  OBVIOUS
<1>2. Sound(c) /\ v \in Seq(Octets) /\ Len(v) \in Nat
  BY <1>1, EachSound, LenProperties
<1>3. /\ occurrence' \in [Fields -> Nat] /\ data' \in Seq(Seq(Octets)) /\ process' = "runs"
  BY EachSound DEF GetFirst, GetFits, GetLonger, Looks, Found
<1>4. CASE GetFirst(f, occ)
  <2>1. /\ c.bufferSize = 0 /\ field' = [field EXCEPT ![f] = Allocated(c, v)]
        /\ given' = [given EXCEPT ![f] = v] /\ failed' = failed
    BY <1>1, <1>4 DEF GetFirst, Found
  <2>2. c.blocks = 0
    <3>1. Bytes(c.value) = <<>>
      BY <1>2, <2>1, SoundBytes, EmptySeq DEF Sound
    <3> QED  BY <1>2, <3>1 DEF Sound, One
  <2>3. /\ Sound(Allocated(c, v)) /\ Content(Allocated(c, v)) = v
        /\ Backed(Allocated(c, v))
    BY <1>2, <2>2, AllocatedSound
  <2> QED  BY <1>1, <1>3, <2>1, <2>3, OneObject
<1>5. CASE GetFits(f, occ)
  <2>1. /\ Len(v) <= c.length /\ field' = [field EXCEPT ![f] = Overwritten(c, v)]
        /\ given' = [given EXCEPT ![f] = v] /\ failed' = failed
    BY <1>1, <1>5 DEF GetFits, Fits, Found
  <2>2. Len(v) <= Len(Bytes(c.value))
    <3>1. c.length \in Nat /\ c.length <= Len(Bytes(c.value)) /\ Len(Bytes(c.value)) \in Nat
      BY <1>2, SoundBytes DEF Sound, Objects
    <3> QED  BY <1>2, <2>1, <3>1
  <2>3. /\ Sound(Overwritten(c, v)) /\ Content(Overwritten(c, v)) = v
        /\ Backed(c) => Backed(Overwritten(c, v))
    BY <1>2, <2>2, OverwrittenSound
  <2> QED  BY <1>1, <1>3, <2>1, <2>3, OneObject
<1>6. CASE GetLonger(f, occ)
  <2>1. PICK d : d = Freed(c)
    OBVIOUS
  <2>2. Sound(d) /\ d.blocks = 0 /\ d.bufferSize \in Nat
    BY <1>2, <2>1, FreedSound
  <2>3. PICK extra : extra = [i \in 1..d.bufferSize |-> Junk]
    OBVIOUS
  <2>4. extra \in Seq(Octets)
    <3>1. extra \in [1..d.bufferSize -> Octets]
      BY <2>3, ValuesAssumption
    <3>2. \A n \in Nat : \A g \in [1..n -> Octets] : g \in Seq(Octets)
      OBVIOUS
    <3> QED  BY <2>2, <3>1, <3>2
  <2>5. PICK w : w = v \o extra
    OBVIOUS
  <2>6. w \in Seq(Octets) /\ (extra = <<>> => w = v)
    BY <1>2, <2>4, <2>5, ConcatProperties, ConcatEmptySeq
  <2>7. /\ field' = [field EXCEPT ![f] = Allocated(d, w)] /\ failed' = failed \ {f}
        /\ given' = [given EXCEPT ![f] = IF extra = <<>> THEN v ELSE Null]
    BY <1>1, <1>6, <2>1, <2>3, <2>5 DEF GetLonger, Found
  <2>8. /\ Sound(Allocated(d, w)) /\ Content(Allocated(d, w)) = w
        /\ Backed(Allocated(d, w))
    BY <2>2, <2>6, AllocatedSound
  <2>9. PICK u : u = IF extra = <<>> THEN v ELSE Null
    OBVIOUS
  <2>10. u \in {w, Null}
    BY <2>6, <2>9
  <2> QED  BY <1>3, <2>7, <2>8, <2>9, <2>10, OneObject
<1> QED  BY <1>4, <1>5, <1>6

\* Fchg32 leaves byte sequences in the buffer.
LEMMA ChangedType ==
  ASSUME IInv, NEW f \in Fields, Set(f)
  PROVE  data' \in Seq(Seq(Octets))
<1>1. PICK c, occ, d : c = field[f] /\ occ = occurrence[f] /\ d = data
  OBVIOUS
<1>2. Sound(c) /\ occ \in Nat /\ d \in Seq(Seq(Octets))
  BY <1>1, EachSound
<1>3. Content(c) \in Seq(Octets) /\ Len(d) \in Nat /\ <<>> \in Seq(Octets)
  BY <1>2, SoundBytes, LenProperties, EmptySeq
<1>4. CASE c.value = Null
  <2>1. occ < Len(d) /\ data' = RemoveAt(d, occ + 1)
    BY <1>1, <1>4 DEF Set, Changed
  <2> QED  BY <1>2, <2>1, Occurrences
<1>5. CASE c.value # Null /\ occ < Len(d)
  <2>1. data' = [d EXCEPT ![occ + 1] = Content(c)]
    BY <1>1, <1>5 DEF Set, Changed, ReplaceAt
  <2>2. occ + 1 \in 1..Len(d)
    BY <1>2, <1>3, <1>5
  <2> QED  BY <1>2, <1>3, <2>1, <2>2, ExceptSeq
<1>6. CASE c.value # Null /\ ~(occ < Len(d))
  <2> DEFINE gap == [i \in 1..(occ - Len(d)) |-> <<>>]
  <2>1. data' = d \o gap \o <<Content(c)>>
    BY <1>1, <1>6 DEF Set, Changed
  <2>2. occ - Len(d) \in Nat
    BY <1>2, <1>3, <1>6
  <2>3. gap \in Seq(Seq(Octets))
    <3>1. gap \in [1..(occ - Len(d)) -> Seq(Octets)]
      BY <1>3
    <3>2. \A n \in Nat : \A g \in [1..n -> Seq(Octets)] : g \in Seq(Seq(Octets))
      OBVIOUS
    <3> HIDE DEF gap
    <3> QED  BY <2>2, <3>1, <3>2
  <2>4. <<Content(c)>> \in Seq(Seq(Octets))
    BY <1>3
  <2> HIDE DEF gap
  <2> QED  BY <1>2, <2>1, <2>3, <2>4, ConcatProperties
<1> QED  BY <1>4, <1>5, <1>6

\* Every step keeps the invariant.
LEMMA StepInv == IInv /\ [Next]_vars => IInv'
<1> SUFFICES ASSUME IInv, [Next]_vars PROVE IInv'
  OBVIOUS
<1>1. /\ field \in [Fields -> Objects] /\ occurrence \in [Fields -> Nat]
      /\ data \in Seq(Seq(Octets)) /\ Len(data) \in Nat
  BY EachSound, LenProperties
<1>2. ASSUME NEW n \in Nat, n < Len(data)
      PROVE  data[n + 1] \in Seq(Octets) /\ RemoveAt(data, n + 1) \in Seq(Seq(Octets))
  <2>1. PICK d : d = data
    OBVIOUS
  <2> QED  BY <1>1, <1>2, <2>1, Occurrences
<1>3. ASSUME process = "runs", NEW f \in Fields, NEW v \in Seq(Octets),
             SetCharArray(f, v) \/ NewThrows(f, v)
      PROVE  IInv'
  BY <1>3, SetStep
<1>14. ASSUME NEW f \in Fields, NEW n, Killed(f, n)
       PROVE  IInv'
  BY <1>14, KilledStep
<1>4. ASSUME process = "runs", NEW f \in Fields, NEW g \in Fields, Copy(f, g)
      PROVE  IInv'
  <2>1. PICK c, v : c = field[g] /\ v = Content(c)
    OBVIOUS
  <2>2. v \in Seq(Octets)
    BY <2>1, EachSound, SoundBytes
  <2>3. SetCharArray(f, v) \/ NewThrows(f, v) \/ Killed(f, Len(v))
    BY <1>4, <2>1 DEF Copy
  <2> QED  BY <1>3, <1>4, <1>14, <2>2, <2>3
<1>5. ASSUME process = "runs", NEW f \in Fields, FreeRessources(f) \/ Renew(f)
      PROVE  IInv'
  <2>1. occurrence' \in [Fields -> Nat] /\ data' = data /\ process' = "runs"
    BY <1>1, <1>5 DEF FreeRessources, Renew
  <2>2. /\ given' = [given EXCEPT ![f] = <<>>]
        /\ \/ field' = [field EXCEPT ![f] = Freed(@)] /\ failed' = failed
           \/ /\ field' = [field EXCEPT ![f] = [Empty EXCEPT !.blocks = Freed(field[f]).blocks]]
              /\ failed' = failed \ {f}
    BY <1>5 DEF FreeRessources, Renew
  <2> QED  BY <1>5, <2>1, <2>2, FreeStep
<1>6. ASSUME NEW f \in Fields, Set(f)
      PROVE  IInv'
  BY <1>1, <1>6, ChangedType, OthersOnly DEF Set
<1>7. ASSUME NEW f \in Fields, Add(f)
      PROVE  IInv'
  <2>1. Content(field[f]) \in Seq(Octets)
    <3>1. PICK c : c = field[f]
      OBVIOUS
    <3> QED  BY <3>1, EachSound, SoundBytes
  <2>2. data' \in Seq(Seq(Octets))
    BY <1>1, <1>7, <2>1, AppendProperties DEF Add
  <2>3. occurrence' \in [Fields -> Nat]
    BY <1>1, <1>7 DEF Add
  <2> QED  BY <1>7, <2>2, <2>3, OthersOnly DEF Add
<1>8. ASSUME NEW f \in Fields, RemoveField(f)
      PROVE  IInv'
  <2>1. data' \in Seq(Seq(Octets))
    BY <1>1, <1>2, <1>8 DEF RemoveField, Present
  <2> QED  BY <1>1, <1>8, <2>1, OthersOnly DEF RemoveField
<1>9. ASSUME NEW v \in Values, Answer(v)
      PROVE  IInv'
  <2>1. data' \in Seq(Seq(Octets))
    BY <1>9, ValuesAssumption DEF Answer
  <2> QED  BY <1>1, <1>9, <2>1, OthersOnly DEF Answer
<1>10. ASSUME process = "runs", NEW f \in Fields, NEW occ \in 0..(MaxOccurrences - 1),
              \/ GetFirst(f, occ) \/ GetFits(f, occ) \/ GetLonger(f, occ)
              \/ GetAbsent(f, occ) \/ GetThrows(f, occ)
       PROVE  IInv'
  <2>1. occ \in Nat
    BY BoundsAssumption
  <2>2. CASE GetFirst(f, occ) \/ GetFits(f, occ) \/ GetLonger(f, occ)
    <3>1. occ < Len(data)
      BY <2>2 DEF GetFirst, GetFits, Fits, GetLonger, Present
    <3>2. Stored(occ) \in Seq(Octets)
      BY <1>2, <2>1, <3>1 DEF Stored
    <3> QED  BY <1>10, <2>1, <2>2, <3>1, <3>2, GetStep
  <2>3. CASE GetAbsent(f, occ)
    <3>1. occurrence' \in [Fields -> Nat] /\ data' \in Seq(Seq(Octets))
      BY <1>1, <2>1, <2>3 DEF GetAbsent, Looks
    <3> QED  BY <2>3, <3>1, OthersOnly DEF GetAbsent
  <2>4. CASE GetThrows(f, occ)
    <3>1. /\ occurrence' \in [Fields -> Nat] /\ data' = data /\ process' = "runs"
          /\ given' = [given EXCEPT ![f] = <<>>]
      BY <1>1, <1>10, <2>1, <2>4 DEF GetThrows, Looks, Found
    <3>2. \/ field' = [field EXCEPT ![f] = Freed(@)] /\ failed' = failed
          \/ /\ field[f].bufferSize = 0 /\ failed' = failed
             /\ field' = [field EXCEPT ![f] = [@ EXCEPT !.value = Null]]
      BY <1>1, <2>4 DEF GetThrows
    <3> QED  BY <1>10, <3>1, <3>2, FreeStep
  <2> QED  BY <1>10, <2>2, <2>3, <2>4
<1>11. ASSUME process = "runs", NEW f \in Fields, NEW n \in 0..MaxLength, GetCharArray(f, n)
       PROVE  IInv'
  <2>1. n \in Nat
    BY BoundsAssumption
  <2> QED  BY <1>11, <2>1, LengthStep
<1>12. CASE UNCHANGED vars
  BY <1>1, <1>12, OthersOnly DEF vars
<1>13. \A v \in Values : v \in Seq(Octets)
  BY ValuesAssumption
<1> QED
  BY <1>3, <1>4, <1>5, <1>6, <1>7, <1>8, <1>9, <1>10, <1>11, <1>12, <1>13, <1>14 DEF Next

-----------------------------------------------------------------------------
\* The numbers, the memory and the value of every object agree, for any calls.
THEOREM Invariance == Spec => []IInv
<1> QED  BY InitInv, StepInv, PTL DEF Spec

\* The variables keep their types: what is read of memory and of the buffer is a
\* byte sequence.
THEOREM TypeCorrect == Spec => []TypeOK
<1>1. IInv => TypeOK
  BY DEF IInv
<1> QED  BY <1>1, Invariance, PTL

\* A char* field says no more than its memory holds (carray_field.hpp:85); only
\* an object whose new char[] threw has a size without memory.
THEOREM MemoryRespected == Spec => []WithinMemory
<1>1. IInv => WithinMemory
  BY DEF IInv
<1> QED  BY <1>1, Invariance, PTL

\* What a char* field hands on is what it was given last (carray_field.hpp:111).
THEOREM ValueHeld == Spec => []HoldsWhatItWasGiven
<1>1. IInv => HoldsWhatItWasGiven
  BY DEF IInv
<1> QED  BY <1>1, Invariance, PTL

\* A char* field deletes every block of bytes it got (carray_field.hpp:128).
THEOREM MemoryReturned == Spec => []NothingLeaked
<1>1. IInv => NothingLeaked
  BY DEF IInv
<1> QED  BY <1>1, Invariance, PTL
=============================================================================
