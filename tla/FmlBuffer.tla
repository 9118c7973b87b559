----------------------------- MODULE FmlBuffer ------------------------------
(***************************************************************************)
(* atmi::buffer (buffer.cpp) and the field objects that read and write it  *)
(* (field.cpp, template_field.hpp and its specialisations).                *)
(*                                                                         *)
(* A program makes, wraps, copies and destroys buffer objects, adds and    *)
(* changes fields in them and has services answer into them, in any order. *)
(* The fields are all of one field id, as only those have occurrences in   *)
(* common, and stand for the value they hold.  A program does not use a    *)
(* buffer whose memory it knows to be gone; destructors run regardless.    *)
(***************************************************************************)
EXTENDS Integers, Sequences, SequencesExt, FiniteSets

CONSTANTS
  Buffers,     \* objects of class buffer
  Fields,      \* field objects, and the values they write
  Null,        \* a value no field of the program wrote
  None,        \* no buffer
  Needed,      \* Fneeded32: the bytes a value takes
  Default,     \* the size buffer() or buffer(len) allocates
  MaxSize,     \* tpalloc and tprealloc have no more than this
  MaxBlocks,   \* bound: typed buffers that exist at a time
  Garbage,     \* bound: what an uninitialised _extent may be
  Sizes,       \* bound: what a program passes to resize and set_extent
  Asked        \* bound: the occurrences a program asks for

ASSUME SizesAssumption ==
  /\ Needed \in [Fields \cup {Null} -> Nat \ {0}]
  /\ Default \in Nat \ {0} /\ MaxSize \in Nat /\ Default <= MaxSize
  /\ \A v \in Fields \cup {Null} : Needed[v] <= MaxSize
  /\ MaxBlocks \in Nat
  /\ Garbage \subseteq Int /\ Sizes \subseteq 0..MaxSize /\ Asked \subseteq Nat
ASSUME NamesAssumption == Null \notin Fields /\ None \notin Buffers

Blocks == 1..MaxBlocks

VARIABLES
  heap,        \* Tuxedo's typed buffers
  alive,       \* objects between constructor and destructor
  ptr,         \* _buffer
  owns,        \* _allocated
  extent,      \* _extent
  occurrence,  \* _field_occurence
  \* observers, which no operation reads
  home,        \* the buffer a field's occurrence was last right about
  orphaned,    \* blocks an operation left without an object that frees them
  doubled,     \* blocks an operation gave a second one, or took from under one
  tuned,       \* objects whose extent is not the default or more
  short        \* the others in which an add of at most Default found no space

objectVars == <<alive, ptr, owns, extent>>
sizeVars == <<tuned, short>>
ownerVars == <<orphaned, doubled>>
fieldVars == <<occurrence, home>>
vars == <<heap, objectVars, fieldVars, ownerVars, sizeVars>>

Dead == [type |-> "none", size |-> 0, data |-> <<>>]
Header == 1
\* the units of memory that hold values; Fused32 counts them and the header
Units(data) == UNION {{i} \X (1..Needed[data[i]]) : i \in 1..Len(data)}
Used(data) == Header + Cardinality(Units(data))
\* beyond MaxSize all extents are alike: the next tprealloc fails
Capped(n) == IF n > MaxSize THEN MaxSize + 1 ELSE n

TypeOK ==
  /\ heap \in [Blocks -> [type : {"none", "fml", "other"}, size : 0..MaxSize,
                          data : Seq(Fields \cup {Null})]]
  /\ \A k \in Blocks : heap[k].type # "none" => Used(heap[k].data) <= heap[k].size
  /\ alive \subseteq Buffers /\ owns \subseteq alive
  /\ ptr \in [Buffers -> Blocks \cup {0}]
  /\ \A b \in Buffers : b \in alive <=> ptr[b] # 0
  /\ extent \in [Buffers -> Int]
  /\ occurrence \in [Fields -> Nat]
  /\ home \in [Fields -> alive \cup {None}]
  /\ orphaned \subseteq Blocks /\ doubled \subseteq Blocks
  /\ tuned \subseteq alive /\ short \subseteq Buffers

Init ==
  /\ heap = [k \in Blocks |-> Dead]
  /\ alive = {} /\ owns = {}
  /\ ptr = [b \in Buffers |-> 0]
  /\ extent = [b \in Buffers |-> 0]
  /\ occurrence = [f \in Fields |-> 0]
  /\ home = [f \in Fields |-> None]
  /\ orphaned = {} /\ doubled = {}
  /\ tuned = {} /\ short = {}

-----------------------------------------------------------------------------
Lives(k) == heap[k].type # "none"
Block(b) == heap[ptr[b]]
Valid(b) == b \in alive /\ Block(b).type = "fml"
Sharers(b) == {c \in alive : ptr[c] = ptr[b]}
OwnersOf(k) == {b \in owns : ptr[b] = k}

\* Memory is handed out again once nothing points to it.
Spare == {k \in Blocks : ~Lives(k) /\ \A b \in alive : ptr[b] # k}
Fresh == {k \in Spare : \A j \in Spare : k <= j}
\* tprealloc and an answer leave the data where it is or move it
Places(b) == {ptr[b]} \cup Fresh

\* b's block becomes, or moves to, block k
Place(b, k, type, size, data) ==
  heap' = [heap EXCEPT ![ptr[b]] = Dead,
                       ![k] = [type |-> type, size |-> size, data |-> data]]

\* mutant: a null pointer is assigned
Loses(b, k) == [ptr EXCEPT ![b] = 0]
\* mutant: the moved buffer is not assigned
Forgets(b, k) == ptr
\* resize and set_buffer assign _buffer
Assign(b, k) == [ptr EXCEPT ![b] = k]

\* b's block moved to k.  Under an object that does not own it, or when the object
\* is not told, the move leaves an owner behind and nobody frees the new place.
Moved(b, k, told) ==
  IF k = ptr[b]
    THEN UNCHANGED ownerVars
    ELSE IF told /\ b \in owns
      THEN orphaned' = orphaned \ {k} /\ doubled' = doubled \ {k}
      ELSE orphaned' = orphaned \cup {k} /\ doubled' = (doubled \ {k}) \cup {ptr[b]}

\* the fields for which nothing is claimed any more
Homeless(lost) == [f \in Fields |-> IF f \in lost THEN None ELSE home[f]]
At(b) == {f \in Fields : home[f] = b}
In(b) == {f \in Fields : home[f] \in Sharers(b)}

-----------------------------------------------------------------------------
(* Objects *)

\* buffer(), buffer(len); without memory the constructor throws
Create(b) ==
  /\ b \notin alive
  /\ \E k \in Fresh :
       /\ heap' = [heap EXCEPT ![k] = [type |-> "fml", size |-> Default, data |-> <<>>]]
       /\ ptr' = [ptr EXCEPT ![b] = k]
       /\ orphaned' = orphaned \ {k} /\ doubled' = doubled \ {k}
  /\ alive' = alive \cup {b}
  /\ owns' = owns \cup {b}
  /\ extent' = [extent EXCEPT ![b] = Default]
  /\ UNCHANGED <<fieldVars, sizeVars>>

\* buffer(FBFR32*) sets no extent
Wrap(b, c) ==
  /\ b \notin alive /\ Valid(c)
  /\ alive' = alive \cup {b}
  /\ ptr' = [ptr EXCEPT ![b] = ptr[c]]
  /\ \E n \in Garbage : extent' = [extent EXCEPT ![b] = n]
  /\ tuned' = tuned \cup {b}
  /\ UNCHANGED <<heap, owns, fieldVars, ownerVars, short>>

\* the copy constructor C++ provides copies the three members
CopyConstruct(b, c) ==
  /\ b \notin alive /\ Valid(c)
  /\ alive' = alive \cup {b}
  /\ ptr' = [ptr EXCEPT ![b] = ptr[c]]
  /\ owns' = IF c \in owns THEN owns \cup {b} ELSE owns
  /\ doubled' = IF c \in owns THEN doubled \cup {ptr[c]} ELSE doubled
  /\ extent' = [extent EXCEPT ![b] = extent[c]]
  /\ tuned' = IF c \in tuned THEN tuned \cup {b} ELSE tuned
  /\ UNCHANGED <<heap, fieldVars, orphaned, short>>

\* ~buffer.  Freeing what is no longer there is undefined; of that the model
\* keeps that the object is gone.
Destroy(b) ==
  /\ b \in alive
  /\ heap' = IF b \in owns THEN [heap EXCEPT ![ptr[b]] = Dead] ELSE heap
  /\ alive' = alive \ {b} /\ owns' = owns \ {b}
  /\ ptr' = [ptr EXCEPT ![b] = 0]
  /\ extent' = [extent EXCEPT ![b] = 0]
  /\ home' = Homeless(At(b))
  /\ tuned' = tuned \ {b}
  /\ UNCHANGED <<occurrence, ownerVars, short>>

\* set_handling_memory(v), of any object, whoever else owns the block: one more
\* owner or one less, which may be one too many or one too few, or put that right
SetHandlingMemory(b, v) ==
  LET k == ptr[b]
      others == OwnersOf(k) \ {b}
      one == Lives(k) /\ \A c, d \in others : c = d
  IN
  /\ b \in alive
  /\ IF v
       THEN /\ owns' = owns \cup {b}
            /\ orphaned' = orphaned \ {k}
            /\ doubled' = IF others = {} /\ Lives(k) THEN doubled \ {k} ELSE doubled \cup {k}
       ELSE /\ owns' = owns \ {b}
            /\ orphaned' = IF others = {} THEN orphaned \cup {k} ELSE orphaned
            /\ doubled' = IF one THEN doubled \ {k} ELSE doubled
  /\ UNCHANGED <<heap, alive, ptr, extent, fieldVars, sizeVars>>

\* set_buffer with the buffer of another object: what b owned it frees no more,
\* and what it now holds it will free as well
SetBuffer(b, c) ==
  /\ b \in alive /\ Valid(c) /\ ptr[b] # ptr[c]
  /\ ptr' = [ptr EXCEPT ![b] = ptr[c]]
  /\ orphaned' = IF OwnersOf(ptr[b]) = {b} THEN orphaned \cup {ptr[b]} ELSE orphaned
  /\ doubled' = IF b \in owns THEN doubled \cup {ptr[c]} ELSE doubled
  /\ home' = Homeless(At(b))
  /\ UNCHANGED <<heap, alive, owns, extent, occurrence, sizeVars>>

-----------------------------------------------------------------------------
(* Size *)

\* resize(n) sets _extent before tprealloc has succeeded
Resize(b, n) ==
  /\ Valid(b) /\ n >= Used(Block(b).data)
  /\ extent' = [extent EXCEPT ![b] = n]
  /\ tuned' = IF n < Default THEN tuned \cup {b} ELSE tuned
  /\ \/ \E k \in Places(b) :
          /\ Place(b, k, "fml", n, Block(b).data)
          /\ ptr' = Assign(b, k)
          /\ Moved(b, k, TRUE)
     \/ UNCHANGED <<heap, ptr, ownerVars>>
  /\ UNCHANGED <<alive, owns, fieldVars, short>>

Pack(b) == Resize(b, Used(Block(b).data))

SetExtent(b, n) ==
  /\ b \in alive
  /\ extent' = [extent EXCEPT ![b] = n]
  /\ tuned' = IF n < Default THEN tuned \cup {b} ELSE tuned
  /\ UNCHANGED <<heap, alive, ptr, owns, fieldVars, ownerVars, short>>

-----------------------------------------------------------------------------
(* Fields *)

\* add: not enough room by the estimate
Crowded(b, f) == Needed[f] + Used(Block(b).data) >= Block(b).size

OnlyExtent(b) == extent[b]             \* mutant: resize(_extent)
Grown(b) == Block(b).size + extent[b]

TooFar(data) == Len(data)              \* mutant: the number of occurrences
LastOf(data) == Len(data) - 1

\* Fadd32 to a block of n bytes
Fadd(b, f, k, n) ==
  LET data == Append(Block(b).data, f) IN
  IF Used(data) <= n
    THEN /\ Place(b, k, "fml", n, data)
         /\ occurrence' = [occurrence EXCEPT ![f] = LastOf(data)]
         /\ home' = [home EXCEPT ![f] = b]
         /\ UNCHANGED short
    ELSE /\ Place(b, k, "fml", n, Block(b).data)
         /\ short' = short \cup {c \in {b} \ tuned : Needed[f] <= Default}
         /\ UNCHANGED fieldVars

Add(b, f) ==
  /\ Valid(b) /\ ~Crowded(b, f)
  /\ Fadd(b, f, ptr[b], Block(b).size)
  /\ UNCHANGED <<objectVars, ownerVars, tuned>>

\* extend once, then Fadd32
AddExtending(b, f) ==
  /\ Valid(b) /\ Crowded(b, f)
  /\ Grown(b) \in Used(Block(b).data)..MaxSize
  /\ extent' = [extent EXCEPT ![b] = Grown(b)]
  /\ \E k \in Places(b) :
       /\ Fadd(b, f, k, Grown(b))
       /\ ptr' = Assign(b, k)
       /\ Moved(b, k, TRUE)
  /\ UNCHANGED <<alive, owns, tuned>>

\* extend throws: the new extent stays
AddThrows(b, f) ==
  /\ Valid(b) /\ Crowded(b, f)
  /\ extent' = [extent EXCEPT ![b] = Capped(Grown(b))]
  /\ UNCHANGED <<heap, alive, ptr, owns, fieldVars, ownerVars, sizeVars>>

\* Fchg32 changes an occurrence or, beyond the last, fills up with nulls
Changed(data, occ, v) ==
  IF occ < Len(data)
    THEN ReplaceAt(data, occ + 1, v)
    ELSE data \o [i \in 1..(occ - Len(data)) |-> Null] \o <<v>>

\* set at the remembered occurrence; without space it throws
Set(b, f) ==
  LET data == Changed(Block(b).data, occurrence[f], f) IN
  /\ Valid(b) /\ Used(data) <= Block(b).size
  /\ heap' = [heap EXCEPT ![ptr[b]].data = data]
  /\ home' = [g \in Fields |->
                IF g = f THEN b
                ELSE IF g \in In(b) /\ occurrence[g] = occurrence[f] THEN None
                ELSE home[g]]
  /\ UNCHANGED <<objectVars, occurrence, ownerVars, sizeVars>>

\* get(b, occ) remembers occ before Fget32 finds the value or throws
Get(b, f, occ) ==
  /\ Valid(b)
  /\ occurrence' = [occurrence EXCEPT ![f] = occ]
  /\ home' = [home EXCEPT ![f] =
                IF occ < Len(Block(b).data) /\ Block(b).data[occ + 1] = f THEN b ELSE None]
  /\ UNCHANGED <<heap, objectVars, ownerVars, sizeVars>>

\* remove: Fdel32 moves the later occurrences up
RemoveField(b, f) ==
  /\ Valid(b) /\ occurrence[f] < Len(Block(b).data)
  /\ heap' = [heap EXCEPT ![ptr[b]].data = RemoveAt(@, occurrence[f] + 1)]
  /\ home' = Homeless({g \in In(b) : occurrence[g] >= occurrence[f]})
  /\ UNCHANGED <<objectVars, occurrence, ownerVars, sizeVars>>

\* operator=: Fcpy32, which throws without space
Copy(b, c) ==
  /\ Valid(b) /\ Valid(c) /\ ptr[b] # ptr[c]
  /\ Used(Block(c).data) <= Block(b).size
  /\ heap' = [heap EXCEPT ![ptr[b]].data = Block(c).data]
  /\ home' = Homeless(In(b))
  /\ UNCHANGED <<objectVars, occurrence, ownerVars, sizeVars>>

-----------------------------------------------------------------------------
(* Answers: call, reply and dequeue hand _buffer out and get it back *)

Answers == {<<>>, <<Null>>}

\* the answer replaces the data, at k
Answer(b, k, type, data) ==
  /\ Used(data) <= IF k = ptr[b] THEN Block(b).size ELSE Default
  /\ Place(b, k, type, IF k = ptr[b] THEN Block(b).size ELSE Default, data)
  /\ home' = Homeless(In(b))
  /\ UNCHANGED <<alive, owns, extent, occurrence, sizeVars>>

\* ... and set_buffer is given the pointer that came back
AnswerSet(b) ==
  /\ Valid(b)
  /\ \E k \in Places(b), data \in Answers :
       /\ Answer(b, k, "fml", data)
       /\ ptr' = Assign(b, k)
       /\ Moved(b, k, TRUE)

\* ... or is not: the service failed (reply: rc = -1), a later attempt of call
\* threw, or set_buffer does because the answer is not of type FML32
AnswerNotSet(b) ==
  /\ Valid(b)
  /\ \E k \in Places(b), type \in {"fml", "other"}, data \in Answers :
       /\ Answer(b, k, type, data)
       /\ Moved(b, k, FALSE)
  /\ UNCHANGED ptr

-----------------------------------------------------------------------------
Next ==
  \E b \in Buffers :
    \/ Create(b) \/ Destroy(b) \/ Pack(b) \/ AnswerSet(b) \/ AnswerNotSet(b)
    \/ \E c \in Buffers :
         Wrap(b, c) \/ CopyConstruct(b, c) \/ SetBuffer(b, c) \/ Copy(b, c)
    \/ \E v \in BOOLEAN : SetHandlingMemory(b, v)
    \/ \E n \in Sizes : Resize(b, n) \/ SetExtent(b, n)
    \/ \E f \in Fields :
         \/ Add(b, f) \/ AddExtending(b, f) \/ AddThrows(b, f)
         \/ Set(b, f) \/ RemoveField(b, f)
         \/ \E occ \in Asked : Get(b, f, occ)

Spec == Init /\ [][Next]_vars

-----------------------------------------------------------------------------
(* Properties *)

\* Whatever the objects of a program do, a typed buffer has an owner to free it
\* until one operation takes it away: set_handling_memory(false) of the only owner,
\* set_buffer of the only owner, a move under an object that does not own it, or an
\* answer that moved and was not assigned.
\* It has one owner, and that owner finds it, until one operation adds another or
\* moves it away: set_handling_memory(true), the copy constructor or set_buffer
\* beside another owner, and the same two moves.
\* set_handling_memory can put both right, and then they hold again.
FreedOnce ==
  /\ \A k \in Blocks : Lives(k) /\ k \notin orphaned => OwnersOf(k) # {}
  /\ \A b \in owns : ptr[b] \notin doubled => Lives(ptr[b]) /\ OwnersOf(ptr[b]) = {b}

\* "When successfully added the occurence property of the field is set"
\* (buffer.hpp:152): until an occurrence at or before it is removed or
\* replaced, a field's set, get and remove act on the value it wrote, whatever
\* the buffer object does to the memory.
OccurrenceHeld ==
  \A f \in Fields :
    home[f] # None /\ Valid(home[f]) =>
      LET data == Block(home[f]).data IN
      occurrence[f] < Len(data) /\ data[occurrence[f] + 1] = f

\* One extend is enough: an add of a value that the default has room for runs out
\* of space only in a buffer whose extent was made smaller than it was allocated
\* with, by pack, resize, set_extent or by being a wrapper, and not because of adds,
\* answers or failures before it.
OneExtendEnough == short = {}
=============================================================================
