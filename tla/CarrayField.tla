---------------------------- MODULE CarrayField -----------------------------
(***************************************************************************)
(* atmi::Tfield<char *> (carray_field.hpp): a field object that keeps a    *)
(* value of any length in memory of its own, which it reuses.              *)
(*                                                                         *)
(* Objects of one field id fill and read one FML buffer, which other parts *)
(* of the program and services change as well.  An add or set for which    *)
(* the buffer has no room throws and changes nothing here.                 *)
(***************************************************************************)
EXTENDS Naturals, Sequences, SequencesExt

CONSTANTS
  Fields,          \* objects of class Tfield<char *>
  Octets,
  Values,          \* bound: the byte sequences programs and services use
  Null,
  Junk,            \* what memory holds that nobody wrote to
  MaxOccurrences,  \* bound: occurrences in the buffer
  MaxLength        \* bound: the sizes given to get_char_array

ASSUME ValuesAssumption == Values \subseteq Seq(Octets) /\ Null \notin Seq(Octets)
                           /\ Junk \in Octets
ASSUME BoundsAssumption == MaxOccurrences \in Nat /\ MaxLength \in Nat

VARIABLES
  field,       \* the members of every object
  occurrence,  \* _field_occurence
  data,        \* the occurrences in the FML buffer
  process,     \* killed when it follows a null pointer
  \* observers, which no operation reads
  given,       \* the bytes an object was given last, or Null
  failed       \* objects whose new char[] threw and that got no memory since

vars == <<field, occurrence, data, process, given, failed>>

TypeOK ==
  /\ field \in [Fields -> [value : Seq(Octets) \cup {Null}, bufferSize : Nat,
                           length : Nat, blocks : Nat]]
  /\ occurrence \in [Fields -> Nat]
  /\ data \in Seq(Seq(Octets))
  /\ process \in {"runs", "killed"}
  /\ given \in [Fields -> Seq(Octets) \cup {Null}]
  /\ failed \subseteq Fields

\* value is the whole memory, blocks an observer: the blocks of at least one
\* byte the object got and has not deleted
Empty == [value |-> Null, bufferSize |-> 0, length |-> 0, blocks |-> 0]
Bytes(m) == IF m = Null THEN <<>> ELSE m
Content(c) == SubSeq(Bytes(c.value), 1, c.length)
Smaller(m, n) == IF m < n THEN m ELSE n
One(v) == IF v = <<>> THEN 0 ELSE 1

Init ==
  /\ field = [f \in Fields |-> Empty]
  /\ occurrence = [f \in Fields |-> 0]
  /\ data = <<>>
  /\ process = "runs"
  /\ given = [f \in Fields |-> <<>>]
  /\ failed = {}

-----------------------------------------------------------------------------
KeepsSize(c) ==                       \* mutant: _buffer_size is not reset
  IF c.value = Null THEN c
  ELSE [c EXCEPT !.value = Null, !.length = 0, !.blocks = @ - One(c.value)]
NotDeleted(c) ==                      \* mutant: delete[] is missing
  IF c.value = Null THEN c ELSE [Empty EXCEPT !.blocks = c.blocks]
\* free_ressources: without a pointer it leaves the numbers as they are
Freed(c) ==
  IF c.value = Null THEN c ELSE [Empty EXCEPT !.blocks = c.blocks - One(c.value)]

\* new char[] or Fgetalloc32: the memory c.value pointed to is not freed
Allocated(c, v) ==
  [value |-> v, bufferSize |-> Len(v), length |-> Len(v), blocks |-> c.blocks + One(v)]

Overwritten(c, v) ==
  [value      |-> IF v = <<>> THEN c.value
                  ELSE v \o SubSeq(c.value, Len(v) + 1, Len(c.value)),
   bufferSize |-> c.bufferSize, length |-> Len(v), blocks |-> c.blocks]

KeepsLength(c, v) ==                  \* mutant: the length only ever grows
  IF Len(v) > c.bufferSize THEN Allocated(Freed(c), v)
  ELSE [Overwritten(c, v) EXCEPT !.length = IF @ < c.length THEN c.length ELSE @]
\* set_char_array
Assigned(c, v) ==
  IF Len(v) > c.bufferSize THEN Allocated(Freed(c), v) ELSE Overwritten(c, v)

\* memcpy of n bytes to or from an object that has no memory, but says it has
FollowsNull(c, n) == c.value = Null /\ c.bufferSize > 0 /\ n \in 1..c.bufferSize

SetCharArray(f, v) ==
  /\ ~FollowsNull(field[f], Len(v))
  /\ field' = [field EXCEPT ![f] = Assigned(@, v)]
  /\ given' = [given EXCEPT ![f] = v]
  /\ failed' = IF Len(v) > field[f].bufferSize THEN failed \ {f} ELSE failed
  /\ UNCHANGED <<occurrence, data, process>>

\* _buffer_size is set, then new char[] throws
Unbacked(c, v) == [Freed(c) EXCEPT !.bufferSize = Len(v)]

NewThrows(f, v) ==
  /\ Len(v) > field[f].bufferSize
  /\ field' = [field EXCEPT ![f] = Unbacked(@, v)]
  /\ given' = [given EXCEPT ![f] = <<>>]
  /\ failed' = failed \cup {f}
  /\ UNCHANGED <<occurrence, data, process>>

\* set_char_array and get_char_array then follow the null pointer
Killed(f, n) ==
  /\ FollowsNull(field[f], n)
  /\ process' = "killed"
  /\ UNCHANGED <<field, occurrence, data, given, failed>>

\* operator=
Copy(f, g) == LET v == Content(field[g]) IN
  SetCharArray(f, v) \/ NewThrows(f, v) \/ Killed(f, Len(v))

\* get_char_array(n) makes n, or all the memory, the length of the field: when
\* that cuts the value or shows bytes of an earlier one, nothing is claimed of it
GetCharArray(f, n) ==
  LET length == Smaller(n, field[f].bufferSize) IN
  /\ ~FollowsNull(field[f], length)
  /\ field' = [field EXCEPT ![f].length = length]
  /\ given' = [given EXCEPT ![f] = IF length = field[f].length THEN @ ELSE Null]
  /\ UNCHANGED <<occurrence, data, process, failed>>

FreeRessources(f) ==
  /\ field' = [field EXCEPT ![f] = Freed(@)]
  /\ given' = [given EXCEPT ![f] = <<>>]
  /\ UNCHANGED <<occurrence, data, process, failed>>

\* the destructor, and the constructor of the next object
Renew(f) ==
  /\ field' = [field EXCEPT ![f] = [Empty EXCEPT !.blocks = Freed(field[f]).blocks]]
  /\ given' = [given EXCEPT ![f] = <<>>]
  /\ occurrence' = [occurrence EXCEPT ![f] = 0]
  /\ failed' = failed \ {f}
  /\ UNCHANGED <<data, process>>

-----------------------------------------------------------------------------
\* Fchg32: without memory of a value it deletes the occurrence
Changed(occ, c) ==
  IF c.value = Null THEN RemoveAt(data, occ + 1)
  ELSE IF occ < Len(data) THEN ReplaceAt(data, occ + 1, Content(c))
  ELSE data \o [i \in 1..(occ - Len(data)) |-> <<>>] \o <<Content(c)>>

Set(f) ==
  /\ field[f].value = Null => occurrence[f] < Len(data)
  /\ data' = Changed(occurrence[f], field[f])
  /\ UNCHANGED <<field, occurrence, process, given, failed>>

Add(f) ==
  /\ field[f].length > 0 /\ Len(data) < MaxOccurrences
  /\ data' = Append(data, Content(field[f]))
  /\ occurrence' = [occurrence EXCEPT ![f] = Len(data)]
  /\ UNCHANGED <<field, process, given, failed>>

Found(f, v) ==
  /\ given' = [given EXCEPT ![f] = v]
  /\ UNCHANGED <<data, process>>
Looks(f, occ) == occurrence' = [occurrence EXCEPT ![f] = occ]
Present(occ) == occ < Len(data)
Stored(occ) == data[occ + 1]

\* get: without memory Fgetalloc32 gets some
GetFirst(f, occ) ==
  /\ field[f].bufferSize = 0 /\ Present(occ) /\ Looks(f, occ)
  /\ field' = [field EXCEPT ![f] = Allocated(@, Stored(occ))]
  /\ Found(f, Stored(occ)) /\ UNCHANGED failed

\* ... Fget32 is told _length, what the value before it needed
Fits(f, occ) == field[f].bufferSize > 0 /\ Present(occ) /\ Len(Stored(occ)) <= field[f].length
GetFits(f, occ) ==
  /\ Fits(f, occ) /\ Looks(f, occ)
  /\ field' = [field EXCEPT ![f] = Overwritten(@, Stored(occ))]
  /\ Found(f, Stored(occ)) /\ UNCHANGED failed

\* ... FNOSPACE: Fgetalloc32 adds as many bytes as _buffer_size says, none after
\* free_ressources, unless that found no pointer
GetLonger(f, occ) ==
  LET extra == [i \in 1..Freed(field[f]).bufferSize |-> Junk] IN
  /\ field[f].bufferSize > 0 /\ Present(occ) /\ ~Fits(f, occ) /\ Looks(f, occ)
  /\ field' = [field EXCEPT ![f] = Allocated(Freed(@), Stored(occ) \o extra)]
  /\ Found(f, IF extra = <<>> THEN Stored(occ) ELSE Null)
  /\ failed' = failed \ {f}

\* ... an absent occurrence, with memory: -1 and the value stays
GetAbsent(f, occ) ==
  /\ field[f].bufferSize > 0 /\ ~Present(occ) /\ Looks(f, occ)
  /\ UNCHANGED <<field, data, process, given, failed>>

\* ... Fgetalloc32 finds no occurrence or no memory: _value is NULL and get throws
GetThrows(f, occ) ==
  /\ field[f].bufferSize = 0 \/ (Present(occ) /\ ~Fits(f, occ))
  /\ Looks(f, occ)
  /\ field' = [field EXCEPT ![f] =
       IF @.bufferSize = 0 THEN [@ EXCEPT !.value = Null] ELSE Freed(@)]
  /\ Found(f, <<>>) /\ UNCHANGED failed

\* remove, also of other field objects
RemoveField(f) ==
  /\ Present(occurrence[f])
  /\ data' = RemoveAt(data, occurrence[f] + 1)
  /\ UNCHANGED <<field, occurrence, process, given, failed>>

\* a service answers into the buffer
Answer(v) ==
  /\ data' = <<v>>
  /\ UNCHANGED <<field, occurrence, process, given, failed>>

Next ==
  /\ process = "runs"
  /\ \/ \E f \in Fields :
          \/ \E v \in Values : SetCharArray(f, v) \/ NewThrows(f, v)
          \/ \E g \in Fields : Copy(f, g)
          \/ \E n \in 0..MaxLength : GetCharArray(f, n) \/ Killed(f, n)
          \/ FreeRessources(f) \/ Renew(f) \/ Set(f) \/ Add(f) \/ RemoveField(f)
          \/ \E occ \in 0..(MaxOccurrences - 1) :
               GetFirst(f, occ) \/ GetFits(f, occ) \/ GetLonger(f, occ)
                 \/ GetAbsent(f, occ) \/ GetThrows(f, occ)
     \/ \E v \in Values : Answer(v)

Spec == Init /\ [][Next]_vars

-----------------------------------------------------------------------------
(* Properties *)

\* What add, set and operator= read is there: _length is no more than the memory
\* _value points to, whatever failed.  _buffer_size, by which set_char_array,
\* get_char_array and get decide, is the size of that memory through every reuse,
\* reallocation and failed get (carray_field.hpp:85, 111 and 232), except in an
\* object whose new char[] threw: until it gets memory it has none while
\* _buffer_size says so, and only its pointer can kill the process.
WithinMemory ==
  /\ \A f \in Fields : LET c == field[f] IN
       /\ c.length <= Len(Bytes(c.value))
       /\ \/ c.bufferSize = Len(Bytes(c.value))
          \/ f \in failed /\ c.value = Null
  /\ process = "killed" => failed # {}

\* What add and set put into a buffer and operator= hands on is what the object
\* was given last, by the program or by a get that found something, and never
\* mixed with bytes of an earlier, longer value in the same memory, unless a
\* get_char_array asked for another length than the value's, or a get after a failed
\* new found bytes to add.
HoldsWhatItWasGiven == \A f \in Fields : given[f] \in {Content(field[f]), Null}

\* An object deletes what it got, but for blocks of no bytes, before it gets more.
NothingLeaked == \A f \in Fields : field[f].blocks = One(Bytes(field[f].value))
=============================================================================
