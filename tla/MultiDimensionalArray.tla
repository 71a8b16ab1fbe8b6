------------------------ MODULE MultiDimensionalArray ------------------------
(***************************************************************************)
(* QOpcUaMultiDimensionalArray: a flat list with the lengths of its        *)
(* dimensions, addressed by one index for each of them.                    *)
(*                                                                         *)
(* The code computes in quint32 and returns an int.  Here a quint32 has    *)
(* Modulus values, so that products reach the limit at small lengths.      *)
(***************************************************************************)
EXTENDS Integers, FiniteSets, Sequences, SequencesExt

CONSTANTS
  Lengths,   \* lengths that a dimension can have
  MaxRank,   \* bound: number of dimensions
  Sizes,     \* sizes of the lists given to setValueArray()
  Elements,  \* values of an element
  Empty,     \* QVariant()
  Modulus,   \* number of values of a quint32
  MaxSets    \* bound: elements of a list that are set, and index tuples that set one

ASSUME ModulusAssumption == Modulus \in Nat /\ Modulus > 1

ASSUME LengthsAssumption == Lengths \subseteq 0 .. Modulus - 1

ASSUME ArrayBoundsAssumption == MaxRank \in Nat /\ Sizes \subseteq Nat

VARIABLES
  arrayDimensions,
  value,
  expectedArrayLength,
  sets   \* the values set so far, by their indices: the array as a function

arrayVars == <<arrayDimensions, value, expectedArrayLength, sets>>

IntMax == (Modulus \div 2) - 1

(* std::accumulate() with std::multiplies<quint32>. *)
ExpectedLength(dims) ==
  LET product[n \in 0 .. Len(dims)] ==
        IF n = 0 THEN 1 ELSE (product[n - 1] * dims[n]) % Modulus
  IN product[Len(dims)]

Dimensions == UNION {[1 .. n -> Lengths] : n \in 0 .. MaxRank}

(* The default constructor: length 0, although that of no dimensions is 1. *)
DefaultArray ==
  /\ arrayDimensions = <<>>
  /\ value = <<>>
  /\ expectedArrayLength = 0

(* The constructor that allocates the list. *)
AllocatedArray(dims) ==
  /\ arrayDimensions = dims
  /\ expectedArrayLength = ExpectedLength(dims)
  /\ value = [i \in 1 .. ExpectedLength(dims) |-> Empty]

ArrayInit ==
  /\ DefaultArray \/ \E dims \in Dimensions : AllocatedArray(dims)
  /\ sets = <<>>

(* The checks of arrayIndex(). *)
Fits(indices) ==
  /\ expectedArrayLength <= IntMax
  /\ Len(value) <= Modulus - 1
  /\ Len(indices) = Len(arrayDimensions)
  /\ expectedArrayLength = Len(value)
  /\ \A i \in DOMAIN indices : indices[i] < arrayDimensions[i]

MutStride(stride, i) ==
  IF i < Len(arrayDimensions) THEN (stride * arrayDimensions[i]) % Modulus ELSE stride

NextStride(stride, i) ==
  IF i < Len(arrayDimensions) THEN (stride * arrayDimensions[i + 1]) % Modulus ELSE stride

(* The variables of the loop, which goes from the last dimension to the    *)
(* first, after its round for each of them.                                *)
Loop(indices) ==
  LET loop[i \in 1 .. Len(indices) + 1] ==
        IF i > Len(indices) THEN [stride |-> 1, index |-> 0]
        ELSE LET stride == NextStride(loop[i + 1].stride, i)
             IN [stride |-> stride,
                 index |-> (loop[i + 1].index + stride * indices[i]) % Modulus]
  IN loop

(* Row-major, and -1 for what does not fit. *)
arrayIndex(indices) ==
  LET index == Loop(indices)[1].index
  IN IF Fits(indices) /\ index <= IntMax THEN index ELSE -1

isValid == Len(value) = expectedArrayLength

(* The list stays as it is; what its elements are the values of changes. *)
setArrayDimensions(dims) ==
  /\ dims # arrayDimensions
  /\ arrayDimensions' = dims
  /\ expectedArrayLength' = ExpectedLength(dims)
  /\ sets' = <<>>
  /\ UNCHANGED value

(* A list of n empty elements, also through valueArrayRef(). *)
setValueArray(n) ==
  /\ value' = [i \in 1 .. n |-> Empty]
  /\ sets' = <<>>
  /\ UNCHANGED <<arrayDimensions, expectedArrayLength>>

(* The array as a function, with v stored under the indices. *)
Stored(indices, v) ==
  [t \in DOMAIN sets \cup {indices} |-> IF t = indices THEN v ELSE sets[t]]

MutSetValue(indices, v) ==
  LET k == arrayIndex(indices)
  IN /\ k \in 0 .. Len(value) - 1
     /\ value' = InsertAt(value, k + 1, v)
     /\ Cardinality({i \in DOMAIN value' : value'[i] # Empty}) <= MaxSets
     /\ Cardinality(DOMAIN Stored(indices, v)) <= MaxSets
     /\ sets' = Stored(indices, v)
     /\ UNCHANGED <<arrayDimensions, expectedArrayLength>>

(* Returns false for -1.  Undefined, and left out, for an index behind the *)
(* end of the list, which arrayIndex() returns when the product wraps.     *)
setValue(indices, v) ==
  LET k == arrayIndex(indices)
  IN /\ k \in 0 .. Len(value) - 1
     /\ value' = [value EXCEPT ![k + 1] = v]
     /\ Cardinality({i \in DOMAIN value : value'[i] # Empty}) <= MaxSets
     /\ Cardinality(DOMAIN Stored(indices, v)) <= MaxSets
     /\ sets' = Stored(indices, v)
     /\ UNCHANGED <<arrayDimensions, expectedArrayLength>>

(* Index tuples, some of them out of bounds. *)
Tuples ==
  {t \in [DOMAIN arrayDimensions -> UNION {0 .. n : n \in Lengths}] :
     \A i \in DOMAIN t : t[i] <= arrayDimensions[i]}

ArrayNext ==
  \/ \E dims \in Dimensions : setArrayDimensions(dims)
  \/ \E n \in Sizes : setValueArray(n)
  \/ \E indices \in Tuples, v \in Elements : setValue(indices, v)

ArraySpec == ArrayInit /\ [][ArrayNext]_arrayVars

-----------------------------------------------------------------------------
(* Properties.                                                             *)

ArrayTypeOK ==
  /\ arrayDimensions \in Dimensions
  /\ expectedArrayLength \in 0 .. Modulus - 1
  /\ value \in Seq(Elements \cup {Empty})

(* The numbers of elements of the dimensions from each on, computed        *)
(* without a limit.                                                        *)
Volumes(dims) ==
  LET volume[i \in 1 .. Len(dims) + 1] ==
        IF i > Len(dims) THEN 1 ELSE dims[i] * volume[i + 1]
  IN volume

Product(dims) == Volumes(dims)[1]

Precedes(s, t) == \E i \in DOMAIN t : s[i] < t[i] /\ \A j \in 1 .. i - 1 : s[j] = t[j]

InBounds == {t \in Tuples : \A i \in DOMAIN t : t[i] < arrayDimensions[i]}

(* The default constructor has left no dimensions with the length 0. *)
Unset == arrayDimensions = <<>> /\ expectedArrayLength = 0

(* Once the dimensions are set, and while their product is below the limit *)
(* of an int, arrayIndex() is the rank of the indices in row-major order   *)
(* if they are in bounds and the list has the length of the dimensions,    *)
(* and -1 if not: no element is unreachable and no two are the same.       *)
IndexIsRowMajor ==
  Product(arrayDimensions) <= IntMax /\ ~Unset =>
    \A t \in Tuples :
      arrayIndex(t) = IF t \in InBounds /\ isValid
                      THEN Cardinality({s \in InBounds : Precedes(s, t)}) ELSE -1

(* Where a value was stored with setValue(), value() returns the last one  *)
(* that was stored under a tuple with the same index.  While the product   *)
(* of the dimensions is below the limit of an int that is the tuple        *)
(* itself: no other call overwrites the element.  When the product wraps,  *)
(* two tuples can share an element, and the later call wins.               *)
ArrayHoldsWhatWasSet ==
  \A t \in DOMAIN sets :
    \E s \in DOMAIN sets :
      /\ arrayIndex(s) = arrayIndex(t) /\ arrayIndex(t) \in 0 .. Len(value) - 1
      /\ value[arrayIndex(t) + 1] = sets[s]
      /\ Product(arrayDimensions) <= IntMax => s = t
=============================================================================
