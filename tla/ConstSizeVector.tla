--------------------------- MODULE ConstSizeVector ---------------------------
(***************************************************************************)
(* ConstSizeVector (framework/ConstSizeVector): a size and an array of     *)
(* MaxSize elements.  No method looks at the capacity or at the size: that *)
(* the callers do is a guard of the actions here (FitsIn...).              *)
(***************************************************************************)
EXTENDS Naturals

CONSTANTS
    Vectors, Values, MaxSize,
    Garbage         \* what an element holds that was never written

ASSUME VectorAssumption == MaxSize \in Nat \ {0} /\ Garbage \notin Values

VARIABLES
    vectors,        \* the objects: size, elements
    accessor        \* the array in the accessor's memory, as large as the vectors'

vectorVars == <<vectors, accessor>>

Places == 0 .. MaxSize - 1
Elements == [Places -> Values \cup {Garbage}]
ConstSizeVectors == [size : 0 .. MaxSize, elements : Elements]

NewVector == [size |-> 0, elements |-> [i \in Places |-> Garbage]]

----------------------------------------------------------------------------
getSize(v) == vectors[v].size
isEmpty(v) == getSize(v) = 0
FitsOneMore(v) == getSize(v) < MaxSize
HasElement(v, index) == index < getSize(v)

\* What the loops over size elements leave in the array.
CopiedTo(elements, source, size) ==
    [i \in Places |-> IF i < size THEN source[i] ELSE elements[i]]

VectorInit ==
    /\ vectors = [v \in Vectors |-> NewVector]
    /\ accessor \in [Places -> Values]

\* The constructors make v anew.
Construct(v) ==
    /\ vectors' = [vectors EXCEPT ![v] = NewVector]
    /\ UNCHANGED accessor

ConstructCopy(v, w) ==
    /\ v # w
    /\ vectors' = [vectors EXCEPT ![v] =
           [size |-> getSize(w),
            elements |-> CopiedTo(NewVector.elements, vectors[w].elements, getSize(w))]]
    /\ UNCHANGED accessor

ConstructFromAccessor(v) ==
    /\ vectors' = [vectors EXCEPT ![v] =
           [size |-> MaxSize, elements |-> CopiedTo(NewVector.elements, accessor, MaxSize)]]
    /\ UNCHANGED accessor

\* Mutant: the elements are copied up to the old size.
CopyAssignOldSize(v, w) ==
    /\ vectors' = [vectors EXCEPT ![v] =
           [size |-> getSize(w),
            elements |-> CopiedTo(vectors[v].elements, vectors[w].elements, getSize(v))]]
    /\ UNCHANGED accessor

\* operator=, of a vector to itself as well.
CopyAssign(v, w) ==
    /\ vectors' = [vectors EXCEPT ![v] =
           [size |-> getSize(w),
            elements |-> CopiedTo(vectors[v].elements, vectors[w].elements, getSize(w))]]
    /\ UNCHANGED accessor

\* A write through the reference that operator[], front or back returns.
WriteTo(v, index, value) ==
    /\ HasElement(v, index)
    /\ vectors' = [vectors EXCEPT ![v].elements[index] = value]
    /\ UNCHANGED accessor

WriteFront(v, value) == WriteTo(v, 0, value)
WriteBack(v, value) == ~isEmpty(v) /\ WriteTo(v, getSize(v) - 1, value)

clear(v) ==
    /\ vectors' = [vectors EXCEPT ![v].size = 0]
    /\ UNCHANGED accessor

pushBack(v, value) ==
    /\ FitsOneMore(v)
    /\ vectors' = [vectors EXCEPT ![v] =
           [size |-> getSize(v) + 1, elements |-> [@.elements EXCEPT ![getSize(v)] = value]]]
    /\ UNCHANGED accessor

popBack(v) ==
    /\ ~isEmpty(v)
    /\ vectors' = [vectors EXCEPT ![v].size = @ - 1]
    /\ UNCHANGED accessor

\* With the defaults start = 0 and end = size.
copyToAccessor(v, start, end) ==
    /\ start <= end /\ end <= getSize(v)
    /\ accessor' = [i \in Places |->
           IF i < end - start THEN vectors[v].elements[i + start] ELSE accessor[i]]
    /\ UNCHANGED vectors

VectorNext ==
    \E v \in Vectors :
        \/ Construct(v) \/ ConstructFromAccessor(v) \/ clear(v) \/ popBack(v)
        \/ \E w \in Vectors : ConstructCopy(v, w) \/ CopyAssign(v, w)
        \/ \E value \in Values :
               \/ pushBack(v, value) \/ WriteFront(v, value) \/ WriteBack(v, value)
               \/ \E index \in Places : WriteTo(v, index, value)
        \/ \E start \in 0 .. MaxSize, end \in 0 .. MaxSize : copyToAccessor(v, start, end)

VectorSpec == VectorInit /\ [][VectorNext]_vectorVars

----------------------------------------------------------------------------
AsSequence(vector) == [i \in 1 .. vector.size |-> vector.elements[i - 1]]

Std == INSTANCE StdVector WITH
    contents <- [v \in Vectors |-> AsSequence(vectors[v])],
    exported <- [i \in 1 .. MaxSize |-> accessor[i - 1]]

\* Through any sequence of calls that keeps within the capacity the vectors behave
\* as std::vectors: what they hold is what was put in, never what a longer
\* predecessor left in the array or what nobody wrote.
ImplementsStdVector == Std!StdSpec

=============================================================================
