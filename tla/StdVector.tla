------------------------------ MODULE StdVector ------------------------------
(***************************************************************************)
(* What ConstSizeVector promises: "Container with subset of functionality  *)
(* of std::vector" (ConstSizeVector.h:7).  Vectors are sequences; their    *)
(* callers keep within the capacity and ask only for elements there are.   *)
(***************************************************************************)
EXTENDS Naturals, Sequences

CONSTANTS
    Vectors,        \* the objects
    Values,         \* what they hold
    MaxSize         \* the capacity

VARIABLES
    contents,       \* the sequence each vector is
    exported        \* the memory vectors are copied to and made from

stdVectors == <<contents, exported>>

StdInit ==
    /\ contents = [v \in Vectors |-> <<>>]
    /\ exported \in [1 .. MaxSize -> Values]

StdClear(v) ==
    /\ contents' = [contents EXCEPT ![v] = <<>>]
    /\ UNCHANGED exported

StdAssign(v, w) ==
    /\ contents' = [contents EXCEPT ![v] = contents[w]]
    /\ UNCHANGED exported

StdImport(v) ==
    /\ contents' = [contents EXCEPT ![v] = exported]
    /\ UNCHANGED exported

StdWrite(v, i, x) ==
    /\ i \in 1 .. Len(contents[v])
    /\ contents' = [contents EXCEPT ![v] = [contents[v] EXCEPT ![i] = x]]
    /\ UNCHANGED exported

StdPushBack(v, x) ==
    /\ Len(contents[v]) < MaxSize
    /\ contents' = [contents EXCEPT ![v] = Append(contents[v], x)]
    /\ UNCHANGED exported

StdPopBack(v) ==
    /\ Len(contents[v]) > 0
    /\ contents' = [contents EXCEPT ![v] = SubSeq(contents[v], 1, Len(contents[v]) - 1)]
    /\ UNCHANGED exported

\* The elements after the first `start` up to the one numbered `end`.
StdExport(v, start, end) ==
    /\ start <= end /\ end <= Len(contents[v])
    /\ exported' = [i \in 1 .. MaxSize |->
                       IF i <= end - start THEN contents[v][i + start] ELSE exported[i]]
    /\ UNCHANGED contents

StdNext ==
    \E v \in Vectors :
        \/ StdClear(v) \/ StdImport(v) \/ StdPopBack(v)
        \/ \E w \in Vectors : StdAssign(v, w)
        \/ \E x \in Values : StdPushBack(v, x)
        \/ \E i \in 1 .. MaxSize, x \in Values : StdWrite(v, i, x)
        \/ \E start \in 0 .. MaxSize, end \in 0 .. MaxSize : StdExport(v, start, end)

StdSpec == StdInit /\ [][StdNext]_stdVectors

=============================================================================
