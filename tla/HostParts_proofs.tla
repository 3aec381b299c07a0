-------------------------- MODULE HostParts_proofs --------------------------
(***************************************************************************)
(* What holds of the parts that run on the host: the loading of the        *)
(* events, the objects that hold device memory, vectors, loggers and the   *)
(* script that runs the tests.  Each has its own specification, invariant  *)
(* and theorems; they share no state.                                      *)
(***************************************************************************)
EXTENDS EventLoading, DeviceMemory, ConstSizeVector, JsonLogging, TestRunner,
        QueueLemmas, SequenceTheorems, FiniteSetTheorems, TLAPS

-----------------------------------------------------------------------------
(* EventLoading: the list is what the constructor's configuration selects.  The map holds
   the entries read so far, the list the events of the map visited so far.  *)

Entries == [event_id : Int, r : Int, z : Int]
LoadedEvents == [id : Int, rs : Seq(Int), zs : Seq(Int)]

\* A vector of points holds the entries of a set of indices, in the order of the file.
Holds(t, vector, set) ==
    /\ vector \in Seq(Entries) /\ Len(vector) = Cardinality(set)
    /\ \A i \in set : vector[Rank(set, i)] = t[i]
    /\ \A k \in DOMAIN vector : \E i \in set : k = Rank(set, i)

\* HasEntries, for any tree.
Has(t, event, set) ==
    /\ Len(event.rs) = Cardinality(set) /\ Len(event.zs) = Cardinality(set)
    /\ \A i \in set : /\ event.rs[Rank(set, i)] = t[i].r
                      /\ event.zs[Rank(set, i)] = t[i].z

IsBusy == loadPc \in {"Reading", "Cleaning", "Multiplying"}
ReadOf(id) == {i \in Accepted(id) : i < entry}
IdsRead == {id \in {tree[i].event_id : i \in 1 .. entry - 1} : IsAnalysed(id)}
IsAllowed(id) ==
    \A i \in Accepted(id) : ~selector(config.excludeEventsWithHitsInRZ, FALSE, tree[i])
Chosen == {id \in cleaned : IsAllowed(id)}

LoadTypeOK ==
    /\ loadPc \in {"Constructed", "Reading", "Cleaning", "Multiplying"} => config \in Configs
    /\ IsBusy => tree \in Seq(Entries) /\ entry \in 1 .. Len(tree) + 1
    /\ loadPc \in {"Started", "Constructed"} =>
           entry = 1 /\ pointsOf = <<>> /\ cleaned = {} /\ events = <<>>
    /\ loadPc = "Reading" => cleaned = {} /\ events = <<>>
    /\ loadPc \in {"Cleaning", "Multiplying"} => entry = Len(tree) + 1
    /\ loadPc = "Multiplying" => cleaned = DOMAIN pointsOf /\ copies = config.multiplyEvents

\* The map has the points read so far.
MapHoldsRead ==
    IsBusy => /\ DOMAIN pointsOf = IdsRead
              /\ \A id \in DOMAIN pointsOf : Holds(tree, pointsOf[id], ReadOf(id))

\* The list has the events visited so far that are not left out, by ascending id.
ListHoldsChosen ==
    IsBusy =>
        /\ cleaned \subseteq DOMAIN pointsOf /\ IsFiniteSet(cleaned)
        /\ \A a \in cleaned, b \in DOMAIN pointsOf \ cleaned : a < b
        /\ events \in Seq(LoadedEvents) /\ Len(events) = Cardinality(Chosen)
        /\ \A i \in DOMAIN events : /\ events[i].id \in Chosen
                                    /\ Has(tree, events[i], Accepted(events[i].id))
        /\ \A i, j \in DOMAIN events : i < j => events[i].id < events[j].id

LoadInv == LoadTypeOK /\ MapHoldsRead /\ ListHoldsChosen /\ LoadsSelectedEvents

\* The place of an element is one of 1 .. the number of elements.
LEMMA RankFacts ==
    ASSUME NEW set \in SUBSET Int, IsFiniteSet(set), NEW i \in set
    PROVE  Rank(set, i) \in 1 .. Cardinality(set)
<1> DEFINE below == {other \in set : other <= i}
<1>1. below \in SUBSET set /\ i \in below
    OBVIOUS
<1> HIDE DEF below
<1>2. IsFiniteSet(below) /\ Cardinality(below) <= Cardinality(set)
    BY <1>1, FS_Subset
<1>3. Cardinality(below) \in Nat /\ Cardinality(set) \in Nat
    BY <1>2, FS_CardinalityType
<1>4. Cardinality(below) # 0
    BY <1>1, <1>2, FS_EmptySet
<1>5. Rank(set, i) = Cardinality(below)
    BY DEF Rank, below
<1> QED BY <1>2, <1>3, <1>4, <1>5

\* A greater element comes last and moves no other.
LEMMA RankOfGreater ==
    ASSUME NEW set \in SUBSET Int, IsFiniteSet(set), NEW e \in Int, \A i \in set : i < e
    PROVE  /\ Rank(set \cup {e}, e) = Cardinality(set) + 1
           /\ \A i \in set : Rank(set \cup {e}, i) = Rank(set, i)
           /\ Cardinality(set \cup {e}) = Cardinality(set) + 1
<1>1. e \notin set
    OBVIOUS
<1>2. Cardinality(set \cup {e}) = Cardinality(set) + 1
    BY <1>1, FS_AddElement
<1>3. {other \in set \cup {e} : other <= e} = set \cup {e}
    <2>1. \A other \in set \cup {e} : other <= e
        OBVIOUS
    <2> DEFINE both == set \cup {e}
    <2> HIDE DEF both
    <2>2. {other \in both : other <= e} = both
        BY <2>1 DEF both
    <2> QED BY <2>2 DEF both
<1>4. ASSUME NEW i \in set PROVE Rank(set \cup {e}, i) = Rank(set, i)
    <2>1. {other \in set \cup {e} : other <= i} = {other \in set : other <= i}
        OBVIOUS
    <2> QED BY <2>1 DEF Rank
<1> QED BY <1>2, <1>3, <1>4 DEF Rank

\* Reading an accepted entry puts it at the end of the vector.
LEMMA HoldsAppended ==
    ASSUME NEW t \in Seq(Entries), NEW set \in SUBSET Int, IsFiniteSet(set), NEW vector,
           NEW e \in DOMAIN t, \A i \in set : i < e, Holds(t, vector, set)
    PROVE  Holds(t, Append(vector, t[e]), set \cup {e})
<1> DEFINE new == Append(vector, t[e])  n == Cardinality(set)
<1>1. /\ vector \in Seq(Entries) /\ Len(vector) = n /\ n \in Nat
      /\ \A i \in set : vector[Rank(set, i)] = t[i]
      /\ \A k \in DOMAIN vector : \E i \in set : k = Rank(set, i)
    BY DEF Holds
<1>2. e \in Int /\ t[e] \in Entries
    OBVIOUS
<1>3. /\ new \in Seq(Entries) /\ Len(new) = n + 1
      /\ \A k \in 1 .. n : new[k] = vector[k]
      /\ new[n + 1] = t[e]
      /\ DOMAIN new = 1 .. n + 1 /\ DOMAIN vector = 1 .. n
    BY <1>1, <1>2
<1> HIDE DEF new, n
<1>4. /\ Rank(set \cup {e}, e) = n + 1 /\ Cardinality(set \cup {e}) = n + 1
      /\ \A i \in set : Rank(set \cup {e}, i) = Rank(set, i)
    BY <1>2, RankOfGreater DEF n
<1>5. \A i \in set : Rank(set, i) \in 1 .. n
    BY RankFacts DEF n
<1>6. \A i \in set \cup {e} : new[Rank(set \cup {e}, i)] = t[i]
    BY <1>1, <1>3, <1>4, <1>5
<1>7. \A k \in DOMAIN new : \E i \in set \cup {e} : k = Rank(set \cup {e}, i)
    <2>1. ASSUME NEW k \in DOMAIN new PROVE \E i \in set \cup {e} : k = Rank(set \cup {e}, i)
        <3>1. CASE k = n + 1
            BY <1>4, <3>1
        <3>2. CASE k # n + 1
            <4>1. k \in DOMAIN vector
                BY <1>1, <1>3, <3>2
            <4>2. PICK i \in set : k = Rank(set, i)
                BY <1>1, <4>1
            <4> QED BY <1>4, <4>2
        <3> QED BY <3>1, <3>2
    <2> QED BY <2>1
<1> QED BY <1>3, <1>4, <1>6, <1>7 DEF Holds, new

\* The event made of a vector has its entries.
LEMMA NewEventHas ==
    ASSUME NEW t \in Seq(Entries), NEW set \in SUBSET (DOMAIN t), IsFiniteSet(set),
           NEW vector, Holds(t, vector, set), NEW id \in Int
    PROVE  Has(t, NewEvent(id, vector), set) /\ NewEvent(id, vector) \in LoadedEvents
<1> DEFINE event == NewEvent(id, vector)
<1>1. /\ vector \in Seq(Entries) /\ Len(vector) = Cardinality(set)
      /\ DOMAIN vector = 1 .. Len(vector) /\ Len(vector) \in Nat
      /\ \A i \in set : vector[Rank(set, i)] = t[i]
    BY DEF Holds
<1>2. /\ event.id = id
      /\ event.rs = [i \in 1 .. Len(vector) |-> vector[i].r]
      /\ event.zs = [i \in 1 .. Len(vector) |-> vector[i].z]
      /\ event = [id |-> event.id, rs |-> event.rs, zs |-> event.zs]
    BY <1>1 DEF NewEvent
<1>3. \A i \in 1 .. Len(vector) : vector[i] \in Entries
    BY <1>1
<1>4. \A i \in 1 .. Len(vector) : vector[i].r \in Int /\ vector[i].z \in Int
    BY <1>3 DEF Entries
<1> HIDE DEF event
<1>5. event.rs \in Seq(Int) /\ event.zs \in Seq(Int)
    <2>1. event.rs \in [1 .. Len(vector) -> Int] /\ event.zs \in [1 .. Len(vector) -> Int]
        BY <1>2, <1>4
    <2>2. \A n \in Nat : [1 .. n -> Int] \in SUBSET Seq(Int)
        BY SeqDef
    <2> QED BY <1>1, <2>1, <2>2
<1>6. Len(event.rs) = Cardinality(set) /\ Len(event.zs) = Cardinality(set)
    BY <1>1, <1>2
<1>7. set \in SUBSET Int
    OBVIOUS
<1>8. \A i \in set : Rank(set, i) \in 1 .. Len(vector)
    BY <1>1, <1>7, RankFacts
<1>9. \A i \in set : event.rs[Rank(set, i)] = t[i].r /\ event.zs[Rank(set, i)] = t[i].z
    BY <1>1, <1>2, <1>8
<1>10. event \in LoadedEvents
    BY <1>2, <1>5 DEF LoadedEvents
<1> QED BY <1>6, <1>9, <1>10 DEF Has, event

\* What the indices of an event are, while the tree is read and after.
LEMMA AcceptedFacts ==
    ASSUME tree \in Seq(Entries), entry \in Nat, NEW id
    PROVE  /\ Accepted(id) \in SUBSET (DOMAIN tree) /\ ReadOf(id) \in SUBSET (DOMAIN tree)
           /\ IsFiniteSet(Accepted(id)) /\ IsFiniteSet(ReadOf(id))
           /\ ReadOf(id) \in SUBSET Int /\ \A i \in ReadOf(id) : i < entry
           /\ DOMAIN tree = 1 .. Len(tree) /\ Len(tree) \in Nat
           /\ entry = Len(tree) + 1 => ReadOf(id) = Accepted(id)
<1>1. DOMAIN tree = 1 .. Len(tree) /\ Len(tree) \in Nat
    OBVIOUS
<1>2. Accepted(id) \in SUBSET (DOMAIN tree) /\ ReadOf(id) \in SUBSET (DOMAIN tree)
    BY DEF Accepted, ReadOf
<1>3. IsFiniteSet(DOMAIN tree)
    BY <1>1, FS_Interval
<1>4. IsFiniteSet(Accepted(id)) /\ IsFiniteSet(ReadOf(id))
    BY <1>2, <1>3, FS_Subset
<1>5. entry = Len(tree) + 1 => ReadOf(id) = Accepted(id)
    BY <1>1, <1>2 DEF ReadOf
<1> QED BY <1>1, <1>2, <1>4, <1>5 DEF ReadOf

\* What is accepted does not depend on how far the tree is read.
LEMMA Unmoved ==
    ASSUME tree' = tree, config' = config
    PROVE  \A id : /\ Accepted(id)' = Accepted(id)
                   /\ IsAllowed(id)' <=> IsAllowed(id)
                   /\ IsAnalysed(id)' <=> IsAnalysed(id)
BY DEF Accepted, IsAllowed, IsAnalysed

\* The invariant holds before anything is loaded.
LEMMA LoadInitInv == LoadInit => LoadInv
BY DEF LoadInit, LoadInv, LoadTypeOK, MapHoldsRead, ListHoldsChosen, LoadsSelectedEvents, IsBusy

\* The constructor, with and without an argument, keeps it.
LEMMA ConstructKeeps ==
    ASSUME LoadInv, ConstructApplication
    PROVE  LoadInv'
<1>1. /\ loadPc = "Started" /\ entry' = entry /\ pointsOf' = pointsOf
      /\ cleaned' = cleaned /\ events' = events
      /\ \/ loadPc' \in {"Exited", "Threw"}
         \/ loadPc' = "Constructed" /\ config' \in Configs
    BY DEF ConstructApplication
<1>2. LoadTypeOK'
    BY <1>1 DEF LoadInv, LoadTypeOK, IsBusy
<1> QED BY <1>1, <1>2 DEF LoadInv, MapHoldsRead, ListHoldsChosen, LoadsSelectedEvents, IsBusy

\* So does the choice of the platform and of the tree,
LEMMA RunKeeps ==
    ASSUME LoadInv, RunApplication
    PROVE  LoadInv'
<1>1. /\ loadPc = "Constructed" /\ config' = config /\ entry' = entry /\ pointsOf' = pointsOf
      /\ cleaned' = cleaned /\ events' = events
      /\ \/ loadPc' \in {"Returned", "NullEvents", "Threw"}
         \/ loadPc' = "Reading" /\ tree' \in Trees
    BY DEF RunApplication
<1>2. entry = 1 /\ pointsOf = <<>> /\ cleaned = {} /\ events = <<>> /\ config \in Configs
    BY <1>1 DEF LoadInv, LoadTypeOK
<1>3. CASE loadPc' \in {"Returned", "NullEvents", "Threw"}
    BY <1>3 DEF LoadInv, LoadTypeOK, MapHoldsRead, ListHoldsChosen, LoadsSelectedEvents, IsBusy
<1>4. CASE loadPc' = "Reading" /\ tree' \in Trees
    <2>1. tree' \in Seq(Entries)
        BY <1>4, LoadAssumption DEF Entries
    <2>2. entry' \in 1 .. Len(tree') + 1
        BY <1>1, <1>2, <2>1
    <2>3. LoadTypeOK'
        BY <1>1, <1>2, <1>4, <2>1, <2>2 DEF LoadTypeOK
    <2>4. IdsRead' = {} /\ DOMAIN pointsOf' = {}
        BY <1>1, <1>2 DEF IdsRead
    <2>5. MapHoldsRead'
        BY <2>4 DEF MapHoldsRead
    <2>6. Chosen' = {}
        BY <1>1, <1>2 DEF Chosen
    <2>7. ListHoldsChosen'
        <3>1. events' \in Seq(LoadedEvents) /\ Len(events') = 0 /\ DOMAIN events' = {}
            BY <1>1, <1>2
        <3>2. cleaned' = {} /\ IsFiniteSet(cleaned') /\ Cardinality(Chosen') = 0
            BY <1>1, <1>2, <2>6, FS_EmptySet
        <3> QED BY <3>1, <3>2 DEF ListHoldsChosen
    <2> QED BY <1>4, <2>3, <2>5, <2>7 DEF LoadInv, LoadsSelectedEvents
<1> QED BY <1>1, <1>3, <1>4

\* A step that leaves the list alone keeps what it holds.
LEMMA ListStays ==
    ASSUME LoadInv, IsBusy, tree' = tree, config' = config, cleaned' = cleaned, events' = events,
           \A a \in cleaned, b \in DOMAIN pointsOf' \ cleaned : a < b,
           cleaned \subseteq DOMAIN pointsOf'
    PROVE  ListHoldsChosen'
<1>1. Chosen' = Chosen
    BY Unmoved DEF Chosen
<1>2. \A id : Accepted(id)' = Accepted(id)
    BY Unmoved
<1>3. (\A i \in DOMAIN events : Has(tree, events[i], Accepted(events[i].id)))'
      <=> \A i \in DOMAIN events : Has(tree, events[i], Accepted(events[i].id))
    BY <1>2
<1> QED BY <1>1, <1>3 DEF LoadInv, ListHoldsChosen

\* an entry of the tree, accepted or not,
LEMMA ReadEntryKeeps ==
    ASSUME LoadInv, ReadEntry
    PROVE  LoadInv'
<1> DEFINE e == entry  id0 == tree[entry].event_id
<1>1. /\ loadPc = "Reading" /\ entry <= Len(tree) /\ entry' = entry + 1
      /\ pointsOf' = IF IsAnalysed(id0) THEN AddedTo(pointsOf, tree[e]) ELSE pointsOf
      /\ loadPc' = loadPc /\ config' = config /\ tree' = tree /\ cleaned' = cleaned
      /\ events' = events
    BY DEF ReadEntry
<1>2. /\ LoadTypeOK /\ MapHoldsRead /\ ListHoldsChosen /\ IsBusy
      /\ tree \in Seq(Entries) /\ entry \in 1 .. Len(tree) + 1 /\ Len(tree) \in Nat
      /\ cleaned = {} /\ events = <<>>
    BY <1>1 DEF LoadInv, LoadTypeOK, IsBusy
<1>3. e \in DOMAIN tree /\ e \in Int /\ entry \in Nat /\ DOMAIN tree = 1 .. Len(tree)
    BY <1>1, <1>2
<1>4. LoadTypeOK'
    BY <1>1, <1>2, <1>3 DEF LoadTypeOK
<1> DEFINE isAccepted == ~selector(config.excludeRZRegions, FALSE, tree[e])
<1>5. \A id : ReadOf(id)' = IF id = id0 /\ isAccepted THEN ReadOf(id) \cup {e} ELSE ReadOf(id)
    <2> SUFFICES ASSUME NEW id
                 PROVE  ReadOf(id)' = IF id = id0 /\ isAccepted THEN ReadOf(id) \cup {e} ELSE ReadOf(id)
        OBVIOUS
    <2>1. ReadOf(id)' = {i \in Accepted(id) : i < entry + 1}
        BY <1>1, Unmoved DEF ReadOf
    <2>2. e \in Accepted(id) <=> id = id0 /\ isAccepted
        BY <1>3 DEF Accepted
    <2>3. \A i \in Accepted(id) : i < entry + 1 <=> i < entry \/ i = e
        BY <1>3 DEF Accepted
    <2> HIDE DEF isAccepted, id0
    <2>4. ReadOf(id)' = ReadOf(id) \cup (Accepted(id) \cap {e})
        BY <2>1, <2>3 DEF ReadOf
    <2> QED BY <2>2, <2>4
<1>6. IdsRead' = IdsRead \cup (IF IsAnalysed(id0) THEN {id0} ELSE {})
    <2>1. 1 .. entry' - 1 = (1 .. entry - 1) \cup {e}
        BY <1>1, <1>2
    <2>2. {tree'[i].event_id : i \in 1 .. entry' - 1}
              = {tree[i].event_id : i \in 1 .. entry - 1} \cup {id0}
        BY <1>1, <2>1
    <2> HIDE DEF id0
    <2> QED BY <1>1, <2>2, Unmoved DEF IdsRead
<1>7. \A id : IsAnalysed(id) /\ id \notin IdsRead => ReadOf(id) = {}
    <2>1. ASSUME NEW id, NEW i \in ReadOf(id), IsAnalysed(id) PROVE id \in IdsRead
        <3>1. i \in 1 .. entry - 1 /\ tree[i].event_id = id
            BY <1>3 DEF ReadOf, Accepted
        <3> QED BY <2>1, <3>1 DEF IdsRead
    <2> QED BY <2>1
<1> DEFINE base(id) == IF id \in DOMAIN pointsOf THEN pointsOf[id] ELSE <<>>
<1>8. \A id : IsAnalysed(id) => Holds(tree, base(id), ReadOf(id))
    <2> SUFFICES ASSUME NEW id, IsAnalysed(id) PROVE Holds(tree, base(id), ReadOf(id))
        OBVIOUS
    <2>1. DOMAIN pointsOf = IdsRead /\ (id \in DOMAIN pointsOf => Holds(tree, pointsOf[id], ReadOf(id)))
        BY <1>2 DEF MapHoldsRead
    <2>2. CASE id \in DOMAIN pointsOf
        BY <2>1, <2>2
    <2>3. CASE id \notin DOMAIN pointsOf
        <3>1. ReadOf(id) = {} /\ base(id) = <<>>
            BY <1>7, <2>1, <2>3
        <3>2. <<>> \in Seq(Entries) /\ Len(<<>>) = 0 /\ DOMAIN <<>> = {}
            OBVIOUS
        <3>3. Cardinality({}) = 0
            BY FS_EmptySet
        <3> QED BY <3>1, <3>2, <3>3 DEF Holds
    <2> QED BY <2>2, <2>3
<1>9. DOMAIN pointsOf = IdsRead /\ \A id \in IdsRead : IsAnalysed(id)
    BY <1>2 DEF MapHoldsRead, IdsRead
<1>10. \A id \in DOMAIN pointsOf' : Holds(tree, pointsOf'[id], ReadOf(id)')
    <2> SUFFICES ASSUME NEW id \in DOMAIN pointsOf' PROVE Holds(tree, pointsOf'[id], ReadOf(id)')
        OBVIOUS
    <2>1. CASE ~ IsAnalysed(id0)
        <3>1. pointsOf' = pointsOf /\ id # id0 /\ IsAnalysed(id)
            BY <1>1, <1>9, <2>1
        <3>2. ReadOf(id)' = ReadOf(id) /\ base(id) = pointsOf[id]
            BY <1>5, <3>1
        <3> QED BY <1>8, <3>1, <3>2
    <2>2. CASE IsAnalysed(id0)
        <3>1. pointsOf' = [k \in DOMAIN pointsOf \cup {id0} |->
                  base(k) \o IF k = id0 /\ isAccepted THEN <<tree[e]>> ELSE <<>>]
            BY <1>1, <2>2 DEF AddedTo
        <3> HIDE DEF base, isAccepted, id0, e
        <3>2. id \in DOMAIN pointsOf \cup {id0}
            BY <3>1
        <3>3. IsAnalysed(id) /\ Holds(tree, base(id), ReadOf(id)) /\ base(id) \in Seq(Entries)
            BY <1>8, <1>9, <2>2, <3>2 DEF Holds
        <3>4. pointsOf'[id] = base(id) \o IF id = id0 /\ isAccepted THEN <<tree[e]>> ELSE <<>>
            BY <3>1, <3>2
        <3>5. CASE id = id0 /\ isAccepted
            <4>1. tree[e] \in Entries
                BY <1>2, <1>3
            <4>2. pointsOf'[id] = Append(base(id), tree[e])
                BY <3>3, <3>4, <3>5, <4>1, AppendToConcat
            <4>3. ReadOf(id)' = ReadOf(id) \cup {e}
                BY <1>5, <3>5
            <4>4. ReadOf(id) \in SUBSET Int /\ IsFiniteSet(ReadOf(id)) /\ \A i \in ReadOf(id) : i < e
                BY <1>2, <1>3, AcceptedFacts DEF e
            <4>5. Holds(tree, Append(base(id), tree[e]), ReadOf(id) \cup {e})
                BY <1>2, <1>3, <3>3, <4>4, HoldsAppended
            <4> QED BY <4>2, <4>3, <4>5
        <3>6. CASE ~ (id = id0 /\ isAccepted)
            <4>1. pointsOf'[id] = base(id) /\ ReadOf(id)' = ReadOf(id)
                <5>1. pointsOf'[id] = base(id) \o <<>>
                    BY <3>4, <3>6
                <5>2. base(id) \o <<>> = base(id)
                    BY <3>3
                <5> QED BY <1>5, <3>6, <5>1, <5>2
            <4> QED BY <3>3, <4>1
        <3> QED BY <3>5, <3>6
    <2> QED BY <2>1, <2>2
<1>11. DOMAIN pointsOf' = IdsRead'
    <2>1. DOMAIN pointsOf' = DOMAIN pointsOf \cup (IF IsAnalysed(id0) THEN {id0} ELSE {})
        BY <1>1 DEF AddedTo
    <2> QED BY <1>6, <1>9, <2>1
<1>12. MapHoldsRead'
    BY <1>1, <1>10, <1>11 DEF MapHoldsRead
<1>13. ListHoldsChosen'
    BY <1>1, <1>2, ListStays
<1> QED BY <1>1, <1>4, <1>12, <1>13 DEF LoadInv, LoadsSelectedEvents

\* the end of the tree,
LEMMA EndReadingKeeps ==
    ASSUME LoadInv, EndReading
    PROVE  LoadInv'
<1>1. /\ loadPc = "Reading" /\ loadPc' = "Cleaning" /\ entry > Len(tree)
      /\ config' = config /\ tree' = tree /\ entry' = entry /\ pointsOf' = pointsOf
      /\ cleaned' = cleaned /\ events' = events
    BY DEF EndReading
<1>2. LoadTypeOK /\ MapHoldsRead /\ ListHoldsChosen /\ IsBusy
    BY <1>1 DEF LoadInv, IsBusy
<1>3. LoadTypeOK'
    BY <1>1, <1>2 DEF LoadTypeOK
<1>4. (\A id \in DOMAIN pointsOf : Holds(tree, pointsOf[id], ReadOf(id)))' /\ IdsRead' = IdsRead
    <2>1. \A id : ReadOf(id)' = ReadOf(id)
        BY <1>1, Unmoved DEF ReadOf
    <2>2. IdsRead' = IdsRead
        BY <1>1, Unmoved DEF IdsRead
    <2> QED BY <1>1, <1>2, <2>1, <2>2 DEF MapHoldsRead
<1>5. MapHoldsRead'
    BY <1>1, <1>2, <1>4 DEF MapHoldsRead
<1>6. ListHoldsChosen'
    BY <1>1, <1>2, ListStays DEF ListHoldsChosen
<1> QED BY <1>1, <1>3, <1>5, <1>6 DEF LoadInv, LoadsSelectedEvents

\* While the map is cleaned it has all accepted points of all events that are analysed.
LEMMA CleaningFacts ==
    ASSUME LoadInv, loadPc \in {"Cleaning", "Multiplying"}
    PROVE  /\ tree \in Seq(Entries) /\ entry \in Nat /\ IsBusy
           /\ DOMAIN pointsOf = {id \in {tree[i].event_id : i \in DOMAIN tree} : IsAnalysed(id)}
           /\ \A id \in DOMAIN pointsOf : id \in Int /\ Holds(tree, pointsOf[id], Accepted(id))
<1>1. /\ LoadTypeOK /\ MapHoldsRead /\ IsBusy /\ tree \in Seq(Entries)
      /\ entry = Len(tree) + 1 /\ entry \in Nat
    BY DEF LoadInv, LoadTypeOK, IsBusy
<1>2. DOMAIN tree = 1 .. entry - 1
    BY <1>1
<1>3. DOMAIN pointsOf = {id \in {tree[i].event_id : i \in DOMAIN tree} : IsAnalysed(id)}
    BY <1>1, <1>2 DEF MapHoldsRead, IdsRead
<1>4. \A id : ReadOf(id) = Accepted(id)
    BY <1>1, AcceptedFacts
<1>5. \A i \in DOMAIN tree : tree[i] \in Entries
    BY <1>1
<1>6. \A i \in DOMAIN tree : tree[i].event_id \in Int
    BY <1>5 DEF Entries
<1> QED BY <1>1, <1>3, <1>4, <1>6 DEF MapHoldsRead

\* The second loop looks at all accepted points of the event.
LEMMA VetoIsSeen ==
    ASSUME LoadInv, loadPc = "Cleaning", NEW id \in DOMAIN pointsOf
    PROVE  (\E k \in DOMAIN pointsOf[id] :
                selector(config.excludeEventsWithHitsInRZ, FALSE, pointsOf[id][k]))
           <=> ~ IsAllowed(id)
<1>1. /\ tree \in Seq(Entries) /\ entry \in Nat
      /\ Holds(tree, pointsOf[id], Accepted(id))
    BY CleaningFacts
<1>2. /\ Len(pointsOf[id]) = Cardinality(Accepted(id)) /\ pointsOf[id] \in Seq(Entries)
      /\ \A i \in Accepted(id) : pointsOf[id][Rank(Accepted(id), i)] = tree[i]
      /\ \A k \in DOMAIN pointsOf[id] : \E i \in Accepted(id) : k = Rank(Accepted(id), i)
    BY <1>1 DEF Holds
<1>3. DOMAIN pointsOf[id] = 1 .. Cardinality(Accepted(id))
    BY <1>2
<1>4. \A i \in Accepted(id) : Rank(Accepted(id), i) \in DOMAIN pointsOf[id]
    <2>1. IsFiniteSet(Accepted(id)) /\ Accepted(id) \in SUBSET Int
        BY <1>1, AcceptedFacts
    <2> QED BY <1>3, <2>1, RankFacts
<1> QED BY <1>2, <1>4 DEF IsAllowed

\* the next event of the map, left out or appended,
LEMMA CleanKeeps ==
    ASSUME LoadInv, NEW id \in DOMAIN pointsOf, CleanEvent(id)
    PROVE  LoadInv'
<1> DEFINE new == NewEvent(id, pointsOf[id])
<1>1. /\ loadPc = "Cleaning" /\ loadPc' = loadPc /\ id \notin cleaned
      /\ \A other \in DOMAIN pointsOf \ cleaned : id <= other
      /\ cleaned' = cleaned \cup {id}
      /\ config' = config /\ tree' = tree /\ entry' = entry /\ pointsOf' = pointsOf
      /\ events' = IF \E k \in DOMAIN pointsOf[id] :
                         selector(config.excludeEventsWithHitsInRZ, FALSE, pointsOf[id][k])
                   THEN events ELSE Append(events, new)
    BY DEF CleanEvent
<1>2. LoadTypeOK /\ MapHoldsRead /\ ListHoldsChosen /\ IsBusy
    BY <1>1 DEF LoadInv, IsBusy
<1>3. LoadTypeOK'
    BY <1>1, <1>2 DEF LoadTypeOK, IsBusy
<1>4. MapHoldsRead'
    <2>1. \A k : ReadOf(k)' = ReadOf(k)
        BY <1>1, Unmoved DEF ReadOf
    <2>2. IdsRead' = IdsRead
        BY <1>1, Unmoved DEF IdsRead
    <2>3. (\A k \in DOMAIN pointsOf : Holds(tree, pointsOf[k], ReadOf(k)))'
        BY <1>1, <1>2, <2>1 DEF MapHoldsRead
    <2> QED BY <1>1, <1>2, <2>2, <2>3 DEF MapHoldsRead
<1>5. /\ tree \in Seq(Entries) /\ entry \in Nat
      /\ \A k \in DOMAIN pointsOf : k \in Int /\ Holds(tree, pointsOf[k], Accepted(k))
    BY <1>1, CleaningFacts
<1>6. /\ cleaned \subseteq DOMAIN pointsOf /\ IsFiniteSet(cleaned)
      /\ \A a \in cleaned, b \in DOMAIN pointsOf \ cleaned : a < b
      /\ events \in Seq(LoadedEvents) /\ Len(events) = Cardinality(Chosen)
      /\ \A i \in DOMAIN events : /\ events[i].id \in Chosen
                                  /\ Has(tree, events[i], Accepted(events[i].id))
      /\ \A i, j \in DOMAIN events : i < j => events[i].id < events[j].id
    BY <1>2 DEF ListHoldsChosen
<1>7. /\ cleaned' \subseteq DOMAIN pointsOf' /\ IsFiniteSet(cleaned')
      /\ \A a \in cleaned', b \in DOMAIN pointsOf' \ cleaned' : a < b
    <2>1. \A b \in DOMAIN pointsOf \ (cleaned \cup {id}) : id < b
        BY <1>1, <1>5
    <2> QED BY <1>1, <1>6, <2>1, FS_AddElement
<1>8. Chosen' = IF IsAllowed(id) THEN Chosen \cup {id} ELSE Chosen
    BY <1>1, Unmoved DEF Chosen
<1>9. events' = IF IsAllowed(id) THEN Append(events, new) ELSE events
    BY <1>1, VetoIsSeen
<1>10. \A k : Accepted(k)' = Accepted(k)
    BY <1>1, Unmoved
<1>11. CASE ~ IsAllowed(id)
    <2>1. events' = events /\ Chosen' = Chosen
        BY <1>8, <1>9, <1>11
    <2>2. (\A i \in DOMAIN events : Has(tree, events[i], Accepted(events[i].id)))'
        BY <1>1, <1>6, <1>10, <2>1
    <2>3. ListHoldsChosen'
        BY <1>6, <1>7, <2>1, <2>2 DEF ListHoldsChosen
    <2> QED BY <1>1, <1>3, <1>4, <2>3 DEF LoadInv, LoadsSelectedEvents
<1>12. CASE IsAllowed(id)
    <2> DEFINE n == Len(events)
    <2>1. events' = Append(events, new) /\ Chosen' = Chosen \cup {id}
        BY <1>8, <1>9, <1>12
    <2>2. /\ new \in LoadedEvents /\ new.id = id /\ Has(tree, new, Accepted(id))
        <3>1. Accepted(id) \in SUBSET (DOMAIN tree) /\ IsFiniteSet(Accepted(id))
            BY <1>5, AcceptedFacts
        <3>2. new.id = id
            BY DEF NewEvent
        <3> QED BY <1>5, <3>1, <3>2, NewEventHas
    <2> HIDE DEF new
    <2>3. /\ events' \in Seq(LoadedEvents) /\ Len(events') = n + 1 /\ n \in Nat
          /\ DOMAIN events = 1 .. n /\ DOMAIN events' = 1 .. n + 1
          /\ \A i \in 1 .. n : events'[i] = events[i]
          /\ events'[n + 1] = new
        BY <1>6, <2>1, <2>2
    <2> HIDE DEF n
    <2>4. IsFiniteSet(Chosen) /\ id \notin Chosen
        BY <1>1, <1>6, FS_Subset DEF Chosen
    <2>5. Cardinality(Chosen') = n + 1
        BY <1>6, <2>1, <2>4, FS_AddElement DEF n
    <2>6. (\A i \in DOMAIN events : Has(tree, events[i], Accepted(events[i].id)))'
        <3> SUFFICES ASSUME NEW i \in DOMAIN events'
                     PROVE  (Has(tree, events[i], Accepted(events[i].id)))'
            OBVIOUS
        <3>1. CASE i \in 1 .. n
            BY <1>1, <1>6, <1>10, <2>3, <3>1
        <3>2. CASE i = n + 1
            BY <1>1, <1>10, <2>2, <2>3, <3>2
        <3> QED BY <2>3, <3>1, <3>2
    <2>7. \A i \in DOMAIN events' : events'[i].id \in Chosen'
        <3> SUFFICES ASSUME NEW i \in DOMAIN events' PROVE events'[i].id \in Chosen'
            OBVIOUS
        <3>1. CASE i \in 1 .. n
            BY <1>6, <2>1, <2>3, <3>1
        <3>2. CASE i = n + 1
            BY <2>1, <2>2, <2>3, <3>2
        <3> QED BY <2>3, <3>1, <3>2
    <2>8. \A i, j \in DOMAIN events' : i < j => events'[i].id < events'[j].id
        <3> SUFFICES ASSUME NEW i \in DOMAIN events', NEW j \in DOMAIN events', i < j
                     PROVE  events'[i].id < events'[j].id
            OBVIOUS
        <3>1. i \in 1 .. n
            BY <2>3
        <3>2. CASE j \in 1 .. n
            BY <1>6, <2>3, <3>1, <3>2
        <3>3. CASE j = n + 1
            <4>1. events[i].id \in cleaned
                BY <1>6, <2>3, <3>1 DEF Chosen
            <4>2. events[i].id < id
                BY <1>1, <1>6, <4>1
            <4> QED BY <2>2, <2>3, <3>1, <3>3, <4>2
        <3> QED BY <2>3, <3>2, <3>3
    <2>9. ListHoldsChosen'
        BY <1>7, <2>3, <2>5, <2>6, <2>7, <2>8 DEF ListHoldsChosen
    <2> QED BY <1>1, <1>3, <1>4, <2>9 DEF LoadInv, LoadsSelectedEvents
<1> QED BY <1>11, <1>12

\* the end of the map,
LEMMA EndCleaningKeeps ==
    ASSUME LoadInv, EndCleaning
    PROVE  LoadInv'
<1>1. /\ loadPc = "Cleaning" /\ loadPc' = "Multiplying" /\ DOMAIN pointsOf = cleaned
      /\ copies' = config.multiplyEvents
      /\ config' = config /\ tree' = tree /\ entry' = entry /\ pointsOf' = pointsOf
      /\ cleaned' = cleaned /\ events' = events
    BY DEF EndCleaning
<1>2. LoadTypeOK /\ MapHoldsRead /\ ListHoldsChosen /\ IsBusy
    BY <1>1 DEF LoadInv, IsBusy
<1>3. LoadTypeOK'
    BY <1>1, <1>2 DEF LoadTypeOK, IsBusy
<1>4. MapHoldsRead'
    <2>1. \A k : ReadOf(k)' = ReadOf(k)
        BY <1>1, Unmoved DEF ReadOf
    <2>2. IdsRead' = IdsRead
        BY <1>1, Unmoved DEF IdsRead
    <2>3. (\A k \in DOMAIN pointsOf : Holds(tree, pointsOf[k], ReadOf(k)))'
        BY <1>1, <1>2, <2>1 DEF MapHoldsRead
    <2> QED BY <1>1, <1>2, <2>2, <2>3 DEF MapHoldsRead
<1>5. ListHoldsChosen'
    BY <1>1, <1>2, ListStays DEF ListHoldsChosen
<1> QED BY <1>1, <1>3, <1>4, <1>5 DEF LoadInv, LoadsSelectedEvents

\* A place in a list of copies is a place in one of them.
LEMMA TurnFacts ==
    ASSUME NEW n \in Nat \ {0}, NEW a \in Nat
    PROVE  /\ a % n \in 0 .. n - 1
           /\ \A b \in Nat : a < b /\ a \div n = b \div n => a % n < b % n
<1> SUFFICES ASSUME NEW b \in Nat
             PROVE  /\ a % n \in 0 .. n - 1
                    /\ a < b /\ a \div n = b \div n => a % n < b % n
    OBVIOUS
<1>1. /\ a = n * (a \div n) + (a % n) /\ a % n \in 0 .. n - 1
      /\ b = n * (b \div n) + (b % n) /\ b % n \in 0 .. n - 1
    BY Z3
<1> DEFINE p == n * (a \div n)  q == n * (b \div n)  r == a % n  s == b % n
<1>2. p \in Int /\ q \in Int
    BY Z3
<1>3. a \div n = b \div n => p = q
    OBVIOUS
<1>4. a = p + r /\ b = q + s /\ r \in 0 .. n - 1 /\ s \in 0 .. n - 1
    BY <1>1
<1> HIDE DEF p, q, r, s
<1>5. a < b /\ p = q => r < s
    BY <1>2, <1>4
<1> QED BY <1>3, <1>4, <1>5 DEF r, s

\* Copies are of what the list had.
LEMMA MultiplyKeeps ==
    ASSUME LoadInv, MultiplyEvents
    PROVE  LoadInv'
<1> DEFINE n == Len(events)  m == copies
<1>1. /\ loadPc = "Multiplying" /\ loadPc' = "Loaded"
      /\ config' = config /\ tree' = tree /\ cleaned' = cleaned
      /\ events' = [i \in 1 .. m * n |-> events[1 + ((i - 1) % n)]]
    BY DEF MultiplyEvents, CopyOfEvent
<1>2. /\ LoadTypeOK /\ ListHoldsChosen /\ IsBusy /\ cleaned = DOMAIN pointsOf
      /\ m = config.multiplyEvents /\ m \in Nat
    BY <1>1, LoadAssumption DEF LoadInv, LoadTypeOK, IsBusy
<1>3. /\ events \in Seq(LoadedEvents) /\ n = Cardinality(Chosen)
      /\ \A i \in DOMAIN events : /\ events[i].id \in Chosen
                                  /\ Has(tree, events[i], Accepted(events[i].id))
      /\ \A i, j \in DOMAIN events : i < j => events[i].id < events[j].id
    BY <1>2 DEF ListHoldsChosen
<1>4. Selected' = Chosen
    <2>1. DOMAIN pointsOf = {id \in {tree[i].event_id : i \in DOMAIN tree} : IsAnalysed(id)}
        BY <1>1, CleaningFacts
    <2>2. Selected = Chosen
        BY <1>2, <2>1 DEF Selected, Chosen, IsAllowed
    <2>3. Selected' = Selected
        BY <1>1 DEF Selected, Accepted, IsAnalysed
    <2> QED BY <2>2, <2>3
<1>5. n \in Nat /\ DOMAIN events = 1 .. n /\ m * n \in Nat
    BY <1>2, <1>3
<1> DEFINE from(i) == 1 + ((i - 1) % n)
<1> HIDE DEF n, m
<1>6. DOMAIN events' = 1 .. m * n /\ Len(events') = m * n
    BY <1>1, <1>5
<1>7. \A i \in 1 .. m * n : n \in Nat \ {0}
    <2>1. n = 0 => m * n = 0
        BY <1>2
    <2> QED BY <1>5, <2>1
<1>8. \A i \in 1 .. m * n : from(i) \in DOMAIN events /\ events'[i] = events[from(i)]
    <2> SUFFICES ASSUME NEW i \in 1 .. m * n
                 PROVE  from(i) \in DOMAIN events /\ events'[i] = events[from(i)]
        OBVIOUS
    <2> DEFINE t == (i - 1) % n
    <2>1. t \in 0 .. n - 1
        <3> DEFINE a == i - 1
        <3>1. a \in Nat /\ n \in Nat \ {0}
            BY <1>5, <1>7
        <3> HIDE DEF a
        <3>2. a % n \in 0 .. n - 1
            BY <3>1, TurnFacts
        <3> QED BY <3>2 DEF a
    <2>2. events'[i] = events[1 + t]
        BY <1>1
    <2> HIDE DEF t
    <2>3. 1 + t \in 1 .. n
        BY <1>5, <2>1
    <2> QED BY <1>5, <2>2, <2>3 DEF t
<1>9. \A i, j \in 1 .. m * n : i < j /\ (i - 1) \div n = (j - 1) \div n => from(i) < from(j)
    <2> SUFFICES ASSUME NEW i \in 1 .. m * n, NEW j \in 1 .. m * n, i < j,
                        (i - 1) \div n = (j - 1) \div n
                 PROVE  from(i) < from(j)
        OBVIOUS
    <2> DEFINE a == i - 1  b == j - 1  r == a % n  s == b % n
    <2>1. a \in Nat /\ b \in Nat /\ a < b
        BY <1>5
    <2>2. n \in Nat \ {0}
        BY <1>7
    <2>3. r \in 0 .. n - 1 /\ s \in 0 .. n - 1 /\ r < s
        BY <2>1, <2>2, TurnFacts
    <2> HIDE DEF r, s
    <2>4. 1 + r < 1 + s
        BY <1>5, <2>3
    <2> QED BY <2>4 DEF r, s
<1> HIDE DEF from
<1>10. \A id : Accepted(id)' = Accepted(id)
    BY <1>1, Unmoved
<1>11. (\A i \in DOMAIN events : /\ events[i].id \in Selected
                                 /\ HasEntries(events[i], Accepted(events[i].id)))'
    <2>1. (\A event, set : HasEntries(event, set) <=> Has(tree, event, set))'
        BY DEF HasEntries, Has
    <2> QED BY <1>1, <1>3, <1>4, <1>6, <1>8, <1>10, <2>1
<1>12. \A i, j \in DOMAIN events' :
           i < j /\ (i - 1) \div n = (j - 1) \div n => events'[i].id < events'[j].id
    BY <1>3, <1>6, <1>8, <1>9
<1>13. LoadsSelectedEvents'
    <2> DEFINE count == Cardinality(Selected')
    <2>1. n = count
        BY <1>3, <1>4
    <2>2. Len(events') = config'.multiplyEvents * count
        BY <1>1, <1>2, <1>6, <2>1
    <2>3. \A i, j \in DOMAIN events' :
              i < j /\ (i - 1) \div count = (j - 1) \div count => events'[i].id < events'[j].id
        BY ONLY <1>12, <2>1
    <2> QED BY ONLY <1>11, <2>2, <2>3 DEF LoadsSelectedEvents
<1> QED BY <1>1, <1>13 DEF LoadInv, LoadTypeOK, MapHoldsRead, ListHoldsChosen, IsBusy

\* Every step keeps the invariant.
LEMMA LoadNextKeeps == LoadInv /\ [LoadNext]_loadVars => LoadInv'
<1> SUFFICES ASSUME LoadInv, [LoadNext]_loadVars PROVE LoadInv'
    OBVIOUS
<1>1. CASE UNCHANGED loadVars
    <2>1. LoadTypeOK'
        BY <1>1 DEF loadVars, LoadInv, LoadTypeOK, IsBusy
    <2>2. MapHoldsRead'
        BY <1>1 DEF loadVars, LoadInv, MapHoldsRead, IsBusy, IdsRead, ReadOf, IsAnalysed, Accepted
    <2>3. ListHoldsChosen'
        BY <1>1 DEF loadVars, LoadInv, ListHoldsChosen, IsBusy, Chosen, IsAllowed, Accepted
    <2>4. Selected' = Selected /\ \A event, id : (HasEntries(event, Accepted(id)) <=> HasEntries(event, Accepted(id))')
        BY <1>1 DEF loadVars, Selected, IsAnalysed, Accepted, HasEntries
    <2>5. LoadsSelectedEvents'
        BY <1>1, <2>4 DEF loadVars, LoadInv, LoadsSelectedEvents
    <2> QED BY <2>1, <2>2, <2>3, <2>5 DEF LoadInv
<1>2. CASE ConstructApplication
    BY <1>2, ConstructKeeps
<1>3. CASE RunApplication
    BY <1>3, RunKeeps
<1>4. CASE ReadEntry
    BY <1>4, ReadEntryKeeps
<1>5. CASE EndReading
    BY <1>5, EndReadingKeeps
<1>6. ASSUME NEW id \in DOMAIN pointsOf, CleanEvent(id) PROVE LoadInv'
    BY <1>6, CleanKeeps
<1>7. CASE EndCleaning
    BY <1>7, EndCleaningKeeps
<1>8. CASE MultiplyEvents
    BY <1>8, MultiplyKeeps
<1> QED BY <1>1, <1>2, <1>3, <1>4, <1>5, <1>6, <1>7, <1>8 DEF LoadNext

\* For every tree, however its entries are ordered, and every configuration the list
\* loaded has the events that are selected, by ascending id, each with its accepted points
\* in the order of the file and no other, and that as often as they are multiplied.
THEOREM AlwaysLoadsSelectedEvents == LoadSpec => []LoadsSelectedEvents
<1>1. LoadInit => LoadInv
    BY LoadInitInv
<1>2. LoadInv /\ [LoadNext]_loadVars => LoadInv'
    BY LoadNextKeeps
<1>3. LoadInv => LoadsSelectedEvents
    BY DEF LoadInv
<1> QED BY <1>1, <1>2, <1>3, PTL DEF LoadSpec

-----------------------------------------------------------------------------
(* DeviceMemory: EventUsm objects, however many of them share a pool and in whatever order
   their methods are called, free only memory of their own, transfer only to and from
   live memory that is theirs or lent to them, and lose none of which the log does not
   say so.  (Of ResultUsm neither holds.)  *)

DataType ==
    [class : {Class}, allocated : BOOLEAN, borrowed : BOOLEAN,
     queue : Queues \cup {NoQueue}, memory : Groups \cup Blocks \cup {NoMemory}]

MemoryTypeOK ==
    /\ data \in [Objects -> DataType]
    /\ heap \in [Groups \cup Blocks -> {"unused", "live", "freed"}]
    /\ lent \in [Objects -> Groups \cup {NoGroup}]

\* The pool frees no group that it has lent.
LentGroupsAreLive == \A o \in Objects : lent[o] \in Groups => heap[lent[o]] = "live"

\* An object that says so has live memory of its own.
AllocatedIsOwn ==
    \A o \in Objects : data[o].allocated =>
        data[o].memory \in Blocks /\ heap[data[o].memory] = "live"

\* Pointers left behind point to memory that was allocated once, and malloc_device
\* does not return it again: no two objects ever point to one block.
PointersAreOwn ==
    \A o \in Objects : data[o].memory \in Blocks =>
        /\ heap[data[o].memory] # "unused"
        /\ \A p \in Objects \ {o} : data[p].memory # data[o].memory

\* An object without memory of its own but with a queue has the group lent to it.
\* (Without the queue resourcesBorrowed_ may be out of date.)
QueueMeansLent ==
    \A o \in Objects : ~data[o].allocated /\ data[o].queue # NoQueue =>
        data[o].memory \in Groups /\ lent[o] = data[o].memory

IInv ==
    /\ Class = "EventUsm"
    /\ MemoryTypeOK /\ LentGroupsAreLive /\ AllocatedIsOwn /\ PointersAreOwn /\ QueueMeansLent
    /\ NothingLeaks

\* Every method gives an object of the type.
LEMMA MethodsKeepTypes ==
  ASSUME NEW d \in DataType
  PROVE  /\ \A queue \in Queues, m \in Groups \cup Blocks :
                /\ AllocateOnDevice(d, queue, m) \in DataType
                /\ TakeResourceGroup(d, m, queue) \in DataType
         /\ DeallocateOnDevice(d) \in DataType
         /\ ReleaseResourceGroup(d) \in DataType
  BY DEF DataType, AllocateOnDevice, DeallocateOnDevice, TakeResourceGroup, ReleaseResourceGroup

\* What the methods leave in the members that matter.
LEMMA MethodsSet ==
  ASSUME NEW d \in DataType
  PROVE  /\ \A queue \in Queues, m \in Groups \cup Blocks :
                /\ AllocateOnDevice(d, queue, m).allocated
                /\ AllocateOnDevice(d, queue, m).memory = m
                /\ TakeResourceGroup(d, m, queue).allocated = d.allocated
                /\ TakeResourceGroup(d, m, queue).memory = m
         /\ ~DeallocateOnDevice(d).allocated
         /\ DeallocateOnDevice(d).queue = NoQueue
         /\ DeallocateOnDevice(d).memory = d.memory
         /\ ReleaseResourceGroup(d).allocated = d.allocated
         /\ ReleaseResourceGroup(d).queue = NoQueue
         /\ ReleaseResourceGroup(d).memory = d.memory
  BY DEF DataType, AllocateOnDevice, DeallocateOnDevice, TakeResourceGroup, ReleaseResourceGroup

\* Objects without memory, and a pool that lends nothing.
LEMMA InitIInv == Class = "EventUsm" /\ Init => IInv
  <1> SUFFICES ASSUME Class = "EventUsm", Init PROVE IInv
    OBVIOUS
  <1> USE DEF Init, NewData, allocateDeviceResources
  <1>1. MemoryTypeOK
    BY DEF MemoryTypeOK, DataType
  <1>2. LentGroupsAreLive /\ AllocatedIsOwn /\ QueueMeansLent
    BY DEF LentGroupsAreLive, AllocatedIsOwn, QueueMeansLent
  <1>3. PointersAreOwn
    BY MemoryAssumption DEF PointersAreOwn, MemoryAssumption
  <1>4. NothingLeaks
    BY MemoryAssumption DEF NothingLeaks, MemoryAssumption
  <1> QED
    BY <1>1, <1>2, <1>3, <1>4 DEF IInv

\* Each of the four methods that change an object keeps the invariant.
LEMMA AllocateKeeps ==
  ASSUME IInv, NEW o \in Objects, NEW queue \in Queues, Allocate(o, queue)
  PROVE  IInv'
  <1> USE MemoryAssumption DEF MemoryAssumption, IInv, MemoryTypeOK
  <1>1. PICK b \in Blocks :
            /\ heap[b] = "unused"
            /\ heap' = [heap EXCEPT ![b] = "live"]
            /\ data' = [data EXCEPT ![o] = AllocateOnDevice(@, queue, b)]
    BY DEF Allocate
  <1>2. ~data[o].allocated /\ lent' = lent /\ leaks' = leaks
    BY DEF Allocate, MayAllocate
  <1>3. /\ data' \in [Objects -> DataType]
        /\ data'[o].allocated /\ data'[o].memory = b
        /\ \A p \in Objects \ {o} : data'[p] = data[p]
    BY <1>1, MethodsKeepTypes, MethodsSet
  <1>4. /\ heap'[b] = "live"
        /\ \A c \in (Groups \cup Blocks) \ {b} : heap'[c] = heap[c]
    BY <1>1
  <1>5. MemoryTypeOK'
    BY <1>1, <1>2, <1>3
  <1>6. LentGroupsAreLive'
    <2>1. \A group \in Groups : heap'[group] = heap[group]
      BY <1>4
    <2> QED
      BY <1>2, <2>1 DEF LentGroupsAreLive
  <1>7. AllocatedIsOwn'
    BY <1>3, <1>4 DEF AllocatedIsOwn
  <1>8. PointersAreOwn'
    BY <1>1, <1>3, <1>4 DEF PointersAreOwn
  <1>9. QueueMeansLent'
    BY <1>2, <1>3 DEF QueueMeansLent
  <1>10. NothingLeaks'
    BY <1>2, <1>3, <1>4 DEF NothingLeaks
  <1> QED
    BY <1>5, <1>6, <1>7, <1>8, <1>9, <1>10

\* What is freed was its own.
LEMMA DeallocateKeeps ==
  ASSUME IInv, NEW o \in Objects, Deallocate(o)
  PROVE  IInv'
  <1> USE MemoryAssumption DEF MemoryAssumption, IInv, MemoryTypeOK
  <1>1. data[o].allocated
    BY DEF Deallocate, MayDeallocate, DataType
  <1>2. /\ heap' = [heap EXCEPT ![data[o].memory] = "freed"]
        /\ data' = [data EXCEPT ![o] = DeallocateOnDevice(@)]
        /\ lent' = lent /\ leaks' = leaks
    BY DEF Deallocate
  <1>3. /\ data' \in [Objects -> DataType]
        /\ ~data'[o].allocated /\ data'[o].queue = NoQueue /\ data'[o].memory = data[o].memory
        /\ \A p \in Objects \ {o} : data'[p] = data[p]
    BY <1>2, MethodsKeepTypes, MethodsSet
  <1>4. data[o].memory \in Blocks
    BY <1>1 DEF AllocatedIsOwn
  <1>5. /\ heap'[data[o].memory] = "freed"
        /\ \A c \in (Groups \cup Blocks) \ {data[o].memory} : heap'[c] = heap[c]
    BY <1>2, <1>4
  <1>6. MemoryTypeOK'
    BY <1>2, <1>3
  <1>7. LentGroupsAreLive'
    <2>1. \A group \in Groups : heap'[group] = heap[group]
      BY <1>4, <1>5
    <2> QED
      BY <1>2, <2>1 DEF LentGroupsAreLive
  <1>8. AllocatedIsOwn'
    BY <1>3, <1>4, <1>5 DEF AllocatedIsOwn, PointersAreOwn
  <1>9. PointersAreOwn'
    BY <1>3, <1>4, <1>5 DEF PointersAreOwn
  <1>10. QueueMeansLent'
    BY <1>2, <1>3 DEF QueueMeansLent
  <1>11. NothingLeaks'
    BY <1>2, <1>3, <1>4, <1>5 DEF NothingLeaks
  <1> QED
    BY <1>6, <1>7, <1>8, <1>9, <1>10, <1>11

\* What is taken nobody had.
LEMMA TakeKeeps ==
  ASSUME IInv, NEW o \in Objects, NEW group \in Groups, NEW queue \in Queues,
         Take(o, group, queue)
  PROVE  IInv'
  <1> USE MemoryAssumption DEF MemoryAssumption, IInv, MemoryTypeOK
  <1>1. ~data[o].allocated
    BY DEF Take, MayTakeResourceGroup, DataType
  <1>2. /\ lent' = [lent EXCEPT ![o] = group]
        /\ data' = [data EXCEPT ![o] = TakeResourceGroup(@, group, queue)]
        /\ heap' = heap /\ leaks' = leaks
    BY DEF Take
  <1>3. /\ data' \in [Objects -> DataType]
        /\ ~data'[o].allocated /\ data'[o].memory = group
        /\ \A p \in Objects \ {o} : data'[p] = data[p]
    BY <1>1, <1>2, MethodsKeepTypes, MethodsSet
  <1>4. MemoryTypeOK'
    BY <1>2, <1>3
  <1>5. LentGroupsAreLive' /\ AllocatedIsOwn'
    BY <1>1, <1>2, <1>3 DEF LentGroupsAreLive, AllocatedIsOwn, Take
  <1>6. PointersAreOwn'
    BY <1>2, <1>3 DEF PointersAreOwn
  <1>7. QueueMeansLent'
    BY <1>2, <1>3 DEF QueueMeansLent
  <1>8. NothingLeaks'
    BY <1>1, <1>2, <1>3 DEF NothingLeaks
  <1> QED
    BY <1>4, <1>5, <1>6, <1>7, <1>8

\* What is released goes back to the pool.
LEMMA ReleaseKeeps ==
  ASSUME IInv, NEW o \in Objects, Release(o)
  PROVE  IInv'
  <1> USE MemoryAssumption DEF MemoryAssumption, IInv, MemoryTypeOK
  <1>1. ~data[o].allocated
    BY DEF Release, MayReleaseResourceGroup, DataType
  <1>2. /\ lent' = [lent EXCEPT ![o] = NoGroup]
        /\ data' = [data EXCEPT ![o] = ReleaseResourceGroup(@)]
        /\ heap' = heap /\ leaks' = leaks
    BY DEF Release
  <1>3. /\ data' \in [Objects -> DataType]
        /\ ~data'[o].allocated /\ data'[o].queue = NoQueue /\ data'[o].memory = data[o].memory
        /\ \A p \in Objects \ {o} : data'[p] = data[p]
    BY <1>1, <1>2, MethodsKeepTypes, MethodsSet
  <1>4. MemoryTypeOK'
    BY <1>2, <1>3
  <1>5. LentGroupsAreLive' /\ AllocatedIsOwn'
    BY <1>1, <1>2, <1>3 DEF LentGroupsAreLive, AllocatedIsOwn
  <1>6. PointersAreOwn'
    BY <1>2, <1>3 DEF PointersAreOwn
  <1>7. QueueMeansLent'
    BY <1>2, <1>3 DEF QueueMeansLent
  <1>8. NothingLeaks'
    BY <1>1, <1>2, <1>3 DEF NothingLeaks
  <1> QED
    BY <1>4, <1>5, <1>6, <1>7, <1>8

\* What is lost has been logged, and the new object has no pointer.
LEMMA DestroyDataKeeps ==
  ASSUME IInv, NEW o \in Objects, DestroyData(o)
  PROVE  IInv'
  <1> USE MemoryAssumption DEF MemoryAssumption, IInv, MemoryTypeOK
  <1>1. /\ data' = [data EXCEPT ![o] = NewData(Class)]
        /\ heap' = heap /\ lent' = lent
        /\ leaks \subseteq leaks'
        /\ data[o].allocated => data[o].memory \in leaks'
    BY DEF DestroyData, LogsLeak
  <1>2. NewData(Class) \in DataType
    BY DEF NewData, DataType
  <1>3. /\ data' \in [Objects -> DataType]
        /\ ~data'[o].allocated /\ data'[o].queue = NoQueue /\ data'[o].memory = NoMemory
        /\ \A p \in Objects \ {o} : data'[p] = data[p]
    BY <1>1, <1>2 DEF NewData
  <1>4. MemoryTypeOK'
    BY <1>1, <1>3
  <1>5. LentGroupsAreLive' /\ AllocatedIsOwn'
    BY <1>1, <1>3 DEF LentGroupsAreLive, AllocatedIsOwn
  <1>6. PointersAreOwn'
    BY <1>1, <1>3 DEF PointersAreOwn
  <1>7. QueueMeansLent'
    BY <1>1, <1>3 DEF QueueMeansLent
  <1>8. NothingLeaks'
    BY <1>1, <1>3 DEF NothingLeaks
  <1> QED
    BY <1>4, <1>5, <1>6, <1>7, <1>8

\* With nothing lent, no object has a queue and no memory of its own: none can use
\* the memory that goes with the pool.
LEMMA DestroyPoolKeeps ==
  ASSUME IInv, DestroyPool
  PROVE  IInv'
  <1> USE MemoryAssumption DEF MemoryAssumption, IInv, MemoryTypeOK
  <1>1. /\ \A o \in Objects : lent[o] = NoGroup
        /\ heap' = deallocateDeviceResources(heap)
        /\ UNCHANGED <<data, lent, leaks>>
    BY DEF DestroyPool
  <1>2. /\ heap' \in [Groups \cup Blocks -> {"unused", "live", "freed"}]
        /\ \A b \in Blocks : heap'[b] = heap[b]
    BY <1>1 DEF deallocateDeviceResources
  <1>3. MemoryTypeOK'
    BY <1>1, <1>2
  <1>4. LentGroupsAreLive'
    BY <1>1 DEF LentGroupsAreLive
  <1>5. AllocatedIsOwn' /\ PointersAreOwn' /\ QueueMeansLent'
    BY <1>1, <1>2 DEF AllocatedIsOwn, PointersAreOwn, QueueMeansLent
  <1>6. NothingLeaks'
    BY <1>1, <1>2 DEF NothingLeaks
  <1> QED
    BY <1>3, <1>4, <1>5, <1>6

\* Every step keeps the invariant.
LEMMA NextIInv == IInv /\ [Next]_vars => IInv'
  <1> SUFFICES ASSUME IInv, [Next]_vars PROVE IInv'
    OBVIOUS
  <1>1. CASE UNCHANGED vars
    BY <1>1 DEF vars, IInv, MemoryTypeOK, LentGroupsAreLive, AllocatedIsOwn, PointersAreOwn,
                QueueMeansLent, NothingLeaks
  <1>2. CASE DestroyPool
    BY <1>2, DestroyPoolKeeps
  <1>3. ASSUME NEW o \in Objects,
               \/ \E queue \in Queues : Allocate(o, queue)
               \/ Deallocate(o)
               \/ \E group \in Groups, queue \in Queues : Take(o, group, queue)
               \/ Release(o)
               \/ DestroyData(o)
        PROVE  IInv'
    BY <1>3, AllocateKeeps, DeallocateKeeps, TakeKeeps, ReleaseKeeps,
       DestroyDataKeeps
  <1> QED
    BY <1>1, <1>2, <1>3 DEF Next

\* The invariant gives both properties.
LEMMA IInvImplies == IInv => MemoryIsOwnOrLent
  <1> SUFFICES ASSUME IInv PROVE MemoryIsOwnOrLent
    OBVIOUS
  <1> USE DEF IInv, MemoryTypeOK, DataType
  <1>1. FreesOwnMemoryOnly
    BY DEF FreesOwnMemoryOnly, MayDeallocate, AllocatedIsOwn, PointersAreOwn
  <1>2. TransfersUseOwnOrLentMemory
    BY MemoryAssumption DEF TransfersUseOwnOrLentMemory, MayTransferToDevice, MayTransferToHost,
        HasDeviceMemory, MemoryAssumption, AllocatedIsOwn, QueueMeansLent, LentGroupsAreLive
  <1> QED
    BY <1>1, <1>2 DEF MemoryIsOwnOrLent

\* Whatever the number of EventUsm objects, queues, groups and blocks, and whatever
\* the order of allocateOnDevice, deallocateOnDevice, takeResourceGroup,
\* releaseResourceGroup and the destructor, an object frees only what it has allocated, once, and a
\* transfer that goes ahead uses live memory that is the object's own or lent to it.
THEOREM EventsUseTheirMemory == Class = "EventUsm" /\ Spec => []MemoryIsOwnOrLent
  <1> QED
    BY InitIInv, NextIInv, IInvImplies, PTL DEF Spec

\* Whatever the order of the calls, every block that malloc_device returned to an
\* EventUsm is freed, or held by an object whose deallocateOnDevice would free it, or
\* was held by one when it was destroyed, and the destructor, which does not free it,
\* has logged that it leaks.
THEOREM EventsLoseNoMemory == Class = "EventUsm" /\ Spec => []NothingLeaks
  <1>1. IInv => NothingLeaks
    BY DEF IInv
  <1> QED
    BY <1>1, InitIInv, NextIInv, PTL DEF Spec

-----------------------------------------------------------------------------
(* ConstSizeVector implements StdVector, for every capacity, set of values and set of
   vectors.  *)

\* A vector within its capacity whose elements below the size were written.
IsSound(vector) ==
    /\ vector \in ConstSizeVectors
    /\ \A i \in Places : i < vector.size => vector.elements[i] \in Values

\* The size never leaves the capacity, and no element is read that nobody wrote:
\* what the methods, which check nothing, rely on.
VectorsSound ==
    /\ DOMAIN vectors = Vectors
    /\ vectors = [v \in Vectors |-> vectors[v]]
    /\ \A v \in Vectors : IsSound(vectors[v])
    /\ accessor \in [Places -> Values]

\* A vector built by a loop over the first n elements of an array of values.
LEMMA CopyIsSound ==
    ASSUME NEW a \in Elements, NEW b, NEW n \in 0 .. MaxSize,
           \A i \in Places : i < n => b[i] \in Values
    PROVE  IsSound([size |-> n, elements |-> CopiedTo(a, b, n)])
BY DEF CopiedTo, Elements, IsSound, ConstSizeVectors

\* Replacing one vector by a sound one keeps all sound.
LEMMA ReplacementIsSound ==
    ASSUME VectorsSound, NEW v \in Vectors, NEW vector, IsSound(vector),
           vectors' = [vectors EXCEPT ![v] = vector], accessor' = accessor
    PROVE  VectorsSound'
<1>1. \A w \in Vectors : vectors'[w] = IF w = v THEN vector ELSE vectors[w]
  BY DEF VectorsSound
<1>2. \A w \in Vectors : IsSound(vectors'[w])
  BY <1>1 DEF VectorsSound
<1>3. \A w \in Vectors : IsSound(vectors[w])' <=> IsSound(vectors'[w])
  BY DEF IsSound, ConstSizeVectors, Elements, Places
<1> QED BY <1>2, <1>3 DEF VectorsSound

\* Every method keeps the vectors sound.
THEOREM VectorsStaySound == VectorSpec => []VectorsSound
<1> USE VectorAssumption
<1>0. IsSound(NewVector)
  BY DEF IsSound, NewVector, ConstSizeVectors, Elements, Places
<1>1. VectorInit => VectorsSound
  BY <1>0 DEF VectorInit, VectorsSound
<1>2. VectorsSound /\ [VectorNext]_vectorVars => VectorsSound'
  <2> SUFFICES ASSUME VectorsSound, [VectorNext]_vectorVars PROVE VectorsSound'
    OBVIOUS
  <2>1. \A v \in Vectors : /\ IsSound(vectors[v])
                           /\ getSize(v) \in 0 .. MaxSize
                           /\ vectors[v] \in ConstSizeVectors
                           /\ vectors[v].elements \in Elements
    BY DEF VectorsSound, IsSound, ConstSizeVectors, getSize
  <2>2. NewVector.elements \in Elements
    BY DEF NewVector, Elements
  <2>3. ASSUME NEW v \in Vectors, Construct(v) PROVE VectorsSound'
    BY <1>0, <2>3, ReplacementIsSound DEF Construct
  <2>4. ASSUME NEW v \in Vectors, NEW w \in Vectors, ConstructCopy(v, w)
        PROVE  VectorsSound'
    <3>1. \A i \in Places : i < getSize(w) => vectors[w].elements[i] \in Values
      BY <2>1 DEF IsSound, getSize
    <3>2. IsSound([size |-> getSize(w),
                   elements |-> CopiedTo(NewVector.elements, vectors[w].elements, getSize(w))])
      BY <2>1, <2>2, <3>1, CopyIsSound
    <3> QED BY <2>4, <3>2, ReplacementIsSound DEF ConstructCopy
  <2>5. ASSUME NEW v \in Vectors, ConstructFromAccessor(v) PROVE VectorsSound'
    <3>1. IsSound([size |-> MaxSize, elements |-> CopiedTo(NewVector.elements, accessor, MaxSize)])
      BY <2>2, CopyIsSound DEF VectorsSound
    <3> QED BY <2>5, <3>1, ReplacementIsSound DEF ConstructFromAccessor
  <2>6. ASSUME NEW v \in Vectors, NEW w \in Vectors, CopyAssign(v, w)
        PROVE  VectorsSound'
    <3>1. \A i \in Places : i < getSize(w) => vectors[w].elements[i] \in Values
      BY <2>1 DEF IsSound, getSize
    <3>2. IsSound([size |-> getSize(w),
                   elements |-> CopiedTo(vectors[v].elements, vectors[w].elements, getSize(w))])
      BY <2>1, <3>1, CopyIsSound
    <3> QED BY <2>6, <3>2, ReplacementIsSound DEF CopyAssign
  <2>7. ASSUME NEW v \in Vectors, NEW i \in Places, NEW x \in Values, WriteTo(v, i, x)
        PROVE  VectorsSound'
    <3> DEFINE after == [vectors[v] EXCEPT !.elements[i] = x]
    <3>1. IsSound(after)
      BY <2>1 DEF IsSound, ConstSizeVectors, Elements
    <3>2. vectors' = [vectors EXCEPT ![v] = after] /\ accessor' = accessor
      BY <2>7 DEF WriteTo
    <3> QED BY <3>1, <3>2, ReplacementIsSound
  <2>8. ASSUME NEW v \in Vectors, NEW x \in Values, WriteFront(v, x) PROVE VectorsSound'
    BY <2>7, <2>8 DEF WriteFront, Places
  <2>9. ASSUME NEW v \in Vectors, NEW x \in Values, WriteBack(v, x) PROVE VectorsSound'
    <3>1. getSize(v) - 1 \in Places
      BY <2>1, <2>9 DEF WriteBack, isEmpty, Places
    <3> QED BY <2>7, <2>9, <3>1 DEF WriteBack
  <2>10. ASSUME NEW v \in Vectors, clear(v) PROVE VectorsSound'
    <3>1. IsSound([vectors[v] EXCEPT !.size = 0])
      BY <2>1 DEF IsSound, ConstSizeVectors, Places
    <3> QED BY <2>10, <3>1, ReplacementIsSound DEF clear
  <2>11. ASSUME NEW v \in Vectors, NEW x \in Values, pushBack(v, x) PROVE VectorsSound'
    <3> DEFINE after == [size |-> getSize(v) + 1,
                         elements |-> [vectors[v].elements EXCEPT ![getSize(v)] = x]]
    <3>1. getSize(v) \in Places /\ getSize(v) + 1 \in 0 .. MaxSize
      BY <2>1, <2>11 DEF pushBack, FitsOneMore, Places
    <3>2. IsSound(after)
      BY <2>1, <3>1 DEF IsSound, ConstSizeVectors, Elements, Places, getSize
    <3>3. vectors' = [vectors EXCEPT ![v] = after] /\ accessor' = accessor
      BY <2>11 DEF pushBack, VectorsSound
    <3> HIDE DEF after
    <3> QED BY <3>2, <3>3, ReplacementIsSound
  <2>12. ASSUME NEW v \in Vectors, popBack(v) PROVE VectorsSound'
    <3>1. getSize(v) - 1 \in 0 .. MaxSize
      BY <2>1, <2>12 DEF popBack, isEmpty
    <3>2. IsSound([vectors[v] EXCEPT !.size = @ - 1])
      BY <2>1, <3>1 DEF IsSound, ConstSizeVectors, Places, getSize
    <3> QED BY <2>12, <3>2, ReplacementIsSound DEF popBack
  <2>13. ASSUME NEW v \in Vectors, NEW start \in 0 .. MaxSize, NEW end \in 0 .. MaxSize,
                copyToAccessor(v, start, end)
         PROVE  VectorsSound'
    <3>1. \A i \in Places : i < end - start => vectors[v].elements[i + start] \in Values
      <4> SUFFICES ASSUME NEW i \in Places, i < end - start
                   PROVE  vectors[v].elements[i + start] \in Values
        OBVIOUS
      <4>1. i + start \in Places /\ i + start < vectors[v].size
        BY <2>1, <2>13 DEF copyToAccessor, Places, getSize
      <4> QED BY <2>1, <4>1 DEF IsSound
    <3>2. accessor' \in [Places -> Values]
      BY <2>13, <3>1 DEF copyToAccessor, VectorsSound
    <3>3. vectors' = vectors
      BY <2>13 DEF copyToAccessor
    <3> QED BY <3>2, <3>3 DEF VectorsSound, IsSound, ConstSizeVectors, Elements, Places
  <2>14. CASE UNCHANGED vectorVars
    BY <2>14 DEF vectorVars, VectorsSound, IsSound, ConstSizeVectors, Elements, Places
  <2> QED
    BY <2>3, <2>4, <2>5, <2>6, <2>7, <2>8, <2>9, <2>10, <2>11, <2>12, <2>13, <2>14
    DEF VectorNext
<1> QED BY <1>1, <1>2, PTL DEF VectorSpec

-----------------------------------------------------------------------------
\* The sequences the vectors are and the memory they are copied to, as Std has them.
contents == [v \in Vectors |-> AsSequence(vectors[v])]
exported == [i \in 1 .. MaxSize |-> accessor[i - 1]]

\* The sequence of a vector is as long as its size says.
LEMMA SequenceOf ==
    ASSUME NEW vector \in ConstSizeVectors
    PROVE  /\ AsSequence(vector) \in Seq(Values \cup {Garbage})
           /\ Len(AsSequence(vector)) = vector.size
           /\ DOMAIN AsSequence(vector) = 1 .. vector.size
           /\ \A i \in 1 .. vector.size : AsSequence(vector)[i] = vector.elements[i - 1]
<1>1. /\ vector.size \in Nat
      /\ \A i \in 1 .. vector.size : vector.elements[i - 1] \in Values \cup {Garbage}
  BY VectorAssumption DEF ConstSizeVectors, Elements, Places
<1> QED BY <1>1 DEF AsSequence

\* A step that replaces one vector replaces one sequence.
LEMMA ReplacedSequence ==
    ASSUME VectorsSound, NEW v \in Vectors, NEW vector, NEW s,
           vectors' = [vectors EXCEPT ![v] = vector], accessor' = accessor,
           AsSequence(vector) = s
    PROVE  contents' = [contents EXCEPT ![v] = s] /\ exported' = exported
<1>1. \A w \in Vectors : vectors'[w] = IF w = v THEN vector ELSE vectors[w]
  BY DEF VectorsSound
<1>2. \A w \in Vectors : contents'[w] = IF w = v THEN s ELSE contents[w]
  <2>1. \A w \in Vectors : contents'[w] = AsSequence(vectors'[w])
    BY DEF contents, AsSequence
  <2>2. \A w \in Vectors : contents[w] = AsSequence(vectors[w])
    BY DEF contents
  <2> QED BY <1>1, <2>1, <2>2
<1>3. contents' = [w \in Vectors |-> contents'[w]]
  BY DEF contents
<1> QED BY <1>2, <1>3 DEF contents, exported

\* Each method does to the sequences what the method of std::vector does.
THEOREM VectorRefinement == VectorSpec => ImplementsStdVector
<1> USE VectorAssumption
<1>1. VectorInit => Std!StdInit
  <2> SUFFICES ASSUME VectorInit PROVE Std!StdInit
    OBVIOUS
  <2>1. contents = [v \in Vectors |-> <<>>]
    BY DEF VectorInit, NewVector, AsSequence, contents
  <2>2. exported \in [1 .. MaxSize -> Values]
    BY DEF VectorInit, Places, exported
  <2> QED BY <2>1, <2>2 DEF Std!StdInit, contents, exported
<1>2. VectorsSound /\ [VectorNext]_vectorVars => [Std!StdNext]_(Std!stdVectors)
  <2> SUFFICES ASSUME VectorsSound, VectorNext PROVE Std!StdNext
    BY DEF vectorVars, Std!stdVectors, AsSequence
  <2>1. \A v \in Vectors : /\ vectors[v] \in ConstSizeVectors
                           /\ getSize(v) = vectors[v].size
                           /\ getSize(v) \in 0 .. MaxSize
                           /\ vectors[v].elements \in Elements
                           /\ contents[v] = AsSequence(vectors[v])
    BY DEF VectorsSound, IsSound, ConstSizeVectors, getSize, contents
  <2>2. \A v \in Vectors : /\ Len(contents[v]) = getSize(v)
                           /\ DOMAIN contents[v] = 1 .. getSize(v)
                           /\ contents[v] \in Seq(Values \cup {Garbage})
    BY <2>1, SequenceOf
  <2>3. ASSUME NEW v \in Vectors, Construct(v) PROVE Std!StdNext
    <3>1. AsSequence(NewVector) = <<>>
      BY DEF AsSequence, NewVector
    <3>2. Std!StdClear(v)
      BY <2>3, <3>1, ReplacedSequence DEF Construct, Std!StdClear, contents, exported
    <3> QED BY <3>2 DEF Std!StdNext
  <2>4. ASSUME NEW v \in Vectors, NEW w \in Vectors, NEW a,
               vectors' = [vectors EXCEPT ![v] =
                   [size |-> getSize(w), elements |-> CopiedTo(a, vectors[w].elements, getSize(w))]],
               accessor' = accessor
        PROVE  Std!StdNext
    <3> DEFINE copy == CopiedTo(a, vectors[w].elements, getSize(w))
    <3>0. \A i \in 1 .. getSize(w) : copy[i - 1] = vectors[w].elements[i - 1]
      BY <2>1 DEF CopiedTo, Places
    <3> HIDE DEF copy
    <3>1. AsSequence([size |-> getSize(w), elements |-> copy]) = contents[w]
      BY <2>1, <3>0 DEF AsSequence
    <3> USE DEF copy
    <3>2. Std!StdAssign(v, w)
      BY <2>4, <3>1, ReplacedSequence DEF Std!StdAssign, contents, exported
    <3> QED BY <3>2 DEF Std!StdNext
  <2>5. ASSUME NEW v \in Vectors, ConstructFromAccessor(v) PROVE Std!StdNext
    <3>1. AsSequence([size |-> MaxSize,
                      elements |-> CopiedTo(NewVector.elements, accessor, MaxSize)]) = exported
      BY DEF AsSequence, CopiedTo, Places, exported
    <3>2. Std!StdImport(v)
      BY <2>5, <3>1, ReplacedSequence DEF ConstructFromAccessor, Std!StdImport, contents, exported
    <3> QED BY <3>2 DEF Std!StdNext
  <2>6. ASSUME NEW v \in Vectors, NEW i \in Places, NEW x \in Values, WriteTo(v, i, x)
        PROVE  Std!StdNext
    <3> DEFINE after == [vectors[v] EXCEPT !.elements[i] = x]
    <3>1. AsSequence(after) = [contents[v] EXCEPT ![i + 1] = x]
      <4>1. after.size = vectors[v].size
        BY <2>1 DEF ConstSizeVectors
      <4>2. \A k \in 1 .. vectors[v].size :
                after.elements[k - 1] = IF k = i + 1 THEN x ELSE vectors[v].elements[k - 1]
        BY <2>1 DEF ConstSizeVectors, Elements, Places
      <4> HIDE DEF after
      <4>3. \A k \in 1 .. vectors[v].size : contents[v][k] = vectors[v].elements[k - 1]
        BY <2>1, SequenceOf
      <4>4. [contents[v] EXCEPT ![i + 1] = x] =
                [k \in 1 .. vectors[v].size |-> IF k = i + 1 THEN x ELSE contents[v][k]]
        BY <2>1, <2>2
      <4> QED BY <4>1, <4>2, <4>3, <4>4 DEF AsSequence
    <3>2. vectors' = [vectors EXCEPT ![v] = after] /\ accessor' = accessor
      BY <2>6 DEF WriteTo
    <3>3. i + 1 \in 1 .. Len(contents[v]) /\ i + 1 \in 1 .. MaxSize
      BY <2>1, <2>2, <2>6 DEF WriteTo, HasElement, Places
    <3> HIDE DEF after
    <3>4. Std!StdWrite(v, i + 1, x)
      BY <3>1, <3>2, <3>3, ReplacedSequence DEF Std!StdWrite, contents, exported
    <3> QED BY <3>3, <3>4 DEF Std!StdNext
  <2>7. ASSUME NEW v \in Vectors, NEW x \in Values, WriteFront(v, x) PROVE Std!StdNext
    BY <2>6, <2>7 DEF WriteFront, Places
  <2>8. ASSUME NEW v \in Vectors, NEW x \in Values, WriteBack(v, x) PROVE Std!StdNext
    <3>1. getSize(v) - 1 \in Places
      BY <2>1, <2>8 DEF WriteBack, isEmpty, Places
    <3> QED BY <2>6, <2>8, <3>1 DEF WriteBack
  <2>9. ASSUME NEW v \in Vectors, clear(v) PROVE Std!StdNext
    <3> DEFINE after == [vectors[v] EXCEPT !.size = 0]
    <3>1. AsSequence(after) = <<>>
      BY <2>1 DEF AsSequence, ConstSizeVectors
    <3>2. vectors' = [vectors EXCEPT ![v] = after] /\ accessor' = accessor
      BY <2>9 DEF clear
    <3> HIDE DEF after
    <3>3. Std!StdClear(v)
      BY <3>1, <3>2, ReplacedSequence DEF Std!StdClear, contents, exported
    <3> QED BY <3>3 DEF Std!StdNext
  <2>10. ASSUME NEW v \in Vectors, NEW x \in Values, pushBack(v, x) PROVE Std!StdNext
    <3> DEFINE after == [size |-> getSize(v) + 1,
                         elements |-> [vectors[v].elements EXCEPT ![getSize(v)] = x]]
    <3>1. getSize(v) \in Places
      BY <2>1, <2>10 DEF pushBack, FitsOneMore, Places
    <3>2. \A k \in 1 .. getSize(v) + 1 :
              after.elements[k - 1] = IF k = getSize(v) + 1 THEN x ELSE contents[v][k]
      <4>1. getSize(v) \in Nat /\ DOMAIN vectors[v].elements = Places
        BY <2>1, VectorAssumption DEF ConstSizeVectors, Elements, Places, getSize
      <4>2. ASSUME NEW k \in 1 .. getSize(v), getSize(v) \in Nat
            PROVE  contents[v][k] = vectors[v].elements[k - 1]
        BY <4>2, <2>1, SequenceOf
      <4>3. ASSUME NEW k \in 1 .. getSize(v) + 1
            PROVE  after.elements[k - 1] = IF k = getSize(v) + 1 THEN x ELSE contents[v][k]
        <5>1. CASE k = getSize(v) + 1
          BY <3>1, <4>1, <5>1
        <5>2. CASE k \in 1 .. getSize(v)
          <6>1. k - 1 # getSize(v) /\ k - 1 \in Places /\ k # getSize(v) + 1
            BY <3>1, <4>1, <5>2 DEF Places
          <6>2. after.elements[k - 1] = vectors[v].elements[k - 1]
            BY <4>1, <6>1
          <6> QED BY <4>1, <4>2, <5>2, <6>1, <6>2
        <5> QED BY <4>1, <5>1, <5>2
      <4> QED BY <4>3
    <3>3. vectors' = [vectors EXCEPT ![v] = after] /\ accessor' = accessor
      BY <2>10 DEF pushBack, VectorsSound
    <3>4. after.size = getSize(v) + 1
      OBVIOUS
    <3> HIDE DEF after
    <3>5. AsSequence(after) = Append(contents[v], x)
      <4>1. AsSequence(after) =
                [k \in 1 .. getSize(v) + 1 |-> IF k = getSize(v) + 1 THEN x ELSE contents[v][k]]
        BY <3>2, <3>4 DEF AsSequence
      <4>2. Append(contents[v], x) =
                [k \in 1 .. getSize(v) + 1 |-> IF k = getSize(v) + 1 THEN x ELSE contents[v][k]]
        BY <2>2
      <4> QED BY <4>1, <4>2
    <3>6. Std!StdPushBack(v, x)
      <4>1. Len(contents[v]) < MaxSize
        BY <2>2, <2>10 DEF pushBack, FitsOneMore
      <4>2. contents' = [contents EXCEPT ![v] = Append(contents[v], x)] /\ exported' = exported
        BY <3>5, <3>3, ReplacedSequence
      <4> QED BY <4>1, <4>2 DEF Std!StdPushBack, contents, exported
    <3> QED BY <3>6 DEF Std!StdNext
  <2>11. ASSUME NEW v \in Vectors, popBack(v) PROVE Std!StdNext
    <3> DEFINE after == [vectors[v] EXCEPT !.size = @ - 1]
    <3>1. after.size = getSize(v) - 1 /\ after.elements = vectors[v].elements /\ getSize(v) > 0
      BY <2>1, <2>11 DEF popBack, isEmpty, ConstSizeVectors
    <3>2. vectors' = [vectors EXCEPT ![v] = after] /\ accessor' = accessor
      BY <2>11 DEF popBack
    <3> HIDE DEF after
    <3>3. \A k \in 1 .. getSize(v) : contents[v][k] = vectors[v].elements[k - 1]
      BY <2>1, SequenceOf
    <3>4. AsSequence(after) = SubSeq(contents[v], 1, Len(contents[v]) - 1)
      BY <2>1, <2>2, <3>1, <3>3 DEF AsSequence
    <3>5. Std!StdPopBack(v)
      BY <2>2, <3>1, <3>2, <3>4, ReplacedSequence DEF Std!StdPopBack, contents, exported
    <3> QED BY <3>5 DEF Std!StdNext
  <2>12. ASSUME NEW v \in Vectors, NEW start \in 0 .. MaxSize, NEW end \in 0 .. MaxSize,
                copyToAccessor(v, start, end)
         PROVE  Std!StdNext
    <3>1. vectors' = vectors /\ start <= end /\ end <= Len(contents[v])
      BY <2>2, <2>12 DEF copyToAccessor
    <3>2. \A i \in 1 .. MaxSize :
              accessor'[i - 1] = IF i <= end - start THEN contents[v][i + start] ELSE exported[i]
      <4> SUFFICES ASSUME NEW i \in 1 .. MaxSize
                   PROVE  accessor'[i - 1] = IF i <= end - start THEN contents[v][i + start]
                                             ELSE exported[i]
        OBVIOUS
      <4>1. i - 1 \in Places
        BY DEF Places
      <4>2. accessor'[i - 1] = IF i - 1 < end - start THEN vectors[v].elements[i - 1 + start]
                               ELSE accessor[i - 1]
        BY <2>12, <4>1 DEF copyToAccessor
      <4>3. i <= end - start => contents[v][i + start] = vectors[v].elements[i + start - 1]
        BY <2>1, <2>2, <3>1, SequenceOf
      <4> QED BY <4>2, <4>3 DEF exported
    <3>3. contents' = contents
      BY <3>1 DEF contents, AsSequence
    <3>4. exported' = [i \in 1 .. MaxSize |->
                          IF i <= end - start THEN contents[v][i + start] ELSE exported[i]]
      BY <3>2 DEF exported
    <3>5. Std!StdExport(v, start, end)
      BY <3>1, <3>3, <3>4 DEF Std!StdExport, contents, exported
    <3> QED BY <3>5 DEF Std!StdNext
  <2> QED
    BY <2>3, <2>4, <2>5, <2>6, <2>7, <2>8, <2>9, <2>10, <2>11, <2>12
    DEF VectorNext, ConstructCopy, CopyAssign
<1> QED BY <1>1, <1>2, VectorsStaySound, PTL DEF VectorSpec, ImplementsStdVector, Std!StdSpec

-----------------------------------------------------------------------------
(* JsonLogging: a path belongs to one logger at a time, so files stay framed.  *)

\* What a line of a file, or of the stream, can be.
Lines ==
    {Record(message) : message \in Messages}
    \cup {Record(LogMessage("Info", "started")), Record(LogMessage("Info", "stopped")),
          Bracket("["), Bracket("]")}

LogTypeOK ==
    /\ filePath \in [Loggers -> Paths \cup {NoPath}]
    /\ isOpen \in [Loggers -> BOOLEAN]
    /\ files \in [Paths \cup {Stream} -> Seq(Lines)]
    /\ logged \in [Paths \cup {Stream} -> Seq(Messages)]

\* A file is open in a logger that exists, and no two loggers have one path.
PathsAreOwn ==
    /\ \A l \in Loggers : isOpen[l] => Exists(l)
    /\ \A k \in Loggers : \A l \in Loggers \ {k} : Exists(k) => filePath[k] # filePath[l]

IsWritten(p) == \E l \in Loggers : filePath[l] = p /\ isOpen[l]
Framed(p) == Opening \o Records(logged[p]) \o (IF IsWritten(p) THEN <<>> ELSE Closing)

\* The records of one more message.
LEMMA RecordsAppend ==
    ASSUME NEW messages \in Seq(Messages), NEW message \in Messages
    PROVE  /\ Records(messages) \in Seq(Lines)
           /\ Record(message) \in Lines
           /\ Records(Append(messages, message)) = Append(Records(messages), Record(message))
<1> DEFINE R(m) == Record(m)
<1>1. \A m \in Messages : R(m) \in Lines
    BY DEF Lines
<1> HIDE DEF R
<1>2. /\ Len(messages) \in Nat /\ DOMAIN messages = 1 .. Len(messages)
      /\ \A i \in 1 .. Len(messages) : messages[i] \in Messages
      /\ Append(messages, message) \in Seq(Messages)
      /\ DOMAIN Append(messages, message) = 1 .. Len(messages) + 1
      /\ \A i \in 1 .. Len(messages) : Append(messages, message)[i] = messages[i]
      /\ Append(messages, message)[Len(messages) + 1] = message
    OBVIOUS
<1>3. ASSUME NEW ms \in Seq(Messages)
      PROVE  /\ Records(ms) \in Seq(Lines) /\ Len(Records(ms)) = Len(ms)
             /\ \A i \in 1 .. Len(ms) : Records(ms)[i] = R(ms[i])
    <2>1. Records(ms) = [i \in 1 .. Len(ms) |-> R(ms[i])]
        BY DEF Records, R
    <2>2. \A i \in 1 .. Len(ms) : R(ms[i]) \in Lines
        BY <1>1
    <2> QED BY <2>1, <2>2
<1>4. /\ Append(Records(messages), R(message)) \in Seq(Lines)
      /\ Len(Append(Records(messages), R(message))) = Len(messages) + 1
      /\ \A i \in 1 .. Len(messages) : Append(Records(messages), R(message))[i] = R(messages[i])
      /\ Append(Records(messages), R(message))[Len(messages) + 1] = R(message)
    BY <1>1, <1>3
<1>5. /\ Records(Append(messages, message)) \in Seq(Lines)
      /\ Len(Records(Append(messages, message))) = Len(messages) + 1
      /\ \A i \in 1 .. Len(messages) + 1 :
             Records(Append(messages, message))[i] = R(Append(messages, message)[i])
    <2>1. Len(Append(messages, message)) = Len(messages) + 1
        OBVIOUS
    <2> QED BY <1>2, <1>3, <2>1
<1>6. Records(Append(messages, message)) = Append(Records(messages), R(message))
    <2>1. \A i \in 1 .. Len(messages) + 1 : i \in 1 .. Len(messages) \/ i = Len(messages) + 1
        BY <1>2
    <2>2. \A i \in 1 .. Len(messages) + 1 :
             Records(Append(messages, message))[i] = Append(Records(messages), R(message))[i]
        BY <1>2, <1>4, <1>5, <2>1
    <2> QED BY <1>4, <1>5, <2>2, SeqEqual
<1> QED BY <1>1, <1>3, <1>6 DEF R

\* Records are lines.
LEMMA RecordsType ==
    /\ \A messages \in Seq(Messages) : Records(messages) \in Seq(Lines)
    /\ \A message \in Messages : Record(message) \in Lines
<1>1. \A message \in Messages : Record(message) \in Lines
    BY DEF Lines
<1>2. ASSUME NEW messages \in Seq(Messages) PROVE Records(messages) \in Seq(Lines)
    <2>1. Records(messages) = [i \in 1 .. Len(messages) |-> Record(messages[i])]
        BY DEF Records
    <2>2. \A i \in 1 .. Len(messages) : Record(messages[i]) \in Lines
        BY <1>1
    <2> QED BY <2>1, <2>2
<1> QED BY <1>1, <1>2

\* A frame is a sequence of lines.
LEMMA FrameFacts ==
    /\ Opening \in Seq(Lines) /\ Closing \in Seq(Lines) /\ <<>> \in Seq(Lines)
    /\ Opening \o Records(<<>>) = Opening
<1>1. /\ Bracket("[") \in Lines /\ Bracket("]") \in Lines
      /\ Record(LogMessage("Info", "started")) \in Lines
      /\ Record(LogMessage("Info", "stopped")) \in Lines
    BY DEF Lines
<1>2. \A a, b \in Lines : <<a, b>> \in Seq(Lines)
    OBVIOUS
<1>3. Opening \in Seq(Lines) /\ Closing \in Seq(Lines) /\ <<>> \in Seq(Lines)
    BY <1>1, <1>2 DEF Opening, Closing
<1>4. Records(<<>>) = <<>>
    BY DEF Records
<1> QED BY <1>3, <1>4, ConcatEmptySeq

\* The framing, path by path.
FilesAreFramed ==
    /\ \A p \in Paths : (files[p] = <<>> /\ ~IsWritten(p)) \/ files[p] = Framed(p)
    /\ files[Stream] = Records(logged[Stream])

LogInv == LogTypeOK /\ PathsAreOwn /\ FilesAreFramed

\* A path whose file and logger a step leaves alone stays framed.
LEMMA UntouchedPath ==
    ASSUME FilesAreFramed, NEW p \in Paths,
           files'[p] = files[p], logged'[p] = logged[p], IsWritten(p)' <=> IsWritten(p)
    PROVE  ((files[p] = <<>> /\ ~IsWritten(p)) \/ files[p] = Framed(p))'
<1>1. (files[p] = <<>> /\ ~IsWritten(p)) \/ files[p] = Framed(p)
    BY DEF FilesAreFramed
<1>2. Framed(p)' = Framed(p)
    BY DEF Framed
<1> QED BY <1>1, <1>2

\* Nothing is logged in the beginning.
LEMMA LogInitInv == LogInit => LogInv
<1> SUFFICES ASSUME LogInit PROVE LogInv
    OBVIOUS
<1>1. LogTypeOK /\ PathsAreOwn
    BY DEF LogInit, LogTypeOK, PathsAreOwn, Exists
<1>2. Records(<<>>) = <<>>
    BY DEF Records
<1>3. FilesAreFramed
    BY <1>2 DEF LogInit, FilesAreFramed, IsWritten
<1> QED BY <1>1, <1>3 DEF LogInv

\* A new logger, with and without a file.
LEMMA NewLoggerKeeps ==
    ASSUME LogInv, NEW l \in Loggers, NEW p \in Paths,
           ConstructOpen(l, p) \/ ConstructWithoutFile(l, p)
    PROVE  LogInv'
<1>1. /\ LogTypeOK /\ PathsAreOwn /\ FilesAreFramed
      /\ filePath[l] = NoPath /\ \A k \in Loggers : filePath[k] # p
      /\ filePath' = [filePath EXCEPT ![l] = p]
      /\ ~isOpen[l] /\ p # NoPath /\ p # Stream
    BY LoggingAssumption DEF LogInv, ConstructOpen, ConstructWithoutFile, Exists, PathsAreOwn
<1>2. CASE ConstructOpen(l, p)
    <2>1. /\ isOpen' = [isOpen EXCEPT ![l] = TRUE]
          /\ files' = [files EXCEPT ![p] = Opening]
          /\ logged' = [logged EXCEPT ![p] = <<>>]
        BY <1>2 DEF ConstructOpen
    <2>2. LogTypeOK'
        BY <1>1, <2>1, FrameFacts DEF LogTypeOK
    <2>3. PathsAreOwn'
        BY <1>1, <2>1 DEF LogTypeOK, PathsAreOwn, Exists
    <2>4. files'[p] = Framed(p)'
        <3>1. IsWritten(p)'
            BY <1>1, <2>1 DEF LogTypeOK, IsWritten
        <3>2. files'[p] = Opening /\ logged'[p] = <<>>
            BY <1>1, <2>1 DEF LogTypeOK
        <3> QED BY <3>1, <3>2, FrameFacts, ConcatEmptySeq DEF Framed
    <2>5. ASSUME NEW q \in Paths, q # p
          PROVE  ((files[q] = <<>> /\ ~IsWritten(q)) \/ files[q] = Framed(q))'
        <3>1. files'[q] = files[q] /\ logged'[q] = logged[q]
            BY <1>1, <2>1, <2>5 DEF LogTypeOK
        <3>2. IsWritten(q)' <=> IsWritten(q)
            BY <1>1, <2>1, <2>5, LoggingAssumption DEF LogTypeOK, IsWritten
        <3> QED BY <1>1, <3>1, <3>2, UntouchedPath
    <2>6. files'[Stream] = files[Stream] /\ logged'[Stream] = logged[Stream]
        BY <1>1, <2>1 DEF LogTypeOK
    <2>7. FilesAreFramed'
        BY <1>1, <2>4, <2>5, <2>6 DEF FilesAreFramed
    <2> QED BY <2>2, <2>3, <2>7 DEF LogInv
<1>3. CASE ConstructWithoutFile(l, p)
    <2>1. isOpen' = isOpen /\ files' = files /\ logged' = logged
        BY <1>3 DEF ConstructWithoutFile
    <2>2. LogTypeOK'
        BY <1>1, <2>1 DEF LogTypeOK
    <2>3. PathsAreOwn'
        BY <1>1, <2>1 DEF LogTypeOK, PathsAreOwn, Exists
    <2>4. \A q \in Paths : IsWritten(q)' <=> IsWritten(q)
        BY <1>1, <2>1, LoggingAssumption DEF LogTypeOK, IsWritten
    <2>5. FilesAreFramed'
        BY <1>1, <2>1, <2>4, UntouchedPath DEF FilesAreFramed
    <2> QED BY <2>2, <2>3, <2>5 DEF LogInv
<1> QED BY <1>2, <1>3

\* The destructor closes the frame of an open file.
LEMMA DestroyKeeps ==
    ASSUME LogInv, NEW l \in Loggers, Destroy(l)
    PROVE  LogInv'
<1>0. filePath[l] \in Paths
    BY DEF LogInv, LogTypeOK, Destroy, Exists
<1> PICK p \in Paths : p = filePath[l]
    BY <1>0
<1>1. /\ LogTypeOK /\ PathsAreOwn /\ FilesAreFramed
      /\ p = filePath[l] /\ p # NoPath /\ p # Stream
      /\ files' = [files EXCEPT ![p] = IF isOpen[l] THEN @ \o Closing ELSE @]
      /\ isOpen' = [isOpen EXCEPT ![l] = FALSE]
      /\ filePath' = [filePath EXCEPT ![l] = NoPath]
      /\ logged' = logged
    BY LoggingAssumption DEF LogInv, LogTypeOK, Destroy, Exists
<1>2. \A k \in Loggers \ {l} : filePath[k] # p
    BY <1>1 DEF PathsAreOwn, Exists
<1>3. ~IsWritten(p)'
    BY <1>1, <1>2 DEF IsWritten, LogTypeOK
<1>4. \A q \in Paths : q # p => (IsWritten(q)' <=> IsWritten(q))
    BY <1>1, LoggingAssumption DEF IsWritten, LogTypeOK
<1>5. PathsAreOwn'
    BY <1>1 DEF LogTypeOK, PathsAreOwn, Exists
<1>6. files[p] \in Seq(Lines) /\ files[p] \o Closing \in Seq(Lines)
    BY <1>1, FrameFacts, ConcatProperties DEF LogTypeOK
<1>7. LogTypeOK'
    BY <1>1, <1>6 DEF LogTypeOK
<1>8. IsWritten(p) <=> isOpen[l]
    BY <1>1, <1>2 DEF IsWritten, LogTypeOK
<1>9. (files[p] = <<>> /\ ~IsWritten(p)) \/ files[p] = Framed(p)
    BY <1>1 DEF FilesAreFramed
<1>10. files'[p] = IF isOpen[l] THEN files[p] \o Closing ELSE files[p]
    BY <1>1 DEF LogTypeOK
<1>11. (files'[p] = <<>> /\ ~IsWritten(p)') \/ files'[p] = Opening \o Records(logged[p]) \o Closing
    <2>1. CASE isOpen[l]
        <3>1. logged[p] \in Seq(Messages)
            BY <1>1 DEF LogTypeOK
        <3>2. Records(logged[p]) \in Seq(Lines)
            BY <3>1, RecordsType
        <3>3. Opening \o Records(logged[p]) \in Seq(Lines)
            BY <3>2, FrameFacts, ConcatProperties
        <3>4. files[p] = Opening \o Records(logged[p]) \o <<>> \/ FALSE
            <4>1. ~(files[p] = <<>> /\ ~IsWritten(p))
                BY <1>8, <2>1
            <4> QED BY <1>8, <1>9, <2>1, <4>1 DEF Framed
        <3>5. files[p] = Opening \o Records(logged[p])
            BY <3>3, <3>4, ConcatEmptySeq
        <3> QED BY <1>10, <2>1, <3>5
    <2>2. CASE ~isOpen[l]
        BY <1>3, <1>8, <1>9, <1>10, <2>2 DEF Framed
    <2> QED BY <2>1, <2>2
<1>12. \A q \in Paths : (q = p /\ ((files'[q] = <<>> /\ ~IsWritten(q)') \/ files'[q] = Framed(q)'))
                      \/ (q # p /\ ((files[q] = <<>> /\ ~IsWritten(q)) \/ files[q] = Framed(q))')
    <2> TAKE q \in Paths
    <2>1. CASE q = p
        BY <1>1, <1>3, <1>11, <2>1 DEF Framed
    <2>2. CASE q # p
        <3>1. files'[q] = files[q] /\ logged'[q] = logged[q]
            BY <1>1, <2>2 DEF LogTypeOK
        <3> QED BY <1>1, <1>4, <2>2, <3>1, UntouchedPath
    <2> QED BY <2>1, <2>2
<1>13. files'[Stream] = Records(logged'[Stream])
    BY <1>1 DEF FilesAreFramed, LogTypeOK
<1>14. FilesAreFramed'
    BY <1>12, <1>13 DEF FilesAreFramed
<1> QED BY <1>5, <1>7, <1>14 DEF LogInv

\* A message is appended to a file and to what was logged to it.
LEMMA LOGKeeps ==
    ASSUME LogInv, NEW message \in Messages, LOG(message)
    PROVE  LogInv'
<1>1. /\ LogTypeOK /\ PathsAreOwn /\ FilesAreFramed
      /\ filePath' = filePath /\ isOpen' = isOpen
    BY DEF LogInv, LOG
<1>2. PathsAreOwn'
    BY <1>1 DEF PathsAreOwn, Exists
<1>3. \A q \in Paths : IsWritten(q)' <=> IsWritten(q)
    BY <1>1 DEF IsWritten
<1>4. Record(message) \in Lines
    BY RecordsType
<1>5. ASSUME NEW p \in Paths \cup {Stream},
             files' = [files EXCEPT ![p] = Append(@, Record(message))],
             logged' = [logged EXCEPT ![p] = Append(@, message)],
             p \in Paths => IsWritten(p)
      PROVE  LogInv'
    <2>1. /\ files[p] \in Seq(Lines) /\ logged[p] \in Seq(Messages)
          /\ files'[p] = Append(files[p], Record(message))
          /\ logged'[p] = Append(logged[p], message)
          /\ \A q \in Paths \cup {Stream} : q # p => files'[q] = files[q] /\ logged'[q] = logged[q]
        BY <1>1, <1>5 DEF LogTypeOK
    <2>2. /\ Append(files[p], Record(message)) \in Seq(Lines)
          /\ Append(logged[p], message) \in Seq(Messages)
        BY <1>4, <2>1
    <2>3. LogTypeOK'
        BY <1>1, <1>5, <2>2 DEF LogTypeOK
    <2>4. /\ Records(logged[p]) \in Seq(Lines)
          /\ Records(logged'[p]) = Append(Records(logged[p]), Record(message))
        BY <2>1, RecordsAppend
    <2>5. p \in Paths => files'[p] = Framed(p)'
        <3> SUFFICES ASSUME p \in Paths PROVE files'[p] = Framed(p)'
            OBVIOUS
        <3>1. IsWritten(p) /\ IsWritten(p)'
            BY <1>3, <1>5
        <3>2. files[p] = Opening \o Records(logged[p]) \o <<>>
            BY <1>1, <3>1 DEF FilesAreFramed, Framed
        <3>3. /\ Opening \in Seq(Lines) /\ Opening \o Records(logged[p]) \in Seq(Lines)
              /\ Append(Records(logged[p]), Record(message)) \in Seq(Lines)
            BY <1>4, <2>4, FrameFacts, ConcatProperties
        <3>4. files[p] = Opening \o Records(logged[p])
            BY <3>2, <3>3, ConcatEmptySeq
        <3>5. files'[p] = Opening \o Records(logged'[p])
            <4>1. Opening \o Append(Records(logged[p]), Record(message))
                    = Append(Opening \o Records(logged[p]), Record(message))
                BY <1>4, <2>4, <3>3, AppendToConcat
            <4> QED BY <2>1, <2>4, <3>4, <4>1
        <3>6. Opening \o Records(logged'[p]) \in Seq(Lines)
            BY <2>4, <3>3, ConcatProperties
        <3>7. Opening \o Records(logged'[p]) \o <<>> = Opening \o Records(logged'[p])
            BY <3>6, ConcatEmptySeq
        <3> QED BY <3>1, <3>5, <3>7 DEF Framed
    <2>6. ASSUME NEW q \in Paths
          PROVE  ((files[q] = <<>> /\ ~IsWritten(q)) \/ files[q] = Framed(q))'
        BY <1>1, <1>3, <2>1, <2>5, UntouchedPath
    <2>7. files'[Stream] = Records(logged'[Stream])
        BY <1>1, <1>5, <2>1, <2>4 DEF FilesAreFramed
    <2> QED BY <1>2, <2>3, <2>6, <2>7 DEF LogInv, FilesAreFramed
<1>6. CASE globalInstance \in Loggers /\ logToFile(globalInstance, message)
    <2>1. CASE isOpen[globalInstance]
        <3> DEFINE p == filePath[globalInstance]
        <3>1. /\ p \in Paths /\ IsWritten(p)
              /\ files' = [files EXCEPT ![p] = Append(@, Record(message))]
              /\ logged' = [logged EXCEPT ![p] = Append(@, message)]
            BY <1>1, <1>6, <2>1 DEF logToFile, LogTypeOK, Exists, IsWritten
        <3> HIDE DEF p
        <3> QED BY <1>5, <3>1
    <2>2. CASE ~isOpen[globalInstance]
        <3>1. files' = files /\ logged' = logged
            BY <1>6, <2>2 DEF logToFile
        <3>2. LogTypeOK'
            BY <1>1, <3>1 DEF LogTypeOK
        <3>3. FilesAreFramed'
            BY <1>1, <1>3, <3>1, UntouchedPath DEF FilesAreFramed
        <3> QED BY <1>2, <3>2, <3>3 DEF LogInv
    <2> QED BY <2>1, <2>2
<1>7. CASE globalInstance = OstreamLogger /\ logToStream(message)
    BY <1>5, <1>7, LoggingAssumption DEF logToStream
<1> QED BY <1>6, <1>7 DEF LOG

\* Every step keeps the invariant.
LEMMA LogNextKeeps ==
    ASSUME LogInv, [LogNext]_logVars
    PROVE  LogInv'
<1>1. ASSUME NEW l \in Loggers, NEW p \in Paths, ConstructOpen(l, p) \/ ConstructWithoutFile(l, p)
      PROVE  LogInv'
    BY <1>1, NewLoggerKeeps
<1>2. ASSUME NEW l \in Loggers, Destroy(l) PROVE LogInv'
    BY <1>2, DestroyKeeps
<1>3. ASSUME NEW message \in Messages, LOG(message) PROVE LogInv'
    BY <1>3, LOGKeeps
<1>4. ASSUME UNCHANGED <<filePath, isOpen, directories, files, logged>> PROVE LogInv'
    <2>1. LogTypeOK' /\ PathsAreOwn'
        BY <1>4 DEF LogInv, LogTypeOK, PathsAreOwn, Exists
    <2>2. FilesAreFramed /\ \A q \in Paths : IsWritten(q)' <=> IsWritten(q)
        BY <1>4 DEF LogInv, IsWritten
    <2>3. FilesAreFramed'
        BY <1>4, <2>2, UntouchedPath DEF FilesAreFramed
    <2> QED BY <2>1, <2>3 DEF LogInv
<1> QED BY <1>1, <1>2, <1>3, <1>4 DEF LogNext, setGlobalInstance, logVars

\* However loggers are made, destroyed and swapped, also where several take one path in turn, every file
\* and the stream have exactly the messages logged to them, in order, and a file that no
\* logger has open is closed by its bracket.
THEOREM LogsAlwaysFramed == LogSpec => []LogsAreFramed
<1>1. LogInv => LogsAreFramed
    BY DEF LogInv, FilesAreFramed, LogsAreFramed, Framed, IsWritten
<1> QED BY <1>1, LogInitInv, LogNextKeeps, PTL DEF LogSpec

-----------------------------------------------------------------------------
(* TestRunner: a turn of the loop puts the suite it ran into one list.  *)

RunnerTypeOK ==
    /\ runnerPc \in {"Started", "NotReady", "Running", "Raised", "Summarised"}
    /\ suites \in Seq(Suites)
    /\ result \in Seq(Results)
    /\ passed_suites \in Seq(Nat) /\ failed_suites \in Seq(Nat)
    /\ passed_with_stderr_suites \in Seq(Nat)
    /\ savedLogs = [log \in {suite.log : suite \in Suites} |-> savedLogs[log]]

\* No suite runs before the list is read, and none twice.
RunsWithinList ==
    /\ Len(result) <= Len(suites)
    /\ runnerPc = "Started" => result = <<>>

RunnerInv == RunnerTypeOK /\ RunsWithinList /\ SuitesAreAccountedFor

\* Append, by what it leaves and what it adds.
LEMMA ListedAppend ==
    ASSUME NEW list \in Seq(Nat), NEW k \in Nat
    PROVE  /\ Append(list, k) \in Seq(Nat)
           /\ Len(Append(list, k)) = Len(list) + 1
           /\ Listed(Append(list, k)) = Listed(list) \cup {k}
<1>1. /\ Append(list, k) \in Seq(Nat)
      /\ Len(Append(list, k)) = Len(list) + 1
      /\ DOMAIN Append(list, k) = 1 .. Len(list) + 1 /\ DOMAIN list = 1 .. Len(list)
      /\ Len(list) \in Nat
      /\ \A i \in 1 .. Len(list) : Append(list, k)[i] = list[i]
      /\ Append(list, k)[Len(list) + 1] = k
    OBVIOUS
<1> HIDE DEF Listed
<1>2. ASSUME NEW x PROVE x \in Listed(Append(list, k)) <=> x \in Listed(list) \cup {k}
    <2>1. x \in Listed(Append(list, k)) <=> \E i \in 1 .. Len(list) + 1 : x = Append(list, k)[i]
        BY <1>1 DEF Listed
    <2>2. x \in Listed(list) <=> \E i \in 1 .. Len(list) : x = list[i]
        BY <1>1 DEF Listed
    <2>3. \A i \in 1 .. Len(list) + 1 : i \in 1 .. Len(list) \/ i = Len(list) + 1
        BY <1>1
    <2>4. 1 .. Len(list) \subseteq 1 .. Len(list) + 1 /\ Len(list) + 1 \in 1 .. Len(list) + 1
        BY <1>1
    <2> QED BY <1>1, <2>1, <2>2, <2>3, <2>4
<1> QED BY <1>1, <1>2

\* A log is that of one executable, and every suite has one.
LEMMA LogFacts ==
    ASSUME NEW s \in Suites, NEW t \in Suites
    PROVE  /\ s.log \in {suite.log : suite \in Suites}
           /\ s.log = t.log => s = t
<1>1. PICK e \in Executables : s = suites_list_element_to_suite(e)
    BY DEF Suites
<1>2. PICK f \in Executables : t = suites_list_element_to_suite(f)
    BY DEF Suites
<1>3. s.log = t.log => e = f
    BY <1>1, <1>2 DEF suites_list_element_to_suite
<1> QED BY <1>1, <1>2, <1>3

\* A step that runs no suite.
LEMMA AccountUnchanged ==
    ASSUME SuitesAreAccountedFor, UNCHANGED <<suites, result, listVars, savedLogs>>,
           runnerPc' = "Summarised" => Len(result) = Len(suites)
    PROVE  SuitesAreAccountedFor'
<1>1. /\ suites' = suites /\ result' = result /\ savedLogs' = savedLogs
      /\ passed_suites' = passed_suites /\ failed_suites' = failed_suites
      /\ passed_with_stderr_suites' = passed_with_stderr_suites
    BY DEF listVars
<1> QED BY <1>1 DEF SuitesAreAccountedFor, Listed

\* No suite has run in the beginning.
LEMMA RunnerInitInv == RunnerInit => RunnerInv
<1> SUFFICES ASSUME RunnerInit PROVE RunnerInv
    OBVIOUS
<1>1. RunnerTypeOK /\ RunsWithinList
    BY DEF RunnerInit, RunnerTypeOK, RunsWithinList
<1>2. Listed(<<>>) = {}
    BY DEF Listed
<1>3. SuitesAreAccountedFor
    BY <1>2 DEF RunnerInit, SuitesAreAccountedFor
<1> QED BY <1>1, <1>3 DEF RunnerInv

\* A turn of the loop keeps the account.
LEMMA RunNextSuiteKeeps ==
    ASSUME RunnerInv, RunNextSuite
    PROVE  RunnerInv'
<1> DEFINE k == Len(result) + 1
<1>1. /\ RunnerTypeOK /\ RunsWithinList /\ SuitesAreAccountedFor
      /\ runnerPc = "Running" /\ runnerPc' = runnerPc /\ suites' = suites
      /\ k \in 1 .. Len(suites) /\ k \in Nat /\ DOMAIN result = 1 .. Len(result)
      /\ Len(result) \in Nat /\ Len(suites) \in Nat /\ DOMAIN suites = 1 .. Len(suites)
    BY DEF RunnerInv, RunNextSuite, RunnerTypeOK
<1>2. PICK r \in Results :
          /\ result' = Append(result, r)
          /\ SortSuite(k, r)
          /\ savedLogs' = [savedLogs EXCEPT ![suites[k].log] = get_suite_log(k, r)]
    BY DEF RunNextSuite
<1> HIDE DEF k
<1>3. /\ result' \in Seq(Results) /\ Len(result') = k /\ DOMAIN result' = 1 .. k
      /\ \A j \in 1 .. Len(result) : result'[j] = result[j]
      /\ result'[k] = r
    BY <1>1, <1>2 DEF RunnerTypeOK, k
<1>4. /\ \A j \in 1 .. k : j \in 1 .. Len(result) \/ j = k
      /\ k \notin 1 .. Len(result) /\ 1 .. Len(result) \subseteq 1 .. k
      /\ 1 .. k = (1 .. Len(result)) \cup {k}
    BY <1>1 DEF k
<1>5. \/ /\ r.passed
         /\ passed_suites' = Append(passed_suites, k)
         /\ UNCHANGED <<failed_suites, passed_with_stderr_suites>>
      \/ /\ r.passed
         /\ passed_with_stderr_suites' = Append(passed_with_stderr_suites, k)
         /\ UNCHANGED <<passed_suites, failed_suites>>
      \/ /\ ~r.passed
         /\ failed_suites' = Append(failed_suites, k)
         /\ UNCHANGED <<passed_suites, passed_with_stderr_suites>>
    BY <1>2 DEF SortSuite
<1>6. /\ passed_suites \in Seq(Nat) /\ failed_suites \in Seq(Nat)
      /\ passed_with_stderr_suites \in Seq(Nat)
      /\ Len(passed_suites) \in Nat /\ Len(failed_suites) \in Nat
      /\ Len(passed_with_stderr_suites) \in Nat
    BY <1>1 DEF RunnerTypeOK
<1>7. \A i \in 1 .. Len(suites) : suites[i] \in Suites
    BY <1>1 DEF RunnerTypeOK
<1>8. RunnerTypeOK'
    <2>1. passed_suites' \in Seq(Nat) /\ failed_suites' \in Seq(Nat)
          /\ passed_with_stderr_suites' \in Seq(Nat)
        BY <1>1, <1>5, <1>6, ListedAppend
    <2>2. savedLogs' = [log \in {suite.log : suite \in Suites} |-> savedLogs'[log]]
        BY <1>1, <1>2 DEF RunnerTypeOK
    <2> QED BY <1>1, <1>3, <2>1, <2>2 DEF RunnerTypeOK
<1>9. RunsWithinList'
    BY <1>1, <1>3 DEF RunsWithinList
<1>10. Len(passed_suites') + Len(failed_suites') + Len(passed_with_stderr_suites') = Len(result')
    <2>1. Len(passed_suites) + Len(failed_suites) + Len(passed_with_stderr_suites) = Len(result)
        BY <1>1 DEF SuitesAreAccountedFor
    <2> QED BY <1>1, <1>3, <1>5, <1>6, <2>1, ListedAppend DEF k
<1>11. Listed(passed_suites') \cup Listed(failed_suites') \cup Listed(passed_with_stderr_suites')
          = DOMAIN result'
    <2>1. Listed(passed_suites) \cup Listed(failed_suites) \cup Listed(passed_with_stderr_suites)
            = 1 .. Len(result)
        BY <1>1 DEF SuitesAreAccountedFor
    <2>2. Listed(passed_suites') \cup Listed(failed_suites') \cup Listed(passed_with_stderr_suites')
            = (1 .. Len(result)) \cup {k}
        <3>1. Listed(Append(passed_suites, k)) = Listed(passed_suites) \cup {k}
            BY <1>1, <1>6, ListedAppend
        <3>2. Listed(Append(failed_suites, k)) = Listed(failed_suites) \cup {k}
            BY <1>1, <1>6, ListedAppend
        <3>3. Listed(Append(passed_with_stderr_suites, k))
                = Listed(passed_with_stderr_suites) \cup {k}
            BY <1>1, <1>6, ListedAppend
        <3> HIDE DEF Listed
        <3> QED BY <1>5, <2>1, <3>1, <3>2, <3>3
    <2> QED BY <2>2, <1>3, <1>4
<1>12. Listed(failed_suites') = {j \in DOMAIN result' : ~result'[j].passed}
    <2>1. Listed(failed_suites) = {j \in 1 .. Len(result) : ~result[j].passed}
        BY <1>1 DEF SuitesAreAccountedFor
    <2>2. {j \in DOMAIN result' : ~result'[j].passed}
            = {j \in 1 .. Len(result) : ~result[j].passed} \cup (IF r.passed THEN {} ELSE {k})
        BY <1>3, <1>4
    <2>3. Listed(failed_suites') = Listed(failed_suites) \cup (IF r.passed THEN {} ELSE {k})
        BY <1>1, <1>5, <1>6, ListedAppend
    <2> QED BY <2>1, <2>2, <2>3
<1>13. ASSUME NEW i \in DOMAIN result',
              \A j \in DOMAIN result' : j > i => suites'[j] # suites'[i]
       PROVE  LET saved == savedLogs'[suites'[i].log]
              IN  /\ saved.verdict = get_suite_pass_fail_string(result'[i])
                  /\ saved.to_reproduce = suites'[i].run_command
    <2>1. CASE i = k
        <3>1. savedLogs'[suites[k].log] = get_suite_log(k, r)
            BY <1>1, <1>2, <1>7, LogFacts DEF RunnerTypeOK
        <3> QED BY <1>1, <1>3, <2>1, <3>1 DEF get_suite_log
    <2>2. CASE i \in 1 .. Len(result)
        <3>1. suites[k] # suites[i] /\ k > i
            BY <1>1, <1>3, <1>4, <1>13, <2>2 DEF k
        <3>2. i \in 1 .. Len(suites)
            BY <1>1, <2>2 DEF k
        <3>3. savedLogs'[suites[i].log] = savedLogs[suites[i].log]
            BY <1>1, <1>2, <1>7, <3>1, <3>2, LogFacts DEF RunnerTypeOK
        <3>4. \A j \in DOMAIN result : j > i => suites[j] # suites[i]
            BY <1>1, <1>3, <1>4, <1>13
        <3>5. /\ savedLogs[suites[i].log].verdict = get_suite_pass_fail_string(result[i])
              /\ savedLogs[suites[i].log].to_reproduce = suites[i].run_command
            BY <1>1, <2>2, <3>4 DEF SuitesAreAccountedFor
        <3> QED BY <1>1, <1>3, <2>2, <3>3, <3>5
    <2> QED BY <1>3, <1>4, <2>1, <2>2
<1>14. SuitesAreAccountedFor'
    BY <1>1, <1>3, <1>10, <1>11, <1>12, <1>13 DEF SuitesAreAccountedFor, Listed
<1> QED BY <1>8, <1>9, <1>14 DEF RunnerInv

\* Every step keeps the invariant.
LEMMA RunnerNextKeeps ==
    ASSUME RunnerInv, [RunnerNext]_runnerVars
    PROVE  RunnerInv'
<1>1. RunnerTypeOK /\ RunsWithinList /\ SuitesAreAccountedFor
    BY DEF RunnerInv
<1>2. ASSUME EnvironmentNotReady PROVE RunnerInv'
    <2>1. UNCHANGED <<suites, result, listVars, savedLogs>> /\ runnerPc' = "NotReady"
        BY <1>2 DEF EnvironmentNotReady
    <2>2. SuitesAreAccountedFor'
        BY <1>1, <2>1, AccountUnchanged
    <2> QED BY <1>1, <2>1, <2>2 DEF RunnerInv, RunnerTypeOK, RunsWithinList, listVars
<1>3. ASSUME ReadSuites PROVE RunnerInv'
    <2>1. suites' \in Seq(Suites) /\ result = <<>>
        BY <1>1, <1>3, RunnerAssumption DEF ReadSuites, RunsWithinList
    <2>2. UNCHANGED <<result, listVars, savedLogs>> /\ runnerPc' = "Running"
        BY <1>3 DEF ReadSuites
    <2>3. RunnerTypeOK' /\ RunsWithinList'
        BY <1>1, <2>1, <2>2 DEF RunnerTypeOK, RunsWithinList, listVars
    <2>4. SuitesAreAccountedFor'
        BY <1>1, <2>1, <2>2 DEF SuitesAreAccountedFor, Listed, listVars
    <2> QED BY <2>3, <2>4 DEF RunnerInv
<1>4. ASSUME RunNextSuite PROVE RunnerInv'
    BY <1>4, RunNextSuiteKeeps
<1>5. ASSUME SuiteRaises PROVE RunnerInv'
    <2>1. UNCHANGED <<suites, result, listVars, savedLogs>> /\ runnerPc' = "Raised"
        BY <1>5 DEF SuiteRaises
    <2>2. SuitesAreAccountedFor'
        BY <1>1, <2>1, AccountUnchanged
    <2> QED BY <1>1, <2>1, <2>2 DEF RunnerInv, RunnerTypeOK, RunsWithinList, listVars
<1>6. ASSUME print_summary PROVE RunnerInv'
    <2>1. /\ UNCHANGED <<suites, result, listVars, savedLogs>> /\ runnerPc' = "Summarised"
          /\ Len(result) = Len(suites)
        BY <1>6 DEF print_summary
    <2>2. SuitesAreAccountedFor'
        BY <1>1, <2>1, AccountUnchanged
    <2> QED BY <1>1, <2>1, <2>2 DEF RunnerInv, RunnerTypeOK, RunsWithinList, listVars
<1>7. ASSUME UNCHANGED runnerVars PROVE RunnerInv'
    <2>1. UNCHANGED <<suites, result, listVars, savedLogs>> /\ runnerPc' = runnerPc
        BY <1>7 DEF runnerVars, listVars
    <2>2. SuitesAreAccountedFor'
        BY <1>1, <2>1, AccountUnchanged DEF SuitesAreAccountedFor
    <2> QED BY <1>1, <2>1, <2>2 DEF RunnerInv, RunnerTypeOK, RunsWithinList, listVars
<1> QED BY <1>2, <1>3, <1>4, <1>5, <1>6, <1>7 DEF RunnerNext

\* Whatever the lists name and whatever the suites return, also suites that are missing,
\* named twice or write to stderr: every suite run so far is in the one list that its
\* result calls for, and its log is saved as it ran last.
THEOREM SuitesAlwaysAccountedFor == RunnerSpec => []SuitesAreAccountedFor
<1>1. RunnerInv => SuitesAreAccountedFor
    BY DEF RunnerInv
<1> QED BY <1>1, RunnerInitInv, RunnerNextKeeps, PTL DEF RunnerSpec

=============================================================================
