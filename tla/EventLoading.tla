---------------------------- MODULE EventLoading ----------------------------
(***************************************************************************)
(* What main and Application (HS/src/Application.cpp) do before they     *)
(* hand events to the ComputingManager: the constructor reads the        *)
(* configuration main's argument names; run chooses the loop by the      *)
(* platform, reads the entries of the "spacepoints" tree one by one,     *)
(* groups them by event, leaves out the points and the events the        *)
(* configuration excludes, and multiplies the list.  Application.tla     *)
(* starts from that list.                                                *)
(***************************************************************************)
EXTENDS Integers, Sequences, FiniteSets

CONSTANTS
    Trees,      \* the sequences of entries [event_id, r, z] of a tree; r is hypot(x, y)
    NoTree,     \* the file or its tree cannot be opened
    Configs,    \* the configurations
    NotSet      \* the value of a setting the configuration does not contain

ASSUME LoadAssumption ==
    /\ \A t \in Trees : t \in Seq([event_id : Int, r : Int, z : Int])
    /\ \A c \in Configs : c.multiplyEvents \in Nat

VARIABLES
    loadPc,     \* "Started", "Constructed", "Reading", "Cleaning", "Multiplying", "Loaded",
                \* or how the program ended: "Exited", "Returned", "Threw", "NullEvents"
    config,
    tree,
    entry,      \* the index of the next entry
    pointsOf,   \* the map `points`: from event id to vector of points
    cleaned,    \* the ids of `points` the second loop has visited
    events,     \* the vector of events [id, points]
    copies      \* the turns of the MULTIPLY_EVENTS loop that are left

loadVars == <<loadPc, config, tree, entry, pointsOf, cleaned, events, copies>>

----------------------------------------------------------------------------
\* No setting: the default decision.  A setting: is the point in some region?
selector(setting, defaultDecision, point) ==
    \/ setting = NotSet /\ defaultDecision
    \/ /\ setting # NotSet
       /\ \E region \in setting :
              /\ region.rmin < point.r /\ point.r < region.rmax
              /\ region.zmin < point.z /\ point.z < region.zmax

\* The event's constructor: its arrays, in the order of the points.
NewEvent(id, points) ==
    [id |-> id, rs |-> [i \in DOMAIN points |-> points[i].r],
     zs |-> [i \in DOMAIN points |-> points[i].z]]

\* The copy constructor builds the arrays again from the points.
CopyOfEvent(event) == event

IsAnalysed(id) == config.event = NotSet \/ config.event = id

LoadInit ==
    /\ loadPc = "Started" /\ config = NotSet /\ tree = NoTree
    /\ entry = 1 /\ pointsOf = <<>> /\ cleaned = {} /\ events = <<>> /\ copies = 0

\* The constructor leaves the program when main got no argument; else loadConfig
\* reads the file the argument names, and throws when it cannot.
ConstructApplication ==
    /\ loadPc = "Started"
    /\ \/ loadPc' \in {"Exited", "Threw"} /\ UNCHANGED config
       \/ loadPc' = "Constructed" /\ config' \in Configs
    /\ UNCHANGED <<tree, entry, pointsOf, cleaned, events, copies>>

\* run, loadEvents and the beginning of loadEventsFromSpacepointsRootFile.  A
\* platform without a loop ends run silently; another type of file gives a null
\* pointer, which the loop dereferences.
RunApplication ==
    /\ loadPc = "Constructed"
    /\ tree' \in Trees \cup {NoTree}
    /\ loadPc' = IF config.platform \notin {"cpu_no_sycl", "cpu", "gpu"} THEN "Returned"
                 ELSE IF config.inputFileType # "root_spacepoints" THEN "NullEvents"
                 ELSE IF tree' = NoTree THEN "Threw"
                 ELSE "Reading"
    /\ UNCHANGED <<config, entry, pointsOf, cleaned, events, copies>>

\* Mutant: an excluded point leaves the loop before its event is known.
AddedToKept(map, point) ==
    IF selector(config.excludeRZRegions, FALSE, point) THEN map
    ELSE [id \in DOMAIN map \cup {point.event_id} |->
             IF id # point.event_id THEN map[id]
             ELSE IF id \in DOMAIN map THEN Append(map[id], point) ELSE <<point>>]

\* try_emplace, then push_back of a point that is not excluded.
AddedTo(map, point) ==
    [id \in DOMAIN map \cup {point.event_id} |->
        (IF id \in DOMAIN map THEN map[id] ELSE <<>>)
        \o IF id = point.event_id /\ ~selector(config.excludeRZRegions, FALSE, point)
           THEN <<point>> ELSE <<>>]

ReadEntry ==
    /\ loadPc = "Reading" /\ entry <= Len(tree)
    /\ entry' = entry + 1
    /\ pointsOf' = IF IsAnalysed(tree[entry].event_id) THEN AddedTo(pointsOf, tree[entry]) ELSE pointsOf
    /\ UNCHANGED <<loadPc, config, tree, cleaned, events, copies>>

EndReading ==
    /\ loadPc = "Reading" /\ entry > Len(tree)
    /\ loadPc' = "Cleaning"
    /\ UNCHANGED <<config, tree, entry, pointsOf, cleaned, events, copies>>

\* A std::map is visited in ascending order of its keys.  The points that were
\* left out above no longer count against their event.
CleanEvent(id) ==
    /\ loadPc = "Cleaning"
    /\ id \in DOMAIN pointsOf \ cleaned
    /\ \A other \in DOMAIN pointsOf \ cleaned : id <= other
    /\ cleaned' = cleaned \cup {id}
    /\ events' = IF \E i \in DOMAIN pointsOf[id] :
                        selector(config.excludeEventsWithHitsInRZ, FALSE, pointsOf[id][i])
                 THEN events
                 ELSE Append(events, NewEvent(id, pointsOf[id]))
    /\ UNCHANGED <<loadPc, config, tree, entry, pointsOf, copies>>

EndCleaning ==
    /\ loadPc = "Cleaning" /\ DOMAIN pointsOf = cleaned
    /\ loadPc' = "Multiplying" /\ copies' = config.multiplyEvents
    /\ UNCHANGED <<config, tree, entry, pointsOf, cleaned, events>>

\* Debug.h defines MULTIPLY_EVENTS: newEvents takes a copy of all events per turn.
MultiplyEvents ==
    /\ loadPc = "Multiplying"
    /\ events' = [i \in 1 .. copies * Len(events) |->
                      CopyOfEvent(events[1 + ((i - 1) % Len(events))])]
    /\ copies' = 0 /\ loadPc' = "Loaded"
    /\ UNCHANGED <<config, tree, entry, pointsOf, cleaned>>

LoadEnded == loadPc \in {"Loaded", "Exited", "Returned", "Threw", "NullEvents"}

LoadNext ==
    \/ ConstructApplication \/ RunApplication \/ ReadEntry \/ EndReading
    \/ \E id \in DOMAIN pointsOf : CleanEvent(id)
    \/ EndCleaning \/ MultiplyEvents

LoadSpec == LoadInit /\ [][LoadNext]_loadVars

----------------------------------------------------------------------------
\* The entries of an event that are not excluded, by their indices.
Accepted(id) ==
    {i \in DOMAIN tree : /\ tree[i].event_id = id
                         /\ ~selector(config.excludeRZRegions, FALSE, tree[i])}

\* The events that are asked for.
Selected ==
    {id \in {tree[i].event_id : i \in DOMAIN tree} :
        /\ IsAnalysed(id)
        /\ \A i \in Accepted(id) : ~selector(config.excludeEventsWithHitsInRZ, FALSE, tree[i])}

\* The place of an element in ascending order.
Rank(set, element) == Cardinality({other \in set : other <= element})

HasEntries(event, set) ==
    /\ Len(event.rs) = Cardinality(set) /\ Len(event.zs) = Cardinality(set)
    /\ \A i \in set : /\ event.rs[Rank(set, i)] = tree[i].r
                      /\ event.zs[Rank(set, i)] = tree[i].z

\* loadEvents, by what it is for: whatever the order of the entries of the file,
\* the list has, multiplyEvents times and each time by ascending id, one event
\* for each id analysed whose accepted points are all allowed, with its accepted
\* points in the order of the file and no other event's.
LoadsSelectedEvents ==
    loadPc = "Loaded" =>
        LET count == Cardinality(Selected)
            SameCopy(i, j) == (i - 1) \div count = (j - 1) \div count
        IN  /\ Len(events) = config.multiplyEvents * count
            /\ \A i \in DOMAIN events : /\ events[i].id \in Selected
                                        /\ HasEntries(events[i], Accepted(events[i].id))
            /\ \A i, j \in DOMAIN events :
                   i < j /\ SameCopy(i, j) => events[i].id < events[j].id

=============================================================================
