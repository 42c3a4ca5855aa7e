------------------------------ MODULE Handlers ------------------------------
(***************************************************************************)
(* The two merging handlers as functions of the map they find: the loops   *)
(* of build_cell_map, reconcile_with_prior and merge_entries over the      *)
(* steps of NodeRequests.  Handle(r, m) is what reconcile_request or       *)
(* merge_request makes of m when every step of it succeeds.  A loop is the *)
(* function from the number of its rounds to what they built.              *)
(***************************************************************************)
EXTENDS NodeRequests, SequencesExt

Attempted(ok, map) == [ok |-> ok, map |-> map]

\* The map of a cell, built from nothing: it does not look at the node's state.
CellMaps(cell) ==
    LET built[n \in 0 .. Len(cell.writes)] ==
            IF n = 0 THEN Attempted(TRUE, Empty)
            ELSE LET acc == built[n - 1]  w == cell.writes[n]
                 IN  Attempted(acc.ok /\ ~WriteCollides(acc.map, cell.writer, w),
                               ApplyWrite(acc.map, cell.writer, w))
    IN  built
CellMap(cell) == CellMaps(cell)[Len(cell.writes)]

\* Bug: the writes are applied to the node's state instead of to a map of the cell.
MergeCellsOntoState(cells, m) ==
    FoldLeft(LAMBDA acc, c:
                 Attempted(acc.ok, FoldLeft(LAMBDA map, w: ApplyWrite(map, c.writer, w),
                                            acc.map, c.writes)),
             Attempted(TRUE, m), cells)

MergedCells(cells, m) ==
    LET merged[n \in 0 .. Len(cells)] ==
            IF n = 0 THEN Attempted(TRUE, m)
            ELSE LET acc == merged[n - 1]  built == CellMap(cells[n])
                 IN  Attempted(acc.ok /\ built.ok /\ ~MergeCollides(acc.map, built.map),
                               Merge(acc.map, built.map))
    IN  merged
MergeCells(cells, m) == MergedCells(cells, m)[Len(cells)]

\* The map a list of entries stands for.
EntryMaps(entries) ==
    LET built[n \in 0 .. Len(entries)] ==
            IF n = 0 THEN [ok |-> TRUE, map |-> Empty, seen |-> Empty]
            ELSE LET acc == built[n - 1]  x == entries[n]
                 IN  [ok   |-> acc.ok /\ ~EntryCollides(acc.seen, x),
                      map  |-> RestoreEntry(acc.map, x.key, x.entry),
                      seen |-> [acc.seen EXCEPT ![x.key] = x.entry]]
    IN  built
EntryMap(entries) == EntryMaps(entries)[Len(entries)]

MergeEntries(entries, m) ==
    LET remote == EntryMap(entries)
    IN  Attempted(remote.ok /\ ~MergeCollides(m, remote.map), Merge(m, remote.map))

Merged(r, m) ==
    IF r.kind = "reconcile" THEN MergeCells(r.cells, m) ELSE MergeEntries(r.entries, m)

Handle(r, m) ==
    LET merged == Merged(r, m)
    IN  Attempted(PassesChecks(r, m) /\ merged.ok /\ ~ClockOverflows(merged.map), merged.map)

Accepts(r, m) == Handle(r, m).ok
After(r, m) == Handle(r, m).map

\* The keys of a map in their order, as a BTreeMap walks them.
InOrder(keys) ==
    [i \in 1 .. Cardinality(keys) |->
        CHOOSE k \in keys : Cardinality({j \in keys : j <= k}) = i]

EntriesOf(m, keys) ==
    [i \in 1 .. Cardinality(keys) |-> [key |-> InOrder(keys)[i], entry |-> m[InOrder(keys)[i]]]]

\* Bug: the deleted keys are left out.
StateEntriesPresent(m) == EntriesOf(m, {k \in Held(m) : ~IsTombstone(m[k])})

\* GET /state?full=1 and what a push sends: every entry, in key order.
StateEntries(m) == EntriesOf(m, Held(m))
StateRequest(m) == [kind |-> "merge", entries |-> StateEntries(m)]

\* A request that carries the full state of a peer names each key once, so
\* what merge_request does with it is said of the map itself: the same checks
\* and the same merge (FullStateIsLossless in AtomicNode).
AcceptsState(o, m) ==
    /\ Held(o) # {} /\ Cardinality(Held(o)) <= MaxEntries
    /\ \A k \in Held(o) : CheckEntry(k, o[k], m)
    /\ ~MergeCollides(m, o)
    /\ ~ClockOverflows(Merge(m, o))
=============================================================================
