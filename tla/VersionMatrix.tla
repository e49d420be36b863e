--------------------------- MODULE VersionMatrix ---------------------------
(***************************************************************************)
(* VersionMatrix of src/src/dots.rs: what a replica knows of everyone's    *)
(* version vector.  The matrix is a function from replica identifiers to   *)
(* DotSets; the identifier Stable (STABLE_REPLICA_PID) has a row once a GC *)
(* marker was applied, and a column in every row, which holds the GC       *)
(* counter of the row's owner.  finals (final_dots) gives the last counter *)
(* of the replicas whose shutdown was observed.                            *)
(*                                                                         *)
(* A GC marker is a record: counter (its dot's counter), stable (the       *)
(* frontier) and departed (departed_pids, None being the empty set).       *)
(***************************************************************************)
EXTENDS DotSets

CONSTANT Stable

\* VersionMatrix::update: a vector from an older GC round is ignored.
Update(matrix, own, p, vv) ==
  IF Get(matrix[own], Stable) <= Get(vv, Stable)
  THEN [q \in DOMAIN matrix \cup {p} |-> IF q = p THEN vv ELSE matrix[q]]
  ELSE matrix

\* The row insert_pid creates for a replica first seen in the directory.
NewRow(p, gc) == [q \in {p, Stable} |-> IF q = Stable THEN gc ELSE -1]

\* VersionMatrix::insert_pid for every identifier in the domain of gcs.
InsertPids(matrix, gcs) ==
  [q \in DOMAIN matrix \cup DOMAIN gcs |->
     IF q \in DOMAIN matrix THEN matrix[q] ELSE NewRow(q, gcs[q])]

\* The departed replicas remove_pids really drops: not those whose final dot is
\* known here and not covered by the current stable row.
Removable(matrix, finals, departed) ==
  {p \in departed :
     /\ Stable \in DOMAIN matrix
     /\ p \in DOMAIN finals => Contains(matrix[Stable], p, finals[p])}

\* VersionMatrix::remove_pids: their rows and their columns.
RemoveRows(matrix, gone) ==
  [q \in DOMAIN matrix \ gone |-> RemovePids(matrix[q], gone)]

\* VersionMatrix::apply_gc_marker
ApplyMarker(matrix, finals, own, m) ==
  LET rows == RemoveRows(matrix, Removable(matrix, finals, m.departed))
  IN [q \in DOMAIN rows \cup {Stable} |->
        IF q = Stable THEN SetCounter(m.stable, Stable, m.counter)
        ELSE IF q = own THEN SetCounter(rows[q], Stable, m.counter)
        ELSE rows[q]]

\* VersionMatrix::get_observer_rows: the rows that take part in the stability
\* computation, a departed replica's until we have seen its final dot.
ObserverRows(matrix, finals, own) ==
  {p \in DOMAIN matrix \ {Stable} :
     ~(p \in DOMAIN finals /\ Contains(matrix[own], p, finals[p]))}

\* Mutant: one completed GC round is taken as evidence, whatever it covered.
DepartedUnproven(matrix, finals) == {p \in DOMAIN finals : Stable \in DOMAIN matrix}

\* VersionMatrix::get_stable, the departed replicas: only a frontier that
\* completed a GC round is evidence, which makes removal two-phase.
DepartedPids(matrix, finals) ==
  {p \in DOMAIN finals :
     Stable \in DOMAIN matrix /\ Contains(matrix[Stable], p, finals[p])}

\* Mutant: the own row instead of the minimum of the observers' rows.
StableFrontierOwn(matrix, finals, own) ==
  LET observers == ObserverRows(matrix, finals, own)
      columns   == observers \cup UNION {DOMAIN matrix[p] : p \in observers}
  IN [q \in columns \ DepartedPids(matrix, finals) |-> Get(matrix[own], q)]

\* VersionMatrix::get_stable, the frontier: the pointwise minimum of the
\* observer rows, with a column for every observer, without the departed.
StableFrontier(matrix, finals, own) ==
  LET observers == ObserverRows(matrix, finals, own)
      columns   == observers \cup UNION {DOMAIN matrix[p] : p \in observers}
  IN [q \in columns \ DepartedPids(matrix, finals) |->
        Min({Get(matrix[p], q) : p \in observers})]
=============================================================================
