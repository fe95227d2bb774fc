--------------------------- MODULE MCSnapshotStore ---------------------------
(***************************************************************************)
(* Two processes over a store that is empty or full.                       *)
(***************************************************************************)
EXTENDS SnapshotStore

CONSTANTS p1, p2, e1, e2

MCProcesses == {p1, p2}
MCEarlier == {e1, e2}
MCTime == 0..2
MCSizes == {1, 2}
Old(e, time, size) == [by |-> e, at |-> time, size |-> size, whole |-> TRUE]
MCInitial == {{}, {Old(e1, 0, 1), Old(e2, 1, 1)}}
=============================================================================
