---------------------------- MODULE MCSyncEngine ----------------------------
(* Small instances of SyncEngine: the scenarios of each run, a budget of     *)
(* outside events per scenario.                                              *)
EXTENDS SyncEngine

NoEvents == [o \in Outside |-> 0]
With(o, n, b) == [b EXCEPT ![o] = n]

One == With("write", 1, NoEvents)
Edits == With("write", 2, NoEvents)

\* Two writes: one on each side (a conflict) or two on one side, a failing transfer.
TwoEdits == {With("fault", 1, Edits)}

\* Two writes and a delete: a rename, a recreate, a delete against an edit.
EditsDelete == {With("delete", 1, Edits)}

\* The same, or one write and a touch.
Reuse == EditsDelete \cup {With("touch", 1, One)}

\* One write; a drop and a crash, or a delete on either or both sides and a failing
\* transfer. Or two writes, which one slot may not hold.
Outages ==
    {With("drop", 1, With("crash", 1, One)), With("fault", 1, With("delete", 2, One)), Edits}

\* Two writes and nothing else.
JustEdits == {Edits}
=============================================================================
