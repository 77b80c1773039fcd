--------------------------- MODULE MCSessionWriter ---------------------------
(***************************************************************************)
(* Small instances of SessionWriter.  An encoded event takes one or two    *)
(* cells (a third size is refused by the encoder), so a batch is full      *)
(* after one to three events; the backlog has room for one large unit or   *)
(* a few small ones.                                                       *)
(***************************************************************************)
EXTENDS SessionWriter

\* Sizes 0 and 1 fit a frame, size 2 does not when MaxFrame is 1.
SizedEvents == {[size |-> s, ts |-> 0, source |-> 0] : s \in 0 .. 2}
\* Two of the smallest events and the largest, of two sources; timestamps need
\* not be monotone.
TimedEvents == {[size |-> 0, ts |-> 1, source |-> 1],
                [size |-> 0, ts |-> 2, source |-> 2],
                [size |-> 2, ts |-> 1, source |-> 2]}

NoFilters == {}
AllFilters == {[from |-> a, to |-> b, sources |-> s] :
                  a \in 0 .. 2, b \in 1 .. 3, s \in {{1}, {2}, {1, 2}}}
=============================================================================
