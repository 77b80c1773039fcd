------------------------- MODULE SessionWriterProofs -------------------------
(***************************************************************************)
(* Theorems about SessionWriter, for every format, batch limit, backlog,   *)
(* flush threshold, set of events and number of outages.                   *)
(***************************************************************************)
EXTENDS LivePolls, TLAPS, FiniteSetTheorems, SequenceTheorems, WellFoundedInduction

\* Writing at an offset within a file changes nothing before it, puts the
\* cells there, and never makes the file shorter.
LEMMA OverwriteProperties ==
    ASSUME NEW S, NEW f \in Seq(S), NEW c \in Seq(S), NEW at \in 0 .. Len(f)
    PROVE  /\ Overwrite(f, at, c) \in Seq(S)
           /\ Len(Overwrite(f, at, c)) =
                IF Len(f) > at + Len(c) THEN Len(f) ELSE at + Len(c)
           /\ \A i \in 1 .. at : Overwrite(f, at, c)[i] = f[i]
           /\ \A k \in 1 .. Len(c) : Overwrite(f, at, c)[at + k] = c[k]
<1> DEFINE n == IF Len(f) > at + Len(c) THEN Len(f) ELSE at + Len(c)
           g == [i \in 1 .. n |-> IF i \in at + 1 .. at + Len(c)
                                  THEN c[i - at] ELSE f[i]]
<1>1. Overwrite(f, at, c) = g
  BY DEF Overwrite
<1>2. n \in Nat /\ Len(f) \in Nat /\ Len(c) \in Nat /\ at \in Nat
  OBVIOUS
<1>3. \A i \in 1 .. n : g[i] \in S
  <2> SUFFICES ASSUME NEW i \in 1 .. n PROVE g[i] \in S
    OBVIOUS
  <2>1. CASE i \in at + 1 .. at + Len(c)
    <3>1. i - at \in 1 .. Len(c)
      BY <2>1, <1>2
    <3> QED
      BY <2>1, <3>1
  <2>2. CASE i \notin at + 1 .. at + Len(c)
    <3>1. i \in 1 .. Len(f)
      BY <2>2, <1>2
    <3> QED
      BY <2>2, <3>1
  <2> QED
    BY <2>1, <2>2
<1>4. g \in Seq(S) /\ Len(g) = n
  BY <1>2, <1>3
<1>5. \A i \in 1 .. at : g[i] = f[i]
  BY <1>2
<1>6. \A k \in 1 .. Len(c) : g[at + k] = c[k]
  <2> SUFFICES ASSUME NEW k \in 1 .. Len(c) PROVE g[at + k] = c[k]
    OBVIOUS
  <2>1. at + k \in 1 .. n /\ at + k \in at + 1 .. at + Len(c)
    BY <1>2
  <2>2. (at + k) - at = k
    BY <1>2
  <2> QED
    BY <2>1, <2>2
<1> QED
  BY <1>1, <1>4, <1>5, <1>6

\* The first k of a sequence of cells.
LEMMA PrefixProperties ==
    ASSUME NEW S, NEW c \in Seq(S), NEW k \in 0 .. Len(c)
    PROVE  /\ SubSeq(c, 1, k) \in Seq(S) /\ Len(SubSeq(c, 1, k)) = k
           /\ \A i \in 1 .. k : SubSeq(c, 1, k)[i] = c[i]
<1>1. Len(c) \in Nat
  OBVIOUS
<1>2. \A i \in 1 .. k : c[i] \in S
  BY <1>1
<1>3. SubSeq(c, 1, k) = [i \in 1 .. k |-> c[i]]
  BY <1>1
<1> QED
  BY <1>1, <1>2, <1>3

\* The sizes in cells of a unit and of what it is made of.
LEMMA UnitCells ==
    ASSUME NEW u \in Units
    PROVE  /\ PrefixLen \in {0, 1} /\ HeadLen \in {0, 1}
           /\ Size(u) \in Nat /\ Size(u) = PrefixLen + u.frameLen
           /\ CellsOf(u) \in Seq(Cells) /\ Len(CellsOf(u)) = Size(u)
           /\ \A k \in 1 .. Size(u) : CellsOf(u)[k] = UnitCell(u, k)
<1>1. PrefixLen \in {0, 1} /\ HeadLen \in {0, 1}
  BY DEF PrefixLen, HeadLen
<1>2. Size(u) \in Nat /\ Size(u) = PrefixLen + u.frameLen
  BY <1>1 DEF Size, Units
<1>3. \A k \in Nat : UnitCell(u, k) \in [kind : {"unit"}, u : Units, k : Nat]
  BY DEF UnitCell
<1>4. \A k \in 1 .. Size(u) : UnitCell(u, k) \in Cells
  BY <1>2, <1>3 DEF Cells
<1>5. CellsOf(u) \in Seq(Cells) /\ Len(CellsOf(u)) = Size(u)
  BY <1>2, <1>4 DEF CellsOf
<1>6. \A k \in 1 .. Size(u) : CellsOf(u)[k] = UnitCell(u, k)
  BY DEF CellsOf
<1> QED
  BY <1>1, <1>2, <1>5, <1>6

\* The footer as cells.
LEMMA FooterIsCells ==
    TypeOK => /\ FooterCells(index, cursor) \in Seq(Cells)
              /\ Len(FooterCells(index, cursor)) = 2
<1> SUFFICES ASSUME TypeOK
             PROVE  /\ FooterCells(index, cursor) \in Seq(Cells)
                    /\ Len(FooterCells(index, cursor)) = 2
  OBVIOUS
<1>1. FooterBody(index) \in [kind : {"index"}, index : Seq(Entries)]
  BY DEF TypeOK, FooterBody
<1>2. Trailer(cursor) \in [kind : {"trailer"}, offset : Nat]
  BY DEF TypeOK, Trailer
<1>3. FooterBody(index) \in Cells /\ Trailer(cursor) \in Cells
  BY <1>1, <1>2 DEF Cells
<1> QED
  BY <1>3 DEF FooterCells

-----------------------------------------------------------------------------
(* What a write, whole, partial or cut back, does to the file.             *)

\* F is a file of cells that agrees with the present one up to the cursor.
KeepsUnits(F) == /\ F \in Seq(Cells) /\ Len(F) >= cursor
                 /\ \A i \in 1 .. cursor : F[i] = file[i]

\* A write that stops after any prefix touches nothing before the cursor.
LEMMA PartialKeepsUnits ==
    ASSUME TypeOK, CursorInFile, NEW cells \in Seq(Cells),
           NEW k \in 0 .. Len(cells)
    PROVE  /\ KeepsUnits(Partial(cells, k))
           /\ Len(Partial(cells, k)) =
                IF Len(file) > cursor + k THEN Len(file) ELSE cursor + k
<1>1. file \in Seq(Cells) /\ cursor \in 0 .. Len(file)
  BY DEF TypeOK, CursorInFile
<1> DEFINE c == SubSeq(cells, 1, k)
<1>2. c \in Seq(Cells) /\ Len(c) = k
  BY PrefixProperties
<1>3. Partial(cells, k) = Overwrite(file, cursor, c)
  BY DEF Partial
<1> HIDE DEF c, Cells
<1>4. /\ Overwrite(file, cursor, c) \in Seq(Cells)
      /\ Len(Overwrite(file, cursor, c)) =
            IF Len(file) > cursor + Len(c) THEN Len(file) ELSE cursor + Len(c)
      /\ \A i \in 1 .. cursor : Overwrite(file, cursor, c)[i] = file[i]
  BY <1>1, <1>2, OverwriteProperties
<1>5. Len(Partial(cells, k)) =
         IF Len(file) > cursor + k THEN Len(file) ELSE cursor + k
  BY <1>2, <1>3, <1>4
<1>6. Len(Partial(cells, k)) >= cursor
  BY <1>1, <1>5
<1> QED
  BY <1>3, <1>4, <1>5, <1>6 DEF KeepsUnits

\* Neither does a write that failed, whether its cut worked or not.
LEMMA TornKeepsUnits ==
    ASSUME TypeOK, CursorInFile, NEW cells \in Seq(Cells),
           NEW F \in Torn(cells)
    PROVE  /\ KeepsUnits(F)
           /\ \/ Len(F) = cursor
              \/ Len(F) <= Len(file)
              \/ Len(F) < cursor + Len(cells)
<1>1. file \in Seq(Cells) /\ cursor \in 0 .. Len(file) /\ Len(cells) \in Nat
  BY DEF TypeOK, CursorInFile
<1>2. CASE F = SubSeq(file, 1, cursor)
  <2>1. /\ F \in Seq(Cells) /\ Len(F) = cursor
        /\ \A i \in 1 .. cursor : F[i] = file[i]
    BY <1>1, <1>2, PrefixProperties
  <2> QED
    BY <2>1, <1>1 DEF KeepsUnits
<1>3. CASE \E k \in 0 .. Len(cells) - 1 : F = Partial(cells, k)
  <2>1. PICK k \in 0 .. Len(cells) - 1 : F = Partial(cells, k)
    BY <1>3
  <2>2. k \in 0 .. Len(cells)
    BY <1>1
  <2>3. /\ KeepsUnits(F)
        /\ Len(F) = IF Len(file) > cursor + k THEN Len(file) ELSE cursor + k
    BY <2>1, <2>2, PartialKeepsUnits
  <2> QED
    BY <2>3, <1>1
<1> QED
  BY <1>2, <1>3 DEF Torn

\* The unit at the head of the queue, written whole.
LEMMA DrainedFile ==
    ASSUME TypeOK, CursorInFile, pending # <<>>
    PROVE  LET u == Head(pending)
               F == Overwrite(file, cursor, CellsOf(u))
           IN  /\ u \in Units /\ u = pending[1] /\ Size(u) \in Nat
               /\ KeepsUnits(F)
               /\ Len(F) = IF Len(file) > cursor + Size(u)
                           THEN Len(file) ELSE cursor + Size(u)
               /\ \A k \in 1 .. Size(u) : F[cursor + k] = UnitCell(u, k)
<1> DEFINE u == Head(pending)
           F == Overwrite(file, cursor, CellsOf(u))
<1>1. u \in Units /\ u = pending[1]
  BY DEF TypeOK
<1>2. file \in Seq(Cells) /\ cursor \in 0 .. Len(file)
  BY DEF TypeOK, CursorInFile
<1> HIDE DEF u
<1>3. /\ Size(u) \in Nat /\ CellsOf(u) \in Seq(Cells)
      /\ Len(CellsOf(u)) = Size(u)
      /\ \A k \in 1 .. Size(u) : CellsOf(u)[k] = UnitCell(u, k)
  BY <1>1, UnitCells
<1>4. /\ F \in Seq(Cells)
      /\ Len(F) = IF Len(file) > cursor + Size(u)
                  THEN Len(file) ELSE cursor + Size(u)
      /\ \A i \in 1 .. cursor : F[i] = file[i]
      /\ \A k \in 1 .. Size(u) : F[cursor + k] = CellsOf(u)[k]
  BY <1>2, <1>3, OverwriteProperties
<1>5. Len(F) >= cursor
  BY <1>2, <1>3, <1>4
<1>6. KeepsUnits(F)
  BY <1>4, <1>5 DEF KeepsUnits
<1>7. \A k \in 1 .. Size(u) : F[cursor + k] = UnitCell(u, k)
  BY <1>3, <1>4
<1> QED
  BY <1>1, <1>3, <1>4, <1>6, <1>7 DEF u

\* No step touches a cell before the cursor.
LEMMA FileStep ==
    ASSUME TypeOK, CursorInFile, [Next]_vars
    PROVE  KeepsUnits(file')
<1>1. KeepsUnits(file)
  BY DEF TypeOK, CursorInFile, KeepsUnits
<1>2. CASE file' = file
  BY <1>1, <1>2
<1>3. CASE DrainUnit
  BY <1>3, DrainedFile DEF DrainUnit
<1>4. CASE DrainFails
  <2>1. Head(pending) \in Units /\ file' \in Torn(CellsOf(Head(pending)))
    BY <1>4 DEF DrainFails, TypeOK
  <2> QED
    BY <2>1, UnitCells, TornKeepsUnits
<1>5. CASE WriteFooter
  <2> DEFINE cells == FooterCells(index, cursor)
  <2>1. file \in Seq(Cells) /\ cursor \in 0 .. Len(file)
    BY DEF TypeOK, CursorInFile
  <2>2. cells \in Seq(Cells)
    BY FooterIsCells
  <2>3. file' = Overwrite(file, cursor, cells)
    BY <1>5 DEF WriteFooter
  <2> HIDE DEF cells
  <2>4. /\ Overwrite(file, cursor, cells) \in Seq(Cells)
        /\ Len(Overwrite(file, cursor, cells)) =
             IF Len(file) > cursor + Len(cells)
             THEN Len(file) ELSE cursor + Len(cells)
        /\ \A i \in 1 .. cursor : Overwrite(file, cursor, cells)[i] = file[i]
    BY <2>1, <2>2, OverwriteProperties
  <2>5. Len(Overwrite(file, cursor, cells)) >= cursor
    BY <2>1, <2>2, <2>4
  <2> QED
    BY <2>3, <2>4, <2>5 DEF KeepsUnits
<1>6. CASE FooterFails
  BY <1>6, FooterIsCells, TornKeepsUnits DEF FooterFails
<1>7. CASE Crash
  <2>1. InFlight \in Seq(Cells)
    <3>1. pending # <<>> => Head(pending) \in Units
      BY DEF TypeOK
    <3> QED
      BY <3>1, UnitCells, FooterIsCells DEF InFlight
  <2>2. PICK k \in 0 .. Len(InFlight) : file' = Partial(InFlight, k)
    BY <1>7 DEF Crash, CrashImages
  <2> QED
    BY <2>1, <2>2, PartialKeepsUnits
<1>8. CASE UNCHANGED vars
  BY <1>2, <1>8 DEF vars
<1> QED
  BY <1>2, <1>3, <1>4, <1>5, <1>6, <1>7, <1>8
     DEF Next, WriteEvent, Push, Seal, SealUnit, SealFails, SealNothing,
         Enqueue, Drain, DrainDone, Flush, Finalize, Finish, WriteMeta,
         MetaFails, DiskRefuses, DiskRecovers

-----------------------------------------------------------------------------
(* The sum behind pendingBytes.                                            *)

\* The size of the backlog grows by that of the unit queued ...
LEMMA BacklogAppend ==
    ASSUME TypeOK, BacklogSum, NEW u \in Units,
           pending' = Append(pending, u),
           pendingBytes' = pendingBytes + Size(u)
    PROVE  BacklogSum'
<1> DEFINE n == Len(pending)
<1>1. pending \in Seq(Units) /\ n \in Nat /\ pendingBytes \in Nat
  BY DEF TypeOK
<1>2. PICK f \in [0 .. n -> Nat] :
        /\ f[0] = 0 /\ f[n] = pendingBytes
        /\ \A i \in 1 .. n : f[i] = f[i - 1] + Size(pending[i])
        /\ \A i, j \in 0 .. n : i <= j => f[i] <= f[j]
  BY Zenon DEF BacklogSum
<1>3. Size(u) \in Nat
  BY UnitCells
<1>4. /\ Len(pending') = n + 1 /\ DOMAIN (pending') = 1 .. n + 1
      /\ \A i \in 1 .. n : pending'[i] = pending[i]
      /\ pending'[n + 1] = u
  BY <1>1
<1> DEFINE g == [i \in 0 .. n + 1 |-> IF i \in 0 .. n THEN f[i]
                                     ELSE pendingBytes + Size(u)]
<1>5. g \in [0 .. n + 1 -> Nat]
  BY <1>1, <1>3
<1>6. g[0] = 0 /\ g[n + 1] = pendingBytes + Size(u)
  BY <1>1, <1>2
<1>7. \A i \in 1 .. n + 1 : g[i] = g[i - 1] + Size(pending'[i])
  <2> SUFFICES ASSUME NEW i \in 1 .. n + 1
               PROVE  g[i] = g[i - 1] + Size(pending'[i])
    OBVIOUS
  <2>1. CASE i \in 1 .. n
    <3>1. g[i] = f[i] /\ g[i - 1] = f[i - 1]
      BY <1>1, <2>1
    <3> QED
      BY <1>2, <1>4, <2>1, <3>1
  <2>2. CASE i = n + 1
    <3>1. g[i] = pendingBytes + Size(u) /\ g[i - 1] = f[n]
      BY <1>1, <2>2
    <3> QED
      BY <1>2, <1>4, <2>2, <3>1
  <2> QED
    BY <1>1, <2>1, <2>2
<1>8. \A i, j \in 0 .. n + 1 : i <= j => g[i] <= g[j]
  <2> SUFFICES ASSUME NEW i \in 0 .. n + 1, NEW j \in 0 .. n + 1, i <= j
               PROVE  g[i] <= g[j]
    OBVIOUS
  <2>1. CASE j \in 0 .. n
    BY <1>1, <1>2, <2>1
  <2>2. CASE j = n + 1 /\ i \in 0 .. n
    <3>1. f[i] <= f[n]
      BY <1>1, <1>2, <2>2
    <3>2. f[i] \in Nat /\ g[i] = f[i] /\ g[j] = pendingBytes + Size(u)
      BY <1>1, <1>2, <2>2
    <3> QED
      BY <1>1, <1>2, <1>3, <3>1, <3>2
  <2>3. CASE j = n + 1 /\ i = n + 1
    BY <1>1, <1>3, <1>6, <2>3
  <2> QED
    BY <1>1, <2>1, <2>2, <2>3
<1> HIDE DEF g
<1>9. /\ g \in [0 .. Len(pending') -> Nat]
      /\ g[0] = 0 /\ g[Len(pending')] = pendingBytes'
      /\ \A i \in 1 .. Len(pending') : g[i] = g[i - 1] + Size(pending'[i])
      /\ \A i, j \in 0 .. Len(pending') : i <= j => g[i] <= g[j]
  BY <1>4, <1>5, <1>6, <1>7, <1>8
<1> QED
  BY <1>9 DEF BacklogSum, Size, PrefixLen

\* ... shrinks by that of the unit taken off ...
LEMMA BacklogTail ==
    ASSUME TypeOK, BacklogSum, pending # <<>>,
           pending' = Tail(pending),
           pendingBytes' = pendingBytes - Size(Head(pending))
    PROVE  BacklogSum' /\ pendingBytes' \in Nat
<1> DEFINE n == Len(pending)
           u == Head(pending)
<1>1. /\ pending \in Seq(Units) /\ n \in Nat \ {0} /\ pendingBytes \in Nat
      /\ u = pending[1] /\ u \in Units
  BY DEF TypeOK
<1>2. PICK f \in [0 .. n -> Nat] :
        /\ f[0] = 0 /\ f[n] = pendingBytes
        /\ \A i \in 1 .. n : f[i] = f[i - 1] + Size(pending[i])
        /\ \A i, j \in 0 .. n : i <= j => f[i] <= f[j]
  BY Zenon DEF BacklogSum
<1>3. \A i \in 1 .. n : Size(pending[i]) \in Nat
  BY <1>1, UnitCells
<1>4. /\ Len(pending') = n - 1 /\ DOMAIN (pending') = 1 .. n - 1
      /\ \A i \in 1 .. n - 1 : pending'[i] = pending[i + 1]
  BY <1>1
<1>5. f[1] = Size(u) /\ Size(u) \in Nat
  BY <1>1, <1>2, <1>3
<1> DEFINE g == [i \in 0 .. n - 1 |-> f[i + 1] - Size(u)]
<1>6. \A i \in 0 .. n - 1 : f[i + 1] \in Nat /\ f[i + 1] >= Size(u)
  <2> SUFFICES ASSUME NEW i \in 0 .. n - 1
               PROVE  f[i + 1] \in Nat /\ f[i + 1] >= Size(u)
    OBVIOUS
  <2>1. i + 1 \in 0 .. n /\ 1 \in 0 .. n /\ 1 <= i + 1
    BY <1>1
  <2>2. f[1] <= f[i + 1] /\ f[i + 1] \in Nat
    BY <1>2, <2>1
  <2> QED
    BY <1>5, <2>2
<1>7. g \in [0 .. n - 1 -> Nat]
  BY <1>5, <1>6
<1>8. g[0] = 0 /\ g[n - 1] = pendingBytes - Size(u)
  BY <1>1, <1>2, <1>5
<1>9. \A i \in 1 .. n - 1 : g[i] = g[i - 1] + Size(pending'[i])
  <2> SUFFICES ASSUME NEW i \in 1 .. n - 1
               PROVE  g[i] = g[i - 1] + Size(pending'[i])
    OBVIOUS
  <2>1. g[i] = f[i + 1] - Size(u) /\ g[i - 1] = f[i] - Size(u)
    BY <1>1
  <2>2. i + 1 \in 1 .. n /\ (i + 1) - 1 = i
    BY <1>1
  <2>3. f[i + 1] = f[i] + Size(pending[i + 1])
    BY <1>2, <2>2
  <2>4. f[i] \in Nat /\ Size(pending[i + 1]) \in Nat
    BY <1>1, <1>3, <2>2
  <2> QED
    BY <1>4, <1>5, <2>1, <2>3, <2>4
<1>10. \A i, j \in 0 .. n - 1 : i <= j => g[i] <= g[j]
  <2> SUFFICES ASSUME NEW i \in 0 .. n - 1, NEW j \in 0 .. n - 1, i <= j
               PROVE  g[i] <= g[j]
    OBVIOUS
  <2>1. i + 1 \in 0 .. n /\ j + 1 \in 0 .. n /\ i + 1 <= j + 1
    BY <1>1
  <2>2. f[i + 1] <= f[j + 1]
    BY <1>2, <2>1
  <2> QED
    BY <1>5, <1>6, <2>2
<1> HIDE DEF g
<1>11. /\ g \in [0 .. Len(pending') -> Nat]
       /\ g[0] = 0 /\ g[Len(pending')] = pendingBytes'
       /\ \A i \in 1 .. Len(pending') : g[i] = g[i - 1] + Size(pending'[i])
       /\ \A i, j \in 0 .. Len(pending') : i <= j => g[i] <= g[j]
  BY <1>4, <1>7, <1>8, <1>9, <1>10
<1>12. pendingBytes' \in Nat
  BY <1>1, <1>7, <1>8
<1> QED
  BY <1>11, <1>12 DEF BacklogSum, Size, PrefixLen

\* ... and is nothing once the queue is emptied.
LEMMA BacklogEmpty ==
    ASSUME pending' = <<>>, pendingBytes' = 0
    PROVE  BacklogSum'
<1> DEFINE g == [i \in 0 .. 0 |-> 0]
<1>1. Len(pending') = 0 /\ DOMAIN (pending') = {}
  OBVIOUS
<1>2. g \in [0 .. Len(pending') -> Nat]
  BY <1>1
<1>3. g[0] = 0 /\ \A i, j \in 0 .. 0 : i <= j => g[i] <= g[j]
  OBVIOUS
<1> HIDE DEF g
<1>4. /\ g[Len(pending')] = pendingBytes'
      /\ \A i \in 1 .. Len(pending') : g[i] = g[i - 1] + Size(pending'[i])
      /\ \A i, j \in 0 .. Len(pending') : i <= j => g[i] <= g[j]
  BY <1>1, <1>3
<1> QED
  BY <1>2, <1>3, <1>4 DEF BacklogSum

-----------------------------------------------------------------------------
(* Types and the shape of the state.                                       *)

\* The part of the invariant that concerns the position in a call.
ControlTypes ==
    /\ pc \in {"idle", "push", "seal", "room", "enqueue", "drain", "footer",
               "meta", "closed", "crashed"}
    /\ call \in {"none", "pre", "post", "flush", "finalize"}
    /\ arg \in Seq(Events) /\ failed \in BOOLEAN
    /\ result \in [op : {"none", "write", "flush", "finalize"}, ok : BOOLEAN,
                   pushed : BOOLEAN]
    /\ pc = "push" => call = "pre"
    /\ call = "pre" => Len(arg) = 1

Results == [op : {"none", "write", "flush", "finalize"}, ok : BOOLEAN,
            pushed : BOOLEAN]

\* A call that returns leaves the control variables well typed.
LEMMA ReturnTypes ==
    ASSUME NEW op \in {"write", "flush"}, NEW ok \in BOOLEAN,
           NEW pushed \in BOOLEAN, Return(op, ok, pushed)
    PROVE  ControlTypes'
<1>1. [op |-> op, ok |-> ok, pushed |-> pushed] \in Results
  BY Zenon DEF Results
<1>2. /\ pc' = "idle" /\ call' = "none" /\ arg' = <<>> /\ failed' = FALSE
      /\ result' \in Results
  BY <1>1 DEF Return
<1>3. <<>> \in Seq(Events)
  OBVIOUS
<1> QED
  BY <1>2, <1>3 DEF ControlTypes, Results

\* So does going on after a seal, failed or not ...
LEMMA AfterSealTypes ==
    ASSUME ControlTypes, NEW ok \in BOOLEAN, AfterSeal(ok), pc \in {"seal", "enqueue"}
    PROVE  ControlTypes'
<1>1. CASE ~ok /\ call \in {"pre", "post"}
  <2>1. Return("write", FALSE, call = "post")
    BY <1>1 DEF AfterSeal
  <2>2. (call = "post") \in BOOLEAN
    OBVIOUS
  <2> QED
    BY <2>1, <2>2, ReturnTypes
<1>2. CASE ~(~ok /\ call \in {"pre", "post"})
  <2>1. /\ pc' = "drain" /\ failed' = (failed \/ ~ok)
        /\ UNCHANGED <<call, arg, result>>
    BY <1>2 DEF AfterSeal
  <2>2. failed' \in BOOLEAN
    BY <2>1
  <2> QED
    BY <2>1, <2>2 DEF ControlTypes
<1> QED
  BY <1>1, <1>2

\* ... and after a drain.
LEMMA AfterDrainTypes ==
    ASSUME ControlTypes, NEW ok \in BOOLEAN, AfterDrain(ok)
    PROVE  ControlTypes'
<1>1. CASE pc = "drain" /\ call = "post" /\ Return("write", TRUE, TRUE)
  BY <1>1, ReturnTypes
<1>2. CASE /\ pc = "drain" /\ call = "flush"
           /\ Return("flush", ok /\ ~failed, FALSE)
  <2>1. (ok /\ ~failed) \in BOOLEAN
    OBVIOUS
  <2> QED
    BY <1>2, <2>1, ReturnTypes
<1>3. CASE GoTo("enqueue") \/ GoTo("footer") \/ GoTo("meta")
  BY <1>3 DEF GoTo, ControlTypes
<1>4. CASE call = "pre" /\ GoTo("push")
  BY <1>4 DEF GoTo, ControlTypes
<1>5. CASE pc' = "meta" /\ failed' = TRUE /\ UNCHANGED <<call, arg, result>>
  BY <1>5 DEF ControlTypes
<1> QED
  BY <1>1, <1>2, <1>3, <1>4, <1>5 DEF AfterDrain

\* Every step keeps the types of the control variables.
LEMMA ControlStep ==
    ASSUME TypeOK, ControlInv, [Next]_vars
    PROVE  ControlTypes'
<1>0. ControlTypes
  BY DEF TypeOK, ControlInv, ControlTypes
<1>1. ASSUME NEW e \in Events, WriteEvent(e) PROVE ControlTypes'
  <2>1. CASE e.size > MaxFrame
    BY <1>1, <2>1, ReturnTypes DEF WriteEvent
  <2>2. CASE ~(e.size > MaxFrame)
    <3>1. <<e>> \in Seq(Events) /\ Len(<<e>>) = 1
      OBVIOUS
    <3> QED
      BY <1>0, <1>1, <2>2, <3>1 DEF WriteEvent, ControlTypes
  <2> QED
    BY <2>1, <2>2
<1>2. CASE Push
  <2>1. CASE Full(PushedBatch(arg[1]))
    <3>1. <<>> \in Seq(Events)
      OBVIOUS
    <3> QED
      BY <1>0, <1>2, <2>1, <3>1 DEF Push, ControlTypes
  <2>2. CASE ~Full(PushedBatch(arg[1]))
    BY <1>2, <2>2, ReturnTypes DEF Push
  <2> QED
    BY <2>1, <2>2
<1>3. ASSUME NEW n, SealUnit(n) PROVE ControlTypes'
  BY <1>0, <1>3 DEF SealUnit, GoTo, ControlTypes
<1>4. ASSUME NEW n, SealFails(n) PROVE ControlTypes'
  BY <1>0, <1>4, AfterSealTypes DEF SealFails
<1>5. CASE SealNothing
  BY <1>0, <1>5, AfterSealTypes DEF SealNothing
<1>6. CASE Enqueue
  BY <1>0, <1>6, AfterSealTypes DEF Enqueue
<1>7. CASE DrainUnit
  BY <1>0, <1>7 DEF DrainUnit, control, ControlTypes
<1>8. CASE DrainDone
  BY <1>0, <1>8, AfterDrainTypes DEF DrainDone
<1>9. CASE DrainFails
  BY <1>0, <1>9, AfterDrainTypes DEF DrainFails
<1>10. CASE Flush
  BY <1>0, <1>10 DEF Flush, ControlTypes
<1>11. CASE Finalize
  BY <1>0, <1>11 DEF Finalize, ControlTypes
<1>12. CASE WriteFooter \/ FooterFails
  BY <1>0, <1>12 DEF WriteFooter, FooterFails, GoTo, ControlTypes
<1>13. ASSUME NEW ok \in BOOLEAN, Closed(ok) PROVE ControlTypes'
  <2>1. [op |-> "finalize", ok |-> ok, pushed |-> FALSE] \in Results
    BY Zenon DEF Results
  <2>2. <<>> \in Seq(Events)
    OBVIOUS
  <2>3. /\ pc' = "closed" /\ call' = "none" /\ arg' = <<>> /\ failed' = FALSE
        /\ result' \in Results
    BY <1>13, <2>1 DEF Closed
  <2> QED
    BY <2>2, <2>3 DEF ControlTypes, Results
<1>14. CASE WriteMeta \/ MetaFails
  <2>1. (~failed) \in BOOLEAN
    OBVIOUS
  <2> QED
    BY <1>13, <1>14, <2>1 DEF WriteMeta, MetaFails
<1>15. CASE DiskRefuses \/ DiskRecovers \/ UNCHANGED vars
  BY <1>0, <1>15 DEF DiskRefuses, DiskRecovers, vars, control, ControlTypes
<1>16. CASE Crash
  <2>1. <<>> \in Seq(Events)
    OBVIOUS
  <2> QED
    BY <1>0, <1>16, <2>1 DEF Crash, ControlTypes
<1> QED
  BY <1>1, <1>2, <1>3, <1>4, <1>5, <1>6, <1>7, <1>8, <1>9, <1>10, <1>11,
     <1>12, <1>14, <1>15, <1>16 DEF Next, Seal, Drain, Finish

\* The queue, its bytes, the index and the counters.
QueueTypes ==
    /\ pending \in Seq(Units) /\ pendingBytes \in Nat /\ BacklogSum
    /\ cursor \in Nat /\ index \in Seq(Entries)
    /\ written \in Nat /\ lastError \in BOOLEAN
    /\ CursorInFile

\* Steps that leave the appender alone keep the types of queue and file.
LEMMA QueueUnchanged ==
    ASSUME TypeOK, BacklogSum, CursorInFile, [Next]_vars, UNCHANGED appender
    PROVE  QueueTypes'
<1>1. KeepsUnits(file')
  BY FileStep
<1>2. BacklogSum'
  <2>1. UNCHANGED <<pending, pendingBytes>>
    BY DEF appender
  <2> QED
    BY <2>1 DEF BacklogSum, Size, PrefixLen
<1>3. CursorInFile'
  BY <1>1 DEF CursorInFile, KeepsUnits, appender, HeadLen
<1> QED
  BY <1>2, <1>3 DEF QueueTypes, TypeOK, appender

\* What seal makes of a batch is a unit.
LEMMA SealedUnitType ==
    ASSUME TypeOK, MemoryInOrder, batch.n > 0, NEW n \in Nat \ {0}
    PROVE  SealedUnit(n) \in Units
<1>1. Len(log) \in Nat /\ batch.n \in Nat /\ batch.n <= Len(log)
  BY DEF TypeOK, MemoryInOrder
<1>2. Len(log) - batch.n + 1 \in Nat
  BY <1>1
<1> QED
  BY <1>1, <1>2 DEF TypeOK, SealedUnit, Units

\* Every step keeps the types of the queue, the file and its index.
LEMMA QueueStep ==
    ASSUME TypeOK, ControlInv, MemoryInOrder, BacklogSum, CursorInFile,
           [Next]_vars
    PROVE  QueueTypes'
<1>0. /\ KeepsUnits(file') /\ pending \in Seq(Units) /\ pendingBytes \in Nat
      /\ cursor \in Nat /\ index \in Seq(Entries) /\ written \in Nat
      /\ lastError \in BOOLEAN
  BY FileStep DEF TypeOK
<1>1. CASE Enqueue
  <2> DEFINE u == hand[1]
  <2>1. u \in Units
    <3>1. pc = "enqueue" /\ hand \in Seq(Units)
      BY <1>1 DEF Enqueue, TypeOK
    <3>2. Len(hand) = 1
      BY <3>1 DEF ControlInv
    <3> QED
      BY <3>1, <3>2
  <2>2. Size(u) \in Nat
    BY <2>1, UnitCells
  <2>3. CursorInFile'
    BY <1>1, <1>0 DEF CursorInFile, KeepsUnits, Enqueue, HeadLen
  <2>4. CASE BacklogFull(u)
    <3>1. UNCHANGED <<pending, pendingBytes, cursor, index, written, lastError>>
      BY <1>1, <2>4 DEF Enqueue
    <3>2. BacklogSum'
      BY <3>1 DEF BacklogSum, Size, PrefixLen
    <3> QED
      BY <1>0, <2>3, <3>1, <3>2 DEF QueueTypes
  <2>5. CASE ~BacklogFull(u)
    <3>1. /\ pending' = Append(pending, u)
          /\ pendingBytes' = pendingBytes + Size(u)
          /\ UNCHANGED <<cursor, index, written, lastError>>
      BY <1>1, <2>5 DEF Enqueue, Queued, BacklogWith
    <3>2. BacklogSum'
      BY <2>1, <3>1, BacklogAppend
    <3>3. pending' \in Seq(Units) /\ pendingBytes' \in Nat
      BY <1>0, <2>1, <2>2, <3>1
    <3> QED
      BY <1>0, <2>3, <3>1, <3>2, <3>3 DEF QueueTypes
  <2> QED
    BY <2>4, <2>5
<1>2. CASE DrainUnit
  <2> DEFINE u == Head(pending)
  <2>1. /\ pending # <<>> /\ pending' = Tail(pending)
        /\ pendingBytes' = pendingBytes - Size(u)
        /\ file' = Overwrite(file, cursor, CellsOf(u))
        /\ index' = IF Chunked THEN Append(index, Entry(u, cursor)) ELSE index
        /\ cursor' = cursor + Size(u)
        /\ written' = written + Count(u)
        /\ lastError' = lastError
    BY <1>2 DEF DrainUnit
  <2>2. /\ u \in Units /\ u = pending[1] /\ Size(u) \in Nat
        /\ Len(file') = IF Len(file) > cursor + Size(u)
                        THEN Len(file) ELSE cursor + Size(u)
    BY <2>1, DrainedFile
  <2>3. BacklogSum' /\ pendingBytes' \in Nat
    BY <2>1, BacklogTail
  <2>4. Count(u) \in Nat \ {0}
    <3>1. 1 \in DOMAIN pending
      BY <1>0, <2>1
    <3>2. u.first \in 1 .. u.last
      BY <2>2, <3>1 DEF MemoryInOrder
    <3>3. u.last \in Nat
      BY <2>2 DEF Units
    <3> HIDE DEF u
    <3> QED
      BY <3>2, <3>3 DEF Count
  <2>5. Entry(u, cursor) \in Entries
    BY <1>0, <2>2, <2>4 DEF Entry, Entries, Units
  <2>6. pending' \in Seq(Units) /\ index' \in Seq(Entries)
    BY <1>0, <2>1, <2>5
  <2>7. CursorInFile'
    <3>1. cursor \in Nat /\ cursor >= HeadLen
      BY <1>0 DEF CursorInFile
    <3>2. HeadLen \in Nat /\ HeadLen' = HeadLen
      BY DEF HeadLen
    <3>3. Size(u) \in Nat /\ cursor' = cursor + Size(u)
      BY <2>1, <2>2
    <3>4. Len(file) \in Nat
      BY DEF TypeOK
    <3>5. Len(file') = IF Len(file) > cursor + Size(u)
                       THEN Len(file) ELSE cursor + Size(u)
      BY <2>2
    <3> HIDE DEF u
    <3>6. cursor' >= HeadLen /\ cursor' <= Len(file')
      BY <3>1, <3>2, <3>3, <3>4, <3>5
    <3> QED
      BY <3>2, <3>6 DEF CursorInFile
  <2>8. cursor' \in Nat /\ written' \in Nat
    <3>1. cursor \in Nat /\ written \in Nat
      BY <1>0
    <3>2. cursor' = cursor + Size(u) /\ written' = written + Count(u)
      BY <2>1
    <3>3. Size(u) \in Nat
      BY <2>2
    <3> HIDE DEF u
    <3> QED
      BY <3>1, <3>2, <3>3, <2>4
  <2> QED
    BY <1>0, <2>1, <2>3, <2>6, <2>7, <2>8 DEF QueueTypes
<1>3. CASE DrainDone \/ DrainFails \/ Crash
  <2>1. /\ UNCHANGED <<cursor, index, written>>
        /\ lastError' \in BOOLEAN
    BY <1>0, <1>3 DEF DrainDone, DrainFails, Crash
  <2>2. CursorInFile'
    BY <1>0, <2>1 DEF CursorInFile, KeepsUnits, HeadLen
  <2>3. \/ UNCHANGED <<pending, pendingBytes>>
        \/ pending' = <<>> /\ pendingBytes' = 0
    BY <1>3 DEF DrainDone, DrainFails, Crash, AfterDrain
  <2>4. BacklogSum'
    <3>1. CASE UNCHANGED <<pending, pendingBytes>>
      BY <3>1 DEF BacklogSum, Size, PrefixLen
    <3>2. CASE pending' = <<>> /\ pendingBytes' = 0
      BY <3>2, BacklogEmpty
    <3> QED
      BY <2>3, <3>1, <3>2
  <2>5. pending' \in Seq(Units) /\ pendingBytes' \in Nat
    <3>1. <<>> \in Seq(Units)
      OBVIOUS
    <3>2. CASE UNCHANGED <<pending, pendingBytes>>
      BY <1>0, <3>2
    <3>3. CASE pending' = <<>> /\ pendingBytes' = 0
      BY <3>1, <3>3
    <3> QED
      BY <2>3, <3>2, <3>3
  <2> QED
    BY <1>0, <2>1, <2>2, <2>4, <2>5 DEF QueueTypes
<1>4. CASE UNCHANGED appender
  BY <1>4, QueueUnchanged
<1> QED
  BY <1>1, <1>2, <1>3, <1>4
     DEF Next, WriteEvent, Push, Seal, SealUnit, SealFails, SealNothing,
         Drain, Flush, Finalize, Finish, WriteFooter, FooterFails, WriteMeta,
         MetaFails, DiskRefuses, DiskRecovers, vars

\* The batch, the unit being sealed, the counters and the history.
BatchTypes ==
    /\ batch \in [n : Nat, bytes : Nat, lo : Nat, hi : Nat,
                   sources : SUBSET Nat]
    /\ hand \in Seq(Units)
    /\ Len(hand) = IF pc \in {"room", "enqueue"} THEN 1 ELSE 0

\* The batch after a seal is well typed ...
LEMMA EmptyBatchType ==
    EmptyBatch \in [n : Nat, bytes : Nat, lo : Nat, hi : Nat,
                    sources : SUBSET Nat]
<1>1. MaxTs \in Nat
  BY SizeAssumption
<1>2. {} \in SUBSET Nat
  OBVIOUS
<1> QED
  BY <1>1, <1>2 DEF EmptyBatch

\* ... and so is one with an event more.
LEMMA PushedBatchType ==
    ASSUME TypeOK, NEW e \in Events
    PROVE  /\ PushedBatch(e) \in [n : Nat, bytes : Nat, lo : Nat, hi : Nat,
                                  sources : SUBSET Nat]
           /\ PushedBatch(e).n = batch.n + 1
<1>1. /\ e.size \in Nat /\ e.ts \in Nat /\ e.source \in Nat
      /\ FrameHeader \in Nat
  BY EventAssumption, SizeAssumption
<1>2. /\ batch.n \in Nat /\ batch.bytes \in Nat /\ batch.lo \in Nat
      /\ batch.hi \in Nat /\ batch.sources \in SUBSET Nat
  BY DEF TypeOK
<1>3. /\ batch.n + 1 \in Nat /\ batch.bytes + FrameLen(e) \in Nat
      /\ Lesser(batch.lo, e.ts) \in Nat /\ Greater(batch.hi, e.ts) \in Nat
      /\ batch.sources \cup {e.source} \in SUBSET Nat
  BY <1>1, <1>2 DEF FrameLen, Lesser, Greater
<1> QED
  BY <1>3 DEF PushedBatch

\* The argument of a write under way is the event to push.
LEMMA PushedEvent ==
    ASSUME TypeOK, ControlInv, pc = "push"
    PROVE  arg[1] \in Events
<1>1. arg \in Seq(Events) /\ Len(arg) = 1
  BY DEF TypeOK, ControlInv
<1> QED
  BY <1>1

\* Every step keeps the types of the batch, the queue and the unit in hand.
LEMMA BatchStep ==
    ASSUME TypeOK, ControlInv, MemoryInOrder, [Next]_vars
    PROVE  BatchTypes'
<1>0. BatchTypes /\ <<>> \in Seq(Units)
  BY DEF TypeOK, ControlInv, BatchTypes
<1>1. ASSUME NEW e \in Events, WriteEvent(e) PROVE BatchTypes'
  BY <1>0, <1>1 DEF WriteEvent, Return, BatchTypes
<1>2. CASE Push
  <2>1. arg[1] \in Events
    BY <1>2, PushedEvent DEF Push
  <2>2. batch' = PushedBatch(arg[1]) /\ hand' = hand
    BY <1>2 DEF Push
  <2>3. pc = "push" /\ pc' \in {"seal", "idle"}
    BY <1>2 DEF Push, Return
  <2> QED
    BY <1>0, <2>1, <2>2, <2>3, PushedBatchType DEF BatchTypes
<1>3. ASSUME NEW n \in FrameLens, SealUnit(n) PROVE BatchTypes'
  <2>1. n \in Nat
    <3>1. batch.bytes + ZstdSlack \in Nat
      BY SizeAssumption DEF TypeOK
    <3> QED
      BY <3>1 DEF FrameLens
  <2>2. SealedUnit(n) \in Units
    BY <1>3, <2>1, SealedUnitType DEF SealUnit, Sealable
  <2>3. /\ hand' = <<SealedUnit(n)>> /\ batch' = EmptyBatch
        /\ pc' \in {"room", "enqueue"}
    BY <1>3 DEF SealUnit, GoTo
  <2> QED
    BY <2>2, <2>3, EmptyBatchType DEF BatchTypes
<1>4. ASSUME NEW n \in FrameLens, SealFails(n) PROVE BatchTypes'
  <2>1. pc = "seal" /\ hand' = hand /\ batch' = EmptyBatch /\ pc' \in {"idle", "drain"}
    BY <1>4 DEF SealFails, AfterSeal, Return
  <2> QED
    BY <1>0, <2>1, EmptyBatchType DEF BatchTypes
<1>5. CASE SealNothing
  BY <1>0, <1>5 DEF SealNothing, AfterSeal, Return, BatchTypes
<1>6. CASE Enqueue
  <2>1. hand' = <<>> /\ batch' = batch /\ pc' \in {"idle", "drain"}
    BY <1>6 DEF Enqueue, AfterSeal, Return
  <2> QED
    BY <1>0, <2>1 DEF BatchTypes
<1>7. CASE DrainUnit
  BY <1>0, <1>7 DEF DrainUnit, control, BatchTypes
<1>8. CASE DrainDone \/ DrainFails
  <2>1. /\ hand' = hand /\ batch' = batch
        /\ \/ pc = "room" /\ pc' = "enqueue"
           \/ pc = "drain" /\ pc' \in {"push", "idle", "footer", "meta"}
    BY <1>8 DEF DrainDone, DrainFails, AfterDrain, GoTo, Return
  <2> QED
    BY <1>0, <2>1 DEF BatchTypes
<1>9. CASE Flush \/ Finalize
  BY <1>0, <1>9 DEF Flush, Finalize, BatchTypes
<1>10. CASE WriteFooter \/ FooterFails \/ WriteMeta \/ MetaFails
  BY <1>0, <1>10 DEF WriteFooter, FooterFails, WriteMeta, MetaFails, Closed,
                     GoTo, BatchTypes
<1>11. CASE DiskRefuses \/ DiskRecovers \/ UNCHANGED vars
  BY <1>0, <1>11 DEF DiskRefuses, DiskRecovers, vars, control, BatchTypes
<1>12. CASE Crash
  BY <1>0, <1>12, EmptyBatchType DEF Crash, BatchTypes
<1> QED
  BY <1>1, <1>2, <1>3, <1>4, <1>5, <1>6, <1>7, <1>8, <1>9, <1>10, <1>11,
     <1>12 DEF Next, Seal, Drain, Finish

-----------------------------------------------------------------------------
(* The order of the events in memory.                                      *)

\* The order of events only depends on what is in memory and was accepted.
LEMMA OrderUnchanged ==
    ASSUME MemoryInOrder, UNCHANGED <<batch, hand, pending, log>>
    PROVE  MemoryInOrder'
BY DEF MemoryInOrder

\* Units and batch stay in the order in which their events were accepted.
LEMMA OrderStep ==
    ASSUME TypeOK, ControlInv, MemoryInOrder, [Next]_vars
    PROVE  MemoryInOrder'
<1>0. /\ Len(log) \in Nat /\ batch.n \in Nat /\ batch.n <= Len(log)
      /\ log \in Seq(Events) /\ pending \in Seq(Units) /\ hand \in Seq(Units)
      /\ \A i \in DOMAIN pending : pending[i].last \in Nat
      /\ \A h \in DOMAIN hand : hand[h].last \in Nat
  <2>1. /\ Len(log) \in Nat /\ batch.n \in Nat /\ batch.n <= Len(log)
        /\ log \in Seq(Events) /\ pending \in Seq(Units) /\ hand \in Seq(Units)
    BY DEF TypeOK, MemoryInOrder
  <2>2. \A u \in Units : u.last \in Nat
    BY DEF Units
  <2>3. \A i \in DOMAIN pending : pending[i] \in Units
    BY <2>1
  <2>4. \A h \in DOMAIN hand : hand[h] \in Units
    BY <2>1
  <2> QED
    BY <2>1, <2>2, <2>3, <2>4
<1>e. EmptyBatch.n = 0
  BY DEF EmptyBatch
<1>1. CASE Push
  <2>1. arg[1] \in Events /\ PushedBatch(arg[1]).n = batch.n + 1
    BY <1>1, PushedEvent, PushedBatchType DEF Push
  <2>2. /\ log' = Append(log, arg[1]) /\ batch' = PushedBatch(arg[1])
        /\ UNCHANGED <<hand, pending>>
    BY <1>1 DEF Push, appender
  <2>3. Len(log') = Len(log) + 1
    BY <1>0, <2>1, <2>2
  <2>n. batch'.n = batch.n + 1
    BY <2>1, <2>2
  <2>4. batch'.n <= Len(log') /\ Len(log') - batch'.n = Len(log) - batch.n
    <3>1. Len(log) \in Nat /\ batch.n \in Nat /\ batch.n <= Len(log)
      BY <1>0
    <3> QED
      BY <3>1, <2>n, <2>3
  <2> QED
    BY <2>2, <2>4 DEF MemoryInOrder
<1>2. ASSUME NEW n \in FrameLens, SealUnit(n) PROVE MemoryInOrder'
  <2> DEFINE u == SealedUnit(n)
  <2>1. /\ batch.n > 0 /\ n > 0 /\ hand' = <<u>> /\ batch'.n = 0
        /\ UNCHANGED <<pending, log>>
    BY <1>2, <1>e DEF SealUnit, Sealable, appender, history
  <2>2. u.first = Len(log) - batch.n + 1 /\ u.last = Len(log) /\ u.frameLen = n
    BY DEF SealedUnit
  <2> HIDE DEF u
  <2>3. u.first \in 1 .. u.last /\ u.last <= Len(log') - batch'.n
    BY <1>0, <2>1, <2>2
  <2>4. \A i \in DOMAIN pending : /\ pending[i].last < u.first
                                 /\ pending[i].last <= Len(log') - batch'.n
    <3> SUFFICES ASSUME NEW i \in DOMAIN pending
                 PROVE  /\ pending[i].last < u.first
                        /\ pending[i].last <= Len(log') - batch'.n
      OBVIOUS
    <3>1. pending[i].last <= Len(log) - batch.n /\ pending[i].last \in Nat
      BY <1>0 DEF MemoryInOrder
    <3> QED
      BY <1>0, <2>1, <2>2, <3>1
  <2>5. batch'.n <= Len(log')
    BY <1>0, <2>1
  <2> QED
    BY <2>1, <2>2, <2>3, <2>4, <2>5 DEF MemoryInOrder
<1>3. ASSUME NEW n \in FrameLens, SealFails(n) PROVE MemoryInOrder'
  <2>1. batch'.n = 0 /\ UNCHANGED <<hand, pending, log>>
    BY <1>3, <1>e DEF SealFails, appender
  <2>2. \A m \in Nat : m <= Len(log) - batch.n => m <= Len(log') - batch'.n
    BY <1>0, <2>1
  <2>3. batch'.n <= Len(log')
    BY <1>0, <2>1
  <2> QED
    BY <1>0, <2>1, <2>2, <2>3 DEF MemoryInOrder
<1>4. CASE Enqueue
  <2> DEFINE u == hand[1]
  <2>1. hand' = <<>> /\ UNCHANGED <<batch, log>>
    BY <1>4 DEF Enqueue
  <2>2. CASE BacklogFull(u)
    BY <1>4, <2>1, <2>2 DEF Enqueue, MemoryInOrder
  <2>3. CASE ~BacklogFull(u)
    <3>1. pending' = Append(pending, u)
      BY <1>4, <2>3 DEF Enqueue, Queued
    <3>2. 1 \in DOMAIN hand
      <4>1. pc = "enqueue"
        BY <1>4 DEF Enqueue
      <4>2. Len(hand) = 1
        BY <4>1 DEF ControlInv
      <4> QED
        BY <1>0, <4>2
    <3>3. /\ u.first \in 1 .. u.last /\ u.last <= Len(log) - batch.n
          /\ u.frameLen > 0
          /\ \A i \in DOMAIN pending : pending[i].last < u.first
      BY <3>2 DEF MemoryInOrder
    <3> DEFINE n == Len(pending)
    <3>4. /\ DOMAIN pending = 1 .. n /\ n \in Nat
          /\ DOMAIN (pending') = 1 .. n + 1
          /\ \A i \in 1 .. n : pending'[i] = pending[i]
          /\ pending'[n + 1] = u
      BY <1>0, <3>1
    <3>5. ASSUME NEW i \in 1 .. n + 1
          PROVE  /\ pending'[i].first \in 1 .. pending'[i].last
                 /\ pending'[i].last <= Len(log) - batch.n
                 /\ pending'[i].frameLen > 0
      <4>1. CASE i \in 1 .. n
        BY <3>4, <4>1 DEF MemoryInOrder
      <4>2. CASE i = n + 1
        BY <3>3, <3>4, <4>2
      <4> QED
        BY <3>4, <4>1, <4>2
    <3>6. ASSUME NEW i \in 1 .. n + 1, NEW j \in 1 .. n + 1, i < j
          PROVE  pending'[i].last < pending'[j].first
      <4>1. i \in 1 .. n
        BY <3>4, <3>6
      <4>2. CASE j \in 1 .. n
        BY <3>4, <3>6, <4>1, <4>2 DEF MemoryInOrder
      <4>3. CASE j = n + 1
        BY <3>3, <3>4, <4>1, <4>3
      <4> QED
        BY <3>4, <4>2, <4>3
    <3>7. DOMAIN (hand') = {}
      BY <2>1
    <3> QED
      BY <1>0, <2>1, <3>4, <3>5, <3>6, <3>7 DEF MemoryInOrder
  <2> QED
    BY <2>2, <2>3
<1>5. CASE DrainUnit
  <2>1. /\ pending # <<>> /\ pending' = Tail(pending)
        /\ UNCHANGED <<batch, hand, log>>
    BY <1>5 DEF DrainUnit, history
  <2> DEFINE n == Len(pending)
  <2>2. /\ n \in Nat \ {0} /\ DOMAIN pending = 1 .. n
        /\ DOMAIN (pending') = 1 .. n - 1
        /\ \A i \in 1 .. n - 1 : pending'[i] = pending[i + 1]
    BY <1>0, <2>1
  <2>3. \A i \in 1 .. n - 1 : i + 1 \in 1 .. n
    BY <2>2
  <2>4. \A i, j \in 1 .. n - 1 : i < j => i + 1 < j + 1
    BY <2>2
  <2>5. ASSUME NEW i \in 1 .. n - 1
        PROVE  /\ pending'[i].first \in 1 .. pending'[i].last
               /\ pending'[i].last <= Len(log) - batch.n
               /\ pending'[i].frameLen > 0
               /\ \A j \in 1 .. n - 1 :
                    i < j => pending'[i].last < pending'[j].first
               /\ \A h \in DOMAIN hand : pending'[i].last < hand[h].first
    BY <2>2, <2>3, <2>4 DEF MemoryInOrder
  <2> QED
    BY <2>1, <2>2, <2>5 DEF MemoryInOrder
<1>6. CASE DrainDone \/ DrainFails
  <2>1. /\ UNCHANGED <<batch, hand, log>>
        /\ pending' = pending \/ pending' = <<>>
    BY <1>6 DEF DrainDone, DrainFails, AfterDrain
  <2>2. CASE pending' = pending
    BY <2>1, <2>2, OrderUnchanged
  <2>3. CASE pending' = <<>>
    <3>1. DOMAIN (pending') = {}
      BY <2>3
    <3> QED
      BY <2>1, <3>1 DEF MemoryInOrder
  <2> QED
    BY <2>1, <2>2, <2>3
<1>7. CASE Crash
  <2>1. batch'.n = 0 /\ hand' = <<>> /\ pending' = <<>> /\ log' = log
    BY <1>7, <1>e DEF Crash, history
  <2>2. DOMAIN (hand') = {} /\ DOMAIN (pending') = {} /\ batch'.n <= Len(log')
    BY <1>0, <2>1
  <2> QED
    BY <2>2 DEF MemoryInOrder
<1>8. CASE UNCHANGED <<batch, hand, pending, log>>
  BY <1>8, OrderUnchanged
<1> QED
  BY <1>1, <1>2, <1>3, <1>4, <1>5, <1>6, <1>7, <1>8
     DEF Next, WriteEvent, Seal, SealNothing, Drain, Flush, Finalize, Finish,
         WriteFooter, FooterFails, WriteMeta, MetaFails, DiskRefuses,
         DiskRecovers, vars, appender, history

-----------------------------------------------------------------------------
(* The events in memory and the events given up.                           *)

\* Events in the queue, in hand and in the batch are accepted ones, each in one place.
LEMMA MemoryFacts ==
    ASSUME TypeOK, MemoryInOrder
    PROVE  /\ EventSet(pending) \subseteq 1 .. Len(log) - batch.n
           /\ EventSet(hand) \subseteq 1 .. Len(log) - batch.n
           /\ InBatch \subseteq 1 .. Len(log)
           /\ EventSet(pending) \cap EventSet(hand) = {}
           /\ EventSet(pending) \cap InBatch = {}
           /\ EventSet(hand) \cap InBatch = {}
<1>1. /\ Len(log) \in Nat /\ batch.n \in Nat /\ batch.n <= Len(log)
      /\ pending \in Seq(Units) /\ hand \in Seq(Units)
  BY DEF TypeOK, MemoryInOrder
<1>2. \A u \in Units : u.first \in Nat /\ u.last \in Nat
  BY DEF Units
<1>3. ASSUME NEW x \in EventSet(pending)
      PROVE  \E i \in DOMAIN pending :
               /\ x \in pending[i].first .. pending[i].last
               /\ pending[i] \in Units
  BY <1>1, <1>3 DEF EventSet
<1>4. ASSUME NEW x \in EventSet(hand)
      PROVE  \E h \in DOMAIN hand :
               /\ x \in hand[h].first .. hand[h].last
               /\ hand[h] \in Units
  BY <1>1, <1>4 DEF EventSet
<1>5. ASSUME NEW x \in EventSet(pending)
      PROVE  x \in 1 .. Len(log) - batch.n /\ x \notin EventSet(hand)
  <2>1. PICK i \in DOMAIN pending :
          x \in pending[i].first .. pending[i].last /\ pending[i] \in Units
    BY <1>3
  <2>2. /\ pending[i].first \in 1 .. pending[i].last
        /\ pending[i].last <= Len(log) - batch.n
        /\ \A h \in DOMAIN hand : pending[i].last < hand[h].first
    BY DEF MemoryInOrder
  <2>3. pending[i].first \in Nat /\ pending[i].last \in Nat
    BY <1>2, <2>1
  <2>4. x \in 1 .. Len(log) - batch.n
    BY <1>1, <2>1, <2>2, <2>3
  <2>5. ASSUME x \in EventSet(hand) PROVE FALSE
    <3>1. PICK h \in DOMAIN hand :
            x \in hand[h].first .. hand[h].last /\ hand[h] \in Units
      BY <1>4, <2>5
    <3>2. pending[i].last < hand[h].first /\ hand[h].first \in Nat
      BY <1>2, <2>2, <3>1
    <3> QED
      BY <2>1, <2>3, <3>1, <3>2
  <2> QED
    BY <2>4, <2>5
<1>6. ASSUME NEW x \in EventSet(hand) PROVE x \in 1 .. Len(log) - batch.n
  <2>1. PICK h \in DOMAIN hand :
          x \in hand[h].first .. hand[h].last /\ hand[h] \in Units
    BY <1>4
  <2>2. /\ hand[h].first \in 1 .. hand[h].last
        /\ hand[h].last <= Len(log) - batch.n
    BY DEF MemoryInOrder
  <2>3. hand[h].first \in Nat /\ hand[h].last \in Nat
    BY <1>2, <2>1
  <2> QED
    BY <1>1, <2>1, <2>2, <2>3
<1>7. \A x \in InBatch : x \in 1 .. Len(log) /\ x \notin 1 .. Len(log) - batch.n
  BY <1>1 DEF InBatch
<1> QED
  BY <1>5, <1>6, <1>7

\* No unit, no event.
LEMMA NoUnits == ASSUME NEW s, s = <<>> PROVE EventSet(s) = {}
BY DEF EventSet

\* One unit has the events it spans ...
LEMMA SingleUnit ==
    ASSUME NEW u
    PROVE  EventSet(<<u>>) = u.first .. u.last
<1>1. DOMAIN <<u>> = {1} /\ <<u>>[1] = u
  OBVIOUS
<1> QED
  BY <1>1, Zenon DEF EventSet

\* ... and a sequence of one unit those of that unit.
LEMMA OneUnit ==
    ASSUME NEW s \in Seq(Units), Len(s) = 1
    PROVE  s[1] \in Units /\ EventSet(s) = s[1].first .. s[1].last
<1>1. DOMAIN s = {1} /\ s[1] \in Units
  <2>1. DOMAIN s = 1 .. 1
    OBVIOUS
  <2>2. 1 .. 1 = {1}
    OBVIOUS
  <2> QED
    BY <2>1, <2>2
<1> QED
  BY <1>1, Zenon DEF EventSet

\* A unit appended brings no events but its own.
LEMMA AppendedUnit ==
    ASSUME NEW s \in Seq(Units), NEW u
    PROVE  EventSet(Append(s, u)) \subseteq EventSet(s) \cup (u.first .. u.last)
<1> SUFFICES ASSUME NEW i \in DOMAIN Append(s, u),
                    NEW x \in Append(s, u)[i].first .. Append(s, u)[i].last
             PROVE  x \in EventSet(s) \cup (u.first .. u.last)
  BY DEF EventSet
<1>1. (i \in DOMAIN s /\ Append(s, u)[i] = s[i]) \/ Append(s, u)[i] = u
  OBVIOUS
<1> QED
  BY <1>1 DEF EventSet

\* What is left after the first unit brings none.
LEMMA TailUnits ==
    ASSUME NEW s \in Seq(Units), s # <<>>
    PROVE  EventSet(Tail(s)) \subseteq EventSet(s)
<1> SUFFICES ASSUME NEW i \in DOMAIN Tail(s),
                    NEW x \in Tail(s)[i].first .. Tail(s)[i].last
             PROVE  x \in EventSet(s)
  BY DEF EventSet
<1>1. i + 1 \in DOMAIN s /\ Tail(s)[i] = s[i + 1]
  OBVIOUS
<1> QED
  BY <1>1 DEF EventSet

\* Giving up events that were still held, and counting them.
LEMMA GiveUpCounts ==
    ASSUME LostIsGone, DropsAreCounted, Len(log) \in Nat,
           NEW ids \in SUBSET (1 .. Len(log)), ids \subseteq InMemory,
           NEW n, n = Cardinality(ids), GiveUp(ids, n)
    PROVE  /\ DropsAreCounted' /\ lost' \subseteq 1 .. Len(log)
           /\ lost' = lost \cup ids
<1>1. IsFiniteSet(1 .. Len(log))
  BY FS_Interval
<1>2. IsFiniteSet(lost) /\ IsFiniteSet(ids)
  BY <1>1, FS_Subset DEF LostIsGone
<1>3. lost \cap ids = {}
  BY DEF LostIsGone
<1>4. Cardinality(lost) \in Nat /\ Cardinality(ids) \in Nat
  BY <1>2, FS_CardinalityType
<1>5. Cardinality(lost \cup ids) = Cardinality(lost) + Cardinality(ids)
  <2>1. Cardinality(lost \cup ids) =
          Cardinality(lost) + Cardinality(ids) - Cardinality(lost \cap ids)
    BY <1>2, FS_Union
  <2>2. Cardinality(lost \cap ids) = 0
    BY <1>3, FS_EmptySet
  <2> QED
    BY <1>4, <2>1, <2>2
<1>6. lost' = lost \cup ids /\ dropped' = dropped + n
  BY DEF GiveUp
<1>7. lost' \subseteq 1 .. Len(log)
  BY <1>6 DEF LostIsGone
<1> QED
  BY <1>5, <1>6, <1>7 DEF DropsAreCounted

\* Nothing is lost, nor counted, while memory only shrinks by what reached the file.
LEMMA LossUnchanged ==
    ASSUME TypeOK, LostIsGone, DropsAreCounted, UNCHANGED <<lost, dropped>>,
           log' = log, InMemory' \subseteq InMemory
    PROVE  LostIsGone' /\ DropsAreCounted'
BY DEF LostIsGone, DropsAreCounted

\* What is given up leaves memory at the same step, and is counted once.
LEMMA LossStep ==
    ASSUME TypeOK, ControlInv, MemoryInOrder, LostIsGone, DropsAreCounted,
           [Next]_vars
    PROVE  LostIsGone' /\ DropsAreCounted'
<1>0. /\ Len(log) \in Nat /\ batch.n \in Nat /\ batch.n <= Len(log)
      /\ log \in Seq(Events) /\ pending \in Seq(Units) /\ hand \in Seq(Units)
  BY DEF TypeOK, MemoryInOrder
<1>e. EmptyBatch.n = 0 /\ \A n \in Nat : n + 1 .. n = {}
  BY DEF EmptyBatch
<1>h. pc \notin {"room", "enqueue"} => hand = <<>>
  BY <1>0 DEF ControlInv
<1>1. CASE Push
  <2>1. arg[1] \in Events /\ PushedBatch(arg[1]).n = batch.n + 1
    BY <1>1, PushedEvent, PushedBatchType DEF Push
  <2>2. /\ log' = Append(log, arg[1]) /\ batch' = PushedBatch(arg[1])
        /\ UNCHANGED <<hand, pending, lost, dropped>>
    BY <1>1 DEF Push, appender
  <2>3. Len(log') = Len(log) + 1 /\ batch'.n = batch.n + 1
    BY <1>0, <2>1, <2>2
  <2>4. Len(log') - batch'.n + 1 = Len(log) - batch.n + 1
    <3>1. Len(log) \in Nat /\ batch.n \in Nat
      BY <1>0
    <3> QED
      BY <2>3, <3>1
  <2>5. InBatch' \subseteq InBatch \cup {Len(log) + 1}
    BY <1>0, <2>3, <2>4 DEF InBatch
  <2>6. InMemory' \subseteq InMemory \cup {Len(log) + 1}
    BY <2>2, <2>5 DEF InMemory, EventSet
  <2>7. Len(log) + 1 \notin lost /\ lost \subseteq 1 .. Len(log')
    BY <1>0, <2>3 DEF LostIsGone
  <2> QED
    BY <2>2, <2>6, <2>7 DEF LostIsGone, DropsAreCounted
<1>2. ASSUME NEW n \in FrameLens, SealUnit(n)
      PROVE  LostIsGone' /\ DropsAreCounted'
  <2>1. /\ hand = <<>> /\ hand' = <<SealedUnit(n)>> /\ batch'.n = 0
        /\ UNCHANGED <<pending, log, lost, dropped>>
    BY <1>2, <1>e, <1>h DEF SealUnit, appender, history
  <2>2. EventSet(hand') \subseteq InBatch
    <3> DEFINE u == SealedUnit(n)
    <3>1. u.first .. u.last = InBatch
      BY DEF SealedUnit, InBatch
    <3> HIDE DEF u
    <3>2. EventSet(<<u>>) = u.first .. u.last
      BY SingleUnit
    <3>3. EventSet(hand') = EventSet(<<u>>)
      BY <2>1 DEF u
    <3> QED
      BY <3>1, <3>2, <3>3
  <2>3. InBatch' = {}
    BY <1>0, <1>e, <2>1 DEF InBatch
  <2>4. InMemory' \subseteq InMemory
    BY <2>1, <2>2, <2>3 DEF InMemory, EventSet
  <2> QED
    BY <2>1, <2>4, LossUnchanged
<1>3. ASSUME NEW n \in FrameLens, SealFails(n)
      PROVE  LostIsGone' /\ DropsAreCounted'
  <2>1. /\ GiveUp(InBatch, batch.n) /\ batch'.n = 0
        /\ UNCHANGED <<hand, pending, log>>
    BY <1>3, <1>e DEF SealFails, appender
  <2>2. Cardinality(InBatch) = batch.n
    <3>1. Len(log) - batch.n + 1 \in Int /\ Len(log) \in Int
      BY <1>0
    <3>2. Cardinality(InBatch) =
            IF Len(log) - batch.n + 1 > Len(log) THEN 0
            ELSE Len(log) - (Len(log) - batch.n + 1) + 1
      BY <3>1, FS_Interval DEF InBatch
    <3> QED
      BY <1>0, <3>2
  <2>3. InBatch \subseteq InMemory /\ InBatch \in SUBSET (1 .. Len(log))
    BY MemoryFacts DEF InMemory
  <2>4. /\ DropsAreCounted' /\ lost' \subseteq 1 .. Len(log)
        /\ lost' = lost \cup InBatch
    BY <1>0, <2>1, <2>2, <2>3, GiveUpCounts
  <2>5. InBatch' = {}
    BY <1>0, <1>e, <2>1 DEF InBatch
  <2>6. InMemory' \subseteq InMemory /\ InMemory' \cap InBatch = {}
    BY <2>1, <2>5, MemoryFacts DEF InMemory, EventSet
  <2> QED
    BY <2>1, <2>4, <2>6 DEF LostIsGone
<1>4. CASE Enqueue
  <2> DEFINE u == hand[1]
             ids == u.first .. u.last
  <2>1. hand' = <<>> /\ UNCHANGED <<batch, log>>
    BY <1>4 DEF Enqueue
  <2>2. Len(hand) = 1
    <3>1. pc = "enqueue"
      BY <1>4 DEF Enqueue
    <3> QED
      BY <3>1 DEF ControlInv
  <2>3. u \in Units /\ EventSet(hand) = ids
    BY <1>0, <2>2, OneUnit
  <2>4. EventSet(hand') = {}
    BY <2>1, NoUnits
  <2>5. InBatch' = InBatch
    BY <2>1 DEF InBatch
  <2>6. CASE BacklogFull(u)
    <3>1. GiveUp(ids, Count(u)) /\ UNCHANGED pending
      BY <1>4, <2>6 DEF Enqueue
    <3>2. u.first \in Nat /\ u.last \in Nat /\ u.first <= u.last
      <4>1. \A v \in Units : v.first \in Nat /\ v.last \in Nat
        BY DEF Units
      <4>2. u.first \in 1 .. u.last
        BY <1>0, <2>2 DEF MemoryInOrder
      <4> QED
        BY <2>3, <4>1, <4>2
    <3>3. Count(u) = Cardinality(ids)
      <4>1. /\ u.first \in Int /\ u.last \in Int /\ ~(u.first > u.last)
            /\ Count(u) = u.last - u.first + 1
        BY <3>2 DEF Count
      <4> HIDE DEF u
      <4> QED
        BY <4>1, FS_Interval
    <3>4. ids \subseteq InMemory
      BY <2>3 DEF InMemory
    <3>5. ids \in SUBSET (1 .. Len(log))
      <4>1. Len(log) - batch.n \in Nat /\ Len(log) - batch.n <= Len(log)
        BY <1>0
      <4>2. 1 .. Len(log) - batch.n \subseteq 1 .. Len(log)
        BY <1>0, <4>1
      <4> QED
        BY <2>3, <4>2, MemoryFacts
    <3>6. /\ DropsAreCounted' /\ lost' \subseteq 1 .. Len(log)
          /\ lost' = lost \cup ids
      BY <1>0, <3>1, <3>3, <3>4, <3>5, GiveUpCounts
    <3>7. InMemory' = EventSet(pending) \cup InBatch
      BY <2>4, <2>5, <3>1 DEF InMemory, EventSet
    <3>8. InMemory' \subseteq InMemory /\ InMemory' \cap ids = {}
      BY <2>3, <3>7, MemoryFacts DEF InMemory
    <3> QED
      BY <2>1, <3>6, <3>8 DEF LostIsGone
  <2>7. CASE ~BacklogFull(u)
    <3>1. pending' = Append(pending, u) /\ UNCHANGED <<lost, dropped>>
      BY <1>4, <2>7 DEF Enqueue, Queued
    <3>2. EventSet(pending') \subseteq EventSet(pending) \cup EventSet(hand)
      BY <1>0, <2>3, <3>1, AppendedUnit
    <3>3. InMemory' \subseteq InMemory
      BY <2>4, <2>5, <3>2 DEF InMemory, EventSet
    <3> QED
      BY <2>1, <3>1, <3>3, LossUnchanged
  <2> QED
    BY <2>6, <2>7
<1>5. CASE DrainUnit
  <2>1. /\ pending # <<>> /\ pending' = Tail(pending)
        /\ UNCHANGED <<batch, hand, log, lost, dropped>>
    BY <1>5 DEF DrainUnit, history
  <2>2. EventSet(pending') \subseteq EventSet(pending)
    BY <1>0, <2>1, TailUnits
  <2>3. InMemory' \subseteq InMemory
    BY <2>1, <2>2 DEF InMemory, InBatch, EventSet
  <2> QED
    BY <2>1, <2>3, LossUnchanged
<1>6. CASE DrainDone \/ DrainFails
  <2>1. UNCHANGED <<batch, hand, log>>
    BY <1>6 DEF DrainDone, DrainFails
  <2>2. \/ UNCHANGED <<pending, lost, dropped>>
        \/ /\ pending' = <<>>
           /\ GiveUp(EventSet(pending), Cardinality(EventSet(pending)))
    BY <1>6 DEF DrainDone, DrainFails, AfterDrain
  <2>3. CASE UNCHANGED <<pending, lost, dropped>>
    <3>1. InMemory' \subseteq InMemory
      BY <2>1, <2>3 DEF InMemory, InBatch, EventSet
    <3> QED
      BY <2>1, <2>3, <3>1, LossUnchanged
  <2>4. CASE /\ pending' = <<>>
             /\ GiveUp(EventSet(pending), Cardinality(EventSet(pending)))
    <3> DEFINE ids == EventSet(pending)
    <3>1. ids \subseteq InMemory
      BY DEF InMemory
    <3>2. ids \in SUBSET (1 .. Len(log))
      <4>1. 1 .. Len(log) - batch.n \subseteq 1 .. Len(log)
        BY <1>0
      <4> QED
        BY <4>1, MemoryFacts
    <3>3. /\ DropsAreCounted' /\ lost' \subseteq 1 .. Len(log)
          /\ lost' = lost \cup ids
      BY <1>0, <2>4, <3>1, <3>2, GiveUpCounts
    <3>4. EventSet(pending') = {}
      BY <2>4, NoUnits
    <3>5. InMemory' = EventSet(hand) \cup InBatch
      BY <2>1, <3>4 DEF InMemory, InBatch, EventSet
    <3>6. InMemory' \subseteq InMemory /\ InMemory' \cap ids = {}
      BY <3>5, MemoryFacts DEF InMemory
    <3> QED
      BY <2>1, <3>3, <3>6 DEF LostIsGone
  <2> QED
    BY <2>2, <2>3, <2>4
<1>7. CASE Crash
  <2>1. /\ batch'.n = 0 /\ hand' = <<>> /\ pending' = <<>>
        /\ UNCHANGED <<log, lost, dropped>>
    BY <1>7, <1>e DEF Crash, history
  <2>2. InBatch' = {} /\ EventSet(hand') = {} /\ EventSet(pending') = {}
    BY <1>0, <1>e, <2>1, NoUnits DEF InBatch
  <2>3. InMemory' = {}
    BY <2>2 DEF InMemory
  <2> QED
    BY <2>1, <2>3, LossUnchanged
<1>8. CASE UNCHANGED <<batch, hand, pending, log, lost, dropped>>
  <2>1. InMemory' \subseteq InMemory
    BY <1>8 DEF InMemory, InBatch, EventSet
  <2> QED
    BY <1>8, <2>1, LossUnchanged
<1> QED
  BY <1>1, <1>2, <1>3, <1>4, <1>5, <1>6, <1>7, <1>8
     DEF Next, WriteEvent, Seal, SealNothing, Drain, Flush, Finalize, Finish,
         WriteFooter, FooterFails, WriteMeta, MetaFails, DiskRefuses,
         DiskRecovers, vars, appender, history

-----------------------------------------------------------------------------
(* The end of a session, the error, the torn tail and the index.           *)

\* A footer or a metadata file is written only when no unit waits.
LEMMA EndStep ==
    ASSUME ControlInv, [Next]_vars
    PROVE  pc' \in {"footer", "meta", "closed"} => pending' = <<>>
<1>1. CASE Push \/ DrainUnit \/ Crash \/ \E e \in Events : WriteEvent(e)
  BY <1>1 DEF Push, DrainUnit, Crash, WriteEvent, Return, Draining, control
<1>2. CASE Seal \/ Flush \/ Finalize
  BY <1>2 DEF Seal, SealUnit, SealFails, SealNothing, Enqueue, AfterSeal,
              Return, GoTo, Flush, Finalize
<1>3. CASE DrainDone \/ DrainFails
  BY <1>3 DEF DrainDone, DrainFails, AfterDrain, GoTo, Return
<1>4. CASE Finish
  <2>1. pc \in {"footer", "meta"} /\ pending' = pending
    BY <1>4 DEF Finish, WriteFooter, FooterFails, WriteMeta, MetaFails,
                appender
  <2> QED
    BY <2>1 DEF ControlInv
<1>5. CASE DiskRefuses \/ DiskRecovers \/ UNCHANGED vars
  BY <1>5 DEF ControlInv, DiskRefuses, DiskRecovers, vars, control, appender
<1> QED
  BY <1>1, <1>2, <1>3, <1>4, <1>5 DEF Next, Drain

\* Between two drains the storage error says exactly whether units wait.
LEMMA ErrorStep ==
    ASSUME TypeOK, ErrorInv, [Next]_vars
    PROVE  ErrorInv'
<1>1. CASE \/ Push \/ Flush \/ DiskRefuses \/ DiskRecovers \/ UNCHANGED vars
           \/ Finalize \/ SealNothing
           \/ \E e \in Events : WriteEvent(e)
           \/ \E n \in FrameLens : SealUnit(n) \/ SealFails(n)
  <2>1. /\ UNCHANGED <<lastError, pending>>
        /\ pc' = pc \/ pc \in {"idle", "push", "seal"}
    BY <1>1 DEF Push, Flush, DiskRefuses, DiskRecovers, vars, control,
                Finalize, SealNothing, WriteEvent, SealUnit, SealFails,
                appender
  <2> QED
    BY <1>1, <2>1 DEF ErrorInv
<1>2. CASE Enqueue
  <2>1. pc = "enqueue" /\ lastError' = lastError /\ pc' \in {"idle", "drain"}
    BY <1>2 DEF Enqueue, AfterSeal, Return
  <2>2. CASE BacklogFull(hand[1])
    BY <1>2, <2>1, <2>2 DEF Enqueue, ErrorInv
  <2>3. CASE ~BacklogFull(hand[1])
    BY <1>2, <2>1, <2>3 DEF Enqueue, AfterSeal, ErrorInv
  <2> QED
    BY <2>2, <2>3
<1>3. CASE DrainUnit
  BY <1>3 DEF DrainUnit, Draining, control, ErrorInv
<1>4. CASE DrainDone
  <2>1. lastError' = FALSE /\ pending = <<>>
    BY <1>4 DEF DrainDone
  <2>2. pending' = <<>>
    BY <1>4, <2>1 DEF DrainDone, AfterDrain
  <2> QED
    BY <2>1, <2>2 DEF ErrorInv
<1>5. CASE DrainFails
  <2>1. lastError' = TRUE /\ pending # <<>>
    BY <1>5 DEF DrainFails
  <2>2. pending' = pending \/ pc' = "meta"
    BY <1>5 DEF DrainFails, AfterDrain
  <2> QED
    BY <2>1, <2>2 DEF ErrorInv
<1>6. CASE Finish \/ Crash
  <2>1. pc' \in {"meta", "closed", "crashed"}
    BY <1>6 DEF Finish, Crash, WriteFooter, FooterFails, WriteMeta, MetaFails,
                GoTo, Closed
  <2> QED
    BY <2>1 DEF ErrorInv
<1> QED
  BY <1>1, <1>2, <1>3, <1>4, <1>5, <1>6 DEF Next, Seal, Drain

\* A torn tail is always followed by a retry of the same unit at the same cursor.
LEMMA TornTailStep ==
    ASSUME TypeOK, ControlInv, CursorInFile, TornTailIsOverwritten,
           [Next]_vars
    PROVE  TornTailIsOverwritten'
<1>0. /\ pending \in Seq(Units) /\ cursor \in Nat /\ Len(file) \in Nat
      /\ cursor <= Len(file)
  BY DEF TypeOK, CursorInFile
<1>1. CASE \/ Finish \/ Crash
  <2>1. pc' \in {"meta", "closed", "crashed"}
    BY <1>1 DEF Finish, Crash, WriteFooter, FooterFails, WriteMeta, MetaFails,
                GoTo, Closed
  <2> QED
    BY <2>1 DEF TornTailIsOverwritten, Running
<1>2. CASE Enqueue
  <2>1. UNCHANGED <<file, cursor>> /\ pc = "enqueue"
    BY <1>2 DEF Enqueue
  <2>2. pending # <<>> => pending' # <<>> /\ Head(pending') = Head(pending)
    <3>1. hand \in Seq(Units) /\ Len(hand) = 1
      BY <2>1 DEF TypeOK, ControlInv
    <3>2. hand[1] \in Units
      BY <3>1
    <3>3. pending' = pending \/ pending' = Append(pending, hand[1])
      BY <1>2 DEF Enqueue, Queued
    <3>4. CASE pending' = pending
      BY <3>4
    <3>5. CASE pending' = Append(pending, hand[1])
      BY <1>0, <3>2, <3>5
    <3> QED
      BY <3>3, <3>4, <3>5
  <2> QED
    BY <2>1, <2>2 DEF TornTailIsOverwritten, Running, Size, PrefixLen
<1>3. CASE DrainUnit
  <2> DEFINE u == Head(pending)
  <2>1. /\ pending # <<>> /\ Draining /\ cursor' = cursor + Size(u)
        /\ file' = Overwrite(file, cursor, CellsOf(u))
    BY <1>3 DEF DrainUnit
  <2>2. /\ Size(u) \in Nat
        /\ Len(file') = IF Len(file) > cursor + Size(u)
                        THEN Len(file) ELSE cursor + Size(u)
    BY <2>1, DrainedFile
  <2>3. Len(file) > cursor => Len(file) < cursor + Size(u)
    BY <2>1 DEF TornTailIsOverwritten, Running, Draining
  <2> HIDE DEF u
  <2>4. Len(file') = cursor'
    BY <1>0, <2>1, <2>2, <2>3
  <2>5. ~(Len(file') > cursor')
    BY <1>0, <2>1, <2>2, <2>4
  <2> QED
    BY <2>5 DEF TornTailIsOverwritten
<1>4. CASE DrainFails
  <2> DEFINE u == Head(pending)
  <2>1. /\ pending # <<>> /\ Draining /\ cursor' = cursor
        /\ file' \in Torn(CellsOf(u))
        /\ pending' = pending \/ pc' = "meta"
    BY <1>4 DEF DrainFails, AfterDrain
  <2>2. u \in Units
    BY <1>0, <2>1
  <2>3. Len(file) > cursor => Len(file) < cursor + Size(u)
    BY <2>1 DEF TornTailIsOverwritten, Running, Draining
  <2> HIDE DEF u
  <2>4. CellsOf(u) \in Seq(Cells) /\ Len(CellsOf(u)) = Size(u) /\ Size(u) \in Nat
    BY <2>2, UnitCells
  <2>5. /\ KeepsUnits(file')
        /\ \/ Len(file') = cursor
           \/ Len(file') <= Len(file)
           \/ Len(file') < cursor + Size(u)
    BY <2>1, <2>4, TornKeepsUnits
  <2>6. Len(file') \in Nat
    BY <2>5 DEF KeepsUnits
  <2>7. Len(file') > cursor => Len(file') < cursor + Size(u)
    BY <1>0, <2>3, <2>4, <2>5, <2>6
  <2>8. CASE pc' = "meta"
    BY <2>8 DEF TornTailIsOverwritten
  <2>9. CASE pending' = pending
    BY <2>1, <2>7, <2>9 DEF TornTailIsOverwritten, Size, PrefixLen, u
  <2> QED
    BY <2>1, <2>8, <2>9
<1>5. CASE DrainDone
  <2>1. pending = <<>> /\ Draining /\ UNCHANGED <<file, cursor>>
    BY <1>5 DEF DrainDone
  <2>2. ~(Len(file) > cursor)
    BY <2>1 DEF TornTailIsOverwritten, Running, Draining
  <2> QED
    BY <2>1, <2>2 DEF TornTailIsOverwritten
<1>6. CASE /\ UNCHANGED <<file, cursor, pending>>
           /\ (Running /\ pc # "meta") \/ pc' = pc
  BY <1>6 DEF TornTailIsOverwritten, Running, Size, PrefixLen
<1> QED
  BY <1>1, <1>2, <1>3, <1>4, <1>5, <1>6
     DEF Next, WriteEvent, Push, Seal, SealUnit, SealFails, SealNothing,
         Drain, Flush, Finalize, DiskRefuses, DiskRecovers, vars, appender,
         control, Running

\* An indexed chunk stays whole whatever is written from the cursor on.
LEMMA EntryKept ==
    ASSUME TypeOK, CursorInFile, NEW F, KeepsUnits(F),
           NEW e \in Entries, e.frameLen > 0,
           EntryReadable(file, e, cursor),
           Entry(file[e.offset + PrefixLen + 1].u, e.offset) = e,
           NEW c \in Nat, c >= cursor
    PROVE  /\ EntryReadable(F, e, c)
           /\ Entry(F[e.offset + PrefixLen + 1].u, e.offset) = e
<1> DEFINE p == e.offset + PrefixLen + 1
           u == file[p].u
<1>1. /\ e.offset \in Nat /\ e.frameLen \in Nat /\ PrefixLen \in Nat
      /\ cursor \in Nat /\ HeadLen \in Nat
  BY DEF Entries, PrefixLen, HeadLen, TypeOK
<1>2. u.frameLen = e.frameLen
  BY DEF Entry
<1>3. /\ e.offset >= HeadLen /\ e.offset + PrefixLen + e.frameLen <= cursor
      /\ FrameOpens(file, p)
      /\ \A i \in 1 .. u.frameLen : file[p + i - 1] = UnitCell(u, PrefixLen + i)
  BY DEF EntryReadable, WholeFrame
<1>4. \A i \in 1 .. u.frameLen : p + i - 1 \in 1 .. cursor
  BY <1>1, <1>2, <1>3
<1>5. p \in 1 .. cursor /\ p + u.frameLen - 1 <= e.offset + PrefixLen + e.frameLen
  BY <1>1, <1>2, <1>3
<1>6. \A i \in 1 .. cursor : F[i] = file[i]
  BY DEF KeepsUnits
<1>7. Len(F) \in Nat /\ Len(F) >= cursor
  BY DEF KeepsUnits
<1>8. F[p] = file[p] /\ F[p].u = u
  BY <1>5, <1>6
<1>9. FrameOpens(F, p)
  <2>1. p \in 1 .. Len(F)
    BY <1>1, <1>5, <1>7
  <2> QED
    BY <1>3, <1>8, <2>1 DEF FrameOpens
<1>10. \A i \in 1 .. u.frameLen : F[p + i - 1] = UnitCell(u, PrefixLen + i)
  BY <1>3, <1>4, <1>6
<1>11. WholeFrame(F, p, e.offset + PrefixLen + e.frameLen)
  BY <1>5, <1>8, <1>9, <1>10 DEF WholeFrame
<1>12. e.offset + PrefixLen + e.frameLen <= c
  BY <1>1, <1>3
<1>13. EntryReadable(F, e, c)
  BY <1>3, <1>11, <1>12 DEF EntryReadable
<1> QED
  BY <1>8, <1>13

\* The entry of the chunk that drain has just written.
LEMMA EntryAdded ==
    ASSUME TypeOK, CursorInFile, MemoryInOrder, Chunked, DrainUnit
    PROVE  LET e == Entry(Head(pending), cursor)
           IN  /\ e.frameLen > 0
               /\ EntryReadable(file', e, cursor')
               /\ Entry(file'[e.offset + PrefixLen + 1].u, e.offset) = e
<1> DEFINE u == Head(pending)
           e == Entry(u, cursor)
           p == cursor + 2
<1>1. /\ pending # <<>> /\ file' = Overwrite(file, cursor, CellsOf(u))
      /\ cursor' = cursor + Size(u)
  BY DEF DrainUnit
<1>2. /\ u \in Units /\ u = pending[1] /\ Size(u) \in Nat
      /\ file' \in Seq(Cells)
      /\ Len(file') = IF Len(file) > cursor + Size(u)
                      THEN Len(file) ELSE cursor + Size(u)
      /\ \A k \in 1 .. Size(u) : file'[cursor + k] = UnitCell(u, k)
  BY <1>1, DrainedFile DEF KeepsUnits
<1>3. u.frameLen > 0 /\ u.frameLen \in Nat
  <2>1. 1 \in DOMAIN pending
    BY <1>1 DEF TypeOK
  <2>2. pending[1].frameLen > 0
    BY <2>1 DEF MemoryInOrder
  <2>3. \A v \in Units : v.frameLen \in Nat
    BY DEF Units
  <2> QED
    BY <1>2, <2>2, <2>3
<1>4. PrefixLen = 1 /\ HeadLen = 1 /\ Size(u) = 1 + u.frameLen
  BY DEF PrefixLen, HeadLen, Size
<1>5. e.offset = cursor /\ e.frameLen = u.frameLen
  BY DEF Entry
<1> HIDE DEF u, e
<1>6. cursor \in Nat /\ cursor >= HeadLen /\ Len(file) \in Nat
  BY DEF TypeOK, CursorInFile
<1>7. /\ Len(file') \in Nat /\ Len(file') >= cursor + Size(u)
      /\ p \in 1 .. Len(file')
  <2>1. Len(file') \in Nat
    BY <1>2
  <2>2. Len(file') = IF Len(file) > cursor + Size(u)
                     THEN Len(file) ELSE cursor + Size(u)
    BY <1>2
  <2>3. Len(file') >= cursor + Size(u)
    BY <2>1, <2>2, <1>3, <1>4, <1>6
  <2> QED
    BY <2>1, <2>3, <1>3, <1>4, <1>6
<1>8. \A i \in 1 .. u.frameLen : /\ 1 + i \in 1 .. Size(u)
                                 /\ p + i - 1 = cursor + (1 + i)
  BY <1>3, <1>4, <1>6
<1>9. \A i \in 1 .. u.frameLen : file'[p + i - 1] = UnitCell(u, 1 + i)
  BY <1>2, <1>8
<1>10. file'[p] = UnitCell(u, 2)
  <2>1. 2 \in 1 .. Size(u)
    BY <1>3, <1>4
  <2> QED
    BY <1>2, <2>1
<1>11. file'[p].kind = "unit" /\ file'[p].k = 2 /\ file'[p].u = u
  BY <1>10 DEF UnitCell
<1>12. p + u.frameLen - 1 <= cursor + 1 + u.frameLen
  BY <1>3, <1>6
<1>13. WholeFrame(file', p, cursor + 1 + u.frameLen)
  BY <1>4, <1>7, <1>9, <1>11, <1>12 DEF WholeFrame, FrameOpens
<1>14. e.offset + PrefixLen + 1 = p
  BY <1>4, <1>5, <1>6
<1>15. cursor + 1 + u.frameLen <= cursor'
  BY <1>1, <1>3, <1>4, <1>6
<1>16. EntryReadable(file', e, cursor')
  BY <1>4, <1>5, <1>6, <1>13, <1>14, <1>15 DEF EntryReadable
<1>17. Entry(file'[e.offset + PrefixLen + 1].u, e.offset) = e
  BY <1>5, <1>11, <1>14 DEF e
<1> QED
  BY <1>3, <1>5, <1>16, <1>17 DEF e, u

IndexInv == IndexIsExact /\ IndexedFrames

\* The index describes the chunks of the file: writes at the cursor pass none of them.
LEMMA IndexStep ==
    ASSUME TypeOK, CursorInFile, MemoryInOrder, IndexInv, [Next]_vars
    PROVE  IndexInv'
<1>1. KeepsUnits(file') /\ index \in Seq(Entries) /\ cursor \in Nat
  BY FileStep DEF TypeOK
<1>2. ASSUME NEW i \in DOMAIN index, NEW c \in Nat, c >= cursor
      PROVE  /\ index[i].frameLen > 0
             /\ EntryReadable(file', index[i], c)
             /\ Entry(file'[index[i].offset + PrefixLen + 1].u,
                      index[i].offset) = index[i]
  <2>1. index[i] \in Entries
    BY <1>1
  <2>2. /\ index[i].frameLen > 0
        /\ EntryReadable(file, index[i], cursor)
        /\ Entry(file[index[i].offset + PrefixLen + 1].u,
                 index[i].offset) = index[i]
    BY DEF IndexInv, IndexIsExact, IndexedFrames
  <2> QED
    BY <1>1, <1>2, <2>1, <2>2, EntryKept
<1>3. CASE UNCHANGED <<index, cursor>>
  <2>1. cursor >= cursor
    BY <1>1
  <2>2. \A i \in DOMAIN index :
          /\ index[i].frameLen > 0
          /\ EntryReadable(file', index[i], cursor)
          /\ Entry(file'[index[i].offset + PrefixLen + 1].u,
                   index[i].offset) = index[i]
    BY <1>1, <1>2, <2>1
  <2> QED
    BY <1>3, <2>2 DEF IndexInv, IndexIsExact, IndexedFrames, EntryReadable,
                      HeadLen, PrefixLen, WholeFrame, FrameOpens, UnitCell,
                      Entry, Count
<1>4. CASE DrainUnit
  <2> DEFINE u == Head(pending)
             e == Entry(u, cursor)
  <2>1. /\ index' = IF Chunked THEN Append(index, e) ELSE index
        /\ cursor' = cursor + Size(u) /\ pending # <<>>
    BY <1>4 DEF DrainUnit
  <2>2. Size(u) \in Nat
    BY <2>1, DrainedFile
  <2>3. cursor' \in Nat /\ cursor' >= cursor
    BY <1>1, <2>1, <2>2
  <2>4. \A i \in DOMAIN index :
          /\ index[i].frameLen > 0
          /\ EntryReadable(file', index[i], cursor')
          /\ Entry(file'[index[i].offset + PrefixLen + 1].u,
                   index[i].offset) = index[i]
    BY <1>2, <2>3
  <2>5. Chunked => /\ e.frameLen > 0
                   /\ EntryReadable(file', e, cursor')
                   /\ Entry(file'[e.offset + PrefixLen + 1].u, e.offset) = e
    BY <1>4, EntryAdded
  <2> HIDE DEF e
  <2>6. \A i \in DOMAIN (index') :
          \/ i \in DOMAIN index /\ index'[i] = index[i]
          \/ Chunked /\ index'[i] = e
    BY <1>1, <2>1
  <2>7. \A i \in DOMAIN (index') :
          /\ index'[i].frameLen > 0
          /\ EntryReadable(file', index'[i], cursor')
          /\ Entry(file'[index'[i].offset + PrefixLen + 1].u,
                   index'[i].offset) = index'[i]
    BY <2>4, <2>5, <2>6
  <2> QED
    BY <2>7 DEF IndexInv, IndexIsExact, IndexedFrames, EntryReadable,
                HeadLen, PrefixLen, WholeFrame, FrameOpens, UnitCell, Entry,
                Count
<1> QED
  BY <1>3, <1>4
     DEF Next, WriteEvent, Push, Seal, SealUnit, SealFails, SealNothing,
         Enqueue, Drain, DrainDone, DrainFails, Flush, Finalize, Finish,
         WriteFooter, FooterFails, WriteMeta, MetaFails, DiskRefuses,
         DiskRecovers, Crash, vars, appender

-----------------------------------------------------------------------------
(* The history, the metadata and the disk; then the whole invariant.       *)

HistoryTypes ==
    /\ meta \in [count : Int, dropped : Nat]
    /\ disk \in {"ok", "refusing"} /\ outages \in 0 .. MaxOutages
    /\ log \in Seq(Events) /\ durable \subseteq Nat

\* Every step keeps the types of counters and history.
LEMMA HistoryStep ==
    ASSUME TypeOK, ControlInv, [Next]_vars
    PROVE  HistoryTypes'
<1>0. /\ HistoryTypes /\ written \in Nat /\ dropped \in Nat
      /\ Len(log) \in Nat /\ MaxOutages \in Nat /\ outages \in Nat
  BY WriterBounds DEF TypeOK, HistoryTypes
<1>1. CASE Push
  <2>1. arg[1] \in Events
    BY <1>1, PushedEvent DEF Push
  <2>2. log' = Append(log, arg[1]) /\ UNCHANGED <<meta, disk, outages, durable>>
    BY <1>1 DEF Push, environment
  <2>3. log' \in Seq(Events)
    BY <1>0, <2>1, <2>2 DEF HistoryTypes
  <2> QED
    BY <1>0, <2>2, <2>3 DEF HistoryTypes
<1>2. CASE DrainDone \/ DrainFails
  <2>1. UNCHANGED <<meta, disk, outages, log>>
    BY <1>2 DEF DrainDone, DrainFails, environment
  <2>2. \/ durable' = durable
        \/ durable' = (1 .. Len(log)) \ lost
    BY <1>2 DEF DrainDone, DrainFails, AfterDrain
  <2>3. durable' \subseteq Nat
    <3>1. durable \subseteq Nat /\ 1 .. Len(log) \subseteq Nat
      BY <1>0 DEF HistoryTypes
    <3> QED
      BY <2>2, <3>1
  <2> QED
    BY <1>0, <2>1, <2>3 DEF HistoryTypes
<1>3. CASE WriteMeta
  <2>1. UNCHANGED <<disk, outages, log, durable>>
    BY <1>3 DEF WriteMeta, environment, history
  <2>2. meta' = [count |-> written, dropped |-> dropped]
    BY <1>3 DEF WriteMeta
  <2>3. meta' \in [count : Int, dropped : Nat]
    BY <1>0, <2>2
  <2> QED
    BY <1>0, <2>1, <2>3 DEF HistoryTypes
<1>4. CASE DiskRefuses
  <2>1. /\ disk' = "refusing" /\ outages' = outages + 1
        /\ outages < MaxOutages /\ UNCHANGED <<meta, log, durable>>
    BY <1>4 DEF DiskRefuses, history
  <2>2. outages' \in 0 .. MaxOutages
    BY <1>0, <2>1
  <2> QED
    BY <1>0, <2>1, <2>2 DEF HistoryTypes
<1>5. CASE DiskRecovers
  BY <1>0, <1>5 DEF DiskRecovers, history, HistoryTypes
<1>6. CASE UNCHANGED <<meta, disk, outages, log, durable>>
  BY <1>0, <1>6 DEF HistoryTypes
<1> QED
  BY <1>1, <1>2, <1>3, <1>4, <1>5, <1>6
     DEF Next, WriteEvent, Seal, SealUnit, SealFails, SealNothing, Enqueue,
         Drain, DrainUnit, Flush, Finalize, Finish, WriteFooter, FooterFails,
         MetaFails, Crash, vars, environment, history

\* The invariant holds of an empty file ...
LEMMA InitInv == Init => Inv
<1> SUFFICES ASSUME Init PROVE Inv
  OBVIOUS
<1>0. /\ <<>> \in Seq(Units) /\ <<>> \in Seq(Entries) /\ <<>> \in Seq(Events)
      /\ DOMAIN <<>> = {} /\ Len(<<>>) = 0
  OBVIOUS
<1>1. HeadLen \in {0, 1}
  BY DEF HeadLen
<1>2. file \in Seq(Cells) /\ Len(file) = HeadLen
  <2>1. MagicCell \in Cells
    BY DEF MagicCell, Cells
  <2> QED
    BY <1>1, <2>1 DEF Init
<1>3. TypeOK
  <2>1. /\ [count |-> -1, dropped |-> 0] \in [count : Int, dropped : Nat]
        /\ 0 \in 0 .. MaxOutages
    BY WriterBounds
  <2>2. [op |-> "none", ok |-> TRUE, pushed |-> FALSE] \in Results
    BY Zenon DEF Results
  <2>3. result \in Results
    BY <2>2 DEF Init
  <2>6. batch \in [n : Nat, bytes : Nat, lo : Nat, hi : Nat,
                    sources : SUBSET Nat]
    <3>1. batch = EmptyBatch
      BY DEF Init
    <3> QED
      BY <3>1, EmptyBatchType
  <2>4. /\ hand \in Seq(Units) /\ pending \in Seq(Units) /\ pendingBytes \in Nat
        /\ cursor \in Nat /\ index \in Seq(Entries)
        /\ written \in Nat /\ dropped \in Nat /\ lastError \in BOOLEAN
    <3>1. hand = <<>> /\ pending = <<>> /\ index = <<>>
      BY DEF Init
    <3>2. cursor = HeadLen /\ pendingBytes = 0 /\ written = 0 /\ dropped = 0
      BY DEF Init
    <3>3. lastError = FALSE
      BY DEF Init
    <3>4. hand \in Seq(Units) /\ pending \in Seq(Units) /\ index \in Seq(Entries)
      BY Zenon, <1>0, <3>1
    <3>5. cursor \in Nat /\ pendingBytes \in Nat /\ written \in Nat /\ dropped \in Nat
      BY <1>1, <3>2
    <3> QED
      BY <3>3, <3>4, <3>5
  <2>5. /\ meta \in [count : Int, dropped : Nat]
        /\ pc = "idle" /\ call = "none" /\ arg \in Seq(Events)
        /\ failed \in BOOLEAN /\ disk = "ok" /\ outages \in 0 .. MaxOutages
        /\ log \in Seq(Events) /\ lost \subseteq Nat /\ durable \subseteq Nat
    BY <1>0, <2>1 DEF Init
  <2> QED
    BY <1>2, <2>3, <2>4, <2>5, <2>6 DEF TypeOK, Results
<1>4. ControlInv
  BY <1>0 DEF Init, ControlInv
<1>5. MemoryInOrder
  BY <1>0 DEF Init, MemoryInOrder, EmptyBatch
<1>6. BacklogSum
  <2> DEFINE g == [i \in 0 .. 0 |-> 0]
  <2>1. Len(pending) = 0 /\ pendingBytes = 0
    BY <1>0 DEF Init
  <2>2. g \in [0 .. 0 -> Nat] /\ g[0] = 0
        /\ \A i, j \in 0 .. 0 : i <= j => g[i] <= g[j]
    OBVIOUS
  <2> HIDE DEF g
  <2>3. /\ g \in [0 .. Len(pending) -> Nat]
        /\ g[0] = 0 /\ g[Len(pending)] = pendingBytes
        /\ \A i \in 1 .. Len(pending) : g[i] = g[i - 1] + Size(pending[i])
        /\ \A i, j \in 0 .. Len(pending) : i <= j => g[i] <= g[j]
    BY <2>1, <2>2
  <2> QED
    BY <2>3 DEF BacklogSum
<1>7. CursorInFile
  BY <1>1, <1>2 DEF Init, CursorInFile
<1>8. LostIsGone /\ DropsAreCounted
  BY FS_EmptySet DEF Init, LostIsGone, DropsAreCounted
<1>9. ErrorInv
  BY DEF Init, ErrorInv
<1>10. TornTailIsOverwritten
  BY <1>1, <1>2 DEF Init, TornTailIsOverwritten
<1>11. IndexIsExact /\ IndexedFrames
  BY <1>0 DEF Init, IndexIsExact, IndexedFrames
<1> QED
  BY <1>3, <1>4, <1>5, <1>6, <1>7, <1>8, <1>9, <1>10, <1>11 DEF Inv

\* ... and every step preserves it, one conjunct after the other.
LEMMA NextInv == Inv /\ [Next]_vars => Inv'
<1> SUFFICES ASSUME Inv, [Next]_vars PROVE Inv'
  OBVIOUS
<1> USE DEF Inv
<1>1. ControlTypes' /\ QueueTypes' /\ BatchTypes' /\ HistoryTypes'
  BY ControlStep, QueueStep, BatchStep, HistoryStep
<1>2. MemoryInOrder' /\ LostIsGone' /\ DropsAreCounted'
  BY OrderStep, LossStep
<1>3. ErrorInv' /\ TornTailIsOverwritten'
  BY ErrorStep, TornTailStep
<1>4. IndexIsExact' /\ IndexedFrames'
  BY IndexStep DEF IndexInv
<1>5. file' \in Seq(Cells)
  BY FileStep DEF KeepsUnits
<1>6. lost' \subseteq Nat /\ dropped' \in Nat
  <2>1. Len(log') \in Nat /\ lost' \subseteq 1 .. Len(log')
    BY <1>1, <1>2 DEF HistoryTypes, LostIsGone
  <2>2. IsFiniteSet(1 .. Len(log'))
    BY <2>1, FS_Interval
  <2>3. Cardinality(lost') \in Nat
    BY <2>1, <2>2, FS_Subset, FS_CardinalityType
  <2>4. dropped' = Cardinality(lost')
    BY <1>2 DEF DropsAreCounted
  <2> QED
    BY <2>1, <2>3, <2>4
<1>7. TypeOK'
  BY <1>1, <1>5, <1>6
     DEF TypeOK, ControlTypes, QueueTypes, BatchTypes, HistoryTypes
<1>8. ControlInv'
  BY <1>1, EndStep DEF ControlInv, ControlTypes, BatchTypes
<1>9. BacklogSum' /\ CursorInFile'
  BY <1>1 DEF QueueTypes
<1> QED
  BY <1>2, <1>3, <1>4, <1>7, <1>8, <1>9

-----------------------------------------------------------------------------
(* Limits of batches and of the backlog, and what a write returns.         *)

\* Batches stay within their limit: an empty one has no bytes, an event about to be
\* pushed fits, and before it is the batch was sealed if it had to be.
BatchFits ==
    /\ batch.n = 0 => batch.bytes = 0
    /\ call = "pre" => arg[1].size <= MaxFrame
    /\ pc = "push" => batch.n = 0 \/ batch.bytes + FrameLen(arg[1]) <= BatchLimit
    /\ call = "pre" /\ pc \in {"room", "enqueue", "drain"} => batch.n = 0
    /\ Chunked => batch.bytes <= MaxFrame + FrameHeader

\* While the disk has taken every write, a queue is emptied before a unit is added.
Healthy ==
    outages = 0 => /\ disk = "ok"
                   /\ pc = "enqueue" => pending = <<>>
                   /\ ~EncoderFails => lost = {}

BacklogBounded == Len(pending) > 1 => pendingBytes <= MaxPending

\* The event of a write that seals behind it is the last one, and not given up
\* before the call returns.
ResultInv ==
    /\ call = "post" => Len(log) \notin lost
    /\ call = "post" /\ pc \in {"room", "enqueue"} => hand[1].last = Len(log)
    /\ WriteResultIsTrue

LimitsInv == BatchFits /\ Healthy /\ BacklogBounded

\* Facts of types that the steps below need.
LEMMA BatchNumbers ==
    ASSUME TypeOK
    PROVE  /\ batch.n \in Nat /\ batch.bytes \in Nat /\ pendingBytes \in Nat
           /\ MaxFrame \in Nat /\ FrameHeader \in Nat /\ MaxBytes \in Nat
           /\ BatchLimit \in Nat /\ (Chunked => BatchLimit <= MaxFrame)
<1>1. MaxFrame \in Nat /\ FrameHeader \in Nat /\ MaxBytes \in Nat
  BY SizeAssumption
<1>2. BatchLimit \in Nat /\ (Chunked => BatchLimit <= MaxFrame)
  BY <1>1, FormatAssumption DEF BatchLimit, Lesser
<1>3. batch.n \in Nat /\ batch.bytes \in Nat /\ pendingBytes \in Nat
  BY DEF TypeOK
<1> QED
  BY <1>1, <1>2, <1>3

\* A batch takes an event only when it is empty or has room for it.
LEMMA BatchFitsStep ==
    ASSUME TypeOK, ControlInv, BatchFits, [Next]_vars
    PROVE  BatchFits'
<1>0. /\ batch.n \in Nat /\ batch.bytes \in Nat /\ MaxFrame \in Nat /\ FrameHeader \in Nat
      /\ BatchLimit \in Nat /\ (Chunked => BatchLimit <= MaxFrame)
      /\ EmptyBatch.n = 0 /\ EmptyBatch.bytes = 0
  BY BatchNumbers DEF EmptyBatch
<1>1. ASSUME NEW e \in Events, WriteEvent(e)
      PROVE  BatchFits'
  <2>1. batch' = batch /\ pc = "idle"
    BY <1>1 DEF WriteEvent
  <2>2. CASE e.size > MaxFrame
    BY <1>1, <2>1, <2>2 DEF WriteEvent, Return, BatchFits
  <2>3. CASE ~(e.size > MaxFrame)
    <3>1. /\ call' = "pre" /\ arg' = <<e>> /\ pc' = IF SealsFirst(e) THEN "seal" ELSE "push"
          /\ e.size \in Nat
      BY <1>1, <2>3, EventAssumption DEF WriteEvent
    <3>2. arg'[1] = e /\ e.size <= MaxFrame /\ FrameLen(e) \in Nat
      BY <1>0, <2>3, <3>1 DEF FrameLen
    <3>3. ~SealsFirst(e) => batch.n = 0 \/ batch.bytes + FrameLen(e) <= BatchLimit
      BY <1>0, <3>2 DEF SealsFirst
    <3> QED
      BY <2>1, <3>1, <3>2, <3>3 DEF BatchFits
  <2> QED
    BY <2>2, <2>3
<1>2. CASE Push
  <2> DEFINE e == arg[1]
  <2>1. /\ batch' = PushedBatch(e) /\ pc = "push" /\ call = "pre"
        /\ pc' \in {"seal", "idle"} /\ call' \in {"post", "none"}
    BY <1>2 DEF Push, Return, ControlInv
  <2>2. e \in Events
    BY <2>1, PushedEvent
  <2>3. e.size \in Nat /\ e.size <= MaxFrame
    BY <2>1, <2>2, EventAssumption DEF BatchFits
  <2> HIDE DEF e
  <2>4. batch'.n = batch.n + 1 /\ batch'.bytes = batch.bytes + FrameLen(e)
    BY <2>1 DEF PushedBatch
  <2>5. batch.n = 0 \/ batch.bytes + FrameLen(e) <= BatchLimit
    BY <2>1 DEF BatchFits, e
  <2>6. Chunked => batch.bytes + FrameLen(e) <= MaxFrame + FrameHeader
    <3>1. FrameLen(e) \in Nat /\ FrameLen(e) <= MaxFrame + FrameHeader
      BY <1>0, <2>3 DEF FrameLen
    <3>2. CASE batch.n = 0
      <4>1. batch.bytes = 0
        BY <3>2 DEF BatchFits
      <4> QED
        BY <3>1, <4>1
    <3>3. CASE batch.bytes + FrameLen(e) <= BatchLimit
      BY <1>0, <3>1, <3>3
    <3> QED
      BY <2>5, <3>2, <3>3
  <2>7. batch'.n # 0
    BY <1>0, <2>4
  <2> QED
    BY <2>1, <2>4, <2>6, <2>7 DEF BatchFits
<1>3. ASSUME NEW n \in FrameLens, SealUnit(n) \/ SealFails(n)
      PROVE  BatchFits'
  <2>1. batch' = EmptyBatch /\ pc' \in {"room", "enqueue", "drain", "idle"}
        /\ (call' = "pre" => call = "pre" /\ arg' = arg)
    BY <1>3 DEF SealUnit, SealFails, GoTo, AfterSeal, Return
  <2> QED
    BY <1>0, <2>1 DEF BatchFits
<1>4. CASE SealNothing
  <2>1. batch' = batch /\ batch.n = 0 /\ pc' = "drain" /\ UNCHANGED <<call, arg>>
    BY <1>4 DEF SealNothing, AfterSeal
  <2> QED
    BY <2>1 DEF BatchFits
<1>5. CASE Enqueue
  <2>1. /\ batch' = batch /\ pc = "enqueue" /\ pc' \in {"idle", "drain"}
        /\ (call' = "pre" => call = "pre" /\ arg' = arg)
    BY <1>5 DEF Enqueue, AfterSeal, Return
  <2> QED
    BY <2>1 DEF BatchFits
<1>6. CASE DrainDone \/ DrainFails
  <2>1. /\ batch' = batch /\ pc \in {"room", "drain"}
        /\ (call' = "pre" => call = "pre" /\ arg' = arg)
        /\ pc' = "push" => call = "pre"
    BY <1>6 DEF DrainDone, DrainFails, AfterDrain, GoTo, Return, Draining
  <2> QED
    BY <2>1 DEF BatchFits
<1>7. CASE Flush \/ Finalize
  BY <1>7 DEF Flush, Finalize, BatchFits
<1>8. CASE Crash
  <2>1. batch' = EmptyBatch /\ pc' = "crashed" /\ call' = "none"
    BY <1>8 DEF Crash
  <2> QED
    BY <1>0, <2>1 DEF BatchFits
<1>9. CASE Finish
  <2>1. batch' = batch /\ pc' \in {"meta", "closed"} /\ (call' = "pre" => call = "pre" /\ arg' = arg)
    BY <1>9 DEF Finish, WriteFooter, FooterFails, WriteMeta, MetaFails, GoTo, Closed
  <2> QED
    BY <2>1 DEF BatchFits
<1>10. CASE DrainUnit \/ DiskRefuses \/ DiskRecovers \/ UNCHANGED vars
  <2>1. UNCHANGED <<batch, pc, call, arg>>
    BY <1>10 DEF DrainUnit, DiskRefuses, DiskRecovers, vars, control
  <2> QED
    BY <2>1 DEF BatchFits
<1> QED
  BY <1>1, <1>2, <1>3, <1>4, <1>5, <1>6, <1>7, <1>8, <1>9, <1>10 DEF Next, Seal, Drain

\* A frame made of a batch within its limit is not too large for the scan.
LEMMA FrameIsSealable ==
    ASSUME TypeOK, BatchFits, NEW n \in FrameLens, ~EncoderFails
    PROVE  Sealable(n)
<1>1. /\ batch.bytes \in Nat /\ ZstdSlack \in Nat /\ MaxFrame \in Nat /\ FrameHeader \in Nat
      /\ MaxChunk \in Nat /\ MaxFrame + FrameHeader + ZstdSlack <= MaxChunk
  BY BatchNumbers, SizeAssumption, FormatAssumption, ChunkAssumption
<1>2. n \in 1 .. batch.bytes + ZstdSlack
  BY DEF FrameLens
<1>3. Chunked => n <= MaxChunk
  BY <1>1, <1>2 DEF BatchFits
<1> QED
  BY <1>1, <1>2, <1>3 DEF Sealable

\* A disk that takes every write leaves no queue to a unit that is added, and no
\* event is given up.
LEMMA HealthyStep ==
    ASSUME TypeOK, ControlInv, BatchFits, Healthy, [Next]_vars
    PROVE  Healthy'
<1>1. ASSUME UNCHANGED <<outages, disk, lost>>, pc' = "enqueue" => pc = "enqueue" /\ pending' = pending
      PROVE  Healthy'
  BY <1>1 DEF Healthy
<1>2. CASE \/ Push \/ SealNothing \/ Flush \/ Finalize \/ DrainUnit \/ Finish \/ Crash \/ UNCHANGED vars
           \/ \E e \in Events : WriteEvent(e)
  <2>1. UNCHANGED <<outages, disk, lost>>
    BY <1>2 DEF Push, SealNothing, Flush, Finalize, DrainUnit, Finish, WriteFooter, FooterFails, WriteMeta,
       MetaFails, Crash, WriteEvent, environment, history, vars
  <2>2. pc' = "enqueue" => pc = "enqueue" /\ pending' = pending
    BY <1>2 DEF Push, SealNothing, AfterSeal, Flush, Finalize, DrainUnit, Draining, control, Finish,
       WriteFooter, FooterFails, WriteMeta, MetaFails, GoTo, Closed, Crash, WriteEvent, Return, appender, vars
  <2> QED
    BY <1>1, <2>1, <2>2
<1>3. ASSUME NEW n \in FrameLens, SealUnit(n)
      PROVE  Healthy'
  <2>1. /\ UNCHANGED <<outages, disk, lost, pending>>
        /\ pc' = IF pending # <<>> THEN "room" ELSE "enqueue"
    BY <1>3 DEF SealUnit, GoTo, environment, history, appender
  <2> QED
    BY <2>1 DEF Healthy
<1>4. ASSUME NEW n \in FrameLens, SealFails(n)
      PROVE  Healthy'
  <2>1. EncoderFails
    BY <1>4, FrameIsSealable DEF SealFails
  <2>2. UNCHANGED <<outages, disk>> /\ pc' \in {"idle", "drain"}
    BY <1>4 DEF SealFails, AfterSeal, Return, environment
  <2> QED
    BY <2>1, <2>2 DEF Healthy
<1>5. CASE Enqueue
  <2>1. UNCHANGED <<outages, disk>> /\ pc = "enqueue" /\ pc' \in {"idle", "drain"}
    BY <1>5 DEF Enqueue, AfterSeal, Return, environment
  <2>2. outages = 0 => lost' = lost
    BY <1>5, <2>1 DEF Enqueue, BacklogFull, Healthy
  <2> QED
    BY <2>1, <2>2 DEF Healthy
<1>6. CASE DrainDone
  <2>1. UNCHANGED <<outages, disk, lost>> /\ pending = <<>> /\ pending' = pending
    BY <1>6 DEF DrainDone, AfterDrain, environment
  <2> QED
    BY <2>1 DEF Healthy
<1>7. CASE DrainFails
  BY <1>7 DEF DrainFails, Healthy, environment
<1>8. CASE DiskRefuses
  <2>1. outages' = outages + 1 /\ outages \in Nat
    BY <1>8, WriterBounds DEF DiskRefuses, TypeOK
  <2>2. outages' # 0
    BY <2>1
  <2> QED
    BY <2>2 DEF Healthy
<1>9. CASE DiskRecovers
  <2>1. disk' = "ok" /\ UNCHANGED <<outages, lost, pc, pending>>
    BY <1>9 DEF DiskRecovers, control, history, appender
  <2> QED
    BY <2>1 DEF Healthy
<1> QED
  BY <1>2, <1>3, <1>4, <1>5, <1>6, <1>7, <1>8, <1>9 DEF Next, Seal, Drain

\* The backlog goes past its limit only for one unit.
LEMMA BacklogBoundedStep ==
    ASSUME TypeOK, ControlInv, BacklogSum, BacklogBounded, [Next]_vars
    PROVE  BacklogBounded'
<1>0. pending \in Seq(Units) /\ pendingBytes \in Nat /\ MaxPending \in Nat
  BY SizeAssumption DEF TypeOK
<1>1. ASSUME UNCHANGED <<pending, pendingBytes>> PROVE BacklogBounded'
  BY <1>1 DEF BacklogBounded
<1>2. ASSUME pending' = <<>> PROVE BacklogBounded'
  BY <1>2 DEF BacklogBounded
<1>3. CASE Enqueue
  <2>1. CASE BacklogFull(hand[1])
    BY <1>1, <1>3, <2>1 DEF Enqueue
  <2>2. CASE ~BacklogFull(hand[1])
    <3>1. pending' = Append(pending, hand[1]) /\ pendingBytes' = BacklogWith(hand[1])
      BY <1>3, <2>2 DEF Enqueue, Queued
    <3>2. hand[1] \in Units
      <4>1. hand \in Seq(Units) /\ Len(hand) = 1
        BY <1>3 DEF Enqueue, TypeOK, ControlInv
      <4> QED
        BY <4>1
    <3>3. BacklogWith(hand[1]) \in Nat
      BY <1>0, <3>2, UnitCells DEF BacklogWith
    <3>4. CASE pending = <<>>
      <4>1. Len(pending') = 1
        BY <3>1, <3>4
      <4> QED
        BY <4>1 DEF BacklogBounded
    <3>5. CASE pending # <<>>
      <4>1. pendingBytes' <= MaxPending
        BY <1>0, <2>2, <3>1, <3>3, <3>5 DEF BacklogFull
      <4> QED
        BY <4>1 DEF BacklogBounded
    <3> QED
      BY <3>4, <3>5
  <2> QED
    BY <2>1, <2>2
<1>4. CASE DrainUnit
  <2>1. pending # <<>> /\ pending' = Tail(pending) /\ pendingBytes' = pendingBytes - Size(Head(pending))
    BY <1>4 DEF DrainUnit
  <2>2. Head(pending) \in Units /\ Len(Tail(pending)) = Len(pending) - 1 /\ Len(pending) \in Nat
    BY <1>0, <2>1
  <2>3. Size(Head(pending)) \in Nat
    BY <2>2, UnitCells
  <2>4. ASSUME Len(pending') > 1 PROVE pendingBytes' <= MaxPending
    <3>1. Len(pending) > 1
      BY <2>1, <2>2, <2>4
    <3>2. pendingBytes <= MaxPending
      BY <3>1 DEF BacklogBounded
    <3> QED
      BY <1>0, <2>1, <2>3, <3>2
  <2> QED
    BY <2>4 DEF BacklogBounded
<1>5. CASE DrainDone \/ DrainFails
  <2>1. UNCHANGED <<pending, pendingBytes>> \/ pending' = <<>>
    BY <1>5 DEF DrainDone, DrainFails, AfterDrain
  <2> QED
    BY <1>1, <1>2, <2>1
<1>6. CASE Crash
  BY <1>2, <1>6 DEF Crash
<1>7. CASE \/ Push \/ SealNothing \/ Flush \/ Finalize \/ Finish \/ DiskRefuses \/ DiskRecovers \/ UNCHANGED vars
           \/ \E e \in Events : WriteEvent(e)
           \/ \E n \in FrameLens : SealUnit(n) \/ SealFails(n)
  BY <1>1, <1>7 DEF Push, SealNothing, Flush, Finalize, Finish, WriteFooter, FooterFails, WriteMeta,
     MetaFails, DiskRefuses, DiskRecovers, WriteEvent, SealUnit, SealFails, appender, vars
<1> QED
  BY <1>3, <1>4, <1>5, <1>6, <1>7 DEF Next, Seal, Drain

\* Induction up to n, for a set: the least number outside it would have a
\* predecessor in it.
LEMMA InductionUpTo ==
  ASSUME NEW n \in Nat, NEW G, 0 \in G,
         \A m \in 0 .. n : m # n /\ m \in G => m + 1 \in G
  PROVE  0 .. n \subseteq G
<1> DEFINE T == (0 .. n) \ G
<1> SUFFICES ASSUME T # {} PROVE FALSE
  OBVIOUS
<1>1. T \subseteq Nat
  OBVIOUS
<1> HIDE DEF T
<1>2. PICK m \in T : \A k \in T : <<k, m>> \notin OpToRel(<, Nat)
  BY <1>1, WFMin, NatLessThanWellFounded, Zenon
<1>3. \A k \in T : ~(k < m)
  <2> SUFFICES ASSUME NEW k \in T PROVE ~(k < m)
    OBVIOUS
  <2> QED
    BY <1>1, <1>2, Zenon DEF OpToRel
<1>4. m \in 0 .. n /\ m \notin G
  BY DEF T
<1>5. m - 1 \in 0 .. n /\ m - 1 # n /\ (m - 1) + 1 = m /\ m - 1 < m
  BY ONLY <1>4, n \in Nat, 0 \in G
<1>6. m - 1 \in G
  BY <1>3, <1>5 DEF T
<1> QED
  BY <1>4, <1>5, <1>6

\* pendingBytes is the sum of the sizes, added from the first to the last.
LEMMA BacklogIsSum ==
    ASSUME TypeOK, BacklogSum, BacklogBounded
    PROVE  BacklogIsBounded
<1> DEFINE n == Len(pending)
           Add(g, i) == IF i = 0 THEN 0 ELSE g[i - 1] + Size(pending[i])
           K == CHOOSE g : g = [i \in 0 .. n |-> Add(g, i)]
<1>1. n \in Nat
  BY DEF TypeOK
<1>2. PICK f \in [0 .. n -> Nat] :
        /\ f[0] = 0 /\ f[n] = pendingBytes
        /\ \A i \in 1 .. n : f[i] = f[i - 1] + Size(pending[i])
  BY DEF BacklogSum
<1> HIDE DEF n
<1>3. \A i \in 0 .. n : f[i] = Add(f, i)
  <2> TAKE i \in 0 .. n
  <2>1. CASE i = 0
    BY <1>2, <2>1
  <2>2. CASE i # 0
    BY <1>1, <1>2, <2>2
  <2> QED
    BY <2>1, <2>2
<1>4. f = [i \in 0 .. n |-> Add(f, i)]
  BY <1>2, <1>3
<1>5. K = [i \in 0 .. n |-> Add(K, i)]
  BY <1>4, Zenon
<1> HIDE DEF K
<1>6. \A m \in 0 .. n : K[m] = f[m]
  <2> DEFINE G == {m \in 0 .. n : K[m] = f[m]}
  <2>1. 0 \in G
    BY <1>1, <1>2, <1>5
  <2>2. ASSUME NEW m \in 0 .. n, m # n, m \in G
        PROVE  m + 1 \in G
    <3>1. m + 1 \in 0 .. n /\ m + 1 \in 1 .. n /\ m + 1 # 0 /\ (m + 1) - 1 = m
      BY <1>1, <2>2
    <3>2. K[m + 1] = K[m] + Size(pending[m + 1])
      BY <1>5, <3>1
    <3>3. f[m + 1] = f[m] + Size(pending[m + 1])
      BY <1>2, <3>1
    <3> QED
      BY <2>2, <3>1, <3>2, <3>3
  <2> HIDE DEF G
  <2>3. 0 .. n \subseteq G
    BY <1>1, <2>1, <2>2, InductionUpTo
  <2> QED
    BY <2>3 DEF G
<1>7. K[n] = pendingBytes
  BY <1>1, <1>2, <1>6
<1> QED
  BY <1>7 DEF BacklogIsBounded, BacklogBounded, K, n

\* A write that seals behind its event keeps it in memory until it returns, or
\* says that it was not kept.
LEMMA ResultStep ==
    ASSUME TypeOK, ControlInv, MemoryInOrder, LostIsGone, ResultInv, [Next]_vars
    PROVE  ResultInv'
<1>0. Len(log) \in Nat /\ batch.n \in Nat /\ batch.n <= Len(log) /\ lost \subseteq 1 .. Len(log)
  BY DEF TypeOK, MemoryInOrder, LostIsGone
<1>1. ASSUME pc' # "idle", call' # "post" PROVE ResultInv'
  BY <1>1 DEF ResultInv, WriteResultIsTrue
<1>2. ASSUME pc' = "idle", call' = "none", result'.op = "write" => ~result'.ok /\ ~result'.pushed
      PROVE  ResultInv'
  BY <1>2 DEF ResultInv, WriteResultIsTrue
<1>3. ASSUME UNCHANGED <<pc, call, result, hand, log, lost>> PROVE ResultInv'
  BY <1>3 DEF ResultInv, WriteResultIsTrue
<1>4. ASSUME Return("write", TRUE, TRUE), Len(log') \notin lost' PROVE ResultInv'
  BY <1>4 DEF Return, ResultInv, WriteResultIsTrue
<1>4a. ASSUME call = "pre", AfterSeal(FALSE)
       PROVE  ResultInv'
  <2>1. Return("write", FALSE, call = "post")
    BY <1>4a DEF AfterSeal
  <2>2. (call = "post") = FALSE
    BY <1>4a
  <2>3. Return("write", FALSE, FALSE)
    BY <2>1, <2>2, Zenon
  <2> QED
    BY <1>2, <2>3 DEF Return
<1>5. ASSUME NEW e \in Events, WriteEvent(e)
      PROVE  ResultInv'
  <2>1. CASE e.size > MaxFrame
    BY <1>2, <1>5, <2>1 DEF WriteEvent, Return
  <2>2. CASE ~(e.size > MaxFrame)
    BY <1>1, <1>5, <2>2 DEF WriteEvent
  <2> QED
    BY <2>1, <2>2
<1>6. CASE Push
  <2>1. log' = Append(log, arg[1]) /\ lost' = lost /\ Len(log') = Len(log) + 1
    <3>1. arg[1] \in Events /\ log \in Seq(Events)
      BY <1>6, PushedEvent DEF Push, TypeOK
    <3> QED
      BY <1>6, <3>1 DEF Push
  <2>2. Len(log') \notin lost'
    BY <1>0, <2>1
  <2>3. CASE Full(PushedBatch(arg[1]))
    <3>1. pc' = "seal"
      BY <1>6, <2>3 DEF Push
    <3> QED
      BY <2>2, <3>1 DEF ResultInv, WriteResultIsTrue
  <2>4. CASE ~Full(PushedBatch(arg[1]))
    BY <1>4, <1>6, <2>2, <2>4 DEF Push
  <2> QED
    BY <2>3, <2>4
<1>7. ASSUME NEW ids, lost' = lost \cup ids, Len(log) \in ids, log' = log,
             AfterSeal(FALSE)
      PROVE  ResultInv'
  <2>1. CASE call = "pre"
    BY <1>7, <1>4a, <2>1
  <2>2. CASE call = "post"
    <3>1. Return("write", FALSE, TRUE)
      BY <1>7, <2>2 DEF AfterSeal
    <3> QED
      BY <1>7, <3>1 DEF Return, ResultInv, WriteResultIsTrue
  <2>3. CASE call \notin {"pre", "post"}
    BY <1>1, <1>7, <2>3 DEF AfterSeal
  <2> QED
    BY <2>1, <2>2, <2>3
<1>8. ASSUME NEW n \in FrameLens, SealUnit(n)
      PROVE  ResultInv'
  <2>1. /\ hand' = <<SealedUnit(n)>> /\ UNCHANGED <<call, log, lost>> /\ pc' \in {"room", "enqueue"}
    BY <1>8 DEF SealUnit, GoTo, history
  <2>2. hand'[1].last = Len(log)
    BY <2>1 DEF SealedUnit
  <2> QED
    BY <2>1, <2>2 DEF ResultInv, WriteResultIsTrue
<1>9. ASSUME NEW n \in FrameLens, SealFails(n)
      PROVE  ResultInv'
  <2>1. lost' = lost \cup InBatch /\ log' = log /\ AfterSeal(FALSE) /\ batch.n > 0
    BY <1>9 DEF SealFails, GiveUp
  <2>2. Len(log) \in InBatch
    BY <1>0, <2>1 DEF InBatch
  <2> QED
    BY <1>7, <2>1, <2>2
<1>10. CASE SealNothing
  <2>1. pc' = "drain" /\ UNCHANGED <<call, log, lost>>
    BY <1>10 DEF SealNothing, AfterSeal, history
  <2> QED
    BY <2>1 DEF ResultInv, WriteResultIsTrue
<1>11. CASE Enqueue
  <2> DEFINE u == hand[1]
  <2>1. /\ pc = "enqueue" /\ log' = log
        /\ u.first \in 1 .. u.last /\ u.last \in Nat
    <3>1. Len(hand) = 1 /\ hand \in Seq(Units) /\ pc = "enqueue" /\ log' = log
      BY <1>11 DEF Enqueue, ControlInv, TypeOK
    <3>2. u \in Units /\ 1 \in DOMAIN hand
      BY <3>1
    <3> QED
      BY <3>1, <3>2 DEF MemoryInOrder, Units
  <2>2. CASE BacklogFull(u)
    <3>1. lost' = lost \cup (u.first .. u.last) /\ AfterSeal(FALSE)
      BY <1>11, <2>2 DEF Enqueue, GiveUp
    <3>2. CASE call = "post"
      <4>1. Len(log) \in u.first .. u.last
        BY <2>1, <3>2 DEF ResultInv
      <4> QED
        BY <1>7, <2>1, <3>1, <4>1
    <3>3. CASE call = "pre"
      BY <1>4a, <3>1, <3>3
    <3>4. CASE call \notin {"pre", "post"}
      BY <1>1, <3>1, <3>4 DEF AfterSeal
    <3> QED
      BY <3>2, <3>3, <3>4
  <2>3. CASE ~BacklogFull(u)
    <3>1. pc' = "drain" /\ UNCHANGED <<call, log, lost>>
      BY <1>11, <2>3 DEF Enqueue, AfterSeal
    <3> QED
      BY <3>1 DEF ResultInv, WriteResultIsTrue
  <2> QED
    BY <2>2, <2>3
<1>12. ASSUME NEW ok \in BOOLEAN, AfterDrain(ok), UNCHANGED <<hand, log>>
       PROVE  ResultInv'
  <2>1. CASE pc = "room" /\ GoTo("enqueue") /\ lost' = lost
    BY <1>12, <2>1 DEF GoTo, ResultInv, WriteResultIsTrue
  <2>2. CASE pc = "drain" /\ call = "post" /\ Return("write", TRUE, TRUE) /\ lost' = lost
    BY <1>4, <1>12, <2>2 DEF ResultInv
  <2>3. CASE Return("flush", ok /\ ~failed, FALSE)
    BY <1>2, <2>3 DEF Return
  <2>4. CASE call = "pre" /\ GoTo("push")
    BY <1>1, <2>4 DEF GoTo
  <2>5. CASE call = "finalize" /\ pc' \in {"footer", "meta"} /\ call' = call
    BY <1>1, <2>5
  <2> QED
    BY <1>12, <2>1, <2>2, <2>3, <2>4, <2>5 DEF AfterDrain, GoTo
<1>13. CASE DrainDone \/ DrainFails
  <2>1. (AfterDrain(TRUE) \/ AfterDrain(FALSE)) /\ UNCHANGED <<hand, log>>
    BY <1>13 DEF DrainDone, DrainFails
  <2> QED
    BY <1>12, <2>1
<1>14. CASE Flush \/ Finalize \/ Crash
  BY <1>1, <1>14 DEF Flush, Finalize, Crash
<1>15. CASE call = "finalize" /\ Finish
  BY <1>1, <1>15 DEF Finish, WriteFooter, FooterFails, WriteMeta, MetaFails, GoTo, Closed
<1>16. CASE DrainUnit \/ DiskRefuses \/ DiskRecovers \/ UNCHANGED vars
  BY <1>3, <1>16 DEF DrainUnit, DiskRefuses, DiskRecovers, vars, control, history
<1> QED
  BY <1>5, <1>6, <1>8, <1>9, <1>10, <1>11, <1>13, <1>14, <1>15, <1>16 DEF Next, Seal, Drain

\* The limits hold at the start, and with the invariant every step keeps them.
LEMMA LimitsInductive ==
    /\ Init => LimitsInv /\ ResultInv
    /\ Inv /\ LimitsInv /\ ResultInv /\ [Next]_vars => LimitsInv' /\ ResultInv'
<1>1. ASSUME Init PROVE LimitsInv /\ ResultInv
  <2>1. BatchFits
    BY <1>1, BatchNumbers, SizeAssumption DEF Init, BatchFits, EmptyBatch
  <2>2. Healthy /\ BacklogBounded
    BY <1>1 DEF Init, Healthy, BacklogBounded
  <2>3. ResultInv
    BY <1>1 DEF Init, ResultInv, WriteResultIsTrue
  <2> QED
    BY <2>1, <2>2, <2>3 DEF LimitsInv
<1>2. ASSUME Inv, LimitsInv, ResultInv, [Next]_vars PROVE LimitsInv' /\ ResultInv'
  BY <1>2, BatchFitsStep, HealthyStep, BacklogBoundedStep, ResultStep DEF Inv, LimitsInv
<1> QED
  BY <1>1, <1>2

-----------------------------------------------------------------------------
(* The scan of a file of whole units.                                      *)

\* What Scan finds from p on, g being what it finds from later positions.
ScanFrom(F, end, g, p) ==
    LET later == Resync(F, p, end)
        next  == CHOOSE q \in later : \A r \in later : q <= r
    IN  IF p = end + 1 THEN [events |-> <<>>, damaged |-> FALSE]
        ELSE IF UnitAt(F, p, end)
        THEN LET rest == g[UnitEnd(F, p) + 1]
             IN  [events  |-> EventsOf(UnitOf(F, p)) \o rest.events,
                  damaged |-> rest.damaged]
        ELSE IF later # {}
        THEN [events |-> g[next].events, damaged |-> TRUE]
        ELSE [events |-> <<>>, damaged |-> TRUE]

\* A nonempty set of positions has a first one.
LEMMA FirstOf ==
    ASSUME NEW S \in SUBSET Nat, S # {}
    PROVE  \E q \in S : \A r \in S : q <= r
<1>1. PICK q \in S : \A r \in S : <<r, q>> \notin OpToRel(<, Nat)
  BY WFMin, NatLessThanWellFounded, Zenon
<1>2. \A r \in S : ~(r < q)
  BY <1>1, Zenon DEF OpToRel
<1> QED
  BY <1>2

\* A scan up to cell N goes forward: a unit that decodes ends there or before.
GoesForward(F, N) ==
    \A p \in 1 .. N : UnitAt(F, p, N) => UnitEnd(F, p) + 1 \in p + 1 .. N + 1

\* That of a whole file does.
LEMMA UnitEndsLater ==
    ASSUME NEW F \in Seq(Cells), NEW p \in 1 .. Len(F), UnitAt(F, p, Len(F))
    PROVE  UnitEnd(F, p) + 1 \in p + 1 .. Len(F) + 1
<1>1. CASE Chunked
  <2>1. LengthAt(F, p) \in 1 .. MaxChunk /\ p + LengthAt(F, p) <= Len(F)
    BY <1>1 DEF UnitAt, ChunkAt
  <2>2. UnitEnd(F, p) = p + LengthAt(F, p)
    BY <1>1 DEF UnitEnd
  <2>3. MaxChunk \in Nat /\ Len(F) \in Nat
    BY FormatAssumption
  <2> QED
    BY <2>1, <2>2, <2>3
<1>2. CASE ~Chunked
  <2>1. F[p].kind = "unit" /\ p + F[p].u.frameLen - 1 <= Len(F)
    BY <1>2 DEF UnitAt, WholeFrame, FrameOpens
  <2>2. F[p] \in Cells
    OBVIOUS
  <2>3. F[p] \in [kind : {"unit"}, u : Units, k : Nat]
    BY <2>1, <2>2 DEF Cells
  <2>4. F[p].u.frameLen \in Nat \ {0}
    BY <2>3 DEF Units
  <2>5. UnitEnd(F, p) = p + F[p].u.frameLen - 1
    BY <1>2 DEF UnitEnd
  <2>6. Len(F) \in Nat
    OBVIOUS
  <2> QED
    BY <2>1, <2>4, <2>5, <2>6
<1> QED
  BY <1>1, <1>2

\* What is found from p on depends on later positions only.
LEMMA ScanLooksAhead ==
    ASSUME NEW F, NEW N \in Nat, GoesForward(F, N), NEW p \in 1 .. N + 1,
           NEW g, NEW h, \A q \in p + 1 .. N + 1 : g[q] = h[q]
    PROVE  ScanFrom(F, N, g, p) = ScanFrom(F, N, h, p)
<1> DEFINE later == Resync(F, p, N)
           first == CHOOSE q \in later : \A r \in later : q <= r
<1>0. N \in Nat /\ p \in 1 .. N + 1
  OBVIOUS
<1>1. CASE p = N + 1
  BY <1>1 DEF ScanFrom
<1>2. CASE ~(p = N + 1) /\ UnitAt(F, p, N)
  <2>1. p \in 1 .. N
    BY <1>0, <1>2
  <2>2. UnitEnd(F, p) + 1 \in p + 1 .. N + 1
    BY <1>2, <2>1 DEF GoesForward
  <2>3. g[UnitEnd(F, p) + 1] = h[UnitEnd(F, p) + 1]
    BY <2>2
  <2> QED
    BY <1>2, <2>3, Zenon DEF ScanFrom
<1>3. CASE ~(p = N + 1) /\ ~UnitAt(F, p, N) /\ later # {}
  <2>1. later \subseteq p + 1 .. N
    BY DEF Resync
  <2>2. later \in SUBSET Nat
    BY <1>0, <2>1
  <2> HIDE DEF later
  <2>3. \E q \in later : \A r \in later : q <= r
    BY <1>3, <2>2, FirstOf
  <2>4. first \in later
    BY <2>3, Zenon
  <2> HIDE DEF first
  <2>5. first \in p + 1 .. N + 1
    BY <1>0, <2>1, <2>4
  <2>6. g[first] = h[first]
    BY <2>5
  <2> QED
    BY <1>3, <2>6, Zenon DEF ScanFrom, later, first
<1>4. CASE ~(p = N + 1) /\ ~UnitAt(F, p, N) /\ later = {}
  BY <1>4, Zenon DEF ScanFrom
<1> QED
  BY <1>1, <1>2, <1>3, <1>4, Zenon

\* The function that Scan defines by recursion exists, and is the scan.
LEMMA ScanIsDefined ==
    ASSUME NEW F, NEW N \in Nat, GoesForward(F, N), HeadLen <= N
    PROVE  \E g : /\ Scan(F, N) = g[HeadLen + 1]
                  /\ \A p \in 1 .. N + 1 : g[p] = ScanFrom(F, N, g, p)
<1> DEFINE G == {m \in 0 .. N : \E g : \A p \in N + 1 - m .. N + 1 :
                                  g[p] = ScanFrom(F, N, g, p)}
           K == CHOOSE g : g = [p \in 1 .. N + 1 |-> ScanFrom(F, N, g, p)]
<1>0. N \in Nat /\ HeadLen \in {0, 1}
  BY DEF HeadLen
<1>1. 0 \in G
  <2> DEFINE g == [p \in 1 .. N + 1 |-> [events |-> <<>>, damaged |-> FALSE]]
  <2>1. \A p \in N + 1 - 0 .. N + 1 : p = N + 1
    BY <1>0
  <2>2. g[N + 1] = ScanFrom(F, N, g, N + 1)
    BY <1>0 DEF ScanFrom
  <2>3. \A p \in N + 1 - 0 .. N + 1 : g[p] = ScanFrom(F, N, g, p)
    BY <2>1, <2>2, Zenon
  <2>4. 0 \in 0 .. N
    BY <1>0
  <2> QED
    BY <2>3, <2>4
<1>2. ASSUME NEW m \in 0 .. N, m # N, m \in G
      PROVE  m + 1 \in G
  <2>1. PICK g : \A p \in N + 1 - m .. N + 1 : g[p] = ScanFrom(F, N, g, p)
    BY <1>2
  <2> DEFINE at == N - m
             h == [p \in 1 .. N + 1 |->
                     IF p = at THEN ScanFrom(F, N, g, at) ELSE g[p]]
  <2>2. at \in 1 .. N /\ at \in Int /\ N + 1 - (m + 1) = at
        /\ N + 1 - m = at + 1
    BY <1>0, <1>2
  <2> HIDE DEF at
  <2>3. \A p \in at + 1 .. N + 1 : h[p] = g[p]
    BY <1>0, <2>2
  <2>4. h[at] = ScanFrom(F, N, g, at)
    BY <1>0, <2>2
  <2>5. \A p \in at .. N + 1 : ScanFrom(F, N, g, p) = ScanFrom(F, N, h, p)
    <3> TAKE p \in at .. N + 1
    <3> HIDE DEF h
    <3>1. p \in 1 .. N + 1
      BY <1>0, <2>2
    <3>2. \A q \in p + 1 .. N + 1 : g[q] = h[q]
      BY <1>0, <2>2, <2>3
    <3> QED
      BY <3>1, <3>2, ScanLooksAhead
  <2>6. \A p \in at .. N + 1 : h[p] = ScanFrom(F, N, h, p)
    <3> TAKE p \in at .. N + 1
    <3> HIDE DEF h
    <3>1. CASE p = at
      BY <2>4, <2>5, <3>1
    <3>2. CASE p # at
      <4>1. p \in at + 1 .. N + 1
        BY <1>0, <2>2, <3>2
      <4>2. g[p] = ScanFrom(F, N, g, p)
        BY <2>1, <2>2, <4>1
      <4> QED
        BY <2>3, <2>5, <4>1, <4>2
    <3> QED
      BY <3>1, <3>2
  <2> HIDE DEF h
  <2>7. \E k : \A p \in N + 1 - (m + 1) .. N + 1 : k[p] = ScanFrom(F, N, k, p)
    BY <2>2, <2>6
  <2>8. m + 1 \in 0 .. N
    BY <1>0, <1>2
  <2> QED
    BY <2>7, <2>8
<1> HIDE DEF G
<1>3. N \in G
  <2>1. 0 .. N \subseteq G
    BY <1>0, <1>1, <1>2, InductionUpTo
  <2> QED
    BY <1>0, <2>1
<1>4. PICK g : \A p \in 1 .. N + 1 : g[p] = ScanFrom(F, N, g, p)
  BY <1>0, <1>3 DEF G
<1> DEFINE h == [p \in 1 .. N + 1 |-> g[p]]
<1>5. \A p \in 1 .. N + 1 : h[p] = ScanFrom(F, N, h, p)
  <2> TAKE p \in 1 .. N + 1
  <2>1. \A q \in p + 1 .. N + 1 : g[q] = h[q]
    BY <1>0
  <2>2. ScanFrom(F, N, g, p) = ScanFrom(F, N, h, p)
    <3> HIDE DEF h
    <3> QED
      BY <2>1, ScanLooksAhead
  <2> QED
    BY <1>4, <2>2
<1>6. h = [p \in 1 .. N + 1 |-> ScanFrom(F, N, h, p)]
  <2> HIDE DEF h
  <2>1. h = [p \in 1 .. N + 1 |-> h[p]]
    BY DEF h
  <2> QED
    BY <1>5, <2>1
<1>7. K = [p \in 1 .. N + 1 |-> ScanFrom(F, N, K, p)]
  BY <1>6, Zenon
<1>8. ~(N < HeadLen)
  BY <1>0
<1>9. Scan(F, N) = K[HeadLen + 1]
  BY <1>8, Zenon DEF Scan, ScanFrom
<1> HIDE DEF K
<1>10. \A p \in 1 .. N + 1 : K[p] = ScanFrom(F, N, K, p)
  BY <1>7
<1> QED
  BY <1>9, <1>10

-----------------------------------------------------------------------------
(* Units and what a reader makes of them.                                  *)

\* The events of a unit, and a file that they extend.
LEMMA UnitEvents ==
    ASSUME NEW u \in Units, u.first \in 1 .. u.last
    PROVE  /\ EventsOf(u) \in Seq(Nat) /\ Len(EventsOf(u)) = Count(u)
           /\ Count(u) \in Nat \ {0}
           /\ \A i \in 1 .. Count(u) : EventsOf(u)[i] = u.first + i - 1
<1>1. u.first \in Nat /\ u.last \in Nat /\ u.first <= u.last /\ u.first >= 1
  BY DEF Units
<1>2. Count(u) \in Nat \ {0} /\ Count(u) = u.last - u.first + 1
  BY <1>1 DEF Count
<1>3. EventsOf(u) = [i \in 1 .. Count(u) |-> u.first + i - 1]
  BY <1>2 DEF EventsOf
<1>4. \A i \in 1 .. Count(u) : u.first + i - 1 \in Nat
  BY <1>1, <1>2
<1> QED
  BY <1>2, <1>3, <1>4

\* A unit that lies whole behind cell c decodes there.
LEMMA UnitDecodes ==
    ASSUME NEW F, Len(F) \in Nat, NEW N \in Nat, N <= Len(F),
           NEW u \in Units, NEW c \in Nat,
           c + Size(u) <= N, Chunked => u.frameLen <= MaxChunk,
           \A k \in 1 .. Size(u) : F[c + k] = UnitCell(u, k)
    PROVE  /\ UnitAt(F, c + 1, N) /\ UnitEnd(F, c + 1) = c + Size(u)
           /\ UnitOf(F, c + 1) = u /\ Size(u) \in Nat \ {0}
           /\ WholeFrame(F, c + PrefixLen + 1, c + PrefixLen + u.frameLen)
           /\ F[c + PrefixLen + 1].u = u
<1>0. /\ Len(F) \in Nat /\ u.frameLen \in Nat \ {0} /\ PrefixLen \in {0, 1}
      /\ Size(u) = PrefixLen + u.frameLen
  BY DEF Units, PrefixLen, Size
<1>1. Size(u) \in Nat \ {0} /\ PrefixLen + 1 \in 1 .. Size(u)
  BY <1>0
<1>2. F[c + PrefixLen + 1] = UnitCell(u, PrefixLen + 1)
  BY <1>0, <1>1
<1>3. UnitOf(F, c + 1) = u
  <2>1. c + 1 + PrefixLen = c + PrefixLen + 1
    BY <1>0
  <2> QED
    BY <1>2, <2>1 DEF UnitOf, UnitCell
<1>4. FrameOpens(F, c + PrefixLen + 1)
  <2>1. c + PrefixLen + 1 \in 1 .. Len(F)
    BY <1>0, <1>1
  <2> QED
    BY <1>2, <2>1 DEF FrameOpens, UnitCell
<1>5. F[c + PrefixLen + 1].u = u
  BY <1>2 DEF UnitCell
<1>6. \A i \in 1 .. u.frameLen :
         F[c + PrefixLen + 1 + i - 1] = UnitCell(u, PrefixLen + i)
  <2> TAKE i \in 1 .. u.frameLen
  <2>1. PrefixLen + i \in 1 .. Size(u)
        /\ c + PrefixLen + 1 + i - 1 = c + (PrefixLen + i)
    BY <1>0
  <2> QED
    BY <2>1
<1>7. \A e \in Nat : c + PrefixLen + u.frameLen <= e =>
         WholeFrame(F, c + PrefixLen + 1, e)
  <2> TAKE e \in Nat
  <2> HAVE c + PrefixLen + u.frameLen <= e
  <2>1. c + PrefixLen + 1 + u.frameLen - 1 <= e
    BY <1>0
  <2> QED
    BY <1>4, <1>5, <1>6, <2>1, Zenon DEF WholeFrame
<1>10. WholeFrame(F, c + PrefixLen + 1, c + PrefixLen + u.frameLen)
  BY <1>0, <1>7
<1>8. CASE Chunked
  <2>1. PrefixLen = 1
    BY <1>8 DEF PrefixLen
  <2>2. F[c + 1] = UnitCell(u, 1)
    BY <1>1
  <2>3. LengthAt(F, c + 1) = u.frameLen
    BY <2>2 DEF LengthAt, UnitCell
  <2>4. MaxChunk \in Nat /\ u.frameLen \in 1 .. MaxChunk
    BY <1>0, <1>8, FormatAssumption
  <2>5. c + 1 + u.frameLen <= N
    BY <1>0, <2>1
  <2>6. WholeFrame(F, c + 1 + 1, c + 1 + u.frameLen)
    BY <1>0, <1>7, <2>1
  <2>7. ChunkAt(F, c + 1, N)
    BY <2>3, <2>4, <2>5, <2>6 DEF ChunkAt
  <2>8. UnitEnd(F, c + 1) = c + Size(u)
    <3>1. UnitEnd(F, c + 1) = (c + 1) + u.frameLen
      BY <1>8, <2>3, Zenon DEF UnitEnd
    <3> DEFINE e == UnitEnd(F, c + 1)
               f == u.frameLen
    <3>4. f \in Nat /\ Size(u) = PrefixLen + f
      BY <1>0
    <3>5. e = (c + 1) + f
      BY <3>1, Zenon
    <3> HIDE DEF e, f
    <3>6. e = c + Size(u)
      BY ONLY <2>1, <3>4, <3>5, c \in Nat
    <3> QED
      BY <3>6 DEF e
  <2> QED
    BY <1>1, <1>3, <1>5, <1>8, <1>10, <2>7, <2>8 DEF UnitAt
<1>9. CASE ~Chunked
  <2>1. PrefixLen = 0
    BY <1>9 DEF PrefixLen
  <2>2. WholeFrame(F, c + 1, N)
    BY <1>0, <1>7, <2>1
  <2>3. UnitEnd(F, c + 1) = c + Size(u)
    <3>1. c + PrefixLen + 1 = c + 1
      BY <2>1
    <3>2. F[c + 1].u = u
      BY <1>5, <3>1
    <3>3. UnitEnd(F, c + 1) = (c + 1) + u.frameLen - 1
      BY <1>9, <3>2, Zenon DEF UnitEnd
    <3> DEFINE e == UnitEnd(F, c + 1)
               f == u.frameLen
    <3>4. f \in Nat /\ Size(u) = PrefixLen + f
      BY <1>0
    <3>5. e = (c + 1) + f - 1
      BY <3>3, Zenon
    <3> HIDE DEF e, f
    <3>6. e = c + Size(u)
      BY ONLY <2>1, <3>4, <3>5, c \in Nat
    <3> QED
      BY <3>6 DEF e
  <2> QED
    BY <1>1, <1>3, <1>5, <1>9, <1>10, <2>2, <2>3 DEF UnitAt
<1> QED
  BY <1>8, <1>9

\* Nothing decodes in the beginning of a unit ...
LEMMA BeginningIsSilent ==
    ASSUME NEW F \in Seq(Cells), NEW c \in 0 .. Len(F), NEW u \in Units,
           Begun(F, c, u), NEW q \in c + 1 .. Len(F)
    PROVE  ~UnitAt(F, q, Len(F))
<1>0. /\ Len(F) \in Nat /\ u.frameLen \in Nat \ {0} /\ PrefixLen \in {0, 1}
      /\ Size(u) = PrefixLen + u.frameLen
  BY DEF Units, PrefixLen, Size
<1>1. \A p \in c + 1 .. Len(F) : F[p] = UnitCell(u, p - c)
  <2> TAKE p \in c + 1 .. Len(F)
  <2>1. p - c \in 1 .. Len(F) - c /\ c + (p - c) = p
    BY <1>0
  <2> QED
    BY <2>1 DEF Begun
<1>2. Len(F) < c + Size(u)
  BY DEF Begun
<1> SUFFICES ASSUME UnitAt(F, q, Len(F)) PROVE FALSE
  OBVIOUS
<1>3. CASE Chunked
  <2> DEFINE n == LengthAt(F, q)
  <2>1. PrefixLen = 1
    BY <1>3 DEF PrefixLen
  <2>2. /\ n \in 1 .. MaxChunk /\ q + n <= Len(F)
        /\ WholeFrame(F, q + 1, q + n)
    BY <1>3 DEF UnitAt, ChunkAt
  <2>3. q + 1 \in c + 1 .. Len(F)
    BY <1>0, <2>2, FormatAssumption
  <2>4. F[q + 1] = UnitCell(u, q + 1 - c)
    BY <1>1, <2>3
  <2>5. F[q + 1].k = 2
    BY <2>1, <2>2 DEF WholeFrame, FrameOpens
  <2>6. q = c + 1
    BY <1>0, <2>4, <2>5 DEF UnitCell
  <2>7. F[c + 1] = UnitCell(u, 1)
    <3>1. c + 1 \in c + 1 .. Len(F) /\ c + 1 - c = 1
      BY <1>0, <2>6
    <3> QED
      BY <1>1, <3>1
  <2>8. n = u.frameLen
    BY <2>6, <2>7 DEF LengthAt, UnitCell
  <2> QED
    BY <1>0, <1>2, <2>1, <2>2, <2>6, <2>8
<1>4. CASE ~Chunked
  <2>1. PrefixLen = 0
    BY <1>4 DEF PrefixLen
  <2>2. WholeFrame(F, q, Len(F))
    BY <1>4 DEF UnitAt
  <2>3. F[q] = UnitCell(u, q - c)
    BY <1>1
  <2>4. F[q].k = 1 /\ q + F[q].u.frameLen - 1 <= Len(F)
    BY <2>1, <2>2 DEF WholeFrame, FrameOpens
  <2>5. q = c + 1 /\ F[q].u = u
    BY <1>0, <2>3, <2>4 DEF UnitCell
  <2> QED
    BY <1>0, <1>2, <2>1, <2>4, <2>5
<1> QED
  BY <1>3, <1>4

\* ... nor in the body of a footer.
LEMMA BodyIsSilent ==
    ASSUME NEW F \in Seq(Cells), NEW c \in 0 .. Len(F), NEW entries,
           Chunked, Len(F) = c + 1, F[c + 1] = FooterBody(entries),
           NEW q \in c + 1 .. Len(F)
    PROVE  ~UnitAt(F, q, Len(F))
<1>1. q = c + 1
  OBVIOUS
<1>2. F[q].kind = "index"
  BY <1>1 DEF FooterBody
<1>3. LengthAt(F, q) = 0
  BY <1>2 DEF LengthAt
<1> QED
  BY <1>3, FormatAssumption DEF UnitAt, ChunkAt

-----------------------------------------------------------------------------
(* The scan of whole units reads their events.                             *)

\* A layout of the file F, with its types.
LaidOut(F, D, at, ev) ==
    /\ F \in Seq(Cells) /\ D \in Seq(Units)
    /\ at \in [0 .. Len(D) -> Nat] /\ ev \in [0 .. Len(D) -> Seq(Nat)]
    /\ Laid(F, D, at, ev)

\* Each unit of a layout decodes where it lies.
LEMMA LaidUnit ==
    ASSUME NEW F, NEW D, NEW at, NEW ev, LaidOut(F, D, at, ev),
           NEW i \in 1 .. Len(D)
    PROVE  /\ i - 1 \in 0 .. Len(D) /\ at[i - 1] \in Nat /\ at[i] \in Nat
           /\ D[i] \in Units /\ EventsOf(D[i]) \in Seq(Nat)
           /\ Size(D[i]) \in Nat \ {0}
           /\ at[i] = at[i - 1] + Size(D[i]) /\ at[i] <= Len(F)
           /\ UnitAt(F, at[i - 1] + 1, Len(F))
           /\ UnitEnd(F, at[i - 1] + 1) = at[i]
           /\ UnitOf(F, at[i - 1] + 1) = D[i]
           /\ WholeFrame(F, at[i - 1] + PrefixLen + 1,
                         at[i - 1] + PrefixLen + D[i].frameLen)
           /\ F[at[i - 1] + PrefixLen + 1].u = D[i]
<1>1. i - 1 \in 0 .. Len(D) /\ i \in 0 .. Len(D) /\ Len(D) \in 0 .. Len(D)
  BY DEF LaidOut
<1>2. /\ at[i - 1] \in Nat /\ at[i] \in Nat /\ at[Len(D)] \in Nat
      /\ D[i] \in Units
  <2>1. at \in [0 .. Len(D) -> Nat] /\ D \in Seq(Units)
    BY DEF LaidOut
  <2>2. D[i] \in Units
    BY <2>1
  <2> QED
    BY <1>1, <2>1, <2>2
<1>3. /\ D[i].first \in 1 .. D[i].last /\ (Chunked => D[i].frameLen <= MaxChunk)
      /\ at[i] = at[i - 1] + Size(D[i])
      /\ \A k \in 1 .. Size(D[i]) : F[at[i - 1] + k] = UnitCell(D[i], k)
  BY DEF LaidOut, Laid
<1>4. at[i] \in HeadLen .. at[Len(D)] /\ at[Len(D)] <= Len(F)
  BY <1>1 DEF LaidOut, Laid
<1>5. F \in Seq(Cells) /\ Len(F) \in Nat
  BY DEF LaidOut
<1>6. at[i] <= Len(F)
  BY <1>2, <1>4, <1>5 DEF HeadLen
<1>7. EventsOf(D[i]) \in Seq(Nat)
  BY <1>2, <1>3, UnitEvents
<1>8. /\ UnitAt(F, at[i - 1] + 1, Len(F))
      /\ UnitEnd(F, at[i - 1] + 1) = at[i - 1] + Size(D[i])
      /\ UnitOf(F, at[i - 1] + 1) = D[i] /\ Size(D[i]) \in Nat \ {0}
      /\ WholeFrame(F, at[i - 1] + PrefixLen + 1,
                    at[i - 1] + PrefixLen + D[i].frameLen)
      /\ F[at[i - 1] + PrefixLen + 1].u = D[i]
  <2> DEFINE c == at[i - 1]
             u == D[i]
  <2>1. /\ c \in Nat /\ u \in Units /\ c + Size(u) <= Len(F)
        /\ (Chunked => u.frameLen <= MaxChunk)
        /\ \A k \in 1 .. Size(u) : F[c + k] = UnitCell(u, k)
    BY <1>2, <1>3, <1>6
  <2> HIDE DEF c, u
  <2>2. /\ UnitAt(F, c + 1, Len(F)) /\ UnitEnd(F, c + 1) = c + Size(u)
        /\ UnitOf(F, c + 1) = u /\ Size(u) \in Nat \ {0}
        /\ WholeFrame(F, c + PrefixLen + 1, c + PrefixLen + u.frameLen)
        /\ F[c + PrefixLen + 1].u = u
    <3> DEFINE N == Len(F)
    <3>1. N \in Nat /\ N <= Len(F) /\ c + Size(u) <= N /\ Len(F) \in Nat
      BY <1>5, <2>1
    <3> HIDE DEF N
    <3>2. /\ UnitAt(F, c + 1, N) /\ UnitEnd(F, c + 1) = c + Size(u)
          /\ UnitOf(F, c + 1) = u /\ Size(u) \in Nat \ {0}
          /\ WholeFrame(F, c + PrefixLen + 1, c + PrefixLen + u.frameLen)
          /\ F[c + PrefixLen + 1].u = u
      BY <2>1, <3>1, UnitDecodes
    <3> QED
      BY <3>2 DEF N
  <2> QED
    BY <2>2 DEF c, u
<1> QED
  BY <1>1, <1>2, <1>3, <1>6, <1>7, <1>8

\* A scan returns the events of the units that lie in the file, in order, when
\* nothing decodes behind them.
LEMMA ScanReads ==
    ASSUME NEW F, NEW D, NEW at, NEW ev, LaidOut(F, D, at, ev),
           \A q \in at[Len(D)] + 1 .. Len(F) : ~UnitAt(F, q, Len(F))
    PROVE  Scan(F, Len(F)).events = ev[Len(D)]
<1> DEFINE N == Len(F)
           n == Len(D)
           V == [events : Seq(Nat), damaged : BOOLEAN]
<1>1. /\ N \in Nat /\ n \in Nat /\ F \in Seq(Cells)
      /\ at[n] \in Nat /\ at[n] <= N /\ HeadLen <= N
      /\ at[0] = HeadLen /\ ev[0] = <<>> /\ ev[n] \in Seq(Nat)
  <2>1. /\ n \in Nat /\ N \in Nat /\ n \in 0 .. n /\ 0 \in 0 .. n
        /\ F \in Seq(Cells) /\ HeadLen \in {0, 1}
    BY DEF LaidOut, HeadLen
  <2>2. /\ at[n] \in Nat /\ at[0] = HeadLen /\ ev[0] = <<>>
        /\ ev[n] \in Seq(Nat) /\ at[n] <= N /\ at[0] \in HeadLen .. at[n]
    BY <2>1 DEF LaidOut, Laid
  <2> QED
    BY <2>1, <2>2
<1>2. PICK g : /\ Scan(F, N) = g[HeadLen + 1]
               /\ \A p \in 1 .. N + 1 : g[p] = ScanFrom(F, N, g, p)
  <2> GoesForward(F, N)
    BY <1>1, UnitEndsLater DEF GoesForward
  <2> QED
    BY <1>1, ScanIsDefined
<1> DEFINE G == {m \in 0 .. n :
                   /\ g[at[n - m] + 1] \in V
                   /\ ev[n - m] \o g[at[n - m] + 1].events = ev[n]}
<1>3. 0 \in G
  <2> DEFINE p == at[n] + 1
  <2>1. p \in 1 .. N + 1 /\ n - 0 = n /\ 0 \in 0 .. n
    BY <1>1
  <2>4. ev[n] \o <<>> = ev[n]
    BY <1>1
  <2>2. CASE p = N + 1
    <3>1. ScanFrom(F, N, g, p) = [events |-> <<>>, damaged |-> FALSE]
      BY <2>2, Zenon DEF ScanFrom
    <3>2. g[p] = [events |-> <<>>, damaged |-> FALSE]
      BY <1>2, <2>1, <3>1
    <3>7. g[p] \in V /\ g[p].events = <<>>
      BY <3>2
    <3> QED
      BY <2>1, <2>4, <3>7
  <2>3. CASE p # N + 1
    <3>1. p \in at[n] + 1 .. N
      BY <1>1, <2>1, <2>3
    <3>2. ~UnitAt(F, p, N)
      BY <3>1
    <3>3. \A q \in p + 1 .. N : q \in at[n] + 1 .. N
      BY <1>1, <3>1
    <3>4. Resync(F, p, N) = {}
      BY <3>3 DEF Resync
    <3>5. ScanFrom(F, N, g, p) = [events |-> <<>>, damaged |-> TRUE]
      BY <2>3, <3>2, <3>4, Zenon DEF ScanFrom
    <3>6. g[p] = [events |-> <<>>, damaged |-> TRUE]
      BY <1>2, <2>1, <3>5
    <3>7. g[p] \in V /\ g[p].events = <<>>
      BY <3>6
    <3> QED
      BY <2>1, <2>4, <3>7
  <2> QED
    BY <2>2, <2>3
<1>4. ASSUME NEW m \in 0 .. n, m # n, m \in G
      PROVE  m + 1 \in G
  <2> DEFINE i == n - m
             p == at[i - 1] + 1
             rest == g[at[i] + 1]
  <2>1. i \in 1 .. n /\ n - (m + 1) = i - 1 /\ m + 1 \in 0 .. n
    BY <1>1, <1>4
  <2>2. /\ i - 1 \in 0 .. n /\ at[i - 1] \in Nat /\ at[i] \in Nat
        /\ EventsOf(D[i]) \in Seq(Nat) /\ Size(D[i]) \in Nat \ {0}
        /\ at[i] = at[i - 1] + Size(D[i]) /\ at[i] <= N
        /\ UnitAt(F, p, N) /\ UnitEnd(F, p) = at[i] /\ UnitOf(F, p) = D[i]
    <3> HIDE DEF i
    <3> QED
      BY <2>1, LaidUnit, SMTT(30)
  <2>3. rest \in V /\ ev[i] \o rest.events = ev[n]
    BY <1>4
  <2>4. ev[i] = ev[i - 1] \o EventsOf(D[i]) /\ ev[i - 1] \in Seq(Nat)
    <3> HIDE DEF i
    <3> QED
      BY <2>1, <2>2 DEF LaidOut, Laid
  <2>5. p \in 1 .. N + 1 /\ p # N + 1
    <3> HIDE DEF i
    <3> QED
      BY <1>1, <2>2, SMTT(30)
  <2>6. g[p] = [events |-> EventsOf(D[i]) \o rest.events,
                damaged |-> rest.damaged]
    <3>1. g[p] = ScanFrom(F, N, g, p)
      BY <1>2, <2>5
    <3> QED
      BY <2>2, <2>5, <3>1, Zenon DEF ScanFrom
  <2> HIDE DEF rest, p, i
  <2>7. rest.events \in Seq(Nat) /\ rest.damaged \in BOOLEAN
    BY <2>3
  <2>8. EventsOf(D[i]) \o rest.events \in Seq(Nat)
    BY <2>2, <2>7
  <2>9. g[p] \in V
    BY <2>6, <2>7, <2>8
  <2>10. ev[i - 1] \o g[p].events = ev[n]
    <3> DEFINE X == EventsOf(D[i]) \o rest.events
    <3> HIDE DEF X
    <3>0. g[p] = [events |-> X, damaged |-> rest.damaged]
      BY <2>6 DEF X
    <3>1. g[p].events = X
      BY <3>0
    <3>2. ev[i - 1] \o (EventsOf(D[i]) \o rest.events)
            = (ev[i - 1] \o EventsOf(D[i])) \o rest.events
      <4> DEFINE a == ev[i - 1]
                 b == EventsOf(D[i])
                 c == rest.events
      <4>1. a \in Seq(Nat) /\ b \in Seq(Nat) /\ c \in Seq(Nat)
        BY <2>2, <2>4, <2>7
      <4> HIDE DEF a, b, c
      <4>2. (a \o b) \o c = a \o (b \o c)
        BY <4>1, ConcatAssociative, SMTT(30)
      <4> QED
        BY <4>2 DEF a, b, c
    <3> QED
      BY <2>3, <2>4, <3>1, <3>2 DEF X
  <2> QED
    BY <2>1, <2>9, <2>10 DEF p
<1> HIDE DEF G
<1>5. n \in G
  <2>1. 0 .. n \subseteq G
    BY <1>1, <1>3, <1>4, InductionUpTo
  <2> QED
    BY <1>1, <2>1
<1>6. g[HeadLen + 1] \in V /\ <<>> \o g[HeadLen + 1].events = ev[n]
  <2>1. n - n = 0
    BY <1>1
  <2> QED
    BY <1>1, <1>5, <2>1 DEF G
<1>7. <<>> \o g[HeadLen + 1].events = g[HeadLen + 1].events
  <2>1. g[HeadLen + 1].events \in Seq(Nat)
    BY <1>6
  <2> QED
    BY <2>1
<1> QED
  BY <1>2, <1>6, <1>7

-----------------------------------------------------------------------------
(* The index leads to the same events.                                     *)

\* What the loop over the index has after the i-th entry, r being what it had
\* after the others.
IndexFrom(F, footerAt, entries, filters, r, i) ==
    IF i = 0 THEN [events |-> <<>>, damaged |-> FALSE]
    ELSE LET e == entries[i]
             before == r[i - 1]
         IN  IF \E f \in filters : ~Overlaps(f, e) THEN before
             ELSE IF EntryReadable(F, e, footerAt)
             THEN [events  |-> before.events \o
                                 EventsOf(F[e.offset + PrefixLen + 1].u),
                   damaged |-> before.damaged]
             ELSE [events |-> before.events, damaged |-> TRUE]

\* fv[i] are the events of those of the first i units that no filter excludes.
Filtered(D, at, filters, fv) ==
    /\ fv \in [0 .. Len(D) -> Seq(Nat)] /\ fv[0] = <<>>
    /\ \A i \in 1 .. Len(D) :
         fv[i] = IF \E f \in filters : ~Overlaps(f, Entry(D[i], at[i - 1]))
                 THEN fv[i - 1] ELSE fv[i - 1] \o EventsOf(D[i])

\* The entry of a unit leads to it.
LEMMA EntryLeads ==
    ASSUME NEW F, NEW D, NEW at, NEW ev, LaidOut(F, D, at, ev),
           NEW i \in 1 .. Len(D)
    PROVE  LET e == Entry(D[i], at[i - 1])
           IN  /\ EntryReadable(F, e, at[Len(D)])
               /\ F[e.offset + PrefixLen + 1].u = D[i]
<1> DEFINE e == Entry(D[i], at[i - 1])
<1>1. e.offset = at[i - 1] /\ e.frameLen = D[i].frameLen
  BY DEF Entry
<1>2. /\ i - 1 \in 0 .. Len(D) /\ at[i - 1] \in Nat /\ at[i] \in Nat
      /\ D[i] \in Units /\ at[i] = at[i - 1] + Size(D[i])
      /\ WholeFrame(F, at[i - 1] + PrefixLen + 1,
                    at[i - 1] + PrefixLen + D[i].frameLen)
      /\ F[at[i - 1] + PrefixLen + 1].u = D[i]
  BY LaidUnit
<1>3. /\ at[i - 1] \in HeadLen .. at[Len(D)] /\ at[i] \in HeadLen .. at[Len(D)]
      /\ i \in 0 .. Len(D)
  BY <1>2 DEF LaidOut, Laid
<1>4. at[Len(D)] \in Nat /\ HeadLen \in {0, 1} /\ PrefixLen \in {0, 1}
  <2>1. Len(D) \in 0 .. Len(D) /\ at \in [0 .. Len(D) -> Nat]
    BY DEF LaidOut
  <2> QED
    BY <2>1 DEF HeadLen, PrefixLen
<1>5. D[i].frameLen \in Nat /\ Size(D[i]) = PrefixLen + D[i].frameLen
  BY <1>2 DEF Units, Size
<1> HIDE DEF e
<1>6. /\ e.offset >= HeadLen
      /\ e.offset + PrefixLen + e.frameLen <= at[Len(D)]
  <2> DEFINE a == at[i - 1]
             f == D[i].frameLen
             z == at[Len(D)]
  <2>1. /\ a \in Nat /\ f \in Nat /\ z \in Nat /\ a \in HeadLen .. z
        /\ at[i] = a + (PrefixLen + f) /\ at[i] \in HeadLen .. z
    BY <1>2, <1>3, <1>4, <1>5
  <2>2. e.offset = a /\ e.frameLen = f
    BY <1>1
  <2> HIDE DEF a, f, z
  <2>3. e.offset >= HeadLen /\ e.offset + PrefixLen + e.frameLen <= z
    BY <1>4, <2>1, <2>2
  <2> QED
    BY <2>3 DEF z
<1>7. WholeFrame(F, e.offset + PrefixLen + 1, e.offset + PrefixLen + e.frameLen)
  BY <1>1, <1>2
<1> QED
  BY <1>1, <1>2, <1>6, <1>7 DEF EntryReadable, e

\* Reading through the index returns the events of the units it describes,
\* less those that a filter excludes.
LEMMA IndexReads ==
    ASSUME NEW F, NEW D, NEW at, NEW ev, LaidOut(F, D, at, ev),
           NEW filters, NEW fv, Filtered(D, at, filters, fv)
    PROVE  DecodeIndexed(F, at[Len(D)], EntriesOf(D, at), filters).events
             = fv[Len(D)]
<1> DEFINE n == Len(D)
           c == at[n]
           E == EntriesOf(D, at)
           R == [i \in 0 .. n |-> [events |-> fv[i], damaged |-> FALSE]]
           K == CHOOSE r : r = [i \in 0 .. Len(E) |->
                                  IndexFrom(F, c, E, filters, r, i)]
<1>1. n \in Nat /\ Len(E) = n /\ \A i \in 1 .. n : E[i] = Entry(D[i], at[i - 1])
  BY DEF LaidOut, EntriesOf
<1> HIDE DEF E, c
<1>2. \A i \in 0 .. n : R[i] = IndexFrom(F, c, E, filters, R, i)
  <2> TAKE i \in 0 .. n
  <2>1. CASE i = 0
    BY <2>1 DEF IndexFrom, Filtered
  <2>2. CASE i # 0
    <3>1. i \in 1 .. n /\ i - 1 \in 0 .. n
      BY <1>1, <2>2
    <3>2. EntryReadable(F, E[i], c) /\ F[E[i].offset + PrefixLen + 1].u = D[i]
      <4>1. /\ EntryReadable(F, Entry(D[i], at[i - 1]), at[Len(D)])
            /\ F[Entry(D[i], at[i - 1]).offset + PrefixLen + 1].u = D[i]
        BY <3>1, EntryLeads
      <4>2. E[i] = Entry(D[i], at[i - 1]) /\ c = at[Len(D)]
        BY <1>1, <3>1 DEF c
      <4> QED
        BY <4>1, <4>2, Zenon
    <3>3. fv[i] = IF \E f \in filters : ~Overlaps(f, E[i])
                  THEN fv[i - 1] ELSE fv[i - 1] \o EventsOf(D[i])
      BY <1>1, <3>1 DEF Filtered
    <3>4. /\ R[i] = [events |-> fv[i], damaged |-> FALSE]
          /\ R[i - 1] = [events |-> fv[i - 1], damaged |-> FALSE]
          /\ R[i - 1].events = fv[i - 1] /\ R[i - 1].damaged = FALSE
      BY <3>1
    <3> HIDE DEF R
    <3>5. CASE \E f \in filters : ~Overlaps(f, E[i])
      BY <2>2, <3>3, <3>4, <3>5, Zenon DEF IndexFrom
    <3>6. CASE ~\E f \in filters : ~Overlaps(f, E[i])
      BY <2>2, <3>2, <3>3, <3>4, <3>6, Zenon DEF IndexFrom
    <3> QED
      BY <3>5, <3>6
  <2> QED
    BY <2>1, <2>2
<1>3. R = [i \in 0 .. Len(E) |-> IndexFrom(F, c, E, filters, R, i)]
  <2>1. R = [i \in 0 .. n |-> R[i]]
    OBVIOUS
  <2> HIDE DEF R
  <2> QED
    BY <1>1, <1>2, <2>1
<1>4. K = [i \in 0 .. Len(E) |-> IndexFrom(F, c, E, filters, K, i)]
  BY <1>3, Zenon
<1>5. DecodeIndexed(F, c, E, filters) = K[n]
  BY <1>1, Zenon DEF DecodeIndexed, IndexFrom
<1> HIDE DEF K
<1>6. \A i \in 0 .. n : K[i] = IndexFrom(F, c, E, filters, K, i)
  BY <1>1, <1>4
<1> DEFINE G == {m \in 0 .. n : K[m] = R[m]}
<1>7. 0 \in G
  <2>1. 0 \in 0 .. n
    BY <1>1
  <2> QED
    BY <1>2, <1>6, <2>1 DEF IndexFrom
<1>8. ASSUME NEW m \in 0 .. n, m # n, m \in G
      PROVE  m + 1 \in G
  <2>1. m + 1 \in 0 .. n /\ m + 1 # 0 /\ (m + 1) - 1 = m
    BY <1>1, <1>8
  <2>2. K[m] = R[m]
    BY <1>8
  <2> HIDE DEF R
  <2>3. IndexFrom(F, c, E, filters, K, m + 1)
          = IndexFrom(F, c, E, filters, R, m + 1)
    BY <2>1, <2>2, Zenon DEF IndexFrom
  <2> QED
    BY <1>2, <1>6, <2>1, <2>3
<1> HIDE DEF G
<1>9. n \in G
  <2>1. 0 .. n \subseteq G
    BY <1>1, <1>7, <1>8, InductionUpTo
  <2> QED
    BY <1>1, <2>1
<1>10. K[n] = R[n] /\ n \in 0 .. n
  BY <1>1, <1>9 DEF G
<1>11. K[n].events = fv[n]
  BY <1>10
<1> QED
  BY <1>5, <1>11 DEF c, E

-----------------------------------------------------------------------------
(* Both readers, and every tail a file may have.                           *)

\* The footer is complete.
Footed(F, c, entries) == /\ Chunked /\ Len(F) = c + 2
                         /\ F[c + 1] = FooterBody(entries)
                         /\ F[c + 2] = Trailer(c)

\* Without a complete footer nothing decodes behind the units, and the file
\* does not end in a trailer.
LEMMA TailIsSilent ==
    ASSUME NEW F, NEW D, NEW at, NEW ev, LaidOut(F, D, at, ev), NEW entries,
           TailOf(F, at[Len(D)], entries), ~Footed(F, at[Len(D)], entries)
    PROVE  /\ \A q \in at[Len(D)] + 1 .. Len(F) : ~UnitAt(F, q, Len(F))
           /\ ~(Chunked /\ HasTrailer(F))
<1> DEFINE n == Len(D)
           c == at[n]
<1>1. /\ n \in Nat /\ F \in Seq(Cells) /\ Len(F) \in Nat
      /\ c \in Nat /\ c <= Len(F) /\ at[0] = HeadLen /\ HeadLen \in {0, 1}
  <2>1. /\ n \in Nat /\ n \in 0 .. n /\ F \in Seq(Cells) /\ Len(F) \in Nat
        /\ at \in [0 .. n -> Nat]
    BY DEF LaidOut
  <2> QED
    BY <2>1 DEF LaidOut, Laid, HeadLen
<1>2. CASE Len(F) = c
  <2>1. \A q \in c + 1 .. Len(F) : ~UnitAt(F, q, Len(F))
    BY <1>1, <1>2
  <2>2. CASE n = 0
    <3>1. ~(Len(F) >= HeadLen + 2)
      BY <1>1, <1>2, <2>2
    <3> QED
      BY <2>1, <3>1 DEF HasTrailer
  <2>3. CASE n # 0
    <3>1. n \in 1 .. n
      BY <1>1, <2>3
    <3>2. /\ at[n] = at[n - 1] + Size(D[n]) /\ Size(D[n]) \in Nat \ {0}
          /\ at[n - 1] \in Nat
      BY <3>1, LaidUnit
    <3>3. \A k \in 1 .. Size(D[n]) : F[at[n - 1] + k] = UnitCell(D[n], k)
      BY <3>1 DEF LaidOut, Laid
    <3>4. Size(D[n]) \in 1 .. Size(D[n])
      BY <3>2
    <3>5. F[Len(F)] = UnitCell(D[n], Size(D[n]))
      BY <1>2, <3>2, <3>3, <3>4
    <3>6. F[Len(F)].kind = "unit"
      BY <3>5 DEF UnitCell
    <3> QED
      BY <2>1, <3>6 DEF HasTrailer
  <2> QED
    BY <2>2, <2>3
<1>3. CASE Len(F) # c /\ \E u \in Units : Begun(F, c, u)
  <2>1. PICK u \in Units : Begun(F, c, u)
    BY <1>3
  <2>2. c \in 0 .. Len(F)
    BY <1>1
  <2> HIDE DEF c
  <2>3. \A q \in c + 1 .. Len(F) : ~UnitAt(F, q, Len(F))
    BY <1>1, <2>1, <2>2, BeginningIsSilent
  <2>4. Len(F) - c \in 1 .. Len(F) - c /\ c + (Len(F) - c) = Len(F)
    BY <1>1, <1>3
  <2>5. F[Len(F)] = UnitCell(u, Len(F) - c)
    BY <2>1, <2>4 DEF Begun
  <2>6. F[Len(F)].kind = "unit"
    BY <2>5 DEF UnitCell
  <2> QED
    BY <2>3, <2>6 DEF HasTrailer, c
<1>4. CASE FooterBegun(F, c, entries)
  <2>1. /\ Chunked /\ Len(F) = c + 1 /\ F[c + 1] = FooterBody(entries)
    BY <1>1, <1>4 DEF FooterBegun, Footed
  <2>2. c \in 0 .. Len(F)
    BY <1>1
  <2> HIDE DEF c
  <2>3. \A q \in c + 1 .. Len(F) : ~UnitAt(F, q, Len(F))
    BY <1>1, <2>1, <2>2, BodyIsSilent
  <2>4. F[Len(F)].kind = "index"
    BY <2>1 DEF FooterBody
  <2> QED
    BY <2>3, <2>4 DEF HasTrailer, c
<1> QED
  BY <1>2, <1>3, <1>4 DEF TailOf

\* A complete footer is read, and leads to the index.
LEMMA FooterIsRead ==
    ASSUME NEW F \in Seq(Cells), NEW c \in Nat, NEW entries, c >= HeadLen,
           Footed(F, c, entries), NEW filters
    PROVE  ReadUnits(F, filters) = DecodeIndexed(F, c, entries, filters)
<1>1. /\ Chunked /\ Len(F) = c + 2 /\ F[c + 1] = FooterBody(entries)
      /\ F[c + 2] = Trailer(c) /\ HeadLen \in {0, 1}
  BY DEF Footed, HeadLen
<1>2. /\ F[Len(F)].kind = "trailer" /\ F[Len(F)].offset = c
      /\ F[c + 1].kind = "index" /\ F[c + 1].index = entries
  BY <1>1 DEF Trailer, FooterBody
<1>3. Len(F) >= HeadLen + 2 /\ Len(F) - 2 = c /\ Len(F) - 1 = c + 1
  BY <1>1
<1>4. HasTrailer(F)
  BY <1>2, <1>3 DEF HasTrailer
<1>5. FooterValid(F)
  BY <1>2, <1>3 DEF FooterValid
<1> QED
  BY <1>1, <1>2, <1>3, <1>4, <1>5, Zenon DEF ReadUnits

\* What a reader gets of a file of units and a tail.
LEMMA FileReads ==
    ASSUME NEW F, NEW D, NEW at, NEW ev, LaidOut(F, D, at, ev),
           TailOf(F, at[Len(D)], EntriesOf(D, at)),
           NEW filters, NEW fv, Filtered(D, at, filters, fv)
    PROVE  ReadUnits(F, filters).events =
             IF Footed(F, at[Len(D)], EntriesOf(D, at))
             THEN fv[Len(D)] ELSE ev[Len(D)]
<1> DEFINE n == Len(D)
           c == at[n]
           E == EntriesOf(D, at)
<1>1. F \in Seq(Cells) /\ c \in Nat /\ c >= HeadLen
  <2>1. /\ n \in Nat /\ n \in 0 .. n /\ F \in Seq(Cells)
        /\ at \in [0 .. n -> Nat]
    BY DEF LaidOut
  <2>2. at[n] \in Nat /\ at[n] \in HeadLen .. at[n] /\ HeadLen \in {0, 1}
    BY <2>1 DEF LaidOut, Laid, HeadLen
  <2> QED
    BY <2>1, <2>2
<1>2. CASE Footed(F, c, E)
  <2>1. ReadUnits(F, filters) = DecodeIndexed(F, c, E, filters)
    <3> HIDE DEF c, E
    <3> QED
      BY <1>1, <1>2, FooterIsRead
  <2>2. DecodeIndexed(F, c, E, filters).events = fv[n]
    BY IndexReads
  <2> QED
    BY <1>2, <2>1, <2>2, Zenon
<1>3. CASE ~Footed(F, c, E)
  <2>1. /\ \A q \in c + 1 .. Len(F) : ~UnitAt(F, q, Len(F))
        /\ ~(Chunked /\ HasTrailer(F))
    BY <1>3, TailIsSilent
  <2>2. Scan(F, Len(F)).events = ev[n]
    BY <2>1, ScanReads
  <2>3. ReadUnits(F, filters) = Scan(F, Len(F))
    <3>1. ~Chunked \/ ~HasTrailer(F)
      BY <2>1
    <3>2. ~(Chunked /\ HasTrailer(F) /\ FooterValid(F))
      BY <2>1
    <3> QED
      BY <3>1, <3>2 DEF ReadUnits
  <2> QED
    BY <1>3, <2>2, <2>3, Zenon
<1> QED
  BY <1>2, <1>3

\* Without a filter it is the events of every unit.
LEMMA EverythingIsRead ==
    ASSUME NEW F, NEW D, NEW at, NEW ev, LaidOut(F, D, at, ev),
           TailOf(F, at[Len(D)], EntriesOf(D, at))
    PROVE  ReadUnits(F, {}).events = ev[Len(D)]
<1>1. Filtered(D, at, {}, ev)
  BY DEF LaidOut, Laid, Filtered
<1> QED
  BY <1>1, FileReads

-----------------------------------------------------------------------------
(* Writes that keep the units, and the one that adds a unit.               *)

\* A reader of such a file gets those events.
LEMMA HeldIsRead ==
    ASSUME NEW F \in Seq(Cells), NEW c, NEW entries, NEW events,
           FileHolds(F, c, entries, events)
    PROVE  /\ ReadUnits(F, {}).events = events /\ events \in Seq(Nat)
           /\ TailOf(F, c, entries) /\ c \in Nat /\ c >= HeadLen
<1>1. PICK D \in Seq(Units) :
        \E at \in [0 .. Len(D) -> Nat], ev \in [0 .. Len(D) -> Seq(Nat)] :
          /\ Laid(F, D, at, ev)
          /\ TailOf(F, c, entries)
          /\ at[Len(D)] = c /\ ev[Len(D)] = events
          /\ Chunked => entries = EntriesOf(D, at)
  BY DEF FileHolds
<1>2. PICK at \in [0 .. Len(D) -> Nat], ev \in [0 .. Len(D) -> Seq(Nat)] :
        /\ Laid(F, D, at, ev)
        /\ TailOf(F, c, entries)
        /\ at[Len(D)] = c /\ ev[Len(D)] = events
        /\ Chunked => entries = EntriesOf(D, at)
  BY <1>1
<1>3. LaidOut(F, D, at, ev)
  BY <1>2 DEF LaidOut
<1>4. TailOf(F, at[Len(D)], EntriesOf(D, at))
  <2>1. CASE Chunked
    BY <1>2, <2>1
  <2>2. CASE ~Chunked
    BY <1>2, <2>2 DEF TailOf, FooterBegun
  <2> QED
    BY <2>1, <2>2
<1>5. ReadUnits(F, {}).events = ev[Len(D)]
  BY <1>3, <1>4, EverythingIsRead
<1>6. Len(D) \in 0 .. Len(D)
  OBVIOUS
<1>7. at[Len(D)] \in HeadLen .. at[Len(D)]
  BY <1>2, <1>6 DEF Laid
<1> QED
  BY <1>2, <1>5, <1>6, <1>7 DEF HeadLen

\* A write behind the units keeps them.
LEMMA FileKept ==
    ASSUME NEW F \in Seq(Cells), NEW F2 \in Seq(Cells),
           NEW c, NEW entries, NEW events,
           FileHolds(F, c, entries, events),
           Len(F2) >= c, \A i \in 1 .. c : F2[i] = F[i],
           TailOf(F2, c, entries)
    PROVE  FileHolds(F2, c, entries, events)
<1>1. PICK D \in Seq(Units) :
        \E at \in [0 .. Len(D) -> Nat], ev \in [0 .. Len(D) -> Seq(Nat)] :
          /\ Laid(F, D, at, ev)
          /\ TailOf(F, c, entries)
          /\ at[Len(D)] = c /\ ev[Len(D)] = events
          /\ Chunked => entries = EntriesOf(D, at)
  BY DEF FileHolds
<1>2. PICK at \in [0 .. Len(D) -> Nat], ev \in [0 .. Len(D) -> Seq(Nat)] :
        /\ Laid(F, D, at, ev)
        /\ at[Len(D)] = c /\ ev[Len(D)] = events
        /\ Chunked => entries = EntriesOf(D, at)
  BY <1>1
<1>3. LaidOut(F, D, at, ev)
  BY <1>2 DEF LaidOut
<1>4. \A i \in 1 .. Len(D) : \A k \in 1 .. Size(D[i]) :
         F2[at[i - 1] + k] = UnitCell(D[i], k)
  <2> TAKE i \in 1 .. Len(D)
  <2> TAKE k \in 1 .. Size(D[i])
  <2>1. /\ at[i - 1] \in Nat /\ at[i] \in Nat /\ Size(D[i]) \in Nat \ {0}
        /\ at[i] = at[i - 1] + Size(D[i]) /\ i \in 0 .. Len(D)
    BY <1>3, LaidUnit
  <2>2. at[i] \in HeadLen .. at[Len(D)] /\ at[Len(D)] = c /\ c \in Nat
    <3>1. Len(D) \in 0 .. Len(D)
      OBVIOUS
    <3> QED
      BY <1>2, <2>1, <3>1 DEF Laid
  <2>3. at[i - 1] + k \in 1 .. c
    <3> DEFINE a == at[i - 1]
               b == at[i]
               z == Size(D[i])
    <3>1. /\ a \in Nat /\ b \in Nat /\ z \in Nat /\ b = a + z /\ b <= c
          /\ k \in 1 .. z /\ c \in Nat
      BY <2>1, <2>2 DEF HeadLen
    <3> HIDE DEF a, b, z
    <3>2. a + k \in 1 .. c
      BY ONLY <3>1
    <3> QED
      BY <3>2 DEF a
  <2>4. F[at[i - 1] + k] = UnitCell(D[i], k)
    BY <1>2 DEF Laid
  <2> QED
    BY <2>3, <2>4
<1>5. Laid(F2, D, at, ev)
  <2>1. at[Len(D)] <= Len(F2)
    <3>1. Len(D) \in 0 .. Len(D) /\ Len(F2) \in Nat
      OBVIOUS
    <3>2. at[Len(D)] \in Nat
      BY <3>1
    <3> QED
      BY <1>2, <3>1, <3>2
  <2>2. /\ at[0] = HeadLen /\ ev[0] = <<>>
        /\ \A i \in 0 .. Len(D) : at[i] \in HeadLen .. at[Len(D)]
        /\ \A i \in 1 .. Len(D) :
             /\ D[i].first \in 1 .. D[i].last
             /\ Chunked => D[i].frameLen <= MaxChunk
             /\ at[i] = at[i - 1] + Size(D[i])
             /\ ev[i] = ev[i - 1] \o EventsOf(D[i])
    BY <1>2, Zenon DEF Laid
  <2> QED
    BY <1>4, <2>1, <2>2, Zenon DEF Laid
<1> QED
  BY <1>2, <1>5, Zenon DEF FileHolds

\* A unit written whole behind the others extends the file by its events.
LEMMA FileGrows ==
    ASSUME NEW F \in Seq(Cells), NEW F2 \in Seq(Cells),
           NEW c, NEW entries, NEW events, NEW entries2,
           FileHolds(F, c, entries, events),
           NEW u \in Units, u.first \in 1 .. u.last,
           Chunked => u.frameLen <= MaxChunk,
           Len(F2) = c + Size(u), \A i \in 1 .. c : F2[i] = F[i],
           \A k \in 1 .. Size(u) : F2[c + k] = UnitCell(u, k),
           Chunked => entries2 = Append(entries, Entry(u, c))
    PROVE  FileHolds(F2, c + Size(u), entries2, events \o EventsOf(u))
<1>1. PICK D \in Seq(Units) :
        \E at \in [0 .. Len(D) -> Nat], ev \in [0 .. Len(D) -> Seq(Nat)] :
          /\ Laid(F, D, at, ev)
          /\ TailOf(F, c, entries)
          /\ at[Len(D)] = c /\ ev[Len(D)] = events
          /\ Chunked => entries = EntriesOf(D, at)
  BY DEF FileHolds
<1>2. PICK at \in [0 .. Len(D) -> Nat], ev \in [0 .. Len(D) -> Seq(Nat)] :
        /\ Laid(F, D, at, ev)
        /\ at[Len(D)] = c /\ ev[Len(D)] = events
        /\ Chunked => entries = EntriesOf(D, at)
  BY <1>1
<1> DEFINE n == Len(D)
           z == Size(u)
           D2 == Append(D, u)
           at2 == [i \in 0 .. n + 1 |-> IF i = n + 1 THEN c + z ELSE at[i]]
           ev2 == [i \in 0 .. n + 1 |->
                     IF i = n + 1 THEN events \o EventsOf(u) ELSE ev[i]]
<1>3. /\ n \in Nat /\ c \in Nat /\ z \in Nat \ {0} /\ HeadLen \in {0, 1}
      /\ events \in Seq(Nat) /\ EventsOf(u) \in Seq(Nat)
      /\ c >= HeadLen /\ n \in 0 .. n
  <2>1. n \in Nat /\ n \in 0 .. n
    OBVIOUS
  <2>2. c \in Nat /\ events \in Seq(Nat)
    BY <1>2, <2>1
  <2>3. z \in Nat \ {0}
    BY DEF Units, Size, PrefixLen
  <2>4. EventsOf(u) \in Seq(Nat)
    BY UnitEvents
  <2>5. at[n] \in HeadLen .. at[n] /\ HeadLen \in {0, 1}
    BY <1>2, <2>1 DEF Laid, HeadLen
  <2> QED
    BY <1>2, <2>1, <2>2, <2>3, <2>4, <2>5
<1>4. /\ D2 \in Seq(Units) /\ Len(D2) = n + 1 /\ D2[n + 1] = u
      /\ \A i \in 1 .. n : D2[i] = D[i]
  OBVIOUS
<1> HIDE DEF D2, z
<1>5. /\ at2 \in [0 .. n + 1 -> Nat] /\ at2[n + 1] = c + z
      /\ \A i \in 0 .. n : at2[i] = at[i]
  <2>1. \A i \in 0 .. n : at[i] \in Nat
    OBVIOUS
  <2> HIDE DEF n
  <2> QED
    BY <1>3, <2>1
<1>6. /\ ev2 \in [0 .. n + 1 -> Seq(Nat)]
      /\ ev2[n + 1] = events \o EventsOf(u)
      /\ \A i \in 0 .. n : ev2[i] = ev[i]
  <2>1. \A i \in 0 .. n : ev[i] \in Seq(Nat)
    OBVIOUS
  <2>2. events \o EventsOf(u) \in Seq(Nat)
    BY <1>3
  <2> DEFINE e == events \o EventsOf(u)
  <2> HIDE DEF n, e
  <2> QED
    BY <1>3, <2>1, <2>2 DEF e
<1> HIDE DEF at2, ev2
<1>7. LaidOut(F, D, at, ev)
  BY <1>2 DEF LaidOut
<1>8. \A i \in 1 .. n : \A k \in 1 .. Size(D[i]) :
         F2[at[i - 1] + k] = UnitCell(D[i], k)
  <2> TAKE i \in 1 .. n
  <2> TAKE k \in 1 .. Size(D[i])
  <2>1. /\ at[i - 1] \in Nat /\ at[i] \in Nat /\ Size(D[i]) \in Nat \ {0}
        /\ at[i] = at[i - 1] + Size(D[i]) /\ i \in 0 .. n
    BY <1>7, LaidUnit
  <2>2. at[i] \in HeadLen .. c
    BY <1>2, <2>1 DEF Laid
  <2>3. at[i - 1] + k \in 1 .. c
    <3> DEFINE a == at[i - 1]
               b == at[i]
               y == Size(D[i])
    <3>1. /\ a \in Nat /\ b \in Nat /\ y \in Nat /\ b = a + y /\ b <= c
          /\ k \in 1 .. y /\ c \in Nat
      BY <1>3, <2>1, <2>2
    <3> HIDE DEF a, b, y
    <3>2. a + k \in 1 .. c
      BY ONLY <3>1
    <3> QED
      BY <3>2 DEF a
  <2>4. F[at[i - 1] + k] = UnitCell(D[i], k)
    BY <1>2 DEF Laid
  <2> QED
    BY <2>3, <2>4
<1>9. \A i \in 0 .. n + 1 : at2[i] \in HeadLen .. at2[n + 1]
  <2> TAKE i \in 0 .. n + 1
  <2>1. CASE i = n + 1
    BY <1>3, <1>5, <2>1
  <2>2. CASE i # n + 1
    <3>1. i \in 0 .. n
      BY <1>3, <2>2
    <3>2. at[i] \in HeadLen .. c
      BY <1>2, <3>1 DEF Laid
    <3>3. at2[i] \in HeadLen .. c + z
      BY <1>3, <1>5, <3>1, <3>2
    <3> QED
      BY <1>5, <3>3
  <2> QED
    BY <2>1, <2>2
<1>10. \A i \in 1 .. n + 1 :
          /\ D2[i].first \in 1 .. D2[i].last
          /\ Chunked => D2[i].frameLen <= MaxChunk
          /\ at2[i] = at2[i - 1] + Size(D2[i])
          /\ ev2[i] = ev2[i - 1] \o EventsOf(D2[i])
          /\ \A k \in 1 .. Size(D2[i]) : F2[at2[i - 1] + k] = UnitCell(D2[i], k)
  <2> TAKE i \in 1 .. n + 1
  <2>1. CASE i = n + 1
    <3>1. i - 1 = n /\ D2[i] = u /\ at2[i] = c + z
          /\ ev2[i] = events \o EventsOf(u)
      <4>1. i - 1 = n
        BY <1>3, <2>1
      <4> QED
        BY <1>4, <1>5, <1>6, <2>1, <4>1, Zenon
    <3>2. at2[n] = c /\ ev2[n] = events
      BY <1>2, <1>3, <1>5, <1>6
    <3> QED
      BY <3>1, <3>2 DEF z
  <2>2. CASE i # n + 1
    <3>1. i \in 1 .. n /\ i \in 0 .. n /\ i - 1 \in 0 .. n
      BY <1>3, <2>2
    <3>2. /\ D[i].first \in 1 .. D[i].last
          /\ Chunked => D[i].frameLen <= MaxChunk
          /\ at[i] = at[i - 1] + Size(D[i])
          /\ ev[i] = ev[i - 1] \o EventsOf(D[i])
      BY <1>2, <3>1, Zenon DEF Laid
    <3>3. /\ D2[i] = D[i] /\ at2[i] = at[i] /\ at2[i - 1] = at[i - 1]
          /\ ev2[i] = ev[i] /\ ev2[i - 1] = ev[i - 1]
      BY <1>4, <1>5, <1>6, <3>1
    <3> QED
      BY <1>8, <3>1, <3>2, <3>3, Zenon
  <2> QED
    BY <2>1, <2>2
<1>11. Laid(F2, D2, at2, ev2)
  <2>1. at2[0] = HeadLen /\ ev2[0] = <<>>
    <3>1. 0 \in 0 .. n /\ at[0] = HeadLen /\ ev[0] = <<>>
      BY <1>2, <1>3 DEF Laid
    <3> QED
      BY <1>5, <1>6, <3>1
  <2>2. at2[n + 1] <= Len(F2)
    BY <1>3, <1>5 DEF z
  <2> QED
    BY <1>4, <1>9, <1>10, <2>1, <2>2, Zenon DEF Laid
<1>12. TailOf(F2, c + z, entries2)
  BY DEF TailOf, z
<1>13. ASSUME Chunked PROVE entries2 = EntriesOf(D2, at2)
  <2>1. /\ entries = [i \in 1 .. n |-> Entry(D[i], at[i - 1])]
        /\ entries2 = Append(entries, Entry(u, c))
    BY <1>2, <1>13 DEF EntriesOf
  <2>2. /\ entries2 = [i \in 1 .. n + 1 |-> entries2[i]]
        /\ entries2[n + 1] = Entry(u, c)
        /\ \A i \in 1 .. n : entries2[i] = entries[i]
    <3> DEFINE T == {Entry(D[i], at[i - 1]) : i \in 1 .. n} \cup {Entry(u, c)}
               e == Entry(u, c)
    <3>1. \A i \in 1 .. n : Entry(D[i], at[i - 1]) \in T
      OBVIOUS
    <3>2. e \in T
      OBVIOUS
    <3> HIDE DEF T, n, e
    <3>3. entries \in Seq(T) /\ Len(entries) = n
      <4>1. \A i \in 1 .. n : entries[i] \in T
        BY <2>1, <3>1
      <4>2. entries = [i \in 1 .. n |-> entries[i]]
        BY <2>1
      <4>3. n \in Nat
        BY <1>3
      <4>4. entries \in [1 .. n -> T]
        BY ONLY <4>1, <4>2
      <4>5. entries \in Seq(T)
        BY ONLY <4>3, <4>4, SeqDef
      <4> QED
        BY ONLY <4>3, <4>4, <4>5, LenProperties
    <3>4. /\ Append(entries, e) \in Seq(T) /\ Len(Append(entries, e)) = n + 1
          /\ Append(entries, e)[n + 1] = e
          /\ \A i \in 1 .. n : Append(entries, e)[i] = entries[i]
      BY <3>2, <3>3
    <3>5. entries2 = Append(entries, e)
      BY <2>1 DEF e
    <3>6. entries2 = [i \in 1 .. n + 1 |-> entries2[i]]
      <4>1. entries2 \in [1 .. n + 1 -> T]
        BY <3>4, <3>5, LenProperties
      <4> QED
        BY <4>1
    <3> QED
      BY <3>4, <3>5, <3>6 DEF e
  <2>3. \A i \in 1 .. n + 1 : Entry(D2[i], at2[i - 1]) = entries2[i]
    <3> TAKE i \in 1 .. n + 1
    <3> HIDE DEF n
    <3>1. CASE i = n + 1
      <4>1. i - 1 = n /\ D2[i] = u
        BY <1>3, <1>4, <3>1
      <4>2. at2[n] = c
        BY <1>2, <1>3, <1>5 DEF n
      <4> QED
        BY <2>2, <3>1, <4>1, <4>2
    <3>2. CASE i # n + 1
      <4>1. i \in 1 .. n /\ i - 1 \in 0 .. n
        BY <1>3, <3>2
      <4>2. D2[i] = D[i] /\ at2[i - 1] = at[i - 1]
        BY <1>4, <1>5, <4>1
      <4>3. entries2[i] = entries[i] /\ entries[i] = Entry(D[i], at[i - 1])
        BY <2>1, <2>2, <3>2, <4>1
      <4> QED
        BY <4>2, <4>3
    <3> QED
      BY <3>1, <3>2
  <2>4. EntriesOf(D2, at2) = [i \in 1 .. n + 1 |-> Entry(D2[i], at2[i - 1])]
    BY <1>4 DEF EntriesOf
  <2> QED
    BY <2>2, <2>3, <2>4
<1>14. /\ at2 \in [0 .. Len(D2) -> Nat] /\ ev2 \in [0 .. Len(D2) -> Seq(Nat)]
       /\ at2[Len(D2)] = c + z /\ ev2[Len(D2)] = events \o EventsOf(u)
  BY <1>4, <1>5, <1>6
<1>15. FileHolds(F2, c + z, entries2, events \o EventsOf(u))
  BY <1>4, <1>11, <1>12, <1>13, <1>14, Zenon DEF FileHolds
<1> QED
  BY <1>15 DEF z

-----------------------------------------------------------------------------
(* Partial and torn writes.                                                *)

\* Writing leaves alone what lies behind the cells written.
LEMMA OverwriteKeepsRest ==
    ASSUME NEW S, NEW f \in Seq(S), NEW c \in Seq(S), NEW at \in 0 .. Len(f),
           NEW i \in at + Len(c) + 1 .. Len(f)
    PROVE  Overwrite(f, at, c)[i] = f[i]
<1>1. Len(c) \in Nat /\ Len(f) \in Nat /\ at \in Nat
  OBVIOUS
<1>2. /\ i \notin at + 1 .. at + Len(c)
      /\ i \in 1 .. IF Len(f) > at + Len(c) THEN Len(f) ELSE at + Len(c)
  BY <1>1
<1> QED
  BY <1>2 DEF Overwrite

\* The first k cells of a unit over a beginning of the same unit.
LEMMA PartialUnit ==
    ASSUME TypeOK, CursorInFile, NEW u \in Units, Begun(file, cursor, u),
           NEW k \in 0 .. Size(u)
    PROVE  LET F == Partial(CellsOf(u), k)
           IN  /\ KeepsUnits(F)
               /\ Len(F) =
                    IF Len(file) > cursor + k THEN Len(file) ELSE cursor + k
               /\ \A j \in 1 .. Len(F) - cursor : F[cursor + j] = UnitCell(u, j)
<1> DEFINE F == Partial(CellsOf(u), k)
           c == SubSeq(CellsOf(u), 1, k)
<1>1. /\ file \in Seq(Cells) /\ cursor \in 0 .. Len(file) /\ cursor \in Nat
      /\ Len(file) \in Nat
  BY DEF TypeOK, CursorInFile
<1>2. /\ Size(u) \in Nat /\ CellsOf(u) \in Seq(Cells) /\ Len(CellsOf(u)) = Size(u)
      /\ \A j \in 1 .. Size(u) : CellsOf(u)[j] = UnitCell(u, j)
  BY UnitCells
<1>3. KeepsUnits(F) /\ Len(F) = IF Len(file) > cursor + k THEN Len(file) ELSE cursor + k
  BY <1>2, PartialKeepsUnits
<1>4. c \in Seq(Cells) /\ Len(c) = k /\ \A j \in 1 .. k : c[j] = CellsOf(u)[j]
  <2> DEFINE cells == CellsOf(u)
  <2>1. cells \in Seq(Cells) /\ k \in 0 .. Len(cells)
    BY <1>2
  <2> HIDE DEF cells
  <2>2. /\ SubSeq(cells, 1, k) \in Seq(Cells) /\ Len(SubSeq(cells, 1, k)) = k
        /\ \A j \in 1 .. k : SubSeq(cells, 1, k)[j] = cells[j]
    BY <2>1, PrefixProperties
  <2> QED
    BY <2>2 DEF cells
<1>5. F = Overwrite(file, cursor, c)
  BY DEF Partial
<1> HIDE DEF c, F
<1>6. ASSUME NEW j \in 1 .. Len(F) - cursor PROVE F[cursor + j] = UnitCell(u, j)
  <2>1. CASE j <= k
    <3>1. j \in 1 .. Len(c) /\ j \in 1 .. Size(u)
      BY <1>1, <1>2, <1>4, <2>1
    <3>2. Overwrite(file, cursor, c)[cursor + j] = c[j]
      BY <1>1, <1>4, <3>1, OverwriteProperties
    <3> QED
      BY <1>2, <1>4, <1>5, <3>1, <3>2
  <2>2. CASE ~(j <= k)
    <3>1. /\ cursor + j \in cursor + Len(c) + 1 .. Len(file)
          /\ j \in 1 .. Len(file) - cursor
      BY <1>1, <1>3, <1>4, <2>2
    <3>2. Overwrite(file, cursor, c)[cursor + j] = file[cursor + j]
      BY <1>1, <1>4, <3>1, OverwriteKeepsRest
    <3> QED
      BY <1>5, <3>1, <3>2 DEF Begun
  <2> QED
    BY <2>1, <2>2
<1> QED
  BY <1>3, <1>6 DEF F

\* The unit that waits next.
LEMMA NextUnit ==
    ASSUME TypeOK, MemoryInOrder, QueueInv, pending # <<>>, Running
    PROVE  LET u == Head(pending)
           IN  /\ u \in Units /\ u = pending[1] /\ u.first \in 1 .. u.last
               /\ Chunked => u.frameLen <= MaxChunk
               /\ Begun(file, cursor, u)
<1>1. pending \in Seq(Units)
  BY DEF TypeOK
<1>2. Head(pending) \in Units /\ Head(pending) = pending[1] /\ 1 \in DOMAIN pending
  BY <1>1
<1> QED
  BY <1>2 DEF MemoryInOrder, QueueInv

\* A failed write leaves at most a beginning of the unit.
LEMMA TornUnit ==
    ASSUME TypeOK, CursorInFile, NEW u \in Units, Begun(file, cursor, u),
           NEW F \in Torn(CellsOf(u))
    PROVE  KeepsUnits(F) /\ Begun(F, cursor, u)
<1>1. /\ file \in Seq(Cells) /\ cursor \in 0 .. Len(file) /\ cursor \in Nat
      /\ Len(file) \in Nat
  BY DEF TypeOK, CursorInFile
<1>2. /\ Size(u) \in Nat \ {0} /\ CellsOf(u) \in Seq(Cells)
      /\ Len(CellsOf(u)) = Size(u)
  <2>1. Size(u) \in Nat \ {0}
    BY DEF Size, Units, PrefixLen
  <2> QED
    BY <2>1, UnitCells
<1>3. KeepsUnits(F)
  BY <1>2, TornKeepsUnits
<1>4. CASE F = SubSeq(file, 1, cursor)
  <2>1. Len(F) = cursor
    BY <1>1, <1>4, PrefixProperties
  <2> QED
    BY <1>1, <1>2, <1>3, <2>1 DEF Begun
<1>5. CASE \E k \in 0 .. Len(CellsOf(u)) - 1 : F = Partial(CellsOf(u), k)
  <2>1. PICK k \in 0 .. Size(u) - 1 : F = Partial(CellsOf(u), k)
    BY <1>2, <1>5
  <2>2. k \in 0 .. Size(u) /\ k < Size(u)
    BY <1>2
  <2>3. /\ Len(F) = IF Len(file) > cursor + k THEN Len(file) ELSE cursor + k
        /\ \A j \in 1 .. Len(F) - cursor : F[cursor + j] = UnitCell(u, j)
    BY <2>1, <2>2, PartialUnit
  <2>4. Len(file) < cursor + Size(u)
    BY DEF Begun
  <2>5. Len(F) < cursor + Size(u)
    BY <1>1, <1>2, <2>2, <2>3, <2>4
  <2> QED
    BY <1>3, <2>3, <2>5 DEF Begun
<1> QED
  BY <1>4, <1>5 DEF Torn

\* The footer, whole or in part, at the end of the file.
LEMMA FooterWritten ==
    ASSUME TypeOK, CursorInFile, Chunked, Len(file) = cursor, NEW k \in 0 .. 2,
           NEW F, F = Partial(FooterCells(index, cursor), k)
    PROVE  KeepsUnits(F) /\ TailOf(F, cursor, index)
<1> DEFINE cells == FooterCells(index, cursor)
           c == SubSeq(cells, 1, k)
<1>1. /\ file \in Seq(Cells) /\ cursor \in 0 .. Len(file) /\ cursor \in Nat
  BY DEF TypeOK, CursorInFile
<1>2. /\ cells \in Seq(Cells) /\ Len(cells) = 2
      /\ cells[1] = FooterBody(index) /\ cells[2] = Trailer(cursor)
  BY FooterIsCells DEF FooterCells
<1> HIDE DEF cells
<1>3. KeepsUnits(F) /\ Len(F) = cursor + k
  <2>1. F = Partial(cells, k) /\ k \in 0 .. Len(cells)
    BY <1>2 DEF cells
  <2>2. /\ KeepsUnits(F)
        /\ Len(F) = IF Len(file) > cursor + k THEN Len(file) ELSE cursor + k
    BY <1>2, <2>1, PartialKeepsUnits
  <2> QED
    BY <1>1, <2>2
<1>4. c \in Seq(Cells) /\ Len(c) = k /\ \A j \in 1 .. k : c[j] = cells[j]
  BY <1>2, PrefixProperties
<1>5. F = Overwrite(file, cursor, c)
  BY DEF Partial, cells
<1> HIDE DEF c
<1>6. \A j \in 1 .. k : F[cursor + j] = cells[j]
  BY <1>1, <1>4, <1>5, OverwriteProperties
<1>7. CASE k = 0
  BY <1>1, <1>3, <1>7 DEF TailOf
<1>8. CASE k = 1
  BY <1>1, <1>2, <1>3, <1>6, <1>8 DEF TailOf, FooterBegun
<1>9. CASE k = 2
  BY <1>1, <1>2, <1>3, <1>6, <1>9 DEF TailOf, FooterBegun
<1> QED
  BY <1>3, <1>7, <1>8, <1>9

-----------------------------------------------------------------------------
(* What the steps of the writer do to the file.                            *)

\* What is stored is what a reader of the whole file gets.
LEMMA StoredIsRead == /\ Stored = ReadUnits(file, {}).events
                      /\ Stored' = ReadUnits(file', {}).events
BY DEF Stored, Read

\* A file that holds these events keeps DiskInv, and gives them to a reader.
LEMMA NextDisk ==
    ASSUME NEW events, file' \in Seq(Cells), cursor' \in Nat,
           index' \in Seq(Entries),
           \/ FileHolds(file', cursor', index', events)
           \/ /\ pc' = "crashed"
              /\ \E c \in Nat, entries \in Seq(Entries) :
                    FileHolds(file', c, entries, events)
    PROVE  DiskInv' /\ Stored' = events
<1>1. CASE FileHolds(file', cursor', index', events)
  <2>1. ReadUnits(file', {}).events = events
    BY <1>1, HeldIsRead
  <2>2. Stored' = events
    BY <2>1, StoredIsRead
  <2>3. CASE pc' = "crashed"
    BY <1>1, <2>2, <2>3, Zenon DEF DiskInv
  <2>4. CASE pc' # "crashed"
    BY <1>1, <2>2, <2>4, Zenon DEF DiskInv
  <2> QED
    BY <2>2, <2>3, <2>4
<1>2. CASE /\ pc' = "crashed"
           /\ \E c \in Nat, entries \in Seq(Entries) :
                 FileHolds(file', c, entries, events)
  <2>1. PICK c \in Nat, entries \in Seq(Entries) :
                 FileHolds(file', c, entries, events)
    BY <1>2
  <2>2. ReadUnits(file', {}).events = events
    BY <2>1, HeldIsRead
  <2>3. Stored' = events
    BY <2>2, StoredIsRead
  <2> QED
    BY <1>2, <2>1, <2>3, Zenon DEF DiskInv
<1> QED
  BY <1>1, <1>2

\* The unit at the head of the queue, whole on disk, extends what a reader
\* gets by its events.
LEMMA UnitStored ==
    ASSUME TypeOK, MemoryInOrder, CursorInFile, QueueInv, Running,
           pending # <<>>, FileHolds(file, cursor, index, Stored), NEW F,
           F = Partial(CellsOf(Head(pending)), Size(Head(pending))),
           NEW entries,
           Chunked => entries = Append(index, Entry(Head(pending), cursor))
    PROVE  FileHolds(F, cursor + Size(Head(pending)), entries,
                     Stored \o EventsOf(Head(pending)))
<1> DEFINE u == Head(pending)
<1>1. /\ u \in Units /\ u.first \in 1 .. u.last
      /\ Chunked => u.frameLen <= MaxChunk
      /\ Begun(file, cursor, u)
  BY NextUnit
<1> HIDE DEF u
<1>2. /\ file \in Seq(Cells) /\ cursor \in Nat /\ Len(file) \in Nat
      /\ Size(u) \in Nat /\ Len(file) < cursor + Size(u)
  BY <1>1, UnitCells DEF TypeOK, Begun
<1>3. Size(u) \in 0 .. Size(u) /\ F = Partial(CellsOf(u), Size(u))
  BY <1>2 DEF u
<1>4. /\ KeepsUnits(F)
      /\ Len(F) = IF Len(file) > cursor + Size(u) THEN Len(file)
                  ELSE cursor + Size(u)
      /\ \A j \in 1 .. Len(F) - cursor : F[cursor + j] = UnitCell(u, j)
  BY <1>1, <1>3, PartialUnit
<1>5. Len(F) = cursor + Size(u)
  BY <1>2, <1>4
<1>6. /\ F \in Seq(Cells) /\ \A i \in 1 .. cursor : F[i] = file[i]
  BY <1>4 DEF KeepsUnits
<1>7. \A k \in 1 .. Size(u) : F[cursor + k] = UnitCell(u, k)
  <2>1. Len(F) - cursor = Size(u)
    BY <1>2, <1>5
  <2> QED
    BY <1>4, <2>1
<1>8. Chunked => entries = Append(index, Entry(u, cursor))
  BY DEF u
<1>9. FileHolds(F, cursor + Size(u), entries, Stored \o EventsOf(u))
  <2> DEFINE s == Stored
  <2>1. FileHolds(file, cursor, index, s)
    OBVIOUS
  <2> HIDE DEF s
  <2>2. FileHolds(F, cursor + Size(u), entries, s \o EventsOf(u))
    BY <1>1, <1>2, <1>5, <1>6, <1>7, <1>8, <2>1, FileGrows
  <2> QED
    BY <2>2 DEF s
<1> QED
  BY <1>9 DEF u

\* drain: a unit that reaches the disk.
LEMMA DrainUnitDisk ==
    ASSUME TypeOK, TypeOK', MemoryInOrder, CursorInFile, QueueInv, DiskInv,
           DrainUnit
    PROVE  DiskInv' /\ Stored' = Stored \o EventsOf(Head(pending))
<1> DEFINE u == Head(pending)
<1>1. /\ pending # <<>> /\ pc \in {"room", "drain"} /\ pc' = pc
      /\ file' = Overwrite(file, cursor, CellsOf(u))
      /\ cursor' = cursor + Size(u)
      /\ index' = IF Chunked THEN Append(index, Entry(u, cursor)) ELSE index
  BY DEF DrainUnit, Draining, control
<1>2. Running /\ pc # "crashed" /\ pc' # "crashed"
  BY <1>1 DEF Running
<1>3. FileHolds(file, cursor, index, Stored)
  BY <1>2 DEF DiskInv
<1>4. u \in Units
  BY <1>1, <1>2, NextUnit
<1>5. file' = Partial(CellsOf(u), Size(u))
  <2> HIDE DEF u
  <2>1. CellsOf(u) \in Seq(Cells) /\ Len(CellsOf(u)) = Size(u)
    BY <1>4, UnitCells
  <2>2. SubSeq(CellsOf(u), 1, Size(u)) = CellsOf(u)
    <3> DEFINE cells == CellsOf(u)
    <3>1. cells \in Seq(Cells)
      BY <2>1
    <3> HIDE DEF cells, Cells
    <3>2. SubSeq(cells, 1, Len(cells)) = cells
      BY <3>1
    <3> QED
      BY <2>1, <3>2 DEF cells
  <2> QED
    BY <1>1, <2>2 DEF Partial
<1>6. FileHolds(file', cursor', index', Stored \o EventsOf(u))
  <2>1. Chunked => index' = Append(index, Entry(u, cursor))
    BY <1>1
  <2> QED
    BY <1>1, <1>2, <1>3, <1>5, <2>1, UnitStored
<1>7. file' \in Seq(Cells) /\ cursor' \in Nat /\ index' \in Seq(Entries)
  BY DEF TypeOK
<1> QED
  BY <1>2, <1>6, <1>7, NextDisk

\* Any other write keeps what a reader gets.
LEMMA WriteBehind ==
    ASSUME TypeOK, TypeOK', CursorInFile, DiskInv, pc # "crashed",
           cursor' = cursor, index' = index, KeepsUnits(file'),
           TailOf(file', cursor, index)
    PROVE  DiskInv' /\ Stored' = Stored
<1>1. FileHolds(file, cursor, index, Stored)
  BY DEF DiskInv
<1>2. /\ file \in Seq(Cells) /\ file' \in Seq(Cells) /\ Len(file') >= cursor
      /\ \A i \in 1 .. cursor : file'[i] = file[i]
  BY DEF TypeOK, KeepsUnits
<1>3. FileHolds(file', cursor, index, Stored)
  BY <1>1, <1>2, FileKept
<1>4. file' \in Seq(Cells) /\ cursor' \in Nat /\ index' \in Seq(Entries)
  BY DEF TypeOK
<1> QED
  BY <1>3, <1>4, NextDisk

\* A step that does not write keeps it as well.
LEMMA NoWrite ==
    ASSUME TypeOK, TypeOK', DiskInv, cursor' = cursor, index' = index,
           file' = file, pc' # "crashed" => pc # "crashed"
    PROVE  DiskInv' /\ Stored' = Stored
<1>1. Stored' = Stored
  BY StoredIsRead
<1>2. CASE pc # "crashed"
  <2>1. FileHolds(file', cursor', index', Stored)
    BY <1>2 DEF DiskInv
  <2> QED
    BY <2>1, NextDisk DEF TypeOK
<1>3. CASE pc = "crashed"
  <2>1. PICK c \in Nat, entries \in Seq(Entries) : FileHolds(file, c, entries, Stored)
    BY <1>3 DEF DiskInv
  <2>2. FileHolds(file', c, entries, Stored) /\ pc' = "crashed"
    BY <1>3, <2>1
  <2> QED
    BY <2>2, NextDisk DEF TypeOK
<1> QED
  BY <1>2, <1>3

\* What the invariants say of the file while units are drained.
DiskPart == /\ TypeOK /\ ControlInv /\ MemoryInOrder /\ CursorInFile
            /\ TornTailIsOverwritten /\ QueueInv /\ BatchIsSealed /\ DiskInv

\* The steps of a write that fails, and of the footer.
LEMMA TailDisk ==
    ASSUME DiskPart, TypeOK', DrainFails \/ WriteFooter \/ FooterFails
    PROVE  DiskInv' /\ Stored' = Stored
<1>0. /\ TypeOK /\ ControlInv /\ MemoryInOrder /\ CursorInFile
      /\ TornTailIsOverwritten /\ QueueInv /\ BatchIsSealed /\ DiskInv
  BY DEF DiskPart
<1>1. CASE DrainFails
  <2> DEFINE u == Head(pending)
  <2>1. /\ pending # <<>> /\ pc \in {"room", "drain"}
        /\ cursor' = cursor /\ index' = index
        /\ file' \in Torn(CellsOf(u))
    BY <1>1 DEF DrainFails, Draining
  <2>2. Running /\ pc # "crashed"
    BY <2>1 DEF Running
  <2>3. u \in Units /\ Begun(file, cursor, u)
    BY <1>0, <2>1, <2>2, NextUnit
  <2> HIDE DEF u
  <2>4. KeepsUnits(file') /\ Begun(file', cursor, u)
    BY <1>0, <2>1, <2>3, TornUnit
  <2>5. TailOf(file', cursor, index)
    BY <2>3, <2>4 DEF TailOf
  <2> QED
    BY <1>0, <2>1, <2>2, <2>4, <2>5, WriteBehind
<1>2. ASSUME pc = "footer"
      PROVE  Chunked /\ Len(file) = cursor /\ pc # "crashed"
  <2>1. pending = <<>> /\ Chunked
    BY <1>0, <1>2 DEF ControlInv, BatchIsSealed
  <2>2. ~(Len(file) > cursor)
    BY <1>0, <1>2, <2>1 DEF TornTailIsOverwritten, Running
  <2>3. cursor \in Nat /\ Len(file) \in Nat /\ cursor <= Len(file)
    BY <1>0 DEF TypeOK, CursorInFile
  <2> QED
    BY <1>2, <2>1, <2>2, <2>3
<1>3. CASE WriteFooter
  <2> DEFINE cells == FooterCells(index, cursor)
  <2>1. /\ pc = "footer" /\ cursor' = cursor /\ index' = index
        /\ file' = Overwrite(file, cursor, cells)
    BY <1>3 DEF WriteFooter, appender
  <2>2. cells \in Seq(Cells) /\ Len(cells) = 2
    BY <1>0, FooterIsCells
  <2> HIDE DEF cells
  <2>3. SubSeq(cells, 1, 2) = cells
    <3> HIDE DEF Cells
    <3>1. SubSeq(cells, 1, Len(cells)) = cells
      BY <2>2
    <3> QED
      BY <2>2, <3>1
  <2>4. file' = Partial(cells, 2)
    BY <2>1, <2>3 DEF Partial
  <2>5. KeepsUnits(file') /\ TailOf(file', cursor, index)
    BY <1>0, <1>2, <2>1, <2>4, FooterWritten DEF cells
  <2> QED
    BY <1>0, <1>2, <2>1, <2>5, WriteBehind
<1>4. CASE FooterFails
  <2> DEFINE cells == FooterCells(index, cursor)
  <2>1. /\ pc = "footer" /\ cursor' = cursor /\ index' = index
        /\ file' \in Torn(cells)
    BY <1>4 DEF FooterFails, appender
  <2>2. cells \in Seq(Cells) /\ Len(cells) = 2
    BY <1>0, FooterIsCells
  <2>3. CASE file' = SubSeq(file, 1, cursor)
    <3>1. file \in Seq(Cells) /\ cursor \in 0 .. Len(file)
      BY <1>0 DEF TypeOK, CursorInFile
    <3>2. Len(file') = cursor
      BY <2>3, <3>1, PrefixProperties
    <3>3. KeepsUnits(file')
      <4> HIDE DEF cells
      <4> QED
        BY <1>0, <2>1, <2>2, TornKeepsUnits
    <3>4. TailOf(file', cursor, index)
      BY <3>2 DEF TailOf
    <3> QED
      BY <1>0, <1>2, <2>1, <3>3, <3>4, WriteBehind
  <2>4. CASE \E k \in 0 .. Len(cells) - 1 : file' = Partial(cells, k)
    <3>1. PICK k \in 0 .. 1 : file' = Partial(cells, k)
      BY <2>2, <2>4
    <3>2. k \in 0 .. 2
      OBVIOUS
    <3>3. KeepsUnits(file') /\ TailOf(file', cursor, index)
      BY <1>0, <1>2, <2>1, <3>1, <3>2, FooterWritten
    <3> QED
      BY <1>0, <1>2, <2>1, <3>3, WriteBehind
  <2> QED
    BY <2>1, <2>3, <2>4 DEF Torn
<1> QED
  BY <1>1, <1>3, <1>4

\* A crash keeps what a reader gets, or adds the unit being written.
LEMMA CrashDisk ==
    ASSUME DiskPart, TypeOK', Crash
    PROVE  /\ DiskInv'
           /\ \/ Stored' = Stored
              \/ /\ Draining /\ pending # <<>>
                 /\ Stored' = Stored \o EventsOf(Head(pending))
<1>0. /\ TypeOK /\ ControlInv /\ MemoryInOrder /\ CursorInFile
      /\ TornTailIsOverwritten /\ QueueInv /\ BatchIsSealed /\ DiskInv
  BY DEF DiskPart
<1>1. /\ Running /\ pc # "crashed" /\ pc' = "crashed"
      /\ cursor' = cursor /\ index' = index
      /\ file' \in CrashImages
  BY DEF Crash, Running
<1>2. PICK k \in 0 .. Len(InFlight) : file' = Partial(InFlight, k)
  BY <1>1 DEF CrashImages
<1>3. CASE Draining /\ pending # <<>>
  <2> DEFINE u == Head(pending)
  <2>1. InFlight = CellsOf(u)
    BY <1>3 DEF InFlight
  <2>2. u \in Units /\ Begun(file, cursor, u)
    BY <1>0, <1>1, <1>3, NextUnit
  <2> HIDE DEF u
  <2>3. k \in 0 .. Size(u) /\ file' = Partial(CellsOf(u), k) /\ Size(u) \in Nat
    BY <1>2, <2>1, <2>2, UnitCells
  <2>4. CASE k = Size(u)
    <3>1. FileHolds(file, cursor, index, Stored)
      BY <1>0, <1>1 DEF DiskInv
    <3>2. FileHolds(file', cursor + Size(u), Append(index, Entry(u, cursor)),
                    Stored \o EventsOf(u))
      BY <1>0, <1>1, <1>3, <2>3, <2>4, <3>1, UnitStored DEF u
    <3>3. /\ cursor + Size(u) \in Nat
          /\ Append(index, Entry(u, cursor)) \in Seq(Entries)
      <4>1. cursor \in Nat /\ index \in Seq(Entries)
        BY <1>0 DEF TypeOK
      <4>2. Entry(u, cursor) \in Entries
        <5>1. /\ u.first \in 1 .. u.last /\ u.first \in Nat /\ u.last \in Nat
              /\ u.frameLen \in Nat /\ u.lo \in Nat /\ u.hi \in Nat
              /\ u.sources \in SUBSET Nat
          BY <1>0, <1>1, <1>3, <2>2, NextUnit DEF Units, u
        <5>2. Count(u) \in Nat
          BY <5>1 DEF Count
        <5> QED
          BY <4>1, <5>1, <5>2 DEF Entry, Entries
      <4>3. cursor + Size(u) \in Nat
        BY <2>3, <4>1
      <4> HIDE DEF Entries
      <4> QED
        BY <4>1, <4>2, <4>3
    <3>4. file' \in Seq(Cells) /\ cursor' \in Nat /\ index' \in Seq(Entries)
      BY DEF TypeOK
    <3>5. DiskInv' /\ Stored' = Stored \o EventsOf(u)
      <4> DEFINE s == Stored \o EventsOf(u)
                 e == Append(index, Entry(u, cursor))
                 z == cursor + Size(u)
      <4>1. FileHolds(file', z, e, s) /\ z \in Nat /\ e \in Seq(Entries)
        BY <3>2, <3>3
      <4> HIDE DEF s, e, z
      <4>2. DiskInv' /\ Stored' = s
        BY <1>1, <3>4, <4>1, NextDisk
      <4> QED
        BY <4>2 DEF s
    <3> QED
      BY <1>3, <3>5 DEF u
  <2>5. CASE k # Size(u)
    <3>1. KeepsUnits(file') /\ Begun(file', cursor, u)
      <4>1. k \in 0 .. Len(CellsOf(u)) - 1
        BY <2>2, <2>3, <2>5, UnitCells
      <4>2. file' \in Torn(CellsOf(u))
        BY <2>3, <4>1 DEF Torn
      <4> QED
        BY <1>0, <2>2, <4>2, TornUnit
    <3>2. TailOf(file', cursor, index)
      BY <2>2, <3>1 DEF TailOf
    <3> QED
      BY <1>0, <1>1, <3>1, <3>2, WriteBehind
  <2> QED
    BY <2>4, <2>5
<1>4. CASE ~(Draining /\ pending # <<>>) /\ pc = "footer"
  <2>1. InFlight = FooterCells(index, cursor)
    BY <1>4 DEF InFlight
  <2>2. pending = <<>> /\ Chunked
    BY <1>0, <1>4 DEF ControlInv, BatchIsSealed
  <2>3. ~(Len(file) > cursor)
    BY <1>0, <1>4, <2>2 DEF TornTailIsOverwritten, Running
  <2>4. Len(file) = cursor
    BY <1>0, <2>3 DEF TypeOK, CursorInFile
  <2>5. k \in 0 .. 2
    BY <1>0, <1>2, <2>1, FooterIsCells
  <2>6. KeepsUnits(file') /\ TailOf(file', cursor, index)
    BY <1>0, <1>2, <2>1, <2>2, <2>4, <2>5, FooterWritten
  <2> QED
    BY <1>0, <1>1, <2>6, WriteBehind
<1>5. CASE ~(Draining /\ pending # <<>>) /\ pc # "footer"
  <2>1. InFlight = <<>>
    BY <1>5 DEF InFlight
  <2>2. /\ file \in Seq(Cells) /\ cursor \in 0 .. Len(file) /\ Len(file) \in Nat
    BY <1>0 DEF TypeOK, CursorInFile
  <2>3. k = 0
    BY <1>2, <2>1
  <2>4. file' = Overwrite(file, cursor, <<>>)
    <3> DEFINE none == InFlight
    <3>1. none \in Seq(Cells) /\ 0 \in 0 .. Len(none)
      BY <2>1
    <3> HIDE DEF none
    <3>2. SubSeq(none, 1, 0) \in Seq(Cells) /\ Len(SubSeq(none, 1, 0)) = 0
      BY <3>1, PrefixProperties
    <3>3. SubSeq(none, 1, 0) = <<>>
      <4> HIDE DEF Cells
      <4> QED
        BY <3>2
    <3> QED
      BY <1>2, <2>3, <3>3 DEF Partial, none
  <2>5. Overwrite(file, cursor, <<>>) = [i \in 1 .. Len(file) |-> file[i]]
    BY <2>2 DEF Overwrite
  <2>6. file' = file
    BY <2>2, <2>4, <2>5
  <2> QED
    BY <1>0, <1>1, <2>6, NoWrite
<1> QED
  BY <1>3, <1>4, <1>5

\* The other steps do not write units.
Quiet == \/ \E e \in Events : WriteEvent(e)
         \/ Push \/ Seal \/ DrainDone \/ DrainFails \/ Flush \/ Finalize
         \/ Finish \/ DiskRefuses \/ DiskRecovers \/ UNCHANGED vars

LEMMA QuietDisk ==
    ASSUME DiskPart, TypeOK', Quiet
    PROVE  DiskInv' /\ Stored' = Stored
<1>1. CASE DrainFails \/ WriteFooter \/ FooterFails
  BY <1>1, TailDisk
<1>2. CASE /\ cursor' = cursor /\ index' = index /\ file' = file
           /\ pc' # "crashed" => pc # "crashed"
  BY <1>2, NoWrite DEF DiskPart
<1>3. CASE Push \/ Flush \/ Finalize \/ \E e \in Events : WriteEvent(e)
  BY <1>2, <1>3 DEF Push, Flush, Finalize, WriteEvent, appender
<1>4. CASE Seal
  BY <1>2, <1>4 DEF Seal, SealUnit, SealFails, SealNothing, Enqueue, appender
<1>5. CASE DrainDone
  BY <1>2, <1>5 DEF DrainDone, Draining
<1>6. CASE WriteMeta \/ MetaFails
  BY <1>2, <1>6 DEF WriteMeta, MetaFails, appender
<1>7. CASE DiskRefuses \/ DiskRecovers \/ UNCHANGED vars
  BY <1>2, <1>7 DEF DiskRefuses, DiskRecovers, vars, appender, control
<1> QED
  BY <1>1, <1>3, <1>4, <1>5, <1>6, <1>7 DEF Quiet, Finish

\* Together these are all the steps.
LEMMA StepKinds == ASSUME [Next]_vars PROVE DrainUnit \/ Crash \/ Quiet
BY DEF Next, Quiet, Drain

-----------------------------------------------------------------------------
(* The queue, its sizes, and calls that leave no batch behind.             *)

\* At the end of the file any unit begins.
LEMMA BegunAtEnd ==
    ASSUME NEW F \in Seq(Cells), NEW c, Len(F) = c, NEW u \in Units
    PROVE  Begun(F, c, u)
<1>1. Size(u) \in Nat \ {0} /\ Len(F) \in Nat
  BY DEF Size, Units, PrefixLen
<1> QED
  BY <1>1 DEF Begun

\* The sizes of the units in memory stay those of the scan ...
FramesFit ==
    /\ \A i \in DOMAIN pending : Chunked => pending[i].frameLen <= MaxChunk
    /\ \A h \in DOMAIN hand : Chunked => hand[h].frameLen <= MaxChunk

LEMMA FramesFitStep ==
    ASSUME TypeOK, ControlInv, FramesFit, [Next]_vars
    PROVE  FramesFit'
<1>0. pending \in Seq(Units) /\ hand \in Seq(Units)
  BY DEF TypeOK
<1>1. ASSUME NEW n \in FrameLens, SealUnit(n) PROVE FramesFit'
  <2>1. /\ pending' = pending /\ hand' = <<SealedUnit(n)>>
        /\ SealedUnit(n).frameLen = n /\ (Chunked => n <= MaxChunk)
    BY <1>1 DEF SealUnit, appender, SealedUnit, Sealable
  <2>2. DOMAIN hand' = {1} /\ hand'[1] = SealedUnit(n)
    BY <2>1
  <2> QED
    BY <2>1, <2>2 DEF FramesFit
<1>2. CASE Enqueue
  <2>1. hand' = <<>> /\ pc = "enqueue"
        /\ (pending' = pending \/ pending' = Append(pending, hand[1]))
    BY <1>2 DEF Enqueue, Queued
  <2>l. Len(hand) = 1
    BY <2>1 DEF ControlInv
  <2>2. 1 \in DOMAIN hand /\ hand[1] \in Units
    BY <1>0, <2>l
  <2>3. CASE pending' = pending
    BY <2>1, <2>3 DEF FramesFit
  <2>4. CASE pending' = Append(pending, hand[1])
    <3>1. \A i \in DOMAIN pending' :
             (i \in DOMAIN pending /\ pending'[i] = pending[i]) \/ pending'[i] = hand[1]
      <4> DEFINE u == hand[1]
      <4> HIDE DEF u
      <4>1. pending' = Append(pending, u) /\ u \in Units
        BY <2>2, <2>4 DEF u
      <4>2. \A i \in DOMAIN pending' :
             (i \in DOMAIN pending /\ pending'[i] = pending[i]) \/ pending'[i] = u
        BY <1>0, <4>1
      <4> QED
        BY <4>2 DEF u
    <3> QED
      BY <2>1, <2>2, <3>1 DEF FramesFit
  <2> QED
    BY <2>1, <2>3, <2>4
<1>3. CASE DrainUnit
  <2>1. pending # <<>> /\ pending' = Tail(pending) /\ hand' = hand
    BY <1>3 DEF DrainUnit
  <2>2. \A i \in DOMAIN pending' : i + 1 \in DOMAIN pending /\ pending'[i] = pending[i + 1]
    BY <1>0, <2>1
  <2> QED
    BY <2>1, <2>2 DEF FramesFit
<1>4. CASE /\ pending' = pending \/ pending' = <<>>
           /\ hand' = hand \/ hand' = <<>>
  BY <1>4 DEF FramesFit
<1>5. CASE Push \/ Flush \/ Finalize \/ \E e \in Events : WriteEvent(e)
  BY <1>4, <1>5 DEF Push, Flush, Finalize, WriteEvent, appender
<1>6. CASE SealNothing \/ \E n \in FrameLens : SealFails(n)
  BY <1>4, <1>6 DEF SealNothing, SealFails, appender
<1>7. CASE DrainDone \/ DrainFails
  <2>1. hand' = hand /\ (pending' = pending \/ pending' = <<>>)
    BY <1>7 DEF DrainDone, DrainFails, AfterDrain
  <2> QED
    BY <1>4, <2>1
<1>8. CASE Finish \/ Crash \/ DiskRefuses \/ DiskRecovers \/ UNCHANGED vars
  BY <1>4, <1>8 DEF Finish, WriteFooter, FooterFails, WriteMeta, MetaFails,
                   Crash, DiskRefuses, DiskRecovers, vars, appender
<1> QED
  BY <1>1, <1>2, <1>3, <1>5, <1>6, <1>7, <1>8 DEF Next, Seal, Drain

\* ... and what is torn belongs to the unit that waits next.
LEMMA QueueInvStep ==
    ASSUME DiskPart, TypeOK', [Next]_vars
    PROVE  QueueInv'
<1>0. /\ TypeOK /\ ControlInv /\ MemoryInOrder /\ CursorInFile
      /\ TornTailIsOverwritten /\ QueueInv
  BY DEF DiskPart
<1>f. FramesFit'
  BY <1>0, FramesFitStep DEF QueueInv, FramesFit
<1> DEFINE TornInv == Running /\ pending # <<>> => Begun(file, cursor, Head(pending))
<1>t. TornInv
  BY <1>0 DEF QueueInv
<1> SUFFICES TornInv'
  BY <1>f DEF QueueInv, FramesFit
<1>1. CASE /\ file' = file /\ cursor' = cursor /\ pending' = pending
           /\ Running' => Running
  <2> USE <1>1
  <2> HAVE Running' /\ pending' # <<>>
  <2>1. Begun(file, cursor, Head(pending))
    BY <1>t
  <2> QED
    BY <2>1
<1>2. CASE pending' = <<>> \/ ~Running'
  BY <1>2
<1>3. CASE Enqueue
  <2>1. /\ file' = file /\ cursor' = cursor /\ pc = "enqueue" /\ Running
        /\ (pending' = pending \/ pending' = Append(pending, hand[1]))
    BY <1>3 DEF Enqueue, Queued, Running
  <2>2. pending \in Seq(Units) /\ pending' \in Seq(Units)
    BY <1>0 DEF TypeOK
  <2>3. CASE pending = <<>>
    <3>1. ~(Len(file) > cursor)
      BY <1>0, <2>1, <2>3 DEF TornTailIsOverwritten
    <3>2. file \in Seq(Cells) /\ Len(file) = cursor
      BY <1>0, <3>1 DEF TypeOK, CursorInFile
    <3>3. pending' # <<>> => Head(pending') \in Units
      BY <2>2
    <3>4. pending' # <<>> => Begun(file, cursor, Head(pending'))
      BY <3>2, <3>3, BegunAtEnd
    <3> QED
      BY <2>1, <3>4
  <2>4. CASE pending # <<>>
    <3>1. Begun(file, cursor, Head(pending))
      BY <1>t, <2>1, <2>4
    <3>2. Head(pending') = Head(pending)
      <4> DEFINE u == hand[1]
      <4>h. Len(hand) = 1 /\ hand \in Seq(Units)
        BY <1>0, <2>1 DEF TypeOK, ControlInv
      <4>1. u \in Units
        BY <4>h
      <4> HIDE DEF u
      <4>2. pending' = pending \/ pending' = Append(pending, u)
        BY <2>1 DEF u
      <4> QED
        BY <2>2, <2>4, <4>1, <4>2
    <3> QED
      BY <2>1, <3>1, <3>2
  <2> QED
    BY <2>3, <2>4
<1>4. CASE DrainUnit
  <2> DEFINE u == Head(pending)
  <2>1. /\ pending # <<>> /\ pc \in {"room", "drain"}
        /\ file' = Overwrite(file, cursor, CellsOf(u))
        /\ cursor' = cursor + Size(u)
    BY <1>4 DEF DrainUnit, Draining
  <2>2. /\ Size(u) \in Nat
        /\ Len(file') = IF Len(file) > cursor + Size(u)
                        THEN Len(file) ELSE cursor + Size(u)
    BY <1>0, <2>1, DrainedFile
  <2>3. Len(file) > cursor => Len(file) < cursor + Size(u)
    BY <1>0, <2>1 DEF TornTailIsOverwritten, Running
  <2>4. Len(file) \in Nat /\ cursor \in Nat
    BY <1>0 DEF TypeOK
  <2> HIDE DEF u
  <2>5. Len(file') = cursor'
    BY <2>1, <2>2, <2>3, <2>4
  <2>6. file' \in Seq(Cells) /\ (pending' # <<>> => Head(pending') \in Units)
    BY SMTT(30) DEF TypeOK
  <2>7. pending' # <<>> => Begun(file', cursor', Head(pending'))
    BY <2>5, <2>6, BegunAtEnd
  <2> QED
    BY <2>7
<1>5. CASE DrainFails
  <2>1. /\ pending # <<>> /\ pc \in {"room", "drain"} /\ cursor' = cursor
        /\ file' \in Torn(CellsOf(Head(pending)))
        /\ pending' = pending \/ pending' = <<>>
    BY <1>5 DEF DrainFails, Draining, AfterDrain
  <2>2. Head(pending) \in Units /\ Begun(file, cursor, Head(pending))
    BY <1>0, <2>1, NextUnit DEF Running
  <2>3. Begun(file', cursor, Head(pending))
    BY <1>0, <2>1, <2>2, TornUnit
  <2> QED
    BY <1>2, <2>1, <2>3
<1>6. CASE DrainDone
  <2>1. pending = <<>> /\ pending' = pending
    BY <1>6 DEF DrainDone, AfterDrain
  <2> QED
    BY <1>2, <2>1
<1>7. CASE Finish /\ call = "finalize"
  <2>1. pc \in {"footer", "meta"} /\ pending' = pending
    BY <1>7 DEF Finish, WriteFooter, FooterFails, WriteMeta, MetaFails, appender
  <2>2. pending = <<>>
    BY <1>0, <2>1 DEF ControlInv
  <2> QED
    BY <1>2, <2>1, <2>2
<1>8. CASE Crash
  BY <1>2, <1>8 DEF Crash
<1>9. CASE Push \/ Flush \/ Finalize \/ \E e \in Events : WriteEvent(e)
  BY <1>1, <1>9 DEF Push, Flush, Finalize, WriteEvent, appender, Running
<1>10. CASE SealNothing \/ \E n \in FrameLens : SealFails(n) \/ SealUnit(n)
  BY <1>1, <1>10 DEF SealNothing, SealFails, SealUnit, appender, Running
<1>11. CASE DiskRefuses \/ DiskRecovers \/ UNCHANGED vars
  BY <1>1, <1>11 DEF DiskRefuses, DiskRecovers, vars, appender, control, Running
<1> QED
  BY <1>3, <1>4, <1>5, <1>6, <1>7, <1>8, <1>9, <1>10, <1>11
     DEF Next, Seal, Drain

\* A flush (without a threshold) and finalize seal what there is.
LEMMA BatchIsSealedStep ==
    ASSUME TypeOK, ControlInv, BatchIsSealed, [Next]_vars
    PROVE  BatchIsSealed'
<1>0. batch.n \in Nat /\ batch.bytes \in Nat /\ EmptyBatch.n = 0
      /\ hand \in Seq(Units)
  BY DEF TypeOK, EmptyBatch
<1>1. ASSUME NEW e \in Events, WriteEvent(e) PROVE BatchIsSealed'
  BY <1>1 DEF WriteEvent, Return, BatchIsSealed
<1>2. CASE Push
  BY <1>2 DEF Push, Return, BatchIsSealed
<1>3. ASSUME NEW n \in FrameLens, SealUnit(n) \/ SealFails(n)
      PROVE  BatchIsSealed'
  <2>1. batch' = EmptyBatch /\ pc' \in {"room", "enqueue", "drain", "idle"}
    BY <1>3 DEF SealUnit, SealFails, GoTo, AfterSeal, Return
  <2> QED
    BY <1>0, <2>1 DEF BatchIsSealed
<1>4. CASE SealNothing
  BY <1>4 DEF SealNothing, AfterSeal, BatchIsSealed
<1>5. CASE Enqueue
  <2>1. /\ batch' = batch /\ pc = "enqueue" /\ pc' \in {"idle", "drain"}
        /\ call' = call \/ call' = "none"
    BY <1>5 DEF Enqueue, AfterSeal, Return
  <2> QED
    BY <2>1 DEF BatchIsSealed
<1>6. CASE DrainUnit \/ DiskRefuses \/ DiskRecovers \/ UNCHANGED vars
  <2>1. UNCHANGED <<batch, pc, call, hand>>
    BY <1>6 DEF DrainUnit, DiskRefuses, DiskRecovers, vars, control
  <2> QED
    BY <2>1 DEF BatchIsSealed
<1>7. CASE DrainDone \/ DrainFails
  <2>1. /\ batch' = batch /\ pc \in {"room", "drain"}
        /\ \/ /\ pc' \in {"enqueue", "push"} /\ call' = call
           \/ /\ pc' = "idle" /\ call' = "none"
           \/ /\ pc' \in {"footer", "meta"} /\ call = "finalize" /\ call' = call
              /\ pc' = "footer" => Chunked
    BY <1>7 DEF DrainDone, DrainFails, AfterDrain, GoTo, Return, Draining
  <2> QED
    BY <2>1 DEF BatchIsSealed
<1>8. CASE Flush
  <2>1. /\ batch' = batch /\ call' = "flush"
        /\ pc' = IF FlushSeals THEN "seal" ELSE "drain"
    BY <1>8 DEF Flush
  <2>2. (Chunked => FlushMin = 0) /\ ~FlushSeals => batch.n = 0
    BY <1>0 DEF FlushSeals
  <2> QED
    BY <2>1, <2>2 DEF BatchIsSealed
<1>9. CASE Finalize
  BY <1>9 DEF Finalize, BatchIsSealed
<1>10. CASE Finish /\ call = "finalize"
  <2>1. /\ batch' = batch /\ hand' = hand /\ pc \in {"footer", "meta"}
        /\ \/ pc' = "meta" /\ call' = call
           \/ pc' = "closed" /\ call' = "none"
    BY <1>10 DEF Finish, WriteFooter, FooterFails, WriteMeta, MetaFails, GoTo,
                 Closed
  <2>2. hand = <<>>
    BY <1>0, <2>1 DEF ControlInv
  <2> QED
    BY <1>10, <2>1, <2>2 DEF BatchIsSealed
<1>11. CASE Crash
  BY <1>0, <1>11 DEF Crash, BatchIsSealed
<1> QED
  BY <1>1, <1>2, <1>3, <1>4, <1>5, <1>6, <1>7, <1>8, <1>9, <1>10, <1>11
     DEF Next, Seal, Drain

-----------------------------------------------------------------------------
(* What the steps of the writer do to the events in memory.                *)

\* A unit appended brings its events, and the first one holds those that are
\* not left behind it.
LEMMA AppendedEvents ==
    ASSUME NEW s \in Seq(Units), NEW u \in Units
    PROVE  EventSet(Append(s, u)) = EventSet(s) \cup (u.first .. u.last)
<1>1. EventSet(Append(s, u)) \subseteq EventSet(s) \cup (u.first .. u.last)
  BY AppendedUnit
<1>2. ASSUME NEW x \in EventSet(s) PROVE x \in EventSet(Append(s, u))
  <2>1. PICK i \in DOMAIN s : x \in s[i].first .. s[i].last
    BY <1>2 DEF EventSet
  <2>2. i \in DOMAIN Append(s, u) /\ Append(s, u)[i] = s[i]
    OBVIOUS
  <2> QED
    BY <2>1, <2>2 DEF EventSet
<1>3. u.first .. u.last \subseteq EventSet(Append(s, u))
  <2>1. Len(s) + 1 \in DOMAIN Append(s, u) /\ Append(s, u)[Len(s) + 1] = u
    OBVIOUS
  <2> QED
    BY <2>1 DEF EventSet
<1> QED
  BY <1>1, <1>2, <1>3

LEMMA HeadEvents ==
    ASSUME NEW s \in Seq(Units), s # <<>>
    PROVE  EventSet(s) = (Head(s).first .. Head(s).last) \cup EventSet(Tail(s))
<1>1. EventSet(Tail(s)) \subseteq EventSet(s)
  BY TailUnits
<1>2. Head(s).first .. Head(s).last \subseteq EventSet(s)
  <2>1. 1 \in DOMAIN s /\ s[1] = Head(s)
    OBVIOUS
  <2> QED
    BY <2>1 DEF EventSet
<1>3. ASSUME NEW x \in EventSet(s), x \notin Head(s).first .. Head(s).last
      PROVE  x \in EventSet(Tail(s))
  <2>1. PICK i \in DOMAIN s : x \in s[i].first .. s[i].last
    BY DEF EventSet
  <2>2. i # 1
    BY <1>3, <2>1
  <2>3. i - 1 \in DOMAIN Tail(s) /\ Tail(s)[i - 1] = s[i]
    BY <2>2
  <2> QED
    BY <2>1, <2>3 DEF EventSet
<1> QED
  BY <1>1, <1>2, <1>3

\* The events of the unit that waits first are the oldest in memory.
LEMMA HeadIsOldest ==
    ASSUME TypeOK, MemoryInOrder, pending # <<>>,
           NEW ids, ids = Head(pending).first .. Head(pending).last
    PROVE  /\ ids # {} /\ ids \subseteq InMemory
           /\ InMemory \ ids =
                EventSet(Tail(pending)) \cup EventSet(hand) \cup InBatch
           /\ \A x \in ids, y \in InMemory \ ids : x < y
<1> DEFINE u == Head(pending)
           rest == Tail(pending)
<1>0. /\ pending \in Seq(Units) /\ hand \in Seq(Units)
      /\ Len(log) \in Nat /\ batch.n \in Nat /\ batch.n <= Len(log)
      /\ \A v \in Units : v.first \in Nat /\ v.last \in Nat
  <2>1. \A v \in Units : v.first \in Nat /\ v.last \in Nat
    BY DEF Units
  <2> QED
    BY <2>1 DEF TypeOK, MemoryInOrder
<1>1. /\ 1 \in DOMAIN pending /\ pending[1] = u /\ u \in Units
      /\ u.first \in 1 .. u.last /\ u.last <= Len(log) - batch.n
      /\ u.first \in Nat /\ u.last \in Nat
  <2>1. 1 \in DOMAIN pending /\ pending[1] = u /\ u \in Units
    BY <1>0
  <2>2. pending[1].first \in 1 .. pending[1].last /\ pending[1].last <= Len(log) - batch.n
    BY <2>1 DEF MemoryInOrder
  <2> QED
    BY <1>0, <2>1, <2>2
<1>2. EventSet(pending) = ids \cup EventSet(rest)
  BY <1>0, HeadEvents
<1>3. ASSUME NEW x \in ids, NEW y \in EventSet(rest) PROVE x < y
  <2>1. PICK i \in DOMAIN rest : y \in rest[i].first .. rest[i].last
    BY DEF EventSet
  <2>2. /\ i + 1 \in DOMAIN pending /\ pending[i + 1] = rest[i]
        /\ rest[i] \in Units /\ 1 < i + 1
    BY <1>0
  <2>3. u.last < rest[i].first
    BY <1>1, <2>2 DEF MemoryInOrder
  <2>4. rest[i].first \in Nat
    BY <1>0, <2>2
  <2> HIDE DEF u, rest
  <2>5. x \in u.first .. u.last
    BY DEF u
  <2> QED
    BY <1>1, <2>1, <2>3, <2>4, <2>5
<1>4. ASSUME NEW x \in ids, NEW y \in EventSet(hand) PROVE x < y
  <2>1. PICK h \in DOMAIN hand : y \in hand[h].first .. hand[h].last
    BY DEF EventSet
  <2>2. u.last < hand[h].first
    BY <1>1 DEF MemoryInOrder
  <2>3. hand[h].first \in Nat
    BY <1>0
  <2> HIDE DEF u
  <2>5. x \in u.first .. u.last
    BY DEF u
  <2> QED
    BY <1>1, <2>1, <2>2, <2>3, <2>5
<1>5. ASSUME NEW x \in ids, NEW y \in InBatch PROVE x < y
  <2> HIDE DEF u
  <2>5. x \in u.first .. u.last
    BY DEF u
  <2> QED
    BY <1>0, <1>1, <2>5 DEF InBatch
<1>6. InMemory = ids \cup EventSet(rest) \cup EventSet(hand) \cup InBatch
  BY <1>2 DEF InMemory
<1>7. \A x \in ids, y \in EventSet(rest) \cup EventSet(hand) \cup InBatch : x < y
  BY <1>3, <1>4, <1>5
<1>8. \A x \in ids : x \in Nat /\ ~(x < x)
  BY <1>1
<1>9. InMemory \ ids = EventSet(rest) \cup EventSet(hand) \cup InBatch
  BY <1>6, <1>7, <1>8
<1>10. ids # {}
  BY <1>1
<1> HIDE DEF u, rest
<1> QED
  BY <1>6, <1>7, <1>9, <1>10 DEF rest

\* What a step does to the events in memory: nothing, ...
MemoryStays == Len(log') = Len(log) /\ lost' = lost /\ InMemory' = InMemory

\* ... it adds an event, ...
MemoryGains == /\ Len(log') = Len(log) + 1 /\ lost' = lost
               /\ InMemory' = InMemory \cup {Len(log) + 1}

\* ... or it gives some up.
MemoryGivesUp ==
    /\ Len(log') = Len(log)
    /\ \E S \in SUBSET InMemory :
         S # {} /\ lost' = lost \cup S /\ InMemory' = InMemory \ S

\* Steps that seal a batch, or fail to.
LEMMA SealMemory ==
    ASSUME TypeOK, ControlInv, MemoryInOrder, NEW n \in FrameLens,
           SealUnit(n) \/ SealFails(n)
    PROVE  MemoryStays \/ MemoryGivesUp
<1>0. /\ Len(log) \in Nat /\ batch.n \in Nat /\ batch.n <= Len(log)
      /\ EmptyBatch.n = 0 /\ batch.n > 0
  <2>1. Len(log) \in Nat /\ batch.n \in Nat /\ batch.n <= Len(log)
    BY DEF TypeOK, MemoryInOrder
  <2>2. EmptyBatch.n = 0 /\ batch.n > 0
    BY DEF EmptyBatch, SealUnit, SealFails
  <2> QED
    BY <2>1, <2>2
<1>1. /\ log' = log /\ pending' = pending /\ batch' = EmptyBatch
      /\ EventSet(pending') = EventSet(pending) /\ pc = "seal"
  BY DEF SealUnit, SealFails, appender, history
<1>2. InBatch' = {} /\ InBatch # {}
  <2>1. \A k \in Nat : k + 1 .. k = {}
    OBVIOUS
  <2>2. Len(log) \in InBatch
    BY <1>0 DEF InBatch
  <2> QED
    BY <1>0, <1>1, <2>1, <2>2 DEF InBatch
<1>3. hand = <<>>
  BY <1>1 DEF ControlInv, TypeOK
<1>4. EventSet(hand) = {}
  BY <1>3, NoUnits
<1>5. CASE SealUnit(n)
  <2> DEFINE u == SealedUnit(n)
  <2>1. hand' = <<u>> /\ lost' = lost
    BY <1>5 DEF SealUnit, history
  <2>2. u.first .. u.last = InBatch
    BY DEF SealedUnit, InBatch
  <2> HIDE DEF u
  <2>3. EventSet(<<u>>) = u.first .. u.last
    BY SingleUnit
  <2>4. EventSet(hand') = InBatch
    BY <2>1, <2>2, <2>3
  <2>5. InMemory' = InMemory
    BY <1>1, <1>2, <1>4, <2>4 DEF InMemory, EventSet
  <2> QED
    BY <1>1, <2>1, <2>5 DEF MemoryStays
<1>6. CASE SealFails(n)
  <2>1. lost' = lost \cup InBatch /\ hand' = hand
    BY <1>6 DEF SealFails, GiveUp
  <2>2. InMemory = EventSet(pending) \cup InBatch
    BY <1>4 DEF InMemory
  <2>3. InMemory' = EventSet(pending)
    BY <1>1, <1>2, <1>4, <2>1 DEF InMemory, EventSet
  <2>4. EventSet(pending) \cap InBatch = {}
    BY MemoryFacts
  <2>5. InBatch \in SUBSET InMemory /\ InMemory' = InMemory \ InBatch
    BY <2>2, <2>3, <2>4
  <2> QED
    BY <1>1, <1>2, <2>1, <2>5 DEF MemoryGivesUp
<1> QED
  BY <1>5, <1>6

\* The step that queues the unit sealed, or finds the backlog full.
LEMMA EnqueueMemory ==
    ASSUME TypeOK, ControlInv, MemoryInOrder, Enqueue
    PROVE  MemoryStays \/ MemoryGivesUp
<1> DEFINE u == hand[1]
           ids == u.first .. u.last
<1>0. /\ pending \in Seq(Units) /\ hand \in Seq(Units)
  BY DEF TypeOK
<1>1. hand' = <<>> /\ batch' = batch /\ log' = log /\ pc = "enqueue"
  BY DEF Enqueue
<1>2. Len(hand) = 1
  BY <1>1 DEF ControlInv
<1>3. u \in Units /\ EventSet(hand) = ids
  BY <1>0, <1>2, OneUnit
<1>4. EventSet(hand') = {} /\ InBatch' = InBatch
  BY <1>1, NoUnits DEF InBatch
<1>5. CASE BacklogFull(u)
  <2>1. lost' = lost \cup ids /\ pending' = pending
    BY <1>5 DEF Enqueue, GiveUp
  <2>2. InMemory' = EventSet(pending) \cup InBatch
    BY <1>4, <2>1 DEF InMemory, EventSet
  <2>3. ids # {}
    <3>1. 1 \in DOMAIN hand
      BY <1>0, <1>2
    <3>2. u.first \in 1 .. u.last
      BY <3>1 DEF MemoryInOrder
    <3>3. u.first \in Nat /\ u.last \in Nat
      BY <1>3 DEF Units
    <3> HIDE DEF u
    <3> QED
      BY <3>2, <3>3
  <2>4. ids \in SUBSET InMemory
    BY <1>3 DEF InMemory
  <2>5. InMemory' = InMemory \ ids
    BY <1>3, <2>2, MemoryFacts DEF InMemory
  <2> QED
    BY <1>1, <2>1, <2>3, <2>4, <2>5 DEF MemoryGivesUp
<1>6. CASE ~BacklogFull(u)
  <2>1. lost' = lost /\ pending' = Append(pending, u)
    BY <1>6 DEF Enqueue, Queued
  <2>2. EventSet(pending') = EventSet(pending) \cup EventSet(hand)
    <3> HIDE DEF u
    <3>1. EventSet(Append(pending, u)) = EventSet(pending) \cup (u.first .. u.last)
      BY <1>0, <1>3, AppendedEvents
    <3> QED
      BY <1>3, <2>1, <3>1
  <2>3. InMemory' = InMemory
    BY <1>4, <2>2 DEF InMemory, EventSet
  <2> QED
    BY <1>1, <2>1, <2>3 DEF MemoryStays
<1> QED
  BY <1>5, <1>6

\* The step that accepts an event.
LEMMA PushMemory ==
    ASSUME TypeOK, ControlInv, MemoryInOrder, Push
    PROVE  MemoryGains
<1>0. /\ Len(log) \in Nat /\ batch.n \in Nat /\ batch.n <= Len(log)
      /\ log \in Seq(Events)
  BY DEF TypeOK, MemoryInOrder
<1>1. arg[1] \in Events /\ PushedBatch(arg[1]).n = batch.n + 1
  BY PushedEvent, PushedBatchType DEF Push
<1>2. /\ log' = Append(log, arg[1]) /\ batch' = PushedBatch(arg[1])
      /\ UNCHANGED <<hand, pending, lost>>
  BY DEF Push, appender
<1>3. Len(log') = Len(log) + 1 /\ batch'.n = batch.n + 1
  BY <1>0, <1>1, <1>2
<1>4. Len(log') - batch'.n + 1 = Len(log) - batch.n + 1
  BY ONLY <1>0, <1>3
<1>5. InBatch' = Len(log) - batch.n + 1 .. Len(log) + 1
  BY <1>3, <1>4 DEF InBatch
<1>6. InBatch' = InBatch \cup {Len(log) + 1}
  <2> DEFINE lo == Len(log) - batch.n + 1
             hi == Len(log)
  <2>1. InBatch = lo .. hi /\ InBatch' = lo .. hi + 1
    BY <1>5 DEF InBatch
  <2>2. lo \in Int /\ hi \in Int /\ lo <= hi + 1
    BY <1>0
  <2> HIDE DEF lo, hi
  <2>3. lo .. hi + 1 = (lo .. hi) \cup {hi + 1}
    BY ONLY <2>2
  <2> QED
    BY <2>1, <2>3 DEF hi
<1>7. InMemory' = InMemory \cup {Len(log) + 1}
  BY <1>2, <1>6 DEF InMemory, EventSet
<1> QED
  BY <1>2, <1>3, <1>7 DEF MemoryGains

\* The step that writes a unit takes its events from memory.
LEMMA DrainUnitMemory ==
    ASSUME TypeOK, MemoryInOrder, DrainUnit
    PROVE  /\ Len(log') = Len(log) /\ lost' = lost
           /\ InMemory' = InMemory \ (Head(pending).first .. Head(pending).last)
<1>1. /\ pending # <<>> /\ pending' = Tail(pending) /\ batch' = batch
      /\ hand' = hand /\ log' = log /\ lost' = lost
  BY DEF DrainUnit, history
<1>2. InMemory' = EventSet(Tail(pending)) \cup EventSet(hand) \cup InBatch
  BY <1>1 DEF InMemory, InBatch, EventSet
<1>3. InMemory \ (Head(pending).first .. Head(pending).last) =
         EventSet(Tail(pending)) \cup EventSet(hand) \cup InBatch
  <2> DEFINE ids == Head(pending).first .. Head(pending).last
  <2> HIDE DEF ids
  <2>1. InMemory \ ids = EventSet(Tail(pending)) \cup EventSet(hand) \cup InBatch
    BY <1>1, HeadIsOldest DEF ids
  <2> QED
    BY <2>1 DEF ids
<1> QED
  BY <1>1, <1>2, <1>3

\* The end of a drain: finalize gives up what the disk refused.
LEMMA DrainEndMemory ==
    ASSUME TypeOK, MemoryInOrder, DrainDone \/ DrainFails
    PROVE  MemoryStays \/ MemoryGivesUp
<1>1. batch' = batch /\ hand' = hand /\ log' = log /\ pending \in Seq(Units)
  BY DEF DrainDone, DrainFails, TypeOK
<1>2. InBatch' = InBatch
  BY <1>1 DEF InBatch
<1>3. CASE pending' = pending /\ lost' = lost
  <2>1. InMemory' = InMemory
    BY <1>1, <1>2, <1>3 DEF InMemory, EventSet
  <2> QED
    BY <1>1, <1>3, <2>1 DEF MemoryStays
<1>4. CASE pending' = <<>> /\ lost' = lost \cup EventSet(pending)
  <2> DEFINE ids == EventSet(pending)
  <2>1. EventSet(pending') = {}
    BY <1>4, NoUnits
  <2>2. InMemory' = EventSet(hand) \cup InBatch
    BY <1>1, <1>2, <2>1 DEF InMemory, EventSet
  <2>3. ids \in SUBSET InMemory /\ InMemory' = InMemory \ ids
    BY <2>2, MemoryFacts DEF InMemory
  <2> HIDE DEF ids
  <2>4. CASE ids = {}
    <3>1. lost' = lost /\ InMemory' = InMemory
      BY <1>4, <2>3, <2>4 DEF ids
    <3> QED
      BY <1>1, <3>1 DEF MemoryStays
  <2>5. CASE ids # {}
    <3>1. lost' = lost \cup ids
      BY <1>4 DEF ids
    <3> QED
      BY <1>1, <2>3, <2>5, <3>1 DEF MemoryGivesUp
  <2> QED
    BY <2>4, <2>5
<1> QED
  BY <1>3, <1>4 DEF DrainDone, DrainFails, AfterDrain, GiveUp

\* A step that touches none of this.
LEMMA MemoryAlone ==
    ASSUME UNCHANGED <<batch, hand, pending, log, lost>>
    PROVE  MemoryStays
<1>1. InMemory' = InMemory
  BY DEF InMemory, InBatch, EventSet
<1> QED
  BY <1>1 DEF MemoryStays

\* No memory is left when a finalize ends.
LEMMA NothingLeft ==
    ASSUME TypeOK, ControlInv, BatchIsSealed, pc \in {"meta", "closed"}
    PROVE  InMemory = {}
<1>1. hand \in Seq(Units) /\ pending \in Seq(Units) /\ Len(log) \in Nat
  BY DEF TypeOK
<1>2. pending = <<>> /\ Len(hand) = 0
  BY DEF ControlInv
<1>3. batch.n = 0
  BY DEF BatchIsSealed
<1>4. hand = <<>>
  BY <1>1, <1>2
<1>5. InBatch = {}
  <2>1. \A k \in Nat : k - 0 + 1 .. k = {}
    OBVIOUS
  <2> QED
    BY <1>1, <1>3, <2>1 DEF InBatch
<1> QED
  BY <1>2, <1>4, <1>5, NoUnits DEF InMemory

\* What the steps that write no unit do to memory.
LEMMA QuietMemory ==
    ASSUME TypeOK, ControlInv, MemoryInOrder, BatchIsSealed, Quiet
    PROVE  \/ MemoryStays /\ (Running' <=> Running)
           \/ Running /\ Running' /\ (MemoryGains \/ MemoryGivesUp)
           \/ Running /\ ~Running' /\ MemoryStays /\ InMemory = {}
<1>1. ASSUME NEW e \in Events, WriteEvent(e)
      PROVE  MemoryStays /\ Running /\ Running'
  <2>1. UNCHANGED <<batch, hand, pending, log, lost>>
    BY <1>1 DEF WriteEvent, appender, history
  <2>2. Running /\ Running'
    BY <1>1 DEF WriteEvent, Return, Running
  <2> QED
    BY <2>1, <2>2, MemoryAlone
<1>2. CASE Push
  <2>1. Running /\ Running'
    BY <1>2 DEF Push, Return, Running
  <2> QED
    BY <1>2, <2>1, PushMemory
<1>3. ASSUME NEW n \in FrameLens, SealUnit(n) \/ SealFails(n)
      PROVE  /\ MemoryStays \/ MemoryGivesUp
             /\ Running /\ Running'
  <2>1. Running /\ Running'
    BY <1>3 DEF SealUnit, SealFails, GoTo, AfterSeal, Return, Running
  <2> QED
    BY <1>3, <2>1, SealMemory
<1>4. CASE SealNothing
  <2>1. UNCHANGED <<batch, hand, pending, log, lost>>
    BY <1>4 DEF SealNothing, appender, history
  <2>2. Running /\ Running'
    BY <1>4 DEF SealNothing, AfterSeal, Running
  <2> QED
    BY <2>1, <2>2, MemoryAlone
<1>5. CASE Enqueue
  <2>1. Running /\ Running'
    BY <1>5 DEF Enqueue, AfterSeal, Return, Running
  <2> QED
    BY <1>5, <2>1, EnqueueMemory
<1>6. CASE DrainDone \/ DrainFails
  <2>1. Running /\ Running'
    BY <1>6 DEF DrainDone, DrainFails, Draining, AfterDrain, GoTo, Return,
                Running
  <2> QED
    BY <1>6, <2>1, DrainEndMemory
<1>7. CASE Flush \/ Finalize \/ WriteFooter \/ FooterFails
  <2>1. UNCHANGED <<batch, hand, pending, log, lost>>
    BY <1>7 DEF Flush, Finalize, WriteFooter, FooterFails, appender, history
  <2>2. Running /\ Running'
    BY <1>7 DEF Flush, Finalize, WriteFooter, FooterFails, GoTo, Running
  <2> QED
    BY <2>1, <2>2, MemoryAlone
<1>8. CASE WriteMeta \/ MetaFails
  <2>1. UNCHANGED <<batch, hand, pending, log, lost>>
    BY <1>8 DEF WriteMeta, MetaFails, appender, history
  <2>2. pc = "meta" /\ Running /\ ~Running'
    BY <1>8 DEF WriteMeta, MetaFails, Closed, Running
  <2> QED
    BY <2>1, <2>2, MemoryAlone, NothingLeft
<1>9. CASE DiskRefuses \/ DiskRecovers \/ UNCHANGED vars
  <2>1. UNCHANGED <<batch, hand, pending, log, lost>> /\ pc' = pc
    BY <1>9 DEF DiskRefuses, DiskRecovers, vars, appender, control, history
  <2> QED
    BY <2>1, MemoryAlone DEF Running
<1> QED
  BY <1>1, <1>2, <1>3, <1>4, <1>5, <1>6, <1>7, <1>8, <1>9
     DEF Quiet, Seal, Finish

-----------------------------------------------------------------------------
(* What is stored, held and given up makes up all there was.               *)

\* The parts of StoredInv: the order of what is stored, that nothing is
\* forgotten, and what the counters and the flushes say.
StoredOrder ==
    /\ Stored \in Seq(Nat) /\ Rising(Stored)
    /\ ToSet(Stored) \subseteq 1 .. Len(log) /\ ToSet(Stored) \cap lost = {}
    /\ \A x \in ToSet(Stored), y \in InMemory : x < y

StoredWhole ==
    pc # "crashed" =>
        /\ ToSet(Stored) \cup lost \cup InMemory = 1 .. Len(log)
        /\ written = Len(Stored)

StoredDurable == (Chunked => FlushMin = 0) => durable \subseteq ToSet(Stored)

StoredMeta == meta.count # -1 => /\ pc = "closed" /\ meta.count = Len(Stored)
                                 /\ meta.count + meta.dropped = Len(log)

LEMMA StoredParts ==
    /\ StoredInv <=> StoredOrder /\ StoredWhole /\ StoredDurable /\ StoredMeta
    /\ StoredInv' <=> StoredOrder' /\ StoredWhole' /\ StoredDurable' /\ StoredMeta'
BY DEF StoredInv, StoredOrder, StoredWhole, StoredDurable, StoredMeta

\* A rising sequence has as many elements as it is long.
LEMMA RisingCounts ==
    ASSUME NEW s \in Seq(Nat), Rising(s)
    PROVE  IsFiniteSet(ToSet(s)) /\ Cardinality(ToSet(s)) = Len(s)
<1> DEFINE f == [i \in 1 .. Len(s) |-> s[i]]
<1>1. Len(s) \in Nat /\ DOMAIN s = 1 .. Len(s) /\ \A i \in DOMAIN s : s[i] \in Nat
  OBVIOUS
<1>2. IsFiniteSet(1 .. Len(s)) /\ Cardinality(1 .. Len(s)) = Len(s)
  <2> DEFINE n == Len(s)
  <2>1. n \in Nat /\ 1 \in Int /\ n \in Int
    BY <1>1
  <2> HIDE DEF n
  <2>2. /\ IsFiniteSet(1 .. n)
        /\ Cardinality(1 .. n) = IF 1 > n THEN 0 ELSE n - 1 + 1
    BY <2>1, FS_Interval
  <2>3. (IF 1 > n THEN 0 ELSE n - 1 + 1) = n
    BY <2>1
  <2> QED
    BY <2>2, <2>3 DEF n
<1>3. f \in [1 .. Len(s) -> ToSet(s)]
  BY <1>1 DEF ToSet
<1>4. \A y \in ToSet(s) : \E i \in 1 .. Len(s) : f[i] = y
  BY <1>1 DEF ToSet
<1>5. \A i, j \in 1 .. Len(s) : f[i] = f[j] => i = j
  BY <1>1, SMTT(30) DEF Rising
<1>6. f \in Bijection(1 .. Len(s), ToSet(s))
  BY <1>3, <1>4, <1>5 DEF Bijection, Injection, Surjection, IsInjective
<1> QED
  BY <1>2, <1>6, FS_Bijection DEF ExistsBijection

\* The events of the unit that waits first, stored behind the others.
LEMMA UnitOrder ==
    ASSUME TypeOK, MemoryInOrder, StoredOrder, pending # <<>>,
           NEW u, u = Head(pending), NEW s, s = Stored \o EventsOf(u)
    PROVE  /\ s \in Seq(Nat) /\ Rising(s)
           /\ ToSet(s) = ToSet(Stored) \cup (u.first .. u.last)
           /\ Len(s) = Len(Stored) + Count(u)
<1> DEFINE old == Stored
           new == EventsOf(u)
<1>1. u \in Units /\ u.first \in 1 .. u.last
  <2>1. pending \in Seq(Units) /\ 1 \in DOMAIN pending /\ pending[1] = u
    BY DEF TypeOK
  <2> QED
    BY <2>1 DEF MemoryInOrder
<1>2. /\ new \in Seq(Nat) /\ Len(new) = Count(u) /\ Count(u) \in Nat \ {0}
      /\ \A i \in 1 .. Count(u) : new[i] = u.first + i - 1
  BY <1>1, UnitEvents
<1>3. old \in Seq(Nat) /\ Rising(old) /\ Len(old) \in Nat
  BY DEF StoredOrder
<1>4. \A x \in ToSet(old), y \in u.first .. u.last : x < y
  <2>1. u.first .. u.last \subseteq InMemory
    BY HeadIsOldest
  <2> QED
    BY <2>1 DEF StoredOrder
<1>5. /\ u.first \in Nat /\ u.last \in Nat /\ u.last = u.first + Count(u) - 1
  BY <1>1 DEF Units, Count
<1> HIDE DEF old, new
<1>6. s \in Seq(Nat) /\ Len(s) = Len(old) + Count(u)
  BY <1>2, <1>3 DEF old, new
<1>7. /\ \A i \in 1 .. Len(old) : s[i] = old[i]
      /\ \A i \in 1 .. Count(u) : s[Len(old) + i] = u.first + i - 1
  <2>1. s = old \o new
    BY DEF old, new
  <2>2. \A i \in 1 .. Len(new) : s[Len(old) + i] = new[i]
    BY <1>2, <1>3, <2>1
  <2> QED
    BY <1>2, <1>3, <2>1, <2>2
<1>8. \A i \in 1 .. Len(old) : s[i] \in ToSet(old)
  <2> TAKE i \in 1 .. Len(old)
  <2>0. DOMAIN old = 1 .. Len(old)
    BY <1>3
  <2>1. i \in DOMAIN old /\ s[i] = old[i]
    BY <1>7, <2>0, Zenon
  <2> QED
    BY <2>1 DEF ToSet
<1>9. \A i \in DOMAIN s : \/ i \in 1 .. Len(old)
                          \/ \E k \in 1 .. Count(u) : i = Len(old) + k
  <2> TAKE i \in DOMAIN s
  <2>1. i \in 1 .. Len(old) + Count(u)
    BY <1>6
  <2>2. CASE i > Len(old)
    <3>1. i - Len(old) \in 1 .. Count(u) /\ i = Len(old) + (i - Len(old))
      BY <1>2, <1>3, <2>1, <2>2
    <3> QED
      BY <3>1
  <2> QED
    BY <1>3, <2>1, <2>2
<1>10. \A k \in 1 .. Count(u) : u.first + k - 1 \in u.first .. u.last
  BY <1>2, <1>5
<1>11. \A y \in u.first .. u.last :
          y - u.first + 1 \in 1 .. Count(u) /\ y = u.first + (y - u.first + 1) - 1
  BY <1>2, <1>5, SMTT(30)
<1>12. ToSet(s) = ToSet(old) \cup (u.first .. u.last)
  <2>1. ASSUME NEW i \in DOMAIN s
        PROVE  s[i] \in ToSet(old) \cup (u.first .. u.last)
    BY <1>7, <1>8, <1>9, <1>10
  <2>2. ASSUME NEW x \in ToSet(old) PROVE x \in ToSet(s)
    <3>1. PICK i \in 1 .. Len(old) : x = old[i]
      BY <1>3 DEF ToSet
    <3>2. i \in DOMAIN s /\ s[i] = x
      BY <1>2, <1>3, <1>6, <1>7, <3>1
    <3> QED
      BY <3>2 DEF ToSet
  <2>3. ASSUME NEW y \in u.first .. u.last PROVE y \in ToSet(s)
    <3>1. PICK k \in 1 .. Count(u) : y = u.first + k - 1
      BY <1>11
    <3>2. Len(old) + k \in DOMAIN s /\ s[Len(old) + k] = y
      BY <1>2, <1>3, <1>6, <1>7, <3>1
    <3> QED
      BY <3>2 DEF ToSet
  <2>4. ToSet(s) \subseteq ToSet(old) \cup (u.first .. u.last)
    <3> DEFINE all == ToSet(old) \cup (u.first .. u.last)
    <3> HIDE DEF all
    <3>1. \A i \in DOMAIN s : s[i] \in all
      BY <2>1 DEF all
    <3>2. ToSet(s) \subseteq all
      BY <3>1 DEF ToSet
    <3> QED
      BY <3>2 DEF all
  <2> QED
    BY <2>2, <2>3, <2>4
<1>13. Rising(s)
  <2> SUFFICES ASSUME NEW i \in DOMAIN s, NEW j \in DOMAIN s, i < j
               PROVE  s[i] < s[j]
    BY DEF Rising
  <2>1. CASE j \in 1 .. Len(old)
    <3>1. i \in 1 .. Len(old)
      BY <1>3, <1>6, <2>1
    <3>2. old[i] < old[j]
      BY <1>3, <2>1, <3>1 DEF Rising
    <3> QED
      BY <1>7, <2>1, <3>1, <3>2
  <2>2. CASE i \in 1 .. Len(old) /\ j \notin 1 .. Len(old)
    <3>1. s[i] \in ToSet(old) /\ s[j] \in u.first .. u.last
      BY <1>7, <1>8, <1>9, <1>10, <2>2
    <3> QED
      BY <1>4, <3>1
  <2>3. CASE i \notin 1 .. Len(old) /\ j \notin 1 .. Len(old)
    <3>1. PICK k \in 1 .. Count(u) : i = Len(old) + k
      BY <1>9, <2>3
    <3>2. PICK l \in 1 .. Count(u) : j = Len(old) + l
      BY <1>9, <2>3
    <3>3. s[i] = u.first + k - 1 /\ s[j] = u.first + l - 1
      BY <1>7, <3>1, <3>2
    <3>4. k \in Int /\ l \in Int /\ Len(old) \in Int /\ u.first \in Int
      BY <1>2, <1>3, <1>5
    <3>5. k < l
      BY ONLY <3>1, <3>2, <3>4, i < j
    <3>6. u.first + k - 1 < u.first + l - 1
      BY ONLY <3>4, <3>5
    <3> QED
      BY <3>3, <3>6
  <2> QED
    BY <2>1, <2>2, <2>3
<1> QED
  BY <1>6, <1>12, <1>13 DEF old

FileInv == DiskInv /\ QueueInv /\ BatchIsSealed /\ StoredInv

\* An empty session holds nothing.
LEMMA FileInvInit == Init => FileInv
<1> SUFFICES ASSUME Init PROVE FileInv
  OBVIOUS
<1>1. /\ file = [i \in 1 .. HeadLen |-> MagicCell] /\ cursor = HeadLen
      /\ index = <<>> /\ pc = "idle" /\ call = "none" /\ hand = <<>>
      /\ pending = <<>> /\ log = <<>> /\ lost = {} /\ durable = {}
      /\ written = 0 /\ meta.count = -1 /\ batch = EmptyBatch
  BY DEF Init
<1>2. HeadLen \in Nat
  BY DEF HeadLen
<1>3. file \in Seq(Cells) /\ Len(file) = HeadLen
  <2>1. MagicCell \in Cells
    BY DEF MagicCell, Cells
  <2> HIDE DEF Cells
  <2> QED
    BY <1>1, <1>2, <2>1
<1>4. FileHolds(file, cursor, index, <<>>)
  <2> DEFINE D == <<>>
             at == [i \in 0 .. 0 |-> HeadLen]
             ev == [i \in 0 .. 0 |-> <<>>]
  <2>1. /\ D \in Seq(Units) /\ Len(D) = 0 /\ 1 .. Len(D) = {}
        /\ at \in [0 .. Len(D) -> Nat] /\ ev \in [0 .. Len(D) -> Seq(Nat)]
    BY <1>2
  <2>2. at[0] = HeadLen /\ ev[0] = <<>>
    OBVIOUS
  <2>3. EntriesOf(D, at) = <<>>
    BY <2>1 DEF EntriesOf
  <2> HIDE DEF D, at, ev
  <2>4. at[Len(D)] = HeadLen /\ ev[Len(D)] = <<>>
    BY <2>1, <2>2
  <2>5. \A i \in 0 .. Len(D) : at[i] \in HeadLen .. at[Len(D)]
    BY <1>2, <2>1, <2>2
  <2>6. at[Len(D)] <= Len(file)
    BY <1>2, <1>3, <2>4
  <2>7. Laid(file, D, at, ev)
    BY <2>1, <2>2, <2>5, <2>6 DEF Laid
  <2>8. TailOf(file, cursor, index)
    BY <1>1, <1>3 DEF TailOf
  <2> QED
    BY <1>1, <2>1, <2>3, <2>4, <2>7, <2>8 DEF FileHolds
<1>5. Stored = <<>>
  <2>1. ReadUnits(file, {}).events = <<>>
    BY <1>3, <1>4, HeldIsRead
  <2> QED
    BY <2>1, StoredIsRead
<1>6. InMemory = {}
  <2>1. Len(log) = 0 /\ batch.n = 0 /\ 0 - 0 + 1 .. 0 = {}
    BY <1>1 DEF EmptyBatch
  <2> QED
    BY <1>1, <2>1, NoUnits DEF InMemory, InBatch
<1>7. DiskInv
  BY <1>1, <1>4, <1>5 DEF DiskInv
<1>8. QueueInv /\ BatchIsSealed
  BY <1>1 DEF QueueInv, BatchIsSealed
<1>9. StoredInv
  <2>1. ToSet(<<>>) = {} /\ 1 .. Len(log) = {}
    BY <1>1 DEF ToSet
  <2>2. <<>> \in Seq(Nat) /\ Rising(<<>>) /\ Len(<<>>) = 0
    BY DEF Rising
  <2> QED
    BY <1>1, <1>5, <1>6, <2>1, <2>2 DEF StoredInv
<1> QED
  BY <1>7, <1>8, <1>9 DEF FileInv

\* A unit that reaches the disk.
LEMMA DrainUnitStored ==
    ASSUME TypeOK, ControlInv, MemoryInOrder, LostIsGone, StoredInv, DrainUnit,
           Stored' = Stored \o EventsOf(Head(pending))
    PROVE  StoredInv'
<1> DEFINE u == Head(pending)
           ids == u.first .. u.last
<1>0. StoredOrder /\ StoredWhole /\ StoredDurable /\ StoredMeta
  BY StoredParts
<1>1. /\ pending # <<>> /\ pc' = pc /\ pc \in {"room", "drain"}
      /\ meta' = meta /\ durable' = durable
      /\ written' = written + Count(u)
  BY DEF DrainUnit, Draining, control, history
<1>2. /\ Len(log') = Len(log) /\ lost' = lost
      /\ InMemory' = InMemory \ ids
  BY DrainUnitMemory
<1>3. /\ ids \subseteq InMemory
      /\ \A x \in ids, y \in InMemory \ ids : x < y
  BY <1>1, HeadIsOldest
<1>4. /\ Stored' \in Seq(Nat) /\ Rising(Stored)'
      /\ ToSet(Stored)' = ToSet(Stored) \cup ids
      /\ Len(Stored') = Len(Stored) + Count(u)
  <2> DEFINE s == Stored \o EventsOf(u)
  <2> HIDE DEF s
  <2>1. /\ s \in Seq(Nat) /\ Rising(s)
        /\ ToSet(s) = ToSet(Stored) \cup (u.first .. u.last)
        /\ Len(s) = Len(Stored) + Count(u)
    BY <1>0, <1>1, UnitOrder DEF s
  <2>2. Stored' = s
    BY DEF s
  <2>3. Rising(Stored)' = Rising(s) /\ ToSet(Stored)' = ToSet(s)
    BY <2>2 DEF Rising, ToSet
  <2> QED
    BY <2>1, <2>2, <2>3
<1> HIDE DEF u, ids
<1>5. ids \cap lost = {} /\ ids \subseteq 1 .. Len(log)
  BY <1>0, <1>1, <1>3 DEF LostIsGone, StoredWhole
<1>6. StoredOrder'
  <2>1. ToSet(Stored)' \subseteq 1 .. Len(log') /\ ToSet(Stored)' \cap lost' = {}
    BY <1>0, <1>2, <1>4, <1>5 DEF StoredOrder
  <2>2. \A x \in ToSet(Stored)', y \in InMemory' : x < y
    BY <1>0, <1>2, <1>3, <1>4 DEF StoredOrder
  <2> QED
    BY <1>4, <2>1, <2>2 DEF StoredOrder
<1>7. StoredWhole'
  <2>1. /\ ToSet(Stored) \cup lost \cup InMemory = 1 .. Len(log)
        /\ written = Len(Stored)
    BY <1>0, <1>1 DEF StoredWhole
  <2>2. ToSet(Stored)' \cup lost' \cup InMemory' = 1 .. Len(log')
    BY <1>2, <1>3, <1>4, <2>1
  <2>3. written' = Len(Stored')
    BY <1>1, <1>4, <2>1
  <2> QED
    BY <2>2, <2>3 DEF StoredWhole
<1>8. StoredDurable'
  BY <1>0, <1>1, <1>4 DEF StoredDurable
<1>9. StoredMeta'
  BY <1>0, <1>1 DEF StoredMeta
<1> QED
  BY <1>6, <1>7, <1>8, <1>9, StoredParts

\* A crash.
LEMMA CrashStored ==
    ASSUME TypeOK, ControlInv, MemoryInOrder, LostIsGone, StoredInv, Crash,
           \/ Stored' = Stored
           \/ /\ Draining /\ pending # <<>>
              /\ Stored' = Stored \o EventsOf(Head(pending))
    PROVE  StoredInv' /\ InMemory' = {}
<1>0. StoredOrder /\ StoredWhole /\ StoredDurable /\ StoredMeta
  BY StoredParts
<1>1. /\ batch' = EmptyBatch /\ hand' = <<>> /\ pending' = <<>>
      /\ log' = log /\ lost' = lost /\ durable' = durable
      /\ meta' = meta /\ pc' = "crashed" /\ pc # "crashed" /\ pc # "closed"
  BY DEF Crash, Running, history
<1>2. InMemory' = {}
  <2>1. \A k \in Nat : k - 0 + 1 .. k = {}
    OBVIOUS
  <2>2. Len(log') \in Nat /\ batch'.n = 0
    BY <1>1 DEF TypeOK, EmptyBatch
  <2>3. InBatch' = {}
    BY <2>1, <2>2 DEF InBatch
  <2> QED
    BY <1>1, <2>3, NoUnits DEF InMemory
<1>3. /\ Stored' \in Seq(Nat) /\ Rising(Stored)'
      /\ ToSet(Stored) \subseteq ToSet(Stored)'
      /\ ToSet(Stored)' \subseteq ToSet(Stored) \cup InMemory
  <2>1. CASE Stored' = Stored
    BY <1>0, <2>1 DEF StoredOrder, Rising, ToSet
  <2>2. CASE pending # <<>> /\ Stored' = Stored \o EventsOf(Head(pending))
    <3> DEFINE u == Head(pending)
               s == Stored \o EventsOf(u)
               ids == u.first .. u.last
    <3> HIDE DEF s, u, ids
    <3>1. s \in Seq(Nat) /\ Rising(s) /\ ToSet(s) = ToSet(Stored) \cup ids
      BY <1>0, <2>2, UnitOrder DEF s, u, ids
    <3>2. Stored' = s
      BY <2>2 DEF s, u
    <3>3. Rising(Stored)' = Rising(s) /\ ToSet(Stored)' = ToSet(s)
      BY <3>2 DEF Rising, ToSet
    <3>4. ids \subseteq InMemory
      BY <2>2, HeadIsOldest DEF u, ids
    <3> QED
      BY <3>1, <3>2, <3>3, <3>4
  <2> QED
    BY <2>1, <2>2
<1>4. StoredOrder'
  <2>1. ToSet(Stored) \cup lost \cup InMemory = 1 .. Len(log)
    BY <1>0, <1>1 DEF StoredWhole
  <2>2. ToSet(Stored)' \subseteq 1 .. Len(log') /\ ToSet(Stored)' \cap lost' = {}
    BY <1>0, <1>1, <1>3, <2>1 DEF StoredOrder, LostIsGone
  <2> QED
    BY <1>2, <1>3, <2>2 DEF StoredOrder
<1>5. StoredWhole' /\ StoredMeta'
  BY <1>0, <1>1 DEF StoredWhole, StoredMeta
<1>6. StoredDurable'
  BY <1>0, <1>1, <1>3 DEF StoredDurable
<1> QED
  BY <1>2, <1>4, <1>5, <1>6, StoredParts

\* What the other steps do to the counters, the flushes and the metadata.
LEMMA QuietCounters ==
    ASSUME Quiet
    PROVE  /\ written' = written
           /\ \/ durable' = durable
              \/ /\ pc = "drain" /\ call = "flush" /\ pending = <<>>
                 /\ durable' = (1 .. Len(log)) \ lost
           /\ \/ meta' = meta /\ (pc = "closed" => pc' = "closed")
              \/ WriteMeta
           /\ pc' # "crashed" => pc # "crashed"
<1>1. ASSUME NEW e \in Events, WriteEvent(e)
      PROVE  /\ UNCHANGED <<written, durable, meta>>
             /\ pc \notin {"closed", "crashed"}
  BY <1>1 DEF WriteEvent, appender, history
<1>2. CASE Push \/ Flush \/ Finalize
  <2>1. /\ UNCHANGED <<written, durable, meta>>
        /\ pc \notin {"closed", "crashed"}
    BY <1>2 DEF Push, Flush, Finalize, appender, history
  <2> QED
    BY <2>1
<1>3. CASE Seal
  <2>1. /\ UNCHANGED <<written, durable, meta>>
        /\ pc \notin {"closed", "crashed"}
    BY <1>3 DEF Seal, SealUnit, SealFails, SealNothing, Enqueue, appender, history
  <2> QED
    BY <2>1
<1>4. CASE DrainDone \/ DrainFails
  <2>1. UNCHANGED <<written, meta>> /\ pc \notin {"closed", "crashed"}
    BY <1>4 DEF DrainDone, DrainFails, Draining
  <2>2. \/ durable' = durable
        \/ /\ pc = "drain" /\ call = "flush" /\ pending = <<>>
           /\ durable' = (1 .. Len(log)) \ lost
    BY <1>4 DEF DrainDone, DrainFails, AfterDrain
  <2> QED
    BY <2>1, <2>2
<1>5. CASE WriteMeta
  <2>1. written' = written /\ durable' = durable /\ pc = "meta"
    BY <1>5 DEF WriteMeta, appender, history
  <2> QED
    BY <1>5, <2>1
<1>6. CASE WriteFooter \/ FooterFails \/ MetaFails
  <2>1. /\ UNCHANGED <<written, durable, meta>>
        /\ pc \notin {"closed", "crashed"}
    BY <1>6 DEF WriteFooter, FooterFails, MetaFails, appender, history
  <2> QED
    BY <2>1
<1>7. CASE DiskRefuses \/ DiskRecovers \/ UNCHANGED vars
  <2>1. UNCHANGED <<written, durable, meta, pc>>
    BY <1>7 DEF DiskRefuses, DiskRecovers, vars, appender, control, history
  <2> QED
    BY <2>1
<1> QED
  BY <1>1, <1>2, <1>3, <1>4, <1>5, <1>6, <1>7 DEF Quiet, Finish

\* A flush that reaches its end has left nothing in memory.
LEMMA FlushLeavesNothing ==
    ASSUME TypeOK, ControlInv, BatchIsSealed, Chunked => FlushMin = 0,
           pc = "drain", call = "flush", pending = <<>>
    PROVE  InMemory = {}
<1>1. hand \in Seq(Units) /\ Len(log) \in Nat
  BY DEF TypeOK
<1>2. Len(hand) = 0 /\ batch.n = 0
  BY DEF ControlInv, BatchIsSealed
<1>3. hand = <<>>
  BY <1>1, <1>2
<1>4. InBatch = {}
  <2>1. \A k \in Nat : k - 0 + 1 .. k = {}
    OBVIOUS
  <2> QED
    BY <1>1, <1>2, <2>1 DEF InBatch
<1> QED
  BY <1>3, <1>4, NoUnits DEF InMemory

\* Events stored and events given up share none: their numbers add up.
LEMMA CountsAddUp ==
    ASSUME StoredOrder, LostIsGone, Len(log) \in Nat,
           ToSet(Stored) \cup lost = 1 .. Len(log)
    PROVE  Len(Stored) + Cardinality(lost) = Len(log)
<1> DEFINE n == Len(log)
           S == ToSet(Stored)
           L == lost
<1>1. n \in Nat /\ IsFiniteSet(1 .. n) /\ Cardinality(1 .. n) = n
  <2> HIDE DEF n
  <2>1. n \in Nat /\ 1 \in Int /\ n \in Int
    BY DEF n
  <2>2. /\ IsFiniteSet(1 .. n)
        /\ Cardinality(1 .. n) = IF 1 > n THEN 0 ELSE n - 1 + 1
    BY <2>1, FS_Interval
  <2>3. (IF 1 > n THEN 0 ELSE n - 1 + 1) = n
    BY <2>1
  <2> QED
    BY <2>1, <2>2, <2>3
<1>2. IsFiniteSet(S) /\ Cardinality(S) = Len(Stored)
  BY RisingCounts DEF StoredOrder
<1>3. S \cap L = {} /\ S \cup L = 1 .. n /\ L \subseteq 1 .. n
  BY DEF StoredOrder, LostIsGone
<1> HIDE DEF n, S, L
<1>4. IsFiniteSet(L)
  BY <1>1, <1>3, FS_Subset
<1>5. Cardinality(S \cup L) = Cardinality(S) + Cardinality(L) - Cardinality(S \cap L)
  BY <1>2, <1>4, FS_Union
<1>6. Cardinality(S \cap L) = 0
  BY <1>3, FS_EmptySet
<1>7. Cardinality(S) \in Nat /\ Cardinality(L) \in Nat
  BY <1>2, <1>4, FS_CardinalityType
<1>8. Cardinality(S) + Cardinality(L) = n
  <2>1. Cardinality(S \cup L) = n
    BY <1>1, <1>3
  <2>2. n = Cardinality(S) + Cardinality(L) - 0
    BY <1>5, <1>6, <2>1, Zenon
  <2> QED
    BY <1>1, <1>7, <2>2
<1> QED
  BY <1>2, <1>8 DEF n, L

\* Any other step.
LEMMA QuietStored ==
    ASSUME TypeOK, ControlInv, MemoryInOrder, LostIsGone, DropsAreCounted,
           BatchIsSealed, StoredInv, Quiet, Stored' = Stored
    PROVE  StoredInv'
<1>0. StoredOrder /\ StoredWhole /\ StoredDurable /\ StoredMeta
  BY StoredParts
<1>1. Len(log) \in Nat /\ lost \subseteq 1 .. Len(log) /\ lost \cap InMemory = {}
  BY DEF TypeOK, LostIsGone
<1>2. Rising(Stored)' = Rising(Stored) /\ ToSet(Stored)' = ToSet(Stored)
  BY DEF Rising, ToSet
<1>3. \/ MemoryStays
      \/ Running /\ (MemoryGains \/ MemoryGivesUp)
  BY QuietMemory
<1>4. pc' # "crashed" => pc # "crashed"
  BY QuietCounters
<1>5. StoredOrder'
  <2>1. CASE MemoryStays
    BY <1>0, <1>2, <2>1 DEF MemoryStays, StoredOrder
  <2>2. CASE MemoryGains
    <3>1. /\ Len(log') = Len(log) + 1 /\ lost' = lost
          /\ InMemory' = InMemory \cup {Len(log) + 1}
      BY <2>2 DEF MemoryGains
    <3>2. \A x \in 1 .. Len(log) : x < Len(log) + 1 /\ x \in 1 .. Len(log) + 1
      BY <1>1
    <3>3. ToSet(Stored) \subseteq 1 .. Len(log')
      BY <1>0, <3>1, <3>2 DEF StoredOrder
    <3>4. \A x \in ToSet(Stored), y \in InMemory' : x < y
      BY <1>0, <3>1, <3>2 DEF StoredOrder
    <3> QED
      BY <1>0, <1>2, <3>1, <3>3, <3>4 DEF StoredOrder
  <2>3. CASE MemoryGivesUp
    <3>1. PICK S \in SUBSET InMemory :
            S # {} /\ lost' = lost \cup S /\ InMemory' = InMemory \ S
      BY <2>3 DEF MemoryGivesUp
    <3>2. Len(log') = Len(log)
      BY <2>3 DEF MemoryGivesUp
    <3>3. ToSet(Stored) \cap S = {}
      <4>1. \A x \in ToSet(Stored) : x \in Nat /\ ~(x < x)
        BY <1>0, <1>1 DEF StoredOrder
      <4> QED
        BY <1>0, <3>1, <4>1 DEF StoredOrder
    <3> QED
      BY <1>0, <1>2, <3>1, <3>2, <3>3 DEF StoredOrder
  <2> QED
    BY <1>3, <2>1, <2>2, <2>3
<1>6. StoredWhole'
  <2> SUFFICES ASSUME pc' # "crashed"
               PROVE  /\ ToSet(Stored)' \cup lost' \cup InMemory' = 1 .. Len(log')
                      /\ written' = Len(Stored')
    BY DEF StoredWhole
  <2>1. /\ ToSet(Stored) \cup lost \cup InMemory = 1 .. Len(log)
        /\ written = Len(Stored)
    BY <1>0, <1>4 DEF StoredWhole
  <2>2. written' = Len(Stored')
    BY <2>1, QuietCounters
  <2>3. CASE MemoryStays
    BY <1>2, <2>1, <2>2, <2>3 DEF MemoryStays
  <2>4. CASE MemoryGains
    <3>1. /\ Len(log') = Len(log) + 1 /\ lost' = lost
          /\ InMemory' = InMemory \cup {Len(log) + 1}
      BY <2>4 DEF MemoryGains
    <3>2. 1 .. Len(log') = (1 .. Len(log)) \cup {Len(log) + 1}
      <4> DEFINE n == Len(log)
      <4>1. n \in Nat /\ Len(log') = n + 1
        BY <1>1, <3>1
      <4> HIDE DEF n
      <4>2. 1 .. n + 1 = (1 .. n) \cup {n + 1}
        BY ONLY <4>1
      <4> QED
        BY <4>1, <4>2 DEF n
    <3> QED
      BY <1>2, <2>1, <2>2, <3>1, <3>2
  <2>5. CASE MemoryGivesUp
    BY <1>2, <2>1, <2>2, <2>5 DEF MemoryGivesUp
  <2> QED
    BY <1>3, <2>3, <2>4, <2>5
<1>7. StoredDurable'
  <2> SUFFICES ASSUME Chunked => FlushMin = 0
               PROVE  durable' \subseteq ToSet(Stored)'
    BY DEF StoredDurable
  <2>1. CASE durable' = durable
    BY <1>0, <1>2, <2>1 DEF StoredDurable
  <2>2. CASE /\ pc = "drain" /\ call = "flush" /\ pending = <<>>
             /\ durable' = (1 .. Len(log)) \ lost
    <3>1. InMemory = {}
      BY <2>2, FlushLeavesNothing
    <3>2. ToSet(Stored) \cup lost \cup InMemory = 1 .. Len(log)
      BY <1>0, <2>2 DEF StoredWhole
    <3> QED
      BY <1>2, <2>2, <3>1, <3>2
  <2> QED
    BY <2>1, <2>2, QuietCounters
<1>8. StoredMeta'
  <2>1. CASE meta' = meta /\ (pc = "closed" => pc' = "closed")
    <3> SUFFICES ASSUME meta'.count # -1
                 PROVE  /\ pc' = "closed" /\ meta'.count = Len(Stored')
                        /\ meta'.count + meta'.dropped = Len(log')
      BY DEF StoredMeta
    <3>1. /\ pc = "closed" /\ meta.count = Len(Stored)
          /\ meta.count + meta.dropped = Len(log)
      BY <1>0, <2>1 DEF StoredMeta
    <3>2. MemoryStays
      BY <1>3, <3>1 DEF Running
    <3> QED
      BY <2>1, <3>1, <3>2 DEF MemoryStays
  <2>2. CASE WriteMeta
    <3>1. /\ pc = "meta" /\ pc' = "closed" /\ log' = log
          /\ meta' = [count |-> written, dropped |-> dropped]
      BY <2>2 DEF WriteMeta, Closed, history
    <3>2. InMemory = {}
      BY <3>1, NothingLeft
    <3>3. ToSet(Stored) \cup lost \cup InMemory = 1 .. Len(log) /\ written = Len(Stored)
      BY <1>0, <3>1 DEF StoredWhole
    <3>4. Len(Stored) + Cardinality(lost) = Len(log)
      BY <1>0, <1>1, <3>2, <3>3, CountsAddUp
    <3>5. written + dropped = Len(log)
      BY <3>3, <3>4 DEF DropsAreCounted
    <3> QED
      BY <3>1, <3>3, <3>5 DEF StoredMeta
  <2> QED
    BY <2>1, <2>2, QuietCounters
<1> QED
  BY <1>5, <1>6, <1>7, <1>8, StoredParts

\* Every step keeps all this.
LEMMA FileInvNext == Inv /\ Inv' /\ FileInv /\ [Next]_vars => FileInv'
<1> SUFFICES ASSUME Inv, Inv', FileInv, [Next]_vars PROVE FileInv'
  OBVIOUS
<1>1. /\ DiskPart /\ TypeOK' /\ StoredInv /\ LostIsGone /\ DropsAreCounted
      /\ TypeOK /\ ControlInv /\ MemoryInOrder /\ CursorInFile
      /\ QueueInv /\ BatchIsSealed /\ DiskInv
  BY DEF Inv, FileInv, DiskPart
<1>2. QueueInv' /\ BatchIsSealed'
  BY <1>1, QueueInvStep, BatchIsSealedStep
<1>3. DiskInv' /\ StoredInv'
  <2>1. CASE DrainUnit
    BY <1>1, <2>1, DrainUnitDisk, DrainUnitStored
  <2>2. CASE Crash
    BY <1>1, <2>2, CrashDisk, CrashStored
  <2>3. CASE Quiet
    BY <1>1, <2>3, QuietDisk, QuietStored
  <2> QED
    BY <2>1, <2>2, <2>3, StepKinds
<1> QED
  BY <1>2, <1>3 DEF FileInv

\* While the writer runs, what is in memory is all that is neither stored nor
\* given up.
LEMMA MemoryIsTheRest ==
    ASSUME TypeOK, LostIsGone, StoredInv, pc # "crashed"
    PROVE  InMemory = (1 .. Len(log)) \ (ToSet(Stored) \cup lost)
<1>1. /\ ToSet(Stored) \cup lost \cup InMemory = 1 .. Len(log)
      /\ ToSet(Stored) \subseteq 1 .. Len(log)
      /\ \A x \in ToSet(Stored), y \in InMemory : x < y
  BY DEF StoredInv
<1>2. \A x \in 1 .. Len(log) : ~(x < x)
  BY DEF TypeOK
<1> QED
  BY <1>1, <1>2 DEF LostIsGone

\* The writer's word follows from the invariants.
LEMMA WordKept ==
    ASSUME Inv, FileInv, ResultInv, Chunked => FlushMin = 0
    PROVE  WriterKeepsItsWord
<1>1. TypeOK /\ LostIsGone /\ DropsAreCounted /\ StoredInv /\ WriteResultIsTrue
  BY DEF Inv, FileInv, ResultInv
<1>2. NothingForgotten
  BY <1>1, MemoryIsTheRest DEF NothingForgotten, Running
<1>3. CountersAddUp
  BY <1>1 DEF CountersAddUp, StoredInv, DropsAreCounted
<1>4. FlushIsDurable
  BY <1>1 DEF FlushIsDurable, StoredInv
<1> QED
  BY <1>1, <1>2, <1>3, <1>4 DEF WriterKeepsItsWord

-----------------------------------------------------------------------------
(* The writer implements the event log.                                    *)

\* The numbers of a unit's events, as the log's Extend wants them.
LEMMA UnitExtends ==
    ASSUME TypeOK, MemoryInOrder, pending # <<>>,
           NEW u, u = Head(pending), NEW ids, ids = u.first .. u.last,
           Stored' = Stored \o EventsOf(u)
    PROVE  Promise!Extend(ids)
<1>h. pending \in Seq(Units) /\ 1 \in DOMAIN pending /\ pending[1] = u
  BY DEF TypeOK
<1>1. u \in Units /\ u.first \in 1 .. u.last
  BY <1>h DEF MemoryInOrder
<1>2. /\ EventsOf(u) \in Seq(Nat) /\ Len(EventsOf(u)) = Count(u)
      /\ Count(u) \in Nat \ {0}
      /\ \A i \in 1 .. Count(u) : EventsOf(u)[i] = u.first + i - 1
  BY <1>1, UnitEvents
<1>3. u.first \in Nat /\ u.last \in Nat /\ u.last = u.first + Count(u) - 1
  BY <1>1 DEF Units, Count
<1>4. Count(u) \in 0 .. Len(log)
  <2>1. u.last <= Len(log) - batch.n /\ Len(log) \in Nat /\ batch.n \in Nat
    BY <1>h DEF MemoryInOrder, TypeOK
  <2> HIDE DEF Units
  <2> QED
    BY <1>1, <1>2, <1>3, <2>1
<1> DEFINE new == EventsOf(u)
           n == Count(u)
<1>5. new = [i \in 1 .. n |-> u.first + i - 1]
  BY <1>1 DEF EventsOf, Count
<1> HIDE DEF new, n
<1>6. n \in Nat /\ \A i \in 1 .. n : u.first + i - 1 \in ids
  BY <1>2, <1>3 DEF n
<1>7. new \in [1 .. n -> ids]
  BY <1>5, <1>6
<1>8. \A i, j \in 1 .. n : i < j => new[i] < new[j]
  BY <1>3, <1>5, <1>6
<1>9. \A x \in ids : \E i \in 1 .. n : new[i] = x
  <2> TAKE x \in ids
  <2>1. x - u.first + 1 \in 1 .. n /\ u.first + (x - u.first + 1) - 1 = x
    BY <1>3, <1>6 DEF n
  <2> QED
    BY <1>5, <2>1
<1>10. Stored' = Stored \o new /\ n \in 0 .. Len(log)
  BY <1>4 DEF new, n
<1> QED
  BY <1>7, <1>8, <1>9, <1>10 DEF Promise!Extend

\* The unit that waits first holds the oldest of the events held.
LEMMA UnitIsOldest ==
    ASSUME TypeOK, MemoryInOrder, LostIsGone, StoredInv, Running,
           pending # <<>>,
           NEW ids, ids = Head(pending).first .. Head(pending).last
    PROVE  ids \in SUBSET Promise!Held /\ ids # {} /\ Promise!Oldest(ids)
<1>1. Promise!Held = InMemory
  BY MemoryIsTheRest DEF Promise!Held, Promise!ToSet, ToSet, Running
<1>2. /\ ids # {} /\ ids \subseteq InMemory
      /\ \A x \in ids, y \in InMemory \ ids : x < y
  BY HeadIsOldest
<1>3. \A x \in ids : x \in Nat
  <2>1. ids \subseteq 1 .. Len(log) /\ Len(log) \in Nat
    BY <1>1, <1>2 DEF Promise!Held, TypeOK
  <2> QED
    BY <2>1
<1>4. \A x \in ids, y \in InMemory : y < x => y \in ids
  <2>1. \A x \in ids, y \in InMemory \ ids : y \in Nat /\ ~(y < x)
    <3>1. InMemory \subseteq Nat
      BY <1>1 DEF Promise!Held, TypeOK
    <3> QED
      BY <1>2, <1>3, <3>1
  <2> QED
    BY <2>1
<1> QED
  BY <1>1, <1>2, <1>4 DEF Promise!Oldest

LEMMA LogInit == ASSUME Init, FileInv PROVE Promise!Init
<1>1. log = <<>> /\ lost = {} /\ Running
  BY DEF Init, Running
<1>2. Stored \in Seq(Nat) /\ ToSet(Stored) \subseteq 1 .. 0
  BY <1>1 DEF FileInv, StoredInv
<1>3. Stored = <<>>
  <2>1. \A i \in DOMAIN Stored : Stored[i] \in 1 .. 0
    BY <1>2 DEF ToSet
  <2>2. 1 .. 0 = {}
    OBVIOUS
  <2> DEFINE s == Stored
  <2>3. s \in Seq(Nat) /\ DOMAIN s = {}
    BY <1>2, <2>1, <2>2
  <2> HIDE DEF s
  <2>4. s = <<>>
    BY <2>3
  <2> QED
    BY <2>4 DEF s
<1> QED
  BY <1>1, <1>3 DEF Promise!Init

\* Every step of the writer is one of the log, or none.
LEMMA LogStep ==
    ASSUME Inv, Inv', FileInv, [Next]_vars
    PROVE  [Promise!Next]_(Promise!logVars)
<1>1. /\ DiskPart /\ TypeOK' /\ StoredInv /\ LostIsGone
      /\ TypeOK /\ ControlInv /\ MemoryInOrder /\ CursorInFile
      /\ QueueInv /\ BatchIsSealed /\ DiskInv
  BY DEF Inv, FileInv, DiskPart
<1>2. CASE DrainUnit
  <2> DEFINE u == Head(pending)
             ids == u.first .. u.last
  <2>1. pending # <<>> /\ Running /\ Running' /\ Stored' = Stored \o EventsOf(u)
    <3>1. pending # <<>> /\ pc \in {"room", "drain"} /\ pc' = pc
      BY <1>2 DEF DrainUnit, Draining, control
    <3> QED
      BY <1>1, <1>2, <3>1, DrainUnitDisk DEF Running
  <2>2. Len(log') = Len(log) /\ lost' = lost
    BY <1>1, <1>2, DrainUnitMemory
  <2>3. Promise!Extend(ids)
    BY <1>1, <2>1, UnitExtends
  <2>4. ids \in SUBSET Promise!Held /\ ids # {} /\ Promise!Oldest(ids)
    BY <1>1, <2>1, UnitIsOldest
  <2> HIDE DEF ids
  <2>5. Promise!Store
    BY <2>1, <2>2, <2>3, <2>4 DEF Promise!Store
  <2> QED
    BY <2>5 DEF Promise!Next
<1>3. CASE Crash
  <2>1. /\ Running /\ ~Running' /\ log' = log /\ lost' = lost
    BY <1>3 DEF Crash, Running, history
  <2>2. CASE pending # <<>> /\ Stored' = Stored \o EventsOf(Head(pending))
    <3> DEFINE u == Head(pending)
               ids == u.first .. u.last
    <3>1. Promise!Extend(ids)
      BY <1>1, <2>2, UnitExtends
    <3>2. ids \in SUBSET Promise!Held /\ Promise!Oldest(ids)
      BY <1>1, <2>1, <2>2, UnitIsOldest
    <3> HIDE DEF ids
    <3>3. Promise!Crash
      BY <2>1, <3>1, <3>2 DEF Promise!Crash
    <3> QED
      BY <3>3 DEF Promise!Next
  <2>3. CASE Stored' = Stored
    <3>1. Promise!Extend({})
      <4>1. <<>> \in [1 .. 0 -> {}] /\ 1 .. 0 = {}
        OBVIOUS
      <4>2. Stored' = Stored \o <<>>
        <5> DEFINE s == Stored
        <5>1. s \in Seq(Nat)
          BY <1>1 DEF StoredInv
        <5> HIDE DEF s
        <5>2. s \o <<>> = s
          BY <5>1
        <5> QED
          BY <2>3, <5>2 DEF s
      <4>3. 0 \in 0 .. Len(log)
        BY <1>1 DEF TypeOK
      <4> DEFINE none == <<>>
      <4>4. /\ none \in [1 .. 0 -> {}] /\ Stored' = Stored \o none
            /\ \A i, j \in 1 .. 0 : i < j => none[i] < none[j]
        BY <4>1, <4>2
      <4> HIDE DEF none
      <4> QED
        BY <4>3, <4>4 DEF Promise!Extend
    <3>2. {} \in SUBSET Promise!Held /\ Promise!Oldest({})
      BY DEF Promise!Oldest
    <3>3. Promise!Crash
      BY <2>1, <3>1, <3>2 DEF Promise!Crash
    <3> QED
      BY <3>3 DEF Promise!Next
  <2> QED
    BY <1>1, <1>3, <2>2, <2>3, CrashDisk
<1>4. CASE Quiet
  <2>1. Stored' = Stored
    BY <1>1, <1>4, QuietDisk
  <2>2. CASE MemoryStays /\ (Running' <=> Running)
    BY <2>1, <2>2 DEF MemoryStays, Promise!logVars, Running
  <2>3. CASE Running /\ Running' /\ MemoryGains
    <3>1. Promise!Accept
      BY <2>1, <2>3 DEF MemoryGains, Promise!Accept
    <3> QED
      BY <3>1 DEF Promise!Next
  <2>4. CASE Running /\ Running' /\ MemoryGivesUp
    <3>1. Promise!Held = InMemory
      BY <1>1, <2>4, MemoryIsTheRest DEF Promise!Held, Promise!ToSet, ToSet, Running
    <3>2. Promise!GiveUp
      BY <2>1, <2>4, <3>1 DEF MemoryGivesUp, Promise!GiveUp
    <3> QED
      BY <3>2 DEF Promise!Next
  <2>5. CASE Running /\ ~Running' /\ MemoryStays /\ InMemory = {}
    <3>1. Promise!Held = {}
      BY <1>1, <2>5, MemoryIsTheRest DEF Promise!Held, Promise!ToSet, ToSet, Running
    <3>2. Promise!Close
      BY <2>1, <2>5, <3>1 DEF MemoryStays, Promise!Close
    <3> QED
      BY <3>2 DEF Promise!Next
  <2> QED
    BY <1>1, <1>4, <2>2, <2>3, <2>4, <2>5, QuietMemory
<1> QED
  BY <1>2, <1>3, <1>4, StepKinds

-----------------------------------------------------------------------------
(* Reading through a filter.                                               *)

\* k[i] are the events of the first i of s that match.
Keeps(s, L, f, k) ==
    /\ k \in [0 .. Len(s) -> Seq(Nat)] /\ k[0] = <<>>
    /\ \A i \in 1 .. Len(s) :
         k[i] = IF Matches(f, L[s[i]]) THEN Append(k[i - 1], s[i])
                ELSE k[i - 1]

\* What the selection has after the i-th event, r being what it had before.
KeptFrom(s, L, f, r, i) ==
    IF i = 0 THEN <<>>
    ELSE IF Matches(f, L[s[i]]) THEN Append(r[i - 1], s[i])
    ELSE r[i - 1]

\* There is such a k ...
LEMMA KeepsExists ==
    ASSUME NEW s \in Seq(Nat), NEW L, NEW f
    PROVE  \E k : Keeps(s, L, f, k)
<1> DEFINE n == Len(s)
           Upto(m, k) ==
             /\ k \in [0 .. m -> Seq(Nat)] /\ k[0] = <<>>
             /\ \A i \in 1 .. m :
                  k[i] = IF Matches(f, L[s[i]]) THEN Append(k[i - 1], s[i])
                         ELSE k[i - 1]
           G == {m \in 0 .. n : \E k : Upto(m, k)}
<1>1. n \in Nat
  OBVIOUS
<1>2. 0 \in G
  <2> DEFINE k == [i \in 0 .. 0 |-> <<>>]
  <2>1. k \in [0 .. 0 -> Seq(Nat)] /\ k[0] = <<>> /\ 1 .. 0 = {}
    OBVIOUS
  <2> HIDE DEF k
  <2>2. Upto(0, k)
    BY <2>1
  <2> QED
    BY <1>1, <2>2
<1>3. ASSUME NEW m \in 0 .. n, m # n, m \in G
      PROVE  m + 1 \in G
  <2>1. PICK k : Upto(m, k)
    BY <1>3
  <2>2. m \in Nat /\ m + 1 \in 1 .. n /\ m \in 0 .. m
    BY <1>1, <1>3
  <2> DEFINE new == IF Matches(f, L[s[m + 1]]) THEN Append(k[m], s[m + 1])
                    ELSE k[m]
             K == [i \in 0 .. m + 1 |-> IF i = m + 1 THEN new ELSE k[i]]
  <2>3. k[m] \in Seq(Nat) /\ s[m + 1] \in Nat
    BY <1>1, <2>1, <2>2, SMTT(30)
  <2>4. new \in Seq(Nat)
    BY <2>3
  <2> HIDE DEF new
  <2>5. /\ K \in [0 .. m + 1 -> Seq(Nat)] /\ K[m + 1] = new
        /\ \A i \in 0 .. m : K[i] = k[i] /\ k[i] \in Seq(Nat)
    BY <2>1, <2>2, <2>4, SMTT(30)
  <2> HIDE DEF K
  <2>6. K[0] = <<>>
    BY <2>1, <2>2, <2>5
  <2>7. ASSUME NEW i \in 1 .. m + 1
        PROVE  K[i] = IF Matches(f, L[s[i]]) THEN Append(K[i - 1], s[i])
                      ELSE K[i - 1]
    <3>1. CASE i = m + 1
      <4>1. i - 1 = m /\ K[i - 1] = k[m]
        BY <2>2, <2>5, <3>1
      <4> QED
        BY <2>5, <3>1, <4>1 DEF new
    <3>2. CASE i # m + 1
      <4>1. i \in 1 .. m /\ i \in 0 .. m /\ i - 1 \in 0 .. m
        BY <2>2, <3>2
      <4>2. K[i] = k[i] /\ K[i - 1] = k[i - 1]
        BY <2>5, <4>1
      <4> QED
        BY <2>1, <4>1, <4>2
    <3> QED
      BY <3>1, <3>2
  <2>8. Upto(m + 1, K)
    BY <2>5, <2>6, <2>7
  <2>9. m + 1 \in 0 .. n
    BY <1>1, <2>2
  <2> QED
    BY <2>8, <2>9
<1> HIDE DEF G
<1>4. n \in G
  <2>1. 0 .. n \subseteq G
    BY <1>1, <1>2, <1>3, InductionUpTo
  <2> QED
    BY <1>1, <2>1
<1> QED
  BY <1>4 DEF G, Keeps

\* ... and it is what the selection computes.
LEMMA MatchingIs ==
    ASSUME NEW s \in Seq(Nat), NEW L, NEW f, NEW k, Keeps(s, L, f, k)
    PROVE  Matching(s, L, f) = k[Len(s)]
<1> DEFINE n == Len(s)
           K == CHOOSE r : r = [i \in 0 .. n |-> KeptFrom(s, L, f, r, i)]
<1>1. n \in Nat
  OBVIOUS
<1>2. \A i \in 0 .. n : k[i] = KeptFrom(s, L, f, k, i)
  <2> TAKE i \in 0 .. n
  <2>1. CASE i = 0
    BY <2>1 DEF Keeps, KeptFrom
  <2>2. CASE i # 0
    <3>1. i \in 1 .. n
      BY <1>1, <2>2
    <3> QED
      BY <2>2, <3>1 DEF Keeps, KeptFrom
  <2> QED
    BY <2>1, <2>2
<1>3. k = [i \in 0 .. n |-> KeptFrom(s, L, f, k, i)]
  <2>1. k = [i \in 0 .. n |-> k[i]]
    BY DEF Keeps
  <2> QED
    BY <1>2, <2>1
<1>4. K = [i \in 0 .. n |-> KeptFrom(s, L, f, K, i)]
  BY <1>3, Zenon
<1>5. Matching(s, L, f) = K[n]
  BY Zenon DEF Matching, KeptFrom
<1> HIDE DEF K
<1>6. \A i \in 0 .. n : K[i] = KeptFrom(s, L, f, K, i)
  BY <1>4
<1> DEFINE G == {m \in 0 .. n : K[m] = k[m]}
<1>7. 0 \in G
  <2>1. 0 \in 0 .. n
    BY <1>1
  <2> QED
    BY <1>2, <1>6, <2>1 DEF KeptFrom
<1>8. ASSUME NEW m \in 0 .. n, m # n, m \in G
      PROVE  m + 1 \in G
  <2>1. m + 1 \in 0 .. n /\ m + 1 # 0 /\ (m + 1) - 1 = m
    BY <1>1, <1>8
  <2>2. K[m] = k[m]
    BY <1>8
  <2>3. KeptFrom(s, L, f, K, m + 1) = KeptFrom(s, L, f, k, m + 1)
    BY <2>1, <2>2, Zenon DEF KeptFrom
  <2> QED
    BY <1>2, <1>6, <2>1, <2>3
<1> HIDE DEF G
<1>9. n \in G
  <2>1. 0 .. n \subseteq G
    BY <1>1, <1>7, <1>8, InductionUpTo
  <2> QED
    BY <1>1, <2>1
<1> QED
  BY <1>5, <1>9 DEF G

\* Selecting from two sequences one behind the other.
LEMMA MatchingConcat ==
    ASSUME NEW a \in Seq(Nat), NEW c \in Seq(Nat), NEW L, NEW f
    PROVE  /\ Matching(a \o c, L, f) = Matching(a, L, f) \o Matching(c, L, f)
           /\ Matching(a, L, f) \in Seq(Nat)
<1>1. PICK ka : Keeps(a, L, f, ka)
  BY KeepsExists
<1>2. PICK kc : Keeps(c, L, f, kc)
  BY KeepsExists
<1> DEFINE s == a \o c
           n == Len(a)
           p == Len(c)
           z == ka[n]
           k == [i \in 0 .. n + p |-> IF i <= n THEN ka[i] ELSE z \o kc[i - n]]
<1>3. /\ n \in Nat /\ p \in Nat /\ s \in Seq(Nat) /\ Len(s) = n + p
      /\ \A i \in 1 .. n : s[i] = a[i] /\ a[i] \in Nat
      /\ \A i \in 1 .. p : s[n + i] = c[i] /\ c[i] \in Nat
  OBVIOUS
<1>4. /\ \A i \in 0 .. n : ka[i] \in Seq(Nat)
      /\ \A i \in 0 .. p : kc[i] \in Seq(Nat)
      /\ ka[0] = <<>> /\ kc[0] = <<>> /\ z \in Seq(Nat)
  <2>1. n \in 0 .. n
    BY <1>3
  <2> QED
    BY <1>1, <1>2, <2>1 DEF Keeps
<1> HIDE DEF s, z
<1>5. /\ \A i \in 0 .. n : k[i] = ka[i]
      /\ \A i \in 1 .. p : k[n + i] = z \o kc[i]
  <2>1. \A i \in 0 .. n : i \in 0 .. n + p /\ i <= n
    BY <1>3
  <2>2. \A i \in 1 .. p : n + i \in 0 .. n + p /\ ~(n + i <= n) /\ (n + i) - n = i
    BY <1>3
  <2> QED
    BY <2>1, <2>2
<1>6. \A i \in 0 .. p : k[n + i] = z \o kc[i]
  <2> TAKE i \in 0 .. p
  <2>1. CASE i = 0
    <3>1. n + i = n /\ n \in 0 .. n /\ z \o <<>> = z
      BY <1>3, <1>4, <2>1
    <3> QED
      BY <1>4, <1>5, <2>1, <3>1 DEF z
  <2>2. CASE i # 0
    <3>1. i \in 1 .. p
      BY <1>3, <2>2
    <3> QED
      BY <1>5, <3>1
  <2> QED
    BY <2>1, <2>2
<1>7. k \in [0 .. Len(s) -> Seq(Nat)] /\ k[0] = <<>>
  <2>1. ASSUME NEW i \in 0 .. n + p PROVE k[i] \in Seq(Nat)
    <3>1. CASE i <= n
      <4>1. i \in 0 .. n
        BY <1>3, <3>1
      <4> QED
        BY <1>4, <1>5, <4>1
    <3>2. CASE ~(i <= n)
      <4>1. i - n \in 0 .. p /\ i = n + (i - n)
        BY <1>3, <3>2
      <4>2. k[n + (i - n)] = z \o kc[i - n] /\ kc[i - n] \in Seq(Nat)
        BY <1>4, <1>6, <4>1
      <4>3. z \o kc[i - n] \in Seq(Nat)
        BY <1>4, <4>2
      <4> QED
        BY <4>1, <4>2, <4>3
    <3> QED
      BY <3>1, <3>2
  <2>2. 0 \in 0 .. n
    BY <1>3
  <2>3. DOMAIN k = 0 .. n + p /\ k = [i \in 0 .. n + p |-> k[i]]
    OBVIOUS
  <2> HIDE DEF k
  <2> QED
    BY <1>3, <1>4, <1>5, <2>1, <2>2, <2>3
<1> HIDE DEF k
<1>8. ASSUME NEW i \in 1 .. Len(s)
      PROVE  k[i] = IF Matches(f, L[s[i]]) THEN Append(k[i - 1], s[i])
                    ELSE k[i - 1]
  <2>1. CASE i <= n
    <3>1. i \in 1 .. n /\ i \in 0 .. n /\ i - 1 \in 0 .. n
      BY <1>3, <2>1
    <3>2. k[i] = ka[i] /\ k[i - 1] = ka[i - 1] /\ s[i] = a[i]
      BY <1>3, <1>5, <3>1
    <3> QED
      BY <1>1, <3>1, <3>2 DEF Keeps
  <2>2. CASE ~(i <= n)
    <3> DEFINE j == i - n
    <3>1. /\ j \in 1 .. p /\ j \in 0 .. p /\ j - 1 \in 0 .. p
          /\ i = n + j /\ i - 1 = n + (j - 1)
      BY <1>3, <2>2
    <3> HIDE DEF j
    <3>2. k[i] = z \o kc[j] /\ k[i - 1] = z \o kc[j - 1] /\ s[i] = c[j]
      BY <1>3, <1>6, <3>1
    <3>3. kc[j] = IF Matches(f, L[c[j]]) THEN Append(kc[j - 1], c[j])
                  ELSE kc[j - 1]
      BY <1>2, <3>1 DEF Keeps
    <3>4. z \o Append(kc[j - 1], c[j]) = Append(z \o kc[j - 1], c[j])
      <4> DEFINE y == kc[j - 1]
                 e == c[j]
      <4>1. y \in Seq(Nat) /\ e \in Nat
        BY <1>3, <1>4, <3>1
      <4> HIDE DEF y, e
      <4>2. z \o Append(y, e) = Append(z \o y, e)
        BY <1>4, <4>1, SMTT(30)
      <4> QED
        BY <4>2 DEF y, e
    <3> QED
      BY <3>2, <3>3, <3>4, Zenon
  <2> QED
    BY <2>1, <2>2
<1>9. Keeps(s, L, f, k)
  BY <1>7, <1>8 DEF Keeps
<1>10. /\ Matching(s, L, f) = k[Len(s)] /\ Matching(a, L, f) = z
       /\ Matching(c, L, f) = kc[p]
  BY <1>1, <1>2, <1>3, <1>9, MatchingIs DEF z
<1>11. k[n + p] = z \o kc[p]
  <2>1. p \in 0 .. p
    BY <1>3
  <2> QED
    BY <1>6, <2>1
<1> QED
  BY <1>3, <1>4, <1>10, <1>11 DEF s

\* Nothing is selected when nothing matches.
LEMMA NoneMatches ==
    ASSUME NEW s \in Seq(Nat), NEW L, NEW f,
           \A i \in 1 .. Len(s) : ~Matches(f, L[s[i]])
    PROVE  Matching(s, L, f) = <<>>
<1> DEFINE k == [i \in 0 .. Len(s) |-> <<>>]
<1>1. Len(s) \in Nat
  OBVIOUS
<1>2. \A i \in 1 .. Len(s) : i \in 0 .. Len(s) /\ i - 1 \in 0 .. Len(s)
  BY <1>1
<1>3. Keeps(s, L, f, k)
  BY <1>1, <1>2 DEF Keeps
<1>4. Matching(s, L, f) = k[Len(s)]
  <2> HIDE DEF k
  <2> QED
    BY <1>3, MatchingIs
<1> QED
  BY <1>1, <1>4

\* The bounds and the sources of a unit cover its events.
Summarised(u, L) ==
    \A x \in u.first .. u.last :
        /\ x \in DOMAIN L
        /\ u.lo <= L[x].ts /\ L[x].ts <= u.hi /\ L[x].source \in u.sources

\* A unit with an event that matches is not excluded.
LEMMA MatchOverlaps ==
    ASSUME NEW u \in Units, NEW L \in Seq(Events), Summarised(u, L),
           NEW f \in Filters, NEW at, ~Overlaps(f, Entry(u, at)),
           NEW x \in u.first .. u.last
    PROVE  ~Matches(f, L[x])
<1>1. /\ u.lo \in Nat /\ u.hi \in Nat /\ f.from \in Nat /\ f.to \in Nat
  <2>1. f \in [from : Nat, to : Nat, sources : SUBSET Nat]
    BY FilterAssumption
  <2> QED
    BY <2>1 DEF Units
<1>2. /\ x \in DOMAIN L /\ u.lo <= L[x].ts /\ L[x].ts <= u.hi
      /\ L[x].source \in u.sources
  BY DEF Summarised
<1>3. L[x].ts \in Nat
  <2>1. L[x] \in Events
    BY <1>2
  <2> QED
    BY <2>1, EventAssumption
<1>4. ~(u.hi >= f.from /\ u.lo <= f.to /\ u.sources \cap f.sources # {})
  BY DEF Overlaps, Entry
<1> SUFFICES ASSUME L[x].ts >= f.from, L[x].ts <= f.to, L[x].source \in f.sources
             PROVE  FALSE
  BY DEF Matches
<1>5. u.hi >= f.from /\ u.lo <= f.to
  BY <1>1, <1>2, <1>3
<1>6. u.sources \cap f.sources # {}
  BY <1>2
<1> QED
  BY <1>4, <1>5, <1>6

\* The events of the units that a filter does not exclude.
LEMMA FilteredExists ==
    ASSUME NEW F, NEW D, NEW at, NEW ev, LaidOut(F, D, at, ev), NEW filters
    PROVE  \E fv : Filtered(D, at, filters, fv)
<1> DEFINE n == Len(D)
           Step(k, i) == k[i] = IF \E f \in filters : ~Overlaps(f, Entry(D[i], at[i - 1]))
                                THEN k[i - 1] ELSE k[i - 1] \o EventsOf(D[i])
           Upto(m, k) == /\ k \in [0 .. m -> Seq(Nat)] /\ k[0] = <<>>
                         /\ \A i \in 1 .. m : Step(k, i)
           G == {m \in 0 .. n : \E k : Upto(m, k)}
<1>1. n \in Nat
  BY DEF LaidOut
<1>2. 0 \in G
  <2> DEFINE k == [i \in 0 .. 0 |-> <<>>]
  <2>1. k \in [0 .. 0 -> Seq(Nat)] /\ k[0] = <<>> /\ 1 .. 0 = {}
    OBVIOUS
  <2> HIDE DEF k
  <2>2. Upto(0, k)
    BY <2>1
  <2> QED
    BY <1>1, <2>2
<1>3. ASSUME NEW m \in 0 .. n, m # n, m \in G
      PROVE  m + 1 \in G
  <2>1. PICK k : Upto(m, k)
    BY <1>3
  <2>2. m \in Nat /\ m + 1 \in 1 .. n /\ m \in 0 .. m
    BY <1>1, <1>3
  <2> DEFINE new == IF \E f \in filters : ~Overlaps(f, Entry(D[m + 1], at[m]))
                    THEN k[m] ELSE k[m] \o EventsOf(D[m + 1])
             K == [i \in 0 .. m + 1 |-> IF i = m + 1 THEN new ELSE k[i]]
  <2>3. k[m] \in Seq(Nat) /\ EventsOf(D[m + 1]) \in Seq(Nat)
    BY <1>1, <2>1, <2>2, LaidUnit
  <2>4. new \in Seq(Nat)
    BY <2>3
  <2> HIDE DEF new
  <2>5. /\ K \in [0 .. m + 1 -> Seq(Nat)] /\ K[m + 1] = new
        /\ \A i \in 0 .. m : K[i] = k[i] /\ k[i] \in Seq(Nat)
    BY <2>1, <2>2, <2>4
  <2> HIDE DEF K
  <2>6. K[0] = <<>>
    BY <2>1, <2>2, <2>5
  <2>7. ASSUME NEW i \in 1 .. m + 1
        PROVE  Step(K, i)
    <3>1. CASE i = m + 1
      <4>1. i - 1 = m /\ K[i - 1] = k[m]
        BY <2>2, <2>5, <3>1
      <4> QED
        BY <2>5, <3>1, <4>1 DEF new
    <3>2. CASE i # m + 1
      <4>1. i \in 1 .. m /\ i \in 0 .. m /\ i - 1 \in 0 .. m
        BY <2>2, <3>2
      <4>2. K[i] = k[i] /\ K[i - 1] = k[i - 1]
        BY <2>5, <4>1
      <4>3. Step(k, i)
        BY <2>1, <4>1
      <4> QED
        BY <4>2, <4>3
    <3> QED
      BY <3>1, <3>2
  <2> HIDE DEF Step
  <2>8. Upto(m + 1, K)
    BY <2>5, <2>6, <2>7
  <2>9. m + 1 \in 0 .. n
    BY <1>1, <2>2
  <2> QED
    BY <2>8, <2>9
<1> HIDE DEF G
<1>4. n \in G
  <2>1. 0 .. n \subseteq G
    BY <1>1, <1>2, <1>3, InductionUpTo
  <2> QED
    BY <1>1, <2>1
<1> QED
  BY <1>4 DEF G, Filtered

\* They hold every event that matches.
LEMMA FilteredMatches ==
    ASSUME NEW F, NEW D, NEW at, NEW ev, LaidOut(F, D, at, ev),
           NEW f \in Filters, NEW fv, Filtered(D, at, {f}, fv),
           NEW L \in Seq(Events), \A i \in 1 .. Len(D) : Summarised(D[i], L)
    PROVE  Matching(fv[Len(D)], L, f) = Matching(ev[Len(D)], L, f)
<1> DEFINE n == Len(D)
           G == {m \in 0 .. n : Matching(fv[m], L, f) = Matching(ev[m], L, f)}
<1>1. n \in Nat /\ fv[0] = <<>> /\ ev[0] = <<>>
      /\ \A i \in 0 .. n : fv[i] \in Seq(Nat) /\ ev[i] \in Seq(Nat)
  <2>1. ev \in [0 .. n -> Seq(Nat)] /\ ev[0] = <<>> /\ D \in Seq(Units)
    BY DEF LaidOut, Laid
  <2>2. fv \in [0 .. n -> Seq(Nat)] /\ fv[0] = <<>>
    BY DEF Filtered
  <2>3. n \in Nat
    BY <2>1
  <2> HIDE DEF n
  <2> QED
    BY <2>1, <2>2, <2>3
<1>2. 0 \in G
  BY <1>1
<1>3. ASSUME NEW m \in 0 .. n, m # n, m \in G
      PROVE  m + 1 \in G
  <2> DEFINE i == m + 1
             u == D[i]
             c == EventsOf(u)
  <2>1. i \in 1 .. n /\ i - 1 = m /\ i \in 0 .. n
    BY <1>1, <1>3
  <2> HIDE DEF i
  <2>2. u \in Units /\ c \in Seq(Nat) /\ u.first \in 1 .. u.last
    BY <2>1, LaidUnit DEF LaidOut, Laid
  <2>3. ev[i] = ev[m] \o c
    BY <2>1 DEF LaidOut, Laid
  <2>4. fv[i] = IF ~Overlaps(f, Entry(u, at[m])) THEN fv[m] ELSE fv[m] \o c
    BY <2>1 DEF Filtered
  <2>5. Matching(fv[m], L, f) = Matching(ev[m], L, f)
    BY <1>3
  <2>6. Summarised(u, L)
    BY <2>1
  <2> HIDE DEF u
  <2>7. CASE ~Overlaps(f, Entry(u, at[m]))
    <3>1. \A k \in 1 .. Len(c) : ~Matches(f, L[c[k]])
      <4> TAKE k \in 1 .. Len(c)
      <4>1. k \in 1 .. Count(u) /\ c[k] = u.first + k - 1
        BY <2>2, UnitEvents
      <4>2. c[k] \in u.first .. u.last
        <5>1. u.first \in Nat /\ u.last \in Nat /\ Count(u) = u.last - u.first + 1
          BY <2>2 DEF Units, Count
        <5> QED
          BY <4>1, <5>1
      <4> QED
        BY <2>2, <2>6, <2>7, <4>2, MatchOverlaps
    <3> HIDE DEF c
    <3>2. Matching(c, L, f) = <<>>
      BY <2>2, <3>1, NoneMatches
    <3>3. /\ Matching(ev[m] \o c, L, f) = Matching(ev[m], L, f) \o Matching(c, L, f)
          /\ Matching(ev[m], L, f) \in Seq(Nat)
      BY <1>1, <2>2, MatchingConcat
    <3> DEFINE old == Matching(ev[m], L, f)
    <3>4. old \in Seq(Nat) /\ Matching(ev[i], L, f) = old \o <<>>
      BY <2>3, <3>2, <3>3
    <3>5. Matching(fv[i], L, f) = old
      BY <2>4, <2>5, <2>7
    <3> HIDE DEF old
    <3>6. old \o <<>> = old
      BY <3>4
    <3> QED
      BY <2>1, <3>4, <3>5, <3>6 DEF i
  <2>8. CASE Overlaps(f, Entry(u, at[m]))
    <3> HIDE DEF c
    <3>1. /\ Matching(ev[m] \o c, L, f) = Matching(ev[m], L, f) \o Matching(c, L, f)
          /\ Matching(fv[m] \o c, L, f) = Matching(fv[m], L, f) \o Matching(c, L, f)
      <4>1. /\ Matching(ev[m] \o c, L, f)
                 = Matching(ev[m], L, f) \o Matching(c, L, f)
            /\ Matching(ev[m], L, f) \in Seq(Nat)
        BY <1>1, <2>2, MatchingConcat
      <4>2. /\ Matching(fv[m] \o c, L, f)
                 = Matching(fv[m], L, f) \o Matching(c, L, f)
            /\ Matching(fv[m], L, f) \in Seq(Nat)
        BY <1>1, <2>2, MatchingConcat
      <4> QED
        BY <4>1, <4>2
    <3>2. Matching(fv[i], L, f) = Matching(ev[i], L, f)
      BY <2>3, <2>4, <2>5, <2>8, <3>1, Zenon
    <3> QED
      BY <2>1, <3>2 DEF i
  <2> QED
    BY <2>7, <2>8
<1> HIDE DEF G
<1>4. n \in G
  <2>1. 0 .. n \subseteq G
    BY <1>1, <1>2, <1>3, InductionUpTo
  <2> QED
    BY <1>1, <2>1
<1> QED
  BY <1>4 DEF G

\* The bounds of the batch cover its events ...
BatchCovers == \A x \in InBatch : /\ batch.lo <= log[x].ts
                                  /\ log[x].ts <= batch.hi
                                  /\ log[x].source \in batch.sources

\* ... and those of every unit, queued, being sealed or on disk, its own.
SummaryInv ==
    /\ BatchCovers
    /\ \A i \in DOMAIN pending : Summarised(pending[i], log)
    /\ \A h \in DOMAIN hand : Summarised(hand[h], log)
    /\ \A i \in DOMAIN index :
         Summarised(file[index[i].offset + PrefixLen + 1].u, log)

\* A longer log changes none of the events a unit holds.
LEMMA SummaryKept ==
    ASSUME TypeOK, NEW e \in Events, NEW u, Summarised(u, log)
    PROVE  Summarised(u, Append(log, e))
<1>1. /\ log \in Seq(Events)
      /\ \A x \in DOMAIN log : /\ x \in DOMAIN Append(log, e)
                               /\ Append(log, e)[x] = log[x]
  BY DEF TypeOK
<1> QED
  BY <1>1 DEF Summarised

\* An event more in the batch is covered.
LEMMA PushCovers ==
    ASSUME TypeOK, ControlInv, MemoryInOrder, BatchCovers, Push
    PROVE  BatchCovers'
<1> DEFINE e == arg[1]
<1>1. e \in Events /\ batch' = PushedBatch(e) /\ log' = Append(log, e)
  BY PushedEvent DEF Push
<1>2. /\ e.ts \in Nat /\ e.source \in Nat
  BY <1>1, EventAssumption
<1> HIDE DEF e
<1>3. /\ batch.n \in Nat /\ batch.lo \in Nat /\ batch.hi \in Nat
      /\ log \in Seq(Events) /\ Len(log) \in Nat /\ batch.n <= Len(log)
  BY DEF TypeOK, MemoryInOrder
<1>4. /\ batch'.n = batch.n + 1 /\ batch'.lo = Lesser(batch.lo, e.ts)
      /\ batch'.hi = Greater(batch.hi, e.ts)
      /\ batch'.sources = batch.sources \cup {e.source}
  BY <1>1 DEF PushedBatch
<1>5. /\ batch'.lo <= batch.lo /\ batch'.lo <= e.ts /\ batch'.lo \in Nat
      /\ batch'.hi >= batch.hi /\ batch'.hi >= e.ts /\ batch'.hi \in Nat
  BY <1>2, <1>3, <1>4 DEF Lesser, Greater
<1>6. /\ Len(log') = Len(log) + 1 /\ log'[Len(log) + 1] = e
      /\ \A x \in 1 .. Len(log) : log'[x] = log[x]
  BY <1>1, <1>3
<1>7. ASSUME NEW x \in (InBatch)'
      PROVE  /\ batch'.lo <= log'[x].ts /\ log'[x].ts <= batch'.hi
             /\ log'[x].source \in batch'.sources
  <2>1. x \in Len(log) - batch.n + 1 .. Len(log) + 1
    BY <1>3, <1>4, <1>6, <1>7 DEF InBatch
  <2>2. CASE x = Len(log) + 1
    BY <1>4, <1>5, <1>6, <2>2
  <2>3. CASE x # Len(log) + 1
    <3>1. x \in InBatch /\ x \in 1 .. Len(log)
      BY <1>3, <2>1, <2>3 DEF InBatch
    <3>2. log'[x] = log[x] /\ log[x].ts \in Nat
      <4>1. log[x] \in Events
        BY <1>3, <3>1
      <4> QED
        BY <1>6, <3>1, <4>1, EventAssumption
    <3>3. /\ batch.lo <= log[x].ts /\ log[x].ts <= batch.hi
          /\ log[x].source \in batch.sources
      BY <3>1 DEF BatchCovers
    <3> QED
      BY <1>3, <1>4, <1>5, <3>2, <3>3
  <2> QED
    BY <2>2, <2>3
<1> QED
  BY <1>7 DEF BatchCovers

\* A sealed batch is a unit that its bounds cover.
LEMMA SealedCovers ==
    ASSUME TypeOK, MemoryInOrder, BatchCovers, NEW n
    PROVE  Summarised(SealedUnit(n), log)
<1>1. /\ batch.n \in Nat /\ log \in Seq(Events) /\ Len(log) \in Nat
      /\ batch.n <= Len(log)
  BY DEF TypeOK, MemoryInOrder
<1>2. InBatch \subseteq DOMAIN log
  BY <1>1 DEF InBatch
<1> QED
  BY <1>2 DEF Summarised, SealedUnit, BatchCovers, InBatch

\* An empty batch has nothing to cover.
LEMMA EmptyCovers ==
    ASSUME TypeOK, batch' = EmptyBatch, log' = log
    PROVE  BatchCovers'
<1>1. Len(log) \in Nat /\ batch'.n = 0 /\ Len(log') = Len(log)
  BY DEF TypeOK, EmptyBatch
<1>2. (InBatch)' = {}
  BY <1>1 DEF InBatch
<1> QED
  BY <1>2 DEF BatchCovers

\* The chunks in the index are those they were, or the one just drained.
LEMMA IndexSummary ==
    ASSUME Inv, SummaryInv, [Next]_vars, log' = log,
           NEW i \in DOMAIN (index')
    PROVE  Summarised(file'[index'[i].offset + PrefixLen + 1].u, log)
<1> DEFINE Leads(F, e) == F[e.offset + PrefixLen + 1].u
<1>1. /\ TypeOK /\ CursorInFile /\ MemoryInOrder /\ IndexIsExact
      /\ IndexedFrames /\ KeepsUnits(file')
      /\ index \in Seq(Entries) /\ cursor \in Nat
  BY FileStep DEF Inv, TypeOK
<1>2. ASSUME NEW j \in DOMAIN index
      PROVE  Summarised(Leads(file', index[j]), log)
  <2> DEFINE e == index[j]
             p == e.offset + PrefixLen + 1
  <2>1. e \in Entries /\ e.frameLen > 0 /\ EntryReadable(file, e, cursor)
        /\ Entry(file[p].u, e.offset) = e
    BY <1>1 DEF IndexIsExact, IndexedFrames
  <2>2. Summarised(file[p].u, log)
    BY DEF SummaryInv
  <2> HIDE DEF e
  <2>3. p \in 1 .. cursor
    <3>1. /\ e.offset \in Nat /\ e.frameLen \in Nat /\ PrefixLen \in Nat
      BY <2>1 DEF Entries, PrefixLen
    <3>2. e.offset + PrefixLen + e.frameLen <= cursor
      BY <2>1 DEF EntryReadable
    <3> QED
      BY <1>1, <2>1, <3>1, <3>2
  <2>4. file'[p] = file[p]
    BY <1>1, <2>3 DEF KeepsUnits
  <2> QED
    BY <2>2, <2>4 DEF e
<1>3. CASE index' = index
  BY <1>2, <1>3
<1>4. CASE DrainUnit
  <2> DEFINE u == Head(pending)
             e == Entry(u, cursor)
  <2>1. /\ index' = IF Chunked THEN Append(index, e) ELSE index
        /\ pending # <<>> /\ file' = Overwrite(file, cursor, CellsOf(u))
    BY <1>4 DEF DrainUnit
  <2>2. CASE ~Chunked \/ i \in DOMAIN index
    <3>1. i \in DOMAIN index /\ index'[i] = index[i]
      <4> HIDE DEF e
      <4> QED
        BY <1>1, <2>1, <2>2
    <3> QED
      BY <1>2, <3>1
  <2>3. CASE Chunked /\ i \notin DOMAIN index
    <3>1. index'[i] = e
      <4> HIDE DEF e
      <4> QED
        BY <1>1, <2>1, <2>3
    <3>2. /\ Size(u) \in Nat /\ u = pending[1] /\ u \in Units
          /\ \A k \in 1 .. Size(u) : file'[cursor + k] = UnitCell(u, k)
      BY <1>1, <2>1, DrainedFile
    <3>3. Summarised(u, log)
      <4>1. 1 \in DOMAIN pending
        BY <1>1, <2>1 DEF TypeOK
      <4> QED
        BY <3>2, <4>1 DEF SummaryInv
    <3>4. 2 \in 1 .. Size(u) /\ PrefixLen = 1
      <4>1. u.frameLen \in Nat \ {0}
        BY <3>2 DEF Units
      <4> HIDE DEF u
      <4> QED
        BY <2>3, <4>1 DEF Size, PrefixLen
    <3>5. file'[cursor + 2].u = u
      <4>1. file'[cursor + 2] = UnitCell(u, 2)
        BY <3>2, <3>4
      <4> HIDE DEF u
      <4> QED
        BY <4>1 DEF UnitCell
    <3>6. e.offset + PrefixLen + 1 = cursor + 2
      BY <1>1, <3>4 DEF Entry
    <3> QED
      BY <3>1, <3>3, <3>5, <3>6
  <2> QED
    BY <2>2, <2>3
<1> QED
  BY <1>3, <1>4
     DEF Next, WriteEvent, Push, Seal, SealUnit, SealFails, SealNothing,
         Enqueue, Drain, DrainDone, DrainFails, Flush, Finalize, Finish,
         WriteFooter, FooterFails, WriteMeta, MetaFails, DiskRefuses,
         DiskRecovers, Crash, vars, appender

\* At first there is nothing to cover.
LEMMA SummaryInit == Init => SummaryInv
<1> SUFFICES ASSUME Init PROVE SummaryInv
  OBVIOUS
<1>1. log = <<>> /\ batch = EmptyBatch /\ pending = <<>> /\ hand = <<>>
      /\ index = <<>>
  BY DEF Init
<1>2. InBatch = {}
  BY <1>1 DEF InBatch, EmptyBatch
<1> QED
  BY <1>1, <1>2 DEF SummaryInv, BatchCovers

\* The units in memory after a step are ones there were, or the batch.
LEMMA UnitsSummary ==
    ASSUME TypeOK, ControlInv, MemoryInOrder, SummaryInv, [Next]_vars,
           log' = log
    PROVE  /\ \A i \in DOMAIN (pending') : Summarised(pending'[i], log)
           /\ \A h \in DOMAIN (hand') : Summarised(hand'[h], log)
           /\ BatchCovers'
<1>0. /\ BatchCovers /\ pending \in Seq(Units) /\ hand \in Seq(Units)
      /\ \A i \in DOMAIN pending : Summarised(pending[i], log)
      /\ \A h \in DOMAIN hand : Summarised(hand[h], log)
  BY DEF SummaryInv, TypeOK
<1> DEFINE Same == batch' = batch /\ hand' = hand /\ pending' = pending
<1>1. Same => BatchCovers'
  BY <1>0 DEF BatchCovers, InBatch
<1>2. CASE Same
  BY <1>0, <1>1, <1>2
<1>3. CASE Push
  BY <1>3 DEF Push, TypeOK
<1>4. ASSUME NEW n \in FrameLens, SealUnit(n)
      PROVE  /\ \A i \in DOMAIN (pending') : Summarised(pending'[i], log)
             /\ \A h \in DOMAIN (hand') : Summarised(hand'[h], log)
             /\ BatchCovers'
  <2>1. /\ pending' = pending /\ hand' = <<SealedUnit(n)>>
        /\ batch' = EmptyBatch
    BY <1>4 DEF SealUnit, appender
  <2>2. Summarised(SealedUnit(n), log)
    BY <1>0, SealedCovers
  <2> QED
    BY <1>0, <2>1, <2>2, EmptyCovers
<1>5. ASSUME NEW n \in FrameLens, SealFails(n)
      PROVE  /\ \A i \in DOMAIN (pending') : Summarised(pending'[i], log)
             /\ \A h \in DOMAIN (hand') : Summarised(hand'[h], log)
             /\ BatchCovers'
  <2>1. pending' = pending /\ hand' = hand /\ batch' = EmptyBatch
    BY <1>5 DEF SealFails, appender
  <2> QED
    BY <1>0, <2>1, EmptyCovers
<1>6. CASE Enqueue
  <2>1. /\ batch' = batch /\ hand' = <<>> /\ pc = "enqueue"
        /\ pending' = pending \/ pending' = Append(pending, hand[1])
    BY <1>6 DEF Enqueue, Queued
  <2>2. BatchCovers'
    BY <1>0, <2>1 DEF BatchCovers, InBatch
  <2>3. hand[1] \in Units /\ Summarised(hand[1], log)
    <3>1. Len(hand) = 1
      BY <2>1 DEF ControlInv
    <3>2. 1 \in DOMAIN hand
      BY <1>0, <3>1
    <3> QED
      BY <1>0, <3>2
  <2> DEFINE u == hand[1]
  <2>4. u \in Units /\ Summarised(u, log)
        /\ (pending' = pending \/ pending' = Append(pending, u))
    BY <2>1, <2>3
  <2> HIDE DEF u
  <2>5. \A i \in DOMAIN (pending') :
          \/ i \in DOMAIN pending /\ pending'[i] = pending[i]
          \/ pending'[i] = u
    BY <1>0, <2>4
  <2> QED
    BY <1>0, <2>1, <2>2, <2>4, <2>5
<1>7. CASE DrainUnit
  <2>1. /\ batch' = batch /\ hand' = hand /\ pending # <<>>
        /\ pending' = Tail(pending)
    BY <1>7 DEF DrainUnit
  <2>2. BatchCovers'
    BY <1>0, <2>1 DEF BatchCovers, InBatch
  <2>3. \A i \in DOMAIN (pending') :
          i + 1 \in DOMAIN pending /\ pending'[i] = pending[i + 1]
    BY <1>0, <2>1
  <2> QED
    BY <1>0, <2>1, <2>2, <2>3
<1>8. CASE DrainDone \/ DrainFails
  <2>1. /\ batch' = batch /\ hand' = hand
        /\ pending' = pending \/ pending' = <<>>
    BY <1>8 DEF DrainDone, DrainFails, AfterDrain
  <2>2. BatchCovers'
    BY <1>0, <2>1 DEF BatchCovers, InBatch
  <2> QED
    BY <1>0, <2>1, <2>2
<1>9. CASE Crash
  <2>1. batch' = EmptyBatch /\ hand' = <<>> /\ pending' = <<>>
    BY <1>9 DEF Crash
  <2> QED
    BY <2>1, EmptyCovers
<1>10. \/ Same \/ Push \/ DrainUnit \/ DrainDone \/ DrainFails \/ Enqueue
       \/ Crash
       \/ \E n \in FrameLens : SealUnit(n)
       \/ \E n \in FrameLens : SealFails(n)
  BY DEF Next, WriteEvent, Seal, SealNothing, Drain, Flush, Finalize, Finish,
         WriteFooter, FooterFails, WriteMeta, MetaFails, DiskRefuses,
         DiskRecovers, vars, appender
<1> HIDE DEF Same
<1> QED
  BY <1>2, <1>3, <1>4, <1>5, <1>6, <1>7, <1>8, <1>9, <1>10

\* Every step keeps the bounds right.
LEMMA SummaryNext == Inv /\ SummaryInv /\ [Next]_vars => SummaryInv'
<1> SUFFICES ASSUME Inv, SummaryInv, [Next]_vars PROVE SummaryInv'
  OBVIOUS
<1>1. TypeOK /\ ControlInv /\ MemoryInOrder /\ BatchCovers
  BY DEF Inv, SummaryInv
<1>2. CASE Push
  <2> DEFINE e == arg[1]
  <2>1. /\ e \in Events /\ log' = Append(log, e) /\ hand' = hand
        /\ pending' = pending /\ index' = index /\ file' = file
    BY <1>1, <1>2, PushedEvent DEF Push, appender
  <2> HIDE DEF e
  <2>2. \A u : Summarised(u, log) => Summarised(u, log')
    BY <1>1, <2>1, SummaryKept
  <2>3. BatchCovers'
    BY <1>1, <1>2, PushCovers
  <2> QED
    BY <2>1, <2>2, <2>3 DEF SummaryInv, PrefixLen
<1>3. CASE log' = log
  <2>1. /\ \A i \in DOMAIN (pending') : Summarised(pending'[i], log)
        /\ \A h \in DOMAIN (hand') : Summarised(hand'[h], log)
        /\ BatchCovers'
    BY <1>1, <1>3, UnitsSummary
  <2>2. \A i \in DOMAIN (index') :
          Summarised(file'[index'[i].offset + PrefixLen + 1].u, log)
    BY <1>3, IndexSummary
  <2> QED
    BY <1>3, <2>1, <2>2 DEF SummaryInv, PrefixLen
<1>4. Push \/ log' = log
  BY DEF Next, WriteEvent, Seal, SealUnit, SealFails, SealNothing, Enqueue,
         Drain, DrainUnit, DrainDone, DrainFails, Flush, Finalize, Finish,
         WriteFooter, FooterFails, WriteMeta, MetaFails, DiskRefuses,
         DiskRecovers, Crash, vars, history
<1> QED
  BY <1>2, <1>3, <1>4

\* A filter costs no event that matches it.
LEMMA FilterAgrees ==
    ASSUME Inv, FileInv, SummaryInv, pc # "crashed", NEW f \in Filters
    PROVE  ReadFiltered(file, log, f) = Matching(Stored, log, f)
<1>1. file \in Seq(Cells) /\ log \in Seq(Events)
  BY DEF Inv, TypeOK
<1>2. PICK D \in Seq(Units) :
        \E at \in [0 .. Len(D) -> Nat], ev \in [0 .. Len(D) -> Seq(Nat)] :
          /\ Laid(file, D, at, ev)
          /\ TailOf(file, cursor, index)
          /\ at[Len(D)] = cursor /\ ev[Len(D)] = Stored
          /\ Chunked => index = EntriesOf(D, at)
  BY DEF FileInv, DiskInv, FileHolds
<1>3. PICK at \in [0 .. Len(D) -> Nat], ev \in [0 .. Len(D) -> Seq(Nat)] :
        /\ Laid(file, D, at, ev)
        /\ TailOf(file, cursor, index)
        /\ at[Len(D)] = cursor /\ ev[Len(D)] = Stored
        /\ Chunked => index = EntriesOf(D, at)
  BY <1>2
<1>4. LaidOut(file, D, at, ev)
  BY <1>1, <1>3 DEF LaidOut
<1>5. TailOf(file, at[Len(D)], EntriesOf(D, at))
  <2>1. CASE Chunked
    BY <1>3, <2>1
  <2>2. CASE ~Chunked
    BY <1>3, <2>2 DEF TailOf, FooterBegun
  <2> QED
    BY <2>1, <2>2
<1>6. PICK fv : Filtered(D, at, {f}, fv)
  BY <1>4, FilteredExists
<1>7. ReadUnits(file, {f}).events =
        IF Footed(file, at[Len(D)], EntriesOf(D, at))
        THEN fv[Len(D)] ELSE ev[Len(D)]
  BY <1>4, <1>5, <1>6, FileReads
<1>8. CASE Chunked
  <2>1. \A i \in 1 .. Len(D) : Summarised(D[i], log)
    <3> TAKE i \in 1 .. Len(D)
    <3>1. i \in DOMAIN index /\ index[i] = Entry(D[i], at[i - 1])
      BY <1>3, <1>8 DEF EntriesOf
    <3>2. index[i].offset = at[i - 1]
      BY <3>1 DEF Entry
    <3>3. file[at[i - 1] + PrefixLen + 1].u = D[i]
      <4> DEFINE F == file
      <4>1. LaidOut(F, D, at, ev)
        BY <1>4
      <4> HIDE DEF F
      <4>2. F[at[i - 1] + PrefixLen + 1].u = D[i]
        BY <4>1, LaidUnit, SMTT(30)
      <4> QED
        BY <4>2 DEF F
    <3>4. Summarised(file[index[i].offset + PrefixLen + 1].u, log)
      BY <3>1 DEF SummaryInv
    <3> QED
      BY <3>2, <3>3, <3>4
  <2>2. Matching(fv[Len(D)], log, f) = Matching(ev[Len(D)], log, f)
    BY <1>1, <1>4, <1>6, <2>1, FilteredMatches, SMTT(30)
  <2> QED
    BY <1>3, <1>7, <2>2 DEF ReadFiltered
<1>9. CASE ~Chunked
  BY <1>3, <1>7, <1>9 DEF ReadFiltered, Footed
<1> QED
  BY <1>8, <1>9

-----------------------------------------------------------------------------
(* A client that polls the session (LivePolls).                            *)

\* What a reader gets grows at its end.
LEMMA StoredGrows ==
    ASSUME Inv, Inv', FileInv, FileInv', [Next]_vars
    PROVE  \E more \in Seq(Nat) : Stored' = Stored \o more
<1>1. [Promise!Next]_(Promise!logVars)
  BY LogStep
<1>2. Stored \in Seq(Nat) /\ Stored' \in Seq(Nat)
  BY DEF FileInv, StoredInv
<1>3. CASE Stored' = Stored
  <2>1. <<>> \in Seq(Nat) /\ Stored \o <<>> = Stored
    BY <1>2
  <2> QED
    BY <1>3, <2>1
<1>4. CASE Stored' # Stored
  <2>1. \E S \in SUBSET Promise!Held : Promise!Extend(S)
    BY <1>1, <1>4 DEF Promise!Next, Promise!logVars, Promise!Accept, Promise!Store,
                      Promise!GiveUp, Promise!Close, Promise!Crash
  <2>2. PICK S \in SUBSET Promise!Held : Promise!Extend(S)
    BY <2>1
  <2>3. PICK n \in 0 .. Len(log) : \E new \in [1 .. n -> S] : Stored' = Stored \o new
    BY <2>2 DEF Promise!Extend
  <2>4. PICK new \in [1 .. n -> S] : Stored' = Stored \o new
    BY <2>3
  <2>5. S \subseteq Nat /\ Len(log) \in Nat
    <3>1. Len(log) \in Nat
      BY DEF Inv, TypeOK
    <3>2. Promise!Held \subseteq 1 .. Len(log)
      BY DEF Promise!Held
    <3>3. S \subseteq 1 .. Len(log)
      BY ONLY <2>2, <3>2, Zenon
    <3> QED
      BY ONLY <3>1, <3>3
  <2>6. new \in Seq(Nat)
    <3>1. n \in Nat
      BY ONLY <2>5, n \in 0 .. Len(log)
    <3>2. new \in [1 .. n -> Nat]
      BY ONLY <2>5, new \in [1 .. n -> S]
    <3> QED
      BY ONLY <3>1, <3>2, SeqDef
  <2>7. Stored' = Stored \o new
    BY <2>4
  <2> QED
    BY ONLY <2>6, <2>7, Zenon
<1> QED
  BY <1>3, <1>4

\* A session that is finalized stays as it is.
LEMMA FinalStays ==
    ASSUME Inv, Inv', FileInv, meta.count # -1, [Next]_vars
    PROVE  Stored' = Stored /\ meta' = meta /\ log' = log /\ lost' = lost
<1>1. pc = "closed"
  BY DEF FileInv, StoredInv
<1>2. [Promise!Next]_(Promise!logVars) /\ ~Running
  BY <1>1, LogStep DEF Running
<1>3. Stored' = Stored /\ lost' = lost
  BY <1>2 DEF Promise!Next, Promise!logVars, Promise!Accept, Promise!Store,
              Promise!GiveUp, Promise!Close, Promise!Crash
<1>4. call # "finalize" \/ ~Finish
  BY <1>1 DEF Finish, WriteFooter, FooterFails, WriteMeta, MetaFails
<1>5. meta' = meta /\ log' = log
  BY <1>1, <1>4 DEF Next, WriteEvent, Push, Seal, SealUnit, SealFails, SealNothing, Enqueue,
              Drain, Draining, DrainUnit, DrainDone, DrainFails, Flush, Finalize,
              DiskRefuses, DiskRecovers, Crash, Running, vars, history
<1> QED
  BY <1>3, <1>5

\* All of a finalized session is in the file or given up.
LEMMA FinalIsWhole ==
    ASSUME Inv, FileInv, meta.count # -1
    PROVE  ToSet(Stored) = (1 .. Len(log)) \ lost
<1>1. /\ pc = "closed" /\ batch.n = 0 /\ hand = <<>> /\ pending = <<>>
      /\ ToSet(Stored) \cup lost \cup InMemory = 1 .. Len(log)
      /\ ToSet(Stored) \cap lost = {}
  BY DEF FileInv, StoredInv, BatchIsSealed, Inv, ControlInv
<1>2. Len(log) \in Nat
  BY DEF Inv, TypeOK
<1>3. InBatch = {}
  BY <1>1, <1>2 DEF InBatch
<1>4. InMemory = {}
  BY <1>1, <1>3 DEF InMemory, EventSet
<1> QED
  BY <1>1, <1>4

\* The client has been told the beginning that its cursor says.
PollsInv ==
    /\ pollCursor \in 0 .. Len(Stored)
    /\ polled = SubSeq(Stored, 1, pollCursor)
    /\ ~live => meta.count # -1
    /\ ~live /\ ~polling => pollCursor = Len(Stored)

LEMMA PollsStep ==
    ASSUME Inv, Inv', FileInv, FileInv', PollsInv, Next \/ UNCHANGED vars, UNCHANGED pollVars
    PROVE  PollsInv'
<1>1. Stored \in Seq(Nat) /\ Stored' \in Seq(Nat)
  BY DEF FileInv, StoredInv
<1>2. PICK more \in Seq(Nat) : Stored' = Stored \o more
  BY StoredGrows
<1>3. UNCHANGED <<polling, live, pollCursor, polled>>
  BY DEF pollVars
<1>4. /\ Len(Stored) <= Len(Stored') /\ Len(Stored) \in Nat /\ Len(Stored') \in Nat
      /\ \A i \in 1 .. Len(Stored) : Stored'[i] = Stored[i]
  <2> DEFINE old == Stored
  <2>1. old \in Seq(Nat)
    BY <1>1
  <2> HIDE DEF old
  <2>2. /\ Len(old) <= Len(old \o more) /\ Len(old) \in Nat /\ Len(old \o more) \in Nat
        /\ \A i \in 1 .. Len(old) : (old \o more)[i] = old[i]
    BY <1>2, <2>1
  <2> QED
    BY <1>2, <2>2 DEF old
<1>5. pollCursor' \in 0 .. Len(Stored')
  BY <1>3, <1>4 DEF PollsInv
<1>6. polled' = SubSeq(Stored', 1, pollCursor')
  <2> DEFINE old == Stored
             now == Stored'
             c == pollCursor
  <2>1. /\ old \in Seq(Nat) /\ now \in Seq(Nat) /\ c \in 0 .. Len(old)
        /\ Len(old) <= Len(now) /\ \A i \in 1 .. Len(old) : now[i] = old[i]
    BY <1>1, <1>4 DEF PollsInv
  <2> HIDE DEF old, now, c
  <2>2. SubSeq(now, 1, c) = SubSeq(old, 1, c)
    <3>1. /\ SubSeq(now, 1, c) \in Seq(Nat) /\ SubSeq(old, 1, c) \in Seq(Nat)
          /\ Len(SubSeq(now, 1, c)) = c /\ Len(SubSeq(old, 1, c)) = c
          /\ \A i \in 1 .. c : SubSeq(now, 1, c)[i] = now[i] /\ SubSeq(old, 1, c)[i] = old[i]
      BY <2>1, SMTT(30)
    <3>2. \A i \in 1 .. c : now[i] = old[i]
      BY <2>1
    <3> QED
      BY <3>1, <3>2, SeqEqual
  <2>3. polled = SubSeq(old, 1, c)
    BY DEF PollsInv, old, c
  <2> QED
    BY <1>3, <2>2, <2>3 DEF now, c
<1>7. ~live' => meta'.count # -1 /\ Stored' = Stored
  BY <1>3, FinalStays DEF PollsInv
<1>8. ~live' /\ ~polling' => pollCursor' = Len(Stored')
  BY <1>3, <1>7 DEF PollsInv
<1> QED
  BY <1>5, <1>6, <1>7, <1>8 DEF PollsInv

\* The poll that reads the events tells the rest of them.
LEMMA PollTells ==
    ASSUME FileInv, PollsInv, PollEvents
    PROVE  polled' = Stored /\ pollCursor' = Len(Stored)
<1> DEFINE s == Stored
           c == pollCursor
<1>1. s \in Seq(Nat) /\ c \in 0 .. Len(s) /\ polled = SubSeq(s, 1, c)
  BY DEF FileInv, StoredInv, PollsInv
<1>2. polled' = polled \o Delta(s) /\ pollCursor' = Len(s)
  <2>1. polled' = polled \o Delta(Stored) /\ pollCursor' = Len(Stored)
    BY Zenon DEF PollEvents
  <2> QED
    BY <2>1, Zenon
<1>3. Delta(s) = SubSeq(s, c + 1, Len(s))
  <2>1. ~(c > Len(s))
    BY <1>1
  <2> QED
    BY <2>1, Zenon DEF Delta
<1> HIDE DEF s, c
<1> DEFINE a == SubSeq(s, 1, c)
           b == SubSeq(s, c + 1, Len(s))
<1>4. /\ a \in Seq(Nat) /\ b \in Seq(Nat) /\ Len(a) = c /\ Len(b) = Len(s) - c
      /\ \A i \in 1 .. c : a[i] = s[i]
      /\ \A i \in 1 .. Len(s) - c : b[i] = s[c + i]
  BY <1>1
<1> HIDE DEF a, b
<1>5. a \o b = s
  <2>1. a \o b \in Seq(Nat) /\ Len(a \o b) = Len(s)
    BY <1>1, <1>4
  <2>2. ASSUME NEW i \in 1 .. Len(a \o b)
        PROVE  (a \o b)[i] = s[i]
    <3>1. CASE i \in 1 .. c
      <4>1. (a \o b)[i] = a[i]
        BY <1>1, <1>4, <3>1
      <4> QED
        BY <1>4, <3>1, <4>1
    <3>2. CASE ~(i \in 1 .. c)
      <4>1. i - c \in 1 .. Len(s) - c /\ c + (i - c) = i
        BY <1>1, <2>1, <3>2
      <4>2. (a \o b)[i] = b[i - c]
        BY <1>1, <1>4, <2>1, <3>2, SMTT(30)
      <4> QED
        BY <1>4, <4>1, <4>2
    <3> QED
      BY <3>1, <3>2
  <2> QED
    BY <1>1, <2>1, <2>2, SeqEqual
<1> QED
  BY <1>1, <1>2, <1>3, <1>5 DEF a, b, s

LEMMA PollsNext ==
    ASSUME Inv, Inv', FileInv, FileInv', PollsInv, [PollNext]_<<vars, pollVars>>
    PROVE  PollsInv'
<1>0. Stored \in Seq(Nat) /\ Len(Stored) \in Nat
  BY DEF FileInv, StoredInv
<1>1. CASE (Next \/ UNCHANGED vars) /\ UNCHANGED pollVars
  BY <1>1, PollsStep
<1>2. CASE PollMeta
  <2>1. /\ polling' = TRUE /\ (live' <=> meta.count = -1)
        /\ UNCHANGED <<vars, pollCursor, polled>>
    BY <1>2 DEF PollMeta, IsLive
  <2>2. Stored' = Stored /\ meta' = meta
    BY <2>1 DEF vars, Stored
  <2> QED
    BY <2>1, <2>2 DEF PollsInv
<1>3. CASE PollEvents
  <2>1. polling' = FALSE /\ UNCHANGED <<vars, live>>
    BY <1>3 DEF PollEvents
  <2>2. Stored' = Stored /\ meta' = meta
    BY <2>1 DEF vars, Stored
  <2>3. polled' = Stored /\ pollCursor' = Len(Stored)
    BY <1>3, PollTells
  <2>4. SubSeq(Stored, 1, Len(Stored)) = Stored
    BY <1>0
  <2> QED
    BY <1>0, <2>1, <2>2, <2>3, <2>4 DEF PollsInv
<1> QED
  BY <1>1, <1>2, <1>3 DEF PollNext

-----------------------------------------------------------------------------
(* Theorems.                                                               *)

\* Every reachable state satisfies the inductive invariant.
THEOREM Invariant == Spec => []Inv
BY InitInv, NextInv, PTL DEF Spec

\* The state of the writer keeps its types: no counter or offset underflows
\* (pending_bytes -= in drain, writer.rs), the file holds cells only.
THEOREM TypeCorrect == Spec => []TypeOK
<1>1. Inv => TypeOK
  BY DEF Inv
<1> QED
  BY Invariant, <1>1, PTL

\* Past the last whole unit there is at most a beginning of the unit that
\* will overwrite it (Appender::append, write_at_cursor in writer.rs).
THEOREM TornTailOverwritten == Spec => []TornTailIsOverwritten
<1>1. Inv => TornTailIsOverwritten
  BY DEF Inv
<1> QED
  BY Invariant, <1>1, PTL

\* Between calls, storage_error() is set exactly while units wait for the
\* disk (Appender::drain in writer.rs).
THEOREM StorageErrorCurrent == Spec => []StorageErrorIsCurrent
<1>1. Inv => StorageErrorIsCurrent
  BY DEF Inv, ErrorInv, StorageErrorIsCurrent
<1> QED
  BY Invariant, <1>1, PTL

\* Every entry of the index points to a whole chunk that it describes, after
\* any failed write, failed cut or crash (Appender::drain in writer.rs).
THEOREM IndexExact == Spec => []IndexIsExact
<1>1. Inv => IndexIsExact
  BY DEF Inv
<1> QED
  BY Invariant, <1>1, PTL

\* No event is both given up and still held, and dropped_events counts those
\* given up (seal, Appender::enqueue, finalize in writer.rs).
THEOREM DropsCounted == Spec => [](LostIsGone /\ DropsAreCounted)
<1>1. Inv => LostIsGone /\ DropsAreCounted
  BY DEF Inv
<1> QED
  BY Invariant, <1>1, PTL

\* A disk that takes every write costs no event, and the backlog is the size of
\* what is queued and over its limit only for a single unit: for any sizes of events,
\* batches, chunks and backlog (Batch::push, seal, Appender::enqueue in writer.rs;
\* MAX_CHUNK_BYTES in chunked.rs).
THEOREM LimitsAreKeptAlways == Spec => []LimitsAreKept
<1>1. Inv /\ LimitsInv => LimitsAreKept
  BY BacklogIsSum DEF Inv, LimitsInv, Healthy, LimitsAreKept, HealthyDiskLosesNothing
<1> QED
  BY Invariant, LimitsInductive, <1>1, PTL DEF Spec

\* write_event returns Ok when the writer holds the event, and an error when it
\* does not (write_event, seal in writer.rs).
THEOREM WriteResultTrue == Spec => []WriteResultIsTrue
<1>1. ResultInv => WriteResultIsTrue
  BY DEF ResultInv
<1> QED
  BY Invariant, LimitsInductive, <1>1, PTL DEF Spec

\* The file is whole units and a tail, and with what is held and what was given
\* up its events make up all that was accepted.
THEOREM FileInvariant == Spec => []FileInv
<1>1. Inv /\ Inv' /\ FileInv /\ [Next]_vars => FileInv'
  BY FileInvNext
<1> QED
  BY Invariant, FileInvInit, <1>1, PTL DEF Spec

\* The counters, the results and the flushes say what the file holds, and no
\* event is forgotten, whatever the disk does and wherever the process dies;
\* FLUSH_MIN_BYTES of chunked.rs is 0.
THEOREM WriterHonest ==
    ASSUME Chunked => FlushMin = 0
    PROVE  Spec => []WriterKeepsItsWord
<1>1. Inv /\ FileInv /\ ResultInv => WriterKeepsItsWord
  BY WordKept
<1>2. Init => ResultInv
  BY LimitsInductive
<1> QED
  BY Invariant, FileInvariant, LimitsInductive, <1>1, PTL DEF Spec

\* Reading a finalized session through its index and a filter gives what
\* filtering the whole of it gives: no bound of a chunk, taken from events
\* out of order or from several sources, hides one (reader.rs
\* decode_indexed, chunked.rs push).
THEOREM FilteredReads == Spec => []FilteredReadAgrees
<1>1. Init => SummaryInv
  BY SummaryInit
<1>2. Inv /\ SummaryInv /\ [Next]_vars => SummaryInv'
  BY SummaryNext
<1>3. Inv /\ FileInv /\ SummaryInv => FilteredReadAgrees
  BY FilterAgrees DEF FilteredReadAgrees
<1> QED
  BY <1>1, <1>2, <1>3, Invariant, FileInvariant, PTL DEF Spec

\* The writer implements the event log: events reach the file in the order of
\* acceptance, none twice, none that was given up, and a session that is closed
\* leaves none in doubt (writer.rs, read back by chunked.rs and reader.rs).
THEOREM WriterImplementsEventLog == Spec => EventLogSpec
<1>1. Init /\ FileInv => Promise!Init
  BY LogInit
<1>2. Inv /\ Inv' /\ FileInv /\ [Next]_vars => [Promise!Next]_(Promise!logVars)
  BY LogStep
<1> QED
  BY Invariant, FileInvariant, <1>1, <1>2, PTL DEF Spec, EventLogSpec, Promise!Spec

\* What the polls of a client reported is at any moment a beginning of what
\* the file is read as, and when a poll reports the session finalized it was
\* told of everything in it (subscribe_live.rs).
THEOREM PollsContinueAlways == PolledSpec => []PollsContinue
<1>1. Init /\ PollInit => PollsInv
  <2> SUFFICES ASSUME Init, PollInit PROVE PollsInv
    OBVIOUS
  <2>1. FileInv
    BY FileInvInit
  <2>2. Stored \in Seq(Nat)
    BY <2>1 DEF FileInv, StoredInv
  <2> QED
    BY <2>2 DEF PollInit, PollsInv
<1>2. [PollNext]_<<vars, pollVars>> => [Next]_vars
  BY DEF PollNext, PollMeta, PollEvents
<1>3. PolledSpec => Spec
  BY <1>2, PTL DEF PolledSpec, Spec
<1>4. Inv /\ Inv' /\ FileInv /\ FileInv' /\ PollsInv /\ [PollNext]_<<vars, pollVars>> => PollsInv'
  BY PollsNext
<1>5. Inv /\ FileInv /\ PollsInv => PollsContinue
  <2> SUFFICES ASSUME Inv, FileInv, PollsInv PROVE PollsContinue
    OBVIOUS
  <2> DEFINE s == Stored
             c == pollCursor
  <2>1. s \in Seq(Nat) /\ c \in 0 .. Len(s) /\ polled = SubSeq(s, 1, c)
    BY DEF FileInv, StoredInv, PollsInv
  <2>2. ~live /\ ~polling => c = Len(s) /\ ToSet(s) = (1 .. Len(log)) \ lost
    BY FinalIsWhole DEF PollsInv
  <2> HIDE DEF s, c
  <2>3. Len(polled) = c /\ SubSeq(polled, 1, c) = polled
    BY <2>1
  <2>4. IsPrefix(polled, s)
    BY <2>1, <2>3 DEF IsPrefix
  <2>5. c = Len(s) => polled = s
    BY <2>1
  <2> QED
    BY <2>2, <2>4, <2>5 DEF PollsContinue, s
<1> QED
  BY <1>1, <1>3, <1>4, <1>5, Invariant, FileInvariant, PTL DEF PolledSpec
=============================================================================
