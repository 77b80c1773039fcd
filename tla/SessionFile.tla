----------------------------- MODULE SessionFile -----------------------------
(***************************************************************************)
(* The events file of a session, and how a reader decodes it               *)
(* (crates/smeltr-core: chunked.rs, reader.rs, filter.rs).                 *)
(*                                                                         *)
(* A file is a sequence of cells, each standing for a run of bytes that is *)
(* written or damaged as one.  A unit (one zstd frame, preceded in the     *)
(* chunked format by its length) occupies Size(u) consecutive cells; it    *)
(* decodes only when every cell of its frame is in place, which is what    *)
(* the zstd checksum guarantees.  Compression is reduced to the number of  *)
(* cells it yields, CBOR to the identity of the events in the unit.        *)
(*                                                                         *)
(* Files of releases before the checksum (one unchecked frame, or plain    *)
(* CBOR) are not modelled: no writer of this repository produces them.     *)
(***************************************************************************)
EXTENDS Integers, Sequences, FiniteSets, SequencesExt

CONSTANTS
    Chunked,          \* TRUE: chunked format, FALSE: zstd frames back to back
    MaxChunk          \* largest frame the scan accepts, in cells

ASSUME FormatAssumption == Chunked \in BOOLEAN /\ MaxChunk \in Nat \ {0}

\* Cells before the first unit: the head magic of the chunked format.
HeadLen == IF Chunked THEN 1 ELSE 0

\* Cells before a unit's frame: the length prefix of the chunked format.
PrefixLen == IF Chunked THEN 1 ELSE 0

\* A unit holds the events first..last, in that order, in a frame of
\* frameLen cells; lo, hi and sources summarise its events for the index.
Size(u) == PrefixLen + u.frameLen
EventsOf(u) == [i \in 1 .. u.last - u.first + 1 |-> u.first + i - 1]

MagicCell == [kind |-> "magic"]
UnitCell(u, k) == [kind |-> "unit", u |-> u, k |-> k]
CellsOf(u) == [k \in 1 .. Size(u) |-> UnitCell(u, k)]

\* A damaged cell.  Where a length is expected, it reads as len.
DamagedCell(len) == [kind |-> "damaged", len |-> len]

\* The footer: the index (with its count), then the trailer, which holds the
\* offset of the footer, the CRC of the index, and the closing magic.
FooterBody(index) == [kind |-> "index", index |-> index]
Trailer(offset) == [kind |-> "trailer", offset |-> offset]
FooterCells(index, offset) == <<FooterBody(index), Trailer(offset)>>

-----------------------------------------------------------------------------
(* Writing: the cells from offset `at' on, replaced by `cells'; the file   *)
(* never gets shorter.                                                     *)

Overwrite(file, at, cells) ==
    LET end == at + Len(cells)
    IN  [i \in 1 .. IF Len(file) > end THEN Len(file) ELSE end |->
            IF i \in at + 1 .. end THEN cells[i - at] ELSE file[i]]

-----------------------------------------------------------------------------
(* Decoding.  Positions are those of cells, from 1.                        *)

\* A frame opens at p: its first cell, magic and checksum flag, is intact.
FrameOpens(file, p) ==
    /\ p \in 1 .. Len(file)
    /\ file[p].kind = "unit"
    /\ file[p].k = PrefixLen + 1

\* decode_chunk, decompress_frame: the slice p..end starts with one whole
\* frame.  single_frame() stops there: what follows in the slice is ignored.
WholeFrame(file, p, end) ==
    /\ FrameOpens(file, p)
    /\ LET u == file[p].u
       IN  /\ p + u.frameLen - 1 <= end
           /\ \A i \in 1 .. u.frameLen :
                file[p + i - 1] = UnitCell(u, PrefixLen + i)

\* What the length prefix at p reads as.  Any other cell reads as a length
\* that no frame follows.
LengthAt(file, p) ==
    CASE file[p].kind = "unit" /\ file[p].k = 1 -> file[p].u.frameLen
      [] file[p].kind = "damaged" -> file[p].len
      [] OTHER -> 0

\* try_chunk
ChunkAt(file, p, end) ==
    LET n == LengthAt(file, p)
    IN  /\ n \in 1 .. MaxChunk
        /\ p + n <= end
        /\ WholeFrame(file, p + 1, p + n)

\* The cells a decodable unit at p takes, as the reader believes.
UnitAt(file, p, end) ==
    IF Chunked THEN ChunkAt(file, p, end) ELSE WholeFrame(file, p, end)
UnitEnd(file, p) ==
    IF Chunked THEN p + LengthAt(file, p) ELSE p + file[p].u.frameLen - 1
UnitOf(file, p) == file[p + PrefixLen].u

\* Where the scan may resume after damage at p.
\* Mutant: the first damaged unit ends the scan.
ResyncNever(file, p, end) == {}
Resync(file, p, end) == {q \in p + 1 .. end : UnitAt(file, q, end)}

\* scan_chunks_checked, read_legacy_zst: every unit that decodes, in file
\* order, resuming after damage at the next one; damaged says that cells
\* were skipped.
Scan(file, end) ==
    LET from[p \in 1 .. end + 1] ==
          LET later == Resync(file, p, end)
              next  == CHOOSE q \in later : \A r \in later : q <= r
          IN  IF p = end + 1 THEN [events |-> <<>>, damaged |-> FALSE]
              ELSE IF UnitAt(file, p, end)
              THEN LET rest == from[UnitEnd(file, p) + 1]
                   IN  [events  |-> EventsOf(UnitOf(file, p)) \o rest.events,
                        damaged |-> rest.damaged]
              ELSE IF later # {}
              THEN [events |-> from[next].events, damaged |-> TRUE]
              ELSE [events |-> <<>>, damaged |-> TRUE]
    IN  IF end < HeadLen THEN [events |-> <<>>, damaged |-> FALSE]
                         ELSE from[HeadLen + 1]

-----------------------------------------------------------------------------
(* The footer index.                                                       *)

\* A trailer whose magic is intact closes the file.
HasTrailer(file) ==
    /\ Len(file) >= HeadLen + 2
    /\ file[Len(file)].kind \in {"trailer", "badTrailer"}

\* read_footer_with_offset: offset in range, body of the size its count
\* says, CRC right.
FooterValid(file) ==
    LET t == file[Len(file)]
    IN  /\ t.kind = "trailer"
        /\ t.offset >= HeadLen
        /\ t.offset = Len(file) - 2
        /\ file[t.offset + 1].kind = "index"

\* claimed_footer_offset: where a corrupt footer says the chunks end.
ClaimedEnd(file) ==
    LET t == file[Len(file)]
    IN  IF HasTrailer(file) /\ t.offset \in HeadLen .. Len(file) - 2
        THEN t.offset ELSE Len(file)

\* EventFilter: a window of timestamps and a set of sources (one source, or
\* all of them when the filter names none).
Matches(f, e) == e.ts >= f.from /\ e.ts <= f.to /\ e.source \in f.sources

\* chunk_overlaps: an entry that may hold a matching event.
Overlaps(f, entry) ==
    /\ entry.hi >= f.from
    /\ entry.lo <= f.to
    /\ entry.sources \cap f.sources # {}

\* An entry whose chunk lies in the chunk area and decodes.
EntryReadable(file, entry, footerAt) ==
    /\ entry.offset >= HeadLen
    /\ entry.offset + PrefixLen + entry.frameLen <= footerAt
    /\ WholeFrame(file, entry.offset + PrefixLen + 1,
                  entry.offset + PrefixLen + entry.frameLen)

\* decode_indexed: entry by entry, skipping those that the filter (a set of
\* one, or none) excludes; lengths come from the index, not from the prefixes.
DecodeIndexed(file, footerAt, entries, filters) ==
    LET read[i \in 0 .. Len(entries)] ==
          IF i = 0 THEN [events |-> <<>>, damaged |-> FALSE]
          ELSE LET e == entries[i]
                   before == read[i - 1]
               IN  IF \E f \in filters : ~Overlaps(f, e) THEN before
                   ELSE IF EntryReadable(file, e, footerAt)
                   THEN [events  |-> before.events \o
                                       EventsOf(file[e.offset + PrefixLen + 1].u),
                         damaged |-> before.damaged]
                   ELSE [events |-> before.events, damaged |-> TRUE]
    IN  read[Len(entries)]

\* read_chunked: through the footer when it is valid, else by scanning.
ReadUnits(file, filters) ==
    CASE ~Chunked \/ ~HasTrailer(file) -> Scan(file, Len(file))
      [] Chunked /\ HasTrailer(file) /\ FooterValid(file) ->
           DecodeIndexed(file, Len(file) - 2, file[Len(file) - 1].index,
                         filters)
      [] OTHER -> Scan(file, ClaimedEnd(file))

\* for_each_event without a filter: every readable event, and whether the
\* reader says that something is missing -- in the file, or against the
\* counts of the metadata (count is -1 until finalize has written it).
Read(file, meta) ==
    LET r == ReadUnits(file, {})
    IN  [events  |-> r.events,
         damaged |-> \/ r.damaged
                     \/ Len(r.events) < meta.count
                     \/ meta.dropped > 0]

\* The events of s that match a filter, in their order; log[i] are the facts
\* of event i.
Matching(s, log, f) ==
    LET kept[i \in 0 .. Len(s)] ==
          IF i = 0 THEN <<>>
          ELSE IF Matches(f, log[s[i]]) THEN Append(kept[i - 1], s[i])
          ELSE kept[i - 1]
    IN  kept[Len(s)]

\* for_each_event with a filter.
ReadFiltered(file, log, f) == Matching(ReadUnits(file, {f}).events, log, f)
=============================================================================
