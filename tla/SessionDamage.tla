----------------------------- MODULE SessionDamage -----------------------------
(***************************************************************************)
(* A session at rest, finalized or left by a crash, whose events file then *)
(* suffers: a run of bytes is overwritten, or the end is cut off.  What    *)
(* the readers of SessionFile make of it (crates/smeltr-core/src/reader.rs *)
(* and chunked.rs, which claim to survive exactly this).                   *)
(*                                                                         *)
(* Damage is not chosen freely: a damaged cell of a frame never decodes    *)
(* (zstd checksum), a damaged footer fails its CRC.  A damaged length      *)
(* prefix reads as any length of LengthFlips, a damaged footer offset as   *)
(* any of OffsetFlips: neither is protected.                               *)
(***************************************************************************)
EXTENDS SessionWriter

CONSTANTS LengthFlips, OffsetFlips,
          MaxDamage      \* bound: times the file is damaged

ASSUME DamageAssumption ==
    LengthFlips \subseteq Nat /\ OffsetFlips \subseteq Nat /\ MaxDamage \in Nat

VARIABLES damages,       \* times the file has been damaged
          original,      \* history: the events readable before
          cut            \* history: whether the end was cut off

damageVars == <<vars, damages, original, cut>>

AtRest == pc \in {"closed", "crashed"}

DamageInit == Init /\ damages = 0 /\ original = <<>> /\ cut = FALSE

DamageTo(newFile) ==
    /\ AtRest /\ damages < MaxDamage
    /\ file' = newFile
    /\ damages' = damages + 1
    /\ original' = IF damages = 0 THEN Stored ELSE original
    /\ UNCHANGED <<batch, hand, appender, dropped, meta, control, environment,
                   history>>

\* What a damaged cell may read as.
Flips(cell) ==
    {DamagedCell(n) : n \in LengthFlips} \cup
    (IF cell.kind = "trailer"
     THEN {[kind |-> "badTrailer", offset |-> n] :
              n \in OffsetFlips \cup {cell.offset}}
     ELSE {})

Flip(i) == /\ file[i].kind # "magic"
           /\ \E cell \in Flips(file[i]) : DamageTo([file EXCEPT ![i] = cell])
           /\ UNCHANGED cut

Truncate(n) == /\ n >= HeadLen
               /\ DamageTo(SubSeq(file, 1, n))
               /\ cut' = TRUE

Work == Next /\ UNCHANGED <<damages, original, cut>>

DamageNext == \/ Work
              \/ \E i \in 1 .. Len(file) : Flip(i)
              \/ \E n \in 0 .. Len(file) - 1 : Truncate(n)

DamageSpec == DamageInit /\ [][DamageNext]_damageVars

-----------------------------------------------------------------------------
(* Properties.                                                             *)

\* A finalized session never looks complete when it is not: whatever is
\* damaged or cut off, the reader returns every event or says that some are
\* missing (the count in the metadata shows what the file cannot).
FinalizedDamageIsReported ==
    damages > 0 /\ meta.count # -1 =>
        Stored = original \/ Read(file, meta).damaged

\* The units still whole in the file.
IntactUnits ==
    {file[p].u : p \in {q \in 1 .. Len(file) :
        /\ file[q].kind = "unit" /\ file[q].k = 1
        /\ q + Size(file[q].u) - 1 <= Len(file)
        /\ SubSeq(file, q, q + Size(file[q].u) - 1) = CellsOf(file[q].u)}}

\* No damaged length or offset points further than its unit or the footer.
NoMisleadingLength ==
    \A i \in DOMAIN file :
        /\ file[i].kind = "damaged" => file[i].len = 0
        /\ file[i].kind = "badTrailer" => file[i].offset = Len(file) - 2

\* Damage costs only the units it hits: every other unit is read, on both
\* sides of it, with a footer, without one, or with a corrupt one.
DamageCostsOnlyItsUnit ==
    damages > 0 /\ NoMisleadingLength =>
        \A u \in IntactUnits : u.first .. u.last \subseteq ToSet(Stored)

\* Damage is neither hidden nor contagious.
DamageIsHandled == FinalizedDamageIsReported /\ DamageCostsOnlyItsUnit

\* reader.rs: "each unit (legacy zstd frame, chunk) that decodes is returned,
\* damaged ones are skipped and described", for sessions that were never
\* finalized too, as long as nothing was cut off.
DamageIsDescribed ==
    damages > 0 /\ ~cut => Stored = original \/ Read(file, meta).damaged
=============================================================================
