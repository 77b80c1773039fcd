------------------------------ MODULE ScopeMemory ------------------------------
(***************************************************************************)
(* The device memory of each module or scope                               *)
(* (crates/smeltr-analyzer/src/memory.rs, compute_memory_breakdown): every *)
(* sample taken while a call is open, or within the grace after it, counts *)
(* for it.  Samples carry the hook's clock and reach the session late, in  *)
(* batches of the ring drain, so the file is not in time order.            *)
(***************************************************************************)
EXTENDS Attribution

CONSTANTS Sizes,        \* what a sample may measure
          MaxSamples    \* bound: samples taken

ASSUME MemoryAssumption == Sizes \subseteq Nat /\ MaxSamples \in Nat

VARIABLE ring           \* samples taken and not drained yet

memoryVars == <<attributionVars, ring>>

-----------------------------------------------------------------------------
(* The fold.                                                               *)

Accum == [peak |-> 0, count |-> 0, first |-> 0, running |-> 0]

Sampled(a, bytes, running) ==
    [peak |-> Max({a.peak, bytes}), count |-> a.count + 1,
     first |-> IF a.count = 0 THEN bytes ELSE a.first,
     running |-> IF running THEN Max({a.running, bytes}) ELSE a.running]

\* Mutant: the file is taken to be in time order (#270).
FileOrder == recorded

InTimeOrder == SortSeq(recorded, LAMBDA e, f : e.ts < f.ts)

\* One more call of its qualname: the row is that of the call with the
\* highest peak, its growth the largest of any of them.
Finalized(rows, call) ==
    LET name == Qualname[call.id]
        a == call.accum
        row == [peak |-> a.peak, count |-> a.count,
                growth |-> IF a.running > a.first THEN a.running - a.first ELSE 0]
        old == rows[name]
        kept == IF row.peak > old.peak \/ old.count = -1 THEN row ELSE old
    IN  [rows EXCEPT ![name] = [kept EXCEPT !.growth = Max({row.growth, old.growth})]]

FinalizedAll(rows, calls) == FoldLeft(Finalized, rows, calls)

MemoryStep(s, e) ==
    LET expired == SelectSeq(s.draining, LAMBDA d : d.deadline < e.ts)
        swept == [s EXCEPT !.draining = SelectSeq(@, LAMBDA d : d.deadline >= e.ts),
                           !.rows = FinalizedAll(@, expired)]
        named == {n \in DOMAIN s.open : e.kind = "return" /\ s.open[n].id = e.id}
    IN  CASE e.kind = "enter" ->
                [swept EXCEPT !.open = Append(@, [id |-> e.id, accum |-> Accum])]
          [] e.kind = "return" /\ named # {} ->
                LET n == Max(named)
                IN  [swept EXCEPT
                        !.open = RemoveAt(@, n),
                        !.draining = Append(@, [id |-> e.id, accum |-> s.open[n].accum,
                                                deadline |-> e.ts + Grace])]
          [] e.kind = "sample" ->
                [swept EXCEPT
                    !.open = [n \in DOMAIN @ |->
                                [@[n] EXCEPT !.accum = Sampled(@, e.bytes, TRUE)]],
                    !.draining = [n \in DOMAIN @ |->
                                [@[n] EXCEPT !.accum = Sampled(@, e.bytes, FALSE)]]]
          [] OTHER -> swept

Names == ToSet(Qualname)
NoRow == [peak |-> 0, count |-> -1, growth |-> 0]

MemoryBreakdown ==
    LET end == FoldLeft(MemoryStep, [open |-> <<>>, draining |-> <<>>,
                                     rows |-> [n \in Names |-> NoRow]], InTimeOrder)
    IN  FinalizedAll(FinalizedAll(end.rows, end.draining), end.open)

-----------------------------------------------------------------------------
(* The sidecar's calls, and the samples.                                   *)

MemoryInit == AttributionInit /\ ring = <<>>

Sample(bytes) ==
    /\ now < MaxSteps
    /\ Len(ring) + Cardinality(Of("sample")) < MaxSamples
    /\ now' = now + 1
    /\ ring' = Append(ring, [kind |-> "sample", ts |-> now + 1, bytes |-> bytes])
    /\ UNCHANGED <<recorded, stacks, evaling, ids, droppedCalls, capture>>

\* The daemon drains the ring: the samples join the session.
DrainSamples ==
    /\ ring # <<>>
    /\ recorded' = recorded \o ring
    /\ ring' = <<>>
    /\ UNCHANGED <<now, stacks, evaling, ids, droppedCalls, capture>>

MemoryNext ==
    \/ /\ \E t \in Threads : EnterCall(t) \/ \E n \in DOMAIN stacks[t] : ReturnCall(t, n)
       /\ UNCHANGED ring
    \/ \E bytes \in Sizes : Sample(bytes)
    \/ DrainSamples

-----------------------------------------------------------------------------
(* Each row shows what the session's samples say of the calls of its name: *)
(* the peak within their windows and graces, and the largest rise above    *)
(* the first of those samples while a call was running; whatever order the *)
(* samples arrived in, and whichever calls ended early, late or never.     *)
CallSamples(c) ==
    LET entered == recorded[EnteredAt(c)].ts
        return == {recorded[j].ts : j \in {j \in Of("return") : recorded[j].id = c}}
    IN  [in |-> {j \in Of("sample") : /\ recorded[j].ts > entered
                                      /\ \A r \in return : recorded[j].ts <= r + Grace},
         running |-> {j \in Of("sample") : /\ recorded[j].ts > entered
                                           /\ \A r \in return : recorded[j].ts < r}]

Bytes(samples) == {recorded[j].bytes : j \in samples}

CallGrowth(c) ==
    LET s == CallSamples(c)
        first == {recorded[j].bytes : j \in {j \in s.in : \A k \in s.in : recorded[j].ts <= recorded[k].ts}}
    IN  Max({m - f : m \in Bytes(s.running), f \in first} \cup {0})

MemoryIsWindowed ==
    \A name \in Names :
        LET calls == {c \in Calls : Qualname[c] = name}
            row == MemoryBreakdown[name]
            peak == Max(UNION {Bytes(CallSamples(c).in) : c \in calls} \cup {0})
        IN  IF calls = {} THEN row = NoRow
            ELSE /\ row.peak = peak
                 /\ row.growth = Max({CallGrowth(c) : c \in calls})
                 /\ \E c \in calls : /\ row.count = Cardinality(CallSamples(c).in)
                                     /\ Max(Bytes(CallSamples(c).in) \cup {0}) = peak
=============================================================================
