------------------------------ MODULE Attribution ------------------------------
(***************************************************************************)
(* Whom the analysis charges for the GPU time of a session: each completed *)
(* command buffer goes to the mx.eval whose window covers its commit, or   *)
(* else to the innermost module call or scope open then, or to "unscoped"  *)
(* (crates/smeltr-analyzer/src/breakdown.rs, windows.rs,                   *)
(* dispatch_origins.rs, rules/lazy_eval_attribution.rs,                    *)
(* rules/sidecar_absent.rs).                                               *)
(*                                                                         *)
(* The sidecar that emits the calls (python/src/smeltr/_modules.py,        *)
(* _mlx.py) is one Python process with threads, each with a stack of its   *)
(* own; a scope closed out of order (an asyncio task, a generator) leaves  *)
(* the middle of its stack.  Any of its events may be dropped.  Work of    *)
(* the driver is committed at any time.  Every step takes one unit of      *)
(* time, so events of the session are in time order with distinct times.   *)
(***************************************************************************)
EXTENDS Integers, Sequences, FiniteSets, FiniteSetsExt, SequencesExt

CONSTANTS
  Threads,
  Grace,             \* ASYNC_GRACE_NS, in steps
  AsyncBelow,        \* an eval shorter than this is flagged asynchronous
  Qualname,          \* the qualname of the n-th call
  MaxSteps, MaxCalls, MaxDrops   \* bounds: steps, module calls, events dropped

ASSUME AttributionAssumption ==
    /\ Grace \in Nat /\ AsyncBelow \in Nat /\ MaxSteps \in Nat
    /\ MaxCalls \in Nat /\ MaxDrops \in Nat /\ MaxCalls <= Len(Qualname)

VARIABLES
  recorded,               \* the session's events
  now,
  stacks,            \* _tls.stack: the calls open in each thread
  evaling,           \* the eval each thread is in: [id, since], id 0 if none
  ids,               \* [call, eval]: the process's counters
  droppedCalls, capture   \* events dropped; SMELTR_STACK_CAPTURE

attributionVars == <<recorded, now, stacks, evaling, ids, droppedCalls, capture>>

-----------------------------------------------------------------------------
(* The indices of the session.                                             *)

Of(kind) == {i \in DOMAIN recorded : recorded[i].kind = kind}
Calls == {recorded[i].id : i \in Of("enter")}
Cbs == Of("cb")

\* A buffer's time: its kernels', or that in flight if none was ever sampled.
SeenOps == \E i \in Cbs : recorded[i].ops
Ns(cbs) == IF SeenOps THEN Cardinality({i \in cbs : recorded[i].ops})
           ELSE Cardinality(cbs)

-----------------------------------------------------------------------------
(* windows.rs                                                              *)

\* eval_windows: evals that returned, with the grace when asynchronous.
EvalWindow(entered, returned) ==
    [in |-> entered.ts, out |-> IF returned.async THEN returned.ts + Grace ELSE returned.ts,
     stack |-> entered.stack, framed |-> entered.framed]

EvalWindows ==
    {EvalWindow(recorded[p[1]], recorded[p[2]]) :
        p \in {q \in Of("evalIn") \X Of("evalOut") : recorded[q[1]].id = recorded[q[2]].id}}

\* scope_windows: a call that never returned is open until the last event.
ScopeWindows ==
    {LET returned == {j \in Of("return") : recorded[j].id = recorded[i].id}
     IN  [in |-> recorded[i].ts, id |-> recorded[i].id,
          out |-> IF returned = {} THEN Last(recorded).ts
                  ELSE recorded[CHOOSE j \in returned : TRUE].ts] : i \in Of("enter")}

\* eval_at: the latest eval entered among those that cover ts.
EvalAt(windows, ts) ==
    LET covering == {w \in windows : w.in <= ts /\ ts <= w.out}
    IN  {w \in covering : \A v \in covering : v.in <= w.in}

\* ScopeSweep: windows are pushed as their time comes and popped, expired,
\* from the top only; the call on top of the stack at each of the times.
DropExpired(stack, ts) ==
    LET alive == {n \in DOMAIN stack : stack[n].out + Grace >= ts}
    IN  SubSeq(stack, 1, Max(alive \cup {0}))

\* The members of S by ascending key.
Ascending(S, key) ==
    [n \in 1 .. Cardinality(S) |->
        CHOOSE x \in S : Cardinality({y \in S : key[y] < key[x]}) = n - 1]

ScopeSweep(times) ==
    LET sorted == Ascending(ScopeWindows, [w \in ScopeWindows |-> w.in])
        Advance(s, ts) ==
            LET due == {n \in DOMAIN sorted : n > s.next /\ sorted[n].in <= ts}
                next == s.next + Cardinality(due)
            IN  [next |-> next,
                 stack |-> DropExpired(s.stack \o SubSeq(sorted, s.next + 1, next), ts)]
        sweep[n \in 0 .. Len(times)] ==
            IF n = 0 THEN [next |-> 0, stack |-> <<>>] ELSE Advance(sweep[n - 1], times[n])
    IN  [n \in DOMAIN times |-> IF sweep[n].stack = <<>> THEN 0 ELSE Last(sweep[n].stack).id]

\* The call each of these buffers falls in, 0 if none.
Swept(cbs) ==
    LET order == Ascending(cbs, [i \in cbs |-> i])
        owner == ScopeSweep([n \in DOMAIN order |-> recorded[order[n]].ts])
    IN  [i \in cbs |-> owner[CHOOSE n \in DOMAIN order : order[n] = i]]

-----------------------------------------------------------------------------
(* breakdown.rs, compute                                                   *)

EvalOf(i) == EvalAt(EvalWindows, recorded[i].ts)
InEval == {i \in Cbs : EvalOf(i) # {}}

\* The call an eval's time goes to: the innermost of its stack, if known.
LeafOf(eval) ==
    IF eval.stack # <<>> /\ Last(eval.stack) \in Calls THEN Last(eval.stack) ELSE 0

Owners ==
    LET swept == Swept(Cbs \ InEval)
    IN  [i \in Cbs |-> IF i \in InEval
                       THEN LeafOf(CHOOSE w \in EvalOf(i) : TRUE) ELSE swept[i]]

\* The children of a call are linked when they enter, if it entered before.
EnteredAt(c) == CHOOSE i \in Of("enter") : recorded[i].id = c
Children(c) ==
    {recorded[i].id : i \in {j \in Of("enter") : recorded[j].parent = c /\ EnteredAt(c) < j}}

\* Mutant: roots are the calls that had no parent (#243).
RootsWithoutParent == {c \in Calls : recorded[EnteredAt(c)].parent = 0}

Roots == {c \in Calls : recorded[EnteredAt(c)].parent \notin Calls}

\* A quantity of the calls, summed over the tree as it is shown.
Shown(quantity) ==
    LET subtree[c \in Calls] == quantity[c] + SumFunctionOnSet(subtree, Children(c))
    IN  SumFunctionOnSet(subtree, Roots)

Self(owners) == [c \in Calls |-> Ns({i \in Cbs : owners[i] = c})]
Unscoped(owners) == Ns({i \in Cbs : owners[i] = 0})

-----------------------------------------------------------------------------
(* dispatch_origins.rs: the eval with a captured frame, else the scope.    *)

Origin ==
    LET framed == {w \in EvalWindows : w.framed}
        sampled == {i \in Cbs : recorded[i].ops}
        swept == Swept({i \in sampled : EvalAt(framed, recorded[i].ts) = {}})
    IN  [i \in sampled |->
            IF i \in DOMAIN swept THEN [eval |-> {}, scope |-> swept[i]]
            ELSE [eval |-> EvalAt(framed, recorded[i].ts), scope |-> 0]]

(* lazy_eval_attribution.rs, detect: time of evals outside any module.     *)
LazyGapNs == Ns({i \in Cbs : \E w \in EvalAt(EvalWindows, recorded[i].ts) : w.stack = <<>>})

LazyGap == LazyGapNs > 0 /\ 2 * LazyGapNs >= Ns(Cbs)

(* sidecar_absent.rs, detect.                                              *)
SidecarAbsent == Cbs # {} /\ Of("hello") \cup Of("enter") \cup Of("evalIn") = {}

-----------------------------------------------------------------------------
(* The sidecar and the driver.                                             *)

NoEval == [id |-> 0, since |-> 0]

AttributionInit ==
    /\ recorded \in {<<>>, <<[kind |-> "hello", ts |-> 0]>>}
    /\ now = 0
    /\ stacks = [t \in Threads |-> <<>>]
    /\ evaling = [t \in Threads |-> NoEval]
    /\ ids = [call |-> 1, eval |-> 1]
    /\ droppedCalls = 0
    /\ capture \in BOOLEAN

HelloSent == Of("hello") # {}

EmitEvent(event) ==
    /\ now < MaxSteps
    /\ now' = now + 1
    /\ \/ recorded' = Append(recorded, event) /\ droppedCalls' = droppedCalls
       \/ recorded' = recorded /\ droppedCalls < MaxDrops /\ droppedCalls' = droppedCalls + 1

\* _push
EnterCall(t) ==
    /\ HelloSent /\ evaling[t].id = 0 /\ ids.call <= MaxCalls
    /\ EmitEvent([kind |-> "enter", ts |-> now + 1, id |-> ids.call,
             parent |-> IF stacks[t] = <<>> THEN 0 ELSE Last(stacks[t])])
    /\ stacks' = [stacks EXCEPT ![t] = Append(@, ids.call)]
    /\ ids' = [ids EXCEPT !.call = @ + 1]
    /\ UNCHANGED <<evaling, capture>>

\* _pop: the call may be anywhere in the stack.
ReturnCall(t, n) ==
    /\ evaling[t].id = 0
    /\ EmitEvent([kind |-> "return", ts |-> now + 1, id |-> stacks[t][n]])
    /\ stacks' = [stacks EXCEPT ![t] = RemoveAt(@, n)]
    /\ UNCHANGED <<evaling, ids, capture>>

EnterEval(t) ==
    /\ HelloSent /\ evaling[t].id = 0
    /\ EmitEvent([kind |-> "evalIn", ts |-> now + 1, id |-> ids.eval,
             stack |-> stacks[t], framed |-> capture])
    /\ evaling' = [evaling EXCEPT ![t] = [id |-> ids.eval, since |-> now + 1]]
    /\ ids' = [ids EXCEPT !.eval = @ + 1]
    /\ UNCHANGED <<stacks, capture>>

ReturnEval(t) ==
    /\ evaling[t].id # 0
    /\ EmitEvent([kind |-> "evalOut", ts |-> now + 1, id |-> evaling[t].id,
             async |-> now + 1 - evaling[t].since < AsyncBelow])
    /\ evaling' = [evaling EXCEPT ![t] = NoEval]
    /\ UNCHANGED <<stacks, ids, capture>>

\* A buffer committed now that will complete, with or without kernel times.
CommitWork(ops) ==
    /\ now < MaxSteps
    /\ now' = now + 1
    /\ recorded' = Append(recorded, [kind |-> "cb", ts |-> now + 1, ops |-> ops])
    /\ UNCHANGED <<stacks, evaling, ids, droppedCalls, capture>>

AttributionNext ==
    \/ \E t \in Threads :
          \/ EnterCall(t)
          \/ \E n \in DOMAIN stacks[t] : ReturnCall(t, n)
          \/ EnterEval(t)
          \/ ReturnEval(t)
    \/ \E ops \in BOOLEAN : CommitWork(ops)

AttributionSpec == AttributionInit /\ [][AttributionNext]_attributionVars

-----------------------------------------------------------------------------
(* No time is lost or counted twice, whatever was dropped and however the  *)
(* threads' calls overlap: the tree and "unscoped" together show the time  *)
(* of every completed buffer, and every call once; the sweep finds the     *)
(* latest call that covers each buffer; and the origins, when stacks are   *)
(* captured, charge every buffer by the same eval and the same call.       *)
Innermost(ts) ==
    LET covering == {w \in ScopeWindows : w.in <= ts /\ ts <= w.out + Grace}
    IN  IF covering = {} THEN 0
        ELSE (CHOOSE w \in covering : \A v \in covering : v.in <= w.in).id

TimeIsConserved ==
    LET owners == Owners
    IN  /\ Shown(Self(owners)) + Unscoped(owners) = Ns(Cbs)
        /\ Shown([c \in Calls |-> 1]) = Cardinality(Calls)
        /\ \A i \in Cbs \ InEval : owners[i] = Innermost(recorded[i].ts)
        /\ capture => \A i \in DOMAIN Origin :
              Origin[i] = [eval |-> EvalOf(i),
                           scope |-> IF i \in InEval THEN 0 ELSE owners[i]]

(* The advice shown with a breakdown is about that breakdown: the lazy     *)
(* gap is part of what it shows as unscoped, a session without a sidecar   *)
(* is unscoped altogether, and the two are never both found                *)
(* (breakdown.rs:505, "mutually exclusive").                               *)
AdviceExplainsUnscoped ==
    /\ LazyGapNs <= Unscoped(Owners)
    /\ SidecarAbsent => Unscoped(Owners) = Ns(Cbs) /\ ~LazyGap

AttributionIsSound == TimeIsConserved /\ AdviceExplainsUnscoped
=============================================================================
