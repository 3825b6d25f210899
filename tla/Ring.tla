-------------------------------- MODULE Ring --------------------------------
(***************************************************************************)
(* The context ring (ring.rs): recent lines by correlation key, bounded in *)
(* memory, and the window of lines an error is sent with, bounded by flow  *)
(* dedupe and by two budgets.                                              *)
(*                                                                         *)
(* One shard: a key is always in the same one and shards share nothing but *)
(* the budgets.  A line is its template and the time it was seen, which    *)
(* stand for its body; a flow is the templates of a window and the         *)
(* error's, which stand for their hash.                                    *)
(***************************************************************************)
EXTENDS Naturals, Sequences, FiniteSets, SequencesExt, FiniteSetsExt, Functions

CONSTANTS
    LineSources,             \* what identifies a line: [trace, request, thread, service]
    LineTemplates, ErrorTemplates,
    shard_budget, max_lines_per_key, max_context_lines,
    context_age, dedupe_window, MINUTE,
    windows_per_minute, max_windows_per_minute, MaxFlows,
    MaxRingClock, MaxLines   \* bounds

ASSUME RingAssumption == max_lines_per_key \in Nat \ {0} /\ MaxFlows \in Nat \ {0} /\ MINUTE \in Nat \ {0}

VARIABLES
    held,         \* Shard::keys
    order,        \* Shard::order
    ringBytes,    \* Shard::bytes
    recentFlows,  \* Ring::recent_flows
    shapeBudgets, \* Ring::budgets, by error template
    globalBudget, \* Ring::global_budget
    ringClock, ringLines,
    captures,     \* history: every capture that got as far as a flow
    folded        \* history: errors folded, reported with a window, and forfeited

ringVars == <<held, order, ringBytes, recentFlows, shapeBudgets, globalBudget, ringClock, ringLines, captures, folded>>

NoBudget == [start |-> 0, n |-> 0]

RingInit ==
    /\ held = << >> /\ order = <<>> /\ ringBytes = 0
    /\ recentFlows = << >> /\ shapeBudgets = << >> /\ globalBudget = NoBudget
    /\ ringClock = 0 /\ ringLines = 0 /\ captures = {}
    /\ folded = [deduped |-> 0, reported |-> 0, forfeited |-> 0]

Put(f, x, y) == [z \in DOMAIN f \cup {x} |-> IF z = x THEN y ELSE f[z]]

-----------------------------------------------------------------------------
(* observe.                                                                *)

(* correlation_key: the strongest identification there is.                 *)
KeyOf(src) ==
    CASE src.trace # "none" -> <<"trace", src.trace>>
      [] src.trace = "none" /\ src.request # "none" -> <<"request", src.service, src.request>>
      [] src.trace = "none" /\ src.request = "none" /\ src.thread # "none" -> <<"thread", src.thread>>
      [] OTHER -> <<"service", src.service>>

(* Entry::bytes.                                                           *)
EntryBytes(lines) == Len(lines)

Queued(key) == IF key \in DOMAIN held THEN held[key] ELSE <<>>

(* A key is queued for eviction once, when it is new.                      *)
OrderAfter(key) == IF key \in DOMAIN held THEN order ELSE Append(order, key)

(* Per-key cap: the oldest line goes.                                      *)
Capped(lines) == IF Len(lines) > max_lines_per_key THEN Tail(lines) ELSE lines

BytesAfter(key, lines) == ringBytes + 1 - (Len(Queued(key)) + 1 - Len(lines))

(* Shard budget: whole keys, oldest first, until it fits.  The number that *)
(* must go is the least that leaves room.                                  *)
EvictCount(keys, ord, bytes) ==
    LET freed(n) == FoldLeft(LAMBDA b, k : b + EntryBytes(keys[k]), 0, SubSeq(ord, 1, n))
        enough == {n \in 0..Len(ord) : bytes <= shard_budget + freed(n)}
    IN IF enough = {} THEN Len(ord) ELSE Min(enough)

(* The shard after a line.                                                 *)
ObservedShard(key, line) ==
    LET lines == Capped(Append(Queued(key), line))
        keys == Put(held, key, lines)
        ord == OrderAfter(key)
        bytes == BytesAfter(key, lines)
        n == EvictCount(keys, ord, bytes)
        gone == Range(SubSeq(ord, 1, n))
        stays == SubSeq(ord, n + 1, Len(ord))
    IN [keys |-> [k \in DOMAIN keys \ gone |-> keys[k]], order |-> stays,
        bytes |-> bytes - FoldLeft(LAMBDA b, k : b + EntryBytes(keys[k]), 0, SubSeq(ord, 1, n))]

Install(shard) == held' = shard.keys /\ order' = shard.order /\ ringBytes' = shard.bytes

Observe(key, tmpl) ==
    /\ ringLines < MaxLines /\ ringLines' = ringLines + 1
    /\ Install(ObservedShard(key, [at |-> ringClock, tmpl |-> tmpl]))
    /\ UNCHANGED <<recentFlows, shapeBudgets, globalBudget, ringClock, captures, folded>>

-----------------------------------------------------------------------------
(* capture, after the error's own line was observed.                       *)

(* Lines of the key, young enough, not the error itself, the last of them. *)
ContextOf(lines, error) ==
    LET fit == SelectSeq(lines, LAMBDA e : ringClock <= e.at + context_age /\ e # error)
    IN SubSeq(fit, Max({1, Len(fit) + 1 - max_context_lines}), Len(fit))

FlowOf(context, error) == <<[i \in 1..Len(context) |-> context[i].tmpl], error.tmpl>>

Seen(flow) == flow \in DOMAIN recentFlows

Duplicate(flow) == Seen(flow) /\ ringClock - recentFlows[flow].last < dedupe_window

(* prune_flows: the expired, and all of them when that is not enough.      *)
Pruned ==
    IF Cardinality(DOMAIN recentFlows) < MaxFlows THEN recentFlows
    ELSE LET live == {f \in DOMAIN recentFlows : ringClock - recentFlows[f].last < dedupe_window}
         IN IF Cardinality(live) >= MaxFlows THEN << >> ELSE [f \in live |-> recentFlows[f]]

CountsIn(flows) == FoldFunctionOnSet(LAMBDA f, n : n + f.count, 0, flows, DOMAIN flows)

(* The flow's dedupe window opens anew, whatever the budgets say next.     *)
Marked(flow) ==
    IF Seen(flow) THEN Put(recentFlows, flow, [last |-> ringClock, count |-> 0])
    ELSE Put(Pruned, flow, [last |-> ringClock, count |-> 0])

(* Mutant of Fresh: a budget is of a line.                                 *)
FreshAlways(budget) == [start |-> ringClock, n |-> 0]

(* A minute that is over starts again at this error.                       *)
Fresh(budget) == IF ringClock - budget.start >= MINUTE THEN [start |-> ringClock, n |-> 0] ELSE budget

ShapeBudget(tmpl) == IF tmpl \in DOMAIN shapeBudgets THEN Fresh(shapeBudgets[tmpl]) ELSE [start |-> ringClock, n |-> 0]

(* The error is forwarded in every case: without a context when nothing    *)
(* correlated is held, when its flow is a duplicate, when a budget is      *)
(* spent.                                                                  *)
ErrorAlone(context) ==
    /\ context = <<>>
    /\ UNCHANGED <<recentFlows, shapeBudgets, globalBudget, captures, folded>>

ErrorDuplicate(flow) ==
    /\ Duplicate(flow)
    /\ recentFlows' = [recentFlows EXCEPT ![flow].count = @ + 1]
    /\ folded' = [folded EXCEPT !.deduped = @ + 1]
    /\ captures' = captures \cup {[flow |-> flow, at |-> ringClock, as |-> "duplicate"]}
    /\ UNCHANGED <<shapeBudgets, globalBudget>>

Count(flow) == IF Seen(flow) THEN recentFlows[flow].count ELSE 0

(* Counts that go with the flows pruned for a new one.                     *)
PrunedCounts(flow) == IF Seen(flow) THEN 0 ELSE CountsIn(recentFlows) - CountsIn(Pruned)

ErrorLimited(flow, tmpl) ==
    /\ ~Duplicate(flow)
    /\ recentFlows' = Marked(flow)
    /\ LET global == Fresh(globalBudget) IN
       /\ globalBudget' = global
       /\ \/ global.n >= max_windows_per_minute /\ UNCHANGED shapeBudgets
          \/ /\ global.n < max_windows_per_minute
             /\ ShapeBudget(tmpl).n >= windows_per_minute
             /\ shapeBudgets' = Put(shapeBudgets, tmpl, ShapeBudget(tmpl))
    /\ folded' = [folded EXCEPT !.forfeited = @ + Count(flow) + PrunedCounts(flow)]
    /\ captures' = captures \cup {[flow |-> flow, at |-> ringClock, as |-> "limited"]}

ErrorWindow(flow, tmpl) ==
    /\ ~Duplicate(flow)
    /\ recentFlows' = Marked(flow)
    /\ LET global == Fresh(globalBudget)
           shape == ShapeBudget(tmpl) IN
       /\ global.n < max_windows_per_minute /\ shape.n < windows_per_minute
       /\ globalBudget' = [global EXCEPT !.n = @ + 1]
       /\ shapeBudgets' = Put(shapeBudgets, tmpl, [shape EXCEPT !.n = @ + 1])
    /\ folded' = [folded EXCEPT !.reported = @ + Count(flow),
                                !.forfeited = @ + PrunedCounts(flow)]
    /\ captures' = captures \cup {[flow |-> flow, at |-> ringClock, as |-> "window"]}

(* process: the error's line is observed, then its context is captured.    *)
CaptureError(key, tmpl) ==
    /\ ringLines < MaxLines /\ ringLines' = ringLines + 1
    /\ LET line == [at |-> ringClock, tmpl |-> tmpl]
           shard == ObservedShard(key, line)
           lines == IF key \in DOMAIN shard.keys THEN shard.keys[key] ELSE <<>>
           context == ContextOf(lines, line)
           flow == FlowOf(context, line) IN
       /\ Install(shard)
       /\ \/ ErrorAlone(context)
          \/ context # <<>> /\ (ErrorDuplicate(flow) \/ ErrorLimited(flow, tmpl) \/ ErrorWindow(flow, tmpl))
    /\ UNCHANGED ringClock

RingTick ==
    /\ ringClock < MaxRingClock /\ ringClock' = ringClock + 1
    /\ UNCHANGED <<held, order, ringBytes, recentFlows, shapeBudgets, globalBudget, ringLines, captures, folded>>

RingNext ==
    \/ \E src \in LineSources :
        \/ \E tmpl \in LineTemplates : Observe(KeyOf(src), tmpl)
        \/ \E tmpl \in ErrorTemplates : CaptureError(KeyOf(src), tmpl)
    \/ RingTick

RingSpec == RingInit /\ [][RingNext]_ringVars

-----------------------------------------------------------------------------
(* Properties.                                                             *)

(* Types; the bytes counted are the lines held and never pass the budget,  *)
(* and no key holds more than its cap (observe).                           *)
RingTypeOK ==
    /\ ringBytes = FoldFunctionOnSet(LAMBDA lines, n : n + EntryBytes(lines), 0, held, DOMAIN held)
    /\ ringBytes <= shard_budget
    /\ \A k \in DOMAIN held : Len(held[k]) \in 1..max_lines_per_key

(* Every key that holds lines waits for eviction, once: none escapes the   *)
(* budget and none is evicted in another's place (Shard::order).           *)
KeysWaitOnce == IsInjective(order) /\ Range(order) = DOMAIN held

Windows(from, upto) == {c \in captures : c.as = "window" /\ c.at \in from..upto}

(* However an incident unfolds, the windows of any stretch of a minute are *)
(* at most twice the ceiling, and those of one shape twice its budget.     *)
EgressIsBounded ==
    \A t \in 0..ringClock :
        /\ Cardinality(Windows(t, t + MINUTE - 1)) <= 2 * max_windows_per_minute
        /\ \A tmpl \in ErrorTemplates :
            Cardinality({c \in Windows(t, t + MINUTE - 1) : c.flow[2] = tmpl}) <= 2 * windows_per_minute

(* An error is called a duplicate only of a flow captured within the       *)
(* dedupe window (capture).                                                *)
DuplicateIsRecent ==
    \A c \in captures : c.as = "duplicate" =>
        \E d \in captures : d.flow = c.flow /\ d.as # "duplicate" /\ d.at <= c.at /\ c.at - d.at < dedupe_window

(* Every folded error is reported with a later window, still counted, or   *)
(* forfeited to a budget or to the bound on flows; none is reported twice. *)
FoldedIsCounted == folded.deduped = folded.reported + folded.forfeited + CountsIn(recentFlows)

(* What Suppressed says of a duplicate: an identical flow was forwarded    *)
(* recently (ring.rs:196).                                                 *)
DuplicateWasForwarded ==
    \A c \in captures : c.as = "duplicate" =>
        \E d \in captures : d.flow = c.flow /\ d.as = "window" /\ d.at <= c.at /\ c.at - d.at < dedupe_window

(* What ring.rs keeps to: memory and windows are bounded, a window is left *)
(* out as a duplicate only of a recent one, and what is left out is        *)
(* counted.                                                                *)
RingInv ==
    /\ RingTypeOK
    /\ KeysWaitOnce
    /\ EgressIsBounded
    /\ DuplicateIsRecent
    /\ FoldedIsCounted
=============================================================================
