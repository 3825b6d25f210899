------------------------------- MODULE Forward -------------------------------
(***************************************************************************)
(* Forwarding errors to a vendor (forward.rs, the logless-forward thread   *)
(* and replay_spool in main.rs): a bounded channel, a spool with a         *)
(* committed cursor, one attempt after another to each destination, and    *)
(* counts rolled up for a destination that has no grouping of its own.     *)
(*                                                                         *)
(* An error is a number, and whether its context came with it.  The spool  *)
(* is the sequence of what was pushed and the cursor committed in it (its  *)
(* segments and tears are the module Spool's).                             *)
(***************************************************************************)
EXTENDS Naturals, Sequences, FiniteSets, SequencesExt, FiniteSetsExt, Functions

CONSTANTS
    Destinations, Aggregating,     \* curated destinations; those that aggregate
    OutboundCapacity, ReplayLimit, PeekLimit, max_retries,
    MaxErrors, MaxForwardFaults, MaxCommitFaults, MaxForwardCrashes   \* bounds

ASSUME ForwardAssumption == Aggregating \subseteq Destinations /\ PeekLimit \in Nat \ {0} /\ ReplayLimit \in Nat \ {0}

VARIABLES
    outbound,     \* the channel
    errors,       \* errors offered: [context: BOOLEAN], in order
    fspool,       \* error numbers pushed to the spool
    fcursor,      \* entries of it committed
    forwardSender,       \* the thread: pc, what it is handling, where in it
    rollup,       \* Aggregator: errors counted and not flushed
    flushedOnce,  \* Dispatch::last_flush is set
    vendor,       \* [Destinations -> what arrived: error -> copies, and the sum of counts]
    failed,       \* [Destinations -> errors given up, and counts given up]
    droppedFull,  \* errors refused by the channel
    handledAll,   \* history: errors whose handling ended
    lostNow,      \* history: errors and counts lost with the process
    forwardEnd,   \* "no", "stopping"
    forwardFaults, commitFaults, forwardCrashes

forwardFaultVars == <<forwardFaults, commitFaults, forwardCrashes>>
forwardVars == <<outbound, errors, fspool, fcursor, forwardSender, rollup, flushedOnce, vendor, failed, droppedFull,
                 handledAll, lostNow, forwardEnd, forwardFaultVars>>

NoItem == 0
Starting == [pc |-> "replay", todo |-> <<>>, item |-> NoItem, dests |-> {}, attempt |-> 0]

ForwardInit ==
    /\ outbound = <<>> /\ errors = <<>> /\ fspool = <<>> /\ fcursor = 0 /\ forwardSender = Starting
    /\ rollup = 0 /\ flushedOnce = FALSE
    /\ vendor = [d \in Destinations |-> [got |-> {}, counted |-> 0]]
    /\ failed = [d \in Destinations |-> [items |-> {}, counted |-> 0]]
    /\ droppedFull = {} /\ handledAll = {} /\ lostNow = [items |-> {}, counted |-> 0]
    /\ forwardEnd = "no" /\ forwardFaults = 0 /\ commitFaults = 0 /\ forwardCrashes = 0

-----------------------------------------------------------------------------
(* process: an error is offered and never waited for.                      *)
OfferError(context) ==
    /\ forwardEnd = "no" /\ Len(errors) < MaxErrors
    /\ errors' = Append(errors, context)
    /\ IF Len(outbound) < OutboundCapacity
       THEN outbound' = Append(outbound, Len(errors) + 1) /\ UNCHANGED droppedFull
       ELSE droppedFull' = droppedFull \cup {Len(errors) + 1} /\ UNCHANGED outbound
    /\ UNCHANGED <<fspool, fcursor, forwardSender, rollup, flushedOnce, vendor, failed, handledAll, lostNow, forwardEnd, forwardFaultVars>>

Begin(item, todo) == [pc |-> "send", todo |-> todo, item |-> item, dests |-> Destinations, attempt |-> 0]

(* replay_spool: what the last run left, at most ReplayLimit of it.        *)
Replay ==
    /\ forwardSender.pc = "replay"
    /\ LET pending == SubSeq(fspool, fcursor + 1, Min({Len(fspool), fcursor + ReplayLimit})) IN
       forwardSender' = IF pending = <<>> THEN [forwardSender EXCEPT !.pc = "recv"] ELSE [Begin(Head(pending), Tail(pending)) EXCEPT !.pc = "resend"]
    /\ UNCHANGED <<outbound, errors, fspool, fcursor, rollup, flushedOnce, vendor, failed, droppedFull, handledAll, lostNow, forwardEnd, forwardFaultVars>>

(* An item is taken and spooled; a push that fails is only memory's.       *)
ForwardReceive(spooled) ==
    /\ forwardSender.pc = "recv" /\ outbound # <<>>
    /\ spooled \/ forwardFaults < MaxForwardFaults
    /\ forwardFaults' = IF spooled THEN forwardFaults ELSE forwardFaults + 1
    /\ fspool' = IF spooled THEN Append(fspool, Head(outbound)) ELSE fspool
    /\ outbound' = Tail(outbound)
    /\ forwardSender' = Begin(Head(outbound), <<>>)
    /\ UNCHANGED <<errors, fcursor, rollup, flushedOnce, vendor, failed, droppedFull, handledAll, lostNow, forwardEnd, commitFaults, forwardCrashes>>

ForwardSending == forwardSender.pc \in {"send", "resend"}
Target == CHOOSE d \in forwardSender.dests : \A e \in forwardSender.dests : d <= e
Done(d) == [forwardSender EXCEPT !.dests = @ \ {d}, !.attempt = 0]

(* Dispatch::handle: a destination that aggregates counts an error without *)
(* its context.                                                            *)
RollUp ==
    /\ ForwardSending /\ forwardSender.dests # {} /\ Target \in Aggregating /\ ~errors[forwardSender.item]
    /\ rollup' = rollup + 1
    /\ forwardSender' = Done(Target)
    /\ UNCHANGED <<outbound, errors, fspool, fcursor, flushedOnce, vendor, failed, droppedFull, handledAll, lostNow, forwardEnd, forwardFaultVars>>

Posts(d) == ForwardSending /\ forwardSender.dests # {} /\ d = Target /\ ~(d \in Aggregating /\ ~errors[forwardSender.item])

Arrives(d) == vendor' = [vendor EXCEPT ![d].got = @ \cup {forwardSender.item}]

(* Forwarder::post: an attempt that is answered well.                      *)
PostOk(d) ==
    /\ Posts(d) /\ Arrives(d) /\ forwardSender' = Done(d)
    /\ UNCHANGED <<outbound, errors, fspool, fcursor, rollup, flushedOnce, failed, droppedFull, handledAll, lostNow, forwardEnd, forwardFaultVars>>

(* A client error is final; anything else is tried max_retries times more, *)
(* and then given up and counted.                                          *)
GivesUp(d, final) ==
    IF final \/ forwardSender.attempt >= max_retries
    THEN forwardSender' = Done(d) /\ failed' = [failed EXCEPT ![d].items = @ \cup {forwardSender.item}]
    ELSE forwardSender' = [forwardSender EXCEPT !.attempt = @ + 1] /\ UNCHANGED failed

(* An attempt that fails, with or without having arrived.                  *)
PostFails(d, arrived, final) ==
    /\ Posts(d) /\ forwardFaults < MaxForwardFaults
    /\ forwardFaults' = forwardFaults + 1
    /\ IF arrived THEN Arrives(d) ELSE UNCHANGED vendor
    /\ GivesUp(d, final)
    /\ UNCHANGED <<outbound, errors, fspool, fcursor, rollup, flushedOnce, droppedFull, handledAll, lostNow, forwardEnd, commitFaults, forwardCrashes>>

(* Mutant of Handled: a replay is over with its first item.                *)
HandledFirst ==
    /\ ForwardSending /\ forwardSender.dests = {}
    /\ handledAll' = handledAll \cup {forwardSender.item}
    /\ forwardSender' = [forwardSender EXCEPT !.pc = IF @ = "resend" THEN "recommit" ELSE "commit", !.item = NoItem]
    /\ UNCHANGED <<outbound, errors, fspool, fcursor, rollup, flushedOnce, vendor, failed, droppedFull, lostNow, forwardEnd, forwardFaultVars>>

(* Every destination was told: the next one of a replay, or the commit.    *)
Handled ==
    /\ ForwardSending /\ forwardSender.dests = {}
    /\ handledAll' = handledAll \cup {forwardSender.item}
    /\ forwardSender' = IF forwardSender.todo # <<>> THEN [Begin(Head(forwardSender.todo), Tail(forwardSender.todo)) EXCEPT !.pc = "resend"]
                 ELSE [forwardSender EXCEPT !.pc = IF @ = "resend" THEN "recommit" ELSE "commit", !.item = NoItem]
    /\ UNCHANGED <<outbound, errors, fspool, fcursor, rollup, flushedOnce, vendor, failed, droppedFull, lostNow, forwardEnd, forwardFaultVars>>

(* A replay commits what it read; after an item the next PeekLimit entries *)
(* are committed.                                                          *)
CommitTo == Min({Len(fspool), fcursor + (IF forwardSender.pc = "recommit" THEN ReplayLimit ELSE PeekLimit)})

Commit(ok) ==
    /\ forwardSender.pc \in {"commit", "recommit"}
    /\ ok \/ commitFaults < MaxCommitFaults
    /\ commitFaults' = IF ok THEN commitFaults ELSE commitFaults + 1
    /\ fcursor' = IF ok THEN CommitTo ELSE fcursor
    /\ forwardSender' = [forwardSender EXCEPT !.pc = IF @ = "commit" THEN "turn" ELSE "recv"]
    /\ UNCHANGED <<outbound, errors, fspool, rollup, flushedOnce, vendor, failed, droppedFull, handledAll, lostNow, forwardEnd, forwardFaults, forwardCrashes>>

(* recv_timeout: nothing came, and the sending side is still there.        *)
ReceiveTimesOut ==
    /\ forwardSender.pc = "recv" /\ outbound = <<>> /\ forwardEnd = "no"
    /\ forwardSender' = [forwardSender EXCEPT !.pc = "turn"]
    /\ UNCHANGED <<outbound, errors, fspool, fcursor, rollup, flushedOnce, vendor, failed, droppedFull, handledAll, lostNow, forwardEnd, forwardFaultVars>>

-----------------------------------------------------------------------------
(* Rollups.                                                                *)

(* flush_if_due's due: an interval since the last flush, and without one   *)
(* only when forced.                                                       *)
FlushDue(force) == force \/ flushedOnce

(* Every aggregating destination is sent the counts; a destination that    *)
(* refuses them has them counted against it.                               *)
FlushTo(refusing) ==
    /\ rollup' = 0 /\ flushedOnce' = TRUE
    /\ vendor' = [d \in Destinations |-> IF d \in Aggregating \ refusing THEN [vendor[d] EXCEPT !.counted = @ + rollup] ELSE vendor[d]]
    /\ failed' = [d \in Destinations |-> IF d \in refusing THEN [failed[d] EXCEPT !.counted = @ + rollup] ELSE failed[d]]

(* A destination may refuse the counts, as a fault.                        *)
Refusing(refusing) ==
    /\ refusing = {} \/ (rollup > 0 /\ forwardFaults < MaxForwardFaults)
    /\ forwardFaults' = IF refusing = {} THEN forwardFaults ELSE forwardFaults + 1

(* Each turn of the loop ends with flush_if_due(false).                    *)
Turn(refusing) ==
    /\ forwardSender.pc = "turn" /\ forwardSender' = [forwardSender EXCEPT !.pc = "recv"]
    /\ Refusing(refusing)
    /\ IF FlushDue(FALSE) /\ rollup > 0 THEN FlushTo(refusing) ELSE refusing = {} /\ UNCHANGED <<rollup, flushedOnce, vendor, failed>>
    /\ UNCHANGED <<outbound, errors, fspool, fcursor, droppedFull, handledAll, lostNow, forwardEnd, commitFaults, forwardCrashes>>

(* Shutdown: the channel is closed and drained.                            *)
StopForward ==
    /\ forwardEnd = "no" /\ forwardEnd' = "stopping"
    /\ UNCHANGED <<outbound, errors, fspool, fcursor, forwardSender, rollup, flushedOnce, vendor, failed, droppedFull, handledAll, lostNow, forwardFaultVars>>

(* flush_if_due(true).                                                     *)
LastFlush(refusing) == FlushTo(refusing)

ForwardEnds(refusing) ==
    /\ forwardEnd = "stopping" /\ forwardSender.pc = "recv" /\ outbound = <<>>
    /\ Refusing(refusing) /\ LastFlush(refusing)
    /\ forwardSender' = [forwardSender EXCEPT !.pc = "ended"]
    /\ UNCHANGED <<outbound, errors, fspool, fcursor, droppedFull, handledAll, lostNow, forwardEnd, commitFaults, forwardCrashes>>

(* The process dies: the channel, the counts and what was in hand go; the  *)
(* spool stays.                                                            *)
ForwardCrash ==
    /\ forwardCrashes < MaxForwardCrashes /\ forwardSender.pc # "ended"
    /\ forwardCrashes' = forwardCrashes + 1
    /\ LET kept == Range(SubSeq(fspool, fcursor + 1, Len(fspool))) IN
       lostNow' = [items |-> lostNow.items \cup ((Range(outbound) \cup ({forwardSender.item} \ {NoItem})) \ kept), counted |-> lostNow.counted + rollup]
    /\ outbound' = <<>> /\ rollup' = 0 /\ flushedOnce' = FALSE
    /\ forwardSender' = Starting
    /\ UNCHANGED <<errors, fspool, fcursor, vendor, failed, droppedFull, handledAll, forwardEnd, forwardFaults, commitFaults>>

ForwardStep ==
    \/ Replay \/ RollUp \/ Handled \/ ReceiveTimesOut
    \/ \E b \in BOOLEAN : ForwardReceive(b) \/ Commit(b)
    \/ \E d \in Destinations : PostOk(d) \/ \E arrived, final \in BOOLEAN : PostFails(d, arrived, final)
    \/ \E refusing \in SUBSET Aggregating : Turn(refusing) \/ ForwardEnds(refusing)

ForwardNext ==
    \/ \E context \in BOOLEAN : OfferError(context)
    \/ ForwardStep
    \/ StopForward \/ ForwardCrash

ForwardSpec == ForwardInit /\ [][ForwardNext]_forwardVars

(* The thread runs; an interval passes.                                    *)
ForwardFairness == WF_forwardVars(ForwardStep)

ForwardFairSpec == ForwardSpec /\ ForwardFairness

-----------------------------------------------------------------------------
(* Properties.                                                             *)

(* Types; the cursor is within the spool, the channel within its capacity. *)
ForwardTypeOK ==
    /\ fcursor \in 0..Len(fspool) /\ Len(outbound) <= OutboundCapacity
    /\ forwardSender.pc \in {"replay", "recv", "send", "resend", "commit", "recommit", "turn", "ended"}
    /\ forwardSender.attempt <= max_retries

(* Nothing is committed before it was handed to every destination, so a    *)
(* crash sends again and never skips (the comment at main.rs:1070).        *)
CommittedWasHandled == \A i \in 1..fcursor : fspool[i] \in handledAll

Offered == 1..Len(errors)

(* An error the application logged is never lost without a trace: it       *)
(* waits, or it is in the spool past the cursor, or every destination got  *)
(* it, counted it or counted its failure, or it was refused at the         *)
(* channel, or the process died with it unspooled.                         *)
EveryErrorAccounted ==
    \A e \in Offered :
        \/ e \in Range(outbound) \cup droppedFull \cup lostNow.items \cup {forwardSender.item}
        \/ e \in Range(SubSeq(fspool, fcursor + 1, Len(fspool)))
        \/ \A d \in Destinations : e \in vendor[d].got \cup failed[d].items \/ (d \in Aggregating /\ ~errors[e] /\ e \in handledAll)

(* With one aggregating destination, every error rolled up is in exactly   *)
(* one sum: pending, told to the vendor, refused by it, or lost with the   *)
(* process; a replay counts again, and nothing else does.                  *)
CountsAreExact ==
    \A d \in Aggregating :
        LET total == rollup + vendor[d].counted + failed[d].counted + lostNow.counted
            exact == Cardinality({e \in handledAll : ~errors[e]})
        IN /\ total >= exact
           /\ forwardCrashes = 0 => total <= exact + (IF ForwardSending THEN 1 ELSE 0)

(* A storm's count does not vanish with a clean stop (flush_if_due(true)). *)
StopEmptiesRollup == forwardSender.pc = "ended" => rollup = 0 /\ outbound = <<>>

(* A long-running agent must not hold a storm's counter until shutdown     *)
(* (main.rs:36).                                                           *)
RollupsAreFlushed == rollup > 0 ~> (rollup = 0 \/ forwardEnd = "stopping" \/ forwardCrashes > 0)

(* A stop is answered: the thread ends.                                    *)
ForwardStops == forwardEnd = "stopping" ~> forwardSender.pc = "ended"

(* What the forwarding thread keeps to: what it commits it has handled,    *)
(* each error is sent, counted or waiting, the counts are exact, and a     *)
(* stop leaves no rollup behind.                                           *)
ForwardInv ==
    /\ ForwardTypeOK
    /\ CommittedWasHandled
    /\ EveryErrorAccounted
    /\ CountsAreExact
    /\ StopEmptiesRollup
=============================================================================
