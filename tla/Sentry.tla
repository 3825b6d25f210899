------------------------------- MODULE Sentry -------------------------------
(***************************************************************************)
(* The Sentry proxy (sentry.rs, sentry/upstream.rs, sentry/envelope.rs,    *)
(* sentry/dsn.rs): an envelope is stored, filtered by the forwarding       *)
(* policy, spooled and answered; a forwarder drains the spool upstream and *)
(* keeps to the rate limits upstream answers with.                         *)
(*                                                                         *)
(* The spool is the queue of its frames (its own faults are in Spool); the *)
(* local pipeline is whether it takes the records.  An envelope is its id, *)
(* the trace it belongs to and the types of its items.                     *)
(***************************************************************************)
EXTENDS Naturals, Sequences, FiniteSets, SequencesExt, FiniteSetsExt

CONSTANTS
    SdkEnvelopes,        \* [id, trace, items, project]
    SampledIds,          \* ids sample_keep keeps
    UpstreamAuthMode,    \* "relay", "resign"
    UpstreamDsn,         \* sentry.upstream_dsn is set
    RoutedProjects,      \* projects with a DSN of their own
    SpoolConfigured,     \* sentry.spool
    SentrySpoolCap,      \* envelopes the spool holds
    SentryPeek,          \* envelopes drain_once peeks, 64 in the code
    max_attempts,
    LimitSeconds,        \* how long upstream asks to be left alone
    MaxSentryClock, MaxSentryPosts, MaxSentryFaults   \* bounds

ASSUME SentryAssumption ==
    /\ IsFiniteSet(SdkEnvelopes) /\ SentrySpoolCap \in Nat
    /\ max_attempts \in Nat \ {0} /\ SentryPeek \in Nat \ {0} /\ LimitSeconds \subseteq Nat \ {0}

ALL == "*"
Types == {"event", "transaction", "profile", "attachment"}
EnvelopeOf(id) == CHOOSE e \in SdkEnvelopes : e.id = id
SdkIds == {e.id : e \in SdkEnvelopes}

VARIABLES
    sdk,            \* where the SDK is with each envelope: "held", "queued", "answered", "refused"
    localCopy,      \* envelopes whose records the pipeline has
    sentrySpool,    \* the spool's undelivered frames: [id, items]
    sentryStats,    \* SentryStats: the exits
    limitUntil,     \* RateLimits::until
    limitRaw,       \* RateLimits::raw: until when clients are answered with it
    sentryClock, sentryStop,
    relay,          \* forward_loop: [pc, stopping, batch, at, now, delivered, out, attempt]
    wakes,          \* nudges not yet received
    forwarded,      \* history: envelopes counted in items_forwarded
    unspooled,      \* history: envelopes the spool did not take, which was warned of
    settled,        \* history: what became of an envelope upstream
    accepts,        \* history: times upstream took an envelope
    told,           \* history: categories limited since the batch was peeked
    verdicts,       \* history: whether an envelope's transactions were kept
    failedCommits,  \* history: commits of the spool's cursor that failed
    lostAnswers,    \* history: envelopes taken upstream whose answer did not come
    posts, upstreamFaults, sentryCrashes

sdkVars == <<sdk, localCopy, sentryStats, forwarded, unspooled, verdicts, posts>>
limitVars == <<limitUntil, limitRaw>>
relayVars == <<relay, settled, accepts, told, upstreamFaults, failedCommits, lostAnswers>>
sentryVars == <<sdkVars, limitVars, relayVars, sentrySpool, sentryClock, sentryStop, wakes, sentryCrashes>>

SentryFaults == upstreamFaults + sentryCrashes + failedCommits
FreshStats == [requests |-> 0, accepted |-> 0, unauthorized |-> 0, bad_request |-> 0, too_large |-> 0, busy |-> 0]
RelayStart == [pc |-> "top", stopping |-> FALSE, batch |-> <<>>, at |-> 0, now |-> 0, delivered |-> 0, out |-> {}, attempt |-> 0]
NoLimits == [c \in Types \cup {ALL} |-> 0]

SentryInit ==
    /\ sdk = [i \in SdkIds |-> "held"] /\ localCopy = {} /\ sentrySpool = <<>>
    /\ sentryStats = FreshStats /\ limitUntil = NoLimits /\ limitRaw = 0
    /\ sentryClock = 0 /\ sentryStop = FALSE /\ relay = RelayStart /\ wakes = 0
    /\ forwarded = {} /\ unspooled = {} /\ settled = [i \in SdkIds |-> "no"] /\ accepts = [i \in SdkIds |-> 0]
    /\ told = {} /\ verdicts = << >>
    /\ posts = 0 /\ upstreamFaults = 0 /\ sentryCrashes = 0 /\ failedCommits = 0 /\ lostAnswers = 0

-----------------------------------------------------------------------------
(* The rate limits.  A category is named by the item type it is of.        *)

(* is_limited.                                                             *)
IsLimited(type, now) == limitUntil[ALL] > now \/ limitUntil[type] > now

(* record, record_retry_after: a limit of a category never shortens, one   *)
(* of every category replaces the one before.                              *)
Recorded(categories, seconds, now) ==
    [c \in DOMAIN limitUntil |->
        IF c = ALL THEN IF categories = {} THEN now + seconds ELSE limitUntil[ALL]
        ELSE IF c \in categories THEN Max({limitUntil[c], now + seconds}) ELSE limitUntil[c]]

(* absorb_limits.                                                          *)
Absorb(categories, seconds, now) ==
    /\ limitUntil' = Recorded(categories, seconds, now)
    /\ limitRaw' = Max({limitUntil'[c] : c \in DOMAIN limitUntil})
    /\ told' = told \cup (IF categories = {} THEN Types ELSE categories)

-----------------------------------------------------------------------------
(* The policy and the route.                                               *)

(* sample_keep, on the envelope's id.                                      *)
SampleKeep(id) == id \in SampledIds

(* apply_policy: events go, transactions and profiles by the draw,         *)
(* attachments stay.                                                       *)
SentryKept(e) == {t \in e.items : t = "event" \/ (t \in {"transaction", "profile"} /\ SampleKeep(e.id))}

(* dsn::resolve: a project's own DSN, or what the mode makes of the one    *)
(* configured.                                                             *)
HasRoute(e) ==
    \/ e.project \in RoutedProjects
    \/ UpstreamAuthMode \in {"relay", "resign"} /\ UpstreamDsn

(* Receiver::start: a spool needs an upstream, that is the configured DSN. *)
HasSpool == SpoolConfigured /\ UpstreamDsn

-----------------------------------------------------------------------------
(* ingest.                                                                 *)

SentryExit(exit) == [sentryStats EXCEPT !.requests = @ + 1, ![exit] = @ + 1]

(* A request turned away in preflight or by the reader.                    *)
BadPost == \E exit \in {"unauthorized", "bad_request", "too_large"} :
    /\ ~sentryStop /\ posts < MaxSentryPosts /\ posts' = posts + 1
    /\ sentryStats' = SentryExit(exit)
    /\ UNCHANGED <<sdk, localCopy, forwarded, unspooled, verdicts, limitVars, relayVars,
                   sentrySpool, sentryClock, sentryStop, wakes, sentryCrashes>>

(* to_records: every item, whatever the policy decides.                    *)
SentryStored(i) == {i}

(* An envelope is parsed and handed to the pipeline, unless a limit or the *)
(* pipeline answers 429.                                                   *)
PostArrives == \E i \in SdkIds, full \in BOOLEAN :
    /\ ~sentryStop /\ sdk[i] \in {"held", "refused"} /\ posts < MaxSentryPosts /\ posts' = posts + 1
    /\ LET limited == limitRaw > sentryClock
       IN /\ sdk' = [sdk EXCEPT ![i] = IF limited \/ full THEN "refused" ELSE "queued"]
          /\ sentryStats' = [sentryStats EXCEPT !.requests = @ + 1, !.busy = IF limited \/ full THEN @ + 1 ELSE @]
          /\ localCopy' = IF limited \/ full THEN localCopy ELSE localCopy \cup SentryStored(i)
    /\ UNCHANGED <<forwarded, unspooled, verdicts, limitVars, relayVars,
                   sentrySpool, sentryClock, sentryStop, wakes, sentryCrashes>>

(* A frame that was due and did not get into the spool.                    *)
LostFrame(i, taken) == IF taken THEN unspooled ELSE unspooled \cup {i}

(* The policy is applied, the counters say what will be forwarded, the     *)
(* frame is pushed and synced, and the SDK is answered 200.                *)
PostQueues == \E i \in SdkIds, works \in BOOLEAN :
    /\ sdk[i] = "queued"
    /\ LET e == EnvelopeOf(i)
           kept == SentryKept(e)
           due == kept # {} /\ HasRoute(e)
           taken == works /\ Len(sentrySpool) < SentrySpoolCap
       IN /\ ~works => due /\ HasSpool /\ SentryFaults < MaxSentryFaults
          /\ upstreamFaults' = IF works THEN upstreamFaults ELSE upstreamFaults + 1
          /\ forwarded' = IF due THEN forwarded \cup {i} ELSE forwarded
          /\ sentrySpool' = IF due /\ HasSpool /\ taken THEN Append(sentrySpool, [id |-> i, items |-> kept]) ELSE sentrySpool
          /\ unspooled' = IF due /\ HasSpool THEN LostFrame(i, taken) ELSE unspooled
          /\ wakes' = IF due /\ UpstreamDsn THEN wakes + 1 ELSE wakes
          /\ verdicts' = [j \in DOMAIN verdicts \cup {i} |-> IF j = i THEN kept \cap {"transaction", "profile"} # {} ELSE verdicts[j]]
    /\ sdk' = [sdk EXCEPT ![i] = "answered"]
    /\ sentryStats' = [sentryStats EXCEPT !.accepted = @ + 1]
    /\ UNCHANGED <<localCopy, posts, limitVars, relay, settled, accepts, told, failedCommits, lostAnswers,
                   sentryClock, sentryStop, sentryCrashes>>

-----------------------------------------------------------------------------
(* forward_loop and drain_once.                                            *)

RelayStep(pc) == relay.pc = pc /\ UNCHANGED <<sdkVars, sentryClock, sentryStop, sentryCrashes>>

(* The stop flag is read, then the spool is peeked.                        *)
RelayPeek ==
    /\ RelayStep("top") \/ RelayStep("last")
    /\ LET stopping == IF relay.pc = "top" THEN sentryStop ELSE relay.stopping
           batch == SubSeq(sentrySpool, 1, Min({SentryPeek, Len(sentrySpool)}))
       IN relay' = [RelayStart EXCEPT !.pc = IF batch = <<>> THEN "drained" ELSE "next",
                                      !.stopping = stopping \/ relay.pc = "last",
                                      !.batch = batch, !.now = sentryClock]
    /\ told' = {}
    /\ UNCHANGED <<limitVars, settled, accepts, upstreamFaults, failedCommits, lostAnswers, sentrySpool, wakes>>

(* Upstream::send: items of a limited category are dropped from the next   *)
(* envelope; nothing left is a delivery as well.                           *)
RelayNext ==
    /\ RelayStep("next")
    /\ IF relay.at = Len(relay.batch)
       THEN relay' = [relay EXCEPT !.pc = "commit"] /\ UNCHANGED settled
       ELSE LET frame == relay.batch[relay.at + 1]
                out == {t \in frame.items : ~IsLimited(t, relay.now)}
            IN IF out = {}
               THEN /\ settled' = [settled EXCEPT ![frame.id] = "limited"]
                    /\ relay' = [relay EXCEPT !.at = @ + 1, !.delivered = relay.at + 1]
               ELSE relay' = [relay EXCEPT !.pc = "post", !.out = out, !.attempt = 1] /\ UNCHANGED settled
    /\ UNCHANGED <<limitVars, accepts, told, upstreamFaults, failedCommits, lostAnswers, sentrySpool, wakes>>

(* drain_once: what ends an envelope's stay in the spool.  A failure       *)
(* leaves it, and the ones behind it.                                      *)
Consumes(answer) == answer \in {"ok", "limited", "refused"}

RelayAgain(answer) == answer \in {"error", "unreachable", "unanswered"} /\ relay.attempt < max_attempts

(* One attempt: upstream answers, with limits or without, or does not.  An *)
(* error of post_full does not tell whether upstream was not reached or    *)
(* took the envelope and its answer was lost or late.                      *)
RelayPost ==
    /\ RelayStep("post")
    /\ \E answer \in {"ok", "limited", "refused", "error", "unreachable", "unanswered"},
          categories \in {{}, {"transaction"}}, seconds \in LimitSeconds, header \in BOOLEAN :
        LET frame == relay.batch[relay.at + 1]
            again == RelayAgain(answer)
        IN /\ answer # "ok" \/ header => SentryFaults < MaxSentryFaults
           /\ header => answer \notin {"unreachable", "unanswered"}
           /\ ~header => categories = {} /\ seconds = Max(LimitSeconds)
           /\ upstreamFaults' = IF answer # "ok" \/ header THEN upstreamFaults + 1 ELSE upstreamFaults
           /\ IF header \/ answer = "limited" THEN Absorb(categories, seconds, relay.now)
              ELSE UNCHANGED <<limitVars, told>>
           /\ accepts' = IF answer \in {"ok", "unanswered"} THEN [accepts EXCEPT ![frame.id] = @ + 1] ELSE accepts
           /\ lostAnswers' = IF answer = "unanswered" THEN lostAnswers + 1 ELSE lostAnswers
           /\ settled' = IF again \/ ~Consumes(answer) THEN settled
                         ELSE [settled EXCEPT ![frame.id] = answer]
           /\ relay' = IF again THEN [relay EXCEPT !.attempt = @ + 1]
                       ELSE IF Consumes(answer)
                       THEN [relay EXCEPT !.pc = "next", !.at = @ + 1, !.delivered = relay.at + 1, !.out = {}, !.attempt = 0]
                       ELSE [relay EXCEPT !.pc = "commit", !.out = {}, !.attempt = 0]
    /\ UNCHANGED <<failedCommits, sentrySpool, wakes>>

(* Mutant of SpoolCommitted: the whole batch is committed.                 *)
CommittedBatch == IF relay.delivered = 0 THEN 0 ELSE Len(relay.batch)

(* The frames the commit passes.                                           *)
SpoolCommitted == relay.delivered

(* The commit, when something was delivered; the cursor file may not take  *)
(* it, which is warned of, and then the frames are peeked again.           *)
RelayCommit == \E works \in BOOLEAN :
    /\ RelayStep("commit")
    /\ ~works => relay.delivered > 0 /\ SentryFaults < MaxSentryFaults
    /\ failedCommits' = IF works THEN failedCommits ELSE failedCommits + 1
    /\ sentrySpool' = IF works THEN SubSeq(sentrySpool, SpoolCommitted + 1, Len(sentrySpool)) ELSE sentrySpool
    /\ relay' = [relay EXCEPT !.pc = IF relay.delivered = 0 THEN "drained" ELSE "top", !.batch = <<>>]
    /\ UNCHANGED <<limitVars, settled, accepts, told, upstreamFaults, lostAnswers, wakes>>

(* Nothing was sent: the end, when a stop was seen before the pass.        *)
ReaderEnds == relay.stopping

(* A nudge, or 200 ms without one.                                         *)
Woken == TRUE

(* Otherwise it waits for a nudge or 200 ms, and on a stop makes a last    *)
(* pass.                                                                   *)
RelayDrained ==
    /\ RelayStep("drained")
    /\ IF ReaderEnds THEN relay' = [relay EXCEPT !.pc = "ended"] /\ UNCHANGED wakes
       ELSE /\ Woken
            /\ wakes' = IF wakes > 0 THEN wakes - 1 ELSE 0
            /\ relay' = [RelayStart EXCEPT !.pc = IF wakes' = 0 /\ sentryStop THEN "last" ELSE "top"]
    /\ UNCHANGED <<limitVars, settled, accepts, told, upstreamFaults, failedCommits, lostAnswers, sentrySpool>>

-----------------------------------------------------------------------------
(* shutdown: the server first, which waits for its handlers.               *)
SentryShutdown ==
    /\ ~sentryStop /\ \A i \in SdkIds : sdk[i] # "queued"
    /\ sentryStop' = TRUE
    /\ UNCHANGED <<sdkVars, limitVars, relayVars, sentrySpool, sentryClock, wakes, sentryCrashes>>

(* A crash, or the end of a stopped process; a start on the same spool:    *)
(* limits and counters are gone, an SDK that had no answer has its copy.   *)
SentryRestart ==
    /\ SentryFaults < MaxSentryFaults /\ sentryCrashes' = sentryCrashes + 1
    /\ sdk' = [i \in SdkIds |-> IF sdk[i] = "queued" THEN "held" ELSE sdk[i]]
    /\ sentryStats' = FreshStats /\ limitUntil' = NoLimits /\ limitRaw' = 0
    /\ sentryStop' = FALSE /\ relay' = RelayStart /\ wakes' = 0 /\ told' = {}
    /\ UNCHANGED <<localCopy, forwarded, unspooled, verdicts, posts, settled, accepts,
                   upstreamFaults, failedCommits, lostAnswers, sentrySpool, sentryClock>>

SentryTick ==
    /\ sentryClock < MaxSentryClock /\ sentryClock' = sentryClock + 1
    /\ UNCHANGED <<sdkVars, limitVars, relayVars, sentrySpool, sentryStop, wakes, sentryCrashes>>

RelayNow == RelayPeek \/ RelayNext \/ RelayPost \/ RelayCommit \/ RelayDrained

SentryNext == BadPost \/ PostArrives \/ PostQueues \/ RelayNow \/ SentryShutdown \/ SentryRestart \/ SentryTick

SentrySpec == SentryInit /\ [][SentryNext]_sentryVars

(* The forwarder and a handler are threads; upstream fails a bounded       *)
(* number of times.                                                        *)
SentryFairness == WF_sentryVars(RelayNow) /\ WF_sentryVars(PostQueues)

SentryFairSpec == SentrySpec /\ SentryFairness

-----------------------------------------------------------------------------

(* Type invariant.                                                         *)
SentryTypeOK ==
    /\ sdk \in [SdkIds -> {"held", "queued", "answered", "refused"}] /\ localCopy \subseteq SdkIds
    /\ \A n \in DOMAIN sentrySpool : sentrySpool[n].items \subseteq Types /\ sentrySpool[n].items # {}
    /\ Len(sentrySpool) <= SentrySpoolCap
    /\ relay.pc \in {"top", "next", "post", "commit", "drained", "last", "ended"}
    /\ relay.delivered \in 0..relay.at /\ relay.attempt \in 0..max_attempts
    /\ settled \in [SdkIds -> {"no", "ok", "limited", "refused"}]

(* Every request took exactly one exit (accounts_for_everything), the ones *)
(* still on their way to the spool aside.                                  *)
SentryExitsAccount ==
    sentryStats.requests = sentryStats.accepted + sentryStats.unauthorized + sentryStats.bad_request
                           + sentryStats.too_large + sentryStats.busy + Cardinality({i \in SdkIds : sdk[i] = "queued"})

(* An envelope the SDK was told 200 for, and that the counters say was     *)
(* forwarded, is in the spool, or has had its answer upstream, or was      *)
(* warned of when the spool would not take it: through failed sends,       *)
(* partial batches, restarts and a stop it never just disappears (ingest,  *)
(* drain_once), unless the spool is turned off.                            *)
ForwardedIsAccounted ==
    HasSpool =>
    \A i \in forwarded : \/ settled[i] # "no" \/ i \in unspooled
                         \/ \E n \in DOMAIN sentrySpool : sentrySpool[n].id = i

(* Upstream takes an envelope again only after a crash between its answer  *)
(* and the commit, after a commit that failed, or when its answer was lost *)
(* (drain_once commits what was delivered of a batch whose rest failed).   *)
TakenOnce == \A i \in SdkIds : accepts[i] <= 1 + sentryCrashes + failedCommits + lostAnswers

(* Once upstream has said to leave a category alone, no later envelope of  *)
(* the same batch brings it an item of that category (is_limited before    *)
(* every send).                                                            *)
LimitStopsBatch ==
    [][relay.pc = "next" /\ relay'.pc = "post" => relay'.out \cap told = {}]_sentryVars

(* The forwarding decision stays reversible: what was answered is in the   *)
(* local pipeline, forwarded or not.                                       *)
AnsweredIsKept == \A i \in SdkIds : sdk[i] = "answered" => i \in localCopy

(* Sampling is deterministic on the trace: every transaction of one trace  *)
(* shares its fate (transaction_sample_rate).                              *)
TraceIsWhole ==
    \A i, j \in DOMAIN verdicts :
        (EnvelopeOf(i).trace = EnvelopeOf(j).trace /\ EnvelopeOf(i).items \cap EnvelopeOf(j).items # {})
            => verdicts[i] = verdicts[j]

(* A spooled envelope gets its answer upstream, unless the proxy is        *)
(* stopped first (forward_loop retries without a nudge).                   *)
SpooledIsSettled ==
    \A i \in SdkIds : (\E n \in DOMAIN sentrySpool : sentrySpool[n].id = i) ~> (settled[i] # "no" \/ sentryStop)

(* A stop ends the forwarder, whatever upstream answers (shutdown joins    *)
(* it).                                                                    *)
RelayEnds == sentryStop ~> (relay.pc = "ended" \/ ~sentryStop)

(* What sentry.rs promises: each request takes one exit, what was answered *)
(* is kept, what is spooled is accounted for and taken again only after a  *)
(* fault, and a limit stops a batch.                                       *)
SentryPromise ==
    /\ [](/\ SentryTypeOK
          /\ SentryExitsAccount
          /\ ForwardedIsAccounted
          /\ TakenOnce
          /\ AnsweredIsKept)
    /\ LimitStopsBatch
=============================================================================
