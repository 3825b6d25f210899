---------------------------- MODULE SenderProofs ----------------------------
(***************************************************************************)
(* Proofs about what leaves the agent: Sentry (what an SDK was told 200    *)
(* for is neither lost nor sent twice without a reason), PeerSignals (a    *)
(* silence is noticed and raised once) and PeerSync (what was spooled is   *)
(* there until it is answered).                                            *)
(***************************************************************************)
EXTENDS Sentry, PeerSignals, PeerSync, FiniteSetTheorems, SequenceTheorems,
        WellFoundedInduction, TLAPS


-----------------------------------------------------------------------------
(* Sentry. The difficulty is the batch: it is peeked, sent frame by frame  *)
(* and committed as far as it was delivered, while requests append to the  *)
(* spool, an answer is lost, a crash or a failed commit takes it back. The *)
(* invariant says that the batch is the front of the spool, that what is   *)
(* passed has its answer and that what is not has been taken at most once  *)
(* for each answer lost and each time the forwarder was taken back.        *)

(* The envelopes on their way to the spool.                                *)
Queued == {i \in SdkIds : sdk[i] = "queued"}

(* What the spool holds.                                                   *)
Frames == [id : SdkIds, items : SUBSET Types]

(* The states of the forwarder.                                            *)
Relays == [pc : {"top", "next", "post", "commit", "drained", "last", "ended"}, stopping : BOOLEAN,
           batch : Seq(Frames), at : Nat, now : Nat, delivered : Nat, out : SUBSET Types, attempt : 0 .. max_attempts]

(* The exits of a request.                                                 *)
Exits == [requests : Nat, accepted : Nat, unauthorized : Nat, bad_request : Nat, too_large : Nat, busy : Nat]

(* A batch is in hand.                                                     *)
Draining == relay.pc \in {"next", "post", "commit"}

(* The frames of the spool that have had their answer upstream and are not *)
(* committed.                                                              *)
Passed == IF Draining THEN relay.delivered ELSE 0

(* The times an envelope may be sent again.                                *)
Resends == sentryCrashes + failedCommits + lostAnswers

(* The side of the SDK: each request has one exit, what is answered is     *)
(* kept.                                                                   *)
SdkKept ==
    /\ sdk \in [SdkIds -> {"held", "queued", "answered", "refused"}] /\ localCopy \subseteq SdkIds
    /\ sentryStats \in Exits /\ SentryExitsAccount
    /\ \A i \in SdkIds : sdk[i] \in {"queued", "answered"} => i \in localCopy

(* The limits: what upstream has said during this batch is in force.       *)
LimitsKept ==
    /\ limitUntil \in [Types \cup {ALL} -> Nat] /\ sentryClock \in Nat /\ sentryStop \in BOOLEAN
    /\ told \subseteq Types
    /\ \A t \in told : IsLimited(t, relay.now)

(* The forwarder: its batch is the front of the spool.                     *)
RelayKept ==
    /\ relay \in Relays /\ relay.delivered <= relay.at
    /\ relay.pc \in {"next", "post"} => relay.delivered = relay.at
    /\ relay.pc = "post" => relay.at < Len(relay.batch)
    /\ Draining => /\ Len(relay.batch) <= Len(sentrySpool) /\ relay.at <= Len(relay.batch)
                   /\ \A n \in 1 .. Len(relay.batch) : relay.batch[n] = sentrySpool[n]

(* The spool: one frame for an envelope, of one that was answered.         *)
SpoolKept ==
    /\ sentrySpool \in Seq(Frames) /\ Len(sentrySpool) <= SentrySpoolCap
    /\ \A n \in DOMAIN sentrySpool : sentrySpool[n].items # {} /\ sdk[sentrySpool[n].id] = "answered"
    /\ \A m, n \in DOMAIN sentrySpool : sentrySpool[m].id = sentrySpool[n].id => m = n

(* What became of an envelope: a frame that was not passed has been taken  *)
(* once for each resend at the most, and a passed one has had its answer.  *)
AnswersCounted ==
    /\ settled \in [SdkIds -> {"no", "ok", "limited", "refused"}] /\ accepts \in [SdkIds -> Nat]
    /\ sentryCrashes \in Nat /\ failedCommits \in Nat /\ lostAnswers \in Nat
    /\ forwarded \subseteq SdkIds /\ ForwardedIsAccounted /\ TakenOnce
    /\ \A i \in SdkIds : sdk[i] # "answered" => accepts[i] = 0
    /\ \A n \in DOMAIN sentrySpool : n > Passed => accepts[sentrySpool[n].id] <= Resends
    /\ \A n \in DOMAIN sentrySpool : n <= Passed => settled[sentrySpool[n].id] # "no"

(* The inductive invariant of Sentry.                                      *)
SentryInvariant == SdkKept /\ LimitsKept /\ RelayKept /\ SpoolKept /\ AnswersCounted

(* Envelopes are finitely many.                                            *)
LEMMA SdkIdsFinite == IsFiniteSet(SdkIds)
PROOF
<1> DEFINE idOf == [e \in SdkEnvelopes |-> e.id]
<1>1. IsFiniteSet({idOf[e] : e \in SdkEnvelopes})
  <2>1. idOf \in Surjection(SdkEnvelopes, {idOf[e] : e \in SdkEnvelopes})
    BY DEF Surjection
  <2> QED BY <2>1, SentryAssumption, FS_Surjection, Zenon
<1>2. {idOf[e] : e \in SdkEnvelopes} = SdkIds
  BY DEF SdkIds
<1> QED BY <1>1, <1>2

(* The state the forwarder starts from is a state of it.                   *)
LEMMA RelayStartType ==
    /\ RelayStart \in Relays /\ RelayStart.pc = "top" /\ RelayStart.at = 0 /\ RelayStart.delivered = 0
    /\ RelayStart.now = 0
PROOF
<1>1. <<>> \in Seq(Frames) /\ 0 \in 0 .. max_attempts
  BY SentryAssumption
<1> QED BY <1>1 DEF RelayStart, Relays

(* The first state satisfies the invariant.                                *)
LEMMA SentryInitially == ASSUME SentryInit PROVE SentryInvariant
PROOF
<1>1. SdkKept
  <2>1. Queued = {}
    BY DEF SentryInit, Queued
  <2>2. Cardinality(Queued) = 0
    BY <2>1, FS_EmptySet
  <2>3. sentryStats = FreshStats
    BY DEF SentryInit
  <2>4. sentryStats \in Exits
    BY <2>3 DEF FreshStats, Exits
  <2>5. SentryExitsAccount
    BY <2>2, <2>3 DEF FreshStats, SentryExitsAccount, Queued
  <2> QED BY <2>4, <2>5 DEF SentryInit, SdkKept
<1>2. LimitsKept
  BY DEF SentryInit, LimitsKept, NoLimits
<1>3. RelayKept
  BY RelayStartType DEF SentryInit, RelayKept, Draining
<1>4. SpoolKept
  BY SentryAssumption DEF SentryInit, SpoolKept
<1>5. AnswersCounted
  BY DEF SentryInit, AnswersCounted, ForwardedIsAccounted, TakenOnce
<1> QED BY <1>1, <1>2, <1>3, <1>4, <1>5 DEF SentryInvariant

(* What an exit counted does.                                              *)
LEMMA ExitCounted ==
    ASSUME sentryStats \in Exits, NEW exit \in {"unauthorized", "bad_request", "too_large"},
           SentryExitsAccount, sentryStats' = SentryExit(exit), UNCHANGED sdk
    PROVE  sentryStats' \in Exits /\ SentryExitsAccount'
PROOF
<1>1. PICK q : q = Cardinality({i \in SdkIds : sdk[i] = "queued"})
  OBVIOUS
<1>2. q \in Nat
  BY <1>1, SdkIdsFinite, FS_Subset, FS_CardinalityType
<1>3. q = Cardinality({i \in SdkIds : sdk'[i] = "queued"})
  BY <1>1
<1>4. CASE exit = "unauthorized"
  <2>1. sentryStats' = [sentryStats EXCEPT !.requests = @ + 1, !.unauthorized = @ + 1]
    BY <1>4 DEF SentryExit
  <2>3. sentryStats.requests + 1 \in Nat /\ sentryStats.unauthorized + 1 \in Nat
    BY DEF Exits
  <2>2. sentryStats' \in Exits
    BY <2>1, <2>3 DEF Exits
  <2> QED BY <1>1, <1>2, <1>3, <2>1, <2>2 DEF Exits, SentryExitsAccount
<1>5. CASE exit = "bad_request"
  <2>1. sentryStats' = [sentryStats EXCEPT !.requests = @ + 1, !.bad_request = @ + 1]
    BY <1>5 DEF SentryExit
  <2>3. sentryStats.requests + 1 \in Nat /\ sentryStats.bad_request + 1 \in Nat
    BY DEF Exits
  <2>2. sentryStats' \in Exits
    BY <2>1, <2>3 DEF Exits
  <2> QED BY <1>1, <1>2, <1>3, <2>1, <2>2 DEF Exits, SentryExitsAccount
<1>6. CASE exit = "too_large"
  <2>1. sentryStats' = [sentryStats EXCEPT !.requests = @ + 1, !.too_large = @ + 1]
    BY <1>6 DEF SentryExit
  <2>3. sentryStats.requests + 1 \in Nat /\ sentryStats.too_large + 1 \in Nat
    BY DEF Exits
  <2>2. sentryStats' \in Exits
    BY <2>1, <2>3 DEF Exits
  <2> QED BY <1>1, <1>2, <1>3, <2>1, <2>2 DEF Exits, SentryExitsAccount
<1> QED BY <1>4, <1>5, <1>6

(* A frame of the spool.                                                   *)
LEMMA SpooledFrame ==
    ASSUME sentrySpool \in Seq(Frames)
    PROVE  /\ DOMAIN sentrySpool = 1 .. Len(sentrySpool) /\ Len(sentrySpool) \in Nat
           /\ \A n \in DOMAIN sentrySpool : /\ sentrySpool[n] \in Frames /\ sentrySpool[n].id \in SdkIds
                                            /\ sentrySpool[n].items \subseteq Types
PROOF
<1>1. DOMAIN sentrySpool = 1 .. Len(sentrySpool) /\ Len(sentrySpool) \in Nat
  BY LenProperties
<1>2. \A n \in DOMAIN sentrySpool : sentrySpool[n] \in Frames
  BY <1>1, ElementOfSeq
<1> QED BY <1>1, <1>2 DEF Frames

(* A step of the SDK's side that leaves the spool and the forwarder alone. *)
LEMMA SpoolSideStays ==
    ASSUME SentryInvariant,
           UNCHANGED <<limitUntil, relay, settled, accepts, told, failedCommits, lostAnswers, sentrySpool, sentryCrashes, forwarded, unspooled>>,
           sentryClock' \in Nat, sentryStop' \in BOOLEAN,
           sdk' \in [SdkIds -> {"held", "queued", "answered", "refused"}],
           \A i \in SdkIds : sdk'[i] = "answered" <=> sdk[i] = "answered"
    PROVE  LimitsKept' /\ RelayKept' /\ SpoolKept' /\ AnswersCounted'
PROOF
<1>1. LimitsKept'
  BY DEF SentryInvariant, LimitsKept, IsLimited
<1>2. RelayKept'
  BY DEF SentryInvariant, RelayKept, Draining
<1>3. SpoolKept'
  <2>1. \A n \in DOMAIN sentrySpool : sentrySpool[n].id \in SdkIds
    BY SpooledFrame DEF SentryInvariant, SpoolKept
  <2> QED BY <2>1 DEF SentryInvariant, SpoolKept
<1>4. AnswersCounted'
  <2>1. /\ settled' = settled /\ accepts' = accepts /\ sentryCrashes' = sentryCrashes
        /\ failedCommits' = failedCommits /\ lostAnswers' = lostAnswers /\ sentrySpool' = sentrySpool /\ forwarded' = forwarded
        /\ ForwardedIsAccounted' /\ TakenOnce' /\ Passed' = Passed /\ Resends' = Resends
    BY DEF SentryInvariant, AnswersCounted, ForwardedIsAccounted, TakenOnce, Passed, Draining, Resends
  <2> HIDE DEF Passed, Resends
  <2> QED BY <2>1 DEF SentryInvariant, AnswersCounted
<1> QED BY <1>1, <1>2, <1>3, <1>4

(* A request turned away keeps the invariant.                              *)
LEMMA BadPostKeeps == ASSUME SentryInvariant, BadPost PROVE SentryInvariant'
PROOF
<1>1. PICK exit \in {"unauthorized", "bad_request", "too_large"} : sentryStats' = SentryExit(exit)
  BY DEF BadPost
<1>2. UNCHANGED <<sdk, localCopy, limitUntil, relay, settled, accepts, told, failedCommits, lostAnswers, sentrySpool,
                  sentryCrashes, forwarded, unspooled, sentryClock, sentryStop>>
  BY DEF BadPost, limitVars, relayVars
<1>3. sentryStats' \in Exits /\ SentryExitsAccount'
  BY <1>1, <1>2, ExitCounted DEF SentryInvariant, SdkKept
<1>4. SdkKept'
  BY <1>2, <1>3 DEF SentryInvariant, SdkKept
<1>5. sentryClock' \in Nat /\ sentryStop' \in BOOLEAN /\ sdk' \in [SdkIds -> {"held", "queued", "answered", "refused"}]
  BY <1>2 DEF SentryInvariant, SdkKept, LimitsKept
<1>6. LimitsKept' /\ RelayKept' /\ SpoolKept' /\ AnswersCounted'
  BY <1>2, <1>5, SpoolSideStays
<1> QED BY <1>4, <1>6 DEF SentryInvariant

(* A stop, and the clock, keep it.                                         *)
LEMMA WorldKeeps ==
    ASSUME SentryInvariant, SentryShutdown \/ SentryTick \/ UNCHANGED sentryVars
    PROVE  SentryInvariant'
PROOF
<1>1. UNCHANGED <<sdk, localCopy, limitUntil, relay, settled, accepts, told, failedCommits, lostAnswers, sentrySpool,
                  sentryCrashes, forwarded, unspooled, sentryStats>>
  BY DEF SentryShutdown, SentryTick, sentryVars, sdkVars, limitVars, relayVars
<1>2. sentryClock' \in Nat /\ sentryStop' \in BOOLEAN
  <2>1. CASE SentryShutdown
    BY <2>1 DEF SentryShutdown, SentryInvariant, LimitsKept
  <2>2. CASE SentryTick
    <3>1. sentryStop' = sentryStop
      BY <2>2 DEF SentryTick
    <3> QED BY <2>2, <3>1 DEF SentryTick, SentryInvariant, LimitsKept
  <2>3. CASE UNCHANGED sentryVars
    <3>1. sentryStop' = sentryStop
      BY <2>3 DEF sentryVars
    <3> QED BY <2>3, <3>1 DEF sentryVars, SentryInvariant, LimitsKept
  <2> QED BY <2>1, <2>2, <2>3
<1>3. sdk' \in [SdkIds -> {"held", "queued", "answered", "refused"}]
  BY <1>1 DEF SentryInvariant, SdkKept
<1>4. LimitsKept' /\ RelayKept' /\ SpoolKept' /\ AnswersCounted'
  BY <1>1, <1>2, <1>3, SpoolSideStays
<1>5. SdkKept'
  BY <1>1 DEF SentryInvariant, SdkKept, SentryExitsAccount
<1> QED BY <1>4, <1>5 DEF SentryInvariant

(* An envelope that arrives keeps it, whatever answers it.                 *)
LEMMA PostKeeps == ASSUME SentryInvariant, PostArrives PROVE SentryInvariant'
PROOF
<1>1. PICK i \in SdkIds, full \in BOOLEAN :
         /\ sdk[i] \in {"held", "refused"}
         /\ LET limited == limitRaw > sentryClock
            IN /\ sdk' = [sdk EXCEPT ![i] = IF limited \/ full THEN "refused" ELSE "queued"]
               /\ sentryStats' = [sentryStats EXCEPT !.requests = @ + 1, !.busy = IF limited \/ full THEN @ + 1 ELSE @]
               /\ localCopy' = IF limited \/ full THEN localCopy ELSE localCopy \cup SentryStored(i)
  BY DEF PostArrives
<1>2. UNCHANGED <<limitUntil, relay, settled, accepts, told, failedCommits, lostAnswers, sentrySpool,
                  sentryCrashes, forwarded, unspooled, sentryClock, sentryStop>>
  BY DEF PostArrives, limitVars, relayVars
<1>3. PICK turned : turned = (limitRaw > sentryClock \/ full)
  OBVIOUS
<1>4. /\ sdk' = [sdk EXCEPT ![i] = IF turned THEN "refused" ELSE "queued"]
      /\ sentryStats' = [sentryStats EXCEPT !.requests = @ + 1, !.busy = IF turned THEN @ + 1 ELSE @]
      /\ localCopy' = IF turned THEN localCopy ELSE localCopy \cup {i}
  BY <1>1, <1>3 DEF SentryStored
<1>5. /\ sdk \in [SdkIds -> {"held", "queued", "answered", "refused"}] /\ sentryStats \in Exits
      /\ SentryExitsAccount /\ localCopy \subseteq SdkIds
  BY DEF SentryInvariant, SdkKept
<1>6. sdk' \in [SdkIds -> {"held", "queued", "answered", "refused"}]
  BY <1>4, <1>5
<1>7. \A j \in SdkIds : sdk'[j] = "answered" <=> sdk[j] = "answered"
  BY <1>1, <1>4, <1>5
<1>8. sentryClock' \in Nat /\ sentryStop' \in BOOLEAN
  BY <1>2 DEF SentryInvariant, LimitsKept
<1>9. LimitsKept' /\ RelayKept' /\ SpoolKept' /\ AnswersCounted'
  BY <1>2, <1>6, <1>7, <1>8, SpoolSideStays
<1>10. IsFiniteSet(Queued) /\ i \notin Queued /\ Cardinality(Queued) \in Nat
  BY <1>1, SdkIdsFinite, FS_Subset, FS_CardinalityType DEF Queued
<1>11. SentryExitsAccount'
  <2>1. CASE turned
    <3>1. Queued' = Queued
      BY <1>1, <1>4, <1>5, <2>1 DEF Queued
    <3>2. sentryStats' = [sentryStats EXCEPT !.requests = @ + 1, !.busy = @ + 1]
      BY <1>4, <2>1, Zenon
    <3>3. sentryStats.requests = sentryStats.accepted + sentryStats.unauthorized + sentryStats.bad_request
                                 + sentryStats.too_large + sentryStats.busy + Cardinality(Queued)
      BY <1>5 DEF SentryExitsAccount, Queued
    <3>4. sentryStats'.requests = sentryStats'.accepted + sentryStats'.unauthorized + sentryStats'.bad_request
                                 + sentryStats'.too_large + sentryStats'.busy + Cardinality(Queued)
      BY <1>5, <1>10, <3>2, <3>3 DEF Exits
    <3> QED BY <3>1, <3>4 DEF SentryExitsAccount, Queued
  <2>2. CASE ~turned
    <3>1. Queued' = Queued \cup {i}
      BY <1>1, <1>4, <1>5, <2>2 DEF Queued
    <3>2. Cardinality(Queued \cup {i}) = Cardinality(Queued) + 1
      BY <1>10, FS_AddElement
    <3>3. Cardinality(Queued)' = Cardinality(Queued) + 1
      BY <3>1, <3>2
    <3>4. sentryStats' = [sentryStats EXCEPT !.requests = @ + 1]
      BY <1>4, <1>5, <2>2 DEF Exits
    <3>5. sentryStats.requests = sentryStats.accepted + sentryStats.unauthorized + sentryStats.bad_request
                                 + sentryStats.too_large + sentryStats.busy + Cardinality(Queued)
      BY <1>5 DEF SentryExitsAccount, Queued
    <3>6. sentryStats'.requests = sentryStats'.accepted + sentryStats'.unauthorized + sentryStats'.bad_request
                                 + sentryStats'.too_large + sentryStats'.busy + (Cardinality(Queued) + 1)
      BY <1>5, <1>10, <3>4, <3>5 DEF Exits
    <3> QED BY <3>3, <3>6 DEF SentryExitsAccount, Queued
  <2> QED BY <2>1, <2>2
<1>12. sentryStats' \in Exits
  <2>1. (IF turned THEN sentryStats.busy + 1 ELSE sentryStats.busy) \in Nat
    BY <1>5 DEF Exits
  <2>2. sentryStats.requests + 1 \in Nat
    BY <1>5 DEF Exits
  <2> HIDE DEF Exits
  <2>3. sentryStats' = [sentryStats EXCEPT !.requests = sentryStats.requests + 1,
                                           !.busy = IF turned THEN sentryStats.busy + 1 ELSE sentryStats.busy]
    BY <1>4, Zenon
  <2> QED BY <1>5, <2>1, <2>2, <2>3 DEF Exits
<1>13. \A j \in SdkIds : sdk'[j] \in {"queued", "answered"} => j \in localCopy'
  <2>1. \A j \in SdkIds : sdk[j] \in {"queued", "answered"} => j \in localCopy
    BY DEF SentryInvariant, SdkKept
  <2> QED BY <1>1, <1>4, <1>5, <2>1
<1>14. SdkKept'
  BY <1>4, <1>5, <1>6, <1>11, <1>12, <1>13 DEF SdkKept
<1> QED BY <1>9, <1>14 DEF SentryInvariant

(* Where the passed frames end.                                            *)
LEMMA PassedIn ==
    ASSUME RelayKept, sentrySpool \in Seq(Frames)
    PROVE  Passed \in Nat /\ Passed <= Len(sentrySpool)
PROOF
<1>1. relay.delivered \in Nat /\ relay.at \in Nat /\ Len(relay.batch) \in Nat /\ Len(sentrySpool) \in Nat
  BY LenProperties DEF RelayKept, Relays
<1>2. CASE Draining
  BY <1>1, <1>2 DEF RelayKept, Passed
<1>3. CASE ~Draining
  BY <1>1, <1>3 DEF Passed
<1> QED BY <1>2, <1>3

(* The frame of an envelope that gets into the spool, or does not, keeps   *)
(* the invariant.                                                          *)
LEMMA QueuesKeeps == ASSUME SentryInvariant, PostQueues PROVE SentryInvariant'
PROOF
<1>1. PICK i, works, kept, due, fits :
         /\ i \in SdkIds /\ works \in BOOLEAN
         /\ sdk[i] = "queued" /\ kept = SentryKept(EnvelopeOf(i))
         /\ due = (kept # {} /\ HasRoute(EnvelopeOf(i)))
         /\ fits = (works /\ Len(sentrySpool) < SentrySpoolCap)
         /\ forwarded' = IF due THEN forwarded \cup {i} ELSE forwarded
         /\ sentrySpool' = IF due /\ HasSpool /\ fits THEN Append(sentrySpool, [id |-> i, items |-> kept]) ELSE sentrySpool
         /\ unspooled' = IF due /\ HasSpool THEN LostFrame(i, fits) ELSE unspooled
         /\ sdk' = [sdk EXCEPT ![i] = "answered"]
         /\ sentryStats' = [sentryStats EXCEPT !.accepted = @ + 1]
  BY DEF PostQueues
<1>2. UNCHANGED <<localCopy, limitUntil, relay, settled, accepts, told, failedCommits, lostAnswers, sentryClock, sentryStop, sentryCrashes>>
  BY DEF PostQueues, limitVars
<1>3. /\ sdk \in [SdkIds -> {"held", "queued", "answered", "refused"}] /\ sentryStats \in Exits
      /\ SentryExitsAccount /\ localCopy \subseteq SdkIds
  BY DEF SentryInvariant, SdkKept
<1>4. sdk' \in [SdkIds -> {"held", "queued", "answered", "refused"}]
  BY <1>1, <1>3
<1>5. SdkKept'
  <2>1. IsFiniteSet(Queued) /\ i \in Queued /\ Cardinality(Queued) \in Nat
    BY <1>1, SdkIdsFinite, FS_Subset, FS_CardinalityType DEF Queued
  <2>2. Queued' = Queued \ {i}
    BY <1>1, <1>3 DEF Queued
  <2>3. Cardinality(Queued \ {i}) = Cardinality(Queued) - 1 /\ IsFiniteSet(Queued \ {i})
    BY <2>1, FS_RemoveElement
  <2>4. Cardinality(Queued)' = Cardinality(Queued) - 1
    BY <2>2, <2>3
  <2>5. sentryStats.requests = sentryStats.accepted + sentryStats.unauthorized + sentryStats.bad_request
                               + sentryStats.too_large + sentryStats.busy + Cardinality(Queued)
    BY <1>3 DEF SentryExitsAccount, Queued
  <2>6. sentryStats'.requests = sentryStats'.accepted + sentryStats'.unauthorized + sentryStats'.bad_request
                               + sentryStats'.too_large + sentryStats'.busy + (Cardinality(Queued) - 1)
    BY <1>1, <1>3, <2>1, <2>5 DEF Exits
  <2>7. SentryExitsAccount'
    BY <2>4, <2>6 DEF SentryExitsAccount, Queued
  <2>8. sentryStats.accepted + 1 \in Nat
    BY <1>3 DEF Exits
  <2>9. sentryStats' \in Exits
    BY <1>1, <1>3, <2>8 DEF Exits
  <2>10. \A j \in SdkIds : sdk'[j] \in {"queued", "answered"} => j \in localCopy'
    BY <1>1, <1>2, <1>3 DEF SentryInvariant, SdkKept
  <2> QED BY <1>2, <1>3, <1>4, <2>7, <2>9, <2>10 DEF SdkKept
<1>6. LimitsKept'
  BY <1>2 DEF SentryInvariant, LimitsKept, IsLimited
<1>7. /\ sentrySpool \in Seq(Frames) /\ Len(sentrySpool) \in Nat /\ DOMAIN sentrySpool = 1 .. Len(sentrySpool)
      /\ \A n \in DOMAIN sentrySpool : sentrySpool[n].id \in SdkIds /\ sentrySpool[n].id # i
  BY <1>1, SpooledFrame DEF SentryInvariant, SpoolKept
<1>8. Passed' = Passed /\ Draining' = Draining /\ Resends' = Resends /\ Resends \in Nat
  BY <1>2 DEF Passed, Draining, Resends, SentryInvariant, AnswersCounted
<1>9. Passed \in Nat /\ Passed <= Len(sentrySpool)
  BY <1>7, PassedIn DEF SentryInvariant
<1>10. \A j \in SdkIds \ {i} : sdk'[j] = sdk[j]
  BY <1>1, <1>3
<1>11. sdk'[i] = "answered" /\ accepts[i] = 0
  BY <1>1, <1>3 DEF SentryInvariant, AnswersCounted
<1>12. CASE due /\ HasSpool /\ fits
  <2> DEFINE f == [id |-> i, items |-> kept]
             l == Len(sentrySpool)
  <2>1. f \in Frames /\ f.id = i /\ f.items = kept /\ kept # {}
    BY <1>1, <1>12 DEF Frames, SentryKept, Types
  <2>2. sentrySpool' = Append(sentrySpool, f)
    BY <1>1, <1>12
  <2> HIDE DEF f
  <2>3. /\ sentrySpool' \in Seq(Frames) /\ Len(sentrySpool') = l + 1 /\ sentrySpool'[l + 1] = f
        /\ \A n \in 1 .. l : sentrySpool'[n] = sentrySpool[n]
    BY <1>7, <2>1, <2>2, AppendProperties
  <2>4. DOMAIN sentrySpool' = 1 .. l + 1
    BY <2>3, LenProperties
  <2> HIDE DEF l
  <2>0. l \in Nat /\ l = Len(sentrySpool)
    BY <1>7 DEF l
  <2>5. RelayKept'
    <3>1. Draining => \A n \in 1 .. Len(relay.batch) : relay.batch[n] = sentrySpool'[n] /\ Len(relay.batch) <= l + 1
      <4>1. Len(relay.batch) \in Nat
        BY LenProperties DEF SentryInvariant, RelayKept, Relays
      <4> QED BY <2>0, <2>3, <4>1 DEF SentryInvariant, RelayKept
    <3>2. Draining => Len(relay.batch) <= l + 1
      <4>1. Len(relay.batch) \in Nat
        BY LenProperties DEF SentryInvariant, RelayKept, Relays
      <4> QED BY <2>0, <4>1 DEF SentryInvariant, RelayKept
    <3>3. relay' = relay
      BY <1>2
    <3> HIDE DEF Draining, Relays
    <3> QED BY <1>8, <2>3, <3>1, <3>2, <3>3 DEF SentryInvariant, RelayKept
  <2>6. SpoolKept'
    <3>1. l < SentrySpoolCap
      BY <1>1, <1>12, <2>0
    <3>2. l + 1 <= SentrySpoolCap
      BY <2>0, <3>1, SentryAssumption
    <3>3. \A n \in 1 .. l + 1 : n \in 1 .. l \/ n = l + 1
      BY <2>0
    <3>4. \A n \in 1 .. l + 1 : sentrySpool'[n].items # {} /\ sdk'[sentrySpool'[n].id] = "answered"
      BY <1>7, <1>10, <1>11, <2>0, <2>1, <2>3, <3>3 DEF SentryInvariant, SpoolKept
    <3>5. \A m, n \in 1 .. l + 1 : sentrySpool'[m].id = sentrySpool'[n].id => m = n
      BY <1>7, <2>0, <2>1, <2>3, <3>3 DEF SentryInvariant, SpoolKept
    <3> QED BY <2>3, <2>4, <3>2, <3>4, <3>5 DEF SpoolKept
  <2>7. AnswersCounted'
    <3>1. \A n \in 1 .. l + 1 : n \in 1 .. l \/ n = l + 1
      BY <2>0
    <3>2. \A n \in 1 .. l + 1 : n > Passed => accepts[sentrySpool'[n].id] <= Resends
      <4>1. \A n \in 1 .. l : n > Passed => accepts[sentrySpool'[n].id] <= Resends
        BY <1>7, <2>0, <2>3 DEF SentryInvariant, AnswersCounted
      <4>2. accepts[sentrySpool'[l + 1].id] = 0
        BY <1>11, <2>1, <2>3
      <4> QED BY <1>8, <3>1, <4>1, <4>2
    <3>3. \A n \in 1 .. l + 1 : n <= Passed => n \in 1 .. l
      BY <1>9, <2>0
    <3>4. \A n \in 1 .. l + 1 : n <= Passed => settled[sentrySpool'[n].id] # "no"
      BY <1>7, <2>0, <2>3, <3>3 DEF SentryInvariant, AnswersCounted
    <3>5. ForwardedIsAccounted'
      <4>1. SUFFICES ASSUME HasSpool, NEW j \in forwarded'
                     PROVE  \/ settled'[j] # "no" \/ j \in unspooled'
                            \/ \E n \in DOMAIN sentrySpool' : sentrySpool'[n].id = j
        BY DEF ForwardedIsAccounted, HasSpool
      <4>2. CASE j = i
        <5>1. l + 1 \in DOMAIN sentrySpool'
          BY <2>0, <2>4
        <5> QED BY <4>2, <5>1, <2>1, <2>3
      <4>3. CASE j # i
        <5>1. j \in forwarded /\ unspooled \subseteq unspooled'
          BY <1>1, <4>3 DEF LostFrame
        <5>2. settled[j] # "no" \/ j \in unspooled \/ \E n \in DOMAIN sentrySpool : sentrySpool[n].id = j
          BY <4>1, <5>1 DEF SentryInvariant, AnswersCounted, ForwardedIsAccounted
        <5>3. ASSUME NEW n \in DOMAIN sentrySpool, sentrySpool[n].id = j
              PROVE  n \in DOMAIN sentrySpool' /\ sentrySpool'[n].id = j
          BY <1>7, <2>0, <2>3, <2>4, <5>3
        <5> QED BY <1>2, <5>1, <5>2, <5>3
      <4> QED BY <4>2, <4>3
    <3>6. TakenOnce'
      BY <1>2 DEF SentryInvariant, AnswersCounted, TakenOnce
    <3>7. forwarded' \subseteq SdkIds
      BY <1>1 DEF SentryInvariant, AnswersCounted
    <3>8. \A j \in SdkIds : sdk'[j] # "answered" => accepts'[j] = 0
      BY <1>2, <1>10, <1>11 DEF SentryInvariant, AnswersCounted
    <3> HIDE DEF Passed, Resends
    <3> QED BY <1>2, <1>8, <2>4, <3>2, <3>4, <3>5, <3>6, <3>7, <3>8 DEF SentryInvariant, AnswersCounted
  <2> QED BY <1>5, <1>6, <2>5, <2>6, <2>7 DEF SentryInvariant
<1>13. CASE ~(due /\ HasSpool /\ fits)
  <2>1. sentrySpool' = sentrySpool
    BY <1>1, <1>13
  <2>2. RelayKept'
    BY <1>2, <2>1 DEF SentryInvariant, RelayKept, Draining
  <2>3. SpoolKept'
    BY <1>7, <1>10, <2>1 DEF SentryInvariant, SpoolKept
  <2>4. ForwardedIsAccounted'
    <3>1. SUFFICES ASSUME HasSpool, NEW j \in forwarded'
                   PROVE  \/ settled'[j] # "no" \/ j \in unspooled'
                          \/ \E n \in DOMAIN sentrySpool' : sentrySpool'[n].id = j
      BY DEF ForwardedIsAccounted, HasSpool
    <3>2. CASE j \in forwarded
      <4>1. unspooled \subseteq unspooled'
        BY <1>1 DEF LostFrame
      <4> QED BY <1>2, <2>1, <3>1, <3>2, <4>1 DEF SentryInvariant, AnswersCounted, ForwardedIsAccounted
    <3>3. CASE j \notin forwarded
      <4>1. j = i /\ due
        BY <1>1, <3>3
      <4> QED BY <1>1, <1>13, <3>1, <4>1 DEF LostFrame
    <3> QED BY <3>2, <3>3
  <2>5. TakenOnce'
    BY <1>2 DEF SentryInvariant, AnswersCounted, TakenOnce
  <2>6. forwarded' \subseteq SdkIds
    BY <1>1 DEF SentryInvariant, AnswersCounted
  <2>7. \A j \in SdkIds : sdk'[j] # "answered" => accepts'[j] = 0
    BY <1>2, <1>10, <1>11 DEF SentryInvariant, AnswersCounted
  <2>8. AnswersCounted'
    <3> HIDE DEF Passed, Resends
    <3> QED BY <1>2, <1>8, <2>1, <2>4, <2>5, <2>6, <2>7 DEF SentryInvariant, AnswersCounted
  <2> QED BY <1>5, <1>6, <2>2, <2>3, <2>8 DEF SentryInvariant
<1> QED BY <1>12, <1>13

(* A step of the forwarder leaves the SDK's side alone.                    *)
LEMMA SdkStays == ASSUME SentryInvariant, UNCHANGED sdkVars PROVE SdkKept'
PROOF BY DEF SentryInvariant, SdkKept, sdkVars, SentryExitsAccount

(* Limits that stay are in force at an earlier time as well.               *)
LEMMA LimitsStay ==
    ASSUME SentryInvariant, limitUntil' = limitUntil, sentryClock' = sentryClock, sentryStop' = sentryStop,
           told' = {} \/ (told' = told /\ relay'.now \in Nat /\ relay'.now <= relay.now)
    PROVE  LimitsKept'
PROOF
<1>1. relay.now \in Nat
  BY DEF SentryInvariant, RelayKept, Relays
<1>2. ASSUME NEW t \in told' PROVE limitUntil[ALL] > relay'.now \/ limitUntil[t] > relay'.now
  <2>1. t \in told /\ told' = told /\ t \in Types
    BY <1>2 DEF SentryInvariant, LimitsKept
  <2>2. limitUntil[ALL] \in Nat /\ limitUntil[t] \in Nat
    BY <2>1 DEF SentryInvariant, LimitsKept
  <2>3. limitUntil[ALL] > relay.now \/ limitUntil[t] > relay.now
    BY <2>1 DEF SentryInvariant, LimitsKept, IsLimited
  <2> QED BY <1>1, <1>2, <2>1, <2>2, <2>3
<1> QED BY <1>2 DEF SentryInvariant, LimitsKept, IsLimited

(* The forwarder leaves its batch, or has none: what was passed and not    *)
(* committed is sent again, once more for each crash or failed commit.     *)
LEMMA Rewound ==
    ASSUME SentryInvariant,
           UNCHANGED <<sentrySpool, settled, accepts, forwarded, unspooled>>,
           \A i \in SdkIds : sdk'[i] = "answered" <=> sdk[i] = "answered",
           sentryCrashes' \in Nat, failedCommits' \in Nat, lostAnswers' \in Nat, Passed' = 0,
           Resends' = Resends + 1 \/ (Passed = 0 /\ Resends' = Resends)
    PROVE  SpoolKept' /\ AnswersCounted'
PROOF
<1>1. /\ sentrySpool \in Seq(Frames)
      /\ \A n \in DOMAIN sentrySpool : sentrySpool[n].id \in SdkIds /\ n \in Nat \ {0}
  BY SpooledFrame DEF SentryInvariant, SpoolKept
<1>2. SpoolKept'
  BY <1>1 DEF SentryInvariant, SpoolKept
<1>3. Resends \in Nat /\ Resends' \in Nat /\ Resends <= Resends' /\ accepts \in [SdkIds -> Nat]
  <2>1. Resends \in Nat /\ accepts \in [SdkIds -> Nat]
    BY DEF SentryInvariant, AnswersCounted, Resends
  <2> HIDE DEF Resends
  <2> QED BY <2>1
<1>4. \A i \in SdkIds : accepts[i] <= 1 + Resends
  BY DEF SentryInvariant, AnswersCounted, TakenOnce, Resends
<1>5. \A i \in SdkIds : accepts[i] <= 1 + Resends'
  BY <1>3, <1>4
<1>6. TakenOnce'
  BY <1>5 DEF TakenOnce, Resends, SentryInvariant, AnswersCounted
<1>7. \A n \in DOMAIN sentrySpool : accepts[sentrySpool[n].id] <= Resends'
  <2>1. CASE Resends' = Resends + 1
    BY <1>1, <1>3, <1>4, <2>1
  <2>2. CASE Passed = 0 /\ Resends' = Resends
    <3> HIDE DEF Resends, Passed
    <3>1. \A n \in DOMAIN sentrySpool : n > Passed
      BY <1>1, <2>2
    <3> QED BY <1>1, <2>2, <3>1 DEF SentryInvariant, AnswersCounted
  <2> QED BY <2>1, <2>2
<1>8. \A n \in DOMAIN sentrySpool : ~(n <= 0)
  BY <1>1
<1>11. \A i \in SdkIds : sdk'[i] # "answered" => accepts[i] = 0
  BY DEF SentryInvariant, AnswersCounted
<1>12. settled \in [SdkIds -> {"no", "ok", "limited", "refused"}] /\ forwarded \subseteq SdkIds
  BY DEF SentryInvariant, AnswersCounted
<1>9. ForwardedIsAccounted'
  BY DEF SentryInvariant, AnswersCounted, ForwardedIsAccounted, HasSpool
<1> HIDE DEF Resends, Passed
<1>10. AnswersCounted'
  BY <1>3, <1>6, <1>7, <1>8, <1>9, <1>11, <1>12 DEF AnswersCounted
<1> QED BY <1>2, <1>10

(* The forwarder goes on with the same frame, or on to its commit.         *)
LEMMA SameFrame ==
    ASSUME SentryInvariant, relay.pc \in {"next", "post"}, relay' \in Relays, relay'.pc \in {"post", "commit"},
           relay'.pc = "post" => relay.at < Len(relay.batch),
           relay'.batch = relay.batch, relay'.at = relay.at, relay'.delivered = relay.delivered,
           UNCHANGED <<sentrySpool, settled, accepts, forwarded, unspooled, sdk, sentryCrashes, failedCommits, lostAnswers>>
    PROVE  RelayKept' /\ SpoolKept' /\ AnswersCounted'
PROOF
<1>1. Draining /\ Draining' /\ Passed' = Passed /\ Resends' = Resends
  BY DEF Draining, Passed, Resends
<1>2. RelayKept'
  <2> HIDE DEF Draining
  <2> QED BY <1>1 DEF SentryInvariant, RelayKept
<1>3. SpoolKept'
  BY DEF SentryInvariant, SpoolKept
<1>4. ForwardedIsAccounted' /\ TakenOnce'
  BY DEF SentryInvariant, AnswersCounted, ForwardedIsAccounted, TakenOnce, HasSpool
<1> HIDE DEF Resends, Passed
<1>5. AnswersCounted'
  BY <1>1, <1>4 DEF SentryInvariant, AnswersCounted
<1> QED BY <1>2, <1>3, <1>5

(* So it does when upstream took the frame and its answer was lost: that   *)
(* is one more time the frame may be sent again.                           *)
LEMMA AnswerLost ==
    ASSUME SentryInvariant, relay.pc = "post", relay' \in Relays, relay'.pc \in {"post", "commit"},
           relay'.batch = relay.batch, relay'.at = relay.at, relay'.delivered = relay.delivered,
           NEW id, id = relay.batch[relay.at + 1].id,
           accepts' = [accepts EXCEPT ![id] = @ + 1], lostAnswers' = lostAnswers + 1,
           UNCHANGED <<sentrySpool, settled, forwarded, unspooled, sdk, sentryCrashes, failedCommits>>
    PROVE  RelayKept' /\ SpoolKept' /\ AnswersCounted'
PROOF
<1>1. PICK k : k = relay.at + 1
  OBVIOUS
<1>2. /\ relay.at \in Nat /\ Len(relay.batch) \in Nat /\ k \in Nat /\ k \in 1 .. Len(relay.batch)
      /\ relay.delivered = relay.at
  BY <1>1, LenProperties DEF SentryInvariant, RelayKept, Relays
<1>3. Draining /\ Draining' /\ Passed = relay.at /\ Passed' = Passed
  BY <1>2 DEF Draining, Passed
<1>4. /\ settled \in [SdkIds -> {"no", "ok", "limited", "refused"}] /\ accepts \in [SdkIds -> Nat]
      /\ Resends \in Nat /\ Resends' = Resends + 1 /\ lostAnswers' \in Nat
      /\ sentryCrashes \in Nat /\ failedCommits \in Nat /\ forwarded \subseteq SdkIds
  BY DEF SentryInvariant, AnswersCounted, Resends
<1>5. RelayKept'
  <2> HIDE DEF Draining
  <2> QED BY <1>2, <1>3 DEF SentryInvariant, RelayKept
<1>6. SpoolKept'
  BY DEF SentryInvariant, SpoolKept
<1>7. /\ DOMAIN sentrySpool = 1 .. Len(sentrySpool) /\ Len(sentrySpool) \in Nat
      /\ \A n \in DOMAIN sentrySpool : sentrySpool[n].id \in SdkIds
  BY SpooledFrame DEF SentryInvariant, SpoolKept
<1>8. k \in DOMAIN sentrySpool /\ sentrySpool[k].id = id /\ id \in SdkIds
  <2>1. Len(relay.batch) <= Len(sentrySpool) /\ relay.batch[k] = sentrySpool[k]
    BY <1>2, <1>3 DEF SentryInvariant, RelayKept
  <2>2. k \in 1 .. Len(sentrySpool)
    BY <1>2, <1>7, <2>1
  <2> QED BY <1>1, <1>7, <2>1, <2>2
<1>9. accepts[id] <= Resends
  <2>1. k > Passed
    BY <1>1, <1>2, <1>3
  <2> HIDE DEF Passed, Resends
  <2> QED BY <1>8, <2>1 DEF SentryInvariant, AnswersCounted
<1> HIDE DEF Resends, Passed
<1>10. /\ accepts' \in [SdkIds -> Nat] /\ accepts'[id] = accepts[id] + 1
       /\ \A i \in SdkIds \ {id} : accepts'[i] = accepts[i]
  <2>1. accepts[id] \in Nat /\ accepts[id] + 1 \in Nat
    BY <1>4, <1>8
  <2> QED BY <1>4, <1>8, <2>1
<1>11. \A i \in SdkIds : accepts[i] \in Nat /\ accepts'[i] \in Nat
  BY <1>4, <1>10
<1>12. \A i \in SdkIds : accepts'[i] <= 1 + Resends'
  <2>1. \A i \in SdkIds : accepts[i] <= 1 + Resends
    BY DEF SentryInvariant, AnswersCounted, TakenOnce, Resends
  <2>2. accepts'[id] <= 1 + Resends'
    BY <1>4, <1>8, <1>9, <1>10, <1>11
  <2>3. \A i \in SdkIds \ {id} : accepts'[i] <= 1 + Resends'
    BY <1>4, <1>10, <1>11, <2>1
  <2> QED BY <2>2, <2>3
<1>13. TakenOnce'
  <2>1. TakenOnce' <=> \A i \in SdkIds : accepts'[i] <= 1 + Resends'
    BY <1>4, <1>11 DEF TakenOnce, Resends, SentryInvariant, AnswersCounted
  <2> QED BY <1>12, <2>1
<1>14. ForwardedIsAccounted'
  BY DEF SentryInvariant, AnswersCounted, ForwardedIsAccounted, HasSpool
<1>15. \A i \in SdkIds : sdk'[i] # "answered" => accepts'[i] = 0
  <2>1. sdk[id] = "answered"
    BY <1>8 DEF SentryInvariant, SpoolKept
  <2> QED BY <1>10, <2>1 DEF SentryInvariant, AnswersCounted
<1>16. \A n \in DOMAIN sentrySpool : n > Passed => accepts'[sentrySpool[n].id] <= Resends'
  <2>1. SUFFICES ASSUME NEW n \in DOMAIN sentrySpool, n > Passed PROVE accepts'[sentrySpool[n].id] <= Resends'
    OBVIOUS
  <2>2. sentrySpool[n].id \in SdkIds /\ accepts[sentrySpool[n].id] <= Resends
    BY <1>7, <2>1 DEF SentryInvariant, AnswersCounted
  <2>3. CASE sentrySpool[n].id = id
    BY <1>4, <1>9, <1>10, <1>11, <1>8, <2>3
  <2>4. CASE sentrySpool[n].id # id
    BY <1>4, <1>10, <1>11, <2>2, <2>4
  <2> QED BY <2>3, <2>4
<1>17. AnswersCounted'
  BY <1>3, <1>4, <1>10, <1>13, <1>14, <1>15, <1>16 DEF SentryInvariant, AnswersCounted
<1> QED BY <1>5, <1>6, <1>17

(* The frame in hand has its answer and the forwarder goes on to the next. *)
LEMMA FrameSettles ==
    ASSUME SentryInvariant, relay.pc \in {"next", "post"}, relay.at < Len(relay.batch),
           relay' \in Relays, relay'.pc = "next", relay'.batch = relay.batch,
           relay'.at = relay.at + 1, relay'.delivered = relay.at + 1,
           NEW id, id = relay.batch[relay.at + 1].id, NEW answer \in {"ok", "limited", "refused"},
           settled' = [settled EXCEPT ![id] = answer],
           accepts' = accepts \/ accepts' = [accepts EXCEPT ![id] = @ + 1],
           UNCHANGED <<sentrySpool, forwarded, unspooled, sdk, sentryCrashes, failedCommits, lostAnswers>>
    PROVE  RelayKept' /\ SpoolKept' /\ AnswersCounted'
PROOF
<1>1. PICK k : k = relay.at + 1
  OBVIOUS
<1>2. /\ relay.at \in Nat /\ Len(relay.batch) \in Nat /\ k \in Nat /\ k \in 1 .. Len(relay.batch)
      /\ relay.delivered = relay.at
  BY <1>1, LenProperties DEF SentryInvariant, RelayKept, Relays
<1>3. Draining /\ Draining' /\ Passed = relay.at /\ Passed' = k /\ Resends' = Resends
  BY <1>1, <1>2 DEF Draining, Passed, Resends
<1>4. RelayKept'
  <2>1. k <= Len(relay.batch)
    BY <1>2
  <2> HIDE DEF Draining
  <2> QED BY <1>1, <1>2, <1>3, <2>1 DEF SentryInvariant, RelayKept
<1>5. SpoolKept'
  BY DEF SentryInvariant, SpoolKept
<1>6. /\ sentrySpool \in Seq(Frames) /\ DOMAIN sentrySpool = 1 .. Len(sentrySpool) /\ Len(sentrySpool) \in Nat
      /\ \A n \in DOMAIN sentrySpool : sentrySpool[n].id \in SdkIds
  BY SpooledFrame DEF SentryInvariant, SpoolKept
<1>7. k \in DOMAIN sentrySpool /\ sentrySpool[k].id = id /\ id \in SdkIds
  <2>1. Len(relay.batch) <= Len(sentrySpool) /\ relay.batch[k] = sentrySpool[k]
    BY <1>2, <1>3 DEF SentryInvariant, RelayKept
  <2>2. k \in 1 .. Len(sentrySpool)
    BY <1>2, <1>6, <2>1
  <2> QED BY <1>1, <1>6, <2>1, <2>2
<1>8. \A n \in DOMAIN sentrySpool : n # k => sentrySpool[n].id # id
  BY <1>7 DEF SentryInvariant, SpoolKept
<1>9. /\ settled \in [SdkIds -> {"no", "ok", "limited", "refused"}] /\ accepts \in [SdkIds -> Nat] /\ Resends \in Nat
  BY DEF SentryInvariant, AnswersCounted, Resends
<1>10. /\ settled' \in [SdkIds -> {"no", "ok", "limited", "refused"}] /\ settled'[id] # "no"
       /\ \A i \in SdkIds \ {id} : settled'[i] = settled[i]
  BY <1>7, <1>9
<1>11. accepts' \in [SdkIds -> Nat] /\ accepts'[id] <= accepts[id] + 1 /\ \A i \in SdkIds \ {id} : accepts'[i] = accepts[i]
  <2>1. CASE accepts' = accepts
    <3>1. accepts[id] \in Nat
      BY <1>7, <1>9
    <3> QED BY <1>9, <2>1, <3>1
  <2>2. CASE accepts' = [accepts EXCEPT ![id] = @ + 1]
    <3>1. accepts[id] \in Nat /\ accepts[id] + 1 \in Nat
      BY <1>7, <1>9
    <3> QED BY <1>7, <1>9, <2>2, <3>1
  <2> QED BY <2>1, <2>2
<1>12. accepts[id] <= Resends
  <2>1. k > Passed
    BY <1>1, <1>2, <1>3
  <2> HIDE DEF Passed, Resends
  <2> QED BY <1>7, <2>1 DEF SentryInvariant, AnswersCounted
<1>13. TakenOnce'
  <2>1. \A i \in SdkIds : accepts[i] <= 1 + Resends
    BY DEF SentryInvariant, AnswersCounted, TakenOnce, Resends
  <2>2. accepts[id] \in Nat /\ accepts'[id] \in Nat
    BY <1>7, <1>9, <1>11
  <2>3. accepts'[id] <= 1 + Resends
    BY <1>9, <1>11, <1>12, <2>2
  <2>4. \A i \in SdkIds : accepts'[i] <= 1 + Resends
    BY <1>11, <2>1, <2>3
  <2> QED BY <2>4 DEF TakenOnce, Resends, SentryInvariant, AnswersCounted
<1>14. ForwardedIsAccounted'
  <2>1. \A i \in forwarded : settled[i] # "no" => settled'[i] # "no"
    BY <1>10 DEF SentryInvariant, AnswersCounted
  <2> QED BY <2>1 DEF SentryInvariant, AnswersCounted, ForwardedIsAccounted, HasSpool
<1>15. \A i \in SdkIds : sdk'[i] # "answered" => accepts'[i] = 0
  <2>1. sdk[id] = "answered"
    BY <1>7 DEF SentryInvariant, SpoolKept
  <2> QED BY <1>11, <2>1 DEF SentryInvariant, AnswersCounted
<1>16. \A n \in DOMAIN sentrySpool : n > k => accepts'[sentrySpool[n].id] <= Resends
  <2> HIDE DEF Passed, Resends
  <2>1. \A n \in DOMAIN sentrySpool : n > k => n > Passed /\ n # k
    BY <1>1, <1>2, <1>3, <1>6
  <2>2. \A n \in DOMAIN sentrySpool : n > k => accepts'[sentrySpool[n].id] = accepts[sentrySpool[n].id]
    BY <1>6, <1>8, <1>11, <2>1
  <2> QED BY <2>1, <2>2 DEF SentryInvariant, AnswersCounted
<1>17. \A n \in DOMAIN sentrySpool : n <= k => settled'[sentrySpool[n].id] # "no"
  <2> HIDE DEF Passed, Resends
  <2>1. \A n \in DOMAIN sentrySpool : n <= k => n = k \/ (n <= Passed /\ n # k)
    BY <1>1, <1>2, <1>3, <1>6
  <2>2. \A n \in DOMAIN sentrySpool : n <= Passed => settled[sentrySpool[n].id] # "no"
    BY DEF SentryInvariant, AnswersCounted
  <2> QED BY <1>6, <1>7, <1>8, <1>10, <2>1, <2>2
<1> HIDE DEF Passed, Resends
<1>18. AnswersCounted'
  BY <1>3, <1>10, <1>11, <1>13, <1>14, <1>15, <1>16, <1>17 DEF SentryInvariant, AnswersCounted
<1> QED BY <1>4, <1>5, <1>18

(* The smaller of two numbers.                                             *)
LEMMA MinOfTwo ==
    ASSUME NEW a \in Nat, NEW b \in Nat
    PROVE  Min({a, b}) \in Nat /\ Min({a, b}) <= b
PROOF
<1>1. \E x \in {a, b} : \A y \in {a, b} : x <= y
  OBVIOUS
<1>2. Min({a, b}) \in {a, b} /\ \A y \in {a, b} : Min({a, b}) <= y
  BY <1>1 DEF Min
<1> QED BY <1>2

(* Peeking the spool keeps the invariant.                                  *)
LEMMA PeekKeeps == ASSUME SentryInvariant, RelayPeek PROVE SentryInvariant'
PROOF
<1>1. PICK stopping, batch :
        /\ stopping = (IF relay.pc = "top" THEN sentryStop ELSE relay.stopping)
        /\ batch = SubSeq(sentrySpool, 1, Min({SentryPeek, Len(sentrySpool)}))
        /\ relay' = [RelayStart EXCEPT !.pc = IF batch = <<>> THEN "drained" ELSE "next",
                                      !.stopping = stopping \/ relay.pc = "last",
                                      !.batch = batch, !.now = sentryClock]
  BY DEF RelayPeek
<1>2. /\ relay.pc \in {"top", "last"} /\ told' = {}
      /\ UNCHANGED <<limitUntil, settled, accepts, failedCommits, lostAnswers, sentrySpool, sentryClock, sentryStop, sentryCrashes>>
      /\ UNCHANGED sdkVars
  BY DEF RelayPeek, RelayStep, limitVars
<1>3. sentrySpool \in Seq(Frames) /\ DOMAIN sentrySpool = 1 .. Len(sentrySpool) /\ Len(sentrySpool) \in Nat
      /\ \A n \in DOMAIN sentrySpool : sentrySpool[n] \in Frames
  BY SpooledFrame DEF SentryInvariant, SpoolKept
<1>4. PICK k \in Nat : k = Min({SentryPeek, Len(sentrySpool)}) /\ k <= Len(sentrySpool)
  BY <1>3, MinOfTwo, SentryAssumption
<1>5. batch \in Seq(Frames) /\ Len(batch) = k /\ \A n \in 1 .. k : batch[n] = sentrySpool[n]
  <2>1. \A n \in 1 .. k : sentrySpool[n] \in Frames
    BY <1>3, <1>4
  <2>2. /\ SubSeq(sentrySpool, 1, k) \in Seq(Frames)
        /\ Len(SubSeq(sentrySpool, 1, k)) = IF 1 <= k THEN k - 1 + 1 ELSE 0
        /\ \A n \in 1 .. k - 1 + 1 : SubSeq(sentrySpool, 1, k)[n] = sentrySpool[1 + n - 1]
    BY <2>1, SubSeqProperties
  <2>3. k - 1 + 1 = k /\ \A n \in 1 .. k : 1 + n - 1 = n
    BY <1>4
  <2>4. Len(SubSeq(sentrySpool, 1, k)) = k
    BY <2>2, <1>4
  <2>5. \A n \in 1 .. k : SubSeq(sentrySpool, 1, k)[n] = sentrySpool[n]
    BY <2>2, <2>3
  <2> QED BY <1>1, <1>4, <2>2, <2>4, <2>5
<1>6. (stopping \/ relay.pc = "last") \in BOOLEAN /\ sentryClock \in Nat
  BY DEF SentryInvariant, LimitsKept
<1>7. /\ relay' \in Relays /\ relay'.pc \in {"drained", "next"} /\ relay'.batch = batch
      /\ relay'.at = 0 /\ relay'.delivered = 0
  <2>1. (IF batch = <<>> THEN "drained" ELSE "next") \in {"drained", "next"}
    OBVIOUS
  <2> HIDE DEF RelayStart
  <2> QED BY <1>1, <1>5, <1>6, <2>1, RelayStartType DEF Relays
<1>8. RelayKept'
  <2>0. sentrySpool' = sentrySpool
    BY <1>2
  <2>1. 0 <= k /\ Len(relay'.batch) = k /\ \A n \in 1 .. k : relay'.batch[n] = sentrySpool'[n]
    BY ONLY k \in Nat, <1>5, <1>7, <2>0
  <2>2. Len(relay'.batch) <= Len(sentrySpool') /\ relay'.at <= Len(relay'.batch) /\ relay'.delivered <= relay'.at
    BY <1>4, <1>7, <2>0, <2>1
  <2>3. relay'.pc # "post" /\ relay'.delivered = relay'.at
    BY <1>7
  <2> HIDE DEF Draining, Relays
  <2> QED BY <1>7, <2>1, <2>2, <2>3 DEF RelayKept
<1>9. Passed = 0 /\ Passed' = 0 /\ Resends' = Resends
  BY <1>2, <1>7 DEF Passed, Draining, Resends
<1>10. SdkKept'
  BY <1>2, SdkStays
<1>11. LimitsKept'
  BY <1>2, LimitsStay
<1>12. SpoolKept' /\ AnswersCounted'
  <2>1. sentryCrashes' \in Nat /\ failedCommits' \in Nat /\ lostAnswers' \in Nat /\ UNCHANGED <<forwarded, unspooled, sdk>>
    BY <1>2 DEF SentryInvariant, AnswersCounted, sdkVars
  <2> QED BY <1>2, <1>9, <2>1, Rewound
<1> QED BY <1>8, <1>10, <1>11, <1>12 DEF SentryInvariant

(* The wait for more, and the end of the forwarder, keep it.               *)
LEMMA DrainedKeeps == ASSUME SentryInvariant, RelayDrained PROVE SentryInvariant'
PROOF
<1>1. /\ relay.pc = "drained" /\ told' = told
      /\ UNCHANGED <<limitUntil, settled, accepts, failedCommits, lostAnswers, sentrySpool, sentryClock, sentryStop, sentryCrashes>>
      /\ UNCHANGED sdkVars
  BY DEF RelayDrained, RelayStep, limitVars
<1>2. /\ relay' \in Relays /\ relay'.pc \in {"ended", "last", "top"} /\ relay'.now <= relay.now /\ relay'.now \in Nat
      /\ relay'.delivered <= relay'.at
  <2>0. relay \in Relays /\ relay.now \in Nat /\ relay.delivered <= relay.at
    BY DEF SentryInvariant, RelayKept, Relays
  <2>1. CASE relay' = [relay EXCEPT !.pc = "ended"]
    BY <2>0, <2>1 DEF Relays
  <2>2. CASE relay' = [RelayStart EXCEPT !.pc = IF wakes' = 0 /\ sentryStop THEN "last" ELSE "top"]
    <3>1. (IF wakes' = 0 /\ sentryStop THEN "last" ELSE "top") \in {"last", "top"}
      OBVIOUS
    <3>2. PICK pc \in {"last", "top"} : relay' = [RelayStart EXCEPT !.pc = pc]
      BY <2>2, <3>1
    <3> HIDE DEF RelayStart
    <3>3. relay' \in Relays /\ relay'.pc = pc /\ relay'.now = 0 /\ relay'.delivered = 0 /\ relay'.at = 0
      BY <3>2, RelayStartType DEF Relays
    <3> QED BY <2>0, <3>3
  <2> QED BY <2>1, <2>2 DEF RelayDrained
<1>3. RelayKept'
  BY <1>2 DEF RelayKept, Draining
<1>4. Passed = 0 /\ Passed' = 0 /\ Resends' = Resends
  BY <1>1, <1>2 DEF Passed, Draining, Resends
<1>5. SdkKept'
  BY <1>1, SdkStays
<1>6. LimitsKept'
  BY <1>1, <1>2, LimitsStay
<1>7. SpoolKept' /\ AnswersCounted'
  <2>1. sentryCrashes' \in Nat /\ failedCommits' \in Nat /\ lostAnswers' \in Nat /\ UNCHANGED <<forwarded, unspooled, sdk>>
    BY <1>1 DEF SentryInvariant, AnswersCounted, sdkVars
  <2> QED BY <1>1, <1>4, <2>1, Rewound
<1> QED BY <1>3, <1>5, <1>6, <1>7 DEF SentryInvariant

(* A crash and a start on the same spool keep it.                          *)
LEMMA SentryRestartKeeps == ASSUME SentryInvariant, SentryRestart PROVE SentryInvariant'
PROOF
<1>1. /\ sentryCrashes' = sentryCrashes + 1 /\ sentryStop' = FALSE /\ relay' = RelayStart /\ told' = {}
      /\ sdk' = [i \in SdkIds |-> IF sdk[i] = "queued" THEN "held" ELSE sdk[i]]
      /\ sentryStats' = FreshStats /\ limitUntil' = NoLimits
      /\ UNCHANGED <<localCopy, forwarded, unspooled, settled, accepts, failedCommits, lostAnswers, sentrySpool, sentryClock>>
  BY DEF SentryRestart
<1>2. sdk \in [SdkIds -> {"held", "queued", "answered", "refused"}]
  BY DEF SentryInvariant, SdkKept
<1>3. SdkKept'
  <2>0. sdk' \in [SdkIds -> {"held", "queued", "answered", "refused"}] /\ localCopy' \subseteq SdkIds
    BY <1>1, <1>2 DEF SentryInvariant, SdkKept
  <2>1. Queued' = {}
    BY <1>1, <1>2 DEF Queued
  <2>2. Cardinality(Queued)' = 0
    BY <2>1, FS_EmptySet
  <2>3. sentryStats' \in Exits
    BY <1>1 DEF FreshStats, Exits
  <2>4. SentryExitsAccount'
    BY <1>1, <2>2 DEF FreshStats, SentryExitsAccount, Queued
  <2>5. \A i \in SdkIds : sdk'[i] \in {"queued", "answered"} => i \in localCopy'
    BY <1>1, <1>2 DEF SentryInvariant, SdkKept
  <2> QED BY <2>0, <2>3, <2>4, <2>5 DEF SdkKept
<1>4. LimitsKept'
  BY <1>1 DEF SentryInvariant, LimitsKept, NoLimits
<1>5. RelayKept'
  BY <1>1, RelayStartType DEF RelayKept, Draining
<1>6. SpoolKept' /\ AnswersCounted'
  <2>1. sentryCrashes' \in Nat /\ failedCommits' \in Nat /\ lostAnswers' \in Nat /\ Resends' = Resends + 1
    BY <1>1 DEF SentryInvariant, AnswersCounted, Resends
  <2>2. Passed' = 0
    BY <1>1, RelayStartType DEF Passed, Draining
  <2>3. \A i \in SdkIds : sdk'[i] = "answered" <=> sdk[i] = "answered"
    BY <1>1, <1>2
  <2> QED BY <1>1, <2>1, <2>2, <2>3, Rewound
<1> QED BY <1>3, <1>4, <1>5, <1>6 DEF SentryInvariant

(* The next frame: left out for a limit, or about to be posted.            *)
LEMMA NextKeeps == ASSUME SentryInvariant, RelayNext PROVE SentryInvariant'
PROOF
<1>1. /\ relay.pc = "next" /\ told' = told
      /\ UNCHANGED <<limitUntil, accepts, failedCommits, lostAnswers, sentrySpool, sentryClock, sentryStop, sentryCrashes>>
      /\ UNCHANGED sdkVars
  BY DEF RelayNext, RelayStep, limitVars
<1>2. /\ relay \in Relays /\ relay.now \in Nat /\ relay.at \in Nat /\ Len(relay.batch) \in Nat
      /\ relay.at <= Len(relay.batch) /\ relay.batch \in Seq(Frames)
  BY <1>1, LenProperties DEF SentryInvariant, RelayKept, Relays, Draining
<1>3. UNCHANGED <<forwarded, unspooled, sdk>>
  BY <1>1 DEF sdkVars
<1>4. SdkKept'
  BY <1>1, SdkStays
<1>5. ASSUME relay'.now = relay.now PROVE LimitsKept'
  BY <1>1, <1>2, <1>5, LimitsStay
<1>6. CASE relay.at = Len(relay.batch)
  <2>1. relay' = [relay EXCEPT !.pc = "commit"] /\ settled' = settled
    BY <1>6 DEF RelayNext
  <2>2. /\ relay' \in Relays /\ relay'.pc = "commit" /\ relay'.batch = relay.batch /\ relay'.at = relay.at
        /\ relay'.delivered = relay.delivered /\ relay'.now = relay.now
    BY <1>2, <2>1 DEF Relays
  <2>3. RelayKept' /\ SpoolKept' /\ AnswersCounted'
    BY <1>1, <1>3, <2>1, <2>2, SameFrame
  <2> QED BY <1>4, <1>5, <2>2, <2>3 DEF SentryInvariant
<1>7. CASE relay.at # Len(relay.batch)
  <2>1. relay.at < Len(relay.batch) /\ relay.at + 1 \in 1 .. Len(relay.batch)
    BY <1>2, <1>7
  <2>2. PICK frame, out : /\ frame = relay.batch[relay.at + 1] /\ out = {t \in frame.items : ~IsLimited(t, relay.now)}
                          /\ IF out = {}
                             THEN /\ settled' = [settled EXCEPT ![frame.id] = "limited"]
                                  /\ relay' = [relay EXCEPT !.at = @ + 1, !.delivered = relay.at + 1]
                             ELSE relay' = [relay EXCEPT !.pc = "post", !.out = out, !.attempt = 1] /\ UNCHANGED settled
    BY <1>7 DEF RelayNext
  <2>6. frame \in Frames
    BY <1>2, <2>1, <2>2, ElementOfSeq
  <2>3. frame \in Frames /\ out \subseteq Types
    BY <2>2, <2>6 DEF Frames
  <2>4. CASE out = {}
    <3>1. /\ settled' = [settled EXCEPT ![frame.id] = "limited"]
          /\ relay' = [relay EXCEPT !.at = relay.at + 1, !.delivered = relay.at + 1]
      BY <2>2, <2>4
    <3>2. relay.at + 1 \in Nat
      BY <1>2
    <3>3. /\ relay' \in Relays /\ relay'.pc = "next" /\ relay'.batch = relay.batch /\ relay'.at = relay.at + 1
          /\ relay'.delivered = relay.at + 1 /\ relay'.now = relay.now
      BY <1>1, <1>2, <3>1, <3>2 DEF Relays
    <3>4. RelayKept' /\ SpoolKept' /\ AnswersCounted'
      BY <1>1, <1>3, <2>1, <2>2, <3>1, <3>3, FrameSettles
    <3> QED BY <1>4, <1>5, <3>3, <3>4 DEF SentryInvariant
  <2>5. CASE out # {}
    <3>1. relay' = [relay EXCEPT !.pc = "post", !.out = out, !.attempt = 1] /\ settled' = settled
      BY <2>2, <2>5
    <3>2. 1 \in 0 .. max_attempts
      BY SentryAssumption
    <3>3. /\ relay' \in Relays /\ relay'.pc = "post" /\ relay'.batch = relay.batch /\ relay'.at = relay.at
          /\ relay'.delivered = relay.delivered /\ relay'.now = relay.now
      BY <1>2, <2>3, <3>1, <3>2 DEF Relays
    <3>4. RelayKept' /\ SpoolKept' /\ AnswersCounted'
      BY <1>1, <1>3, <2>1, <3>1, <3>3, SameFrame
    <3> QED BY <1>4, <1>5, <3>3, <3>4 DEF SentryInvariant
  <2> QED BY <2>4, <2>5
<1> QED BY <1>6, <1>7

(* A limit taken over from an answer is in force, and so are the earlier.  *)
LEMMA AbsorbKeeps ==
    ASSUME SentryInvariant, NEW categories \in {{}, {"transaction"}}, NEW seconds \in LimitSeconds,
           Absorb(categories, seconds, relay.now),
           relay'.now = relay.now, sentryClock' = sentryClock, sentryStop' = sentryStop
    PROVE  LimitsKept'
PROOF
<1>1. /\ relay.now \in Nat /\ seconds \in Nat \ {0} /\ limitUntil \in [Types \cup {ALL} -> Nat]
      /\ told \subseteq Types /\ sentryClock \in Nat /\ sentryStop \in BOOLEAN
  BY SentryAssumption DEF SentryInvariant, RelayKept, Relays, LimitsKept
<1>2. PICK until : until = relay.now + seconds
  OBVIOUS
<1>3. until \in Nat /\ until > relay.now
  BY <1>1, <1>2
<1>4. ASSUME NEW a \in Nat PROVE Max({a, until}) \in Nat /\ Max({a, until}) >= a /\ Max({a, until}) >= until
  <2>1. \E x \in {a, until} : \A y \in {a, until} : x >= y
    BY <1>3, <1>4
  <2>2. Max({a, until}) \in {a, until} /\ \A y \in {a, until} : Max({a, until}) >= y
    BY <2>1 DEF Max
  <2> QED BY <1>3, <1>4, <2>2
<1>5. limitUntil' = [c \in Types \cup {ALL} |->
        IF c = ALL THEN IF categories = {} THEN until ELSE limitUntil[ALL]
        ELSE IF c \in categories THEN Max({limitUntil[c], until}) ELSE limitUntil[c]]
  BY <1>1, <1>2 DEF Absorb, Recorded
<1>6. told' = told \cup (IF categories = {} THEN Types ELSE categories)
  BY DEF Absorb
<1>7. told' \subseteq Types
  BY <1>1, <1>6 DEF Types
<1>8. \A c \in Types : c # ALL /\ c \in Types \cup {ALL} /\ limitUntil[c] \in Nat /\ limitUntil[ALL] \in Nat
  BY <1>1 DEF Types, ALL
<1>9. CASE categories = {}
  <2>1. limitUntil'[ALL] = until
    BY <1>5, <1>9
  <2>2. limitUntil' \in [Types \cup {ALL} -> Nat]
    BY <1>1, <1>3, <1>5, <1>9
  <2> QED BY <1>1, <1>3, <1>7, <2>1, <2>2 DEF LimitsKept, IsLimited
<1>10. CASE categories = {"transaction"}
  <2>1. /\ limitUntil'[ALL] = limitUntil[ALL]
        /\ \A c \in Types \ {"transaction"} : limitUntil'[c] = limitUntil[c]
        /\ limitUntil'["transaction"] = Max({limitUntil["transaction"], until})
    BY <1>5, <1>8, <1>10 DEF Types
  <2>2. "transaction" \in Types /\ limitUntil["transaction"] \in Nat
    BY <1>8 DEF Types
  <2>3. /\ limitUntil'["transaction"] \in Nat /\ limitUntil'["transaction"] >= limitUntil["transaction"]
        /\ limitUntil'["transaction"] >= until
    BY <1>4, <2>1, <2>2
  <2>4. limitUntil'["transaction"] > relay.now
    BY <1>1, <1>3, <2>3
  <2>5. limitUntil' \in [Types \cup {ALL} -> Nat]
    <3>1. DOMAIN limitUntil' = Types \cup {ALL}
      BY <1>5
    <3>2. \A c \in Types \cup {ALL} : limitUntil'[c] \in Nat
      BY <1>1, <1>8, <2>1, <2>3
    <3>3. limitUntil' = [c \in Types \cup {ALL} |-> limitUntil'[c]]
      BY <1>5
    <3> QED BY <3>2, <3>3
  <2>6. \A t \in told' : limitUntil'[ALL] > relay'.now \/ limitUntil'[t] > relay'.now
    <3>1. SUFFICES ASSUME NEW t \in told' PROVE limitUntil'[ALL] > relay.now \/ limitUntil'[t] > relay.now
      OBVIOUS
    <3>2. CASE t = "transaction"
      BY <2>4, <3>2
    <3>3. CASE t # "transaction"
      <4>1. t \in told /\ t \in Types
        BY <1>1, <1>6, <1>10, <3>3
      <4>2. limitUntil[ALL] > relay.now \/ limitUntil[t] > relay.now
        BY <4>1 DEF SentryInvariant, LimitsKept, IsLimited
      <4> QED BY <2>1, <3>3, <4>1, <4>2
    <3> QED BY <3>2, <3>3
  <2> QED BY <1>1, <1>7, <2>5, <2>6 DEF LimitsKept, IsLimited
<1> QED BY <1>9, <1>10

(* Every answer to a post keeps it.                                        *)
LEMMA RelayPostKeeps == ASSUME SentryInvariant, RelayPost PROVE SentryInvariant'
PROOF
<1>1. /\ relay.pc = "post"
      /\ UNCHANGED <<failedCommits, sentrySpool, sentryClock, sentryStop, sentryCrashes>> /\ UNCHANGED sdkVars
  BY DEF RelayPost, RelayStep
<1>11. PICK answer \in {"ok", "limited", "refused", "error", "unreachable", "unanswered"},
           categories \in {{}, {"transaction"}}, seconds \in LimitSeconds, header \in BOOLEAN :
        LET frame == relay.batch[relay.at + 1]
            again == RelayAgain(answer)
        IN /\ answer # "ok" \/ header => SentryFaults < MaxSentryFaults
           /\ header => answer \notin {"unreachable", "unanswered"}
           /\ ~header => categories = {} /\ seconds = Max(LimitSeconds)
           /\ upstreamFaults' = IF answer # "ok" \/ header THEN upstreamFaults + 1 ELSE upstreamFaults
           /\ IF header \/ answer = "limited" THEN Absorb(categories, seconds, relay.now)
              ELSE UNCHANGED <<limitVars, told>>
           /\ accepts' = IF answer \in {"ok", "unanswered"} THEN [accepts EXCEPT ![frame.id] = @ + 1] ELSE accepts
           /\ lostAnswers' = IF answer = "unanswered" THEN lostAnswers + 1 ELSE lostAnswers
           /\ settled' = IF again \/ ~Consumes(answer) THEN settled
                         ELSE [settled EXCEPT ![frame.id] = answer]
           /\ relay' = IF again THEN [relay EXCEPT !.attempt = @ + 1]
                       ELSE IF Consumes(answer)
                       THEN [relay EXCEPT !.pc = "next", !.at = @ + 1, !.delivered = relay.at + 1, !.out = {}, !.attempt = 0]
                       ELSE [relay EXCEPT !.pc = "commit", !.out = {}, !.attempt = 0]
  BY DEF RelayPost
<1>2. /\ IF header \/ answer = "limited" THEN Absorb(categories, seconds, relay.now)
         ELSE UNCHANGED <<limitVars, told>>
      /\ accepts' = IF answer \in {"ok", "unanswered"} THEN [accepts EXCEPT ![relay.batch[relay.at + 1].id] = @ + 1] ELSE accepts
      /\ lostAnswers' = IF answer = "unanswered" THEN lostAnswers + 1 ELSE lostAnswers
      /\ settled' = IF RelayAgain(answer) \/ ~Consumes(answer) THEN settled
                    ELSE [settled EXCEPT ![relay.batch[relay.at + 1].id] = answer]
      /\ relay' = IF RelayAgain(answer) THEN [relay EXCEPT !.attempt = @ + 1]
                  ELSE IF Consumes(answer)
                  THEN [relay EXCEPT !.pc = "next", !.at = @ + 1, !.delivered = relay.at + 1, !.out = {}, !.attempt = 0]
                  ELSE [relay EXCEPT !.pc = "commit", !.out = {}, !.attempt = 0]
  BY <1>11
<1>10. PICK frame : frame = relay.batch[relay.at + 1]
  OBVIOUS
<1>3. /\ relay \in Relays /\ relay.now \in Nat /\ relay.at \in Nat /\ Len(relay.batch) \in Nat
      /\ relay.at < Len(relay.batch) /\ 0 \in 0 .. max_attempts /\ relay.attempt \in 0 .. max_attempts
  BY <1>1, LenProperties, SentryAssumption DEF SentryInvariant, RelayKept, Relays
<1>4. UNCHANGED <<forwarded, unspooled, sdk>>
  BY <1>1 DEF sdkVars
<1>5. SdkKept'
  BY <1>1, SdkStays
<1>6. ASSUME relay'.now = relay.now PROVE LimitsKept'
  <2>1. CASE header \/ answer = "limited"
    BY <1>1, <1>2, <1>6, <2>1, AbsorbKeeps
  <2>2. CASE ~(header \/ answer = "limited")
    <3>1. limitUntil' = limitUntil /\ told' = told
      BY <1>2, <2>2 DEF limitVars
    <3> QED BY <1>1, <1>3, <1>6, <3>1, LimitsStay
  <2> QED BY <2>1, <2>2
<1>7. CASE RelayAgain(answer)
  <2>1. /\ relay' = [relay EXCEPT !.attempt = relay.attempt + 1] /\ settled' = settled
        /\ answer # "unanswered" => accepts' = accepts /\ lostAnswers' = lostAnswers
    BY <1>2, <1>7 DEF RelayAgain
  <2>2. relay.attempt + 1 \in 0 .. max_attempts
    BY <1>3, <1>7, SentryAssumption DEF RelayAgain
  <2>3. /\ relay' \in Relays /\ relay'.pc = "post" /\ relay'.batch = relay.batch /\ relay'.at = relay.at
        /\ relay'.delivered = relay.delivered /\ relay'.now = relay.now
    BY <1>1, <1>3, <2>1, <2>2 DEF Relays
  <2>4. RelayKept' /\ SpoolKept' /\ AnswersCounted'
    <3>1. CASE answer # "unanswered"
      BY <1>1, <1>3, <1>4, <2>1, <2>3, <3>1, SameFrame
    <3>2. CASE answer = "unanswered"
      <4>1. accepts' = [accepts EXCEPT ![frame.id] = @ + 1] /\ lostAnswers' = lostAnswers + 1
        BY <1>2, <1>10, <3>2
      <4> QED BY <1>1, <1>4, <1>10, <2>1, <2>3, <4>1, AnswerLost
    <3> QED BY <3>1, <3>2
  <2> QED BY <1>5, <1>6, <2>3, <2>4 DEF SentryInvariant
<1>8. CASE ~RelayAgain(answer) /\ Consumes(answer)
  <2>1. /\ settled' = [settled EXCEPT ![frame.id] = answer]
        /\ relay' = [relay EXCEPT !.pc = "next", !.at = relay.at + 1, !.delivered = relay.at + 1, !.out = {}, !.attempt = 0]
        /\ accepts' = accepts \/ accepts' = [accepts EXCEPT ![frame.id] = @ + 1]
        /\ lostAnswers' = lostAnswers
    BY <1>2, <1>8, <1>10 DEF Consumes
  <2>2. relay.at + 1 \in Nat /\ answer \in {"ok", "limited", "refused"}
    BY <1>3, <1>8 DEF Consumes
  <2>3. /\ relay' \in Relays /\ relay'.pc = "next" /\ relay'.batch = relay.batch /\ relay'.at = relay.at + 1
        /\ relay'.delivered = relay.at + 1 /\ relay'.now = relay.now
    BY <1>3, <2>1, <2>2 DEF Relays
  <2>4. RelayKept' /\ SpoolKept' /\ AnswersCounted'
    BY <1>1, <1>3, <1>4, <1>10, <2>1, <2>2, <2>3, FrameSettles
  <2> QED BY <1>5, <1>6, <2>3, <2>4 DEF SentryInvariant
<1>9. CASE ~RelayAgain(answer) /\ ~Consumes(answer)
  <2>1. /\ settled' = settled /\ (answer # "unanswered" => accepts' = accepts /\ lostAnswers' = lostAnswers)
        /\ relay' = [relay EXCEPT !.pc = "commit", !.out = {}, !.attempt = 0]
    BY <1>2, <1>9 DEF Consumes
  <2>2. /\ relay' \in Relays /\ relay'.pc = "commit" /\ relay'.batch = relay.batch /\ relay'.at = relay.at
        /\ relay'.delivered = relay.delivered /\ relay'.now = relay.now
    BY <1>3, <2>1 DEF Relays
  <2>3. RelayKept' /\ SpoolKept' /\ AnswersCounted'
    <3>1. CASE answer # "unanswered"
      BY <1>1, <1>3, <1>4, <2>1, <2>2, <3>1, SameFrame
    <3>2. CASE answer = "unanswered"
      <4>1. accepts' = [accepts EXCEPT ![frame.id] = @ + 1] /\ lostAnswers' = lostAnswers + 1
        BY <1>2, <1>10, <3>2
      <4> QED BY <1>1, <1>4, <1>10, <2>1, <2>2, <4>1, AnswerLost
    <3> QED BY <3>1, <3>2
  <2> QED BY <1>5, <1>6, <2>2, <2>3 DEF SentryInvariant
<1> QED BY <1>7, <1>8, <1>9

(* The commit of what was delivered, and one that fails, keep it.          *)
LEMMA RelayCommitKeeps == ASSUME SentryInvariant, RelayCommit PROVE SentryInvariant'
PROOF
<1>1. /\ relay.pc = "commit"
      /\ UNCHANGED <<limitUntil, settled, accepts, told, lostAnswers, sentryClock, sentryStop, sentryCrashes>> /\ UNCHANGED sdkVars
      /\ relay' = [relay EXCEPT !.pc = IF relay.delivered = 0 THEN "drained" ELSE "top", !.batch = <<>>]
  BY DEF RelayCommit, RelayStep, limitVars
<1>2. PICK works \in BOOLEAN :
        /\ failedCommits' = IF works THEN failedCommits ELSE failedCommits + 1
        /\ sentrySpool' = IF works THEN SubSeq(sentrySpool, relay.delivered + 1, Len(sentrySpool)) ELSE sentrySpool
  BY DEF RelayCommit, SpoolCommitted
<1>3. /\ relay \in Relays /\ relay.now \in Nat /\ relay.delivered \in Nat
      /\ relay.delivered <= relay.at
  BY DEF SentryInvariant, RelayKept, Relays
<1>4. /\ relay' \in Relays /\ relay'.pc \in {"drained", "top"} /\ relay'.now = relay.now
      /\ relay'.delivered = relay.delivered /\ relay'.at = relay.at
  <2>1. PICK pc \in {"drained", "top"} : relay' = [relay EXCEPT !.pc = pc, !.batch = <<>>]
    BY <1>1
  <2>2. <<>> \in Seq(Frames)
    OBVIOUS
  <2> QED BY <1>3, <2>1, <2>2 DEF Relays
<1>5. UNCHANGED <<forwarded, unspooled, sdk>>
  BY <1>1 DEF sdkVars
<1>6. SdkKept'
  BY <1>1, SdkStays
<1>7. LimitsKept'
  BY <1>1, <1>3, <1>4, LimitsStay
<1>8. RelayKept'
  BY <1>3, <1>4 DEF RelayKept, Draining
<1>9. Passed' = 0 /\ Passed = relay.delivered
  BY <1>1, <1>4 DEF Passed, Draining
<1>10. /\ failedCommits \in Nat /\ sentryCrashes \in Nat /\ lostAnswers \in Nat
       /\ failedCommits' \in Nat /\ sentryCrashes' \in Nat /\ lostAnswers' \in Nat
  BY <1>1, <1>2 DEF SentryInvariant, AnswersCounted
<1>11. CASE ~works
  <2>1. sentrySpool' = sentrySpool /\ Resends' = Resends + 1
    BY <1>1, <1>2, <1>10, <1>11 DEF Resends
  <2>2. SpoolKept' /\ AnswersCounted'
    BY <1>1, <1>5, <1>9, <1>10, <2>1, Rewound
  <2> QED BY <1>6, <1>7, <1>8, <2>2 DEF SentryInvariant
<1>12. CASE works
  <2>1. Resends' = Resends /\ failedCommits' = failedCommits
    BY <1>1, <1>2, <1>12 DEF Resends
  <2>2. /\ sentrySpool \in Seq(Frames) /\ DOMAIN sentrySpool = 1 .. Len(sentrySpool) /\ Len(sentrySpool) \in Nat
        /\ \A n \in DOMAIN sentrySpool : sentrySpool[n] \in Frames /\ sentrySpool[n].id \in SdkIds
    BY SpooledFrame DEF SentryInvariant, SpoolKept
  <2>3. PICK d \in Nat, l \in Nat : d = relay.delivered /\ l = Len(sentrySpool) /\ d <= l
    BY <1>3, <1>9, <2>2, PassedIn DEF SentryInvariant
  <2>4. /\ sentrySpool' \in Seq(Frames) /\ Len(sentrySpool') = l - d
        /\ \A n \in 1 .. l - d : sentrySpool'[n] = sentrySpool[n + d]
    <3>1. \A n \in d + 1 .. l : sentrySpool[n] \in Frames
      BY <2>2, <2>3
    <3>2. /\ SubSeq(sentrySpool, d + 1, l) \in Seq(Frames)
          /\ Len(SubSeq(sentrySpool, d + 1, l)) = IF d + 1 <= l THEN l - (d + 1) + 1 ELSE 0
          /\ \A n \in 1 .. l - (d + 1) + 1 : SubSeq(sentrySpool, d + 1, l)[n] = sentrySpool[(d + 1) + n - 1]
      <4>1. d + 1 \in Int /\ l \in Int
        OBVIOUS
      <4> QED BY <3>1, <4>1, SubSeqProperties
    <3>3. l - (d + 1) + 1 = l - d /\ \A n \in 1 .. l - d : (d + 1) + n - 1 = n + d
      BY <2>3
    <3>4. Len(SubSeq(sentrySpool, d + 1, l)) = l - d
      BY <2>3, <3>2
    <3>5. \A n \in 1 .. l - d : SubSeq(sentrySpool, d + 1, l)[n] = sentrySpool[n + d]
      BY <3>2, <3>3
    <3>6. sentrySpool' = SubSeq(sentrySpool, d + 1, l)
      BY <1>2, <1>12, <2>3
    <3> QED BY <3>2, <3>4, <3>5, <3>6
  <2>5. DOMAIN sentrySpool' = 1 .. l - d
    BY <2>4, LenProperties
  <2>6. \A n \in 1 .. l - d : n + d \in 1 .. l /\ n + d > d /\ n \in Nat \ {0}
    BY <2>3
  <2>7. SpoolKept'
    <3>1. l - d <= SentrySpoolCap
      BY <2>3, SentryAssumption DEF SentryInvariant, SpoolKept
    <3>2. \A n \in 1 .. l - d : sentrySpool'[n].items # {} /\ sdk'[sentrySpool'[n].id] = "answered"
      <4>1. \A n \in 1 .. l : sentrySpool[n].items # {} /\ sdk[sentrySpool[n].id] = "answered"
        BY <2>2, <2>3 DEF SentryInvariant, SpoolKept
      <4>2. sdk' = sdk
        BY <1>5
      <4> QED BY <2>4, <2>6, <4>1, <4>2
    <3>3. \A m, n \in 1 .. l - d : sentrySpool'[m].id = sentrySpool'[n].id => m = n
      <4>1. SUFFICES ASSUME NEW m \in 1 .. l - d, NEW n \in 1 .. l - d, sentrySpool'[m].id = sentrySpool'[n].id
                     PROVE  m = n
        OBVIOUS
      <4>2. m + d = n + d
        <5>1. \A a, b \in 1 .. l : sentrySpool[a].id = sentrySpool[b].id => a = b
          BY <2>2, <2>3 DEF SentryInvariant, SpoolKept
        <5>2. m + d \in 1 .. l /\ n + d \in 1 .. l /\ sentrySpool'[m] = sentrySpool[m + d] /\ sentrySpool'[n] = sentrySpool[n + d]
          BY <2>4, <2>6
        <5> QED BY <4>1, <5>1, <5>2
      <4> QED BY <2>3, <4>2
    <3> QED BY <2>4, <2>5, <3>1, <3>2, <3>3 DEF SpoolKept
  <2>8. \A n \in 1 .. l - d : accepts[sentrySpool'[n].id] <= Resends
    <3> HIDE DEF Passed, Resends
    <3>1. \A n \in 1 .. l : n > d => accepts[sentrySpool[n].id] <= Resends
      BY <1>9, <2>2, <2>3 DEF SentryInvariant, AnswersCounted
    <3> QED BY <2>4, <2>6, <3>1
  <2>9. ForwardedIsAccounted'
    <3>1. SUFFICES ASSUME HasSpool, NEW j \in forwarded
                   PROVE  \/ settled[j] # "no" \/ j \in unspooled
                          \/ \E n \in DOMAIN sentrySpool' : sentrySpool'[n].id = j
      BY <1>1, <1>5 DEF ForwardedIsAccounted, HasSpool
    <3>2. settled[j] # "no" \/ j \in unspooled \/ \E n \in DOMAIN sentrySpool : sentrySpool[n].id = j
      BY <3>1 DEF SentryInvariant, AnswersCounted, ForwardedIsAccounted
    <3>3. ASSUME NEW n \in 1 .. l, sentrySpool[n].id = j
          PROVE  settled[j] # "no" \/ \E m \in DOMAIN sentrySpool' : sentrySpool'[m].id = j
      <4>1. CASE n <= d
        <5> HIDE DEF Passed, Resends
        <5> QED BY <1>9, <2>2, <2>3, <3>3, <4>1 DEF SentryInvariant, AnswersCounted
      <4>2. CASE ~(n <= d)
        <5>1. n - d \in 1 .. l - d /\ (n - d) + d = n
          BY <2>3, <4>2
        <5> QED BY <2>4, <2>5, <3>3, <5>1
      <4> QED BY <4>1, <4>2
    <3> QED BY <2>2, <2>3, <3>2, <3>3
  <2>10. TakenOnce'
    BY <1>1, <2>1 DEF SentryInvariant, AnswersCounted, TakenOnce
  <2>11. \A n \in 1 .. l - d : ~(n <= 0)
    BY <2>6
  <2>12. AnswersCounted'
    <3> HIDE DEF Passed, Resends
    <3> QED BY <1>1, <1>5, <1>9, <2>1, <2>5, <2>8, <2>9, <2>10, <2>11 DEF SentryInvariant, AnswersCounted
  <2> QED BY <1>6, <1>7, <1>8, <2>7, <2>12 DEF SentryInvariant
<1> QED BY <1>11, <1>12

(* Every step keeps the invariant.                                         *)
LEMMA SentrySteps == ASSUME SentryInvariant, [SentryNext]_sentryVars PROVE SentryInvariant'
PROOF BY BadPostKeeps, PostKeeps, QueuesKeeps, PeekKeeps, NextKeeps, RelayPostKeeps, RelayCommitKeeps, DrainedKeeps,
         SentryRestartKeeps, WorldKeeps DEF SentryNext, RelayNow

(* What goes upstream is not of a category upstream has limited.           *)
LEMMA LimitedStays ==
    ASSUME SentryInvariant, [SentryNext]_sentryVars
    PROVE  [relay.pc = "next" /\ relay'.pc = "post" => relay'.out \cap told = {}]_sentryVars
PROOF
<1>1. SUFFICES ASSUME SentryNext, relay.pc = "next", relay'.pc = "post" PROVE relay'.out \cap told = {}
  OBVIOUS
<1>2. relay \in Relays /\ RelayStart.pc = "top"
  BY RelayStartType DEF SentryInvariant, RelayKept
<1>3. RelayNext
  <2>1. relay' # relay /\ relay' # RelayStart
    BY <1>1, <1>2
  <2> QED BY <1>1, <2>1 DEF SentryNext, RelayNow, BadPost, PostArrives, PostQueues, SentryShutdown, SentryRestart, SentryTick,
             RelayPeek, RelayPost, RelayCommit, RelayDrained, RelayStep, relayVars
<1>4. relay.at # Len(relay.batch)
  BY <1>1, <1>2, <1>3 DEF RelayNext, Relays
<1>5. PICK frame, out : /\ out = {t \in frame.items : ~IsLimited(t, relay.now)}
                        /\ IF out = {}
                           THEN relay' = [relay EXCEPT !.at = @ + 1, !.delivered = relay.at + 1]
                           ELSE relay' = [relay EXCEPT !.pc = "post", !.out = out, !.attempt = 1]
  BY <1>3, <1>4 DEF RelayNext
<1>6. relay'.out = out
  BY <1>1, <1>2, <1>5 DEF Relays
<1> QED BY <1>5, <1>6 DEF SentryInvariant, LimitsKept

(* The inductive invariant gives the invariants the runs check.            *)
LEMMA SentryImplies ==
    ASSUME SentryInvariant
    PROVE  SentryTypeOK /\ SentryExitsAccount /\ ForwardedIsAccounted /\ TakenOnce /\ AnsweredIsKept
PROOF
<1>1. /\ relay.pc \in {"top", "next", "post", "commit", "drained", "last", "ended"}
      /\ relay.delivered \in 0 .. relay.at /\ relay.attempt \in 0 .. max_attempts
  BY DEF SentryInvariant, RelayKept, Relays
<1>2. \A n \in DOMAIN sentrySpool : sentrySpool[n].items \subseteq Types /\ sentrySpool[n].items # {}
  BY SpooledFrame DEF SentryInvariant, SpoolKept
<1>3. SentryTypeOK
  BY <1>1, <1>2 DEF SentryInvariant, SdkKept, SpoolKept, AnswersCounted, SentryTypeOK
<1>4. AnsweredIsKept
  BY DEF SentryInvariant, SdkKept, AnsweredIsKept
<1> QED BY <1>3, <1>4 DEF SentryInvariant, SdkKept, AnswersCounted

(* SentryPromise for every set of envelopes, every policy, route and spool *)
(* and any length of a limit: a request has one exit, what was answered is *)
(* kept locally and, with a spool, accounted for upstream, an envelope is  *)
(* taken again only for a crash, a failed commit or a lost answer, and a   *)
(* category that upstream limited gets nothing more from the batch.        *)
THEOREM SentrySafe == SentrySpec => SentryPromise
PROOF
<1>1. SentryInit => SentryInvariant
  BY SentryInitially
<1>2. SentryInvariant /\ [SentryNext]_sentryVars => SentryInvariant'
  BY SentrySteps
<1>3. SentryInvariant => SentryTypeOK /\ SentryExitsAccount /\ ForwardedIsAccounted /\ TakenOnce /\ AnsweredIsKept
  BY SentryImplies
<1>4. SentryInvariant /\ [SentryNext]_sentryVars =>
         [relay.pc = "next" /\ relay'.pc = "post" => relay'.out \cap told = {}]_sentryVars
  BY LimitedStays
<1> QED BY <1>1, <1>2, <1>3, <1>4, PTL DEF SentrySpec, SentryPromise, LimitStopsBatch

-----------------------------------------------------------------------------
(* PeerSignals. The difficulty is one alarm for two detectors: a service   *)
(* and its templates fall silent in the same bucket, come back apart, and  *)
(* keys are forgotten and taken up again. The invariant ties an alarm that *)
(* stands to a key that is tracked, regular and flagged, and such a key is *)
(* never forgotten.                                                        *)

(* A key has been called silent and not been heard since.                  *)
CalledSilent(tracked, k) == k \in DOMAIN tracked /\ tracked[k].regular /\ tracked[k].flagged

(* What is tracked, of pairs that can be.                                  *)
TrackedKept ==
    /\ \A s \in DOMAIN services : services[s] \in Tracked
    /\ \A k \in DOMAIN templates : templates[k] \in Tracked
    /\ DOMAIN services \subseteq ServicesOf(Pairs) /\ DOMAIN templates \subseteq Pairs
    /\ bucket \subseteq Pairs

(* A reported pair is known, unless the set of pairs is full.              *)
SetsKept ==
    /\ IsFiniteSet(pairs) /\ Cardinality(pairs) <= MAX_SET
    /\ IsFiniteSet(bigrams) /\ Cardinality(bigrams) <= MAX_SET
    /\ reported \subseteq pairs \/ Cardinality(pairs) >= MAX_SET

(* The traces remembered.                                                  *)
TracesKept ==
    /\ trace_order \in Seq(Traces) /\ Len(trace_order) <= MAX_TRACES
    /\ DOMAIN traces = ToSet(trace_order)

(* An alarm stands for a key that is tracked, regular and flagged.         *)
AlarmsKept ==
    /\ alarms \in [Pairs \cup ServicesOf(Pairs) -> {0, 1}]
    /\ \A k \in DOMAIN alarms : alarms[k] = 1 => CalledSilent(services, k) \/ CalledSilent(templates, k)
    /\ OneAlarmPerSilence /\ SilenceIsNoticed

(* The inductive invariant of PeerSignals.                                 *)
SignalsInvariant == TrackedKept /\ SetsKept /\ TracesKept /\ AlarmsKept

(* A service is not a pair.                                                *)
LEMMA KeysApart == Pairs \cap ServicesOf(Pairs) = {}
PROOF
<1>1. SUFFICES ASSUME NEW k \in Pairs, NEW j \in Pairs, k = <<j[1]>> PROVE FALSE
  BY DEF ServicesOf, ServiceOfPair
<1>2. PICK a, b : k = <<a, b>>
  BY SignalsAssumption
<1>3. Len(<<a, b>>) = 2 /\ Len(<<j[1]>>) = 1
  OBVIOUS
<1> QED BY <1>1, <1>2, <1>3

(* Learning one element keeps a set within its bound.                      *)
LEMMA LearnKeeps ==
    ASSUME NEW S, IsFiniteSet(S), Cardinality(S) <= MAX_SET, NEW x
    PROVE  /\ IsFiniteSet(Learn(S, x)) /\ Cardinality(Learn(S, x)) <= MAX_SET /\ S \subseteq Learn(S, x)
           /\ x \in Learn(S, x) \/ Cardinality(Learn(S, x)) >= MAX_SET
PROOF
<1>1. Cardinality(S) \in Nat /\ MAX_SET \in Nat
  BY FS_CardinalityType, SignalsAssumption
<1>2. IsFiniteSet(S \cup {x}) /\ Cardinality(S \cup {x}) <= Cardinality(S) + 1 /\ Cardinality(S \cup {x}) \in Nat
  <2>1. IsFiniteSet(S \cup {x})
    BY FS_AddElement
  <2>2. CASE x \in S
    <3>1. S \cup {x} = S
      BY <2>2
    <3> QED BY <1>1, <2>1, <3>1
  <2>3. CASE x \notin S
    <3>1. Cardinality(S \cup {x}) = Cardinality(S) + 1
      BY <2>3, FS_AddElement
    <3> QED BY <1>1, <2>1, <3>1
  <2> QED BY <2>2, <2>3
<1>3. CASE Cardinality(S) < MAX_SET
  <2>1. Learn(S, x) = S \cup {x}
    BY <1>3 DEF Learn
  <2>2. Cardinality(S \cup {x}) <= MAX_SET
    BY <1>1, <1>2, <1>3
  <2> QED BY <1>2, <2>1, <2>2
<1>4. CASE ~(Cardinality(S) < MAX_SET)
  <2>1. Learn(S, x) = S
    BY <1>4 DEF Learn
  <2>2. Cardinality(S) >= MAX_SET
    BY <1>1, <1>4
  <2> QED BY <2>1, <2>2
<1> QED BY <1>3, <1>4

(* Remembering a trace keeps within the bound.                             *)
LEMMA RememberKeeps ==
    ASSUME TracesKept, NEW trace \in Traces, NEW template, Remember(trace, template)
    PROVE  TracesKept'
PROOF
<1>1. PICK order, kept :
        /\ order = (IF trace \in DOMAIN traces THEN trace_order ELSE Append(trace_order, trace))
        /\ kept = (IF Len(order) > MAX_TRACES THEN Tail(order) ELSE order)
        /\ trace_order' = kept
        /\ traces' = [x \in ToSet(kept) |-> IF x = trace THEN template ELSE traces[x]]
  BY DEF Remember
<1>2. trace_order \in Seq(Traces) /\ Len(trace_order) \in Nat /\ Len(trace_order) <= MAX_TRACES /\ MAX_TRACES \in Nat \ {0}
  BY LenProperties, SignalsAssumption DEF TracesKept
<1>3. order \in Seq(Traces) /\ Len(order) \in Nat /\ Len(order) <= MAX_TRACES + 1
  <2>1. CASE trace \in DOMAIN traces
    BY <1>1, <1>2, <2>1
  <2>2. CASE trace \notin DOMAIN traces
    <3>1. order = Append(trace_order, trace)
      BY <1>1, <2>2
    <3>2. order \in Seq(Traces) /\ Len(order) = Len(trace_order) + 1
      BY <1>2, <3>1, AppendProperties
    <3> QED BY <1>2, <3>2
  <2> QED BY <2>1, <2>2
<1>4. kept \in Seq(Traces) /\ Len(kept) <= MAX_TRACES
  <2>1. CASE Len(order) > MAX_TRACES
    <3>1. kept = Tail(order) /\ order # <<>>
      BY <1>1, <1>2, <1>3, <2>1
    <3>2. Tail(order) \in Seq(Traces) /\ Len(Tail(order)) = Len(order) - 1
      BY <1>3, <3>1, HeadTailProperties
    <3> QED BY <1>2, <1>3, <3>1, <3>2
  <2>2. CASE ~(Len(order) > MAX_TRACES)
    BY <1>1, <1>2, <1>3, <2>2
  <2> QED BY <2>1, <2>2
<1>5. DOMAIN traces' = ToSet(trace_order')
  BY <1>1
<1> QED BY <1>1, <1>4, <1>5 DEF TracesKept

(* The first state satisfies the invariant.                                *)
LEMMA SignalsInitially == ASSUME SignalsInit PROVE SignalsInvariant
PROOF
<1>1. services = Nothing /\ templates = Nothing /\ traces = Nothing /\ DOMAIN Nothing = {}
  BY DEF SignalsInit, Nothing
<1>2. TrackedKept
  BY <1>1 DEF SignalsInit, TrackedKept
<1>3. SetsKept
  BY FS_EmptySet, SignalsAssumption DEF SignalsInit, SetsKept
<1>4. TracesKept
  <2>1. ToSet(<<>>) = {}
    BY DEF ToSet
  <2>2. <<>> \in Seq(Traces) /\ Len(<<>>) = 0
    OBVIOUS
  <2> QED BY <1>1, <2>1, <2>2, SignalsAssumption DEF SignalsInit, TracesKept
<1>5. AlarmsKept
  BY <1>1 DEF SignalsInit, AlarmsKept, OneAlarmPerSilence, SilenceIsNoticed
<1> QED BY <1>2, <1>3, <1>4, <1>5 DEF SignalsInvariant

(* A record keeps the invariant.                                           *)
LEMMA ObserveKeeps ==
    ASSUME SignalsInvariant, NEW k \in Pairs, NEW trace \in Traces, NEW first_ever \in BOOLEAN,
           observe(k, trace, first_ever)
    PROVE  SignalsInvariant'
PROOF
<1> DEFINE previous == IF trace \in DOMAIN traces THEN {traces[trace]} \ {k[2]} ELSE {}
           order == {<<k[1], p, k[2]>> : p \in previous} \ bigrams
           speaks == ~first_ever /\ ~learning
           new == k \notin pairs
<1>1. /\ pairs' = IF new THEN Learn(pairs, k) ELSE pairs
      /\ bigrams' = IF order # {} THEN Learn(bigrams, CHOOSE b \in order : TRUE) ELSE bigrams
      /\ found' = (IF new /\ speaks THEN {<<"new_pair", k, TRUE>>} ELSE {})
                  \cup (IF speaks THEN {<<"flow", b, TRUE>> : b \in order} ELSE {})
      /\ reported' = IF new /\ speaks THEN reported \cup {k} ELSE reported
  BY DEF observe
<1> HIDE DEF order, speaks
<1>2. bucket' = bucket \cup {k} /\ Remember(trace, k[2]) /\ UNCHANGED <<services, templates, alarms>>
  BY DEF observe, trackVars
<1>3. TrackedKept'
  BY <1>2 DEF SignalsInvariant, TrackedKept
<1>4. SetsKept'
  <2>1. IsFiniteSet(pairs) /\ Cardinality(pairs) <= MAX_SET /\ IsFiniteSet(bigrams) /\ Cardinality(bigrams) <= MAX_SET
    BY DEF SignalsInvariant, SetsKept
  <2>2. IsFiniteSet(bigrams') /\ Cardinality(bigrams') <= MAX_SET
    BY <1>1, <2>1, LearnKeeps
  <2>3. /\ IsFiniteSet(pairs') /\ Cardinality(pairs') <= MAX_SET
        /\ reported' \subseteq pairs' \/ Cardinality(pairs') >= MAX_SET
    <3>1. CASE k \in pairs
      BY <1>1, <2>1, <3>1 DEF SignalsInvariant, SetsKept
    <3>2. CASE k \notin pairs
      <4>1. pairs' = Learn(pairs, k)
        BY <1>1, <3>2
      <4>2. /\ IsFiniteSet(Learn(pairs, k)) /\ Cardinality(Learn(pairs, k)) <= MAX_SET /\ pairs \subseteq Learn(pairs, k)
            /\ k \in Learn(pairs, k) \/ Cardinality(Learn(pairs, k)) >= MAX_SET
        BY <2>1, LearnKeeps
      <4>3. reported' \subseteq reported \cup {k}
        BY <1>1
      <4>4. CASE reported \subseteq pairs
        BY <4>1, <4>2, <4>3, <4>4
      <4>5. CASE Cardinality(pairs) >= MAX_SET
        <5>1. Learn(pairs, k) = pairs
          <6>1. ~(Cardinality(pairs) < MAX_SET)
            BY <2>1, <4>5, FS_CardinalityType, SignalsAssumption
          <6> QED BY <6>1 DEF Learn
        <5> QED BY <4>1, <4>2, <4>5, <5>1
      <4> QED BY <4>4, <4>5 DEF SignalsInvariant, SetsKept
    <3> QED BY <3>1, <3>2
  <2> QED BY <2>2, <2>3 DEF SetsKept
<1>5. TracesKept'
  BY <1>2, RememberKeeps DEF SignalsInvariant
<1>6. AlarmsKept'
  <2>1. \A f \in found' : f[1] # "silence"
    <3>1. found' \subseteq {<<"new_pair", k, TRUE>>} \cup {<<"flow", b, TRUE>> : b \in order}
      BY <1>1
    <3>2. ASSUME NEW f \in found' PROVE f[1] # "silence"
      <4>1. f = <<"new_pair", k, TRUE>> \/ \E b \in order : f = <<"flow", b, TRUE>>
        BY <3>1, <3>2
      <4>2. CASE f = <<"new_pair", k, TRUE>>
        BY <4>2
      <4>3. CASE \E b \in order : f = <<"flow", b, TRUE>>
        <5>1. PICK b \in order : f = <<"flow", b, TRUE>>
          BY <4>3
        <5> QED BY <5>1
      <4> QED BY <4>1, <4>2, <4>3
    <3> QED BY <3>2
  <2>2. OneAlarmPerSilence'
    BY <1>2, <2>1 DEF SignalsInvariant, AlarmsKept, OneAlarmPerSilence
  <2>3. SilenceIsNoticed'
    BY <1>2 DEF SignalsInvariant, AlarmsKept, SilenceIsNoticed
  <2> QED BY <1>2, <2>2, <2>3 DEF SignalsInvariant, AlarmsKept, CalledSilent
<1> QED BY <1>3, <1>4, <1>5, <1>6 DEF SignalsInvariant

(* The end of learning, and a stall, keep it.                              *)
LEMMA QuietKeeps ==
    ASSUME SignalsInvariant, Learned \/ Stall \/ UNCHANGED signalVars
    PROVE  SignalsInvariant'
PROOF
<1>1. CASE Learned
  <2>1. found' = {} /\ UNCHANGED <<services, templates, pairs, bigrams, traces, trace_order, bucket, reported, alarms>>
    BY <1>1 DEF Learned, trackVars, setVars
  <2>2. TrackedKept' /\ SetsKept' /\ TracesKept'
    BY <2>1 DEF SignalsInvariant, TrackedKept, SetsKept, TracesKept
  <2>3. AlarmsKept'
    BY <2>1 DEF SignalsInvariant, AlarmsKept, CalledSilent, OneAlarmPerSilence, SilenceIsNoticed
  <2> QED BY <2>2, <2>3 DEF SignalsInvariant
<1>2. CASE Stall
  <2>1. /\ services' = Nothing /\ templates' = Nothing /\ bucket' = {} /\ bigrams' = {} /\ traces' = Nothing /\ trace_order' = <<>>
        /\ found' = {} /\ pairs' = pairs /\ reported' = reported /\ alarms' = [k \in DOMAIN alarms |-> 0] /\ DOMAIN Nothing = {}
    BY <1>2 DEF Stall, KeptPairs, Nothing
  <2>2. TrackedKept'
    BY <2>1 DEF TrackedKept
  <2>3. SetsKept'
    BY <2>1, FS_EmptySet, SignalsAssumption DEF SignalsInvariant, SetsKept
  <2>4. TracesKept'
    <3>1. ToSet(<<>>) = {}
      BY DEF ToSet
    <3>2. <<>> \in Seq(Traces) /\ Len(<<>>) = 0
      OBVIOUS
    <3> QED BY <2>1, <3>1, <3>2, SignalsAssumption DEF TracesKept
  <2>5. alarms' \in [Pairs \cup ServicesOf(Pairs) -> {0, 1}] /\ \A k \in DOMAIN alarms' : alarms'[k] = 0
    BY <2>1 DEF SignalsInvariant, AlarmsKept
  <2>6. AlarmsKept'
    BY <2>1, <2>5 DEF AlarmsKept, OneAlarmPerSilence, SilenceIsNoticed
  <2> QED BY <2>2, <2>3, <2>4, <2>6 DEF SignalsInvariant
<1>3. CASE UNCHANGED signalVars
  <2>1. UNCHANGED <<services, templates, pairs, bigrams, traces, trace_order, bucket, reported, alarms, found>>
    BY <1>3 DEF signalVars, trackVars, setVars
  <2>2. TrackedKept' /\ SetsKept' /\ TracesKept'
    BY <2>1 DEF SignalsInvariant, TrackedKept, SetsKept, TracesKept
  <2>3. AlarmsKept'
    BY <2>1 DEF SignalsInvariant, AlarmsKept, CalledSilent, OneAlarmPerSilence, SilenceIsNoticed
  <2> QED BY <2>2, <2>3 DEF SignalsInvariant
<1> QED BY <1>1, <1>2, <1>3

(* What a bucket's end makes of a set of tracked keys.                     *)
LEMMA ClosedMeans ==
    ASSUME NEW tracked, NEW add, NEW present, NEW regular, NEW mute,
           \A k \in DOMAIN tracked : tracked[k] \in Tracked,
           add \subseteq present, present \subseteq DOMAIN tracked \cup add,
           NEW C, C = Closed(tracked, add, present, regular, mute)
    PROVE  /\ DOMAIN C \subseteq DOMAIN tracked \cup add
           /\ \A k \in DOMAIN C : C[k] \in Tracked
           /\ \A k \in DOMAIN C : k \in present => C[k].quiet = 0
           /\ \A k \in DOMAIN C \ present :
                 /\ k \in DOMAIN tracked /\ C[k].regular = tracked[k].regular
                 /\ C[k].quiet = IF tracked[k].quiet < FORGET_AFTER_QUIET THEN tracked[k].quiet + 1 ELSE tracked[k].quiet
                 /\ C[k].flagged = (tracked[k].flagged \/ (Silent(tracked[k]) /\ k \notin mute))
           /\ \A k \in DOMAIN tracked \ present : tracked[k].regular => k \in DOMAIN C
PROOF
<1>1. PICK dom : dom = {k \in DOMAIN tracked \cup add : k \in present \/ k \in add \/ ~Forgotten(tracked[k])}
  OBVIOUS
<1>2. C = [k \in dom |->
            IF k \in present THEN Heard(k \in regular)
            ELSE [tracked[k] EXCEPT !.quiet = IF @ < FORGET_AFTER_QUIET THEN @ + 1 ELSE @,
                                    !.flagged = @ \/ (Silent(tracked[k]) /\ k \notin mute)]]
  BY <1>1 DEF Closed
<1>3. DOMAIN C = dom /\ dom \subseteq DOMAIN tracked \cup add
  BY <1>1, <1>2
<1>4. ASSUME NEW k \in dom, k \in present PROVE C[k] \in Tracked /\ C[k].quiet = 0
  <2>1. C[k] = Heard(k \in regular)
    BY <1>2, <1>4
  <2> QED BY <2>1 DEF Heard, Tracked
<1>5. ASSUME NEW k \in dom, k \notin present
      PROVE  /\ k \in DOMAIN tracked /\ C[k].regular = tracked[k].regular /\ C[k] \in Tracked
             /\ C[k].quiet = IF tracked[k].quiet < FORGET_AFTER_QUIET THEN tracked[k].quiet + 1 ELSE tracked[k].quiet
             /\ C[k].flagged = (tracked[k].flagged \/ (Silent(tracked[k]) /\ k \notin mute))
  <2>1. k \in DOMAIN tracked
    BY <1>1, <1>5
  <2>2. PICK t \in Tracked : t = tracked[k]
    BY <2>1
  <2>3. PICK q, f : /\ q = (IF t.quiet < FORGET_AFTER_QUIET THEN t.quiet + 1 ELSE t.quiet)
                    /\ f = (t.flagged \/ (Silent(t) /\ k \notin mute))
    OBVIOUS
  <2>4. C[k] = [t EXCEPT !.quiet = q, !.flagged = f]
    BY <1>2, <1>5, <2>2, <2>3
  <2>5. q \in Nat /\ t.quiet \in Nat
    BY <2>3 DEF Tracked
  <2>6. f \in BOOLEAN
    BY <2>3
  <2>7. C[k] \in Tracked /\ C[k].quiet = q /\ C[k].flagged = f /\ C[k].regular = t.regular
    BY <2>4, <2>5, <2>6 DEF Tracked
  <2> QED BY <2>1, <2>2, <2>3, <2>7
<1>6. ASSUME NEW k \in DOMAIN tracked, k \notin present, tracked[k].regular PROVE k \in dom
  BY <1>1, <1>6 DEF Forgotten
<1> QED BY <1>3, <1>4, <1>5, <1>6

(* A key taken up is one of the bucket.                                    *)
LEMMA RoomMeans ==
    ASSUME NEW tracked, NEW present, NEW add \in Room(tracked, present)
    PROVE  add \subseteq present
PROOF BY DEF Room

(* The end of a bucket keeps the invariant.                                *)
LEMMA CloseKeeps == ASSUME SignalsInvariant, CloseBucket PROVE SignalsInvariant'
PROOF
<1> DEFINE heard == ServicesOf(bucket)
<1>1. PICK addS \in Room(services, heard), addT \in Room(templates, bucket),
           regS \in SUBSET heard, regT \in SUBSET bucket, spikes \in SUBSET bucket :
             LET presentS == heard \cap (DOMAIN services \cup addS)
                 presentT == bucket \cap (DOMAIN templates \cup addT)
                 after == Closed(services, addS, presentS, regS, {})
                 mute == {k \in DOMAIN templates : ServiceOfPair(k) \in Muted(after)}
                 quietS == SilencesOf(services, presentS, {})
                 quietT == SilencesOf(templates, presentT, mute)
             IN  /\ services' = after
                 /\ templates' = Closed(templates, addT, presentT, regT, mute)
                 /\ found' = {<<"silence", k, FALSE>> : k \in quietS \cup quietT}
                             \cup {<<"spike", k, TRUE>> : k \in spikes}
                 /\ alarms' = [k \in DOMAIN alarms |->
                                 IF k \in presentS \cup presentT THEN 0
                                 ELSE IF k \in quietS \cup quietT THEN alarms[k] + 1 ELSE alarms[k]]
  BY DEF CloseBucket
<1>2. bucket' = {} /\ UNCHANGED <<pairs, bigrams, traces, trace_order, reported>>
  BY DEF CloseBucket, setVars
<1>3. PICK presentS, presentT, mute, quietS, quietT :
        /\ presentS = heard \cap (DOMAIN services \cup addS)
        /\ presentT = bucket \cap (DOMAIN templates \cup addT)
        /\ mute = {k \in DOMAIN templates : ServiceOfPair(k) \in Muted(services')}
        /\ quietS = SilencesOf(services, presentS, {})
        /\ quietT = SilencesOf(templates, presentT, mute)
  OBVIOUS
<1>4. /\ services' = Closed(services, addS, presentS, regS, {})
      /\ templates' = Closed(templates, addT, presentT, regT, mute)
      /\ found' = {<<"silence", k, FALSE>> : k \in quietS \cup quietT} \cup {<<"spike", k, TRUE>> : k \in spikes}
      /\ alarms' = [k \in DOMAIN alarms |->
                      IF k \in presentS \cup presentT THEN 0
                      ELSE IF k \in quietS \cup quietT THEN alarms[k] + 1 ELSE alarms[k]]
  BY <1>1, <1>3
<1>5. /\ \A s \in DOMAIN services : services[s] \in Tracked
      /\ \A k \in DOMAIN templates : templates[k] \in Tracked
      /\ DOMAIN services \subseteq ServicesOf(Pairs) /\ DOMAIN templates \subseteq Pairs
      /\ bucket \subseteq Pairs /\ heard \subseteq ServicesOf(Pairs)
  BY DEF SignalsInvariant, TrackedKept, ServicesOf
<1>6. addS \subseteq heard /\ addT \subseteq bucket
  BY RoomMeans
<1>7. /\ addS \subseteq presentS /\ presentS \subseteq DOMAIN services \cup addS /\ presentS \subseteq ServicesOf(Pairs)
      /\ addT \subseteq presentT /\ presentT \subseteq DOMAIN templates \cup addT /\ presentT \subseteq Pairs
  BY <1>3, <1>5, <1>6
<1>8. /\ quietS \subseteq DOMAIN services \ presentS /\ \A s \in quietS : Silent(services[s])
      /\ quietT \subseteq DOMAIN templates \ presentT /\ \A k \in quietT : Silent(templates[k]) /\ k \notin mute
      /\ \A s \in DOMAIN services \ presentS : Silent(services[s]) => s \in quietS
  BY <1>3 DEF SilencesOf
<1> HIDE DEF heard
<1>9. /\ DOMAIN services' \subseteq DOMAIN services \cup addS
      /\ \A k \in DOMAIN services' : services'[k] \in Tracked
      /\ \A k \in DOMAIN services' : k \in presentS => services'[k].quiet = 0
      /\ \A k \in DOMAIN services' \ presentS :
            /\ k \in DOMAIN services /\ services'[k].regular = services[k].regular
            /\ services'[k].quiet = IF services[k].quiet < FORGET_AFTER_QUIET THEN services[k].quiet + 1 ELSE services[k].quiet
            /\ services'[k].flagged = (services[k].flagged \/ (Silent(services[k]) /\ k \notin {}))
      /\ \A k \in DOMAIN services \ presentS : services[k].regular => k \in DOMAIN services'
  BY <1>4, <1>5, <1>7, ClosedMeans
<1>10. /\ DOMAIN templates' \subseteq DOMAIN templates \cup addT
       /\ \A k \in DOMAIN templates' : templates'[k] \in Tracked
       /\ \A k \in DOMAIN templates' : k \in presentT => templates'[k].quiet = 0
       /\ \A k \in DOMAIN templates' \ presentT :
             /\ k \in DOMAIN templates /\ templates'[k].regular = templates[k].regular
             /\ templates'[k].quiet = IF templates[k].quiet < FORGET_AFTER_QUIET THEN templates[k].quiet + 1 ELSE templates[k].quiet
             /\ templates'[k].flagged = (templates[k].flagged \/ (Silent(templates[k]) /\ k \notin mute))
       /\ \A k \in DOMAIN templates \ presentT : templates[k].regular => k \in DOMAIN templates'
  BY <1>4, <1>5, <1>7, ClosedMeans
<1>11. TrackedKept'
  BY <1>2, <1>5, <1>6, <1>7, <1>9, <1>10 DEF TrackedKept
<1>12. SetsKept' /\ TracesKept'
  BY <1>2 DEF SignalsInvariant, SetsKept, TracesKept
<1>13. SilenceIsNoticed'
  <2>1. ASSUME NEW s \in DOMAIN services', services'[s].regular, services'[s].quiet >= SILENCE_BUCKETS
        PROVE  services'[s].flagged
    <3>1. s \notin presentS
      BY <1>9, <2>1, SignalsAssumption
    <3>2. /\ services[s] \in Tracked /\ services[s].regular /\ services[s].quiet \in Nat
          /\ services'[s].flagged = (services[s].flagged \/ Silent(services[s]))
          /\ services'[s].quiet <= services[s].quiet + 1
      BY <1>5, <1>9, <2>1, <3>1 DEF Tracked
    <3>3. services'[s].quiet \in Nat
      BY <1>9, <2>1 DEF Tracked
    <3>4. services[s].quiet + 1 >= SILENCE_BUCKETS
      BY <2>1, <3>2, <3>3, SignalsAssumption
    <3> QED BY <3>2, <3>4 DEF Silent
  <2>2. ASSUME NEW k \in DOMAIN templates', templates'[k].regular, templates'[k].quiet >= SILENCE_BUCKETS
        PROVE  templates'[k].flagged \/ (ServiceOfPair(k) \in DOMAIN services' /\ services'[ServiceOfPair(k)].flagged)
    <3>1. k \notin presentT
      BY <1>10, <2>2, SignalsAssumption
    <3>2. /\ k \in DOMAIN templates /\ templates[k] \in Tracked /\ templates[k].regular /\ templates[k].quiet \in Nat
          /\ templates'[k].flagged = (templates[k].flagged \/ (Silent(templates[k]) /\ k \notin mute))
          /\ templates'[k].quiet <= templates[k].quiet + 1
      BY <1>5, <1>10, <2>2, <3>1 DEF Tracked
    <3>3. templates'[k].quiet \in Nat
      BY <1>10, <2>2 DEF Tracked
    <3>4. templates[k].quiet + 1 >= SILENCE_BUCKETS
      BY <2>2, <3>2, <3>3, SignalsAssumption
    <3>5. CASE k \in mute
      BY <1>3, <3>5 DEF Muted
    <3>6. CASE k \notin mute
      BY <3>2, <3>4, <3>6 DEF Silent
    <3> QED BY <3>5, <3>6
  <2> QED BY <2>1, <2>2 DEF SilenceIsNoticed, ServiceOfPair
<1>14. /\ DOMAIN alarms' = DOMAIN alarms /\ DOMAIN alarms = Pairs \cup ServicesOf(Pairs)
       /\ \A k \in DOMAIN alarms : alarms[k] \in {0, 1}
  BY <1>4 DEF SignalsInvariant, AlarmsKept
<1>15. ASSUME NEW k \in quietS \cup quietT PROVE ~CalledSilent(services, k) /\ ~CalledSilent(templates, k)
  BY <1>5, <1>8, <1>15, KeysApart DEF CalledSilent, Silent
<1>16. ASSUME NEW k \in quietS \cup quietT PROVE CalledSilent(services, k)' \/ CalledSilent(templates, k)'
  <2>1. CASE k \in quietS
    <3>1. k \in DOMAIN services \ presentS /\ Silent(services[k]) /\ services[k].regular
      BY <1>8, <2>1 DEF Silent
    <3>2. k \in DOMAIN services' \ presentS
      BY <1>9, <3>1
    <3> QED BY <1>9, <3>1, <3>2 DEF CalledSilent
  <2>2. CASE k \in quietT
    <3>1. k \in DOMAIN templates \ presentT /\ Silent(templates[k]) /\ templates[k].regular /\ k \notin mute
      BY <1>8, <2>2 DEF Silent
    <3>2. k \in DOMAIN templates' \ presentT
      BY <1>10, <3>1
    <3> QED BY <1>10, <3>1, <3>2 DEF CalledSilent
  <2> QED BY <1>16, <2>1, <2>2
<1>17. ASSUME NEW k, k \notin presentS \cup presentT, CalledSilent(services, k) \/ CalledSilent(templates, k)
       PROVE  CalledSilent(services, k)' \/ CalledSilent(templates, k)'
  <2>1. CASE CalledSilent(services, k)
    <3>1. k \in DOMAIN services' \ presentS /\ services[k].regular /\ services[k].flagged
      BY <1>9, <1>17, <2>1 DEF CalledSilent
    <3> QED BY <1>9, <3>1 DEF CalledSilent
  <2>2. CASE CalledSilent(templates, k)
    <3>1. k \in DOMAIN templates' \ presentT /\ templates[k].regular /\ templates[k].flagged
      BY <1>10, <1>17, <2>2 DEF CalledSilent
    <3> QED BY <1>10, <3>1 DEF CalledSilent
  <2> QED BY <1>17, <2>1, <2>2
<1>18. ASSUME NEW k \in DOMAIN alarms
       PROVE  alarms'[k] \in {0, 1} /\ (alarms'[k] = 1 => CalledSilent(services, k)' \/ CalledSilent(templates, k)')
  <2>0. alarms[k] \in {0, 1} /\ (alarms[k] = 1 => CalledSilent(services, k) \/ CalledSilent(templates, k))
    BY <1>14, <1>18 DEF SignalsInvariant, AlarmsKept
  <2>1. CASE k \in presentS \cup presentT
    BY <1>4, <1>18, <2>1
  <2>2. CASE k \notin presentS \cup presentT /\ k \in quietS \cup quietT
    <3>1. alarms[k] = 0
      BY <1>15, <2>0, <2>2
    <3>2. alarms'[k] = alarms[k] + 1
      BY <1>4, <1>18, <2>2
    <3> QED BY <1>16, <2>2, <3>1, <3>2
  <2>3. CASE k \notin presentS \cup presentT /\ k \notin quietS \cup quietT
    <3>1. alarms'[k] = alarms[k]
      BY <1>4, <1>18, <2>3
    <3> QED BY <1>17, <2>0, <2>3, <3>1
  <2> QED BY <2>1, <2>2, <2>3
<1>19. alarms' \in [Pairs \cup ServicesOf(Pairs) -> {0, 1}]
  <2>1. alarms' = [k \in Pairs \cup ServicesOf(Pairs) |-> alarms'[k]]
    BY <1>4, <1>14
  <2> QED BY <1>14, <1>18, <2>1
<1>20. ASSUME NEW f \in found', f[1] = "silence", f[2] \in DOMAIN templates'
       PROVE  <<"silence", ServiceOfPair(f[2]), FALSE>> \notin found'
  <2>1. f[2] \in quietS \cup quietT
    <3>1. (\E x \in quietS \cup quietT : f = <<"silence", x, FALSE>>) \/ \E x \in spikes : f = <<"spike", x, TRUE>>
      BY <1>4, <1>20
    <3>2. ASSUME NEW x, f = <<"spike", x, TRUE>> PROVE FALSE
      BY <1>20, <3>2
    <3>3. PICK x \in quietS \cup quietT : f = <<"silence", x, FALSE>>
      BY <3>1, <3>2
    <3> QED BY <3>3
  <2>2. PICK k : k = f[2] /\ k \in Pairs
    BY <1>5, <1>7, <1>10, <1>20
  <2>3. k \in quietT /\ k \in DOMAIN templates /\ k \notin mute
    BY <1>5, <1>8, <2>1, <2>2, KeysApart
  <2>4. SUFFICES ASSUME <<"silence", ServiceOfPair(k), FALSE>> \in found' PROVE FALSE
    BY <2>2
  <2>5. PICK s : s = ServiceOfPair(k) /\ s \in ServicesOf(Pairs)
    BY <2>2 DEF ServicesOf
  <2>6. s \in quietS \cup quietT
    BY <1>4, <2>4, <2>5
  <2>7. s \in quietS /\ s \in DOMAIN services \ presentS /\ Silent(services[s])
    BY <1>5, <1>8, <2>5, <2>6, KeysApart
  <2>8. s \in DOMAIN services' \ presentS
    BY <1>9, <2>7 DEF Silent
  <2>9. services'[s].flagged
    BY <1>9, <2>7, <2>8
  <2> QED BY <1>3, <2>3, <2>5, <2>8, <2>9 DEF Muted
<1>21. OneAlarmPerSilence'
  <2>1. \A k \in DOMAIN alarms' : alarms'[k] <= 1
    BY <1>14, <1>18
  <2> QED BY <1>20, <2>1 DEF OneAlarmPerSilence, ServiceOfPair
<1>22. AlarmsKept'
  <2>1. \A k \in DOMAIN alarms' : alarms'[k] = 1 => CalledSilent(services', k) \/ CalledSilent(templates', k)
    BY <1>14, <1>18 DEF CalledSilent
  <2> QED BY <1>13, <1>19, <1>21, <2>1 DEF AlarmsKept, CalledSilent
<1> QED BY <1>11, <1>12, <1>22 DEF SignalsInvariant

(* Every step keeps the invariant.                                         *)
LEMMA SignalsSteps == ASSUME SignalsInvariant, [SignalsNext]_signalVars PROVE SignalsInvariant'
PROOF BY ObserveKeeps, QuietKeeps, CloseKeeps DEF SignalsNext

(* A pair called new is not one that was, while there is room.             *)
LEMMA NewOnce ==
    ASSUME SignalsInvariant, [SignalsNext]_signalVars
    PROVE  [\A k \in Pairs : <<"new_pair", k, TRUE>> \in found' /\ k \in reported
                                 => Cardinality(pairs) >= MAX_SET]_signalVars
PROOF
<1>1. SUFFICES ASSUME SignalsNext, NEW k \in Pairs, <<"new_pair", k, TRUE>> \in found', k \in reported
               PROVE  Cardinality(pairs) >= MAX_SET
  OBVIOUS
<1>2. CASE \E j \in Pairs, trace \in Traces, first_ever \in BOOLEAN : observe(j, trace, first_ever)
  <2>1. PICK j \in Pairs, trace \in Traces, first_ever \in BOOLEAN : observe(j, trace, first_ever)
    BY <1>2
  <2> DEFINE previous == IF trace \in DOMAIN traces THEN {traces[trace]} \ {j[2]} ELSE {}
             order == {<<j[1], p, j[2]>> : p \in previous} \ bigrams
             speaks == ~first_ever /\ ~learning
             new == j \notin pairs
  <2>2. found' = (IF new /\ speaks THEN {<<"new_pair", j, TRUE>>} ELSE {})
                  \cup (IF speaks THEN {<<"flow", b, TRUE>> : b \in order} ELSE {})
    BY <2>1 DEF observe
  <2> HIDE DEF order, speaks
  <2>3. <<"new_pair", k, TRUE>> \in (IF new /\ speaks THEN {<<"new_pair", j, TRUE>>} ELSE {})
    BY <1>1, <2>2
  <2>4. new /\ k = j
    BY <2>3
  <2> QED BY <1>1, <2>4 DEF SignalsInvariant, SetsKept
<1>3. CASE Learned \/ Stall
  BY <1>1, <1>3 DEF Learned, Stall
<1>4. CASE CloseBucket
  <2>1. \E Q, S : found' = {<<"silence", x, FALSE>> : x \in Q} \cup {<<"spike", x, TRUE>> : x \in S}
    BY <1>4 DEF CloseBucket
  <2> QED BY <1>1, <2>1
<1> QED BY <1>1, <1>2, <1>3, <1>4 DEF SignalsNext

(* SignalsPromise for any set of pairs and traces and any limits of the    *)
(* detectors: a regular key that falls silent is called silent, once until *)
(* it is heard again, and a template not in the bucket that calls its      *)
(* service silent; a pair is new once until the set of pairs is full.      *)
THEOREM SignalsSafe == SignalsSpec => SignalsPromise
PROOF
<1>1. SignalsInit => SignalsInvariant
  BY SignalsInitially
<1>2. SignalsInvariant /\ [SignalsNext]_signalVars => SignalsInvariant'
  BY SignalsSteps
<1>3. SignalsInvariant => SignalsTypeOK /\ OneAlarmPerSilence /\ SilenceIsNoticed
  BY DEF SignalsInvariant, TrackedKept, SetsKept, TracesKept, AlarmsKept, SignalsTypeOK
<1>4. SignalsInvariant /\ [SignalsNext]_signalVars =>
         [\A k \in Pairs : <<"new_pair", k, TRUE>> \in found' /\ k \in reported
                                => Cardinality(pairs) >= MAX_SET]_signalVars
  BY NewOnce
<1> QED BY <1>1, <1>2, <1>3, <1>4, PTL DEF SignalsSpec, SignalsPromise, PairIsNewOnce

-----------------------------------------------------------------------------
(* PeerSync and its Spool. The difficulty is that the place of a frame is  *)
(* a cell of a file: files are cut by a crash, appended to after a tear    *)
(* and unlinked, the cursor may or may not have moved when a commit fails, *)
(* and a pass holds frames it peeked before. The invariant says which      *)
(* cells the reader will come to, that every accepted frame is one of them *)
(* or has its answer, and that what the pass holds is the front of them.   *)

(* Where reading starts in segment s for a cursor at (cs, co).             *)
Start(cs, co, s) == IF s = cs THEN co ELSE 0

(* Cell i of segment s is a frame the reader will come to: it is past the  *)
(* cursor, and no torn cell lies between.                                  *)
Unread(segs, cs, co, s, i) ==
    /\ s \in DOMAIN segs /\ i \in 1 .. Len(segs[s])
    /\ s >= cs /\ i > Start(cs, co, s)
    /\ \A k \in Start(cs, co, s) + 1 .. i : segs[s][k] # TornTail

(* The order in which the reader meets the cells.                          *)
Before(s, i, t, j) == s < t \/ (s = t /\ i < j)

(* The files: the segment appended to is the newest, and no more of a file *)
(* is synced than was written.                                             *)
SpoolFiles ==
    /\ segments = [s \in DOMAIN segments |-> segments[s]]
    /\ DOMAIN segments \subseteq Nat \ {0}
    /\ \A s \in DOMAIN segments : segments[s] \in Seq(Nat)
    /\ onDisk \in [DOMAIN segments -> Nat]
    /\ \A s \in DOMAIN segments : onDisk[s] <= Len(segments[s])
    /\ writer \in DOMAIN segments
    /\ \A s \in DOMAIN segments : s <= writer
    /\ write_segment \in Nat /\ writer <= write_segment

(* The cursor in memory is the one in the file, or at the start while      *)
(* there is no file.                                                       *)
SpoolCursor ==
    /\ cursor \in [segment : Nat \ {0}, offset : Nat]
    /\ cursor.segment <= writer
    /\ cursorFile \in [segment : Nat, offset : Nat]
    /\ cursorFile.segment = 0 => cursor = Cursor(1, 0) /\ 1 \in DOMAIN segments
    /\ cursorFile.segment # 0 => cursor = cursorFile
    /\ usable \in BOOLEAN
    /\ spoolFaults \in 0 .. MaxSpoolFaults

(* A frame was written once.                                               *)
OneCopy ==
    /\ accepted \subseteq 1 .. MaxOffered
    /\ \A s \in DOMAIN segments : \A i \in 1 .. Len(segments[s]) :
          segments[s][i] # TornTail => segments[s][i] \in accepted
    /\ \A s, t \in DOMAIN segments : \A i \in 1 .. Len(segments[s]), j \in 1 .. Len(segments[t]) :
          segments[s][i] = segments[t][j] /\ segments[s][i] # TornTail => s = t /\ i = j

(* What was accepted is answered, or is a frame the reader will come to.   *)
KeptOrSettled ==
    \A r \in accepted \ (gone \cup hidden) :
        \/ r \in FrameSettled
        \/ \E s \in DOMAIN segments : \E i \in 1 .. Len(segments[s]) :
              Unread(segments, cursor.segment, cursor.offset, s, i) /\ segments[s][i] = r

(* A frame that is still unread has been received only as often as         *)
(* something failed, and none more than once more.                         *)
SentWithFaults ==
    /\ got \in [1 .. MaxOffered -> Nat]
    /\ \A r \in 1 .. MaxOffered : got[r] <= 1 + spoolFaults
    /\ \A r \in 1 .. MaxOffered : got[r] > 0 => r \in accepted
    /\ rejected \subseteq accepted
    /\ \A s \in DOMAIN segments : \A i \in 1 .. Len(segments[s]) :
          Unread(segments, cursor.segment, cursor.offset, s, i) => got[segments[s][i]] <= spoolFaults

(* Until something fails, segments are whole, none but the one being       *)
(* filled is empty, none outgrows its size and none lies before the        *)
(* cursor.                                                                 *)
WithoutFaults ==
    spoolFaults = 0 =>
        /\ write_segment = writer
        /\ cursor.segment \in DOMAIN segments
        /\ cursor.offset <= Len(segments[cursor.segment])
        /\ \A s \in DOMAIN segments :
              /\ s >= cursor.segment
              /\ \A i \in 1 .. Len(segments[s]) : segments[s][i] # TornTail
              /\ 1 + 2 * Len(segments[s]) <= SegmentBytes \/ Len(segments[s]) <= 1
              /\ Len(segments[s]) > 0 \/ DOMAIN segments = {s}

(* The part of the invariant that is about the spool.                      *)
SpoolInvariant == SpoolFiles /\ SpoolCursor /\ OneCopy /\ KeptOrSettled /\ SentWithFaults /\ WithoutFaults

(* A pass that holds these frames holds the front of what is unread, in    *)
(* order.                                                                  *)
FrontOf(segs, at, held) ==
    /\ held \in Seq([end : [segment : Nat, offset : Nat], frame : Nat])
    /\ Len(held) <= FRAMES_PER_PASS
    /\ \A n \in 1 .. Len(held) :
          /\ Unread(segs, at.segment, at.offset, held[n].end.segment, held[n].end.offset)
          /\ held[n].frame = segs[held[n].end.segment][held[n].end.offset]
    /\ \A m, n \in 1 .. Len(held) :
          m < n => Before(held[m].end.segment, held[m].end.offset, held[n].end.segment, held[n].end.offset)
    /\ \A n \in 1 .. Len(held), s \in Nat, i \in Nat :
          Unread(segs, at.segment, at.offset, s, i)
             /\ Before(s, i, held[n].end.segment, held[n].end.offset)
          => \E m \in 1 .. Len(held) : m < n /\ held[m].end.segment = s /\ held[m].end.offset = i

(* So it is with what deliver holds; other steps of the sender hold        *)
(* nothing.                                                                *)
InHand ==
    /\ FrontOf(segments, cursor, todo)
    /\ sender \notin {"deliver", "lastDeliver"} => todo = <<>>

(* The items the channel may hold when n records have been made.           *)
ItemsTo(n) == [kind : {"live", "backfill"}, record : 1 .. n]

(* The records in the channel, and the one in the hand of the fetch.       *)
Chan == {rx[i].record : i \in DOMAIN rx}

Hand == {fetchHeld} \ {0}

(* The channel holds records, each once.                                   *)
InChannel ==
    /\ rx \in Seq(ItemsTo(recordsMade))
    /\ Len(rx) <= TAP_CAPACITY
    /\ \A i, j \in 1 .. Len(rx) : rx[i].record = rx[j].record => i = j
    /\ recordsMade \in 0 .. MaxOffered

(* Every record is in one place: dropped, in the spool, in the channel or  *)
(* in the hand of the fetch.                                               *)
Parted ==
    /\ 1 .. recordsMade = NeverSent \cup accepted \cup Chan \cup Hand
    /\ NeverSent \cap accepted = {}
    /\ Chan \cap (NeverSent \cup accepted) = {}
    /\ Hand \cap (NeverSent \cup accepted \cup Chan) = {}

(* The sender stops only when it was told to, and in its last round the    *)
(* channel has only what a fetch sends: the tap is closed by then.         *)
LastRound ==
    /\ syncStopping => syncStop
    /\ sender \in {"last", "lastDeliver"} =>
          syncStopping /\ \A i \in 1 .. Len(rx) : rx[i].kind = "backfill"
    /\ spoolFaults = 0 => \A i \in lostItems : i.kind = "backfill"

(* The settings, the sender and the fetch are where they can be.           *)
Settings ==
    /\ syncActive \in BOOLEAN /\ target \in BOOLEAN /\ syncStop \in BOOLEAN
    /\ setting \in {"no", "on", "off"}
    /\ epoch \in 0 .. MaxTargets + 1 /\ seen_epoch \in 0 .. epoch
    /\ setting # "no" => epoch <= MaxTargets
    /\ sender \in SenderSteps
    /\ syncStopping \in BOOLEAN /\ waiting \in BOOLEAN
    /\ backfill \in [state : FetchStates, cancel : BOOLEAN]
    /\ fetches \in 0 .. MaxFetches
    /\ fetchHeld # 0 => backfill.state = "running"

(* The inductive invariant of PeerSync.                                    *)
SyncInvariant == SpoolInvariant /\ InHand /\ InChannel /\ Parted /\ LastRound /\ Settings

-----------------------------------------------------------------------------

(* Max of a set of numbers that has a greatest element.                    *)
LEMMA MaxIs ==
    ASSUME NEW S, S \subseteq Nat, NEW m \in S, \A y \in S : y <= m
    PROVE  Max(S) = m
<1> DEFINE P(x) == \A y \in S : x >= y
<1>1. P(m) BY SMT
<1>2. \A x \in S : P(x) => x = m BY SMT
<1> QED BY <1>1, <1>2, Zenon DEF Max

(* The sizes are numbers.                                                  *)
LEMMA SpoolBounds == {SegmentBytes, MaxTotalBytes, MaxSpoolFaults} \subseteq Nat
BY SpoolAssumption

(* Whether a cell is unread depends on the cells up to it.                 *)
LEMMA UnreadSame ==
    ASSUME NEW A, NEW B, NEW cs \in Nat, NEW co \in Nat, NEW t \in Nat, NEW i \in Nat,
           t \in DOMAIN A, t \in DOMAIN B,
           i \in 1 .. Len(A[t]), i \in 1 .. Len(B[t]),
           \A k \in 1 .. i : A[t][k] = B[t][k]
    PROVE  Unread(A, cs, co, t, i) <=> Unread(B, cs, co, t, i)
<1>1. Start(cs, co, t) \in Nat BY DEF Start
<1>2. \A k \in Start(cs, co, t) + 1 .. i : k \in 1 .. i BY <1>1
<1> QED BY <1>1, <1>2 DEF Unread

(* What an append does to the cells.                                       *)
LEMMA AppendIs ==
    ASSUME NEW q \in Seq(Nat), NEW x \in Nat
    PROVE  /\ Append(q, x) \in Seq(Nat) /\ Len(q) \in Nat
           /\ Len(Append(q, x)) = Len(q) + 1
           /\ \A i \in 1 .. Len(q) : Append(q, x)[i] = q[i] /\ q[i] \in Nat
           /\ Append(q, x)[Len(q) + 1] = x
BY AppendProperties, LenProperties, ElementOfSeq

(* The bytes of a segment without torn cells.                              *)
LEMMA SizeIs ==
    ASSUME NEW q \in Seq(Nat), \A i \in 1 .. Len(q) : q[i] # TornTail
    PROVE  SegmentSize(q) = 1 + 2 * Len(q)
<1> DEFINE whole == {i \in DOMAIN q : q[i] # TornTail}
<1>1. DOMAIN q = 1 .. Len(q) /\ Len(q) \in Nat BY LenProperties
<1>2. whole = 1 .. Len(q) BY <1>1
<1>3. Cardinality(1 .. Len(q)) = Len(q)
  <2>1. 1 \in Int /\ Len(q) \in Int BY <1>1
  <2>2. Cardinality(1 .. Len(q)) = IF 1 > Len(q) THEN 0 ELSE Len(q) - 1 + 1 BY <2>1, FS_Interval
  <2> QED BY <2>2, <1>1
<1>4. SegmentSize(q) = 1 + Len(q) + Cardinality(whole)
      BY DEF SegmentSize, HEADER_BYTES
<1> HIDE DEF whole
<1> QED BY <1>1, <1>2, <1>3, <1>4

(* An append, to the segment in use or to a new one, whole or torn, keeps  *)
(* the spool: a new whole frame is unread unless it is counted as hidden,  *)
(* and no cell before it changes.                                          *)
LEMMA SpoolWrites ==
    ASSUME SpoolInvariant, NEW f \in 1 .. MaxOffered, f \notin accepted, NEW whole \in BOOLEAN,
           NEW s, NEW cells, NEW left,
           \/ /\ s = writer /\ cells = segments[writer] /\ left = onDisk /\ ~Rolls
           \/ /\ s = write_segment + 1 /\ cells = <<>> /\ Rolls
              /\ left = [t \in DOMAIN segments \cup {write_segment + 1} |->
                          IF t = write_segment + 1 THEN 0
                          ELSE IF t = writer THEN Len(segments[t]) ELSE onDisk[t]],
           Faulty(whole), Write(s, cells, f, whole, left),
           UNCHANGED <<cursor, cursorFile, gone, usable, got, rejected>>
    PROVE  SpoolInvariant'
<1> DEFINE x == IF whole THEN f ELSE TornTail
           cs == cursor.segment
           co == cursor.offset
<1>a. SpoolFiles /\ SpoolCursor /\ OneCopy /\ KeptOrSettled /\ SentWithFaults /\ WithoutFaults BY DEF SpoolInvariant
<1>b. f \in Nat /\ f # 0 /\ x \in Nat /\ (x # TornTail => whole /\ x = f)
      BY PeerSyncAssumption DEF TornTail
<1>c. writer \in Nat \ {0} /\ cs \in Nat \ {0} /\ co \in Nat /\ cs <= writer
      BY <1>a DEF SpoolFiles, SpoolCursor
<1>d. s \in Nat \ {0} /\ writer <= s /\ cells \in Seq(Nat)
  <2>1. write_segment \in Nat /\ writer <= write_segment /\ segments[writer] \in Seq(Nat)
        BY <1>a DEF SpoolFiles
  <2>2. <<>> \in Seq(Nat) BY EmptySeq
  <2>3. (s = writer /\ cells = segments[writer]) \/ (s = write_segment + 1 /\ cells = <<>>) OBVIOUS
  <2>4. s = writer \/ s = write_segment + 1 BY <2>3
  <2>5. s \in Nat \ {0} /\ writer <= s BY ONLY <1>c, <2>1, <2>4
  <2>6. cells \in Seq(Nat) BY <2>1, <2>2, <2>3, Zenon
  <2> QED BY <2>5, <2>6
<1>e. s \in DOMAIN segments => s = writer /\ cells = segments[s]
      BY <1>a DEF SpoolFiles
<1>f. s \notin DOMAIN segments => cells = <<>> /\ s = write_segment + 1 /\ Rolls
      BY <1>a DEF SpoolFiles
<1>g. /\ DOMAIN segments' = DOMAIN segments \cup {s}
      /\ segments'[s] = Append(cells, x)
      /\ \A t \in DOMAIN segments : t # s => segments'[t] = segments[t]
      BY DEF Write
<1>h. /\ Append(cells, x) \in Seq(Nat) /\ Len(cells) \in Nat
      /\ Len(Append(cells, x)) = Len(cells) + 1
      /\ \A i \in 1 .. Len(cells) : Append(cells, x)[i] = cells[i] /\ cells[i] \in Nat
      /\ Append(cells, x)[Len(cells) + 1] = x
      BY <1>b, <1>d, AppendIs
<1> HIDE DEF x
<1>i. writer' = s
  <2>1. DOMAIN segments' \subseteq Nat /\ \A y \in DOMAIN segments' : y <= s
        BY <1>a, <1>d, <1>g, <1>c DEF SpoolFiles
  <2> QED BY <2>1, <1>g, MaxIs DEF writer
<1>j. /\ accepted' = IF whole THEN accepted \cup {f} ELSE accepted
      /\ hidden' = IF whole /\ Unreadable(cells, s) THEN hidden \cup {f} ELSE hidden
      /\ onDisk' = left /\ write_segment' = s
      /\ cursor' = cursor /\ cursorFile' = cursorFile /\ gone' = gone /\ usable' = usable
      /\ got' = got /\ rejected' = rejected
      BY DEF Write
<1>k. \A t \in DOMAIN segments :
         /\ t \in Nat /\ t \in DOMAIN segments'
         /\ Len(segments[t]) \in Nat /\ Len(segments[t]) <= Len(segments'[t])
         /\ \A i \in 1 .. Len(segments[t]) : segments'[t][i] = segments[t][i]
  <2> SUFFICES ASSUME NEW t \in DOMAIN segments
               PROVE  /\ t \in Nat /\ t \in DOMAIN segments'
                      /\ Len(segments[t]) \in Nat /\ Len(segments[t]) <= Len(segments'[t])
                      /\ \A i \in 1 .. Len(segments[t]) : segments'[t][i] = segments[t][i]
      OBVIOUS
  <2>1. t \in Nat /\ segments[t] \in Seq(Nat) BY <1>a DEF SpoolFiles
  <2>2. Len(segments[t]) \in Nat BY <2>1, LenProperties
  <2>3. CASE t = s BY <2>1, <2>2, <2>3, <1>e, <1>g, <1>h
  <2>4. CASE t # s BY <2>1, <2>2, <2>4, <1>g
  <2> QED BY <2>3, <2>4
<1>l. \A t \in DOMAIN segments' : \A i \in 1 .. Len(segments'[t]) :
         \/ t \in DOMAIN segments /\ i \in 1 .. Len(segments[t]) /\ segments'[t][i] = segments[t][i]
         \/ t = s /\ i = Len(cells) + 1 /\ segments'[t][i] = x
  <2> SUFFICES ASSUME NEW t \in DOMAIN segments', NEW i \in 1 .. Len(segments'[t])
               PROVE  \/ t \in DOMAIN segments /\ i \in 1 .. Len(segments[t]) /\ segments'[t][i] = segments[t][i]
                      \/ t = s /\ i = Len(cells) + 1 /\ segments'[t][i] = x
      OBVIOUS
  <2>1. CASE t # s BY <2>1, <1>g
  <2>2. CASE t = s
    <3>1. i \in 1 .. Len(cells) + 1 BY <2>2, <1>g, <1>h
    <3>2. CASE i = Len(cells) + 1 BY <2>2, <3>2, <1>g, <1>h
    <3>3. CASE i \in 1 .. Len(cells)
      <4>1. cells # <<>> BY <3>3, <1>h, EmptySeq
      <4> QED BY <2>2, <3>3, <4>1, <1>e, <1>f, <1>g, <1>h
    <3> QED BY <3>1, <3>2, <3>3, <1>h
  <2> QED BY <2>1, <2>2
<1>m. \A t \in DOMAIN segments : \A i \in 1 .. Len(segments[t]) :
         Unread(segments, cs, co, t, i) <=> Unread(segments', cs, co, t, i)
  <2> SUFFICES ASSUME NEW t \in DOMAIN segments, NEW i \in 1 .. Len(segments[t])
               PROVE  Unread(segments, cs, co, t, i) <=> Unread(segments', cs, co, t, i)
      OBVIOUS
  <2>0. t \in Nat /\ t \in DOMAIN segments' /\ Len(segments[t]) \in Nat /\ Len(segments[t]) <= Len(segments'[t])
        BY <1>k
  <2>1. Len(segments'[t]) \in Nat BY <1>g, <1>h, <1>k, <2>0
  <2>2. i \in Nat /\ i \in 1 .. Len(segments'[t]) BY <2>0, <2>1
  <2>3. \A k \in 1 .. i : segments[t][k] = segments'[t][k] BY <1>k, <2>0, <2>2
  <2> QED BY <1>c, <2>0, <2>2, <2>3, UnreadSame
<1> HIDE DEF cs, co
<1>1. SpoolFiles'
  <2>1. DOMAIN segments' \subseteq Nat \ {0} BY <1>a, <1>d, <1>g DEF SpoolFiles
  <2>2. \A t \in DOMAIN segments' : segments'[t] \in Seq(Nat) BY <1>a, <1>g, <1>h DEF SpoolFiles
  <2>3. onDisk' \in [DOMAIN segments' -> Nat] /\ \A t \in DOMAIN segments' : onDisk'[t] <= Len(segments'[t])
    <3>1. CASE s = writer /\ left = onDisk
      <4>1. DOMAIN segments' = DOMAIN segments BY <3>1, <1>a, <1>g DEF SpoolFiles
      <4>2. onDisk \in [DOMAIN segments -> Nat] /\ \A t \in DOMAIN segments : onDisk[t] <= Len(segments[t])
            BY <1>a DEF SpoolFiles
      <4>3. \A t \in DOMAIN segments : Len(segments'[t]) \in Nat BY <1>g, <1>h, <1>k
      <4>4. \A t \in DOMAIN segments : onDisk[t] <= Len(segments'[t])
            BY <4>2, <4>3, <1>k
      <4> QED BY <3>1, <4>1, <4>2, <4>4, <1>j
    <3>2. CASE /\ s = write_segment + 1
               /\ left = [t \in DOMAIN segments \cup {write_segment + 1} |->
                          IF t = write_segment + 1 THEN 0
                          ELSE IF t = writer THEN Len(segments[t]) ELSE onDisk[t]]
      <4>1. \A t \in DOMAIN segments : left[t] \in Nat /\ left[t] <= Len(segments[t])
            BY <3>2, <1>a, <1>k DEF SpoolFiles
      <4>2. left[s] = 0 BY <3>2
      <4>3. DOMAIN left = DOMAIN segments' BY <3>2, <1>g
      <4>4. left = [t \in DOMAIN left |-> left[t]] BY <3>2
      <4>5. Len(segments'[s]) \in Nat BY <1>g, <1>h
      <4>6. \A t \in DOMAIN segments' : left[t] \in Nat /\ left[t] <= Len(segments'[t])
        <5> SUFFICES ASSUME NEW t \in DOMAIN segments' PROVE left[t] \in Nat /\ left[t] <= Len(segments'[t]) OBVIOUS
        <5>1. CASE t = s BY <5>1, <4>2, <4>5
        <5>2. CASE t # s BY <5>2, <4>1, <1>g
        <5> QED BY <5>1, <5>2
      <4> QED BY <4>3, <4>4, <4>6, <1>j
    <3> QED BY <3>1, <3>2
  <2>4. segments' = [t \in DOMAIN segments' |-> segments'[t]] BY DEF Write
  <2> QED BY <1>a, <1>d, <1>g, <1>i, <1>j, <2>1, <2>2, <2>3, <2>4 DEF SpoolFiles
<1>2. SpoolCursor'
  <2>1. spoolFaults' \in 0 .. MaxSpoolFaults BY <1>a, SpoolBounds DEF Faulty, SpoolCursor
  <2> QED BY <1>a, <1>c, <1>d, <1>g, <1>i, <1>j, <2>1 DEF SpoolCursor
<1>3. OneCopy'
  <2>1. accepted' \subseteq 1 .. MaxOffered BY <1>a, <1>b, <1>j DEF OneCopy
  <2>2. \A t \in DOMAIN segments' : \A i \in 1 .. Len(segments'[t]) :
           segments'[t][i] # TornTail => segments'[t][i] \in accepted'
        BY <1>a, <1>b, <1>j, <1>l DEF OneCopy
  <2>3. ASSUME NEW t \in DOMAIN segments', NEW u \in DOMAIN segments',
               NEW i \in 1 .. Len(segments'[t]), NEW j \in 1 .. Len(segments'[u]),
               segments'[t][i] = segments'[u][j], segments'[t][i] # TornTail
        PROVE  t = u /\ i = j
    <3>1. CASE t \in DOMAIN segments /\ i \in 1 .. Len(segments[t]) /\ segments'[t][i] = segments[t][i]
      <4>1. CASE u \in DOMAIN segments /\ j \in 1 .. Len(segments[u]) /\ segments'[u][j] = segments[u][j]
        <5>1. segments[t][i] = segments[u][j] /\ segments[t][i] # TornTail BY <2>3, <3>1, <4>1
        <5> QED BY <5>1, <3>1, <4>1, <1>a DEF OneCopy
      <4>2. CASE segments'[u][j] = x
        <5>1. x = f /\ segments[t][i] \in accepted BY <2>3, <3>1, <4>2, <1>a, <1>b DEF OneCopy
        <5> QED BY <5>1, <2>3, <3>1, <4>2
      <4> QED BY <4>1, <4>2, <1>l
    <3>2. CASE t = s /\ i = Len(cells) + 1 /\ segments'[t][i] = x
      <4>0. x = f BY <2>3, <3>2, <1>b
      <4>1. CASE u \in DOMAIN segments /\ j \in 1 .. Len(segments[u]) /\ segments'[u][j] = segments[u][j]
        <5>1. segments[u][j] \in accepted BY <2>3, <4>1, <1>a DEF OneCopy
        <5> QED BY <5>1, <4>0, <2>3, <3>2, <4>1
      <4>2. CASE u = s /\ j = Len(cells) + 1 BY <4>2, <3>2
      <4> QED BY <4>1, <4>2, <1>l
    <3> QED BY <3>1, <3>2, <1>l
  <2> QED BY <2>1, <2>2, <2>3 DEF OneCopy
<1>4. KeptOrSettled'
  <2> SUFFICES ASSUME NEW r \in accepted' \ (gone' \cup hidden'), r \notin FrameSettled'
               PROVE  \E t \in DOMAIN segments' : \E i \in 1 .. Len(segments'[t]) :
                         Unread(segments', cursor'.segment, cursor'.offset, t, i) /\ segments'[t][i] = r
      BY DEF KeptOrSettled
  <2>0. cursor'.segment = cs /\ cursor'.offset = co BY <1>j DEF cs, co
  <2>1. FrameSettled' = FrameSettled BY <1>j DEF FrameSettled, Received
  <2>2. CASE r \in accepted \ hidden
    <3>1. PICK t \in DOMAIN segments : \E i \in 1 .. Len(segments[t]) :
             Unread(segments, cs, co, t, i) /\ segments[t][i] = r
          BY <1>a, <1>j, <2>1, <2>2 DEF KeptOrSettled, cs, co
    <3>2. PICK i \in 1 .. Len(segments[t]) : Unread(segments, cs, co, t, i) /\ segments[t][i] = r
          BY <3>1
    <3>3. t \in DOMAIN segments' /\ Unread(segments', cs, co, t, i) /\ segments'[t][i] = r
          BY <3>2, <1>k, <1>m
    <3>4. i \in 1 .. Len(segments'[t]) BY <3>3 DEF Unread
    <3> QED BY <3>3, <3>4, <2>0
  <2>3. CASE ~(r \in accepted \ hidden)
    <3>1. whole /\ r = f /\ ~Unreadable(cells, s) BY <2>3, <1>j
    <3>2. x = f BY <3>1 DEF x
    <3>3. \A i \in 1 .. Len(cells) : cells[i] # TornTail
          BY <3>1, <1>d, LenProperties DEF Unreadable
    <3>4. s = cs => co <= Len(cells) BY <3>1, <1>c, <1>h DEF Unreadable, cs, co
    <3>5. Start(cs, co, s) \in Nat /\ Start(cs, co, s) <= Len(cells) BY <3>4, <1>c, <1>h DEF Start
    <3>6. \A k \in Start(cs, co, s) + 1 .. Len(cells) + 1 : segments'[s][k] # TornTail
          BY <3>2, <3>3, <3>5, <1>b, <1>g, <1>h DEF TornTail
    <3>7. s \in DOMAIN segments' /\ Len(cells) + 1 \in 1 .. Len(segments'[s]) /\ s >= cs
          BY <1>c, <1>d, <1>g, <1>h
    <3>8. Unread(segments', cs, co, s, Len(cells) + 1) BY <3>5, <3>6, <3>7, <1>h DEF Unread
    <3> QED BY <3>1, <3>2, <3>7, <3>8, <2>0, <1>g, <1>h
  <2> QED BY <2>2, <2>3
<1>5. SentWithFaults'
  <2>1. spoolFaults \in Nat /\ spoolFaults' \in Nat /\ spoolFaults <= spoolFaults'
        BY <1>a, SpoolBounds DEF Faulty, SpoolCursor
  <2>2. ASSUME NEW t \in DOMAIN segments', NEW i \in 1 .. Len(segments'[t]),
               Unread(segments', cursor'.segment, cursor'.offset, t, i)
        PROVE  got'[segments'[t][i]] <= spoolFaults'
    <3>0. Unread(segments', cs, co, t, i) BY <2>2, <1>j DEF cs, co
    <3>1. CASE t \in DOMAIN segments /\ i \in 1 .. Len(segments[t]) /\ segments'[t][i] = segments[t][i]
      <4>1. Unread(segments, cs, co, t, i) BY <3>0, <3>1, <1>m
      <4>2. got[segments[t][i]] <= spoolFaults BY <3>1, <4>1, <1>a DEF SentWithFaults, cs, co
      <4>3. segments[t][i] # TornTail
        <5>1. i \in Start(cs, co, t) + 1 .. i BY <3>1, <4>1, <1>c, <1>k DEF Unread, Start
        <5> QED BY <4>1, <5>1 DEF Unread
      <4>4. segments[t][i] \in accepted BY <3>1, <4>3, <1>a DEF OneCopy
      <4>5. got[segments[t][i]] \in Nat BY <4>4, <1>a DEF SentWithFaults, OneCopy
      <4> QED BY <4>2, <4>5, <3>1, <1>j, <2>1
    <3>2. CASE t = s /\ i = Len(cells) + 1 /\ segments'[t][i] = x
      <4>1. Start(cs, co, t) \in Nat BY <1>c DEF Start
      <4>2. i \in Start(cs, co, t) + 1 .. i BY <3>0, <3>2, <4>1, <1>h DEF Unread
      <4>3. x # TornTail BY <3>0, <3>2, <4>2 DEF Unread
      <4>4. x = f BY <4>3, <1>b
      <4>5. got[f] = 0 BY <1>a DEF SentWithFaults
      <4> QED BY <3>2, <4>4, <4>5, <2>1, <1>j
    <3> QED BY <3>1, <3>2, <1>l
  <2>3. \A r \in 1 .. MaxOffered : got'[r] <= 1 + spoolFaults' BY <1>a, <1>j, <2>1 DEF SentWithFaults
  <2> QED BY <1>a, <1>j, <2>2, <2>3 DEF SentWithFaults
<1>6. WithoutFaults'
  <2> SUFFICES ASSUME spoolFaults' = 0 PROVE WithoutFaults' BY DEF WithoutFaults
  <2>1. spoolFaults = 0 /\ whole BY <1>a DEF Faulty, SpoolCursor
  <2>2. x = f BY <2>1 DEF x
  <2>3. \A t \in DOMAIN segments' : \A i \in 1 .. Len(segments'[t]) : segments'[t][i] # TornTail
        BY <2>1, <2>2, <1>a, <1>b, <1>l DEF WithoutFaults, TornTail
  <2>4. cs \in DOMAIN segments /\ co <= Len(segments[cs]) BY <2>1, <1>a DEF WithoutFaults, cs, co
  <2>5. cs \in DOMAIN segments' /\ co <= Len(segments'[cs])
    <3>1. Len(segments'[cs]) \in Nat BY <2>4, <1>1, LenProperties DEF SpoolFiles
    <3> QED BY <2>4, <1>k, <1>c, <3>1
  <2>6. \A t \in DOMAIN segments' : t >= cs
    <3>1. \A t \in DOMAIN segments : t >= cs BY <2>1, <1>a DEF WithoutFaults, cs
    <3>2. s >= cs BY <1>c, <1>d
    <3> QED BY <3>1, <3>2, <1>g
  <2>7. 1 + 2 * (Len(cells) + 1) <= SegmentBytes \/ Len(cells) + 1 <= 1
    <3>1. CASE s \in DOMAIN segments
      <4>1. ~Rolls /\ cells = segments[writer] BY <3>1, <1>a, <1>e DEF SpoolFiles
      <4>2. SegmentSize(cells) = 1 + 2 * Len(cells) BY <2>1, <3>1, <1>a, <1>d, <1>e, SizeIs DEF WithoutFaults
      <4> QED BY <4>1, <4>2, <1>h, SpoolBounds DEF Rolls, FRAME_OVERHEAD, HEADER_BYTES
    <3>2. CASE s \notin DOMAIN segments
      <4>1. Len(cells) = 0 BY <3>2, <1>f, EmptySeq
      <4> QED BY <4>1
    <3> QED BY <3>1, <3>2
  <2>8. \A t \in DOMAIN segments' : 1 + 2 * Len(segments'[t]) <= SegmentBytes \/ Len(segments'[t]) <= 1
    <3> SUFFICES ASSUME NEW t \in DOMAIN segments'
                 PROVE  1 + 2 * Len(segments'[t]) <= SegmentBytes \/ Len(segments'[t]) <= 1
        OBVIOUS
    <3>1. CASE t = s BY <3>1, <2>7, <1>g, <1>h
    <3>2. CASE t # s BY <3>2, <2>1, <1>a, <1>g DEF WithoutFaults
    <3> QED BY <3>1, <3>2
  <2>9. \A t \in DOMAIN segments' : Len(segments'[t]) > 0 \/ DOMAIN segments' = {t}
    <3> SUFFICES ASSUME NEW t \in DOMAIN segments' PROVE Len(segments'[t]) > 0 \/ DOMAIN segments' = {t}
        OBVIOUS
    <3>1. CASE t = s BY <3>1, <1>g, <1>h
    <3>2. CASE t # s /\ Len(segments[t]) > 0 BY <3>2, <1>g
    <3>3. CASE t # s /\ ~(Len(segments[t]) > 0)
      <4>1. t \in DOMAIN segments /\ DOMAIN segments = {t} BY <3>3, <2>1, <1>a, <1>g DEF WithoutFaults
      <4>2. t = writer /\ s \notin DOMAIN segments BY <4>1, <3>3, <1>a DEF SpoolFiles
      <4>3. SegmentSize(segments[t]) = 1 + 2 * Len(segments[t])
            BY <4>1, <2>1, <1>a, SizeIs DEF WithoutFaults, SpoolFiles
      <4>4. Rolls BY <4>2, <1>f
      <4> QED BY <4>2, <4>3, <4>4, <3>3, <1>k, <4>1 DEF Rolls, HEADER_BYTES
    <3> QED BY <3>1, <3>2, <3>3
  <2>10. write_segment' = writer' BY <1>i, <1>j
  <2>11. cursor'.segment = cs /\ cursor'.offset = co BY <1>j DEF cs, co
  <2> QED BY <2>3, <2>5, <2>6, <2>8, <2>9, <2>10, <2>11 DEF WithoutFaults
<1> QED BY <1>1, <1>2, <1>3, <1>4, <1>5, <1>6 DEF SpoolInvariant

(* More failures alone keep the bound on what was received.                *)
LEMMA SentSame ==
    ASSUME SpoolInvariant, UNCHANGED <<segments, cursor, accepted, got, rejected>>,
           spoolFaults' \in Nat, spoolFaults <= spoolFaults'
    PROVE  SentWithFaults'
<1>1. SentWithFaults /\ spoolFaults \in Nat BY SpoolBounds DEF SpoolInvariant, SpoolCursor
<1>2. \A r \in 1 .. MaxOffered : got'[r] <= 1 + spoolFaults' BY <1>1 DEF SentWithFaults
<1>3. ASSUME NEW s \in DOMAIN segments', NEW i \in 1 .. Len(segments'[s]),
             Unread(segments', cursor'.segment, cursor'.offset, s, i)
      PROVE  got'[segments'[s][i]] <= spoolFaults'
  <2>1. Unread(segments, cursor.segment, cursor.offset, s, i) BY <1>3
  <2>2. got[segments[s][i]] <= spoolFaults BY <1>1, <2>1 DEF SentWithFaults
  <2>3. cursor.segment \in Nat /\ cursor.offset \in Nat /\ Len(segments[s]) \in Nat /\ s \in Nat
        BY LenProperties DEF SpoolInvariant, SpoolCursor, SpoolFiles
  <2>4. i \in Start(cursor.segment, cursor.offset, s) + 1 .. i BY <2>1, <2>3 DEF Unread, Start
  <2>5. segments[s][i] # TornTail BY <2>1, <2>4 DEF Unread
  <2>6. segments[s][i] \in 1 .. MaxOffered BY <2>5 DEF SpoolInvariant, OneCopy
  <2>7. got[segments[s][i]] \in Nat BY <1>1, <2>6 DEF SentWithFaults
  <2> QED BY <1>1, <2>2, <2>7
<1> QED BY <1>1, <1>2, <1>3 DEF SentWithFaults

(* A failure that leaves the files and the cursor alone keeps the spool.   *)
LEMMA SpoolSame ==
    ASSUME SpoolInvariant, UNCHANGED <<segments, cursor, cursorFile, accepted, hidden, gone>>,
           usable' \in BOOLEAN, FrameSettled \subseteq FrameSettled', SentWithFaults',
           onDisk' \in [DOMAIN segments -> Nat], \A s \in DOMAIN segments : onDisk'[s] <= Len(segments[s]),
           \/ spoolFaults' = spoolFaults /\ write_segment' = write_segment
           \/ /\ spoolFaults < MaxSpoolFaults /\ spoolFaults' = spoolFaults + 1
              /\ write_segment' \in write_segment .. write_segment + 1
    PROVE  SpoolInvariant'
<1>a. SpoolFiles /\ SpoolCursor /\ OneCopy /\ KeptOrSettled /\ WithoutFaults BY DEF SpoolInvariant
<1>b. writer' = writer BY DEF writer
<1>c. write_segment' \in Nat /\ write_segment <= write_segment' BY <1>a DEF SpoolFiles
<1>1. SpoolFiles'
  <2>1. writer \in Nat BY <1>a DEF SpoolFiles
  <2>2. writer' <= write_segment' BY <1>a, <1>b, <1>c, <2>1 DEF SpoolFiles
  <2> QED BY <1>a, <1>b, <1>c, <2>2 DEF SpoolFiles
<1>2. SpoolCursor'
  <2>1. spoolFaults' \in 0 .. MaxSpoolFaults BY <1>a, SpoolBounds DEF SpoolCursor
  <2> QED BY <1>a, <1>b, <2>1 DEF SpoolCursor
<1>3. OneCopy' BY <1>a DEF OneCopy
<1>4. KeptOrSettled' BY <1>a DEF KeptOrSettled
<1>5. WithoutFaults'
  <2> SUFFICES ASSUME spoolFaults' = 0 PROVE WithoutFaults' BY DEF WithoutFaults
  <2>1. spoolFaults = 0 /\ write_segment' = write_segment BY <1>a, SpoolBounds DEF SpoolCursor
  <2> QED BY <1>a, <1>b, <2>1 DEF WithoutFaults
<1> QED BY <1>1, <1>2, <1>3, <1>4, <1>5 DEF SpoolInvariant

(* What is settled depends on what the peer has and what it refused.       *)
LEMMA SettledSame == ASSUME UNCHANGED <<got, rejected>> PROVE FrameSettled' = FrameSettled
BY DEF FrameSettled, Received

(* A push keeps the spool, and accepts the frame exactly when it says so.  *)
LEMMA SpoolPushes ==
    ASSUME SpoolInvariant, NEW f \in 1 .. MaxOffered, f \notin accepted, NEW ok \in BOOLEAN,
           push(f, ok), UNCHANGED <<got, rejected>>
    PROVE  SpoolInvariant' /\ accepted' = IF ok THEN accepted \cup {f} ELSE accepted
<1>a. spoolFaults \in Nat /\ onDisk \in [DOMAIN segments -> Nat] /\ usable \in BOOLEAN
      /\ \A s \in DOMAIN segments : onDisk[s] <= Len(segments[s])
      BY SpoolBounds DEF SpoolInvariant, SpoolFiles, SpoolCursor
<1>b. UNCHANGED <<cursor, cursorFile, gone, usable>> BY DEF push
<1>c. FrameSettled' = FrameSettled BY SettledSame
<1>1. CASE ~ok /\ UNCHANGED <<segments, onDisk, write_segment, accepted, hidden, spoolFaults>>
  <2>1. SentWithFaults' BY <1>1, <1>a, <1>b, SentSame
  <2> QED BY <1>1, <1>a, <1>b, <1>c, <2>1, SpoolSame
<1>2. CASE ~Rolls /\ Faulty(ok) /\ Write(writer, segments[writer], f, ok, onDisk)
  <2>1. PICK s, cells, left : s = writer /\ cells = segments[writer] /\ left = onDisk OBVIOUS
  <2>2. Write(s, cells, f, ok, left) BY <1>2, <2>1
  <2>3. SpoolInvariant' BY <1>2, <1>b, <2>1, <2>2, SpoolWrites
  <2>4. accepted' = IF ok THEN accepted \cup {f} ELSE accepted BY <1>2 DEF Write
  <2> QED BY <2>3, <2>4
<1>3. CASE Rolls /\ Faulty(ok) /\ RollAndWrite(f, ok)
  <2>1. PICK s, cells, left :
           /\ s = write_segment + 1 /\ cells = <<>>
           /\ left = [t \in DOMAIN segments \cup {write_segment + 1} |->
                        IF t = write_segment + 1 THEN 0
                        ELSE IF t = writer THEN Len(segments[t]) ELSE onDisk[t]]
        OBVIOUS
  <2>2. Write(s, cells, f, ok, left) BY <1>3, <2>1 DEF RollAndWrite
  <2>3. SpoolInvariant' BY <1>3, <1>b, <2>1, <2>2, SpoolWrites
  <2>4. accepted' = IF ok THEN accepted \cup {f} ELSE accepted BY <2>2 DEF Write
  <2> QED BY <2>3, <2>4
<1>4. CASE /\ ~ok /\ Faulty(FALSE)
           /\ write_segment' \in write_segment .. write_segment + 1
           /\ UNCHANGED <<segments, onDisk, accepted, hidden>>
  <2>1. spoolFaults < MaxSpoolFaults /\ spoolFaults' = spoolFaults + 1 BY <1>4 DEF Faulty
  <2>2. SentWithFaults' BY <1>4, <1>a, <1>b, <2>1, SentSame
  <2> QED BY <1>4, <1>a, <1>b, <1>c, <2>1, <2>2, SpoolSame
<1> QED BY <1>1, <1>2, <1>3, <1>4 DEF push

(* A sync, done or failed, keeps the spool.                                *)
LEMMA SpoolSyncs ==
    ASSUME SpoolInvariant, NEW ok \in BOOLEAN, sync(ok), UNCHANGED <<got, rejected>>
    PROVE  SpoolInvariant'
<1>a. /\ spoolFaults \in Nat /\ onDisk \in [DOMAIN segments -> Nat] /\ usable \in BOOLEAN
      /\ \A s \in DOMAIN segments : onDisk[s] <= Len(segments[s]) /\ Len(segments[s]) \in Nat
      /\ writer \in DOMAIN segments
      BY SpoolBounds, LenProperties DEF SpoolInvariant, SpoolFiles, SpoolCursor
<1>b. /\ UNCHANGED <<segments, write_segment, cursor, cursorFile, accepted, hidden, gone, usable>>
      /\ onDisk' = IF ok THEN [onDisk EXCEPT ![writer] = Len(segments[writer])] ELSE onDisk
      /\ spoolFaults' = IF ok THEN spoolFaults ELSE spoolFaults + 1
      /\ ok \/ spoolFaults < MaxSpoolFaults
      BY DEF sync, Faulty
<1>c. onDisk' \in [DOMAIN segments -> Nat] /\ \A s \in DOMAIN segments : onDisk'[s] <= Len(segments[s])
      BY <1>a, <1>b
<1>d. write_segment' \in write_segment .. write_segment + 1 BY <1>b DEF SpoolInvariant, SpoolFiles
<1>1. SentWithFaults' BY <1>a, <1>b, SentSame
<1> QED BY <1>a, <1>b, <1>c, <1>d, <1>1, SettledSame, SpoolSame

(* With the cursor moved to an unread cell, and files before it gone,      *)
(* unread is what was unread after that cell.                              *)
LEMMA UnreadAfter ==
    ASSUME NEW A, NEW B, NEW cs \in Nat, NEW co \in Nat, NEW a \in Nat, NEW b \in Nat,
           Unread(A, cs, co, a, b),
           DOMAIN B \subseteq DOMAIN A, \A t \in DOMAIN B : B[t] = A[t],
           \A t \in DOMAIN A : t >= a => t \in DOMAIN B,
           \A t \in DOMAIN A : t \in Nat /\ Len(A[t]) \in Nat,
           NEW s \in Nat, NEW i \in Nat
    PROVE  Unread(B, a, b, s, i) <=> Unread(A, cs, co, s, i) /\ Before(a, b, s, i)
<1>a. a \in DOMAIN A /\ b \in 1 .. Len(A[a]) /\ a >= cs /\ b > Start(cs, co, a)
      /\ \A k \in Start(cs, co, a) + 1 .. b : A[a][k] # TornTail
      BY DEF Unread
<1>b. Start(cs, co, s) \in Nat /\ Start(a, b, s) \in Nat /\ Start(cs, co, a) \in Nat BY DEF Start
<1>1. CASE s = a
  <2>1. Start(a, b, s) = b BY <1>1 DEF Start
  <2>2. ASSUME Unread(B, a, b, s, i) PROVE Unread(A, cs, co, s, i) /\ Before(a, b, s, i)
    <3>1. s \in DOMAIN B /\ i \in 1 .. Len(B[s]) /\ i > b /\ \A k \in b + 1 .. i : B[s][k] # TornTail
          BY <2>1, <2>2 DEF Unread
    <3>2. B[s] = A[s] BY <3>1
    <3>3. \A k \in Start(cs, co, s) + 1 .. i : A[s][k] # TornTail
      <4> SUFFICES ASSUME NEW k \in Start(cs, co, s) + 1 .. i PROVE A[s][k] # TornTail OBVIOUS
      <4>1. k \in Start(cs, co, a) + 1 .. b \/ k \in b + 1 .. i BY <1>1, <1>b
      <4> QED BY <4>1, <1>1, <1>a, <3>1, <3>2
    <3>4. i > Start(cs, co, s) BY <1>1, <1>a, <1>b, <3>1
    <3> QED BY <1>1, <1>a, <3>1, <3>2, <3>3, <3>4 DEF Unread, Before
  <2>3. ASSUME Unread(A, cs, co, s, i), Before(a, b, s, i) PROVE Unread(B, a, b, s, i)
    <3>1. s \in DOMAIN B /\ B[s] = A[s] BY <1>1, <1>a
    <3>2. i > b /\ i \in 1 .. Len(A[s]) BY <2>3, <1>1 DEF Unread, Before
    <3>3. \A k \in b + 1 .. i : A[s][k] # TornTail
      <4> SUFFICES ASSUME NEW k \in b + 1 .. i PROVE A[s][k] # TornTail OBVIOUS
      <4>1. k \in Start(cs, co, s) + 1 .. i BY <1>1, <1>a, <1>b
      <4> QED BY <4>1, <2>3 DEF Unread
    <3> QED BY <1>1, <2>1, <3>1, <3>2, <3>3 DEF Unread
  <2> QED BY <2>2, <2>3
<1>2. CASE s < a
  <2>1. ~Before(a, b, s, i) BY <1>2 DEF Before
  <2>2. ~Unread(B, a, b, s, i) BY <1>2 DEF Unread
  <2> QED BY <2>1, <2>2
<1>3. CASE s > a
  <2>1. Start(a, b, s) = 0 /\ Start(cs, co, s) = 0 BY <1>3, <1>a DEF Start
  <2>2. Before(a, b, s, i) BY <1>3 DEF Before
  <2>3. s >= a /\ s >= cs BY <1>3, <1>a
  <2>4. ASSUME Unread(B, a, b, s, i) PROVE Unread(A, cs, co, s, i)
        BY <2>1, <2>3, <2>4 DEF Unread
  <2>5. ASSUME Unread(A, cs, co, s, i) PROVE Unread(B, a, b, s, i)
    <3>1. s \in DOMAIN B /\ B[s] = A[s] BY <2>3, <2>5 DEF Unread
    <3> QED BY <3>1, <2>1, <2>3, <2>5 DEF Unread
  <2> QED BY <2>2, <2>4, <2>5
<1> QED BY <1>1, <1>2, <1>3

(* An unread cell is an accepted frame.                                    *)
LEMMA UnreadIsFrame ==
    ASSUME SpoolInvariant, NEW s, NEW i, Unread(segments, cursor.segment, cursor.offset, s, i)
    PROVE  /\ s \in DOMAIN segments /\ s \in Nat /\ i \in Nat /\ i \in 1 .. Len(segments[s])
           /\ segments[s][i] # TornTail /\ segments[s][i] \in accepted /\ segments[s][i] \in 1 .. MaxOffered
<1>1. s \in DOMAIN segments /\ i \in 1 .. Len(segments[s]) BY DEF Unread
<1>2. s \in Nat /\ Len(segments[s]) \in Nat /\ cursor.segment \in Nat /\ cursor.offset \in Nat
      BY <1>1, LenProperties DEF SpoolInvariant, SpoolFiles, SpoolCursor
<1>3. i \in Nat /\ Start(cursor.segment, cursor.offset, s) \in Nat BY <1>1, <1>2 DEF Start
<1>4. i \in Start(cursor.segment, cursor.offset, s) + 1 .. i BY <1>3 DEF Unread
<1>5. segments[s][i] # TornTail BY <1>4 DEF Unread
<1> QED BY <1>1, <1>2, <1>3, <1>5 DEF SpoolInvariant, OneCopy

(* A commit to the first unread frame, once that is settled, keeps the     *)
(* spool, also when it fails before the rename or at an unlink.            *)
LEMMA SpoolCommits ==
    ASSUME SpoolInvariant, NEW a \in Nat, NEW b \in Nat,
           Unread(segments, cursor.segment, cursor.offset, a, b),
           \A s, i \in Nat : Unread(segments, cursor.segment, cursor.offset, s, i) => ~Before(s, i, a, b),
           NEW ok \in BOOLEAN, commit(Cursor(a, b), ok),
           FrameSettled \subseteq FrameSettled', segments[a][b] \in FrameSettled',
           got' \in [1 .. MaxOffered -> Nat],
           \A r \in 1 .. MaxOffered : r # segments[a][b] => got'[r] = got[r],
           got'[segments[a][b]] <= got[segments[a][b]] + 1,
           rejected' \subseteq rejected \cup {segments[a][b]}
    PROVE  /\ SpoolInvariant' /\ accepted' = accepted
           /\ ok => /\ cursor' = Cursor(a, b)
                    /\ \A s, i \in Nat : Unread(segments', a, b, s, i) <=>
                          Unread(segments, cursor.segment, cursor.offset, s, i) /\ Before(a, b, s, i)
                    /\ \A s, i \in Nat : Unread(segments', a, b, s, i) => segments'[s] = segments[s]
<1> DEFINE cs == cursor.segment
           co == cursor.offset
           f == segments[a][b]
<1>a. SpoolFiles /\ SpoolCursor /\ OneCopy /\ KeptOrSettled /\ SentWithFaults /\ WithoutFaults BY DEF SpoolInvariant
<1>b. PICK moved \in BOOLEAN :
         /\ ok => moved
         /\ cursorFile' = IF moved THEN Cursor(a, b) ELSE cursorFile
         /\ cursor' = IF moved THEN Cursor(a, b) ELSE cursor
      BY DEF commit, Moved
<1>c. /\ UNCHANGED <<write_segment, accepted, hidden, gone, usable>>
      /\ spoolFaults' = IF ok THEN spoolFaults ELSE spoolFaults + 1
      /\ ok \/ spoolFaults < MaxSpoolFaults
      BY DEF commit, Faulty
<1>d. a \in DOMAIN segments /\ b \in 1 .. Len(segments[a]) /\ f # TornTail /\ f \in accepted /\ f \in 1 .. MaxOffered
      BY UnreadIsFrame
<1>e. a # 0 /\ cs \in Nat \ {0} /\ co \in Nat /\ writer \in Nat /\ a <= writer /\ spoolFaults \in Nat
      BY <1>a, <1>d, SpoolBounds DEF SpoolFiles, SpoolCursor
<1>f. \A t \in DOMAIN segments : t \in Nat /\ Len(segments[t]) \in Nat
      BY <1>a, LenProperties DEF SpoolFiles
<1>g. Cursor(a, b) \in [segment : Nat \ {0}, offset : Nat] /\ Cursor(a, b).segment = a /\ Cursor(a, b).offset = b
      BY <1>e DEF Cursor
<1>h. PICK keep :
         /\ keep = DOMAIN segments \ (IF ok THEN Behind(Cursor(a, b)) ELSE {})
         /\ segments' = [t \in keep |-> segments[t]] /\ onDisk' = [t \in keep |-> onDisk[t]]
      BY DEF commit, Restrict
<1>i. /\ keep \subseteq DOMAIN segments /\ (~ok => keep = DOMAIN segments)
      /\ \A t \in DOMAIN segments : t >= a => t \in keep
  <2>1. Behind(Cursor(a, b)) = {t \in DOMAIN segments : t < a /\ t # write_segment}
        BY <1>g DEF Behind, list_segments
  <2>2. \A t \in DOMAIN segments : t >= a => ~(t < a) BY <1>f
  <2> QED BY <1>h, <2>1, <2>2
<1>j. /\ DOMAIN segments' = keep /\ \A t \in keep : segments'[t] = segments[t] /\ onDisk'[t] = onDisk[t]
      /\ writer \in keep /\ a \in keep
      BY <1>a, <1>d, <1>e, <1>h, <1>i DEF SpoolFiles
<1>k. writer' = writer
  <2>1. DOMAIN segments' \subseteq Nat /\ \A t \in DOMAIN segments' : t <= writer BY <1>a, <1>i, <1>j DEF SpoolFiles
  <2> QED BY <2>1, <1>j, MaxIs DEF writer
<1>l. moved => \A s, i \in Nat : Unread(segments', a, b, s, i) <=> Unread(segments, cs, co, s, i) /\ Before(a, b, s, i)
  <2> SUFFICES ASSUME moved, NEW s \in Nat, NEW i \in Nat
               PROVE  Unread(segments', a, b, s, i) <=> Unread(segments, cs, co, s, i) /\ Before(a, b, s, i)
      OBVIOUS
  <2>1. /\ DOMAIN segments' \subseteq DOMAIN segments
        /\ \A t \in DOMAIN segments' : segments'[t] = segments[t]
        /\ \A t \in DOMAIN segments : t >= a => t \in DOMAIN segments'
        BY <1>i, <1>j
  <2>2. Unread(segments, cs, co, a, b) /\ cs \in Nat /\ co \in Nat BY <1>e
  <2> HIDE DEF cs, co
  <2> QED BY ONLY <1>f, <2>1, <2>2, UnreadAfter, a \in Nat, b \in Nat, s \in Nat, i \in Nat, Zenon
<1>m. ~moved => segments' = segments
  <2>1. ~moved => keep = DOMAIN segments BY <1>b, <1>i
  <2>2. DOMAIN segments = keep => segments' = segments
    <3>1. segments = [t \in DOMAIN segments |-> segments[t]] BY <1>a DEF SpoolFiles
    <3> QED BY <1>h, <3>1
  <2> QED BY <2>1, <2>2
<1>1. SpoolFiles'
  <2>1. onDisk' \in [DOMAIN segments' -> Nat] BY <1>a, <1>h, <1>i, <1>j DEF SpoolFiles
  <2>2. segments' = [t \in DOMAIN segments' |-> segments'[t]] BY <1>h
  <2> QED BY <1>a, <1>c, <1>i, <1>j, <1>k, <2>1, <2>2 DEF SpoolFiles
<1>2. SpoolCursor'
  <2>1. spoolFaults' \in 0 .. MaxSpoolFaults BY <1>a, <1>c, SpoolBounds DEF SpoolCursor
  <2>2. CASE moved
    <3>1. cursor' = Cursor(a, b) /\ cursorFile' = Cursor(a, b) BY <1>b, <2>2
    <3> QED BY <3>1, <1>a, <1>c, <1>e, <1>g, <1>k, <2>1 DEF SpoolCursor
  <2>3. CASE ~moved
    <3>1. cursor' = cursor /\ cursorFile' = cursorFile /\ segments' = segments BY <1>b, <1>m, <2>3
    <3> QED BY <3>1, <1>a, <1>c, <1>k, <2>1 DEF SpoolCursor
  <2> QED BY <2>2, <2>3
<1>3. OneCopy'
  <2>1. \A s \in DOMAIN segments' : s \in DOMAIN segments /\ segments'[s] = segments[s] BY <1>i, <1>j
  <2> QED BY <1>a, <1>c, <2>1 DEF OneCopy
<1> HIDE DEF cs, co, f
<1>4. KeptOrSettled'
  <2> SUFFICES ASSUME NEW r \in accepted' \ (gone' \cup hidden'), r \notin FrameSettled'
               PROVE  \E t \in DOMAIN segments' : \E i \in 1 .. Len(segments'[t]) :
                         Unread(segments', cursor'.segment, cursor'.offset, t, i) /\ segments'[t][i] = r
      BY DEF KeptOrSettled
  <2>1. PICK t \in DOMAIN segments : \E i \in 1 .. Len(segments[t]) :
           Unread(segments, cs, co, t, i) /\ segments[t][i] = r
        BY <1>a, <1>c DEF KeptOrSettled, cs, co
  <2>2. PICK i \in 1 .. Len(segments[t]) : Unread(segments, cs, co, t, i) /\ segments[t][i] = r
        BY <2>1
  <2>3. t \in Nat /\ i \in Nat BY <1>f
  <2>4. CASE ~moved BY <2>4, <2>2, <1>b, <1>m DEF cs, co
  <2>5. CASE moved
    <3>1. ~Before(t, i, a, b) BY <2>2, <2>3 DEF cs, co
    <3>2. ~(t = a /\ i = b) BY <2>2 DEF f
    <3>3. Before(a, b, t, i) BY <2>3, <3>1, <3>2 DEF Before
    <3>4. Unread(segments', a, b, t, i) BY <2>2, <2>3, <2>5, <3>3, <1>l
    <3>5. t \in DOMAIN segments' /\ i \in 1 .. Len(segments'[t]) BY <3>4 DEF Unread
    <3>6. segments'[t][i] = r BY <2>2, <3>5, <1>j
    <3>7. cursor'.segment = a /\ cursor'.offset = b BY <1>b, <1>g, <2>5
    <3> QED BY <3>4, <3>5, <3>6, <3>7
  <2> QED BY <2>4, <2>5
<1>5. SentWithFaults'
  <2>0. got \in [1 .. MaxOffered -> Nat] BY <1>a DEF SentWithFaults
  <2>1. got[f] <= spoolFaults BY <1>a, <1>d DEF SentWithFaults, cs, co, f
  <2>2. spoolFaults' \in Nat /\ spoolFaults <= spoolFaults' BY <1>c, <1>e
  <2>3. got[f] \in Nat /\ got'[f] \in Nat /\ got'[f] <= got[f] + 1 BY <1>d, <2>0 DEF f
  <2>4. \A r \in 1 .. MaxOffered : r # f => got'[r] = got[r] BY DEF f
  <2>5. \A r \in 1 .. MaxOffered : got'[r] <= 1 + spoolFaults'
    <3> SUFFICES ASSUME NEW r \in 1 .. MaxOffered PROVE got'[r] <= 1 + spoolFaults' OBVIOUS
    <3>1. CASE r = f BY <3>1, <2>1, <2>2, <2>3, <1>e
    <3>2. CASE r # f
      <4>1. got[r] \in Nat /\ got[r] <= 1 + spoolFaults BY <2>0, <1>a DEF SentWithFaults
      <4> QED BY <3>2, <4>1, <2>4, <2>2, <1>e
    <3> QED BY <3>1, <3>2
  <2>6. \A r \in 1 .. MaxOffered : got'[r] > 0 => r \in accepted'
        BY <2>4, <1>a, <1>c, <1>d DEF SentWithFaults
  <2>7. rejected' \subseteq accepted' BY <1>a, <1>c, <1>d DEF SentWithFaults, f
  <2>8. ASSUME NEW s \in DOMAIN segments', NEW i \in 1 .. Len(segments'[s]),
               Unread(segments', cursor'.segment, cursor'.offset, s, i)
        PROVE  got'[segments'[s][i]] <= spoolFaults'
    <3>0. s \in DOMAIN segments /\ segments'[s] = segments[s] /\ s \in Nat /\ i \in Nat BY <1>f, <1>i, <1>j
    <3>1. Unread(segments, cs, co, s, i)
      <4>1. CASE moved
        <5>1. cursor'.segment = a /\ cursor'.offset = b BY <1>b, <1>g, <4>1
        <5> QED BY <5>1, <4>1, <2>8, <3>0, <1>l
      <4>2. CASE ~moved BY <4>2, <2>8, <1>b, <1>m DEF cs, co
      <4> QED BY <4>1, <4>2
    <3>2. segments[s][i] \in 1 .. MaxOffered /\ segments[s][i] # TornTail BY <3>1, UnreadIsFrame DEF cs, co
    <3>3. got[segments[s][i]] <= spoolFaults BY <3>0, <3>1, <1>a DEF SentWithFaults, cs, co
    <3>4. got[segments[s][i]] \in Nat BY <3>2, <2>0
    <3>5. CASE segments[s][i] # f BY <3>5, <3>0, <3>2, <3>3, <3>4, <2>2, <2>4, <1>e
    <3>6. CASE segments[s][i] = f
      <4>1. s = a /\ i = b BY <3>6, <3>0, <1>a, <1>d DEF OneCopy, f
      <4>2. ~Before(a, b, s, i) BY <4>1, <3>0 DEF Before
      <4>3. ~moved
        <5>1. moved => cursor'.segment = a /\ cursor'.offset = b BY <1>b, <1>g
        <5> QED BY <5>1, <4>2, <2>8, <3>0, <1>l
      <4>4. ~ok BY <4>3, <1>b
      <4>5. spoolFaults' = spoolFaults + 1 BY <4>4, <1>c
      <4> QED BY <3>6, <4>5, <2>1, <2>3, <3>0, <1>e
    <3> QED BY <3>5, <3>6
  <2> QED BY <2>5, <2>6, <2>7, <2>8 DEF SentWithFaults
<1>6. WithoutFaults'
  <2> SUFFICES ASSUME spoolFaults' = 0 PROVE WithoutFaults' BY DEF WithoutFaults
  <2>1. spoolFaults = 0 /\ ok /\ moved BY <1>b, <1>c, <1>e
  <2>2. cursor'.segment = a /\ cursor'.offset = b BY <1>b, <1>g, <2>1
  <2>3. write_segment = writer BY <2>1, <1>a DEF WithoutFaults
  <2>4. \A s \in keep : s >= a
    <3> SUFFICES ASSUME NEW s \in keep, s < a PROVE FALSE BY <1>f, <1>i
    <3>1. s # write_segment BY <2>3, <1>e, <1>f, <1>i
    <3>2. s \in Behind(Cursor(a, b)) BY <3>1, <1>g, <1>i DEF Behind, list_segments
    <3> QED BY <3>2, <2>1, <1>h
  <2>5. b <= Len(segments'[a]) BY <1>d, <1>f, <1>j
  <2>6. \A s \in keep : /\ \A i \in 1 .. Len(segments'[s]) : segments'[s][i] # TornTail
                        /\ 1 + 2 * Len(segments'[s]) <= SegmentBytes \/ Len(segments'[s]) <= 1
    <3> SUFFICES ASSUME NEW s \in keep
                 PROVE  /\ \A i \in 1 .. Len(segments'[s]) : segments'[s][i] # TornTail
                        /\ 1 + 2 * Len(segments'[s]) <= SegmentBytes \/ Len(segments'[s]) <= 1
        OBVIOUS
    <3>1. s \in DOMAIN segments /\ segments'[s] = segments[s] BY <1>i, <1>j
    <3>2. /\ \A i \in 1 .. Len(segments[s]) : segments[s][i] # TornTail
          /\ 1 + 2 * Len(segments[s]) <= SegmentBytes \/ Len(segments[s]) <= 1
          BY <2>1, <3>1, <1>a DEF WithoutFaults
    <3> QED BY <3>1, <3>2
  <2>7. \A s \in keep : Len(segments'[s]) > 0 \/ keep = {s}
    <3> SUFFICES ASSUME NEW s \in keep, ~(Len(segments'[s]) > 0) PROVE keep = {s} OBVIOUS
    <3>1. DOMAIN segments = {s} BY <2>1, <1>a, <1>i, <1>j DEF WithoutFaults
    <3> QED BY <3>1, <1>i
  <2> QED BY <2>2, <2>3, <2>4, <2>5, <2>6, <2>7, <1>c, <1>j, <1>k DEF WithoutFaults
<1>7. SpoolInvariant' BY <1>1, <1>2, <1>3, <1>4, <1>5, <1>6 DEF SpoolInvariant
<1>8. ok => /\ cursor' = Cursor(a, b)
            /\ \A s, i \in Nat : Unread(segments', a, b, s, i) <=>
                  Unread(segments, cursor.segment, cursor.offset, s, i) /\ Before(a, b, s, i)
            /\ \A s, i \in Nat : Unread(segments', a, b, s, i) => segments'[s] = segments[s]
  <2>1. \A s, i \in Nat : Unread(segments', a, b, s, i) => segments'[s] = segments[s] BY <1>j DEF Unread
  <2> QED BY <2>1, <1>b, <1>l DEF cs, co
<1> QED BY <1>7, <1>8, <1>c

(* What a crash leaves of the last segment: the first n cells, and perhaps *)
(* a torn one.                                                             *)
LEMMA CrashLeft ==
    ASSUME NEW q \in Seq(Nat), NEW m \in Nat, m <= Len(q), NEW left,
           left \in {SubSeq(q, 1, n) : n \in m .. Len(q)}
                    \cup {Append(SubSeq(q, 1, n), TornTail) : n \in m .. Len(q) - 1}
    PROVE  /\ left \in Seq(Nat) /\ DOMAIN left = 1 .. Len(left) /\ Len(left) \in Nat
           /\ \E n \in Nat : /\ n <= Len(q) /\ n <= Len(left)
                             /\ \A i \in 1 .. n : left[i] = q[i]
                             /\ \A i \in 1 .. Len(left) : i <= n \/ left[i] = TornTail
<1>a. Len(q) \in Nat BY LenProperties
<1>b. ASSUME NEW n \in Nat, n <= Len(q)
      PROVE  /\ SubSeq(q, 1, n) \in Seq(Nat) /\ Len(SubSeq(q, 1, n)) = n
             /\ \A i \in 1 .. n : SubSeq(q, 1, n)[i] = q[i]
  <2>1. \A i \in 1 .. n : i \in 1 .. Len(q) /\ q[i] \in Nat BY <1>a, <1>b, ElementOfSeq
  <2> QED BY <1>a, <1>b, <2>1, SubSeqProperties
<1>1. CASE left \in {SubSeq(q, 1, n) : n \in m .. Len(q)}
  <2>1. PICK n \in m .. Len(q) : left = SubSeq(q, 1, n) BY <1>1
  <2>2. n \in Nat /\ n <= Len(q) BY <1>a
  <2>3. left \in Seq(Nat) /\ Len(left) = n /\ \A i \in 1 .. n : left[i] = q[i] BY <1>b, <2>1, <2>2
  <2>4. DOMAIN left = 1 .. Len(left) /\ Len(left) \in Nat BY <2>3, LenProperties
  <2> QED BY <2>2, <2>3, <2>4
<1>2. CASE left \in {Append(SubSeq(q, 1, n), TornTail) : n \in m .. Len(q) - 1}
  <2>1. PICK n \in m .. Len(q) - 1 : left = Append(SubSeq(q, 1, n), TornTail) BY <1>2
  <2>2. n \in Nat /\ n <= Len(q) BY <1>a
  <2> DEFINE u == SubSeq(q, 1, n)
  <2>3. u \in Seq(Nat) /\ Len(u) = n /\ \A i \in 1 .. n : u[i] = q[i] BY <1>b, <2>2
  <2>4. TornTail \in Nat BY DEF TornTail
  <2>5. left = Append(u, TornTail) BY <2>1
  <2> HIDE DEF u
  <2>6. left \in Seq(Nat) /\ Len(left) = n + 1 /\ (\A i \in 1 .. n : left[i] = q[i]) /\ left[n + 1] = TornTail
        BY <2>2, <2>3, <2>4, <2>5, AppendIs
  <2>7. DOMAIN left = 1 .. Len(left) /\ Len(left) \in Nat BY <2>6, LenProperties
  <2>8. \A i \in 1 .. Len(left) : i <= n \/ left[i] = TornTail BY <2>2, <2>6, <2>7
  <2>9. n <= Len(left) BY <2>2, <2>6
  <2> QED BY <2>2, <2>6, <2>7, <2>8, <2>9
<1> QED BY <1>1, <1>2

(* A crash and the opening after it keep the spool: what is missing from   *)
(* the last segment is counted as gone.                                    *)
LEMMA SpoolReopens ==
    ASSUME SpoolInvariant, CrashAndOpen, UNCHANGED <<got, rejected>>
    PROVE  SpoolInvariant' /\ accepted' = accepted
<1> DEFINE cs == cursor.segment
           co == cursor.offset
           q == segments[writer]
<1>a. SpoolFiles /\ SpoolCursor /\ OneCopy /\ KeptOrSettled /\ SentWithFaults /\ WithoutFaults BY DEF SpoolInvariant
<1>b. PICK left \in CrashLeaves(writer) :
         /\ segments' = [segments EXCEPT ![writer] = left]
         /\ onDisk' = [onDisk EXCEPT ![writer] = Len(left)]
         /\ gone' = gone \cup (ToSet(q) \ (ToSet(left) \cup {TornTail}))
      BY DEF CrashAndOpen
<1>c. /\ UNCHANGED <<cursorFile, accepted, hidden, usable>> /\ write_segment' = writer /\ cursor' = OpenCursor
      /\ spoolFaults' = spoolFaults + 1 /\ spoolFaults < MaxSpoolFaults
      BY DEF CrashAndOpen, Faulty
<1>d. /\ writer \in DOMAIN segments /\ writer \in Nat \ {0} /\ q \in Seq(Nat) /\ Len(q) \in Nat /\ DOMAIN q = 1 .. Len(q)
      /\ onDisk[writer] \in Nat /\ onDisk[writer] <= Len(q) /\ cs \in Nat /\ co \in Nat /\ spoolFaults \in Nat
      BY <1>a, LenProperties, SpoolBounds DEF SpoolFiles, SpoolCursor
<1>e. /\ left \in Seq(Nat) /\ DOMAIN left = 1 .. Len(left) /\ Len(left) \in Nat
      /\ \E n \in Nat : /\ n <= Len(q) /\ n <= Len(left)
                        /\ \A i \in 1 .. n : left[i] = q[i]
                        /\ \A i \in 1 .. Len(left) : i <= n \/ left[i] = TornTail
  <2>1. left \in {SubSeq(q, 1, n) : n \in onDisk[writer] .. Len(q)}
                 \cup {Append(SubSeq(q, 1, n), TornTail) : n \in onDisk[writer] .. Len(q) - 1}
        BY DEF CrashLeaves
  <2>2. PICK m : m = onDisk[writer] OBVIOUS
  <2> HIDE DEF q
  <2> QED BY <1>d, <2>1, <2>2, CrashLeft
<1>f. PICK n \in Nat : /\ n <= Len(q) /\ n <= Len(left)
                       /\ \A i \in 1 .. n : left[i] = q[i]
                       /\ \A i \in 1 .. Len(left) : i <= n \/ left[i] = TornTail
      BY <1>e
<1>g. cursor' = cursor
  <2>1. CASE cursorFile.segment # 0 BY <2>1, <1>a, <1>c DEF SpoolCursor, OpenCursor
  <2>2. CASE cursorFile.segment = 0
    <3>1. 1 \in DOMAIN segments /\ cursor = Cursor(1, 0) BY <2>2, <1>a DEF SpoolCursor
    <3>2. \A y \in DOMAIN segments : y \in Nat \ {0} BY <1>a DEF SpoolFiles
    <3>3. \A y \in DOMAIN segments : 1 <= y BY <3>2
    <3>4. \A y \in DOMAIN segments : y <= 1 => y = 1 BY <3>2
    <3>5. Min(DOMAIN segments) = 1
      <4> DEFINE S == DOMAIN segments
                 P(x) == \A y \in S : x <= y
      <4>1. P(1) BY <3>3
      <4>2. \A x \in S : P(x) => x = 1 BY <3>1, <3>4
      <4> QED BY <3>1, <4>1, <4>2, Zenon DEF Min
    <3> QED BY <2>2, <3>1, <3>5, <1>c DEF OpenCursor
  <2> QED BY <2>1, <2>2
<1>h. /\ DOMAIN segments' = DOMAIN segments /\ segments'[writer] = left
      /\ \A t \in DOMAIN segments : t # writer => segments'[t] = segments[t]
      BY <1>b, <1>d
<1>i. writer' = writer BY <1>h DEF writer
<1>j. \A t \in DOMAIN segments : t \in Nat /\ Len(segments[t]) \in Nat BY <1>a, LenProperties DEF SpoolFiles
<1>k. \A t \in DOMAIN segments : \A i \in 1 .. Len(segments'[t]) :
         segments'[t][i] # TornTail =>
            /\ i \in Nat /\ i \in 1 .. Len(segments[t])
            /\ \A k \in 1 .. i : segments'[t][k] = segments[t][k]
  <2> SUFFICES ASSUME NEW t \in DOMAIN segments, NEW i \in 1 .. Len(segments'[t]), segments'[t][i] # TornTail
               PROVE  /\ i \in Nat /\ i \in 1 .. Len(segments[t])
                      /\ \A k \in 1 .. i : segments'[t][k] = segments[t][k]
      OBVIOUS
  <2>1. CASE t # writer BY <2>1, <1>h, <1>j
  <2>2. CASE t = writer
    <3>1. i \in 1 .. Len(left) /\ left[i] # TornTail BY <2>2, <1>h
    <3>2. i <= n /\ i \in Nat BY <3>1, <1>e, <1>f
    <3>3. \A k \in 1 .. i : k \in 1 .. n BY <3>2
    <3> QED BY <2>2, <3>1, <3>2, <3>3, <1>d, <1>f, <1>h
  <2> QED BY <2>1, <2>2
<1> HIDE DEF cs, co
<1>1. SpoolFiles'
  <2>1. segments' = [t \in DOMAIN segments' |-> segments'[t]] BY <1>a, <1>b DEF SpoolFiles
  <2>2. \A t \in DOMAIN segments' : segments'[t] \in Seq(Nat) BY <1>a, <1>e, <1>h DEF SpoolFiles
  <2>3. onDisk' \in [DOMAIN segments' -> Nat] BY <1>a, <1>b, <1>e, <1>h DEF SpoolFiles
  <2>4. \A t \in DOMAIN segments' : onDisk'[t] <= Len(segments'[t])
    <3> SUFFICES ASSUME NEW t \in DOMAIN segments' PROVE onDisk'[t] <= Len(segments'[t]) OBVIOUS
    <3>1. DOMAIN onDisk = DOMAIN segments BY <1>a DEF SpoolFiles
    <3>2. CASE t = writer
      <4>1. onDisk'[t] = Len(left) /\ segments'[t] = left BY <3>1, <3>2, <1>b, <1>d, <1>h
      <4> QED BY <4>1, <1>e
    <3>3. CASE t # writer
      <4>1. onDisk'[t] = onDisk[t] /\ segments'[t] = segments[t] BY <3>1, <3>3, <1>b, <1>h
      <4> QED BY <4>1, <1>a, <1>h DEF SpoolFiles
    <3> QED BY <3>2, <3>3
  <2> QED BY <1>a, <1>c, <1>d, <1>h, <1>i, <2>1, <2>2, <2>3, <2>4 DEF SpoolFiles
<1>2. SpoolCursor'
  <2>1. spoolFaults' \in 0 .. MaxSpoolFaults BY <1>c, <1>d, SpoolBounds
  <2> QED BY <1>a, <1>c, <1>g, <1>h, <1>i, <2>1 DEF SpoolCursor
<1>3. OneCopy'
  <2>1. ASSUME NEW t \in DOMAIN segments', NEW i \in 1 .. Len(segments'[t]), segments'[t][i] # TornTail
        PROVE  t \in DOMAIN segments /\ i \in 1 .. Len(segments[t]) /\ segments'[t][i] = segments[t][i]
    <3>1. i \in Nat /\ i \in 1 .. Len(segments[t]) /\ \A k \in 1 .. i : segments'[t][k] = segments[t][k]
          BY <2>1, <1>h, <1>k
    <3>2. i \in 1 .. i BY <3>1, <1>h, <1>j
    <3> QED BY <3>1, <3>2, <1>h
  <2>2. ASSUME NEW t \in DOMAIN segments', NEW u \in DOMAIN segments',
               NEW i \in 1 .. Len(segments'[t]), NEW j \in 1 .. Len(segments'[u]),
               segments'[t][i] = segments'[u][j], segments'[t][i] # TornTail
        PROVE  t = u /\ i = j
    <3>1. t \in DOMAIN segments /\ i \in 1 .. Len(segments[t]) /\ segments'[t][i] = segments[t][i] BY <2>1, <2>2
    <3>2. u \in DOMAIN segments /\ j \in 1 .. Len(segments[u]) /\ segments'[u][j] = segments[u][j] BY <2>1, <2>2
    <3>3. segments[t][i] = segments[u][j] /\ segments[t][i] # TornTail BY <2>2, <3>1, <3>2
    <3> QED BY <3>1, <3>2, <3>3, <1>a DEF OneCopy
  <2>3. accepted' \subseteq 1 .. MaxOffered BY <1>a, <1>c DEF OneCopy
  <2>4. \A t \in DOMAIN segments' : \A i \in 1 .. Len(segments'[t]) :
           segments'[t][i] # TornTail => segments'[t][i] \in accepted'
        BY <2>1, <1>a, <1>c DEF OneCopy
  <2> QED BY <2>2, <2>3, <2>4 DEF OneCopy
<1>4. KeptOrSettled'
  <2> SUFFICES ASSUME NEW r \in accepted' \ (gone' \cup hidden'), r \notin FrameSettled'
               PROVE  \E t \in DOMAIN segments' : \E i \in 1 .. Len(segments'[t]) :
                         Unread(segments', cursor'.segment, cursor'.offset, t, i) /\ segments'[t][i] = r
      BY DEF KeptOrSettled
  <2>0. r \in accepted \ (gone \cup hidden) /\ r \notin FrameSettled BY <1>b, <1>c, SettledSame
  <2>1. PICK t \in DOMAIN segments : \E i \in 1 .. Len(segments[t]) :
           Unread(segments, cs, co, t, i) /\ segments[t][i] = r
        BY <2>0, <1>a DEF KeptOrSettled, cs, co
  <2>2. PICK i \in 1 .. Len(segments[t]) : Unread(segments, cs, co, t, i) /\ segments[t][i] = r
        BY <2>1
  <2>3. t \in Nat /\ i \in Nat /\ r # TornTail BY <2>2, UnreadIsFrame DEF cs, co
  <2>4. i \in 1 .. Len(segments'[t]) /\ \A k \in 1 .. i : segments[t][k] = segments'[t][k]
    <3>1. CASE t # writer BY <3>1, <1>h
    <3>2. CASE t = writer
      <4>1. i <= n
        <5> SUFFICES ASSUME i > n PROVE FALSE BY <2>3
        <5>1. r \in ToSet(q) BY <2>2, <3>2, <1>d DEF ToSet
        <5>2. r \in ToSet(left) BY <5>1, <2>3, <1>b
        <5>3. PICK j \in 1 .. Len(left) : left[j] = r BY <5>2, <1>e DEF ToSet
        <5>4. j <= n /\ j \in Nat BY <5>3, <2>3, <1>e, <1>f
        <5>5. q[j] = r /\ j \in 1 .. Len(q) BY <5>3, <5>4, <1>d, <1>f
        <5>6. j = i BY <5>5, <2>2, <2>3, <3>2, <1>a, <1>d DEF OneCopy
        <5> QED BY <5>4, <5>6
      <4>2. i \in 1 .. Len(left) /\ \A k \in 1 .. i : k \in 1 .. n BY <4>1, <2>2, <2>3, <1>e, <1>f, <1>j
      <4> QED BY <3>2, <4>2, <1>f, <1>h
    <3> QED BY <3>1, <3>2
  <2>5. t \in DOMAIN segments' BY <1>h
  <2>6. Unread(segments', cs, co, t, i) BY <2>2, <2>3, <2>4, <2>5, <1>d, UnreadSame
  <2>7. i \in 1 .. i BY <2>2, <2>3, <1>j
  <2> QED BY <2>2, <2>4, <2>5, <2>6, <2>7, <1>g DEF cs, co
<1>5. SentWithFaults'
  <2>1. \A r \in 1 .. MaxOffered : got'[r] <= 1 + spoolFaults'
    <3>1. \A r \in 1 .. MaxOffered : got[r] \in Nat /\ got[r] <= 1 + spoolFaults BY <1>a DEF SentWithFaults
    <3> QED BY <3>1, <1>c, <1>d
  <2>2. ASSUME NEW t \in DOMAIN segments', NEW i \in 1 .. Len(segments'[t]),
               Unread(segments', cursor'.segment, cursor'.offset, t, i)
        PROVE  got'[segments'[t][i]] <= spoolFaults'
    <3>0. Unread(segments', cs, co, t, i) BY <2>2, <1>g DEF cs, co
    <3>1. t \in Nat /\ t \in DOMAIN segments /\ Len(segments'[t]) \in Nat BY <1>e, <1>h, <1>j
    <3>2. i \in Nat /\ Start(cs, co, t) \in Nat BY <3>1, <1>d DEF Start
    <3>3. i \in Start(cs, co, t) + 1 .. i BY <3>0, <3>2 DEF Unread
    <3>4. segments'[t][i] # TornTail BY <3>0, <3>3 DEF Unread
    <3>5. i \in 1 .. Len(segments[t]) /\ \A k \in 1 .. i : segments'[t][k] = segments[t][k] BY <3>1, <3>4, <1>k
    <3>6. Unread(segments, cs, co, t, i) BY <3>0, <3>1, <3>2, <3>5, <1>d, UnreadSame
    <3>7. segments[t][i] \in 1 .. MaxOffered BY <3>6, UnreadIsFrame DEF cs, co
    <3>8. got[segments[t][i]] \in Nat /\ got[segments[t][i]] <= spoolFaults
          BY <3>1, <3>5, <3>6, <3>7, <1>a DEF SentWithFaults, cs, co
    <3>9. segments'[t][i] = segments[t][i] BY <3>2, <3>5
    <3> QED BY <3>8, <3>9, <1>c, <1>d
  <2> QED BY <2>1, <2>2, <1>a, <1>c DEF SentWithFaults
<1>6. WithoutFaults' BY <1>c, <1>d DEF WithoutFaults
<1> QED BY <1>1, <1>2, <1>3, <1>4, <1>5, <1>6, <1>c DEF SpoolInvariant

(* Ahead holds the unread cells.                                           *)
LEMMA AheadIs ==
    ASSUME SpoolInvariant
    PROVE  \A c : c \in Ahead <=> \E s, i \in Nat : c = Cursor(s, i) /\ Unread(segments, cursor.segment, cursor.offset, s, i)
<1>a. \A s \in DOMAIN segments : s \in Nat /\ Len(segments[s]) \in Nat /\ DOMAIN segments[s] = 1 .. Len(segments[s])
      BY LenProperties DEF SpoolInvariant, SpoolFiles
<1>b. \A s, i : Cursor(s, i).segment = s /\ Cursor(s, i).offset = i BY DEF Cursor
<1>c. \A s : StartIn(s) = Start(cursor.segment, cursor.offset, s) BY DEF StartIn, Start
<1> SUFFICES ASSUME NEW c
             PROVE  c \in Ahead <=> \E s, i \in Nat : c = Cursor(s, i) /\ Unread(segments, cursor.segment, cursor.offset, s, i)
    OBVIOUS
<1>1. ASSUME c \in Ahead
      PROVE  \E s, i \in Nat : c = Cursor(s, i) /\ Unread(segments, cursor.segment, cursor.offset, s, i)
  <2>1. /\ c \in UNION {{Cursor(s, i) : i \in DOMAIN segments[s]} : s \in DOMAIN segments}
        /\ c.segment >= cursor.segment /\ c.offset > StartIn(c.segment)
        /\ \A k \in StartIn(c.segment) + 1 .. c.offset : segments[c.segment][k] # TornTail
        BY <1>1 DEF Ahead, list_segments
  <2>2. PICK s \in DOMAIN segments : c \in {Cursor(s, i) : i \in DOMAIN segments[s]} BY <2>1
  <2>3. PICK i \in DOMAIN segments[s] : c = Cursor(s, i) BY <2>2
  <2>4. s \in Nat /\ i \in Nat /\ i \in 1 .. Len(segments[s]) BY <1>a
  <2>5. Unread(segments, cursor.segment, cursor.offset, s, i) BY <2>1, <2>3, <2>4, <1>b, <1>c DEF Unread
  <2> QED BY <2>3, <2>4, <2>5
<1>2. ASSUME NEW s \in Nat, NEW i \in Nat, c = Cursor(s, i), Unread(segments, cursor.segment, cursor.offset, s, i)
      PROVE  c \in Ahead
  <2>1. s \in DOMAIN segments /\ i \in DOMAIN segments[s] BY <1>2, <1>a DEF Unread
  <2>2. c \in UNION {{Cursor(t, j) : j \in DOMAIN segments[t]} : t \in DOMAIN segments}
    <3>1. c \in {Cursor(s, j) : j \in DOMAIN segments[s]} BY <1>2, <2>1
    <3> QED BY <2>1, <3>1
  <2>3. /\ c.segment >= cursor.segment /\ c.offset > StartIn(c.segment)
        /\ \A k \in StartIn(c.segment) + 1 .. c.offset : segments[c.segment][k] # TornTail
        BY <1>2, <1>b, <1>c DEF Unread
  <2> QED BY <2>2, <2>3 DEF Ahead, list_segments
<1> QED BY <1>1, <1>2

(* The pairs of a number with an interval are finitely many.               *)
LEMMA FiniteImage ==
    ASSUME NEW S, NEW T, IsFiniteSet(S), NEW g, DOMAIN g = S, T = {g[x] : x \in S}
    PROVE  IsFiniteSet(T)
<1> DEFINE h == [x \in S |-> g[x]]
<1>1. h \in [S -> T] BY DEF h
<1>2. \A y \in T : \E x \in S : h[x] = y BY DEF h
<1>3. h \in Surjection(S, T) BY <1>1, <1>2 DEF Surjection
<1> QED BY <1>3, FS_Surjection

(* There are finitely many unread cells.                                   *)
LEMMA AheadIsFinite == ASSUME SpoolInvariant PROVE IsFiniteSet(Ahead) /\ Cardinality(Ahead) \in Nat
<1> DEFINE In(s) == {Cursor(s, i) : i \in DOMAIN segments[s]}
           Sets == {In(s) : s \in DOMAIN segments}
<1>1. IsFiniteSet(DOMAIN segments)
  <2>1. DOMAIN segments \subseteq 0 .. writer /\ writer \in Nat BY DEF SpoolInvariant, SpoolFiles
  <2>2. IsFiniteSet(0 .. writer)
    <3>1. 0 \in Int /\ writer \in Int BY <2>1
    <3> QED BY ONLY <3>1, FS_Interval
  <2> QED BY <2>1, <2>2, FS_Subset
<1>2. \A s \in DOMAIN segments : IsFiniteSet(In(s))
  <2> SUFFICES ASSUME NEW s \in DOMAIN segments PROVE IsFiniteSet(In(s)) OBVIOUS
  <2>1. DOMAIN segments[s] = 1 .. Len(segments[s]) /\ Len(segments[s]) \in Nat
        BY LenProperties DEF SpoolInvariant, SpoolFiles
  <2>2. IsFiniteSet(DOMAIN segments[s])
    <3>1. 1 \in Int /\ Len(segments[s]) \in Int BY <2>1
    <3>2. IsFiniteSet(1 .. Len(segments[s])) BY ONLY <3>1, FS_Interval
    <3> QED BY ONLY <2>1, <3>2
  <2>3. PICK g : g = [i \in DOMAIN segments[s] |-> Cursor(s, i)] OBVIOUS
  <2>4. DOMAIN g = DOMAIN segments[s] /\ In(s) = {g[i] : i \in DOMAIN segments[s]} BY <2>3
  <2> QED BY <2>2, <2>4, FiniteImage
<1>3. IsFiniteSet(Sets)
  <2>1. PICK g : g = [s \in DOMAIN segments |-> In(s)] OBVIOUS
  <2> HIDE DEF In
  <2>2. DOMAIN g = DOMAIN segments /\ Sets = {g[s] : s \in DOMAIN segments} BY <2>1
  <2> QED BY <1>1, <2>2, FiniteImage
<1>4. IsFiniteSet(UNION Sets) BY <1>2, <1>3, FS_UNION
<1>5. Ahead \subseteq UNION Sets BY DEF Ahead, list_segments
<1> QED BY <1>4, <1>5, FS_Subset, FS_CardinalityType

(* They are in one order.                                                  *)
LEMMA AheadOrder ==
    ASSUME SpoolInvariant
    PROVE  /\ \A c \in Ahead : c \in [segment : Nat, offset : Nat]
           /\ \A c \in Ahead : ~Earlier(c, c)
           /\ \A c, d \in Ahead : c = d \/ Earlier(c, d) \/ Earlier(d, c)
           /\ \A c, d, e \in Ahead : Earlier(c, d) /\ Earlier(d, e) => Earlier(c, e)
<1>1. ASSUME NEW c \in Ahead
      PROVE  c \in [segment : Nat, offset : Nat] /\ c = Cursor(c.segment, c.offset)
             /\ c.segment \in Nat /\ c.offset \in Nat
  <2>1. PICK s, i \in Nat : c = Cursor(s, i) BY AheadIs
  <2> QED BY <2>1 DEF Cursor
<1>2. \A c, d \in Ahead : c = d \/ Earlier(c, d) \/ Earlier(d, c)
  <2> SUFFICES ASSUME NEW c \in Ahead, NEW d \in Ahead PROVE c = d \/ Earlier(c, d) \/ Earlier(d, c) OBVIOUS
  <2>1. CASE c.segment = d.segment /\ c.offset = d.offset BY <1>1, <2>1
  <2>2. CASE ~(c.segment = d.segment /\ c.offset = d.offset) BY <1>1, <2>2 DEF Earlier
  <2> QED BY <2>1, <2>2
<1>3. \A c, d, e \in Ahead : Earlier(c, d) /\ Earlier(d, e) => Earlier(c, e)
  <2> SUFFICES ASSUME NEW c \in Ahead, NEW d \in Ahead, NEW e \in Ahead, Earlier(c, d), Earlier(d, e)
               PROVE  Earlier(c, e)
      OBVIOUS
  <2>1. /\ c.segment \in Nat /\ c.offset \in Nat /\ d.segment \in Nat /\ d.offset \in Nat
        /\ e.segment \in Nat /\ e.offset \in Nat
        BY <1>1
  <2> QED BY <2>1 DEF Earlier
<1>4. \A c \in Ahead : ~Earlier(c, c) BY <1>1 DEF Earlier
<1> QED BY <1>1, <1>2, <1>3, <1>4

(* The place of a cell grows with that order, and is at most their number. *)
LEMMA PlacesGrow ==
    ASSUME SpoolInvariant, NEW c \in Ahead
    PROVE  /\ PlaceOf(c) \in 1 .. Cardinality(Ahead)
           /\ \A d \in Ahead : Earlier(c, d) => PlaceOf(c) < PlaceOf(d)
<1> DEFINE Upto(d) == {e \in Ahead : e = d \/ Earlier(e, d)}
<1>1. \A d : Upto(d) \subseteq Ahead /\ PlaceOf(d) = Cardinality(Upto(d)) BY DEF PlaceOf
<1>2. IsFiniteSet(Ahead) /\ Cardinality(Ahead) \in Nat BY AheadIsFinite
<1>3. \A d : IsFiniteSet(Upto(d)) /\ Cardinality(Upto(d)) \in Nat /\ Cardinality(Upto(d)) <= Cardinality(Ahead)
      BY <1>1, <1>2, FS_Subset, FS_CardinalityType
<1>4. Cardinality(Upto(c)) # 0
  <2>1. c \in Upto(c) OBVIOUS
  <2> HIDE DEF Upto
  <2> QED BY <2>1, <1>3, FS_EmptySet
<1>5. ASSUME NEW d \in Ahead, Earlier(c, d) PROVE Cardinality(Upto(c)) < Cardinality(Upto(d))
  <2>1. Upto(c) \subseteq Upto(d) BY <1>5, AheadOrder
  <2>2. d \in Upto(d) /\ d \notin Upto(c) BY <1>5, AheadOrder
  <2> HIDE DEF Upto
  <2>3. Cardinality(Upto(c)) <= Cardinality(Upto(d))
        /\ (Cardinality(Upto(c)) = Cardinality(Upto(d)) => Upto(c) = Upto(d))
        BY <2>1, <1>3, FS_Subset
  <2> QED BY <2>2, <2>3, <1>3
<1> HIDE DEF Upto
<1>6. PlaceOf(c) \in 1 .. Cardinality(Ahead) BY <1>1, <1>2, <1>3, <1>4
<1> QED BY <1>1, <1>5, <1>6

(* Two cells have two places.                                              *)
LEMMA PlacesTell ==
    ASSUME SpoolInvariant, NEW c \in Ahead, NEW d \in Ahead
    PROVE  /\ PlaceOf(c) = PlaceOf(d) => c = d
           /\ PlaceOf(c) < PlaceOf(d) => Earlier(c, d)
<1>1. PlaceOf(c) \in Nat /\ PlaceOf(d) \in Nat BY PlacesGrow, AheadIsFinite
<1>2. c = d \/ Earlier(c, d) \/ Earlier(d, c) BY AheadOrder
<1>3. Earlier(c, d) => PlaceOf(c) < PlaceOf(d) BY PlacesGrow
<1>4. Earlier(d, c) => PlaceOf(d) < PlaceOf(c) BY PlacesGrow
<1> QED BY <1>1, <1>2, <1>3, <1>4

(* Every place up to their number is taken.                                *)
LEMMA PlacesAreTaken ==
    ASSUME SpoolInvariant, NEW n \in 1 .. Cardinality(Ahead)
    PROVE  \E c \in Ahead : PlaceOf(c) = n
<1> DEFINE N == Cardinality(Ahead)
           g == [c \in Ahead |-> PlaceOf(c)]
           Img == {PlaceOf(c) : c \in Ahead}
<1>1. IsFiniteSet(Ahead) /\ N \in Nat BY AheadIsFinite
<1>2. Img \subseteq 1 .. N BY PlacesGrow
<1>3. g \in Bijection(Ahead, Img)
  <2>1. g \in [Ahead -> Img] OBVIOUS
  <2>2. \A c, d \in Ahead : g[c] = g[d] => c = d BY PlacesTell
  <2>3. \A y \in Img : \E c \in Ahead : g[c] = y OBVIOUS
  <2> HIDE DEF g, Img
  <2> QED BY <2>1, <2>2, <2>3 DEF Bijection, Injection, Surjection, IsInjective
<1> HIDE DEF g
<1>4. IsFiniteSet(Img) /\ Cardinality(Img) = N
  <2> HIDE DEF Img
  <2>1. IsFiniteSet(Img) /\ Cardinality(Img) = Cardinality(Ahead)
        BY <1>1, <1>3, FS_Bijection DEF ExistsBijection
  <2> QED BY <2>1
<1>5. IsFiniteSet(1 .. N) /\ Cardinality(1 .. N) = N
  <2>1. 1 \in Int /\ N \in Int BY <1>1
  <2>2. IsFiniteSet(1 .. N) /\ Cardinality(1 .. N) = IF 1 > N THEN 0 ELSE N - 1 + 1 BY <2>1, FS_Interval
  <2> HIDE DEF N
  <2> QED BY <2>2, <1>1
<1>6. Img = 1 .. N
  <2> HIDE DEF Img, N
  <2> QED BY <1>2, <1>4, <1>5, FS_Subset
<1> QED BY <1>6

(* Undelivered lists the unread cells, each at its place.                  *)
LEMMA UndeliveredIs ==
    ASSUME SpoolInvariant
    PROVE  /\ Undelivered \in Seq([end : [segment : Nat, offset : Nat], frame : Nat])
           /\ Len(Undelivered) = Cardinality(Ahead) /\ Len(Undelivered) \in Nat
           /\ \A n \in 1 .. Cardinality(Ahead) :
                 /\ Undelivered[n].end \in Ahead /\ PlaceOf(Undelivered[n].end) = n
                 /\ Undelivered[n].frame = FrameAt(Undelivered[n].end)
<1> DEFINE N == Cardinality(Ahead)
           At(n) == CHOOSE c \in Ahead : PlaceOf(c) = n
           E == [end : [segment : Nat, offset : Nat], frame : Nat]
<1>1. N \in Nat BY AheadIsFinite
<1>2. \A n \in 1 .. N : At(n) \in Ahead /\ PlaceOf(At(n)) = n BY PlacesAreTaken
<1>3. Undelivered = [n \in 1 .. N |-> [end |-> At(n), frame |-> FrameAt(At(n))]] BY DEF Undelivered
<1>4. ASSUME NEW c \in Ahead PROVE c \in [segment : Nat, offset : Nat] /\ FrameAt(c) \in Nat
  <2>1. PICK s, i \in Nat : c = Cursor(s, i) /\ Unread(segments, cursor.segment, cursor.offset, s, i) BY AheadIs
  <2>2. segments[s][i] \in 1 .. MaxOffered BY <2>1, UnreadIsFrame
  <2>3. c.segment = s /\ c.offset = i /\ c \in [segment : Nat, offset : Nat] BY <2>1 DEF Cursor
  <2> QED BY <2>2, <2>3 DEF FrameAt
<1> HIDE DEF N, At
<1>5. \A n \in 1 .. N : [end |-> At(n), frame |-> FrameAt(At(n))] \in E BY <1>2, <1>4
<1>6. Undelivered \in [1 .. N -> E] BY <1>3, <1>5
<1>7. Undelivered \in Seq(E) /\ Len(Undelivered) = N
  <2> HIDE DEF E
  <2>1. Undelivered \in Seq(E) BY <1>1, <1>6, IsASeq
  <2>2. DOMAIN Undelivered = 1 .. N BY <1>6
  <2>3. Len(Undelivered) \in Nat /\ DOMAIN Undelivered = 1 .. Len(Undelivered) BY <2>1, LenProperties
  <2> QED BY <1>1, <2>1, <2>2, <2>3
<1>8. \A n \in 1 .. N : Undelivered[n].end = At(n) /\ Undelivered[n].frame = FrameAt(At(n)) BY <1>3
<1> QED BY <1>1, <1>2, <1>7, <1>8 DEF N

(* An unread frame is among the reachable ones.                            *)
LEMMA UnreadIsReachable ==
    ASSUME SpoolInvariant, NEW s \in Nat, NEW i \in Nat, Unread(segments, cursor.segment, cursor.offset, s, i)
    PROVE  segments[s][i] \in Reachable
<1>1. PICK c : c = Cursor(s, i) OBVIOUS
<1>2. c \in Ahead /\ FrameAt(c) = segments[s][i] BY <1>1, AheadIs DEF FrameAt, Cursor
<1>3. PICK n : n = PlaceOf(c) OBVIOUS
<1>4. n \in 1 .. Cardinality(Ahead) BY <1>2, <1>3, PlacesGrow
<1>5. Undelivered[n].end \in Ahead /\ PlaceOf(Undelivered[n].end) = n
      /\ Undelivered[n].frame = FrameAt(Undelivered[n].end)
      BY <1>4, UndeliveredIs
<1>6. Undelivered[n].end = c BY <1>2, <1>3, <1>5, PlacesTell
<1>7. n \in DOMAIN Undelivered BY <1>4, UndeliveredIs, LenProperties
<1> QED BY <1>2, <1>5, <1>6, <1>7 DEF Reachable, FramesOf

(* peek is the front of that list.                                         *)
LEMMA PeekIs ==
    ASSUME SpoolInvariant, NEW max \in Nat
    PROVE  /\ peek(max) \in Seq([end : [segment : Nat, offset : Nat], frame : Nat])
           /\ Len(peek(max)) \in Nat /\ Len(peek(max)) <= max
           /\ \A n \in 1 .. Len(peek(max)) :
                 /\ peek(max)[n].end \in Ahead /\ PlaceOf(peek(max)[n].end) = n
                 /\ peek(max)[n].frame = FrameAt(peek(max)[n].end)
<1> DEFINE u == Undelivered
           E == [end : [segment : Nat, offset : Nat], frame : Nat]
           k == Min({max, Len(Undelivered)})
<1>1. /\ u \in Seq(E) /\ Len(u) \in Nat /\ Len(u) = Cardinality(Ahead)
      /\ \A n \in 1 .. Cardinality(Ahead) :
            u[n].end \in Ahead /\ PlaceOf(u[n].end) = n /\ u[n].frame = FrameAt(u[n].end)
      BY UndeliveredIs
<1>2. k \in Nat /\ k <= max /\ k <= Len(u)
  <2>1. \E x \in {max, Len(u)} : \A y \in {max, Len(u)} : x =< y BY <1>1
  <2>2. k \in {max, Len(u)} /\ \A y \in {max, Len(u)} : k =< y BY <2>1, Zenon DEF Min
  <2> HIDE DEF k
  <2> QED BY <1>1, <2>2
<1>3. peek(max) = SubSeq(u, 1, k) BY DEF peek
<1> HIDE DEF u, k, E
<1>4. \A n \in 1 .. k : n \in 1 .. Len(u) /\ u[n] \in E BY <1>1, <1>2, ElementOfSeq
<1>5. peek(max) \in Seq(E) /\ Len(peek(max)) = k /\ \A n \in 1 .. k : peek(max)[n] = u[n]
      BY <1>1, <1>2, <1>3, <1>4, SubSeqProperties
<1> QED BY <1>1, <1>2, <1>4, <1>5 DEF E

(* What peek returns is as deliver needs it.                               *)
LEMMA PeekInHand ==
    ASSUME SpoolInvariant, UNCHANGED <<segments, cursor>>, sender' \in {"deliver", "lastDeliver"},
           todo' = peek(FRAMES_PER_PASS)
    PROVE  InHand'
<1> DEFINE p == peek(FRAMES_PER_PASS)
<1>0. FRAMES_PER_PASS \in Nat BY PeerSyncAssumption
<1>1. /\ p \in Seq([end : [segment : Nat, offset : Nat], frame : Nat])
      /\ Len(p) \in Nat /\ Len(p) <= FRAMES_PER_PASS
      /\ \A n \in 1 .. Len(p) :
            p[n].end \in Ahead /\ PlaceOf(p[n].end) = n /\ p[n].frame = FrameAt(p[n].end)
      BY <1>0, PeekIs
<1> HIDE DEF p
<1>2. ASSUME NEW n \in 1 .. Len(p)
      PROVE  /\ p[n].end.segment \in Nat /\ p[n].end.offset \in Nat
             /\ p[n].end = Cursor(p[n].end.segment, p[n].end.offset)
             /\ Unread(segments, cursor.segment, cursor.offset, p[n].end.segment, p[n].end.offset)
             /\ p[n].frame = segments[p[n].end.segment][p[n].end.offset]
  <2>1. PICK s, i \in Nat : p[n].end = Cursor(s, i) /\ Unread(segments, cursor.segment, cursor.offset, s, i)
        BY <1>1, AheadIs
  <2>2. p[n].end.segment = s /\ p[n].end.offset = i BY <2>1 DEF Cursor
  <2> QED BY <2>1, <2>2, <1>1 DEF FrameAt
<1>3. ASSUME NEW m \in 1 .. Len(p), NEW n \in 1 .. Len(p), m < n
      PROVE  Before(p[m].end.segment, p[m].end.offset, p[n].end.segment, p[n].end.offset)
  <2>1. p[m].end \in Ahead /\ p[n].end \in Ahead /\ PlaceOf(p[m].end) = m /\ PlaceOf(p[n].end) = n BY <1>1
  <2>2. Earlier(p[m].end, p[n].end) BY <1>3, <2>1, PlacesTell
  <2> QED BY <2>2 DEF Earlier, Before
<1>4. ASSUME NEW n \in 1 .. Len(p), NEW s \in Nat, NEW i \in Nat,
             Unread(segments, cursor.segment, cursor.offset, s, i),
             Before(s, i, p[n].end.segment, p[n].end.offset)
      PROVE  \E m \in 1 .. Len(p) : m < n /\ p[m].end.segment = s /\ p[m].end.offset = i
  <2>1. PICK c : c = Cursor(s, i) OBVIOUS
  <2>2. c \in Ahead /\ c.segment = s /\ c.offset = i BY <1>4, <2>1, AheadIs DEF Cursor
  <2>3. Earlier(c, p[n].end) BY <1>4, <2>2 DEF Earlier, Before
  <2>4. PICK m : m = PlaceOf(c) OBVIOUS
  <2>5. m \in 1 .. Cardinality(Ahead) /\ m < n BY <2>2, <2>3, <2>4, <1>1, PlacesGrow
  <2>6. m \in 1 .. Len(p) BY <2>5, <1>1, AheadIsFinite
  <2>7. p[m].end \in Ahead /\ PlaceOf(p[m].end) = m BY <2>6, <1>1
  <2>8. p[m].end = c BY <2>2, <2>4, <2>7, PlacesTell
  <2> QED BY <2>2, <2>5, <2>6, <2>8
<1>5. todo' = p /\ segments' = segments /\ cursor' = cursor BY DEF p
<1>6. FrontOf(segments, cursor, p) BY <1>1, <1>2, <1>3, <1>4 DEF FrontOf
<1> QED BY <1>5, <1>6 DEF InHand

(* A pass that holds nothing is as deliver needs it.                       *)
LEMMA EmptyHanded == ASSUME todo' = <<>> PROVE InHand'
<1>1. <<>> \in Seq([end : [segment : Nat, offset : Nat], frame : Nat]) /\ Len(<<>>) = 0 BY EmptySeq
<1>2. 1 .. 0 = {} OBVIOUS
<1>3. FRAMES_PER_PASS \in Nat BY PeerSyncAssumption
<1> QED BY <1>1, <1>2, <1>3 DEF InHand, FrontOf

(* A step that leaves the spool, the peer and its refusals alone keeps the *)
(* spool.                                                                  *)
LEMMA SpoolStays ==
    ASSUME SpoolInvariant, UNCHANGED <<spoolVars, got, rejected>>
    PROVE  SpoolInvariant'
<1>1. UNCHANGED <<segments, onDisk, write_segment, cursor, cursorFile, accepted, hidden, gone, usable, spoolFaults>>
      BY DEF spoolVars
<1>2. /\ spoolFaults \in Nat /\ usable \in BOOLEAN /\ onDisk \in [DOMAIN segments -> Nat]
      /\ \A s \in DOMAIN segments : onDisk[s] <= Len(segments[s])
      BY SpoolBounds DEF SpoolInvariant, SpoolFiles, SpoolCursor
<1>3. SentWithFaults' BY <1>1, <1>2, SentSame
<1>4. FrameSettled \subseteq FrameSettled' BY SettledSame
<1> QED BY <1>1, <1>2, <1>3, <1>4, SpoolSame

(* A step that leaves the spool and the pass alone keeps what deliver      *)
(* holds.                                                                  *)
LEMMA HandStays ==
    ASSUME InHand, UNCHANGED <<segments, cursor, todo>>, sender' = sender \/ todo = <<>>
    PROVE  InHand'
BY DEF InHand

(* A step that leaves the channel and the counts alone keeps them.         *)
LEMMA ChannelStays ==
    ASSUME InChannel, Parted, UNCHANGED <<rx, recordsMade, accepted, dropVars, fetchHeld>>
    PROVE  InChannel' /\ Parted'
<1>1. UNCHANGED <<counted, leftOut, withdrawn, lostItems>> BY DEF dropVars
<1>2. Chan' = Chan /\ Hand' = Hand /\ NeverSent' = NeverSent BY <1>1 DEF Chan, Hand, NeverSent
<1> QED BY <1>2 DEF InChannel, Parted

(* A step that leaves alone what the last round is about.                  *)
LEMMA RoundStays ==
    ASSUME LastRound, UNCHANGED <<rx, sender, syncStopping, lostItems>>, syncStop => syncStop',
           spoolFaults' = 0 => spoolFaults = 0
    PROVE  LastRound'
BY DEF LastRound

(* One more record is one more number.                                     *)
LEMMA OneMore ==
    ASSUME NEW n \in Nat
    PROVE  1 .. n + 1 = (1 .. n) \cup {n + 1} /\ n + 1 \notin 1 .. n /\ n + 1 # 0
OBVIOUS

(* What the channel holds, when there are more records than before.        *)
LEMMA ItemsGrow ==
    ASSUME InChannel, NEW m \in Nat, recordsMade <= m
    PROVE  rx \in Seq(ItemsTo(m)) /\ recordsMade \in Nat
<1>1. recordsMade \in Nat BY PeerSyncAssumption DEF InChannel
<1>2. ItemsTo(recordsMade) \subseteq ItemsTo(m) BY <1>1 DEF ItemsTo
<1> QED BY <1>1, <1>2, SeqMonotonic DEF InChannel

(* An item that is appended joins the records of the channel.              *)
LEMMA ChannelAppends ==
    ASSUME InChannel, NEW m \in 0 .. MaxOffered, recordsMade <= m, recordsMade' = m,
           NEW k \in {"live", "backfill"}, NEW x \in 1 .. m, x \notin Chan,
           Len(rx) < TAP_CAPACITY, rx' = Append(rx, Item(k, x))
    PROVE  InChannel' /\ Chan' = Chan \cup {x}
<1>1. m \in Nat /\ TAP_CAPACITY \in Nat BY PeerSyncAssumption
<1>2. rx \in Seq(ItemsTo(m)) BY <1>1, ItemsGrow
<1>3. PICK it : it = Item(k, x) OBVIOUS
<1>4. it \in ItemsTo(m) /\ it.record = x BY <1>3 DEF Item, ItemsTo
<1>5. /\ rx' \in Seq(ItemsTo(m)) /\ Len(rx') = Len(rx) + 1 /\ Len(rx) \in Nat
      /\ \A i \in 1 .. Len(rx) : rx'[i] = rx[i]
      /\ rx'[Len(rx) + 1] = it
      BY <1>2, <1>3, <1>4, AppendProperties, LenProperties
<1>6. \A i \in 1 .. Len(rx') : i \in 1 .. Len(rx) \/ i = Len(rx) + 1 BY <1>5
<1>7. DOMAIN rx = 1 .. Len(rx) /\ DOMAIN rx' = 1 .. Len(rx') BY <1>2, <1>5, LenProperties
<1>8. \A i \in 1 .. Len(rx) : rx[i].record # x BY <1>7 DEF Chan
<1>9. ASSUME NEW i \in 1 .. Len(rx'), NEW j \in 1 .. Len(rx'), rx'[i].record = rx'[j].record PROVE i = j
  <2>1. CASE i \in 1 .. Len(rx) /\ j \in 1 .. Len(rx) BY <2>1, <1>5, <1>9 DEF InChannel
  <2>2. CASE i \in 1 .. Len(rx) /\ j = Len(rx) + 1 BY <2>2, <1>4, <1>5, <1>8, <1>9
  <2>3. CASE i = Len(rx) + 1 /\ j \in 1 .. Len(rx) BY <2>3, <1>4, <1>5, <1>8, <1>9
  <2>4. CASE i = Len(rx) + 1 /\ j = Len(rx) + 1 BY <2>4
  <2> QED BY <2>1, <2>2, <2>3, <2>4, <1>6
<1>10. Chan' = Chan \cup {x}
  <2>1. Len(rx) + 1 \in DOMAIN rx' /\ \A i \in DOMAIN rx : i \in DOMAIN rx' BY <1>5, <1>7
  <2> QED BY <2>1, <1>4, <1>5, <1>6, <1>7 DEF Chan
<1>11. Len(rx') <= TAP_CAPACITY BY <1>1, <1>5
<1> QED BY <1>5, <1>9, <1>10, <1>11 DEF InChannel

(* An item that is taken leaves them.                                      *)
LEMMA ChannelTakes ==
    ASSUME InChannel, rx # <<>>, rx' = Tail(rx), recordsMade' = recordsMade
    PROVE  /\ InChannel' /\ Head(rx).record \in Chan /\ Chan' = Chan \ {Head(rx).record}
           /\ Head(rx).record \in 1 .. recordsMade
<1> DEFINE R == ItemsTo(recordsMade)
<1> HIDE DEF R
<1>1. rx \in Seq(R) BY DEF InChannel, R
<1>2. /\ Len(rx) \in Nat /\ DOMAIN rx = 1 .. Len(rx) /\ 1 \in 1 .. Len(rx) /\ Head(rx) = rx[1]
      /\ Tail(rx) \in Seq(R) /\ Len(Tail(rx)) = Len(rx) - 1
      /\ \A i \in 1 .. Len(rx) - 1 : Tail(rx)[i] = rx[i + 1]
  <2>1. Len(rx) \in Nat /\ DOMAIN rx = 1 .. Len(rx) BY <1>1, LenProperties
  <2>2. /\ Head(rx) = rx[1] /\ Tail(rx) \in Seq(R) /\ Len(Tail(rx)) = Len(rx) - 1
        /\ \A i \in 1 .. Len(Tail(rx)) : Tail(rx)[i] = rx[i + 1]
        BY <1>1, HeadTailProperties
  <2>3. Len(rx) # 0 BY <1>1, EmptySeq
  <2> QED BY <2>1, <2>2, <2>3
<1>3. DOMAIN rx' = 1 .. Len(rx) - 1 /\ Len(rx') = Len(rx) - 1 BY <1>2, LenProperties
<1>4. \A i \in 1 .. Len(rx') : i + 1 \in 1 .. Len(rx) /\ i + 1 # 1 /\ rx'[i] = rx[i + 1] BY <1>2, <1>3
<1>5. ASSUME NEW i \in 1 .. Len(rx'), NEW j \in 1 .. Len(rx'), rx'[i].record = rx'[j].record PROVE i = j
  <2>1. i + 1 = j + 1 BY <1>4, <1>5 DEF InChannel
  <2> QED BY <2>1, <1>2, <1>3
<1>6. \A i \in DOMAIN rx : i = 1 \/ (i - 1 \in DOMAIN rx' /\ rx'[i - 1] = rx[i])
  <2> SUFFICES ASSUME NEW i \in DOMAIN rx, i # 1 PROVE i - 1 \in DOMAIN rx' /\ rx'[i - 1] = rx[i] OBVIOUS
  <2>1. i - 1 \in 1 .. Len(rx) - 1 /\ (i - 1) + 1 = i BY <1>2
  <2>2. Tail(rx)[i - 1] = rx[(i - 1) + 1] BY <2>1, <1>2
  <2> QED BY <2>1, <2>2, <1>3
<1>7. ASSUME NEW y \in Chan, y # Head(rx).record PROVE y \in Chan'
  <2>1. PICK i \in DOMAIN rx : y = rx[i].record BY <1>7 DEF Chan
  <2>2. i # 1 BY <2>1, <1>2, <1>7
  <2>3. PICK j \in DOMAIN rx' : rx'[j] = rx[i] BY <1>6, <2>2
  <2> QED BY <2>1, <2>3 DEF Chan
<1>8. ASSUME NEW y \in Chan' PROVE y \in Chan /\ y # Head(rx).record
  <2>1. PICK i \in 1 .. Len(rx') : y = rx'[i].record BY <1>3, <1>8 DEF Chan
  <2>2. i + 1 \in 1 .. Len(rx) /\ i + 1 # 1 /\ y = rx[i + 1].record BY <2>1, <1>4
  <2>3. y # rx[1].record BY <2>2, <1>2 DEF InChannel
  <2> QED BY <2>2, <2>3, <1>2 DEF Chan
<1>9. Head(rx).record \in Chan BY <1>2 DEF Chan
<1>10. Head(rx).record \in 1 .. recordsMade
  <2>1. rx[1] \in R BY <1>1, <1>2, ElementOfSeq
  <2> QED BY <2>1, <1>2 DEF R, ItemsTo
<1>11. Len(rx') <= TAP_CAPACITY BY <1>2, <1>3, PeerSyncAssumption DEF InChannel
<1>12. rx' \in Seq(ItemsTo(recordsMade)) BY <1>2 DEF R
<1> QED BY <1>5, <1>7, <1>8, <1>9, <1>10, <1>11, <1>12 DEF InChannel

(* An empty channel holds no record.                                       *)
LEMMA ChannelEmpties ==
    ASSUME InChannel, rx' = <<>>, recordsMade' = recordsMade
    PROVE  InChannel' /\ Chan' = {} /\ Len(rx') = 0 /\ 1 .. Len(rx') = {}
<1>1. <<>> \in Seq(ItemsTo(recordsMade)) /\ Len(<<>>) = 0 /\ DOMAIN <<>> = {} BY EmptySeq
<1>2. 1 .. 0 = {} /\ TAP_CAPACITY \in Nat BY PeerSyncAssumption
<1> QED BY <1>1, <1>2 DEF InChannel, Chan

(* A new record that does not go into the channel leaves it as it was.     *)
LEMMA ChannelWaits ==
    ASSUME InChannel, recordsMade < MaxOffered, recordsMade' = recordsMade + 1, UNCHANGED rx
    PROVE  InChannel' /\ Chan' = Chan
<1>1. recordsMade + 1 \in 0 .. MaxOffered /\ recordsMade \in Nat BY PeerSyncAssumption DEF InChannel
<1>2. rx \in Seq(ItemsTo(recordsMade + 1)) BY <1>1, ItemsGrow
<1> QED BY <1>1, <1>2 DEF InChannel, Chan

(* The records of the channel and of the fetch are those of their items.   *)
LEMMA ItemRecords == {i.record : i \in TapItems} = Chan /\ {i.record : i \in FetchItem} = Hand
<1>1. {i.record : i \in TapItems} = Chan BY DEF TapItems, Chan
<1>2. ASSUME NEW h PROVE Item("backfill", h).record = h BY DEF Item
<1>3. {i.record : i \in FetchItem} = {Item("backfill", h).record : h \in Hand} BY DEF FetchItem, Hand
<1> QED BY <1>1, <1>2, <1>3

(* The dropped records, when only items were lost.                         *)
LEMMA LostAre ==
    ASSUME NEW K, UNCHANGED <<counted, leftOut, withdrawn>>, lostItems' = lostItems \cup K
    PROVE  NeverSent' = NeverSent \cup {i.record : i \in K}
<1>1. {i.record : i \in lostItems'} = {i.record : i \in lostItems} \cup {i.record : i \in K} OBVIOUS
<1> QED BY <1>1 DEF NeverSent

(* An agent that has offered nothing satisfies the invariant.              *)
LEMMA SyncInitially == ASSUME PeerSyncInit PROVE SyncInvariant
<1>0. /\ segments = [s \in {1} |-> <<>>] /\ onDisk = [s \in {1} |-> 0] /\ write_segment = 1
      /\ cursor = Cursor(1, 0) /\ cursorFile = Cursor(0, 0) /\ accepted = {} /\ usable = TRUE /\ spoolFaults = 0
      BY DEF PeerSyncInit, SpoolInit
<1>1. /\ DOMAIN segments = {1} /\ segments[1] = <<>> /\ Len(segments[1]) = 0 /\ segments[1] \in Seq(Nat)
      /\ 1 .. 0 = {}
      BY <1>0, EmptySeq
<1>2. writer = 1 BY <1>1, MaxIs DEF writer
<1>3. cursor.segment = 1 /\ cursor.offset = 0 /\ cursorFile.segment = 0 BY <1>0 DEF Cursor
<1>4. SpoolFiles BY <1>0, <1>1, <1>2 DEF SpoolFiles
<1>5. SpoolCursor BY <1>0, <1>1, <1>2, <1>3, SpoolBounds DEF SpoolCursor, Cursor
<1>6. OneCopy BY <1>0, <1>1 DEF OneCopy
<1>7. KeptOrSettled BY <1>0 DEF KeptOrSettled
<1>8. SentWithFaults
  <2>1. got = [r \in 1 .. MaxOffered |-> 0] /\ rejected = {} BY DEF PeerSyncInit
  <2> QED BY <2>1, <1>0, <1>1 DEF SentWithFaults
<1>9. WithoutFaults BY <1>0, <1>1, <1>2, <1>3 DEF WithoutFaults
<1>10. InHand
  <2>1. todo = <<>> BY DEF PeerSyncInit
  <2>2. <<>> \in Seq([end : [segment : Nat, offset : Nat], frame : Nat]) /\ Len(<<>>) = 0 BY EmptySeq
  <2>3. 1 .. 0 = {} /\ FRAMES_PER_PASS \in Nat BY PeerSyncAssumption
  <2> QED BY <2>1, <2>2, <2>3 DEF InHand, FrontOf
<1>11. InChannel /\ Parted /\ LastRound
  <2>1. /\ rx = <<>> /\ recordsMade = 0 /\ counted = {} /\ leftOut = {} /\ withdrawn = {} /\ lostItems = {}
        /\ fetchHeld = 0 /\ sender = "top" /\ syncStopping = FALSE
        BY DEF PeerSyncInit
  <2>2. <<>> \in Seq(ItemsTo(0)) /\ Len(<<>>) = 0 /\ DOMAIN <<>> = {} BY EmptySeq
  <2>3. 1 .. 0 = {} /\ TAP_CAPACITY \in Nat /\ MaxOffered \in Nat BY PeerSyncAssumption
  <2>4. Chan = {} /\ Hand = {} /\ NeverSent = {} BY <2>1, <2>2 DEF Chan, Hand, NeverSent
  <2>5. InChannel BY <2>1, <2>2, <2>3 DEF InChannel
  <2>6. Parted BY <2>1, <2>3, <2>4, <1>0 DEF Parted
  <2> QED BY <2>1, <2>5, <2>6 DEF LastRound
<1>12. Settings
  <2>1. MaxTargets \in Nat /\ MaxFetches \in Nat BY PeerSyncAssumption
  <2>2. 1 \in 0 .. MaxTargets + 1 /\ 1 \in 0 .. 1 /\ 0 \in 0 .. MaxFetches BY <2>1
  <2>3. backfill \in [state : FetchStates, cancel : BOOLEAN] BY DEF PeerSyncInit, FetchStates
  <2> QED BY <2>2, <2>3 DEF PeerSyncInit, Settings, SenderSteps
<1> QED BY <1>4, <1>5, <1>6, <1>7, <1>8, <1>9, <1>10, <1>11, <1>12 DEF SyncInvariant, SpoolInvariant

(* The settings, the fetch between two chunks, a stop, the top of the loop *)
(* and the end of a wait keep it.                                          *)
LEMMA ControlKeeps ==
    ASSUME SyncInvariant,
           \/ \E on \in BOOLEAN : set_target(on)
           \/ set_target_ends \/ start_backfill \/ cancel_backfill
           \/ BackfillSpawned \/ BackfillEnds \/ SyncShutdown \/ WaitEnds
           \/ LoopTop
    PROVE  SyncInvariant'
<1>a. SpoolInvariant /\ InHand /\ InChannel /\ Parted /\ LastRound /\ Settings BY DEF SyncInvariant
<1>b. /\ UNCHANGED <<spoolVars, got, rejected>> /\ UNCHANGED <<rx, recordsMade, accepted, dropVars, fetchHeld>>
      /\ UNCHANGED <<segments, cursor, todo, spoolFaults>>
      BY DEF set_target, set_target_ends, start_backfill, cancel_backfill, BackfillSpawned, BackfillEnds,
             SyncShutdown, WaitEnds, LoopTop, spoolVars, countVars, senderVars, fetchVars
<1>c. sender' = sender \/ todo = <<>>
      BY <1>a DEF set_target, set_target_ends, start_backfill, cancel_backfill, BackfillSpawned, BackfillEnds,
             SyncShutdown, WaitEnds, LoopTop, senderVars, InHand
<1>1. SpoolInvariant' BY <1>a, <1>b, SpoolStays
<1>2. InHand' BY <1>a, <1>b, <1>c, HandStays
<1>3. InChannel' /\ Parted' BY <1>a, <1>b, ChannelStays
<1>4. Settings'
  <2>0. MaxTargets \in Nat /\ MaxFetches \in Nat BY PeerSyncAssumption
  <2>1. CASE \E on \in BOOLEAN : set_target(on)
        BY <2>1, <1>a DEF set_target, Settings, senderVars, fetchVars
  <2>2. CASE set_target_ends
    <3>1. epoch' \in 0 .. MaxTargets + 1 /\ seen_epoch' \in 0 .. epoch'
          BY <2>2, <2>0, <1>a DEF set_target_ends, Settings, senderVars
    <3> QED BY <2>2, <3>1, <1>a DEF set_target_ends, Settings, senderVars, fetchVars
  <2>3. CASE start_backfill
    <3>1. backfill' \in [state : FetchStates, cancel : BOOLEAN] /\ backfill.state # "running"
          BY <2>3, <1>a DEF start_backfill, Settings, FetchStates
    <3> QED BY <2>3, <3>1, <2>0, <1>a DEF start_backfill, Settings, senderVars, controlVars
  <2>4. CASE cancel_backfill
    <3>1. backfill' \in [state : FetchStates, cancel : BOOLEAN] /\ backfill'.state = backfill.state
          BY <2>4, <1>a DEF cancel_backfill, Settings, FetchStates
    <3> QED BY <2>4, <3>1, <1>a DEF cancel_backfill, Settings, senderVars, controlVars
  <2>5. CASE BackfillSpawned
        BY <2>5, <1>a DEF BackfillSpawned, Settings, FetchStates, senderVars, controlVars
  <2>6. CASE BackfillEnds
    <3>1. backfill' \in [state : FetchStates, cancel : BOOLEAN]
          BY <2>6, <1>a DEF BackfillEnds, ScanOver, Settings, FetchStates
    <3> QED BY <2>6, <3>1, <1>a DEF BackfillEnds, Settings, senderVars, controlVars
  <2>7. CASE SyncShutdown BY <2>7, <1>a DEF SyncShutdown, Settings, senderVars, controlVars, fetchVars
  <2>8. CASE WaitEnds BY <2>8, <1>a DEF WaitEnds, Settings, controlVars, fetchVars
  <2>9. CASE LoopTop
    <3>1. waiting' \in BOOLEAN BY <2>9 DEF LoopTop
    <3>2. seen_epoch' \in 0 .. epoch' BY <2>9, <2>0, <1>a DEF LoopTop, Settings, controlVars
    <3> QED BY <2>9, <3>1, <3>2, <1>a DEF LoopTop, Settings, SenderSteps, controlVars, fetchVars
  <2> QED BY <2>1, <2>2, <2>3, <2>4, <2>5, <2>6, <2>7, <2>8, <2>9
<1>5. LastRound'
  <2>1. CASE LoopTop BY <2>1, <1>a, <1>b DEF LoopTop, LastRound, dropVars
  <2>2. CASE ~LoopTop
    <3>1. UNCHANGED <<sender, syncStopping>> /\ (syncStop => syncStop')
          BY <2>2, <1>a DEF set_target, set_target_ends, start_backfill, cancel_backfill, BackfillSpawned, BackfillEnds,
             SyncShutdown, WaitEnds, senderVars, Settings
    <3> QED BY <3>1, <1>a, <1>b, RoundStays DEF dropVars
  <2> QED BY <2>1, <2>2
<1> QED BY <1>1, <1>2, <1>3, <1>4, <1>5 DEF SyncInvariant

(* The end of a pass keeps it; after the last one, what a fetch has put    *)
(* into the channel is lost with it.                                       *)
LEMMA PassKeeps == ASSUME SyncInvariant, PassEnds PROVE SyncInvariant'
<1>a. SpoolInvariant /\ InHand /\ InChannel /\ Parted /\ LastRound /\ Settings BY DEF SyncInvariant
<1>b. /\ UNCHANGED <<spoolVars, got, rejected>> /\ UNCHANGED <<segments, cursor, todo, accepted, spoolFaults>>
      /\ UNCHANGED <<recordsMade, counted, leftOut, withdrawn, fetchHeld, syncStop, syncStopping>> /\ todo = <<>>
      BY DEF PassEnds, spoolVars, fetchVars
<1>1. SpoolInvariant' BY <1>a, <1>b, SpoolStays
<1>2. InHand' BY <1>b, EmptyHanded
<1>3. InChannel' /\ Parted' /\ LastRound'
  <2>1. CASE sender = "deliver" /\ sender' = "top" /\ UNCHANGED <<rx, lostItems>>
    <3>1. InChannel' /\ Parted' BY <2>1, <1>a, <1>b, ChannelStays DEF dropVars
    <3> QED BY <2>1, <3>1, <1>a, <1>b DEF LastRound
  <2>2. CASE sender = "lastDeliver" /\ sender' = "done" /\ rx' = <<>> /\ lostItems' = lostItems \cup TapItems
    <3>1. InChannel' /\ Chan' = {} BY <2>2, <1>a, <1>b, ChannelEmpties
    <3>2. NeverSent' = NeverSent \cup Chan
      <4>1. NeverSent' = NeverSent \cup {i.record : i \in TapItems} BY <2>2, <1>b, LostAre
      <4> QED BY <4>1, ItemRecords
    <3>3. Hand' = Hand BY <1>b DEF Hand
    <3>4. Parted' BY <3>1, <3>2, <3>3, <1>a, <1>b DEF Parted
    <3>5. \A i \in TapItems : i.kind = "backfill"
      <4>1. DOMAIN rx = 1 .. Len(rx) BY <1>a, LenProperties DEF InChannel
      <4> QED BY <4>1, <2>2, <1>a DEF LastRound, TapItems
    <3>6. LastRound' BY <2>2, <3>5, <1>a, <1>b DEF LastRound
    <3> QED BY <3>1, <3>4, <3>6
  <2> QED BY <2>1, <2>2 DEF PassEnds
<1>4. Settings' BY <1>a DEF PassEnds, Settings, SenderSteps, controlVars, fetchVars
<1> QED BY <1>1, <1>2, <1>3, <1>4 DEF SyncInvariant

(* A record offered keeps it: the tap is closed in the last round.         *)
LEMMA OfferKeeps == ASSUME SyncInvariant, offer PROVE SyncInvariant'
<1>a. SpoolInvariant /\ InHand /\ InChannel /\ Parted /\ LastRound /\ Settings BY DEF SyncInvariant
<1>b. /\ UNCHANGED <<spoolVars, got, rejected>> /\ UNCHANGED <<accepted, leftOut, withdrawn, lostItems, fetchHeld>>
      /\ UNCHANGED <<segments, cursor, todo, sender, syncStopping, syncStop, spoolFaults>> /\ ~syncStop
      BY DEF offer, spoolVars, senderVars, fetchVars
<1>c. recordsMade < MaxOffered /\ recordsMade' = recordsMade + 1 BY DEF offer, NewRecord
<1>d. recordsMade \in Nat /\ recordsMade + 1 \in 0 .. MaxOffered /\ MaxOffered \in Nat
      BY <1>a, <1>c, PeerSyncAssumption DEF InChannel
<1>e. /\ 1 .. recordsMade + 1 = (1 .. recordsMade) \cup {recordsMade + 1}
      /\ recordsMade + 1 \notin 1 .. recordsMade
      BY <1>d, OneMore
<1>f. Hand' = Hand BY <1>b DEF Hand
<1>1. SpoolInvariant' BY <1>a, <1>b, SpoolStays
<1>2. InHand' BY <1>a, <1>b, HandStays
<1>3. InChannel' /\ Parted'
  <2>1. CASE Len(rx) < TAP_CAPACITY /\ rx' = Append(rx, Item("live", recordsMade + 1)) /\ UNCHANGED counted
    <3>1. recordsMade + 1 \notin Chan BY <1>a, <1>e DEF Parted
    <3>2. recordsMade + 1 \in 1 .. recordsMade + 1 /\ recordsMade <= recordsMade + 1 BY <1>d
    <3>3. InChannel' /\ Chan' = Chan \cup {recordsMade + 1} BY <2>1, <3>1, <3>2, <1>a, <1>c, <1>d, ChannelAppends
    <3>4. NeverSent' = NeverSent BY <2>1, <1>b DEF NeverSent
    <3>5. Parted' BY <3>3, <3>4, <1>a, <1>b, <1>c, <1>e, <1>f DEF Parted
    <3> QED BY <3>3, <3>5
  <2>2. CASE rx' = rx /\ counted' = counted \cup {recordsMade + 1}
    <3>1. InChannel' /\ Chan' = Chan BY <2>2, <1>a, <1>c, ChannelWaits
    <3>2. NeverSent' = NeverSent \cup {recordsMade + 1} BY <2>2, <1>b DEF NeverSent
    <3>3. Parted' BY <3>1, <3>2, <1>a, <1>b, <1>c, <1>e, <1>f DEF Parted
    <3> QED BY <3>1, <3>3
  <2> QED BY <2>1, <2>2 DEF offer, NewRecord
<1>4. Settings' BY <1>a DEF offer, Settings, controlVars, senderVars, fetchVars
<1>5. LastRound' BY <1>a, <1>b DEF LastRound
<1> QED BY <1>1, <1>2, <1>3, <1>4, <1>5 DEF SyncInvariant

(* A fetch that reads, sends or finds the sender gone keeps it.            *)
LEMMA FetchKeeps ==
    ASSUME SyncInvariant, BackfillReads \/ BackfillSends \/ BackfillSendFails
    PROVE  SyncInvariant'
<1>a. SpoolInvariant /\ InHand /\ InChannel /\ Parted /\ LastRound /\ Settings BY DEF SyncInvariant
<1>b. /\ UNCHANGED <<spoolVars, got, rejected>> /\ UNCHANGED <<accepted, counted, leftOut, withdrawn>>
      /\ UNCHANGED <<segments, cursor, todo, sender, syncStopping, syncStop, spoolFaults>>
      BY DEF BackfillReads, BackfillSends, BackfillSendFails, spoolVars, senderVars, countVars, dropVars
<1>c. recordsMade \in Nat /\ MaxOffered \in Nat /\ recordsMade \in 0 .. MaxOffered
      BY <1>a, PeerSyncAssumption DEF InChannel
<1>1. SpoolInvariant' BY <1>a, <1>b, SpoolStays
<1>2. InHand' BY <1>a, <1>b, HandStays
<1>3. CASE BackfillReads
  <2>1. /\ recordsMade < MaxOffered /\ recordsMade' = recordsMade + 1 /\ rx' = rx /\ lostItems' = lostItems
        /\ fetchHeld = 0 /\ fetchHeld' = recordsMade + 1 /\ backfill' = backfill /\ backfill.state = "running"
        BY <1>3 DEF BackfillReads, NewRecord, dropVars
  <2>2. InChannel' /\ Chan' = Chan BY <2>1, <1>a, ChannelWaits
  <2>3. NeverSent' = NeverSent BY <2>1, <1>b DEF NeverSent
  <2>4. /\ 1 .. recordsMade + 1 = (1 .. recordsMade) \cup {recordsMade + 1}
        /\ recordsMade + 1 \notin 1 .. recordsMade /\ recordsMade + 1 # 0
        BY <1>c, OneMore
  <2>5. Hand = {} /\ Hand' = {recordsMade + 1} BY <2>1, <2>4 DEF Hand
  <2>6. Parted' BY <2>1, <2>2, <2>3, <2>4, <2>5, <1>a, <1>b DEF Parted
  <2>7. Settings' BY <1>3, <2>1, <1>a DEF BackfillReads, Settings, controlVars, senderVars
  <2>8. LastRound' BY <2>1, <1>a, <1>b, RoundStays
  <2> QED BY <2>2, <2>6, <2>7, <2>8, <1>1, <1>2 DEF SyncInvariant
<1>4. CASE BackfillSends
  <2>1. /\ recordsMade' = recordsMade /\ Len(rx) < TAP_CAPACITY /\ lostItems' = lostItems
        /\ rx' = Append(rx, Item("backfill", fetchHeld)) /\ fetchHeld # 0 /\ fetchHeld' = 0
        BY <1>4 DEF BackfillSends, countVars, dropVars
  <2>2. Hand = {fetchHeld} /\ Hand' = {} BY <2>1 DEF Hand
  <2>3. fetchHeld \in 1 .. recordsMade /\ fetchHeld \notin Chan BY <2>2, <1>a DEF Parted
  <2>4. recordsMade <= recordsMade BY <1>c
  <2>5. InChannel' /\ Chan' = Chan \cup {fetchHeld} BY <2>1, <2>3, <2>4, <1>a, <1>c, ChannelAppends
  <2>6. NeverSent' = NeverSent BY <2>1, <1>b DEF NeverSent
  <2>7. Parted' BY <2>1, <2>2, <2>5, <2>6, <1>a, <1>b DEF Parted
  <2>8. Settings' BY <1>4, <2>1, <1>a DEF BackfillSends, Settings, controlVars, senderVars
  <2>9. LastRound'
    <3>1. rx \in Seq(ItemsTo(recordsMade)) BY <1>a DEF InChannel
    <3>2. PICK it : it = Item("backfill", fetchHeld) OBVIOUS
    <3>3. it \in ItemsTo(recordsMade) /\ it.kind = "backfill" BY <2>3, <3>2 DEF Item, ItemsTo
    <3>4. /\ Len(rx') = Len(rx) + 1 /\ Len(rx) \in Nat /\ \A i \in 1 .. Len(rx) : rx'[i] = rx[i]
          /\ rx'[Len(rx) + 1] = it
          BY <2>1, <3>1, <3>2, <3>3, AppendProperties, LenProperties
    <3>5. \A i \in 1 .. Len(rx') : i \in 1 .. Len(rx) \/ i = Len(rx) + 1 BY <3>4
    <3>6. (\A i \in 1 .. Len(rx) : rx[i].kind = "backfill") => \A i \in 1 .. Len(rx') : rx'[i].kind = "backfill"
          BY <3>3, <3>4, <3>5
    <3> QED BY <2>1, <3>6, <1>a, <1>b DEF LastRound
  <2> QED BY <2>5, <2>7, <2>8, <2>9, <1>1, <1>2 DEF SyncInvariant
<1>5. CASE BackfillSendFails
  <2>1. /\ recordsMade' = recordsMade /\ rx' = rx /\ lostItems' = lostItems \cup FetchItem
        /\ fetchHeld # 0 /\ fetchHeld' = 0
        BY <1>5 DEF BackfillSendFails
  <2>2. Hand = {fetchHeld} /\ Hand' = {} /\ Chan' = Chan BY <2>1 DEF Hand, Chan
  <2>3. InChannel' BY <2>1, <1>a DEF InChannel
  <2>4. NeverSent' = NeverSent \cup Hand
    <3>1. NeverSent' = NeverSent \cup {i.record : i \in FetchItem} BY <2>1, <1>b, LostAre
    <3> QED BY <3>1, ItemRecords
  <2>5. Parted' BY <2>1, <2>2, <2>4, <1>a, <1>b DEF Parted
  <2>6. backfill' \in [state : FetchStates, cancel : BOOLEAN]
        BY <1>5, <1>a DEF BackfillSendFails, ScanOver, Settings, FetchStates
  <2>7. Settings' BY <1>5, <2>1, <2>6, <1>a DEF BackfillSendFails, Settings, controlVars, senderVars
  <2>8. \A i \in FetchItem : i.kind = "backfill" BY DEF FetchItem, Item
  <2>9. LastRound' BY <2>1, <2>8, <1>a, <1>b DEF LastRound
  <2> QED BY <2>3, <2>5, <2>7, <2>9, <1>1, <1>2 DEF SyncInvariant
<1> QED BY <1>3, <1>4, <1>5

(* Faults are never taken back.                                            *)
LEMMA FaultsGrow ==
    ASSUME SpoolInvariant,
           \/ \E f, ok : push(f, ok)
           \/ \E ok : sync(ok)
           \/ \E c, ok : commit(c, ok)
    PROVE  spoolFaults' = 0 => spoolFaults = 0
<1>1. spoolFaults \in Nat BY SpoolBounds DEF SpoolInvariant, SpoolCursor
<1>2. spoolFaults' = spoolFaults \/ spoolFaults' = spoolFaults + 1 BY DEF push, sync, commit, Faulty
<1> QED BY <1>1, <1>2

(* Taking an item from the channel keeps it.                               *)
LEMMA EnqueueKeeps == ASSUME SyncInvariant, enqueue PROVE SyncInvariant'
<1>a. SpoolInvariant /\ InHand /\ InChannel /\ Parted /\ LastRound /\ Settings BY DEF SyncInvariant
<1>b. /\ sender = "take" /\ rx # <<>> /\ rx' = Tail(rx) /\ recordsMade' = recordsMade
      /\ UNCHANGED <<got, rejected, lostItems, fetchHeld, syncStop>> /\ UNCHANGED senderVars
      BY DEF enqueue, fetchVars
<1>c. todo' = <<>> BY <1>a, <1>b DEF InHand, senderVars
<1> DEFINE r == Head(rx).record
<1>d. InChannel' /\ r \in Chan /\ Chan' = Chan \ {r} /\ r \in 1 .. recordsMade BY <1>a, <1>b, ChannelTakes
<1>e. PICK x : x = r OBVIOUS
<1>f. x \in 1 .. MaxOffered /\ x \notin accepted /\ x \notin NeverSent
  <2>1. recordsMade \in 0 .. MaxOffered /\ MaxOffered \in Nat BY <1>a, PeerSyncAssumption DEF InChannel
  <2> QED BY <2>1, <1>a, <1>d, <1>e DEF Parted
<1>1. /\ SpoolInvariant' /\ (spoolFaults' = 0 => spoolFaults = 0)
      /\ \/ accepted' = accepted \cup {x} /\ NeverSent' = NeverSent
         \/ accepted' = accepted /\ NeverSent' = NeverSent \cup {x}
  <2>1. CASE /\ UNCHANGED spoolVars
             /\ \/ withdrawn' = withdrawn \cup {r} /\ UNCHANGED <<counted, leftOut>>
                \/ counted' = counted \cup {r} /\ UNCHANGED <<leftOut, withdrawn>>
                \/ leftOut' = leftOut \cup {r} /\ UNCHANGED <<counted, withdrawn>>
    <3>1. SpoolInvariant' BY <2>1, <1>a, <1>b, SpoolStays
    <3>2. accepted' = accepted /\ spoolFaults' = spoolFaults BY <2>1 DEF spoolVars
    <3>3. NeverSent' = NeverSent \cup {x} BY <2>1, <1>b, <1>e DEF NeverSent
    <3> QED BY <3>1, <3>2, <3>3
  <2>2. CASE push_frames(r) /\ UNCHANGED <<leftOut, withdrawn>>
    <3>1. PICK ok \in BOOLEAN : push(r, ok) /\ counted' = IF ok THEN counted ELSE counted \cup {r}
          BY <2>2 DEF push_frames
    <3> HIDE DEF r
    <3>2. push(x, ok) BY <3>1, <1>e
    <3>3. SpoolInvariant' /\ accepted' = IF ok THEN accepted \cup {x} ELSE accepted
          BY <3>2, <1>a, <1>b, <1>f, SpoolPushes
    <3>4. spoolFaults' = 0 => spoolFaults = 0 BY <3>2, <1>a, FaultsGrow
    <3>5. NeverSent' = IF ok THEN NeverSent ELSE NeverSent \cup {x} BY <2>2, <3>1, <1>b, <1>e DEF NeverSent
    <3> QED BY <3>3, <3>4, <3>5
  <2> QED BY <2>1, <2>2 DEF enqueue
<1>2. InHand' BY <1>c, EmptyHanded
<1>3. Parted'
  <2>1. Hand' = Hand BY <1>b DEF Hand
  <2>2. x \in Chan /\ Chan' = Chan \ {x} BY <1>d, <1>e
  <2> QED BY <2>1, <2>2, <1>1, <1>a, <1>b, <1>f DEF Parted
<1>4. Settings' BY <1>a DEF enqueue, Settings, controlVars, senderVars, fetchVars
<1>5. LastRound' BY <1>1, <1>a, <1>b DEF LastRound, senderVars
<1> QED BY <1>1, <1>2, <1>3, <1>4, <1>5, <1>d DEF SyncInvariant

(* The tick, with a record of the planner or without, keeps it.            *)
LEMMA TickKeeps == ASSUME SyncInvariant, SenderDrained PROVE SyncInvariant'
<1>a. SpoolInvariant /\ InHand /\ InChannel /\ Parted /\ LastRound /\ Settings BY DEF SyncInvariant
<1>b. /\ sender = "take" /\ rx = <<>> /\ rx' = rx /\ UNCHANGED <<leftOut, withdrawn, lostItems, fetchHeld>>
      /\ UNCHANGED <<got, rejected, todo, syncStopping, syncStop>>
      /\ sender' = IF syncStopping THEN "last" ELSE "flush"
      BY DEF SenderDrained, fetchVars, Closing
<1>c. todo' = <<>> BY <1>a, <1>b DEF InHand
<1>2. InHand' BY <1>c, EmptyHanded
<1>3. SpoolInvariant' /\ InChannel' /\ Parted' /\ (spoolFaults' = 0 => spoolFaults = 0)
  <2>1. CASE UNCHANGED <<recordsMade, counted, spoolVars>>
    <3>1. SpoolInvariant' BY <2>1, <1>a, <1>b, SpoolStays
    <3>2. accepted' = accepted /\ spoolFaults' = spoolFaults BY <2>1 DEF spoolVars
    <3>3. InChannel' /\ Parted' BY <2>1, <3>2, <1>a, <1>b, ChannelStays DEF dropVars
    <3> QED BY <3>1, <3>2, <3>3
  <2>2. CASE recordsMade < MaxOffered /\ recordsMade' = NewRecord /\ push_frames(NewRecord)
    <3>1. PICK ok \in BOOLEAN : push(NewRecord, ok) /\ counted' = IF ok THEN counted ELSE counted \cup {NewRecord}
          BY <2>2 DEF push_frames
    <3>2. PICK x : x = NewRecord OBVIOUS
    <3>3. push(x, ok) BY <3>1, <3>2
    <3>4. recordsMade \in Nat /\ x = recordsMade + 1 /\ x \in 1 .. MaxOffered /\ recordsMade' = recordsMade + 1
          BY <2>2, <3>2, <1>a, PeerSyncAssumption DEF NewRecord, InChannel
    <3>5. 1 .. recordsMade' = (1 .. recordsMade) \cup {x} /\ x \notin 1 .. recordsMade BY <3>4, OneMore
    <3>6. x \notin accepted BY <3>5, <1>a DEF Parted
    <3>7. SpoolInvariant' /\ accepted' = IF ok THEN accepted \cup {x} ELSE accepted
          BY <3>3, <3>4, <3>6, <1>a, <1>b, SpoolPushes
    <3>8. spoolFaults' = 0 => spoolFaults = 0 BY <3>3, <1>a, FaultsGrow
    <3>9. InChannel' /\ Chan' = Chan BY <2>2, <3>4, <1>a, <1>b, ChannelWaits
    <3>10. Hand' = Hand BY <1>b DEF Hand
    <3>11. NeverSent' = IF ok THEN NeverSent ELSE NeverSent \cup {x} BY <3>1, <3>2, <1>b DEF NeverSent
    <3>12. Parted' BY <3>5, <3>7, <3>9, <3>10, <3>11, <1>a DEF Parted
    <3> QED BY <3>7, <3>8, <3>9, <3>12
  <2> QED BY <2>1, <2>2 DEF SenderDrained
<1>4. Settings' BY <1>a DEF SenderDrained, Settings, SenderSteps, controlVars, fetchVars
<1>5. LastRound'
  <2>1. Len(rx) = 0 /\ 1 .. 0 = {} BY <1>b, EmptySeq
  <2> QED BY <2>1, <1>a, <1>b, <1>3 DEF LastRound
<1> QED BY <1>2, <1>3, <1>4, <1>5 DEF SyncInvariant

(* The sync, and the peek of a pass, keep it.                              *)
LEMMA FlushKeeps == ASSUME SyncInvariant, FlushTap PROVE SyncInvariant'
<1>a. SpoolInvariant /\ InHand /\ InChannel /\ Parted /\ LastRound /\ Settings BY DEF SyncInvariant
<1>b. PICK ok \in BOOLEAN : sync(ok) BY DEF FlushTap
<1>c. /\ UNCHANGED <<segments, cursor, accepted>> /\ UNCHANGED <<rx, recordsMade, dropVars, fetchHeld>>
      /\ UNCHANGED <<got, rejected, syncStopping, syncStop>>
      BY <1>b DEF sync, FlushTap, countVars, fetchVars
<1>d. /\ sender \in {"flush", "last"} /\ (todo' = <<>> \/ todo' = peek(FRAMES_PER_PASS))
      /\ sender' = IF sender = "last" THEN "lastDeliver" ELSE "deliver"
      BY DEF FlushTap
<1>1. SpoolInvariant' BY <1>a, <1>b, <1>c, SpoolSyncs
<1>2. InHand' BY <1>a, <1>c, <1>d, EmptyHanded, PeekInHand
<1>3. InChannel' /\ Parted' BY <1>a, <1>c, ChannelStays
<1>4. Settings' BY <1>a, <1>d DEF FlushTap, Settings, SenderSteps, controlVars, fetchVars
<1>5. LastRound'
  <2>1. spoolFaults' = 0 => spoolFaults = 0 BY <1>a, <1>b, FaultsGrow
  <2> QED BY <2>1, <1>a, <1>c, <1>d DEF LastRound, dropVars
<1> QED BY <1>1, <1>2, <1>3, <1>4, <1>5 DEF SyncInvariant

(* A crash at any point keeps it.                                          *)
LEMMA RestartKeeps == ASSUME SyncInvariant, SyncRestart PROVE SyncInvariant'
<1>a. SpoolInvariant /\ InHand /\ InChannel /\ Parted /\ LastRound /\ Settings BY DEF SyncInvariant
<1>b. /\ UNCHANGED <<got, rejected>> /\ todo' = <<>> /\ rx' = <<>>
      /\ UNCHANGED <<recordsMade, counted, leftOut, withdrawn>> /\ fetchHeld' = 0
      /\ lostItems' = lostItems \cup (TapItems \cup FetchItem)
      BY DEF SyncRestart
<1>1. SpoolInvariant' /\ accepted' = accepted /\ spoolFaults' # 0
  <2>0. spoolFaults \in Nat /\ spoolFaults' = spoolFaults + 1
        BY <1>a, SpoolBounds DEF SyncRestart, CrashAndOpen, CrashInRoll, Faulty, SpoolInvariant, SpoolCursor
  <2>1. CASE CrashAndOpen BY <2>0, <2>1, <1>a, <1>b, SpoolReopens
  <2>2. CASE CrashInRoll
    <3>1. /\ UNCHANGED <<segments, onDisk, write_segment, cursor, cursorFile, accepted, hidden, gone>>
          /\ usable' = FALSE /\ spoolFaults < MaxSpoolFaults /\ spoolFaults' = spoolFaults + 1
          BY <2>2 DEF CrashInRoll, Faulty
    <3>2. /\ spoolFaults \in Nat /\ onDisk \in [DOMAIN segments -> Nat] /\ write_segment \in Nat
          /\ \A s \in DOMAIN segments : onDisk[s] <= Len(segments[s])
          BY <1>a, SpoolBounds DEF SpoolInvariant, SpoolFiles, SpoolCursor
    <3>3. SentWithFaults' BY <3>1, <3>2, <1>a, <1>b, SentSame
    <3>4. FrameSettled \subseteq FrameSettled' BY <1>b, SettledSame
    <3>5. write_segment' \in write_segment .. write_segment + 1 BY <3>1, <3>2
    <3>6. SpoolInvariant' BY <3>1, <3>2, <3>3, <3>4, <3>5, <1>a, SpoolSame
    <3>7. spoolFaults' # 0 BY <2>0
    <3> QED BY <3>1, <3>6, <3>7
  <2> QED BY <2>1, <2>2 DEF SyncRestart
<1>2. InHand' BY <1>b, EmptyHanded
<1>3. InChannel' /\ Parted'
  <2>1. InChannel' /\ Chan' = {} BY <1>a, <1>b, ChannelEmpties
  <2>2. Hand' = {} BY <1>b DEF Hand
  <2>3. NeverSent' = NeverSent \cup Chan \cup Hand
    <3>1. {i.record : i \in TapItems \cup FetchItem} = {i.record : i \in TapItems} \cup {i.record : i \in FetchItem}
          OBVIOUS
    <3>2. NeverSent' = NeverSent \cup {i.record : i \in TapItems \cup FetchItem} BY <1>b, LostAre
    <3> QED BY <3>1, <3>2, ItemRecords
  <2>4. Parted' BY <2>1, <2>2, <2>3, <1>1, <1>a, <1>b DEF Parted
  <2> QED BY <2>1, <2>4
<1>4. Settings'
  <2>1. sender' \in SenderSteps BY DEF SyncRestart, SenderSteps
  <2>2. backfill' \in [state : FetchStates, cancel : BOOLEAN] BY DEF SyncRestart, FetchStates
  <2>3. epoch \in Nat /\ epoch' = epoch /\ seen_epoch' = epoch BY <1>a, PeerSyncAssumption DEF Settings, SyncRestart
  <2>4. seen_epoch' \in 0 .. epoch' BY <2>3
  <2> QED BY <2>1, <2>2, <2>4, <1>a DEF SyncRestart, Settings
<1>5. LastRound' BY <1>1 DEF SyncRestart, LastRound
<1> QED BY <1>1, <1>2, <1>3, <1>4, <1>5 DEF SyncInvariant

(* An answer for good settles the frame, and counts it at most once more.  *)
LEMMA SettlesFrame ==
    ASSUME SpoolInvariant, NEW f \in 1 .. MaxOffered, NEW status \in Answers, Answered(status),
           got' = IF OutcomeOf(status) = "Delivered" THEN [got EXCEPT ![f] = @ + 1] ELSE got,
           rejected' = IF OutcomeOf(status) = "Rejected" THEN rejected \cup {f} ELSE rejected
    PROVE  /\ FrameSettled \subseteq FrameSettled' /\ f \in FrameSettled'
           /\ got' \in [1 .. MaxOffered -> Nat] /\ \A r \in 1 .. MaxOffered : r # f => got'[r] = got[r]
           /\ got'[f] <= got[f] + 1 /\ rejected' \subseteq rejected \cup {f}
<1>0. got \in [1 .. MaxOffered -> Nat] BY DEF SpoolInvariant, SentWithFaults
<1>1. got[f] \in Nat BY <1>0
<1>2. CASE OutcomeOf(status) = "Delivered"
  <2>1. got' = [got EXCEPT ![f] = @ + 1] /\ rejected' = rejected BY <1>2
  <2>2. got' \in [1 .. MaxOffered -> Nat] /\ got'[f] = got[f] + 1 BY <1>0, <1>1, <2>1
  <2>3. \A r \in 1 .. MaxOffered : r # f => got'[r] = got[r] BY <1>0, <2>1
  <2>4. Received \subseteq Received' /\ f \in Received' BY <1>1, <2>2, <2>3 DEF Received
  <2>5. FrameSettled \subseteq FrameSettled' /\ f \in FrameSettled' BY <2>1, <2>4 DEF FrameSettled
  <2>6. got'[f] <= got[f] + 1 BY <2>2, <1>1
  <2>7. rejected' \subseteq rejected \cup {f} BY <2>1
  <2> QED BY <2>2, <2>3, <2>5, <2>6, <2>7
<1>3. CASE OutcomeOf(status) = "Rejected"
  <2>1. got' = got /\ rejected' = rejected \cup {f} BY <1>3
  <2>2. Received' = Received BY <2>1 DEF Received
  <2> QED BY <2>1, <2>2, <1>0, <1>1 DEF FrameSettled
<1> QED BY <1>2, <1>3 DEF Answered

(* After the first frame of a pass the rest is again the front of what is  *)
(* unread.                                                                 *)
LEMMA HandPasses ==
    ASSUME InHand, todo # <<>>, SpoolInvariant, NEW a \in Nat, NEW b \in Nat,
           a = Head(todo).end.segment, b = Head(todo).end.offset,
           todo' = Tail(todo), sender' = sender, cursor' = Cursor(a, b),
           \A s, i \in Nat : Unread(segments', a, b, s, i) <=>
               Unread(segments, cursor.segment, cursor.offset, s, i) /\ Before(a, b, s, i),
           \A s, i \in Nat : Unread(segments', a, b, s, i) => segments'[s] = segments[s]
    PROVE  InHand'
<1> DEFINE E == [end : [segment : Nat, offset : Nat], frame : Nat]
           N == Len(todo)
           Sg(n) == todo[n].end.segment
           Of(n) == todo[n].end.offset
           Un(s, i) == Unread(segments, cursor.segment, cursor.offset, s, i)
<1>0. todo \in Seq(E) /\ N \in Nat /\ N # 0 BY LenProperties, EmptySeq DEF InHand, FrontOf
<1>1. /\ Tail(todo) \in Seq(E) /\ Len(Tail(todo)) = N - 1 /\ Head(todo) = todo[1]
      /\ \A n \in 1 .. N - 1 : Tail(todo)[n] = todo[n + 1]
  <2> HIDE DEF E
  <2> QED BY <1>0, HeadTailProperties
<1>2. a = Sg(1) /\ b = Of(1) BY <1>1
<1>3. \A n \in 1 .. N : Sg(n) \in Nat /\ Of(n) \in Nat
  <2> SUFFICES ASSUME NEW n \in 1 .. N PROVE Sg(n) \in Nat /\ Of(n) \in Nat OBVIOUS
  <2>1. todo[n] \in E
    <3> HIDE DEF E
    <3> QED BY <1>0, ElementOfSeq
  <2> QED BY <2>1
<1>4. /\ \A n \in 1 .. N : Un(Sg(n), Of(n)) /\ todo[n].frame = segments[Sg(n)][Of(n)]
      /\ \A m, n \in 1 .. N : m < n => Before(Sg(m), Of(m), Sg(n), Of(n))
      /\ \A n \in 1 .. N, s \in Nat, i \in Nat :
            Un(s, i) /\ Before(s, i, Sg(n), Of(n)) => \E m \in 1 .. N : m < n /\ Sg(m) = s /\ Of(m) = i
      BY DEF InHand, FrontOf
<1>5. /\ \A s, i \in Nat : Unread(segments', a, b, s, i) <=> Un(s, i) /\ Before(a, b, s, i)
      /\ \A s, i \in Nat : Unread(segments', a, b, s, i) => segments'[s] = segments[s]
      OBVIOUS
<1>6. cursor'.segment = a /\ cursor'.offset = b BY DEF Cursor
<1>7. /\ N - 1 <= FRAMES_PER_PASS /\ (sender' \notin {"deliver", "lastDeliver"} => Tail(todo) = <<>>)
  <2>1. N <= FRAMES_PER_PASS /\ sender \in {"deliver", "lastDeliver"} BY DEF InHand, FrontOf
  <2> QED BY <1>0, <2>1, PeerSyncAssumption
<1> HIDE DEF N, Sg, Of, Un
<1>8. \A n \in 1 .. N - 1 : n + 1 \in 1 .. N /\ 1 < n + 1 /\ 1 \in 1 .. N /\ n \in Nat BY <1>0
<1>9. \A n \in 1 .. N - 1 : todo'[n].end.segment = Sg(n + 1) /\ todo'[n].end.offset = Of(n + 1)
                            /\ todo'[n].frame = todo[n + 1].frame
      BY <1>1 DEF Sg, Of
<1>10. ASSUME NEW n \in 1 .. N - 1
       PROVE  /\ Unread(segments', a, b, Sg(n + 1), Of(n + 1))
              /\ todo[n + 1].frame = segments'[Sg(n + 1)][Of(n + 1)]
  <2>1. Before(a, b, Sg(n + 1), Of(n + 1)) BY <1>2, <1>4, <1>8
  <2>2. Sg(n + 1) \in Nat /\ Of(n + 1) \in Nat BY <1>3, <1>8
  <2>3. Unread(segments', a, b, Sg(n + 1), Of(n + 1)) BY <2>1, <2>2, <1>4, <1>5, <1>8
  <2> QED BY <2>2, <2>3, <1>4, <1>5, <1>8
<1>11. ASSUME NEW m \in 1 .. N - 1, NEW n \in 1 .. N - 1, m < n
       PROVE  Before(Sg(m + 1), Of(m + 1), Sg(n + 1), Of(n + 1))
  <2>1. m + 1 < n + 1 BY <1>8, <1>11
  <2> QED BY <2>1, <1>4, <1>8
<1>12. ASSUME NEW n \in 1 .. N - 1, NEW s \in Nat, NEW i \in Nat,
              Unread(segments', a, b, s, i), Before(s, i, Sg(n + 1), Of(n + 1))
       PROVE  \E m \in 1 .. N - 1 : m < n /\ Sg(m + 1) = s /\ Of(m + 1) = i
  <2>1. Un(s, i) /\ Before(a, b, s, i) BY <1>12, <1>5
  <2>2. PICK m \in 1 .. N : m < n + 1 /\ Sg(m) = s /\ Of(m) = i BY <2>1, <1>12, <1>4, <1>8
  <2>3. m # 1
    <3>1. ~Before(a, b, a, b) BY DEF Before
    <3> QED BY <3>1, <2>1, <2>2, <1>2
  <2>4. m - 1 \in 1 .. N - 1 /\ m - 1 < n /\ (m - 1) + 1 = m BY <2>2, <2>3, <1>0, <1>8
  <2> QED BY <2>2, <2>4
<1>13. Len(todo') = N - 1 BY <1>1
<1>14. todo' \in Seq([end : [segment : Nat, offset : Nat], frame : Nat]) BY <1>1
<1>15. \A n \in 1 .. Len(todo') :
          /\ Unread(segments', cursor'.segment, cursor'.offset, todo'[n].end.segment, todo'[n].end.offset)
          /\ todo'[n].frame = segments'[todo'[n].end.segment][todo'[n].end.offset]
       BY <1>6, <1>9, <1>10, <1>13
<1>16. \A m, n \in 1 .. Len(todo') :
          m < n => Before(todo'[m].end.segment, todo'[m].end.offset, todo'[n].end.segment, todo'[n].end.offset)
  <2> SUFFICES ASSUME NEW m \in 1 .. N - 1, NEW n \in 1 .. N - 1, m < n
               PROVE  Before(todo'[m].end.segment, todo'[m].end.offset, todo'[n].end.segment, todo'[n].end.offset)
      BY <1>13, Zenon
  <2>1. Before(Sg(m + 1), Of(m + 1), Sg(n + 1), Of(n + 1)) BY <1>11
  <2> QED BY <2>1, <1>9
<1>17. ASSUME NEW n \in 1 .. Len(todo'), NEW s \in Nat, NEW i \in Nat,
              Unread(segments', cursor'.segment, cursor'.offset, s, i),
              Before(s, i, todo'[n].end.segment, todo'[n].end.offset)
       PROVE  \E m \in 1 .. Len(todo') : m < n /\ todo'[m].end.segment = s /\ todo'[m].end.offset = i
  <2>0. n \in 1 .. N - 1 /\ Unread(segments', a, b, s, i) /\ Before(s, i, Sg(n + 1), Of(n + 1))
        BY <1>6, <1>9, <1>13, <1>17
  <2>1. PICK m \in 1 .. N - 1 : m < n /\ Sg(m + 1) = s /\ Of(m + 1) = i BY <2>0, <1>12
  <2> QED BY <2>1, <1>9, <1>13
<1>18. Len(todo') <= FRAMES_PER_PASS BY <1>7, <1>13
<1>19. FrontOf(segments', cursor', todo') BY <1>14, <1>15, <1>16, <1>17, <1>18 DEF FrontOf
<1> QED BY <1>7, <1>19 DEF InHand

(* The first frame of a pass is unread, and nothing before it is.          *)
LEMMA HeadInHand ==
    ASSUME SpoolInvariant, InHand, todo # <<>>
    PROVE  \E a, b \in Nat :
              /\ a = Head(todo).end.segment /\ b = Head(todo).end.offset
              /\ Head(todo).end = Cursor(a, b) /\ Head(todo).frame = segments[a][b]
              /\ Unread(segments, cursor.segment, cursor.offset, a, b)
              /\ \A s, i \in Nat : Unread(segments, cursor.segment, cursor.offset, s, i) => ~Before(s, i, a, b)
<1> DEFINE E == [end : [segment : Nat, offset : Nat], frame : Nat]
<1>0. todo \in Seq(E) /\ Len(todo) \in Nat /\ Len(todo) # 0 BY LenProperties, EmptySeq DEF InHand, FrontOf
<1>1. 1 \in 1 .. Len(todo) BY <1>0
<1>2. Head(todo) = todo[1] /\ todo[1] \in E
  <2> HIDE DEF E
  <2> QED BY <1>0, <1>1, HeadTailProperties, ElementOfSeq
<1>3. todo[1].end.segment \in Nat /\ todo[1].end.offset \in Nat
      /\ todo[1].end = Cursor(todo[1].end.segment, todo[1].end.offset)
      BY <1>2 DEF Cursor
<1>4. /\ Unread(segments, cursor.segment, cursor.offset, todo[1].end.segment, todo[1].end.offset)
      /\ todo[1].frame = segments[todo[1].end.segment][todo[1].end.offset]
      BY <1>1 DEF InHand, FrontOf
<1>5. ASSUME NEW s \in Nat, NEW i \in Nat, Unread(segments, cursor.segment, cursor.offset, s, i),
             Before(s, i, todo[1].end.segment, todo[1].end.offset)
      PROVE  FALSE
  <2>1. \E m \in 1 .. Len(todo) : m < 1 BY <1>1, <1>5 DEF InHand, FrontOf
  <2> QED BY <2>1, <1>0
<1> QED BY <1>2, <1>3, <1>4, <1>5

(* A frame answered for good keeps it, whether or not the cursor could be  *)
(* written.                                                                *)
LEMMA DeliverKeeps == ASSUME SyncInvariant, DeliverFrame PROVE SyncInvariant'
<1>a. SpoolInvariant /\ InHand /\ InChannel /\ Parted /\ LastRound /\ Settings BY DEF SyncInvariant
<1>b. todo # <<>> /\ UNCHANGED <<rx, recordsMade, dropVars, fetchHeld, sender, syncStopping, syncStop>>
      BY DEF DeliverFrame, fetchVars
<1>c. PICK status \in Answers, ok \in BOOLEAN :
          /\ Answered(status)
          /\ status = 0 => spoolFaults < MaxSpoolFaults
          /\ got' = IF OutcomeOf(status) = "Delivered" THEN [got EXCEPT ![Head(todo).frame] = @ + 1] ELSE got
          /\ rejected' = IF OutcomeOf(status) = "Rejected" THEN rejected \cup {Head(todo).frame} ELSE rejected
          /\ commit(Head(todo).end, ok)
          /\ todo' = IF ok THEN Tail(todo) ELSE <<>>
          /\ waiting' = (waiting \/ ~ok)
      BY DEF DeliverFrame
<1>d. PICK a, b \in Nat :
         /\ a = Head(todo).end.segment /\ b = Head(todo).end.offset
         /\ Head(todo).end = Cursor(a, b) /\ Head(todo).frame = segments[a][b]
         /\ Unread(segments, cursor.segment, cursor.offset, a, b)
         /\ \A s, i \in Nat : Unread(segments, cursor.segment, cursor.offset, s, i) => ~Before(s, i, a, b)
      BY <1>a, <1>b, HeadInHand
<1>e. PICK f : f = segments[a][b] OBVIOUS
<1>f. f \in 1 .. MaxOffered BY <1>a, <1>d, <1>e, UnreadIsFrame
<1>g. /\ got' = IF OutcomeOf(status) = "Delivered" THEN [got EXCEPT ![f] = @ + 1] ELSE got
      /\ rejected' = IF OutcomeOf(status) = "Rejected" THEN rejected \cup {f} ELSE rejected
      BY <1>c, <1>d, <1>e
<1>h. /\ FrameSettled \subseteq FrameSettled' /\ f \in FrameSettled'
      /\ got' \in [1 .. MaxOffered -> Nat] /\ \A r \in 1 .. MaxOffered : r # f => got'[r] = got[r]
      /\ got'[f] <= got[f] + 1 /\ rejected' \subseteq rejected \cup {f}
      BY <1>a, <1>c, <1>f, <1>g, SettlesFrame
<1>i. commit(Cursor(a, b), ok) BY <1>c, <1>d
<1>j. /\ SpoolInvariant' /\ accepted' = accepted
      /\ ok => /\ cursor' = Cursor(a, b)
               /\ \A s, i \in Nat : Unread(segments', a, b, s, i) <=>
                     Unread(segments, cursor.segment, cursor.offset, s, i) /\ Before(a, b, s, i)
               /\ \A s, i \in Nat : Unread(segments', a, b, s, i) => segments'[s] = segments[s]
  <2>1. /\ FrameSettled \subseteq FrameSettled' /\ segments[a][b] \in FrameSettled'
        /\ got' \in [1 .. MaxOffered -> Nat]
        /\ \A r \in 1 .. MaxOffered : r # segments[a][b] => got'[r] = got[r]
        /\ got'[segments[a][b]] <= got[segments[a][b]] + 1
        /\ rejected' \subseteq rejected \cup {segments[a][b]}
        BY <1>e, <1>h
  <2>2. /\ Unread(segments, cursor.segment, cursor.offset, a, b)
        /\ \A s, i \in Nat : Unread(segments, cursor.segment, cursor.offset, s, i) => ~Before(s, i, a, b)
        BY <1>d
  <2> QED BY ONLY <1>a, <1>i, <2>1, <2>2, a \in Nat, b \in Nat, ok \in BOOLEAN, SpoolCommits
<1>1. InHand'
  <2>1. CASE ok
    <3>1. /\ SpoolInvariant /\ InHand /\ todo # <<>> /\ sender' = sender /\ todo' = Tail(todo)
          /\ a = Head(todo).end.segment /\ b = Head(todo).end.offset /\ a \in Nat /\ b \in Nat
          BY <2>1, <1>a, <1>b, <1>c, <1>d
    <3> QED BY <2>1, <3>1, <1>j, HandPasses
  <2>2. CASE ~ok BY <2>2, <1>c, EmptyHanded
  <2> QED BY <2>1, <2>2
<1>2. InChannel' /\ Parted' BY <1>a, <1>b, <1>j, ChannelStays
<1>3. Settings'
  <2>1. waiting' \in BOOLEAN BY <1>c
  <2> QED BY <2>1, <1>a DEF DeliverFrame, Settings, controlVars, fetchVars
<1>4. LastRound'
  <2>1. spoolFaults' = 0 => spoolFaults = 0 BY <1>a, <1>i, FaultsGrow
  <2> QED BY <2>1, <1>a, <1>b, RoundStays DEF dropVars
<1> QED BY <1>1, <1>2, <1>3, <1>4, <1>j DEF SyncInvariant

(* Any other answer keeps it, also a lost one for a frame the peer has     *)
(* taken.                                                                  *)
LEMMA FailsKeeps == ASSUME SyncInvariant, DeliverFails PROVE SyncInvariant'
<1>a. SpoolInvariant /\ InHand /\ InChannel /\ Parted /\ LastRound /\ Settings BY DEF SyncInvariant
<1>b. /\ todo # <<>> /\ todo' = <<>> /\ waiting' = TRUE
      /\ UNCHANGED <<rx, recordsMade, dropVars, fetchHeld, rejected, sender, syncStopping, syncStop>>
      /\ UNCHANGED <<segments, onDisk, write_segment, cursor, cursorFile, accepted, hidden, gone, usable>>
      /\ spoolFaults < MaxSpoolFaults /\ spoolFaults' = spoolFaults + 1
      BY DEF DeliverFails, Faulty, fetchVars
<1>c. PICK a, b \in Nat :
         /\ Head(todo).frame = segments[a][b]
         /\ Unread(segments, cursor.segment, cursor.offset, a, b)
      BY <1>a, <1>b, HeadInHand
<1>d. PICK f : f = segments[a][b] OBVIOUS
<1>e. f \in 1 .. MaxOffered /\ f \in accepted /\ a \in DOMAIN segments /\ b \in 1 .. Len(segments[a])
      BY <1>a, <1>c, <1>d, UnreadIsFrame
<1>f. got' = [got EXCEPT ![f] = @ + 1] \/ got' = got BY <1>c, <1>d DEF DeliverFails
<1>g. /\ got \in [1 .. MaxOffered -> Nat] /\ spoolFaults \in Nat
      /\ usable \in BOOLEAN /\ onDisk \in [DOMAIN segments -> Nat] /\ write_segment \in Nat
      /\ \A s \in DOMAIN segments : onDisk[s] <= Len(segments[s])
      BY <1>a, SpoolBounds DEF SpoolInvariant, SpoolFiles, SpoolCursor, SentWithFaults
<1>h. /\ got' \in [1 .. MaxOffered -> Nat]
      /\ \A r \in 1 .. MaxOffered : got'[r] = got[r] \/ (r = f /\ got'[r] = got[r] + 1)
  <2>1. got[f] \in Nat BY <1>e, <1>g
  <2>2. CASE got' = [got EXCEPT ![f] = @ + 1] BY <2>1, <2>2, <1>e, <1>g
  <2>3. CASE got' = got BY <2>3, <1>g
  <2> QED BY <2>2, <2>3, <1>f
<1>i. FrameSettled \subseteq FrameSettled'
  <2>1. \A r \in 1 .. MaxOffered : got[r] \in Nat BY <1>g
  <2>2. Received \subseteq Received' BY <1>h, <2>1 DEF Received
  <2> QED BY <2>2, <1>b DEF FrameSettled
<1>j. SentWithFaults'
  <2>0. SentWithFaults BY <1>a DEF SpoolInvariant
  <2>1. \A r \in 1 .. MaxOffered : got'[r] <= 1 + spoolFaults'
    <3> SUFFICES ASSUME NEW r \in 1 .. MaxOffered PROVE got'[r] <= 1 + spoolFaults' OBVIOUS
    <3>1. got[r] \in Nat /\ got[r] <= 1 + spoolFaults BY <1>g, <2>0 DEF SentWithFaults
    <3>2. got'[r] = got[r] \/ got'[r] = got[r] + 1 BY <1>h
    <3> QED BY <3>1, <3>2, <1>b, <1>g
  <2>2. \A r \in 1 .. MaxOffered : got'[r] > 0 => r \in accepted' BY <1>b, <1>e, <1>h, <2>0 DEF SentWithFaults
  <2>3. ASSUME NEW s \in DOMAIN segments', NEW i \in 1 .. Len(segments'[s]),
               Unread(segments', cursor'.segment, cursor'.offset, s, i)
        PROVE  got'[segments'[s][i]] <= spoolFaults'
    <3>1. Unread(segments, cursor.segment, cursor.offset, s, i) BY <1>b, <2>3
    <3>2. PICK x : x = segments[s][i] OBVIOUS
    <3>3. x \in 1 .. MaxOffered BY <1>a, <3>1, <3>2, UnreadIsFrame
    <3>4. got[x] \in Nat /\ got[x] <= spoolFaults BY <3>1, <3>2, <3>3, <1>b, <1>g, <2>0 DEF SentWithFaults
    <3>5. got'[x] = got[x] \/ got'[x] = got[x] + 1 BY <1>h, <3>3
    <3>6. got'[x] <= spoolFaults' BY <3>4, <3>5, <1>b, <1>g
    <3> QED BY <3>2, <3>6, <1>b
  <2> QED BY <2>0, <2>1, <2>2, <2>3, <1>b, <1>h DEF SentWithFaults
<1>1. SpoolInvariant'
  <2>1. write_segment' \in write_segment .. write_segment + 1 BY <1>b, <1>g
  <2> QED BY <2>1, <1>a, <1>b, <1>g, <1>i, <1>j, SpoolSame
<1>2. InHand' BY <1>b, EmptyHanded
<1>3. InChannel' /\ Parted' BY <1>a, <1>b, ChannelStays
<1>4. Settings' BY <1>a, <1>b DEF DeliverFails, Settings, controlVars, fetchVars
<1>5. LastRound'
  <2>1. spoolFaults' # 0 BY <1>b, <1>g
  <2> QED BY <2>1, <1>a, <1>b, RoundStays DEF dropVars
<1> QED BY <1>1, <1>2, <1>3, <1>4, <1>5 DEF SyncInvariant

(* A step that changes nothing here keeps it.                              *)
LEMMA SyncStutters == ASSUME SyncInvariant, UNCHANGED syncVars PROVE SyncInvariant'
<1>a. SpoolInvariant /\ InHand /\ InChannel /\ Parted /\ LastRound /\ Settings BY DEF SyncInvariant
<1>b. /\ UNCHANGED <<spoolVars, got, rejected>> /\ UNCHANGED <<rx, recordsMade, accepted, dropVars, fetchHeld>>
      /\ UNCHANGED <<segments, cursor, todo, sender, syncStopping, syncStop, spoolFaults>>
      BY DEF syncVars, spoolVars, countVars, senderVars, fetchVars
<1>1. SpoolInvariant' BY <1>a, <1>b, SpoolStays
<1>2. InHand' BY <1>a, <1>b, HandStays
<1>3. InChannel' /\ Parted' BY <1>a, <1>b, ChannelStays
<1>4. Settings' BY <1>a DEF syncVars, Settings, controlVars, senderVars, fetchVars
<1>5. LastRound' BY <1>a, <1>b, RoundStays DEF dropVars
<1> QED BY <1>1, <1>2, <1>3, <1>4, <1>5 DEF SyncInvariant

(* The bytes of a spool of one whole segment.                              *)
LEMMA OnlyFileSize ==
    ASSUME SpoolInvariant, NEW s, DOMAIN segments = {s}, \A i \in 1 .. Len(segments[s]) : segments[s][i] # TornTail
    PROVE  total_bytes = 1 + 2 * Len(segments[s])
<1> DEFINE n == 1 + 2 * Len(segments[s])
<1>1. segments[s] \in Seq(Nat) /\ Len(segments[s]) \in Nat
      BY LenProperties DEF SpoolInvariant, SpoolFiles
<1>2. n \in Nat /\ SegmentSize(segments[s]) = n BY <1>1, SizeIs
<1> HIDE DEF n
<1>3. UNION {{t} \X (1 .. SegmentSize(segments[t])) : t \in list_segments} = {s} \X (1 .. n)
      BY <1>2 DEF list_segments
<1>4. IsFiniteSet({s}) /\ Cardinality({s}) = 1 BY FS_Singleton
<1>5. IsFiniteSet(1 .. n) /\ Cardinality(1 .. n) = n
  <2>1. 1 \in Int /\ n \in Int BY <1>2
  <2>2. IsFiniteSet(1 .. n) /\ Cardinality(1 .. n) = IF 1 > n THEN 0 ELSE n - 1 + 1 BY <2>1, FS_Interval
  <2> QED BY <2>2, <1>2
<1>6. Cardinality({s} \X (1 .. n)) = 1 * n
  <2>1. Cardinality({s} \X (1 .. n)) = Cardinality({s}) * Cardinality(1 .. n) BY ONLY <1>4, <1>5, FS_Product
  <2> QED BY <2>1, <1>4, <1>5
<1>7. 1 * n = n BY <1>2
<1> QED BY <1>3, <1>6, <1>7 DEF total_bytes, n

(* Before anything fails, a spool with nothing to send is one segment,     *)
(* read to its end.                                                        *)
LEMMA DrainedSpool ==
    ASSUME SpoolInvariant, spoolFaults = 0, Reachable = {}
    PROVE  DOMAIN segments = {cursor.segment} /\ Len(segments[cursor.segment]) = cursor.offset
<1> DEFINE cs == cursor.segment
           co == cursor.offset
<1>1. /\ cs \in DOMAIN segments /\ cs \in Nat /\ co \in Nat /\ co <= Len(segments[cs])
      /\ \A s \in DOMAIN segments :
            /\ s \in Nat /\ Len(segments[s]) \in Nat /\ s >= cs
            /\ \A i \in 1 .. Len(segments[s]) : segments[s][i] # TornTail
            /\ Len(segments[s]) > 0 \/ DOMAIN segments = {s}
      BY LenProperties DEF SpoolInvariant, SpoolFiles, SpoolCursor, WithoutFaults
<1>2. ASSUME NEW s \in DOMAIN segments, NEW i \in 1 .. Len(segments[s]), i > Start(cs, co, s)
      PROVE  FALSE
  <2>1. s \in Nat /\ i \in Nat /\ Start(cs, co, s) \in Nat
    <3>1. s \in Nat /\ Len(segments[s]) \in Nat /\ co \in Nat BY <1>1
    <3>2. i \in Nat BY <3>1
    <3> QED BY <3>1, <3>2 DEF Start
  <2>2. \A k \in Start(cs, co, s) + 1 .. i : k \in 1 .. Len(segments[s]) BY <1>1, <2>1
  <2>3. Unread(segments, cs, co, s, i) BY <1>1, <1>2, <2>1, <2>2 DEF Unread
  <2>4. segments[s][i] \in Reachable BY <2>1, <2>3, UnreadIsReachable
  <2> QED BY <2>4
<1>3. Len(segments[cs]) = co
  <2> SUFFICES ASSUME Len(segments[cs]) > co PROVE FALSE BY <1>1
  <2>1. Len(segments[cs]) \in 1 .. Len(segments[cs]) /\ Len(segments[cs]) > Start(cs, co, cs) BY <1>1 DEF Start
  <2> QED BY <1>1, <1>2, <2>1
<1>4. ASSUME NEW s \in DOMAIN segments, s # cs PROVE FALSE
  <2>1. DOMAIN segments # {s} BY <1>1, <1>4
  <2>2. Len(segments[s]) > 0 BY <1>1, <2>1
  <2>3. Len(segments[s]) \in 1 .. Len(segments[s]) /\ Len(segments[s]) > Start(cs, co, s)
        BY <1>1, <1>4, <2>2 DEF Start
  <2> QED BY <1>2, <2>3
<1>5. DOMAIN segments = {cs} BY <1>1, <1>4
<1> QED BY <1>3, <1>5

(* Such a spool has room.                                                  *)
LEMMA DrainedRoom == ASSUME SpoolInvariant PROVE DrainedHasRoom
<1> SUFFICES ASSUME Reachable = {}, spoolFaults = 0 PROVE ~NoRoom BY DEF DrainedHasRoom
<1>1. PICK s : s = cursor.segment OBVIOUS
<1>2. DOMAIN segments = {s} BY <1>1, DrainedSpool
<1>3. /\ \A i \in 1 .. Len(segments[s]) : segments[s][i] # TornTail
      /\ 1 + 2 * Len(segments[s]) <= SegmentBytes \/ Len(segments[s]) <= 1
      BY <1>2 DEF SpoolInvariant, WithoutFaults
<1>4. total_bytes = 1 + 2 * Len(segments[s]) BY <1>2, <1>3, OnlyFileSize
<1>5. Len(segments[s]) \in Nat BY <1>2, LenProperties DEF SpoolInvariant, SpoolFiles
<1>6. SegmentBytes \in Nat /\ MaxTotalBytes \in Nat /\ SegmentBytes < MaxTotalBytes /\ 3 < MaxTotalBytes
      BY SpoolAssumption, PeerSyncAssumption DEF HEADER_BYTES, FRAME_OVERHEAD
<1>7. PICK n \in Nat : n = Len(segments[s]) BY <1>5
<1>8. n <= 1 \/ 1 + 2 * n <= SegmentBytes BY <1>3, <1>7
<1>9. ~(1 + 2 * n + 1 > MaxTotalBytes) BY ONLY <1>6, <1>8, n \in Nat
<1> QED BY <1>4, <1>7, <1>9 DEF NoRoom

(* The types follow from the invariant.                                    *)
LEMMA SyncTyped == ASSUME SyncInvariant PROVE PeerSyncTypeOK
<1>a. SpoolInvariant /\ InHand /\ InChannel /\ Parted /\ LastRound /\ Settings BY DEF SyncInvariant
<1>1. SpoolTypeOK
  <2>1. SpoolFiles /\ SpoolCursor BY <1>a DEF SpoolInvariant
  <2>2. writer \in Nat BY <2>1 DEF SpoolFiles
  <2>3. \A s \in DOMAIN segments : onDisk[s] \in Nat /\ Len(segments[s]) \in Nat
        BY <2>1, LenProperties DEF SpoolFiles
  <2>4. \A s \in DOMAIN segments : onDisk[s] \in 0 .. Len(segments[s]) BY <2>1, <2>3 DEF SpoolFiles
  <2>5. cursor.segment \in Nat \ {0} /\ cursor.segment <= writer BY <2>1 DEF SpoolCursor
  <2>6. cursor.segment \in 1 .. writer BY <2>2, <2>5
  <2>7. write_segment >= writer /\ DOMAIN onDisk = DOMAIN segments BY <2>1, <2>2 DEF SpoolFiles
  <2> QED BY <2>1, <2>4, <2>6, <2>7 DEF SpoolTypeOK, SpoolCursor
<1>2. UNION {counted, leftOut, withdrawn, rejected, Received} \subseteq 1 .. recordsMade
  <2>1. counted \subseteq NeverSent /\ leftOut \subseteq NeverSent /\ withdrawn \subseteq NeverSent
        BY DEF NeverSent
  <2>2. accepted \subseteq 1 .. recordsMade /\ NeverSent \subseteq 1 .. recordsMade BY <1>a DEF Parted
  <2>3. rejected \subseteq accepted /\ Received \subseteq accepted
        BY <1>a DEF SpoolInvariant, SentWithFaults, Received
  <2> QED BY <2>1, <2>2, <2>3
<1>3. backfill.state \in FetchStates /\ backfill.cancel \in BOOLEAN BY <1>a DEF Settings
<1>4. fetchHeld \in 0 .. recordsMade
  <2>1. recordsMade \in Nat BY <1>a, PeerSyncAssumption DEF InChannel
  <2>2. fetchHeld = 0 \/ fetchHeld \in 1 .. recordsMade BY <1>a DEF Parted, Hand
  <2> QED BY <2>1, <2>2
<1> QED BY <1>1, <1>2, <1>3, <1>4, <1>a DEF PeerSyncTypeOK, InHand, FrontOf, InChannel, Settings

(* The invariant gives what the runs check.                                *)
LEMMA SyncImplies == ASSUME SyncInvariant PROVE PeerSyncInv
<1>a. SpoolInvariant /\ InChannel /\ Parted /\ LastRound BY DEF SyncInvariant
<1>1. PeerSyncTypeOK BY SyncTyped
<1>2. AcceptedIsKept
  <2> SUFFICES ASSUME NEW r \in accepted \ (gone \cup hidden), r \notin FrameSettled PROVE r \in Reachable
      BY DEF AcceptedIsKept
  <2>1. PICK s \in DOMAIN segments : \E i \in 1 .. Len(segments[s]) :
           Unread(segments, cursor.segment, cursor.offset, s, i) /\ segments[s][i] = r
        BY <1>a DEF SpoolInvariant, KeptOrSettled
  <2>2. PICK i \in 1 .. Len(segments[s]) : Unread(segments, cursor.segment, cursor.offset, s, i) /\ segments[s][i] = r
        BY <2>1
  <2>3. s \in Nat /\ i \in Nat BY <1>a, <2>2, UnreadIsFrame
  <2>4. segments[s][i] \in Reachable BY <1>a, <2>2, <2>3, UnreadIsReachable
  <2> QED BY <2>2, <2>4
<1>3. ResendsNeedFaults BY <1>a DEF ResendsNeedFaults, Received, SpoolInvariant, SentWithFaults
<1>4. DrainedHasRoom BY <1>a, DrainedRoom
<1>5. OfferedAccounted
  <2>1. OnTheWay = Chan \cup Hand
    <3>1. {i.record : i \in TapItems \cup FetchItem} = {i.record : i \in TapItems} \cup {i.record : i \in FetchItem}
          OBVIOUS
    <3> QED BY <3>1, ItemRecords DEF OnTheWay
  <2>2. 1 .. recordsMade = NeverSent \cup accepted \cup OnTheWay BY <2>1, <1>a DEF Parted
  <2>3. NeverSent \cap accepted = {} /\ OnTheWay \cap (NeverSent \cup accepted) = {} BY <2>1, <1>a DEF Parted
  <2> QED BY <2>2, <2>3, <1>a DEF OfferedAccounted, LastRound
<1> QED BY <1>1, <1>2, <1>3, <1>4, <1>5 DEF PeerSyncInv

(* PeerSyncInv for every size of the spool, the channel and a pass: what   *)
(* was spooled is there until the peer has answered for it, through rolls, *)
(* unlinked segments, failed calls and crashes; the peer receives a frame  *)
(* again only after a fault; a drained spool has room; and every record    *)
(* offered or fetched is in one place, dropped, on its way or in the       *)
(* spool, a live one being lost with the channel only after a fault.       *)
THEOREM PeerSyncSafe == PeerSyncSpec => []PeerSyncInv
<1>1. PeerSyncInit => SyncInvariant BY SyncInitially
<1>2. SyncInvariant /\ [PeerSyncNext]_syncVars => SyncInvariant'
  <2> SUFFICES ASSUME SyncInvariant, [PeerSyncNext]_syncVars PROVE SyncInvariant' OBVIOUS
  <2>1. CASE offer \/ BackfillReads \/ BackfillSends \/ BackfillSendFails BY <2>1, OfferKeeps, FetchKeeps
  <2>2. CASE \/ \E on \in BOOLEAN : set_target(on)
             \/ set_target_ends \/ start_backfill \/ cancel_backfill
             \/ BackfillSpawned \/ BackfillEnds \/ SyncShutdown \/ WaitEnds
             \/ LoopTop \/ PassEnds
        BY <2>2, ControlKeeps, PassKeeps
  <2>3. CASE enqueue BY <2>3, EnqueueKeeps
  <2>4. CASE SenderDrained BY <2>4, TickKeeps
  <2>5. CASE FlushTap BY <2>5, FlushKeeps
  <2>6. CASE DeliverFrame BY <2>6, DeliverKeeps
  <2>7. CASE DeliverFails BY <2>7, FailsKeeps
  <2>8. CASE SyncRestart BY <2>8, RestartKeeps
  <2>9. CASE UNCHANGED syncVars BY <2>9, SyncStutters
  <2> QED BY <2>1, <2>2, <2>3, <2>4, <2>5, <2>6, <2>7, <2>8, <2>9 DEF PeerSyncNext, SenderNext, FetchNext
<1>3. SyncInvariant => PeerSyncInv BY SyncImplies
<1> QED BY <1>1, <1>2, <1>3, PTL DEF PeerSyncSpec
=============================================================================
