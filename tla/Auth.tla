-------------------------------- MODULE Auth --------------------------------
(***************************************************************************)
(* Broker tokens and temporary S3 credentials (auth.rs, auth/s3.rs): the   *)
(* key set of the broker, its cache in the data directory, the refreshes   *)
(* of the hourly thread and of requests that meet an unknown key id, and   *)
(* the session key the S3 credentials are made under.                      *)
(*                                                                         *)
(* The broker is external: it signs with the key of its generation and     *)
(* publishes that key and the one before it.  A token is its key id and    *)
(* its expiry; its signature is good exactly when its key id is the        *)
(* broker's.                                                               *)
(***************************************************************************)
EXTENDS Naturals, FiniteSets, FiniteSetsExt

CONSTANTS
    Handlers,          \* request handlers that verify tokens
    KID_REFRESH_SECS,  \* UNKNOWN_KID_REFRESH_SECS
    CLOCK_SKEW,        \* [auth] clock_skew_secs
    S3_TTL,            \* [auth] s3_credentials_ttl_secs
    MaxGeneration, MaxAuthClock, MaxAuthFaults, MaxAuthRestarts, MaxCredentials  \* bounds

ASSUME AuthAssumption ==
    /\ {KID_REFRESH_SECS, CLOCK_SKEW, S3_TTL, MaxAuthFaults, MaxAuthRestarts, MaxCredentials} \subseteq Nat
    /\ {MaxGeneration, MaxAuthClock} \subseteq Nat \ {0}

VARIABLES
    generation,      \* the broker's current key
    keySet,          \* KeySet in memory: keys and the etag they came with
    keyCache,        \* the key set cache file
    cacheRead,       \* history: load_cache used the file, or a set was fetched since
    lastAttempt,     \* RefreshState::last_attempt_unix_secs
    lastKid,         \* history: when an unknown key id last caused a fetch
    fetcher,         \* [Handlers and the timer -> what each does about keys]
    sessionKey,      \* Sessions::key: its number, and whether it is on disk
    sessionKeyFile,  \* the session key file: a key's number, or 0
    nextKey,         \* the next key random_key returns
    credentials,     \* the S3 credentials issued
    authClock, authFaults, authRestarts

keyVars == <<keySet, keyCache, cacheRead, lastAttempt, lastKid, fetcher>>
sessionVars == <<sessionKey, sessionKeyFile, nextKey, credentials>>
authVars == <<generation, keyVars, sessionVars, authClock, authFaults, authRestarts>>

Timer == "timer"
KeyFetchers == Handlers \cup {Timer}

(* What the broker publishes; etags are generations.                       *)
Published(g) == {k \in {g - 1, g} : k > 0}

EmptyKeys == [keys |-> {}, etag |-> 0]

NotFetching == [pc |-> "idle", kid |-> 0, exp |-> 0, at |-> 0, answer |-> EmptyKeys]

AuthInit ==
    /\ generation = 1
    /\ keySet = EmptyKeys /\ keyCache = EmptyKeys /\ cacheRead = TRUE
    /\ lastAttempt = 0 /\ lastKid = 0
    /\ fetcher = [f \in KeyFetchers |-> NotFetching]
    /\ sessionKey = [key |-> 1, persisted |-> TRUE]
    /\ sessionKeyFile = 1 /\ nextKey = 2
    /\ credentials = {}
    /\ authClock = 1 /\ authFaults = 0 /\ authRestarts = 0

-----------------------------------------------------------------------------
(* Verifying a token.                                                      *)

(* Jwt::verify_at, step 4: exp against now less the allowance.             *)
InTime(exp, at) == exp + CLOCK_SKEW > at

(* Jwt::verify_at, steps 2 and 3.                                          *)
KeyKnown(kid) == kid \in keySet.keys

(* issue_s3_credentials: the token's end, or the credential's.             *)
Expiry(exp) == Min({exp, authClock + S3_TTL})

(* issue_s3_credentials: no time left is a refusal; nothing is stored but  *)
(* what the caller holds.                                                  *)
Issued(exp) ==
    IF Expiry(exp) > authClock
    THEN credentials \cup {[exp |-> Expiry(exp), tokenExp |-> exp, key |-> sessionKey.key]}
    ELSE credentials

(* A request trades a token whose key is known for S3 credentials.         *)
Trade(h, kid, exp) ==
    /\ fetcher[h].pc = "idle"
    /\ KeyKnown(kid) /\ InTime(exp, authClock)
    /\ Cardinality(Issued(exp)) <= MaxCredentials
    /\ credentials' = Issued(exp)
    /\ UNCHANGED <<generation, keyVars, sessionKey, sessionKeyFile, nextKey, authClock, authFaults, authRestarts>>

(* refresh_for_unknown_kid: the slot, taken under the lock.                *)
SlotFree == lastAttempt = 0 \/ authClock >= lastAttempt + KID_REFRESH_SECS

(* A request meets a key id it does not know; when the slot is taken it is *)
(* refused and nothing changes.                                            *)
MeetUnknownKid(h, kid, exp) ==
    /\ fetcher[h].pc = "idle"
    /\ ~KeyKnown(kid) /\ SlotFree
    /\ lastAttempt' = authClock /\ lastKid' = authClock
    /\ fetcher' = [fetcher EXCEPT ![h] = [NotFetching EXCEPT !.pc = "ask", !.kid = kid, !.exp = exp, !.at = authClock]]
    /\ UNCHANGED <<generation, keySet, keyCache, cacheRead, sessionVars, authClock, authFaults, authRestarts>>

(* start_refresh: the hourly refresh, with the time it started at.         *)
TimerRefreshes ==
    /\ fetcher[Timer].pc = "idle"
    /\ fetcher' = [fetcher EXCEPT ![Timer] = [NotFetching EXCEPT !.pc = "ask", !.at = authClock]]
    /\ UNCHANGED <<generation, keySet, keyCache, cacheRead, lastAttempt, lastKid, sessionVars, authClock, authFaults, authRestarts>>

(* fetch: 304 when the etag sent is the broker's, else the whole set.      *)
Ask(f) ==
    /\ fetcher[f].pc = "ask"
    /\ fetcher' = [fetcher EXCEPT ![f].pc = IF keySet.etag = generation THEN "confirmed" ELSE "body",
                                  ![f].answer = IF keySet.etag = generation THEN EmptyKeys
                                                ELSE [keys |-> Published(generation), etag |-> generation]]
    /\ UNCHANGED <<generation, keySet, keyCache, cacheRead, lastAttempt, lastKid, sessionVars, authClock, authFaults, authRestarts>>

(* The broker does not answer, or answers a set without a usable key.      *)
AskFails(f) ==
    /\ fetcher[f].pc = "ask" /\ authFaults < MaxAuthFaults
    /\ authFaults' = authFaults + 1
    /\ \E pc \in {"failed", "body"} : fetcher' = [fetcher EXCEPT ![f].pc = pc, ![f].answer = [keys |-> {}, etag |-> generation]]
    /\ UNCHANGED <<generation, keySet, keyCache, cacheRead, lastAttempt, lastKid, sessionVars, authClock, authRestarts>>

(* Mutant of Usable: a set without keys is a set.                          *)
UsableAny(f) == fetcher[f].pc = "body"

(* parse_jwks: a set without a key is an error.                            *)
Usable(f) == fetcher[f].pc = "body" /\ fetcher[f].answer.keys # {}

(* Mutant of Applied: the keys of the answer, the etag of the moment.      *)
AppliedNewest(f) == IF Usable(f) THEN [keys |-> fetcher[f].answer.keys, etag |-> generation] ELSE keySet

(* refresh: keys and etag of a body; a 304 or a failure changes neither.   *)
Applied(f) == IF Usable(f) THEN fetcher[f].answer ELSE keySet

Succeeded(f) == Usable(f) \/ fetcher[f].pc = "confirmed"

(* refresh, under the state's lock: the attempt is dated by its start, the *)
(* set is replaced and the cache written, unless the disk fails.  A        *)
(* request then looks its key up again.                                    *)
Apply(f) ==
    /\ fetcher[f].pc \in {"confirmed", "body", "failed"}
    /\ lastAttempt' = fetcher[f].at
    /\ keySet' = Applied(f) /\ cacheRead' = (cacheRead \/ Usable(f))
    /\ \/ /\ keyCache' = IF Succeeded(f) THEN Applied(f) ELSE keyCache
          /\ UNCHANGED authFaults
       \/ Succeeded(f) /\ authFaults < MaxAuthFaults /\ authFaults' = authFaults + 1 /\ UNCHANGED keyCache
    /\ fetcher' = [fetcher EXCEPT ![f].pc = IF f # Timer /\ Succeeded(f) THEN "again" ELSE "idle", ![f].answer = EmptyKeys]
    /\ UNCHANGED <<generation, lastKid, sessionVars, authClock, authRestarts>>

(* The second lookup, judged at the time the request came.                 *)
LookAgain(h) ==
    /\ fetcher[h].pc = "again"
    /\ LET token == fetcher[h] IN
       credentials' = IF KeyKnown(token.kid) /\ InTime(token.exp, token.at) /\ Cardinality(Issued(token.exp)) <= MaxCredentials
                      THEN Issued(token.exp) ELSE credentials
    /\ fetcher' = [fetcher EXCEPT ![h] = NotFetching]
    /\ UNCHANGED <<generation, keySet, keyCache, cacheRead, lastAttempt, lastKid, sessionKey, sessionKeyFile, nextKey, authClock, authFaults, authRestarts>>

-----------------------------------------------------------------------------
(* Sessions, restarts and the outside.                                     *)

(* Sessions::verify: the MAC under the key in use, then the expiry.        *)
SessionVerifies(c) == c.key = sessionKey.key /\ c.exp > authClock

(* load_or_create: the file's key, none when it is missing or not 64 hex   *)
(* digits.                                                                 *)
Loaded(found) == IF found = "lost" THEN 0 ELSE sessionKeyFile

(* Sessions::open: the key on disk, else a new one.  It is held in memory  *)
(* only when it cannot be written, and when the file cannot be read, which *)
(* then stays as it is.                                                    *)
OpenSessions(found, written) ==
    IF found # "unreadable" /\ Loaded(found) # 0
    THEN sessionKey' = [key |-> Loaded(found), persisted |-> TRUE] /\ UNCHANGED <<sessionKeyFile, nextKey>>
    ELSE LET persisted == written /\ found # "unreadable"
         IN  /\ sessionKey' = [key |-> nextKey, persisted |-> persisted]
             /\ sessionKeyFile' = IF persisted THEN nextKey ELSE Loaded(found)
             /\ nextKey' = nextKey + 1

(* load_cache: a file that is unreadable or another issuer's is skipped    *)
(* and stays; one that does not parse (it is written without a sync) holds *)
(* nothing any more.                                                       *)
LoadCache(cache) ==
    /\ keySet' = IF cache = "read" THEN keyCache ELSE EmptyKeys
    /\ keyCache' = IF cache = "spoiled" THEN EmptyKeys ELSE keyCache
    /\ cacheRead' = (cache # "skipped")

KeyFinds == {"read", "lost", "unreadable"}
CacheFinds == {"read", "skipped", "spoiled"}

(* Builder::broker after a crash or a stop: what it finds of the session   *)
(* key's file and of the cache, and whether a new key can be written.      *)
AuthRestart(found, written, cache) ==
    /\ authRestarts < MaxAuthRestarts
    /\ LET faulty == found # "read" \/ cache # "read"
       IN  /\ faulty => authFaults < MaxAuthFaults
           /\ authFaults' = authFaults + (IF faulty THEN 1 ELSE 0)
    /\ LoadCache(cache) /\ lastAttempt' = 0
    /\ fetcher' = [f \in KeyFetchers |-> NotFetching]
    /\ OpenSessions(found, written)
    /\ authRestarts' = authRestarts + 1
    /\ UNCHANGED <<generation, lastKid, credentials, authClock>>

RotateKey ==
    /\ generation < MaxGeneration /\ generation' = generation + 1
    /\ UNCHANGED <<keyVars, sessionVars, authClock, authFaults, authRestarts>>

AuthTick ==
    /\ authClock < MaxAuthClock /\ authClock' = authClock + 1
    /\ UNCHANGED <<generation, keyVars, sessionVars, authFaults, authRestarts>>

(* Tokens carry a key of the broker, past or present, or (0) no key of it. *)
TokenKids == 0..generation

Refreshing == TimerRefreshes \/ \E f \in KeyFetchers : Ask(f) \/ Apply(f)

AuthNext ==
    \/ \E h \in Handlers, kid \in TokenKids, exp \in 1 .. MaxAuthClock + 1 : Trade(h, kid, exp) \/ MeetUnknownKid(h, kid, exp)
    \/ TimerRefreshes
    \/ \E f \in KeyFetchers : Ask(f) \/ AskFails(f) \/ Apply(f)
    \/ \E h \in Handlers : LookAgain(h)
    \/ \E found \in KeyFinds, written \in BOOLEAN, cache \in CacheFinds : AuthRestart(found, written, cache)
    \/ RotateKey
    \/ AuthTick

AuthSpec == AuthInit /\ [][AuthNext]_authVars

(* The refresh thread loops for as long as the process lives, and a fetch  *)
(* has a timeout.                                                          *)
AuthFairness == WF_authVars(TimerRefreshes) /\ \A f \in KeyFetchers : WF_authVars(Ask(f)) /\ WF_authVars(Apply(f))
AuthFairSpec == AuthSpec /\ AuthFairness

-----------------------------------------------------------------------------
(* Properties.                                                             *)

(* Types; a credential lasts no longer than its configured life.           *)
AuthTypeOK ==
    /\ generation \in 1..MaxGeneration /\ authClock \in 1..MaxAuthClock
    /\ \A s \in {keySet, keyCache} : s.etag \in 0..generation /\ s.keys \subseteq Nat
    /\ \A f \in KeyFetchers : fetcher[f].pc \in {"idle", "ask", "confirmed", "body", "failed", "again"}
    /\ lastAttempt \in 0..authClock /\ lastKid \in 0..authClock
    /\ Cardinality(credentials) <= MaxCredentials
    /\ \A c \in credentials : c.exp <= authClock + S3_TTL

(* Once a key set was saved the process has keys, all of one set the       *)
(* broker published and under its etag: not an unreachable broker, an      *)
(* empty answer, answers out of order or a restart takes them away         *)
(* (refresh, parse_jwks, load_cache).  A start that cannot use the cache   *)
(* has none until the next fetch.                                          *)
KeysAreKept ==
    /\ keyCache.etag > 0 /\ cacheRead => keySet.keys # {}
    /\ keySet.keys = Published(keySet.etag)

(* An S3 credential that is still accepted was given for a token that has  *)
(* not expired, allowance or not (issue_s3_credentials).                   *)
CredentialWithinToken == \A c \in credentials : SessionVerifies(c) => authClock < c.tokenExp

(* Credentials made under the session key on disk are accepted until they  *)
(* expire, across any number of restarts and through processes that could  *)
(* not read the key, by every process that runs with a key of the disk     *)
(* (Sessions::open, persisted).                                            *)
SessionsSurvive ==
    \A c \in credentials :
        sessionKey.persisted /\ c.key = sessionKeyFile /\ c.exp > authClock => SessionVerifies(c)

(* "At most one attempt per UNKNOWN_KID_REFRESH_SECS, whoever asks": but   *)
(* a refresh dates the attempt by its start when it ends, so a slow hourly *)
(* refresh sets the clock of the slot back.                                *)
OneKidFetch == [][lastKid' # lastKid => lastKid = 0 \/ lastKid' >= lastKid + KID_REFRESH_SECS]_authVars

(* Whatever order concurrent refreshes end in, the keys in use end up      *)
(* being the broker's (refresh: keys and etag are replaced together).      *)
KeysCatchUp == <>[](keySet.keys = Published(generation))

(* What auth.rs keeps to: a good key is kept through bad answers, a        *)
(* credential ends with its token, and a session outlives a restart that   *)
(* finds its key.                                                          *)
AuthInv == AuthTypeOK /\ KeysAreKept /\ CredentialWithinToken /\ SessionsSurvive
=============================================================================
