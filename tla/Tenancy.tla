------------------------------- MODULE Tenancy -------------------------------
(***************************************************************************)
(* From a credential to a partition: who a request is from and what it may *)
(* do (auth.rs: Verifier::authorize and admit), the index each record goes *)
(* to (config.rs: Tenancy), the attributes that carry tenant and index     *)
(* through the write-ahead log, and the partition the merge reads them     *)
(* back into, after a restart with another config too.                     *)
(*                                                                         *)
(* Names that make no directory, and what a request holds beyond its       *)
(* credential, are left out.  A token stands for its checked claims, or    *)
(* for the failure it met (Auth).                                          *)
(***************************************************************************)
EXTENDS Naturals, Sequences, FiniteSets, SequencesExt, FiniteSetsExt, Functions

CONSTANTS
    Configs,          \* the [[tenants]] lists the config can hold
    Principals,       \* [[principals]] and the older settings, with their keys
    Tokens,           \* broker tokens
    TenantRecords,          \* what senders send: tenant and index attributes, severity
    LevelBuckets,     \* a retention list: name and min_severity
    ClosedListeners,           \* listeners that ask for a credential
    WholeLevel,            \* listeners that take all of a batch or nothing (HEC)
    Listeners,
    MAX_COUNTED,      \* MAX_COUNTED_PRINCIPALS
    MaxRequests, MaxConfigs, MaxBatch   \* bounds

None == "none"
AllIndexes == {"*"}
DEFAULT_INDEX == "default"
Nobody == [id |-> "nobody"]
Stranger == [id |-> "stranger"]

VARIABLES
    tenancy,      \* the [[tenants]] of the running config
    walRecords,   \* admitted records, not merged
    rows,         \* merged rows: record and partition
    sightings,         \* by_principal: counters by "tenant/id", or "(others)"
    routed,       \* RouteStats::defaulted
    rerouted,     \* MergeReport::index_rerouted
    requests, configs

tenancyVars == <<tenancy, walRecords, rows, sightings, routed, rerouted, requests, configs>>

-----------------------------------------------------------------------------
(* Tenancy.                                                                *)

Own(cfg) == Head(cfg).id

TenantIds(cfg) == {cfg[i].id : i \in DOMAIN cfg}

(* configured.                                                             *)
Tenant(cfg, id) == cfg[CHOOSE i \in DOMAIN cfg : cfg[i].id = id]

(* default_index_of: the one named default, or else the first.             *)
DefaultIndexOf(cfg, id) ==
    LET list == Tenant(cfg, id).indexes IN
    IF DEFAULT_INDEX \in Range(list) THEN DEFAULT_INDEX ELSE Head(list)

(* index_of.                                                               *)
HasIndex(cfg, id, index) == id \in TenantIds(cfg) /\ index \in Range(Tenant(cfg, id).indexes)

(* route_in: the index, and whether the record asked for it.               *)
RouteIn(cfg, id, asked) ==
    CASE id \notin TenantIds(cfg) -> [kind |-> "refused", index |-> None]
      [] id \in TenantIds(cfg) /\ asked = None -> [kind |-> "known", index |-> DefaultIndexOf(cfg, id)]
      [] HasIndex(cfg, id, asked) -> [kind |-> "known", index |-> asked]
      [] OTHER -> IF Tenant(cfg, id).unknown = "default" THEN [kind |-> "defaulted", index |-> DefaultIndexOf(cfg, id)]
                  ELSE [kind |-> "refused", index |-> None]

(* LevelBuckets::new sorts by min_severity, which covers from 0 once each. *)
Buckets == SortSeq(LevelBuckets, LAMBDA a, b : a.min < b.min)

(* partition_point(min_severity <= severity) - 1, saturating.              *)
BucketAt(severity) ==
    LET point == Cardinality({i \in DOMAIN Buckets : Buckets[i].min <= severity})
    IN IF point = 0 THEN 1 ELSE point

(* bucket_for.                                                             *)
BucketFor(severity) == Buckets[BucketAt(severity)].name

(* names_from.                                                             *)
NamesFrom(severity) == {Buckets[i].name : i \in BucketAt(severity)..Len(Buckets)}

-----------------------------------------------------------------------------
(* Principals.                                                             *)

(* Kind::may, for the routes records come in by.                           *)
MayIngest(kind) == kind \in {"ingest", "node"}

Anonymous == [id |-> "anonymous", kind |-> "ingest", tenant |-> Own(tenancy), indexes |-> AllIndexes]

(* Builder: an older setting's key is the own tenant's; a [[principals]]   *)
(* entry of a tenant that is gone is gone too, or the config is refused.   *)
Known(p) == p.tenant = None \/ p.tenant \in TenantIds(tenancy)

Of(p) == [id |-> p.id, kind |-> p.kind, indexes |-> p.indexes,
          tenant |-> IF p.tenant = None THEN Own(tenancy) ELSE p.tenant]

(* verify_at: only_at.                                                     *)
GoodAt(p, listener) == Known(p) /\ p.at \in {None, listener}

(* verify_at: a static key, then a token; what is neither is unknown_key.  *)
Verify(listener, cred) ==
    CASE cred \in Principals /\ GoodAt(cred, listener) -> [ok |-> TRUE, who |-> Of(cred)]
      [] cred \in Tokens /\ cred.failure = None /\ cred.tenant \in TenantIds(tenancy) ->
            [ok |-> TRUE, who |-> [id |-> cred.id, kind |-> cred.kind, tenant |-> cred.tenant, indexes |-> cred.indexes]]
      [] cred \in Tokens -> [ok |-> FALSE, why |-> IF cred.failure = None THEN "unknown_tenant" ELSE cred.failure]
      [] OTHER -> [ok |-> FALSE, why |-> "unknown_key"]

(* is_token_failure.                                                       *)
IsTokenFailure(why) == why \notin {"missing", "unknown_key"}

(* authorize, up to the kind.                                              *)
Who(listener, cred) ==
    IF cred = Nobody
    THEN IF listener \in ClosedListeners THEN [ok |-> FALSE, why |-> "missing"] ELSE [ok |-> TRUE, who |-> Anonymous]
    ELSE LET v == Verify(listener, cred) IN
         IF ~v.ok /\ listener \notin ClosedListeners /\ ~IsTokenFailure(v.why) THEN [ok |-> TRUE, who |-> Anonymous] ELSE v

TokenAuthorized(listener, cred) == Who(listener, cred).ok /\ MayIngest(Who(listener, cred).who.kind)

(* Indexes::allows.                                                        *)
Allows(indexes, index) == indexes = AllIndexes \/ index \in indexes

(* Principal::default_index.                                               *)
PrincipalDefault(p) ==
    LET default == DefaultIndexOf(tenancy, p.tenant)
        listed == SelectSeq(Tenant(tenancy, p.tenant).indexes, LAMBDA i : i \in p.indexes)
    IN CASE Allows(p.indexes, default) -> default
         [] ~Allows(p.indexes, default) /\ listed # <<>> -> Head(listed)
         [] OTHER -> None

-----------------------------------------------------------------------------
(* admit.                                                                  *)

(* Mutant of Chosen: an index the tenant has is the principal's.           *)
ChosenOfTenant(p, r) ==
    CASE r.index = None -> PrincipalDefault(p)
      [] HasIndex(tenancy, p.tenant, r.index) -> r.index
      [] OTHER -> IF Tenant(tenancy, p.tenant).unknown = "default" THEN PrincipalDefault(p) ELSE None

(* The index of one record, None when it is refused.                       *)
Chosen(p, r) ==
    CASE r.index = None -> PrincipalDefault(p)
      [] HasIndex(tenancy, p.tenant, r.index) /\ Allows(p.indexes, r.index) -> r.index
      [] OTHER -> IF Tenant(tenancy, p.tenant).unknown = "default" THEN PrincipalDefault(p) ELSE None

WrongTenant(p, batch) == \E i \in DOMAIN batch : batch[i].tenant \notin {None, p.tenant}

Refused(p, batch) == {i \in DOMAIN batch : Chosen(p, batch[i]) = None}

Defaulted(p, batch) ==
    {i \in DOMAIN batch : /\ batch[i].index # None /\ Chosen(p, batch[i]) # None
                          /\ Chosen(p, batch[i]) # batch[i].index}

(* The attributes as admit rewrites them; by, cred and meant are history.  *)
Bound(p, cred, r) ==
    [tenant |-> IF p.tenant = Own(tenancy) THEN None ELSE p.tenant,
     index |-> IF Chosen(p, r) = DefaultIndexOf(tenancy, p.tenant) THEN None ELSE Chosen(p, r),
     severity |-> r.severity, by |-> p, cred |-> cred, meant |-> Chosen(p, r)]

(* count: its own row, or the shared one past the limit.                   *)
CounterKey(p) ==
    IF Cardinality(DOMAIN sightings) >= MAX_COUNTED /\ <<p.tenant, p.id>> \notin DOMAIN sightings
    THEN <<"(others)">> ELSE <<p.tenant, p.id>>

TenantCounted(p, records, refused) ==
    LET k == CounterKey(p)
        old == IF k \in DOMAIN sightings THEN sightings[k] ELSE [records |-> 0, refused |-> 0]
    IN [key \in DOMAIN sightings \cup {k} |->
            IF key = k THEN [records |-> old.records + records, refused |-> old.refused + refused] ELSE sightings[key]]

(* A request with a batch: authorize, then admit, then the log.            *)
TenantIngest(listener, cred, batch) ==
    /\ requests < MaxRequests /\ requests' = requests + 1
    /\ TokenAuthorized(listener, cred)
    /\ LET p == Who(listener, cred).who
           kept == SelectSeq(batch, LAMBDA r : Chosen(p, r) # None)
       IN IF WrongTenant(p, batch) \/ (listener \in WholeLevel /\ Refused(p, batch) # {})
          THEN /\ sightings' = TenantCounted(p, 0, 1)
               /\ routed' = routed + (IF WrongTenant(p, batch) THEN 0 ELSE Cardinality(Defaulted(p, batch)))
               /\ UNCHANGED walRecords
          ELSE /\ sightings' = TenantCounted(p, Len(kept), Cardinality(Refused(p, batch)))
               /\ routed' = routed + Cardinality(Defaulted(p, batch))
               /\ walRecords' = walRecords \o [i \in DOMAIN kept |-> Bound(p, cred, kept[i])]
    /\ UNCHANGED <<tenancy, rows, rerouted, configs>>

(* authorize refuses a known principal whose kind may not do this.         *)
RefuseKind(listener, cred) ==
    /\ requests < MaxRequests /\ requests' = requests + 1
    /\ Who(listener, cred).ok /\ ~TokenAuthorized(listener, cred)
    /\ sightings' = TenantCounted(Who(listener, cred).who, 0, 1)
    /\ UNCHANGED <<tenancy, walRecords, rows, routed, rerouted, configs>>

-----------------------------------------------------------------------------
(* The merge, and a restart with another config.                           *)

(* merge_segments: the tenant named, or the own one.                       *)
MergedTenant(r) == IF r.tenant = None THEN Own(tenancy) ELSE r.tenant

(* merge_segments: a refused route keeps the record, in its tenant's       *)
(* default index, or in one named default when the tenant is gone.         *)
MergedIndex(r) ==
    LET route == RouteIn(tenancy, MergedTenant(r), r.index) IN
    CASE route.kind # "refused" -> route.index
      [] route.kind = "refused" /\ MergedTenant(r) \in TenantIds(tenancy) -> DefaultIndexOf(tenancy, MergedTenant(r))
      [] OTHER -> DEFAULT_INDEX

Rerouted(r) == RouteIn(tenancy, MergedTenant(r), r.index).kind # "known"

MergeWal ==
    /\ walRecords # <<>>
    /\ rows' = rows \o [i \in DOMAIN walRecords |->
                  [record |-> walRecords[i], tenant |-> MergedTenant(walRecords[i]), index |-> MergedIndex(walRecords[i]),
                   bucket |-> BucketFor(walRecords[i].severity)]]
    /\ rerouted' = rerouted + Len(SelectSeq(walRecords, Rerouted))
    /\ walRecords' = <<>>
    /\ UNCHANGED <<tenancy, sightings, routed, requests, configs>>

(* The agent stops and starts with another config; the log stays.          *)
Reconfigure(cfg) ==
    /\ configs < MaxConfigs /\ configs' = configs + 1
    /\ tenancy' = cfg /\ sightings' = <<>> /\ routed' = 0
    /\ UNCHANGED <<walRecords, rows, rerouted, requests>>

TenancyInit ==
    /\ tenancy \in Configs
    /\ walRecords = <<>> /\ rows = <<>> /\ sightings = <<>>
    /\ routed = 0 /\ rerouted = 0 /\ requests = 0 /\ configs = 0

TenancyNext ==
    \/ \E l \in Listeners, c \in Principals \cup Tokens \cup {Nobody, Stranger} :
            \/ \E b \in BoundedSeq(TenantRecords, MaxBatch) : TenantIngest(l, c, b)
            \/ RefuseKind(l, c)
    \/ MergeWal
    \/ \E cfg \in Configs : Reconfigure(cfg)

TenancySpec == TenancyInit /\ [][TenancyNext]_tenancyVars

-----------------------------------------------------------------------------
(* Properties.                                                             *)

TenantAccepted == Range(walRecords) \cup {row.record : row \in Range(rows)}

(* Types; no more rows of counters than the limit and the shared one.      *)
TenancyTypeOK ==
    /\ tenancy \in Configs
    /\ \A i \in DOMAIN rows : rows[i].bucket \in {Buckets[j].name : j \in DOMAIN Buckets}
    /\ Cardinality(DOMAIN sightings \ {<<"(others)">>}) <= MAX_COUNTED
    /\ routed \in Nat /\ rerouted \in 0..Len(rows)

(* The tenant a credential stands for: the one it names, else the own one. *)
TenantOf(cred) == IF cred \in Principals \cup Tokens THEN cred.tenant ELSE None

(* What a credential that names a tenant sent is in that tenant's          *)
(* partitions and no other's, after admission, the log, a restart with     *)
(* other tenants and the merge; a token that fails is never taken for an   *)
(* anonymous sender (authorize, admit, merge_segments).                    *)
StoredUnderTenant ==
    /\ \A i \in DOMAIN rows : rows[i].tenant = rows[i].record.by.tenant
    /\ \A r \in TenantAccepted : TenantOf(r.cred) # None /\ r.by.id # Anonymous.id => r.by.tenant = TenantOf(r.cred)
    /\ \A r \in TenantAccepted : r.cred \in Tokens => r.by.id # Anonymous.id

(* A row is in an index its principal may write, the one admission chose,  *)
(* unless the merge counted it as rerouted (admit, route_in).              *)
StoredInGrant ==
    /\ \A r \in TenantAccepted : Allows(r.by.indexes, r.meant)
    /\ Cardinality({i \in DOMAIN rows : rows[i].index # rows[i].record.meant}) <= rerouted

(* Every admitted record of this run is in some principal's count, the     *)
(* shared row past the limit included (count).                             *)
RecordsAreCounted ==
    configs = 0 => MapThenSumSet(LAMBDA k : sightings[k].records, DOMAIN sightings) = Len(walRecords) + Len(rows)

(* A read of "this level and up" opens the bucket of every stored row of   *)
(* the level and up (bucket_for, names_from).                              *)
LevelsAreFound ==
    \A i \in DOMAIN rows : \A level \in 0..rows[i].record.severity : rows[i].bucket \in NamesFrom(level)

(* What a credential leads to: a record is stored under its tenant, in an  *)
(* index of its grant, counted once, and in the bucket of its level.       *)
TenancyInv ==
    /\ TenancyTypeOK
    /\ StoredUnderTenant
    /\ StoredInGrant
    /\ RecordsAreCounted
    /\ LevelsAreFound
=============================================================================
