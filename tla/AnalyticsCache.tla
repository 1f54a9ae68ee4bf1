--------------------------- MODULE AnalyticsCache ---------------------------
(***************************************************************************)
(* The cached aggregates (core/cache.py, services/analytics_service.py):   *)
(* one tenant's version counter, the entries whose keys embed it and the   *)
(* row scope, readers that compute on a miss with several queries, and     *)
(* writers that commit and then move the version.  Every Redis call may    *)
(* fail on its own and is then passed over.  A figure is the number of     *)
(* commits that touched the rows of its scope.                             *)
(***************************************************************************)
EXTENDS Naturals, FiniteSets

CONSTANTS
    Viewers,     \* requests for an aggregate
    Scopes,      \* what scope_token tells apart
    Everything,  \* the scope of the whole organization
    Writers,     \* requests and tasks that change tickets
    MaxCommits,  \* bound
    MayFail,     \* the Redis calls that may fail: "version", "entry", "incr"
    MaxFailures  \* bound: failures of Redis

ASSUME CacheAssumption ==
    /\ Everything \in Scopes /\ MaxCommits \in Nat /\ MaxFailures \in Nat
    /\ MayFail \subseteq {"version", "entry", "incr"}

VARIABLES
    figures,  \* per scope: what the database would answer now
    settled,  \* per scope: the figure of the last commit that moved the version
    version,  \* analytics:version:<organization>
    entries,  \* the cached aggregates: per scope and version
    viewers, writers,
    failures, \* Redis calls that failed
    unmoved   \* commits whose invalidation failed or never ran

cacheVars ==
    <<figures, settled, version, entries, viewers, writers, failures, unmoved>>

Versions == 0 .. MaxCommits
Figure == 0 .. MaxCommits

\* An aggregate has parts read by different queries: the totals and the volume.
Aggregate == [totals : Figure, volume : Figure]
NoAggregate == [totals |-> MaxCommits + 1, volume |-> MaxCommits + 1]

\* key: the version in the key.  floor: the settled figure as the request began.
Viewer == [pc : {"idle", "keyed", "totals", "volume", "store", "serve"},
           scope : Scopes, key : Versions, value : Aggregate, floor : Figure]

NoViewer == [pc |-> "idle", scope |-> Everything, key |-> 0,
             value |-> [totals |-> 0, volume |-> 0], floor |-> 0]

\* touched: the scopes of the rows a commit changed, and their figures since.
Writer == [pc : {"idle", "committed"}, touched : [Scopes -> Figure]]

NoWriter == [pc |-> "idle", touched |-> [s \in Scopes |-> 0]]

CacheTypeOK ==
    /\ figures \in [Scopes -> Figure] /\ settled \in [Scopes -> Figure]
    /\ version \in Versions
    /\ entries \in [Scopes \X Versions -> Aggregate \cup {NoAggregate}]
    /\ viewers \in [Viewers -> Viewer]
    /\ writers \in [Writers -> Writer]
    /\ failures \in 0 .. MaxFailures /\ unmoved \in 0 .. MaxCommits

Fails(call) ==
    call \in MayFail /\ failures < MaxFailures /\ failures' = failures + 1

-----------------------------------------------------------------------------
\* key_for: the caller's scope and the version as it is now; 0 when the counter
\* cannot be read.
KeyFor(r, scope) ==
    /\ viewers[r].pc = "idle"
    /\ \E key \in Versions :
          /\ \/ key = version /\ UNCHANGED failures
             \/ key = 0 /\ Fails("version")
          /\ viewers' = [viewers EXCEPT ![r] =
                [@ EXCEPT !.pc = "keyed", !.scope = scope, !.key = key,
                          !.floor = settled[scope]]]
    /\ UNCHANGED <<figures, settled, version, entries, writers, unmoved>>

StoredEntry(r) == entries[<<viewers[r].scope, viewers[r].key>>]

\* read_through: the entry, if there is one and Redis answers.
Read(r) ==
    /\ viewers[r].pc = "keyed"
    /\ \/ /\ StoredEntry(r) # NoAggregate
          /\ viewers' = [viewers EXCEPT ![r] = [@ EXCEPT !.pc = "serve", !.value = StoredEntry(r)]]
          /\ UNCHANGED failures
       \/ /\ \/ StoredEntry(r) = NoAggregate /\ UNCHANGED failures
             \/ Fails("entry")
          /\ viewers' = [viewers EXCEPT ![r].pc = "totals"]
    /\ UNCHANGED <<figures, settled, version, entries, writers, unmoved>>

\* _overview, one query and then the next, each on what is committed by then.
QueryTotals(r) ==
    /\ viewers[r].pc = "totals"
    /\ viewers' = [viewers EXCEPT ![r] =
          [@ EXCEPT !.pc = "volume", !.value.totals = figures[viewers[r].scope]]]
    /\ UNCHANGED <<figures, settled, version, entries, writers, failures, unmoved>>

QueryVolume(r) ==
    /\ viewers[r].pc = "volume"
    /\ viewers' = [viewers EXCEPT ![r] =
          [@ EXCEPT !.pc = "store", !.value.volume = figures[viewers[r].scope]]]
    /\ UNCHANGED <<figures, settled, version, entries, writers, failures, unmoved>>

\* _write, under the key the entry was looked up by.
Store(r) ==
    /\ viewers[r].pc = "store"
    /\ \/ /\ entries' = [entries EXCEPT ![<<viewers[r].scope, viewers[r].key>>] = viewers[r].value]
          /\ UNCHANGED failures
       \/ Fails("entry") /\ UNCHANGED entries
    /\ viewers' = [viewers EXCEPT ![r].pc = "serve"]
    /\ UNCHANGED <<figures, settled, version, writers, unmoved>>

ServeFigures(r) ==
    /\ viewers[r].pc = "serve"
    /\ viewers' = [viewers EXCEPT ![r] = NoViewer]
    /\ UNCHANGED <<figures, settled, version, entries, writers, failures, unmoved>>

\* An entry's TTL runs out.
ExpireEntry(k) ==
    /\ entries[k] # NoAggregate
    /\ entries' = [entries EXCEPT ![k] = NoAggregate]
    /\ UNCHANGED <<figures, settled, version, viewers, writers, failures, unmoved>>

\* A write commits: its rows are the organization's, and perhaps the narrower
\* scopes'.
CommitWrite(w, scopes) ==
    /\ writers[w].pc = "idle" /\ figures[Everything] < MaxCommits
    /\ figures' = [s \in Scopes |-> IF s \in scopes THEN figures[s] + 1 ELSE figures[s]]
    /\ writers' = [writers EXCEPT ![w] = [pc |-> "committed", touched |-> figures']]
    /\ UNCHANGED <<settled, version, entries, viewers, failures, unmoved>>

Higher(m, n) == IF m > n THEN m ELSE n

\* A slip: the version goes back to where a tenant starts.
SlipMoved == 0

\* INCR
Moved == version + 1

\* invalidate, after the commit.
MoveVersion(w) ==
    /\ writers[w].pc = "committed"
    /\ version' = Moved
    /\ settled' = [s \in Scopes |-> Higher(settled[s], writers[w].touched[s])]
    /\ writers' = [writers EXCEPT ![w] = NoWriter]
    /\ UNCHANGED <<figures, entries, viewers, failures, unmoved>>

\* Redis does not answer, or the process dies between the two.
VersionStays(w) ==
    /\ writers[w].pc = "committed"
    /\ Fails("incr")
    /\ unmoved' = unmoved + 1
    /\ writers' = [writers EXCEPT ![w] = NoWriter]
    /\ UNCHANGED <<figures, settled, version, entries, viewers>>

CacheInit ==
    /\ figures = [s \in Scopes |-> 0] /\ settled = figures
    /\ version = 0
    /\ entries = [k \in Scopes \X Versions |-> NoAggregate]
    /\ viewers = [r \in Viewers |-> NoViewer]
    /\ writers = [w \in Writers |-> NoWriter]
    /\ failures = 0 /\ unmoved = 0

CacheNext ==
    \/ \E r \in Viewers :
          \/ \E scope \in Scopes : KeyFor(r, scope)
          \/ Read(r) \/ QueryTotals(r) \/ QueryVolume(r) \/ Store(r) \/ ServeFigures(r)
    \/ \E k \in Scopes \X Versions : ExpireEntry(k)
    \/ \E w \in Writers :
          \/ \E scopes \in SUBSET Scopes : Everything \in scopes /\ CommitWrite(w, scopes)
          \/ MoveVersion(w) \/ VersionStays(w)

CacheSpec == CacheInit /\ [][CacheNext]_cacheVars

-----------------------------------------------------------------------------
Unsettled == \E w \in Writers : writers[w].pc = "committed"

\* An entry of the current version tells what the database does, both of its
\* queries alike, unless a write is between its commit and its invalidation or
\* an invalidation was lost: a torn or an overtaken result is stored where
\* nobody looks.
CurrentEntriesAreTrue ==
    \A s \in Scopes :
       LET entry == entries[<<s, version>>]
       IN entry \notin {NoAggregate, [totals |-> figures[s], volume |-> figures[s]]}
            => Unsettled \/ unmoved > 0

\* The version in a key is the counter's, and not what stands for one that cannot
\* be read.
Certain(key) == key # 0 \/ "version" \notin MayFail

AtLeast(aggregate, figure) == aggregate.totals >= figure /\ aggregate.volume >= figure

\* A request that begins after a write's invalidation went through, and could read
\* the version, is never served figures from before that write.
ServedIsSettled ==
    \A r \in Viewers : viewers[r].pc = "serve" /\ Certain(viewers[r].key) =>
        AtLeast(viewers[r].value, viewers[r].floor)

Committing == {w \in Writers : writers[w].pc = "committed"}

\* A commit touches the organization's rows, and moves the version, is about to,
\* or failed to.
CommitsAddUp ==
    /\ IsFiniteSet(Committing)
    /\ version + unmoved + Cardinality(Committing) = figures[Everything]
    /\ \A s \in Scopes : settled[s] <= figures[s] /\ figures[s] <= figures[Everything]
    /\ \A w \in Committing, s \in Scopes : writers[w].touched[s] <= figures[s]

\* What a request reads and stores is no older than its floor, which is the settled
\* figure of the version in its key, and tells what the database does as long as
\* no write overtakes it.
RequestKeeps(v) ==
    /\ v.key <= version /\ v.floor <= settled[v.scope]
    /\ v.key = version => v.floor = settled[v.scope]
    /\ Certain(v.key) => AtLeast(entries[<<v.scope, v.key>>], v.floor)
    /\ v.pc \in {"volume", "store"} => v.value.totals >= v.floor
    /\ v.pc = "store" => v.value.volume >= v.floor
    /\ v.key = version /\ ~ Unsettled /\ unmoved = 0 =>
          /\ v.pc \in {"volume", "store"} => v.value.totals = figures[v.scope]
          /\ v.pc = "store" => v.value.volume = figures[v.scope]

\* Requests that share an entry share their floor.
FloorsAgree ==
    \A q, r \in {v \in Viewers : viewers[v].pc # "idle"} :
       viewers[q].scope = viewers[r].scope /\ viewers[q].key = viewers[r].key
       /\ Certain(viewers[q].key) => viewers[q].floor = viewers[r].floor

\* Nothing that is served is older than the last write that went through, and
\* entries are only under versions the counter has reached.
CacheInv ==
    /\ CacheTypeOK /\ ServedIsSettled /\ CurrentEntriesAreTrue
    /\ CommitsAddUp /\ FloorsAgree
    /\ \A k \in Scopes \X Versions : k[2] > version => entries[k] = NoAggregate
    /\ \A s \in Scopes : AtLeast(entries[<<s, version>>], settled[s])
    /\ \A r \in Viewers : viewers[r].pc # "idle" => RequestKeeps(viewers[r])
=============================================================================
