# Verification of the Mexican banking monitor

TLA+ specifications of the parts of `mexican-banking-monitor` that keep state,
race, retry or fail: the regulatory data core in PostgreSQL, the artifact stores,
the discovery of CNBV releases, and the deployment of migrations. TLC checks every specification on small
instances; TLAPS proves the main results for every value of the constants.
Paths below are relative to the repository root.

## The system

| Component | State | Operations | Module |
|---|---|---|---|
| Ingestion run lifecycle (`supabase/migrations/20260830234552_ingestion_run_lifecycle.sql`) | run rows (status, restart, counters), observation rows | insert, start, close a run; record an artifact observation | `IngestionRuns` |
| Review decisions (`20260919180000_review_decision_events.sql`) | append-only decision events per fact | insert a decision; effective decision, now or as of a cutoff | `ReviewDecisions`, `ReviewTimeline` |
| Reported facts (`20260919143000_reported_fact_schema.sql`) | append-only facts, each with at most one predecessor | insert a root, a source revision or a correction | `ReportedFacts` |
| Serving queries (`20260922120000_fact_current_as_of_queries.sql`) | none: views over facts and decisions | current/as-of, observed/publishable | `FactServing` |
| Artifact stores (`src/mx_bank_monitor/ingestion/artifacts.py`) | content-addressed objects | `put_if_absent`, `get`, `verify` | `WriteOnce`, `LocalArtifactStore`, `SupabaseArtifactStore` |
| CNBV observation (`ingestion/http.py`, `ingestion/cnbv_portfolio.py`) | one observation in progress | `retrieve` with redirects and retries, `validate`, `observe` | `ReleaseObservation` |
| Release classification (`ingestion/discovery.py`, `20260828164124_evidence_catalog_schema.sql`) | the catalog of one release family | classify against prior state, insert a release | `ReleaseCatalog` |
| Migration deployment gates (`scripts/validate_production_migrations.py`, `.github/workflows/deploy-database.yml`) | the commits of main, the remote history, the files of one deployment | validate, inspect, gate, dry-run, push, verify | `MigrationGate`, `MigrationDeploy` |
| Semantic mapping, canonical observations | definition versions, a view | select the mapping in force | not modelled |
| Institution identity registry | validity ranges under exclusion constraints | insert | not modelled |
| Editorial configuration, domain formulas, dashboard, CLI, legacy schema, workstation scripts | none, or outside the data core | | not modelled |

How they meet. An observation of the CNBV package (`ReleaseObservation`) yields
an exact artifact set; `classify_release` compares it with the prior releases of
its family (`ReleaseCatalog`); its bytes go to an artifact store; the release and
the results go to the evidence and audit schemas, where triggers check them
against the catalog and the run (`IngestionRuns`). Facts extracted from an
artifact are inserted with their lineage (`ReportedFacts`), reviewed
(`ReviewDecisions`) and served (`FactServing`). The orchestrator that will call
these in order is not written; the modules rely only on what each part checks
itself. `FactServing` composes `ReportedFacts` and `ReviewTimeline`;
`ReviewDecisions` is shown to implement `ReviewTimeline`, and both stores to
implement `WriteOnce`. `ReleaseCatalog` ties to `IngestionRuns` through
`AuditAcceptsPublishedResults`, which states the trigger's rule about `new` and
`revised`. `MigrationDeploy` stands apart: it is how all these schemas get to
production, and it meets them only through the files it pushes.

Hard behaviours: sessions that wait for row and advisory locks and then read
newer rows than when they started; identity values taken before a lock is
granted; uploads that time out and land later; processes that die in the middle
of a write; servers that redirect, truncate and refuse in any order; prior state
that is stale by the time it is used; a deployment that is gated on a history it
read some steps earlier, and that may stop after any migration. `PROJECT.json` lists each at its line.

## Modules and how they correspond to the code

**IngestionRuns.** One action per statement. `committed` is what other sessions
read, `working` the version the lock holder is writing, `lockedBy` the row lock
(taken by INSERT, by UPDATE, and by the observation trigger's `for update`).
A statement is one step, taken when its lock is free, because its trigger reads
only rows that this lock protects, or rows read in their committed version, and
each query in a volatile trigger takes a fresh snapshot at READ COMMITTED.
`nextId` is the identity column and is not rolled back. A statement that raises
aborts its transaction (`Abort`, which is also a lost connection).

**ReviewDecisions / ReviewTimeline.** An INSERT is two steps: `Submit` takes the
id and passes the check against the clock, `Decide` happens when the advisory
lock is granted, reads the head and inserts. Ids therefore enter a timeline out
of allocation order. `ReviewTimeline` is the promise: per-fact timelines that
only grow at their end in the order (decided_at, id), with REVOKE directly after
ACCEPT. Its `Effective` and `EffectiveAsOf` are the two query objects.

**ReportedFacts.** A row keeps what the trigger and the queries compare. The
insert is one step since rows never change. `Ancestors` is the recursive
ancestry view as the least set closed under predecessors, so that the module has
no recursive operator and can be proved about.

**FactServing.** Facts and decisions grow as the two modules above let them; each
query is an operator with the names of its common table expressions.

**WriteOnce, LocalArtifactStore, SupabaseArtifactStore.** `WriteOnce` is what
`put_if_absent` promises for one key. The local store is modelled at system-call
granularity (exists, mkstemp, write, fsync, link, read back), with inodes, since
a hard link shares content; `Crash` can happen anywhere. The Supabase store has
the POSTs in flight as state: the server may carry one out after the client gave
up on it. A GET is one step because it changes nothing and only its answer
matters. Bytes are absent, the payload, or other.

**ReleaseObservation.** `observe` for the three roles in `RETRIEVAL_ORDER`, one
action per outcome of an httpx call or of a check. URLs are an identity and
whether `authorize_cnbv_artifact_url` accepts it; a body is its length in chunks;
structural validation is its verdict.

**ReleaseCatalog.** `Resolves` is `_resolve_unique_head`, `Classify` is
`classify_release`. The identity hash is the artifact set itself, a function from
roles to digests. `Read` may hand over a state with one release missing: the
function exists to fail closed on it. The initial catalog is any state the
constraints of `source_releases` allow, cycles and forks included.

**MigrationGate, MigrationDeploy.** `MigrationGate` has the checks of
`validate_production_migrations.py` as operators: `RepositoryAccepted`
(`load_migrations`), `HistoryAccepted` and `Pending` (`validate_history`),
`PlanAccepted` (`validate_dry_run`), `Stripped` and `Forbidden` (the search for
destructive statements; `Scan` is its loop, a function from positions to states). `MigrationDeploy` has one action per step of the
workflow. A file is its version, its label and a script; a script is a sequence
of segments, each code or something PostgreSQL does not execute, and `Text` writes
it out with its quotes and comments, which is what `Stripped` reads character by
character. `ScriptFits` says which segments there are: no token begins within
code or within a quote, the comments within a comment are closed, and a literal is
not resumed by the next one. Words that matter to no check are one letter. Of the Supabase CLI only
this is assumed: it lists what is there, plans what is missing, pushes in the
order of the file names with one transaction per migration, and may stop at any
point, with or without an error. Beside the deployments, which the workflow's
concurrency group serializes, main gains files, an old commit may be deployed
again, and somebody else may apply a version. Nobody removes one: the operational
contract forbids history repairs.

Operators whose comment begins with "Mutant" are faulty versions of the operator
they precede. Nothing uses them; each run's properties are known to fail when one
takes the place of the real definition.

## Runs

| Run | Instance | What it shows |
|---|---|---|
| `ingestion_runs` | 2 sessions, 2 runs, 2 sources, an original and a superseding artifact, 3 observations | counters of a terminal run equal its observations; terminal runs are frozen; `no_change` carries no new or revised evidence; restarts name failed runs of the same source and form no cycle |
| `review_decisions` | 2 sessions, 2 facts, 3 ids, clock 1..2 | refinement of `ReviewTimeline`; REVOKE stands on ACCEPT; corrections point back; the decision in force at a settled cutoff never changes |
| `reported_facts` | 3 facts, 3 artifacts of 2 sources, 2 registrations, extractors, identities | lineages are acyclic, keep their source, and through corrections keep their artifact |
| `fact_serving` | 3 facts of one source, 3 decisions, 2 instants | published facts are undisputed; current equals as of the end; no branch is lost; only acceptance displaces; later news is invisible; fall back on revocation |
| `supabase_store` | 2 uploads, 2 creates, 3 reads each (the defaults) | refinement of `WriteOnce`; a definite first failure is clean; every call ends |
| `local_store` | 3 writers | refinement of `WriteOnce`; exactly the writer whose file is in place reports stored |
| `release_observation` | 3 roles, 6 URLs, 3 attempts, 3 redirects (the code's), bodies up to 2 chunks | the redirect chain is the path taken and never leaves the official host; bodies are whole and releases complete; the observation ends |
| `release_catalog` | 2 observers, 4 artifact sets, one over other roles | verdicts rest on one chain; an up-to-date writer keeps it; audit accepts the results |
| `migration_deploy` | 7 files, 2 commits, 2 deployments, 1 foreign version, any remote history at first; 608 quotings | pushes continue the history in chronological order; success means applied; nothing destructive is pushed; stripping leaves exactly the code |
| `source_revision_evidence` | as `reported_facts` | violated, see Findings |
| `published_failure` | as `local_store` | violated, see Findings |
| `untyped_failure` | as `release_observation` | violated, see Findings |

Why the bounds are enough. Locks are per row or per fact, so two sessions show
every conflict, and a third would only queue behind the same lock. Two runs give
a restart and a cycle of two; three facts give a chain of three, a fork, and two
lineages. Three ids let a session take an id, be overtaken and come back, with a
third event to revoke or correct. Two instants give equality, before and after.
Three local writers give a winner, one who saw the file and one who lost the
race. Symmetry is used for sessions, runs, facts and artifacts where the
properties are invariants or action properties, never with liveness. Two commits
give a deployment of an old tree after a newer one, two deployments one that takes
up what another left, and one foreign version at any step is all it takes for what
was inspected to be out of date. The seven files are the legacy migration, a
harmless one that quotes destructive words, one that renames, one that drops, and
three that the repository check is there to refuse. The quotings hold every text of
up to two of the characters that mean something to the scanner, in every kind of
quote that can hold it, block comments with comments inside, and some longer texts;
for longer ones there is the theorem. They are looked at only in the states where main and the
remote history are empty, as they depend on neither. The bounds
`MaxObservations`, `MaxId`, `MaxTime`, `MaxDecisions`, `MaxTrees`, `MaxOutside` and
`MaxDeployments` cap growth in guards.
Runs stop at their bounds, which is why deadlock is not checked; in
`ingestion_runs` and `review_decisions` a lock that is never released is always
resolved by `Abort`.

Fairness. `SupabaseArtifactStore` assumes weak fairness of each client's own
steps, because every wait is ended by the httpx timeout; nothing is assumed of
the server. `ReleaseObservation` assumes weak fairness of its one thread, for the
same reason. The other modules state no liveness: sessions may stop anywhere.

## Findings

* `SOURCE_REVISION` may return to an artifact the lineage already rested on: the
  trigger compares with the immediate predecessor only, while ADR 0005 asks for
  new or revised evidence.
* The branch of `LocalArtifactStore.put_if_absent` for failures after
  publication cannot be reached: the read-back turns every OSError into a plain
  `ArtifactBackendError` first.
* A connection that breaks inside a body leaves `observe` as a raw httpx
  exception: `_read_body` translates decoding errors only. A damaged ZIP member
  does the same through `zlib.error`.

Also seen, without a run: `ArtifactCollisionError` cannot be raised by the
Supabase store, whose `get` reports other bytes as corruption before the
comparison; and two overlapping observers may fork a release family, after which
every classification of it fails closed. The scanner of the migration gate takes a
backslash in a plain literal for an escape and opens a dollar quote inside an
identifier, where PostgreSQL with `standard_conforming_strings` does neither; no
migration in the repository contains either. `ScriptFits` leaves both out, for the
run and for the theorems.

## Proofs

Each proof module EXTENDS the module it is about. The assumptions are the named
ASSUMEs of those modules: sentinels are not data, bounds are naturals, a
configuration is well formed, hashes are finitely many, and scripts are sequences
of segments that fit. The theorems hold for every value of the constants.

Two modules prove what a recursive function computes: the walk along a chain of
releases and the scan of a text. Neither needs an induction theorem over
predicates. `Induction` speaks of a set, the numbers up to which the claim holds,
and follows from the well-foundedness of `<`. That the recursive definition has the
function it describes (`WalkIsDefined`, `ScanIsDefined`) is shown by extending a
function on 0..m to one on 0..m + 1.

* `IngestionRunsProofs`: `TypeCorrect`, `CountersExact`, `TerminalFrozen`,
  `NoChangeIsNoEvidence` and `RestartsAreSound`. `TerminalCountersAreExact` speaks
  of committed rows and is not inductive: the closing UPDATE counts committed and
  own observations, and commits later. `IInv` adds what the row lock protects: a
  row nobody locks, and one that is committed terminal, has one version
  (`VersionsAgree`); only the lock holder has uncommitted observations of a run
  (`InsertedUnderLock`); none are being added to a terminal run
  (`TerminalRunsAreClosed`); and an uncommitted terminal row counts exactly what
  its writer sees (`WorkingCountersAreExact`). For `no_change` the CHECK is carried
  on every version of every row (`NoChangeHasNoNewOrRevised`) and read with the
  exact counters. For restarts the trigger locks nothing: a session may restart a
  run whose failure only it sees. `RestartInv` says that the predecessor is failed
  in the view of whoever holds the restart (`UncommittedRestarts`), that a
  committed restart is in every version of its row (`RestartIsKept`), and that the
  newest versions close no cycle, because no row points at one that is absent;
  a rollback only takes restarts away (`FewerRestarts`).
* `ReviewDecisionsProofs`: `TypeCorrect`, `RevokesAreSound`, `LogIsTimeline` (the
  concurrent log refines `ReviewTimeline!Spec`), `PastSettled` and
  `CorrectionsAreBackward`. `IInv` says that only the holder of a fact's lock has
  uncommitted events of it, that these come after every committed event of the
  fact, and that a REVOKE, committed or not, stands on an ACCEPT its session sees.
  The lemma `RevokeUnchanged` (later events and events of other facts leave a
  REVOKE where it stood) carries the last part through commits of other sessions.
  `PastSettled` uses the refinement: each step extends the timeline at its end, so
  a cutoff before the end sees the same events as before.
* `FactProofs`, of `ReportedFacts`: `TypeCorrect`, `LineageAcyclic` and
  `ProvenanceKept`. Acyclicity is stated without recursion (every non-empty set has
  a member whose predecessor is outside it), which an insert preserves because the
  new row is nobody's predecessor and its own predecessor is recorded.
  `ProvenanceKept` carries what the trigger checked of each edge (`EdgesFit`) along
  `Ancestors`: ancestry is an order, since lineages are acyclic, and a chain, since
  each fact has one predecessor; the facts that share the artifact would otherwise
  be a closed set that misses an ancestor.
* `FactProofs`, of `FactServing`: `ServingTypeCorrect` and all its properties, for
  lineages of any shape and any number of decisions. `ServingInv` adds to the
  lineage invariant that facts and events are finitely many and that events are of
  recorded facts. Three facts carry the rest: a lineage has one root
  (`RootIsUnique`); above any fact of a finite set there is a last one
  (`LastDescendant`, by well-founded induction over the sets of descendants), so a
  frontier never comes out empty; and a new fact is nobody's ancestor, so a step
  leaves the ancestry and the root of known facts alone (`StepKeepsAncestry`,
  `StepKeepsRoot`). A decision changes what is in force for its own fact only
  (`ReviewDecidesOne`), which with `PublishedUndisputed` before and after the step
  gives `FallsBack`.
* `LocalArtifactStoreProofs`: `TypeCorrect`, `Convergence` and
  `StoreIsWriteOnce`, the refinement of `WriteOnce` for any number of writers.
  `IInv` says that a temporary name leads to its own writer's inode and is
  complete when linked (`TempsArePrivate`), that the key leads to a file its
  writer will not touch again (`TargetIsSettled`), and what each writer's
  progress and outcome say about the target (`ProgressFits`, `OutcomesFit`).
* `SupabaseArtifactStoreProofs`: `TypeCorrect`, `FirstFailureIsClean`,
  `StoreIsWriteOnce` and what it means for callers, `SuccessIsShared`, for any
  numbers of calls, creates and reads. `IInv` relates
  each call's place to the POSTs it has sent (`Progress`), says that `created`
  reaches only the call whose POST created the object (`CreatedIsMine`), and that a
  first POST which got a definite answer is over and created nothing
  (`FirstPostIsClean`). The third part fails for a second POST, whose predecessor
  may still be in flight, which is why the property is about the first.
* `ReleaseObservationProofs`: `TypeCorrect`, `PathsAreOfficial` and
  `ReleasesAreComplete`, for any package, any URLs and any limits. The two safety
  invariants with `BodyWithinLimit` and `Open` are inductive; the lemma
  `LongerPath` is the step of a redirect.
* `ReleaseCatalogProofs`: `TypeCorrect`, `ResultsAreAudited`, `NoHiddenWinner` and
  `ChainIsKept`, for any number of releases and observers. A verdict is what
  `classify_release` makes of the observer's own prior state
  (`VerdictsAreClassifications`); two releases over the same roles that differ,
  differ in some role, so a revised release has a revised artifact. The two
  results about chains rest on `ResolvedIsChain`: the walk of
  `_resolve_unique_head` that meets as many releases as it makes steps is a
  surjection between finite sets of one size, so it meets each release once and is
  the chain, whatever forks and cycles the family might have had. A publisher whose
  prior state is the stored one then either starts a chain (`ChainStarts`) or adds
  to its end (`ChainGrows`); the premise that it was not overtaken cannot be
  dropped, since two that were make a fork.
* `MigrationDeployProofs`: `TypeCorrect`, `SuccessIsApplied`, `StripsExactly`,
  `StrippingIsRight`, `PushesAreHarmless` and `PushIsChronological`, for any files,
  any scripts in them, any versions applied by others and any number of
  deployments. The remote history only grows, so what is missing now was
  missing when it was inspected: the push may plan less than was gated, never more
  (`MissingIsGated`), and everything gated was searched (`InspectedIsHarmless`).
  The order of the push rests on two facts about texts: two versions of which
  neither is a prefix of the other are ordered like the names that start with them
  (`VersionOrderIsNameOrder`), and the repository check makes name order
  numerical order.

  That the search sees exactly the code is `StripsExactly`, of every script that
  fits, of any length. The invariant of the scanner is that wherever a segment ends
  it is between tokens (mode normal, depth 0, nothing to skip). It is carried in
  four layers: what one token or character does to the scanner in each mode (the
  `...Step`, `Opens...` lemmas); a run through the inside of one quote or comment,
  up to the token that ends it (`CodeRun`, `LineRun`, `DollarRun`, `QuoteRun`,
  `BlockRun`: within a block comment the depth is the number of comments open, one
  plus `OpenIn`); a segment, opening, inside and closing (`SegmentRun`); and the
  segments of a script in turn (`ScriptRun`), whose places in the text are those of
  the parts of a concatenation (`FlattenParts`). The conditions of `ScriptFits` are
  what the layers need: code may not end with half a token, and a literal that
  another one follows at once would be resumed.

Only model-checked: liveness (`EveryCallEnds`, `ObservationEnds`), which is out of
the prover's reach. Every invariant and action property of the passing runs is also
a theorem. The three runs that expect a violation have none: their properties are
false of the code.

## Plan

Done: every module named above. What could still be added, in this order:

1. The orchestrator, once it is written: it will close the gaps that
   `ReleaseCatalog` leaves to `Read` and `Publish`, and tie an observation to one
   ingestion run.
2. The definitions publisher, once it is written, with the canonical observation
   view on top of `FactServing`.

## Not modelled

* Semantic mapping and canonical observations. The repository has the tables, with
  declarative constraints, and one view; the definitions publisher that would write
  them is not in it. The view joins the publishable facts, which are modelled, with
  the highest version of a mapping; that a newer draft masks an older active
  version is what ADR 0008 wants.
* Institution identity registry. Tables with PostgreSQL exclusion constraints on
  closed date ranges, no trigger and no writer: there is no step to interleave.
* Editorial configuration (`config/models.py`, `config/loader.py`). Stateless
  validation of one file, once per process, which unit tests reach.
* CLI, settings and the database preflight: read-only checks and I/O.
* Formats, regular expressions, row-level security and grants; the contents of
  artifacts; ranges of the identity columns; the legacy schema, the legacy
  download and the dashboard; pure decimal formulas, which unit tests reach; power
  failures of the file system (the store does not fsync the directory, and no
  document promises that it survives one).
* Of the migration gate: the JSON shapes of the CLI (any other shape is a refusal,
  which `Fail` covers) and the single patterns of forbidden SQL, which are one word
  or two here.
