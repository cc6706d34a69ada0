-------------------------- MODULE MigrationDeploy --------------------------
(***************************************************************************)
(* The production deployment of migrations: the steps of the workflow      *)
(* .github/workflows/deploy-database.yml, each a decision of               *)
(* scripts/validate_production_migrations.py on what the Supabase CLI      *)
(* reported a moment ago.                                                  *)
(*                                                                         *)
(* Deployments are serialized (the concurrency group), and each works on   *)
(* the tree it was dispatched at, which may be an old one by the time it   *)
(* runs or is run again.  Meanwhile main gains migrations and somebody     *)
(* else may apply a version to the remote project; nobody removes one (the *)
(* operational contract forbids repairs).  Of the CLI only this is         *)
(* assumed: it lists what is there, plans what is missing, and pushes in   *)
(* the order of the file names, one transaction per migration.  It may     *)
(* stop early, even without an error.                                      *)
(***************************************************************************)
EXTENDS MigrationGate, FiniteSets

CONSTANTS
    Files,         \* migration files that may come to be on main
    Outsiders,     \* versions somebody else may apply
    Scripts,       \* scripts on which the stripping of quotes is checked
    MaxTrees,      \* bound: commits of main
    MaxOutside,    \* bound: versions applied by somebody else
    MaxDeployments \* bound: deployments started

ASSUME DeployAssumption ==
    /\ Legacy \in Files
    /\ \A f \in Files :
          f.version \in Seq(Nat) /\ f.label \in Nat /\ AsInt(f.version) \in Nat
    /\ Null \notin Outsiders
    /\ MaxOutside \in Nat /\ MaxDeployments \in Nat

\* A script is given as PostgreSQL reads it.
ASSUME ScriptAssumption ==
    /\ \A f \in Files : ScriptFits(f.script)
    /\ \A script \in Scripts : ScriptFits(script)

VARIABLES
    trees,       \* the set of migrations in each commit of main
    remote,      \* the versions in the remote history
    outside,     \* number of versions applied by somebody else
    deployments, \* number of deployments started
    pc,          \* the workflow step the deployment is at
    checkout,    \* its tree
    listing,     \* migration-history-before.json
    pending,     \* pending-migrations.txt
    plan,        \* what the push under way has yet to apply
    pushed       \* the files it has applied

vars == <<trees, remote, outside, deployments, pc, checkout, listing, pending,
          plan, pushed>>

Main == UNION trees

Ended == {"none", "succeeded", "failed"}

Init ==
    /\ \E tree \in SUBSET Files :
          trees = {tree} /\ \A f, g \in tree : Name(f) = Name(g) => f = g
    /\ remote \in SUBSET (Versions(Files) \ {NoVersion})
    /\ outside = 0
    /\ deployments = 0
    /\ pc = "none"
    /\ checkout = {}
    /\ listing = {}
    /\ pending = {}
    /\ plan = {}
    /\ pushed = {}

-----------------------------------------------------------------------------

\* A migration is merged to main under a new name.
Merge(f) ==
    /\ Cardinality(trees) < MaxTrees
    /\ \A g \in Main : Name(g) # Name(f)
    /\ trees' = trees \cup {Main \cup {f}}
    /\ UNCHANGED <<remote, outside, deployments, pc, checkout, listing, pending,
                   plan, pushed>>

\* Somebody applies a version from elsewhere.
ApplyElsewhere(version) ==
    /\ outside < MaxOutside
    /\ version \notin remote
    /\ remote' = remote \cup {version}
    /\ outside' = outside + 1
    /\ UNCHANGED <<trees, deployments, pc, checkout, listing, pending, plan, pushed>>

-----------------------------------------------------------------------------

\* Mutant: the files of the deployment before are still there.
StartWithOldFiles(tree) ==
    /\ pc \in Ended
    /\ deployments < MaxDeployments
    /\ deployments' = deployments + 1
    /\ pc' = "repository"
    /\ checkout' = tree
    /\ UNCHANGED <<trees, remote, outside, listing, pending, plan, pushed>>

\* A dispatch, or the re-run of an old one, gets its turn.
Start(tree) ==
    /\ pc \in Ended
    /\ deployments < MaxDeployments
    /\ deployments' = deployments + 1
    /\ pc' = "repository"
    /\ checkout' = tree
    /\ listing' = {}
    /\ pending' = {}
    /\ plan' = {}
    /\ pushed' = {}
    /\ UNCHANGED <<trees, remote, outside>>

\* A check passes and the workflow goes on, or it refuses.
Gate(accepted, next) == pc' = IF accepted THEN next ELSE "failed"

Unpushed == UNCHANGED <<trees, remote, outside, deployments, checkout, plan, pushed>>

ValidateRepository ==
    /\ pc = "repository"
    /\ Gate(RepositoryAccepted(checkout), "history")
    /\ UNCHANGED <<listing, pending>>
    /\ Unpushed

GateHistory ==
    /\ pc = "history"
    /\ listing' = MigrationList(checkout, remote)
    /\ pending' = Pending(listing', checkout)
    /\ Gate(HistoryAccepted(listing', checkout, FALSE), "sql")
    /\ Unpushed

RejectDestructive ==
    /\ pc = "sql"
    /\ Gate(\A f \in pending : SqlAccepted(Text(f.script)), "preview")
    /\ UNCHANGED <<listing, pending>>
    /\ Unpushed

Missing == {f \in checkout : f.version \notin remote}

\* `supabase db push --dry-run`; it lists seeds or roles if any are configured.
DryRun(seedsOrRoles) ==
    [migrations |-> Missing, upToDate |-> Missing = {}, seedsOrRoles |-> seedsOrRoles]

\* The push is skipped when nothing is pending.
VerifyPlan(seedsOrRoles) ==
    /\ pc = "preview"
    /\ Gate(PlanAccepted(DryRun(seedsOrRoles), pending),
            IF pending = {} THEN "verify" ELSE "push")
    /\ UNCHANGED <<listing, pending>>
    /\ Unpushed

\* `supabase db push` makes its own plan of what is missing now.
StartPush ==
    /\ pc = "push"
    /\ plan' = Missing
    /\ pc' = "pushing"
    /\ UNCHANGED <<trees, remote, outside, deployments, checkout, listing, pending,
                   pushed>>

\* One migration and its history row, in one transaction.
ApplyMigration(f) ==
    /\ pc = "pushing"
    /\ f \in plan
    /\ \A g \in plan \ {f} : NameBefore(f, g)
    /\ f.version \notin remote
    /\ remote' = remote \cup {f.version}
    /\ plan' = plan \ {f}
    /\ pushed' = pushed \cup {f}
    /\ UNCHANGED <<trees, outside, deployments, pc, checkout, listing, pending>>

EndPush ==
    /\ pc = "pushing"
    /\ pc' = "verify"
    /\ UNCHANGED <<trees, remote, outside, deployments, checkout, listing, pending,
                   plan, pushed>>

VerifyHistory ==
    /\ pc = "verify"
    /\ LET after == MigrationList(checkout, remote)
       IN /\ pending' = Pending(after, checkout)
          /\ Gate(HistoryAccepted(after, checkout, TRUE), "noop")
    /\ UNCHANGED listing
    /\ Unpushed

VerifyNoOp(seedsOrRoles) ==
    /\ pc = "noop"
    /\ Gate(PlanAccepted(DryRun(seedsOrRoles), pending), "succeeded")
    /\ UNCHANGED <<listing, pending>>
    /\ Unpushed

\* A step exits with an error for any other reason: the CLI fails or reports
\* JSON of another shape, a migration fails, the job is cancelled or lost.
Fail ==
    /\ pc \notin Ended
    /\ pc' = "failed"
    /\ UNCHANGED <<trees, remote, outside, deployments, checkout, listing, pending,
                   plan, pushed>>

Next ==
    \/ \E f \in Files : Merge(f)
    \/ \E version \in Outsiders : ApplyElsewhere(version)
    \/ \E tree \in trees : Start(tree)
    \/ ValidateRepository \/ GateHistory \/ RejectDestructive
    \/ \E seedsOrRoles \in BOOLEAN : VerifyPlan(seedsOrRoles) \/ VerifyNoOp(seedsOrRoles)
    \/ StartPush \/ (\E f \in Files : ApplyMigration(f)) \/ EndPush \/ VerifyHistory
    \/ Fail

Spec == Init /\ [][Next]_vars

-----------------------------------------------------------------------------

TypeOK ==
    /\ trees \subseteq SUBSET Files
    /\ remote \subseteq Versions(Files) \cup Outsiders
    /\ outside \in 0..MaxOutside
    /\ deployments \in 0..MaxDeployments
    /\ pc \in Ended \cup {"repository", "history", "sql", "preview", "push",
                          "pushing", "verify", "noop"}
    /\ checkout \in trees \cup {{}}
    /\ pending \cup plan \cup pushed \subseteq checkout

Remotes(rows) == {row.remote : row \in rows} \ {Null}

\* Nobody else has changed the remote history since it was inspected.
Untouched == remote = Remotes(listing) \cup Versions(pushed)

\* Unless somebody interferes, a push applies the chronologically next
\* migration of its checkout to a history that has no other versions and no
\* gap.  So wherever it stops, a later deployment can take up the rest.
PushAppliesTheNextMigration ==
    [][Untouched => \A f \in pushed' \ pushed :
          /\ remote \subseteq Versions(checkout)
          /\ \A v \in remote : AsInt(v) <= AsInt(f.version)
          /\ \A g \in checkout :
                AsInt(g.version) < AsInt(f.version) => g.version \in remote]_vars

\* A destructive statement in the code PostgreSQL would execute.
Destructive(f) ==
    LET code == CodeOnly(f.script)
    IN \E i, j \in DOMAIN code :
          /\ i <= j /\ \A k \in i..j : code[k] # ";"
          /\ code[i] = "drop" \/ (code[i] = "alter" /\ code[j] = "rename")

\* No push executes a destructive statement, although the remote history
\* may change after the SQL was inspected.
NothingDestructiveIsPushed == \A f \in pushed : ~ Destructive(f)

\* A deployment that reports success has left every migration of its
\* checkout applied, whatever the CLI claimed.
SuccessMeansApplied ==
    pc = "succeeded" => RepositoryAccepted(checkout) /\ Versions(checkout) \subseteq remote

StrippingIsExact(script) ==
    Terminated(Text(script)) /\ Stripped(Text(script)) = CodeOnly(script)

\* When the SQL of the pending migrations is searched, stripping has left
\* exactly their code.  The same for any quoting of any text between two
\* pieces of code, which is looked at only while there is nothing else.
StrippingLeavesTheCode ==
    /\ pc = "sql" => \A f \in pending : StrippingIsExact(f.script)
    /\ Main = {} /\ remote = {} => \A script \in Scripts : StrippingIsExact(script)
=============================================================================
