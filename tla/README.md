# droply: TLA+ models, checks and proofs

This directory holds a formal model of droply, its server and its web console: TLA+ modules
translated from the Go and TypeScript source, TLC configurations that check them on small instances, and TLAPS proofs of the
properties that matter most, for instances of every size. Paths below are relative to the
repository, which is called `src/` here; `PROJECT.json` gives, for every definition that models
code, the lines it stands for.

    tlc -workers 2 -config Deployment_crash.cfg MCDeployment.tla
    tlapm DeploymentSafety.tla

## 1. The system

droply hosts static sites. A user uploads a tar.gz archive to a project; the server unpacks it
into an immutable *artifact* directory, records a *deployment* row in SQLite, and shows the
artifact under the project's host name (production), under a host name of its own (preview) or
under a branch's host name. Earlier versions can be rolled back to, previews promoted, and old
versions are collected by retention. One process, one data directory, one SQLite database.

### Components

| component | state | operations | talks to | what is hard | correct means |
|---|---|---|---|---|---|
| upload and publication, `server/deploy.go`, `store/deployments.go`, `store/pages.go` | `uploadMu`, `deploymentMu`, the deployment row | `handleDeploy`; `BeginDeploymentTarget`, `CommitDeployment`, `FailDeployment` | artifact store, authorization, audit | minutes between the first check and the publication; two stores that no transaction joins; an error of unknown outcome | what SQLite calls available is whole on disk; nobody without permission publishes; a failed upload never takes production down |
| rollback and promotion, `server/deployment_history.go` | the production pointer | `switchPublication`; `SwitchDeployment`, `PromoteDeployment` | artifact store (`Verify`) | the wait for the lock; damaged artifacts | one production row per project; only whole, retained versions |
| cleanup, `server/deployment_cleanup.go` | artifact states, tombstones | `handleDeploymentCleanup`, `CleanupDeployments` (hourly), orphan sweep | everything that reads artifacts | failing removals, death between tombstone and removal, uploads writing next to the sweep | retention honored, pins honored, no storage lost behind a finished row |
| recovery, `server/deployment_runtime.go` | as above, and the legacy site directories | `PrepareDeployments`, legacy import | SQLite, artifact store | interrupted work of every kind, interrupted again | nothing comes back to life, startup never refuses its own data |
| artifact store, `artifacts/store.go`, `safetree/tree.go` | `.artifacts/<id>`, `.artifacts/.staging/<id>` | `Stage`, `Publish`, `Verify`, `Remove`, `Entries`, `Usage` | the file system | rename and fsync, partial removals, quota walks that race writes | complete or absent |
| site serving, `server/site.go`, `store/pages.go` | the read side of `deploymentMu` | `NewSiteHandler`, `siteHandler`, `serveFile` | cache, access rules, analytics | long responses | a response is made of one deployment, whole to its end |
| site cache, `server/site_cache.go` | a map and a ring of 64 keys | `load`, `forget` | serving, cleanup | check, compile, insert in separate critical sections | bounded, never stale |
| authorization, `server/project_authorization.go`, `members.go`, `project_tokens.go`, `store/members.go`, `store/project_tokens.go` | members, roles, tokens | `recheckPublication`, put and remove member, create and revoke token | every handler | revocation while a request waits | the permission of the moment decides |
| projects and subdomains, `server/project.go`, `subdomain.go` | rows that cascade | create, delete | cleanup | authorized on a row, executed on a name | no file of a deleted project is served |
| access rules, visitor login, `server/access.go`, `store/access_rules.go`, cookies of `site.go` | rules of projects and subdomains, signed cookies | put and delete rule, `checkPageAccess`, login | serving, WeCom | a rule replaced, overridden or removed under old cookies; deletion and re-creation of the project | only what satisfies the rule in force opens a site |
| login form, `console/visitor/main.tsx` | the lock of the submission | submit, `pageshow` | visitor login | back/forward cache, a page that comes back locked | usable whenever nothing is in flight |
| login limiter, `server/ip_limiter.go` | a bounded table | `allow`, cleanup | login | a full table | nobody unlimited, memory bounded |
| WeCom login, `wework/`, `server/wework_handler.go` | one-time OAuth states, the loop marker | `Generate`, `Peek`, `Consume`, callback | network | concurrent and repeated callbacks, expiry, restarts, a callback on another host | a state is exchanged once, a failure does not loop |
| custom domains, `server/domain.go`, `store/domains.go` | domains, challenges | add, verify, delete | DNS | a DNS answer for a domain that was deleted meanwhile | only the holder of the current challenge verifies |
| certificates, `certificates/manager.go`, `tls_check` of `server/domain.go` | cached certificates, `retryAt`, an account | `obtain`, `Run`, `HTTPHandler` | ACME server, domains | removal of the domain during issuance, back-off, calls that queue behind an order | no certificate installed for a host that is not allowed; no needless order |
| audit, `server/audit.go`, `store/audit.go` | pending and final events | middleware, `Finish`, cleanup | every mutation | a death between mutation and final update | no mutation without a record |
| analytics, `server/analytics.go` | a bounded queue | `recordVisit`, `processVisits`, shutdown | serving | full, closed | never blocks a visitor |
| identity, `server/identity.go`, `auth.go` | users, one-time tokens | invite, accept, reset | SQLite | a token used twice | single use |
| console sessions, `console/src/App.tsx`, `api.ts`, `server/console.go`, `store/session.go` | session rows, the cookie all tabs of a browser share, the CSRF value each tab holds, the tab's view | check, login, logout, any request, late answers | identity | two tabs and two accounts on one cookie; answers that arrive after the tab has gone on | no write as somebody else than the tab shows; nothing stays locked |
| console workspace, `App.tsx`, `ProjectDetail.tsx` | project list, selection, panels, notice, forms, the mutation in flight | select, refresh, publish, set and remove access rule | all project endpoints | switching, refreshing or leaving while a mutation is in flight; data that is stale when acted on | what is shown belongs to the selected project and is as new as the notice says |
| schema, `store/schema.go`, `migrations.go`, `sqlite.go` | `user_version`, columns | steps run at every start | startup | interruption between two steps | repeatable |
| startup and shutdown, `cmd/droply-server/startup.go`, `hosting/server.go` | data lock, key file, listeners | start, stop | all | order, a short key file, a bounded shutdown | no listener before recovery |
| backup and restore, `backup/` | archive, target directory | `Create`, `Restore` | SQLite, artifacts | interruption | the old data or the new |
| redirect and header rules, `staticweb/` | none | compile, match | cache | order and precedence of rules | equals the documented rule order |
| command line, `cli/` | a configuration file | commands | HTTP | read-modify-write | no profile lost |
| website and scripts | none | | | | no state that two actors share |

### Interaction

Handlers are goroutines of one process. `uploadMu` admits one upload at a time; `deploymentMu` is
a read-write lock whose read side a site request holds until its response is complete and whose
write side is held by every publication, switch, membership change, token revocation, deletion and
cleanup. A token is issued, and rules and domains are changed, without it. A handshake that needs a
certificate queues on the mutex of the certificate manager, where the renewal queues too. The
browser is a second concurrent program: its tabs share a cookie, its requests are answered late or
never, and what it shows was read a while ago. SQLite
transactions are atomic and durable; directory operations are neither. Recovery runs once before
the listeners start.

The hazards this gives rise to are listed, each at its line, in `PROJECT.json`.

## 2. Modules

| module | what it is |
|---|---|
| `Deployment` | the core: uploads, publication, rollback, promotion, members, deletion, visitors, cleanup, death, recovery; its properties and its fairness |
| `Publication` | the abstract specification: what the server promises about published deployments, with no lock, directory or crash |
| `PublicationRefinement` | the mapping of `Deployment` to `Publication` |
| `DeploymentInvariant` | `Consistent` and the inductive invariant `IInv` |
| `DeploymentSafety` | the proofs: types and `Consistent`, then the safety properties, retention and the refinement |
| `SiteCache` | the cache of compiled sites, between its critical sections |
| `SiteCacheProofs` | its inductive invariant and the proofs |
| `ProjectAuthorization` | who may do what: roles, tokens, audited requests between authentication, authorization, lock and transaction |
| `VisitorAccess` | a protected site and its visitor: rules, cookies, the form, the WeCom login |
| `DomainCertificates` | binding and verifying domains, ordering and renewing their certificates |
| `ConsoleSession` | the tabs of a browser, the shared cookie and the session rows |
| `ConsoleDetail` | the console's workspace over projects that others change |
| `ServerProcess` | server processes on a data directory: lock, upgrade, key, requests and their visits, shutdown |
| `LegacyImport` | the site of a project from before artifacts existed, and its import at a start |
| `BackupRestore` | the backup and restore commands next to servers and power failures |
| `ProjectAuthorizationProofs`, `VisitorAccessProofs`, `DomainCertificatesProofs`, `ConsoleSessionProofs`, `ConsoleDetailProofs` | their inductive invariants and proofs |
| `DataDirectoryProofs` | the same for the three that use a data directory: `ServerProcess`, `LegacyImport`, `BackupRestore` |
| `MCDeployment`, `MCSiteCache`, `MCProjectAuthorization`, `MCVisitorAccess`, `MCDomainCertificates`, `MCConsoleSession`, `MCConsoleDetail`, `MCServerProcess`, `MCLegacyImport`, `MCBackupRestore` | instances for TLC |

Some operators carry the comment "Fault": each is the mutated form of the operator after it, and
specifications do not use it. For every property of every passing run `PROJECT.json` names one with which
TLC finds the property violated, so that no property is vacuous.

`LegacyImport` and `BackupRestore` have a word before some names (`ImportInit`, `ImportSpec`,
`BackupNext`, `sourceLock`): `DataDirectoryProofs` extends both together with `ServerProcess`.

### Deployment and the code

A deployment is one number: row ids only grow (AUTOINCREMENT), the versions of a project are in
the order of its ids, and every row has an artifact id of its own (`rand.Text()`).

| variable | code |
|---|---|
| `life`, `members` | rows of `projects` and `project_members`; `members[p]` are the deployers, that is, who may publish besides the owner |
| `project`, `target`, `status`, `state` | columns of `deployments`: `project_id`; `environment` and `branch_label`; `status`; `artifact_state`. `"absent"` is a row that does not exist (any more) |
| `alias` | `deployment_references` |
| `stage`, `files` | `.staging/<id>` and `<id>`: absent, being written or removed, whole; `"volatile"` between the rename and the fsync of `Publish`, `"damaged"` after interference from outside |
| `old` | the clock: which deployments are past `OrphanGrace` and the retention days. Deployments age in the order of their ids. One age stands for both thresholds |
| `uploader`, `writer`, `serving` | holders of `uploadMu` and of the two sides of `deploymentMu` |
| `pc`, `job` | where a user's request is in `handleDeploy` or `switchPublication`, and its deployment |
| `gc` | the locals of `cleanupProject` and `CleanupDeployments`: projects and rows still to visit, `rank`, `keep`, `days` |
| `power`, `todo`, `crashes` | the process: down, in `prepareDeployments` with rows to visit, or serving |

Actions are cut where another goroutine may run or the process may die with a visible
difference. `handleDeploy` is `RequestDeploy` (first authorization), `TakeUploadLock`, `Reserve`,
`BeginStage`, `FinishStage`, then under the write lock `RenameArtifact`, `SyncArtifact`,
`Commit`, and the deferred `ClearStage`; its error paths are `RejectDeploy`, `FailUpload`,
`RefusePublication`, `FailSync` and `CommitUncertain`, each with `FailDeployment` that may itself
fail. A handler that takes the write lock, runs one transaction and returns is one action
(`Switch`, `RetireArtifact`, `Grant`, `Revoke`, `DeleteProject`): nothing sees its inside.
`cleanupProject` is a step per row (`SkipRow`, `MarkDeleting`), per removal (`RemoveTrees`,
`FailRemove`) and per final state (`SettleRow`). Recovery is a step per row. A verification that
fails on an intact tree, because of a passing I/O error, is in the model as it is in the code:
the artifact goes missing.

Left out of `Deployment`: the contents of archives, quotas (an upload may fail at any point
where the code checks one), viewer roles and tokens (`ProjectAuthorization`), host name
resolution beyond which deployments a host can select, access rules (`VisitorAccess`), the publication event (written in the promoting
transaction), the `legacy` state, dry runs and HTTP details.

### SiteCache and the code

`sites`, `order`, `next` are the fields of `siteCache`; `Lookup`, `Compile`, `Insert` are the three
parts of `load` between which the mutex is free; `Forget` is `forget`. `visible`, `disk`, `fresh`
are what the rest of the server does with artifacts, under the write side of `deploymentMu`.

### ProjectAuthorization and the code

| variable | code |
|---|---|
| `role`, `lives`, `exists` | `project_members` and the `projects` row behind one name; a project deleted and created again has a new id, the number of its life. The owner of the subdomain is its owner |
| `issued`, `token`, `expired` | `project_tokens`: issuer, project, `revoked_at`; `expires_at` |
| `request` | a management request: its middleware and handler step, what it was authorized for, what it has reported |
| `lock` | the write side of `deploymentMu` |
| `audit` | the `result` column of `audit_events` |

A request is `Admit` (authentication), `Reserve` (the pending audit row, without which nothing
runs), `Resolve` (`authorizeProject`), `TakeLock`, for uploads and switches `CheckAgain`
(`recheckPublication`), then its transaction: `Publish`, `Issue`, `RevokeToken`, `ChangeMember` or
`DeleteProject`; then `FinishAudit`. `Issue` waits for no lock, as in the code, and its transaction
reads the issuer's role itself. An operation may end in an error of unknown outcome (`Apply`). A
crash ends every request and leaves pending rows. Token scopes and lifetimes are abstracted to the
operations a token admits; the removal of old audit rows and the listings are left out.

### VisitorAccess and the code

| variable | code |
|---|---|
| `rule`, `hashes` | the two rows of `access_rules` that can apply; a password is the number of its hash |
| `lives`, `exists` | the project, and the cascade to its rule |
| `states`, `generated`, `expired` | the map of `StateStore` and the ten minutes of its entries |
| `callbacks`, `spent` | callbacks between `Consume` and the end of the exchange; states that got that far |
| `jar`, `marked` | the visitor's cookies in the order in which the browser sends them, and the loop marker |
| `page`, `posts`, `stopped`, `cached` | the page in the browser, the form's lock, its submission, Esc, the back/forward cache |
| `proven`, `failed` | not in the code: what the visitor has proved, and how his WeCom logins of the last minute have failed, those that are never marked aside |

`Decision` is `checkPageAccess`: address, cookie, redirect or form. `Callback` peeks and consumes
the state, `FailCallback` and `FinishCallback` are the code after the exchange, against the rule of
that later moment; `Decline` is a callback without a code. Cookies are signed over what the rule had when they were issued, a host-only
cookie for a password and a parent-domain one for WeCom, and the first of a name counts. `Central`
says whether WeCom calls back on a host of its own. Left out: sites on custom hosts, the older
cookie format, the limiter's table, the addresses themselves.

### DomainCertificates and the code

| variable | code |
|---|---|
| `binding`, `drawn` | the `custom_domains` row of a host and the challenges drawn for it |
| `txt`, `shown` | the TXT records its DNS publishes now, and ever did (external; `shown` is not in the code) |
| `verifier` | a verification: row read, lookup under way, proof found |
| `call`, `issueMu` | a handshake or the renewal in `obtain`, and the mutex of the manager |
| `installed`, `saved`, `ordered`, `age` | the certificate in memory, the one in its file, and their age |
| `backoff` | hosts whose `retryAt` is still to come |
| `orphans` | not in the code: calls whose host was bound to nobody since the CA answered |

`VerifyDomain` is one conditional update. A call is `Ask`, `Look`, `Acquire`, `Admit`, `Decide`,
`Answer` or `Fail`, `CheckAgain`, `Save`, `Install`; a removal or a new binding of the host may come
between any two of them. Left out: platform hosts and their wildcard certificate, how the CA is
convinced (HTTP-01, DNS-01), the account, and `Hosts`, which only lists names for the renewal. The
domain handlers' own authorization is that of `ProjectAuthorization`.

### ConsoleSession and the code

| variable | code |
|---|---|
| `created`, `owner`, `live`, `expired` | `console_sessions`: the number of a session stands for the credential, its digest and the CSRF value, which determine each other |
| `cookie` | the browser's `__Host-droply_console` |
| `view`, `message`, `busy` | the state of `App`, `Login` and the logout button of a tab |
| `requests` | fetches of `API`: the cookie and the CSRF value they were sent with, whether a component or only the page still waits for them, the answer |

A request takes the cookie when it is sent and is answered later, which may set or clear the cookie
whoever is signed in by then. Whatever unmounts a component cancels what it waits for; an answer is
handled in the same step as everything it changes. `Lose` is a failing network and the time-out of
15 seconds. Reads and writes stand for every other request of the console.

### ConsoleDetail and the code

| variable | code |
|---|---|
| `facts`, `version` | the server's data on a project: role, access rule and one more deployment; every change makes a version (not in the code) |
| `list`, `listing`, `loading`, `error`, `selected` | state of `Workspace` |
| `fetch`, `detail`, `notice`, `applied`, `typed`, `flow` | state of `ProjectDetail` and `Access`, keyed by project and refresh; `applied` is the version a notice is about (not in the code) |
| `posts` | mutations in flight, those nobody waits for included |
| `leaving`, `painted` | the logout in flight; the flags with which buttons were last rendered |

`Render` is a step of its own: a second click may come before the disabled button is drawn, which is
why the code also has a lock that is set at once. The domains, statistics and audit panels are read
and shown as the deployments are and offer nothing. What others do to a project is `Elsewhere`,
limited to a set of facts. The
server decides on role and version (`Allowed`); what it refuses for another reason, a form that does
not validate, storage that fails or an artifact found damaged, is `Fail`, and may always happen.

### ServerProcess and the code

| variable | code |
|---|---|
| `lock` | the `flock` on `server.lock` |
| `original`, `schema`, `version`, `snapshots` | tables and columns as this version found them (`original` is not in the code) and as they are; whether `user_version` is the newest; `upgrade-backups/` |
| `key` | `hmac.key`, which a death between its creation and the write leaves short |
| `pc`, `next`, `opened` | the step of `runServer`, its migration statement, its database connection |
| `handler`, `worker` | requests, with the stretch between the check and the send in `recordVisit`; the maintenance, which waits for requests |
| `queue`, `closed`, `panicked` | `visitCh`, `visitsClosed`; a send into a closed channel, which Go answers with a panic (not a state of the code) |

A change is a statement of some migration, in the order of all of them; each asks whether it is
there already, so a start goes through all of them again wherever an earlier one was cut off. An older
database may have any subset, for later versions added columns to earlier tables. The shutdown is
`BeginShutdown`, `EndDrain` (complete or after 15 seconds), `EndWorkers`, `CloseQueue`, `EndFlush`,
and the two deferred calls `CloseStore` and `Unlock`; requests that outlive the drain go on beside
it. Left out: what migrations do to rows, ports, time limits of connections, the certificate and audit
workers, requests served between the first listener and a failure of the second one.

### LegacyImport and the code

| variable | code |
|---|---|
| `life`, `lives` | the `projects` row of a name, and how often there has been one |
| `production`, `archived`, `uploading` | its deployments: the active one with its `artifact_state`, others that can be switched to, one under way |
| `oldDirectory` | `sites/<sub>/<project>` of the old server |
| `step` | of the process: `prepareDeployments` up to the import, `Import` and `Publish` (`CopySite`), the row (`Attach` or `Begin` and `Commit`), serving, and a deletion between its rows and its directory |
| `begun`, `copies` | bounds and counters, not in the code |

### BackupRestore and the code

| variable | code |
|---|---|
| `data`, `used`, `sourceLock` | rows and artifact trees of the source, which a server changes while it has the lock |
| `backup`, `output`, `rotten`, `created` | `Create` and the paths it links archives to; archives damaged later; paths for which it reported success |
| `restore`, `target`, `restored`, `host` | the two `Restore` commands, the new data directory, and a server somebody starts on it meanwhile |
| `durable` | paths whose directory was synced |

Content of a file or directory has rows, trees, and whether it is all written and synced. A power
failure takes back what was not synced (`Left`), file and entry separately. Left out: files outside
the data directory, the format and the limits of archives, the key given by hand.

## 3. Runs

| run | bounds | what it shows |
|---|---|---|
| `crash` | one user, one visitor, one project, production and one branch, `MaxId` = 2, `MaxCrashes` = 1, one `Fragile` deployment | `PublishedIsComplete`, `ReadersUndisturbed`, `AliasesResolve` and `NoResurrection` with a death between any two steps; `Publishes`: every step, death and recovery included, is one `Publication` allows |
| `races` | owner and deployer, production and anonymous previews, `MaxId` = 2, maintenance with `RetainCount` = 1 and days | `UploadsMoveForward` and `ProductionKept` (a production row stays, and a working version is not replaced by one that does not work) under all interleavings of two requests, membership changes and maintenance; `RetentionHonored` with failed uploads, rollbacks and lost artifacts between the ranked versions |
| `progress` | owner, deployer, one visitor, `MaxId` = 1, `MaxCrashes` = 1 | under `Fairness`: `RequestsFinish`, and `StorageReclaimed` (tombstones are finished, orphans swept) |
| `cache` | three readers, four artifacts, `Capacity` = 2 (64 in the code) | `Bounded` (the map) and `NothingStale` |
| `authorization` | owner and member, three requests, one token, two lives of the project | `TokensOfPublishers`, `PublishedWithPermission`, `AuditHonest` with every pair of operations interleaved, a crash anywhere |
| `visitor` | two rules an owner may set (WeCom for everybody; a password or WeCom for somebody else, other addresses free), two passwords, two lives, two states | `ServedAuthorized`, `StateUsedOnce`, `FormUsable`, `NoLoopBack` with the callback on the site's host |
| `domains` | one host, two projects, two verifications, two handshakes and the renewal, two challenges, two certificates | `VerifiedByChallenge`, `OrdersNeeded`, `InstallsAreSound` |
| `console_session` | two tabs, two accounts, two sessions, two requests in flight | `WritesAsShown`, `LogoutIsFinal`, `NobodyStuck`, `StaleAnswersHarmless` |
| `console_detail` | two projects, one of which changes twice, two mutations in flight | `PaneOfSelected`, `NoticeIsTrue`, `OneMutation`, `OffersAreSound` |
| `server` | two processes, two requests each, three changes, `QueueSize` = 2 (1000 in the code) | `PristineSnapshot`, `ServesComplete`, `StoreExclusive`, `VisitsFlushed` (none sent to a closed channel, none dropped unflushed), with a death or power failure between any two steps, as often as it likes; `ShutdownEnds` under `Fairness` of `ServerProcess` |
| `legacy_import` | two lives of the project, three uploads | `SiteBackOnce`, `NewerKept`, with starts interrupted anywhere |
| `backup` | one artifact, two paths, two restores into one directory | `WholeOrAbsent` and `ReportedStays` (archives and restored directories alike), `NothingReplaced` |

Deadlock is checked in every run.

Why the bounds are enough. Every safety property relates at most two deployments of a project,
and a violation needs at most one that was published before and one that is being worked on: two
ids make both roles happen, in both orders of completion the code allows, and retention, which
counts survivors, has one that counts and one that must not. One death suffices because recovery starts from rows and
directories only: what a second death could interrupt is a recovery, whose steps are idempotent
per row, and the first death already falls into recovery in some behaviours. Two users give every
pair of handlers; one project is enough for TLC, since that projects do not disturb each other is
among what is proved; a visitor is one because responses do not interact. The cache has more keys
than slots and more readers than slots, so misses race, slots are reused and keys are evicted
while others compile. In `authorization`, three requests are the one that waits, the one that takes
its permission away and a third that gives it back, or asks for a token meanwhile; two lives are what
deletion by name needs. In `visitor`, a cookie is of a password or rule before or after a change, and
two states make two attempts overlap. In `domains`, two projects and two challenges are a binding and
the one that replaces it while a verification waits, and three calls for one host are the one that
orders, one that waits behind it, and the renewal. In `console_session`, two tabs and two
sessions are what a tab shows and what the cookie has meanwhile become. In `console_detail`, the
project that changes twice does so before and after the pane reads it, and the other is there to
switch to. In `server`, two processes are the one that stops and
the one that starts, two requests the one that sends and the one the maintenance waits for, and three
changes leave a gap, a start and an end. In `legacy_import`, the second life is the project that the
directory does not belong to. In `backup`, one artifact is there, missing or damaged, and two restores
are the one that looked first and the one that came between. Tabs, users, projects, verifications and handshakes that are interchangeable are
symmetric where no temporal formula but a step's is checked. For the properties with a theorem the bounds do not matter at all.

`Keeps` and `Days` are what an operator may ask of a cleanup, `RetainCount` and `RetainDays` what
the server is configured with: in `crash` the operator collects whatever is not pinned beside
maintenance with both limits, in `races` only maintenance runs, in `progress` without limits.

### Fairness

`Fairness` assumes no more than the code and its environment provide:

- a request that waits for a lock is strongly fair (`AtLock`): Go's mutexes switch to a
  first-come order for a waiter that starves, and a waiting writer blocks new readers. The disjuncts
  are the ways out that are always open at that point, never the success;
- everything else a request does is weakly fair (`AtWork`), and never by its success: an upload is
  only assumed to end, by the read timeout of the HTTP server (`hosting/server.go`), as is a
  response (`EndResponse`);
- maintenance comes every hour (`RunDeploymentCleanup`) and its passes go on (`StartProject`,
  `SkipRow`, `StartSweep`, `EndCleanup`);
- a removal, and the update after it, that are tried again and again succeed at last. Without this
  nothing can be promised about storage: a directory that cannot be removed stays;
- time passes (`Age`); a stopped server is started again (`Start`) and recovers row by row.

Nothing is assumed of users, crashes, or damage.

`ServerProcess` assumes weak fairness of the steps of the shutdown, of the consumer of visits and of a
pass that nobody holds up any more. A request is not assumed to end while its connection is open, for
its visitor may take what he likes; once `Shutdown` has closed the connections (`hosting/server.go:123`)
it is (`Ends`), because its reads and writes fail. That is why the deadline matters: with a
`Shutdown` that waits for all requests `ShutdownEnds` does not hold.

The other specifications state no fairness: that nothing waits for ever is
checked there as a safety property, which needs none. What is locked waits for an answer that is
still to come and that it will hear (`NobodyStuck`, `FormUsable`).

## 4. Proofs

TLAPS checks, for every value of the constants that satisfies the assumption of the module
(`ConstantsAssumption`, `CacheAssumption`, `AuthorizationAssumption`, `VisitorAssumption`,
`DomainAssumption`, `SessionAssumption`, `DetailAssumption`, `ProcessAssumption`, `ImportAssumption`,
`BackupAssumption`: constants are of their types, and the values that stand for nothing are none
of the others):

| theorem | states |
|---|---|
| `DeploymentSafety!TypeCorrect` | `[]TypeOK` |
| `ConsistentAlways` | `[]Consistent` |
| `Inductive` | `[]IInv` |
| `CompleteAlways`, `ReadersAlways`, `OneProductionAlways`, `TombstonesAlways`, `ReclaimedAlways`, `AliasesAlways` | `PublishedIsComplete`, `ReadersUndisturbed`, `OneProduction`, `TombstonesUnpinned`, `DeletedIsReclaimed`, `AliasesResolve` |
| `PublisherAlways`, `ForwardAlways`, `NoResurrectionAlways`, `ProductionAlways` | `PublishedByPublisher`, `UploadsMoveForward`, `NoResurrection`, `ProductionKept` |
| `RetentionAlways` | `RetentionHonored` |
| `Refinement` | `Publishes`: `Spec` implements `Publication` |
| `SiteCacheProofs!Inductive`, `CacheTypes`, `RingInStep`, `CacheBounded`, `CacheNeverStale`, `ReadersKeepFiles` | the cache: types, ring and map agree, bounded, nothing stale, readers protected |
| `ProjectAuthorizationProofs!Inductive`, `TokensBelongToPublishers`, `PublicationsArePermitted`, `AuditIsHonest` | the three properties of `authorization` |
| `VisitorAccessProofs!Inductive`, `ContentIsAuthorized`, `StatesAreUsedOnce`, `FormIsUsable`, `MarkedFailureStopsLoop` | the four properties of `visitor` |
| `DomainCertificatesProofs!Inductive`, `DomainsVerifiedByChallenge`, `CertificatesOrderedAsNeeded`, `CertificatesInstalledSoundly` | the three properties of `domains` |
| `ConsoleSessionProofs!Inductive`, `MutationsRunAsShown`, `LogoutsAreFinal`, `NobodyGetsStuck`, `StaleAnswersAreHarmless` | the four properties of `console_session` |
| `ConsoleDetailProofs!Inductive`, `PaneBelongsToSelected`, `NoticesAreTrue`, `OneMutationAtATime`, `OffersAreKept` | the four properties of `console_detail` |
| `DataDirectoryProofs!Inductive`, `UpgradesAreUndoable`, `ServersAreComplete`, `OneStoreAtATime`, `NoVisitIsLost` | the four safety properties of `server` |
| `SiteInductive`, `SiteIsBackOnce`, `NewerIsKept` | the two properties of `legacy_import` |
| `BackupInductive`, `BackupsAreWhole`, `ReportsAreFinal`, `NothingIsReplaced` | the three properties of `backup` |

The argument. No safety property is inductive alone. `Consistent` says why: an upload past
`uploadMu` holds it (`Locking`), so its row is the newest (`JobsNewest`) and nobody else's; until it
commits or gives up, its row is pending (`JobsPending`); from the rename to the commit it holds
the write lock, so neither its permission nor its files change (`JobsProtected`); rows are
numbered in order (`RowsOrdered`); and the rows of a collector's pass cannot go away under it
(`CollectorSafe`). The first half of `DeploymentSafety` proves that from types alone, action by
action and conjunct by conjunct.

The second half classifies steps by their effects: a step changes the rows in one of
eight ways (`RowEffect`) and the trees in one of six (`DiskEffect`), whatever handler takes it.
Each safety property is proved on the effects: a row becomes available only in a commit, whose
files are durable by `JobsProtected`; it stops being available only when nobody reads it; an alias
points only to what was committed, and what has an alias is not condemned; and so on.

Retention needs an invariant of its own. A pass ranks the versions of a project from the newest on,
and its rank goes on counting versions that it has condemned itself. `Ranked` says why that is right:
of each row still to be looked at, as many newer versions are left as the rank says, or as many as
were asked for; the rank runs ahead of what is left only once enough are. Nothing else takes a version
away meanwhile (`PassUndisturbed`), for the pass holds the write lock.

The refinement is proved on the effects too: a reservation and the end of a removal stutter, a
commit is `Publish` or `Preview`, a switch `Activate`, a failed upload `Abandon`, a failed
verification `Lose`, a tombstone `Collect` (or nothing, when the version was never published), the
deletion of a project `Delete`. Beside `IInv` this takes one more fact, that only
what was published goes missing (`LostWasPublished`).

The cache's invariant says that keys of the ring and of the map agree, that a key sits in one slot
only, and that readers in `load` protect what they load; boundedness follows by cardinality.

`ProjectAuthorization`: whoever is past the lock holds it (`LockHeld`), so a publication that has been
checked again keeps its permission until it commits (`ReadyAllowed`): whatever could take it
away needs the lock, except the expiry of a token, which does not revoke it. What a request has
reported, what is applied and what its audit row says agree at every step (`Reported`).

`VisitorAccess`: a cookie in the jar was earned (`CookiesEarned`): a password cookie by a
password the visitor has given, a WeCom cookie by WeCom having named him. Since a cookie only
opens a site whose rule has the same secret part, and a list is looked at again, content needs no
more. The form's lock is tied to its submission (`FormLock`), and a failure with a
known state, or on one host with any state, is marked (`Marker`).

`DomainCertificates`: the calls inside `obtain` hold the mutex one at a time (`LockHeld`), a lookup
proves only what was published (`Proved`), the certificate in hand is the newest and the file is
never older than memory (`Newest`), and a call that passed the second check was not orphaned
(`NoOrphan`).

`ConsoleSession`: every request in flight is consistent with itself (`Sound`: its session exists, an
accepted mutation had the CSRF value of its cookie's session, a confirmed logout left no row),
what a component waits for is of what its tab shows (`Mounted`), and `NobodyStuck` is part of the
invariant, for a lock is released by the answer it waits for. `Sound` is kept because
rows only disappear and sessions never change owner (`RowsGrow`).

`ConsoleDetail`: a pane that is replaced forgets everything it showed and waited for (`PaneIInv`);
it waits for one mutation and reads nothing meanwhile (`OneHeld`); what it reads after a mutation is
no older than what that made (`Rereading`), so a notice stands above panels that show it. What
has been read is of an older version or is what the server has (`Recent`). Hence an offer that was
made for the data the server still has is one that role and version allow, and finds the rule it was
made for (`Grounded`), which is `OffersAreSound`.

`ServerProcess`: the parts of the invariant hardly depend on each other. Whoever has the database
open has the lock (`Owned`); once the queue is closed nobody is about to send, and after the flush it
is empty (`Delivered`); a process migrates only a new database, one whose snapshot is synced, or one
that is complete, and what it has been through is there (`Upgraded`); the later steps of a start have
what the earlier ones made (`Prepared`).

`LegacyImport`: what a start has seen when it decided to import still holds when it records the site,
for nothing else runs and an interrupted start forgets (`Starts`); a first life that has got its site
keeps a production deployment of this server, available or missing, until it is over for good, and
no start imports over that (`FirstLife`); a production without an artifact can only be the old
server's (`OldSite`).

`BackupRestore`: what is linked or renamed to its path is complete, written and synced before
(`Sealed`), and of sealed content a power failure takes all or nothing (`SealedLeft`): the entry, when that
was not synced yet. What is reported has a synced entry, which nothing takes. Nobody renames over a
file or a directory with something in it, for a link and a rename fail there.

Only proved: `Consistent`, `OneProduction`, `TombstonesUnpinned`, `DeletedIsReclaimed`,
`PublishedByPublisher`, the cache's `TypeOK`, `RingMatchesMap` and `ReadersProtected`, and
`Deployment`'s `TypeOK`: with a theorem for every instance no run lists them.

Only model-checked: the three liveness properties (`RequestsFinish`, `StorageReclaimed`,
`ShutdownEnds`). Liveness is out of the prover's reach, as are ENABLED, inductions over data, and
recursively defined operators; no model uses the last. Every other property of every run is proved.

## 5. Plan

Done: the core (`Deployment`, its promise and proofs), `SiteCache`, `ProjectAuthorization` with the
audit trail, `VisitorAccess` with the WeCom login, `DomainCertificates`, `ConsoleSession`,
`ConsoleDetail`, `ServerProcess`, `LegacyImport`, `BackupRestore`. Left, in this order:

1. `AccessRules`: the statements of concurrent saves and removals of one rule.
2. `IpLimiter`, `StorageQuota`: tables and quotas at their limits.
3. `Identity` (one-time tokens), `CliConfig` (read-modify-write of a file), `SafeTree` (limits).
4. `RedirectRules`: matching as a function, against a reference definition over bounded inputs.

Each comes with its proofs.

### Not modelled

The components of the list above, each with its row in `PROJECT.json`; the website (static pages
with a theme and a language switch) and the installation scripts, which share no state with
anything; the HTTP clients of WeCom, DNS and the CA, which are external and answer or fail.

### Where the code differs from what is written about it

Three disagreements came up while modelling: these are the places where a document or a comment says
more than the code does. No run expects a violation: each model states what the code does guarantee.

A failed WeCom login. `docs/wework.md:175` says that after a failed attempt the visitor sees the
login page "instead of being looped back into another OAuth attempt", by a cookie marker. Three
failures leave the site without that marker, and under a rule with WeCom alone the next visit then
starts another attempt:

- a callback without a code, as after a declined authorization, is answered with 400 before anything
  is marked or consumed (`wework_handler.go:148`), wherever WeCom calls back: TLC refutes
  `[][Decline => Decision'.shows # "authorize"]_vars` of the instance of `visitor` in four steps;
- a callback whose project was replaced during the exchange is answered with 404 and no marker
  (`wework_handler.go:188`);
- a callback whose state has expired, or was consumed already, does not know the site it is about, and
  sets the marker for its own host only (`wework_handler.go:156`). That is the site's host in the
  simplest set-up. With a callback host of its own, as `README.md:508` recommends, the site does not
  get the marker: TLC finds that a failed attempt is followed by another one as soon as `Central` is
  `TRUE` in `VisitorAccess.cfg` and the second disjunct of `NoLoopBack` does not ask for `~ Central`.

What is left is `NoLoopBack`, proved for both set-ups (`MarkedFailureStopsLoop`): a login that failed
at its exchange or its rule is not followed by another one by itself, and on one host neither is one
with an unknown state.

The old site directory. `deployment_runtime.go:148` says "Leave the original directory as a migration
backup. It is never served again", and `docs/migration-m1.md:11` that it "is retained as a migration
backup, and is no longer served or updated". What keeps a start from importing it again is
only that the project has an active deployment (`deployment_runtime.go:114`). A deletion removes the
rows first and the directory next, ignores the error and syncs nothing (`project.go:87`), and a death
or a failing removal in between leaves the directory. A project of the same name that has only a
preview or an unfinished upload then gets the old site as its production at the next start. This is
why `SiteBackOnce` speaks of the first life of a project: `copies <= 1` alone is violated.

A backup that fails. `docs/backup-m3.md:23` says that it publishes no output
("失败时原数据库不变且不发布输出"). Its last step, after the archive is linked to its path, is the
synchronization of the directory; when that fails, an error is returned and the (whole) archive stays
(`backup.go:209`), so that the command, given again, is refused because the path is taken.

### Behaviours worth knowing

None of these contradicts a document, and all but those of the last paragraph below the list are in the models:

- an artifact whose verification fails once, for whatever reason, stays missing for good
  (`deployment_history.go:65`, `deployment_runtime.go:76`); when it is that of the production row, the
  row stays active and its site answers 404 until another version is published;
- a row whose failure could not be recorded stays `uploading`, pinned, until the next start
  (`deployment_runtime.go:159`);
- a deletion is authorized on a project and executed on its name: one that waited may delete a
  project created again meanwhile by the same owner (`project.go:82`);
- after another tab signs in as somebody else, a tab goes on showing the first account: its reads
  bring the other's data, its writes are refused (`WritesAsShown` is what keeps them harmless);
- the late answer of a logout clears the cookie of a newer login, whose row stays until it expires;
- a logout that fails unmounts the detail pane even while a mutation is in flight: the mutation
  may be executed, and nobody hears of it;
- a save of an access rule in the console may replace a WeCom rule that was set after the page read the
  old one (`OffersAreSound` says that nothing but such a change makes this happen);
- a host-only password cookie hides a newer WeCom cookie of the parent domain, both having one name;
- a navigation that the visitor stops with Esc leaves the form locked until it is reloaded;
- the back-off after a failed order is in memory and forgotten at a restart, and a handshake that
  gives up during its order counts as a failure of the order;
- a death between the creation and the write of `hmac.key` leaves a short key with which no start
  succeeds until somebody removes it (`startup.go:193`); the file is synced and its directory is not,
  so a power failure may also take the whole entry, and the next start makes another key;
- requests that outlive the 15 seconds run on while the queue, the store and the lock are released
  (`StoreExclusive`: the store first, so none of them can commit beside the next process);
- a restore may take an empty directory that was made between its check and its rename.

Two first saves of a subdomain's rule may both insert, since the check and the insertion are two
statements (`access_rules.go:54`); queries and saves then use the older row, and a removal takes both.
A removal between the update of a saved rule and the last look makes `PutAccessRule` return no rule,
over which the handler panics (`access.go:202`): the answer is a 500, and the rule is gone. The port of
the legacy listener is acquired after the main listeners serve (`startup.go:129`); when it is taken, the
start fails with requests already answered and their visits dropped.
