# Taloyhtiö Manager V2.8a: formal verification

TLA+ specifications of the program in this repository, configurations that check
them with TLC, and proofs that TLAPS checks. Every definition is a translation of
the source; `PROJECT.json` maps it to the lines it stands for. This file says what
the parts of the system are, which module models which, what the runs and the
theorems show, and what is left out.

## 1. The system

An administrator keeps one housing company's data (building parts, observations,
cost evidence, planned and done repairs, accounts, budgets, balance sheets) in a
browser. The server (Node, or a Cloudflare Worker) stores it as one JSON document per
company in PostgreSQL with a revision number and an audit trail, and computes
forecasts from it.

| Component | State it keeps | Operations | What is hard |
|---|---|---|---|
| Admin batch and validation (`src/admin`, `src/events/projectEvents.ts`) | none: snapshot + command → snapshot or error | save and delete of fourteen entity types, in batches | references between rows, order inside a batch, drafts approved later, what validation skips |
| Admin write path (`src/application`, `src/database/postgresAdminRepository.ts`) | the row of `tm_admin_snapshots` | authorize, load, apply, compare and set, build the answer | requests interleave at every await; answers get lost; an error after the save |
| Admin workspace in the browser (`public/app.js`) | `state.admin`, the open form | load, open, submit, reload | the form, the view and the row have three different ages |
| Browser session (`public/app.js`) | session in storage, the shared refresh promise | sign in, refresh, sign out, reload | a refresh token is good for one use; answers come after sign-outs |
| Delete planning, imports and forms (`public/adminOperationPayloads.js`, `app.js`) | the open confirmation, the pasted text, header fields | cascade of a delete, imports and their undo, the statement's form | the browser's plan must be what the server accepts; text is judged against a view that ages |
| Access grants, JWT authentication (`src/auth`) | `tm_company_access_grants` | save, look up, verify a token | clock, token and grant are read at three moments |
| JWKS cache (`src/auth/jwksClient.ts`) | the key set, the fetch in flight, the last forced refresh | look up a key, fetch keys | shared and forced fetches, key rotation, timeouts |
| HTTP server and its lifecycle (`src/http`) | open requests, the pool | listen, route, close | shutdown with requests under way |
| Migration runner (`src/database/migrationRunner.ts`) | ledger table, schema, advisory lock | run a release's migrations | servers start together, old and new releases, death at any statement |
| Initial seed (`scripts`) | none | one batch, unless seeded | a second run or an edit meanwhile |
| Event change review (`src/updates`) | proposals, their status, the events | propose, approve, reject | proposals go stale; fingerprints collide |
| Projection and liquidity (`src/projection`, `src/liquidity`) | none | yearly costs, cash path, required collection | cents and rounding, years without a plan, missing data |
| Operating figures, balance cash (`src/finance`), read models (`src/readModels`), finance views (`public`) | none | figures per account group and year, tables, comparisons | the same figures computed twice, precedence of sources, missing years |

The browser calls the write path over HTTP; the write path reads grants and the row
and calls the batch function between two awaits; the batch function calls the
validators; every authenticated request asks the JWKS cache for a key; every server
start runs the migrations; every answer carries a dashboard that the calculations
build from the snapshot alone. Nothing else is shared.

`PROJECT.json` lists the components with their status and, under `hazards`, each
place where the code can go wrong in a way a test would hardly reach, with the
properties that would show it or the reason there is none.

## 2. Modules

| Module | Models | State and actions |
|---|---|---|
| `AdminData` | `domain/types.ts`, `adminDataValidation.ts`, the checks of `projectEvents` | A snapshot's collections as one function from `<<type, key>>` to values. One operator per validator, `DocValid` for `validateAdminDataSnapshot`. |
| `AdminBatch` | `applyAdminBatch.ts` | `OperationError`, `NextDoc`, `AuditOf`, `ApplyAdminBatch`, `BatchError`: the batch without its loop. |
| `AdminWorkspace` | `commitAdminBatch` with nobody else around | `CreateCompany`, `CommitBatch`: the contents reachable by accepted batches. The loop of `applyAdminBatch` itself as a function of the number of operations done (`Loop`, one `LoopBody` each), to compare `AdminBatch` with. |
| `AdminLog` | the promise of `AdminDataRepository` | Abstract: a register created once and then changed by whole batches, each accepted against the snapshot it replaces. |
| `AdminCommit` | `applyAuthorizedAdminChanges` … `save` | One phase per await: `Authorize`, `LoadAndApply`, `Update` (`UPDATE … WHERE revision`), `ReadRevision` (the second query of a conflict), `Report` (dashboard, may fail), `Lose` (process, query or answer lost); `InitializeAdminData`, `SaveGrant` around them. |
| `AdminBrowser` | `loadAdmin`, `sendAdminOperations`, one editor | Tabs in front of `AdminCommit`: view, workspace under way, open form. |
| `BrowserSession` | sign-in, sign-out, `refreshAdminSession`, `getAdminAccessToken`, the requests of a tab | The session and its copy in storage, the shared promise, what each request waits for; the authentication service hands out one refresh token per generation. |
| `EntityDeletion` | `planEntityDeletion`, the confirmation, its submit | `OpenDeleteConfirmation` computes cascade, cleared references and operations; `SubmitDeletion` sends them through `AdminBatch`; `SaveMeanwhile` is a batch of anybody else. |
| `FinancialImports` | the four paste parsers, their previews and submits, `planImportDeletion` | Ledger (none until `CreateBooks`), revision, the tab's view of it, the text and what was warned of; `SubmitText` and `SubmitImport` go through `SendOperations`; others save imports meanwhile (`OthersImport`). |
| `MaintenanceStatement` | the maintenance-need form | Stored statement, the tab's view, header fields with their `userEdited` flags, the source that follows the period; others save statements meanwhile (`OthersSaveStatement`). |
| `Workspace` | the tab of one administrator | Composes the rules, deletions, imports, statement and session of a workspace side by side. |
| `JwtAuthentication`, `HttpApi` | `supabaseJwtAuthentication.ts`, `authorization.ts`, `createHttpServer.ts`, `runtime/*.ts`, `securedAdminFacade.ts` | A request from its body over key, grant and work to its status; `Listen`, `Signal`, `Closed`, the pool; `SaveGrant` and the clock around them. |
| `JwksCache` | `RemoteJwksProvider` | `getVerificationKey` up to its await (`AwaitKeys`, `LookUp`, `ForceRefresh`), the fetch (`Serve`, `Load`, `Fail`), the clock and the rotating endpoint. |
| `MigrationLedger` | the promise of the migration runner | Abstract: a run happens at once or not at all. |
| `Migrations` | `runPostgresMigrations`, `withPostgresTransaction` | One action per query; uncommitted work is the runner's until `Commit`. |
| `Seed` | `seed-initial-data.ts`, `seedOperations.ts` | `LoadWorkspace`, `PostChanges`, `Save`, `Fail` of each run; `Edit` and `Delete` by administrators. |
| `Server` | a server's life | Composes `Migrations`, `Seed` and `HttpApi` side by side. |
| `EventReview` | `src/updates` | `Propose` (one candidate of `diffEventProposals`), `Accept` and `Reject` (`applyEventDecision` to its end, with the audit entry), `EditEvent` (whoever keeps the events). |
| `Projection` | `projectEvents`, `aggregateByYear`, `buildProjection` | Events edited, horizons asked for; years, sums and data gaps as functions of them. |
| `Liquidity` | `calculateOperatingBuffer`, `projectCashPath`, `calculateRequiredCollection`, `findFundingNeed` | The two loops, one step a year (`CoveredYear`, `BeyondYear`, `CollectionYear`), and what is read off their results. |
| `OperatingFigures` | `operatingFigures.ts` | Account data edited by administrators; group figures, costs, margins, repair groups. |
| `FinanceViews` | the finance views of `adminOperationPayloads.js` | What the browser computes from the same data. |
| `BalanceSheets`, `BalancePosition` | `balanceCash.ts`, the balance views | Sheets pasted and deleted; the two selectors of the balance view, filled anew at each rendering. |
| `CashPathTable` | `cashPathTable.ts` | The table per scenario, composed of `OperatingFigures`, `BalanceSheets` and `Projection`, while plans and coverage change. |
| `Calculations` | what is calculated from a snapshot | Composes `Projection`, `Liquidity`, `FinanceViews`, `CashPathTable` and `BalancePosition` side by side. |
| `*Proofs`, `SetLemmas` | | The theorems (section 4); `SetLemmas` has the facts about extrema and sums over finite sets that they need. |
| `MC*` | | Instances for TLC. |

What was abstracted. A row keeps only the fields a rule reads across rows; the six
entity types that refer to nothing are one type (`PlainRefs`). Rules about one field
(non-empty ids, ranges, dates, source lists of rows) are left out, so the batches of
the models are well-formed ones and the errors they meet are those of
`BatchErrors`; `INVALID_ADMIN_DATA` also stands for the codes of `projectEvents`.
Two rows with one key cannot be written down; that the code keeps keys unique is
its `upsert`. A pasted text is a sequence of lines and a line is its cells and
whether it can be read. A token is its times, its holder and the one rule it breaks.
Amounts are whole cents, except in `Projection`, where they are tenths of a cent:
nothing makes a priced row a whole number of cents, and `toCents` rounds later.

*Side by side.* `Server`, `Workspace`, `Calculations` and `MCAnswers` each hold
several modules that share no state; only the rules and the deletions of `Workspace`
have a company's rows in common. The first state chooses which of them is at
work (`part`); the others keep their initial states. What such a run shows of a
part is what a run of its own would show, and no interaction is claimed that is not
there; the theorems about the parts are carried over to the compositions. A property of
a run is often a conjunction of named parts, each defined and commented where its
module is.

A mutant is an operator that changes one definition the way a bug would; the comment
before it says how. Each property of a passing run is violated by one of them.

## 3. What is checked

| Run | Instance | Shows |
|---|---|---|
| `commit_race` | 3 requests, 4 batches sent against revisions 0 and 1, grants changing (150,000 states) | No update is lost, what is stored is valid, the trail is the history (`TrailIsTheHistory`), answers and conflicts tell the truth (`ClientsLearnTheTruth`), and the path implements `AdminLog`. |
| `browser_forms` | 2 tabs, 2 requests, one asset saved or deleted (1 M states) | A form sent from the workspace it was filled from replaces what its user saw; tabs show only what was stored (`TabsTellTheTruth`). |
| `browser_override` | the same | *Violated*: finding 2. |
| `jwks_rotation` | 3 calls, 2 keys (1.5 M states) | A withdrawn key is refused after the time to live (`OldKeysExpire`); one fetch at a time and forced ones apart (`EndpointIsSpared`); a new key is accepted in time (`NewKeysAccepted`). |
| `event_review` | 3 proposals, 2 events, 11 candidates, 3 versions to edit to (86,000 states) | Nothing is applied to an event it was not made from (`DecidedAsReviewed`), no proposal is stuck (`PendingIsDecidable`), the trail explains each decision (`TrailExplainsDecisions`). |
| `review_types` | 2 proposals, candidates of an undeclared type | *Violated*: finding 3. |
| `server` | 3 migration runs of 6 lists; 2 seed runs; one connection, 9 tokens, 2 companies (337,000 states) | Runs are atomic (`ImplementsLedger`) and report what is so (`OutcomesAreTrue`); only a living token with a grant held while the request was open is served (`OnlyAdminsAreServed`); no seed run writes over anybody (`NoRunSeedsOverAnother`). |
| `answers` | 2 requests; 2 calls; 2 migration runs; 2 connections | Every one of them ends; a shutdown ends and cuts nobody off (`NobodyIsCutOff`). |
| `workspace` | see the bounds (233,000 states) | The batch is its loop (`BatchIsItsLoop`); drafts can be approved and live references resolve (`LiveRowsStand`); a planned deletion is accepted, complete and takes nothing without need (`PlansAreExact`); imports can be undone, restoring what they added to (`ImportsAreUndone`), and warn of what they lose (`PreviewWarns`); the statement's header is kept (`HeaderIsKept`); a refresh token is spent once (`OneGoodRefresh`); every request of the tab ends (`EveryRequestEnds`). |
| `workspace_dangling` | the same | *Violated*: finding 1. |
| `browser_sign_out` | the same | *Violated*: finding 4. |
| `calculations` | see the bounds (164,000 states) | Every approved row is counted once, and the forecasts accept a projection of whole cents (`RowsAreCountedOnce`); the required collection is enough and least, the path adds up, unknown years stay unknown (`ForecastIsSound`); every figure is in one part of its year's margin (`FiguresAreCountedOnce`); the browser computes what the server does (`ViewsAgree`); comparisons of balance sheets add up (`SheetsCompare`); a change moves nothing it has no part in (`ChangesStayInPlace`). |

**Bounds.** *Write path*: three requests are the least for a save that wins, one that
loses its UPDATE and one that comes in between. Every batch collides with another one
or is refused for a reason of its own. *Rules*: two assets, one row of every other
type, two of the evidence; some 60 batches of one to three operations from an empty
company; each rule relates one row with one of another type. *Deletions*: two assets,
two events and two pieces of evidence, so that the cascade runs from an asset over its
evidence to an event on the other asset and back to evidence that names the event:
once around the reference graph. *Imports*: one account over two years, a group, a
sheet of two items, 13 texts, one and two sources, `MaxBooksRevision` 3: two imports by
which one overwrites the other, and a delete. *Statements*: two periods, a good and a
flawed text, `MaxStatementRevision` 4. *Session*: 2 sign-ins, 2 requests, `MaxNow` 2 with
`Lifetime` 2 and `Leeway` 1: a token is fresh, in its leeway and expired. *JWKS*: a
fetch lasts at most one tick, the interval two and the time to live four: one more
than an interval and a fetch together, without which no call could be refused late
enough for `NewKeysAccepted` to be in danger, and less than the clock's range of 6.
*Review*: two proposals compete for one version while a third concerns the other
event; an event can be changed and changed back. *Server*: three runs let one block on
a creator while a third holds the lock; two seed runs and `MaxRevision` 4 let edits
come before, between and after; tokens lie on both sides of each limit with
`Tolerance` 1, `MaxNow` 2 and `MaxSaves` 2 grants. *Calculations*: horizons of one to
four years with rows before, on and after both edges; a liquidity horizon of three
years with the coverage at every place; two years of three groups; two closed and two
budgeted years, one of them both; sheets restated, dated again and without a cash
line. `CHECK_DEADLOCK FALSE` stands where requests, calls and runs are one-shot or
counters are bounded: the system stops when all have ended.

**Fairness.** `AdminCommit`, `Migrations`: a query the process awaits is answered,
fails, or the process ends. `JwksCache`: an endpoint may never answer, then
`AbortController` ends the request; a body that has begun is taken to end, which the
code does not enforce (its timer is cleared once the headers are in). `HttpApi`: a
handler's next await settles, and `server.close` calls back once no request is open.
`BrowserSession`: `fetch` settles. Clients, users, rotations, releases and clocks are
under no fairness.

**Findings.**
1. `DeletesLeaveNoDanglingReference` (`workspace_dangling`). The comment on
   `deleteOperation` says validation rejects a batch that leaves a reference
   dangling; the evidence of a cancelled event's schedule is never looked up, so it
   can be deleted from under it. `LiveRowsStand` states what does hold, and
   `PlansAreExact` that the browser's own plans never do it.
2. `NoSilentOverride` (`browser_override`). The expected revision is the one the tab
   shows when a form is sent, not the one the form was filled from. A form left open
   over a reload passes the compare and set and replaces an edit its user never saw.
3. `PendingIsDecidable` (`review_types`). Candidates are said to be checked at
   runtime, but their `changeType` is not: an unknown one is taken for an update, and
   the proposal can then neither be accepted nor rejected.
4. `StaysSignedOut` (`browser_sign_out`). A refresh the service granted before the
   sign-out and that answers after it saves a session again, and the request that
   waited for it is sent.

**Observations.** What the models take from the code and a reader may not expect; no
run is about them.
- A call that joins a fetch charges the unknown-key interval from its own time
  although the keys may have been read before, so a new key can be refused for the
  interval *plus* a fetch; and a forced refresh is charged before it is awaited, so
  meanwhile other calls with the new key are refused. `NewKeysAccepted` is as loose.
- The clock tolerance of the token check has no effect on expiry: the identity it
  yields is checked again without one (`authorization.ts`): `OnlyAdminsAreServed` holds
  without a tolerance. A key endpoint that is down is answered with 401, like a bad token.
- A price in fractions of a cent is summed before it is rounded, and the liquidity
  rounds each year: `horizonAmount` may differ from its year rows and the forecast
  refuses it (`projectCashPath.ts:199`). `OwnProjectionAccepted` is about whole cents.
- The required collection is floored at zero (`calculateRequiredCollection.ts:61`), so
  it is the least *non-negative* one.
- Import losses are computed when the text is typed and not when the workspace is
  reloaded (`app.js:3047`); `PreviewWarns` is about a fresh preview.
- A statement's header field once edited stays edited for pastes to come
  (`app.js:3456`); and "Ei vertailua" in the balance view is undone by the rendering it
  causes, if there is an older sheet (`app.js:3214`).
- The seed counts as run if its water heater is there (`seedOperations.ts:235`);
  whoever deletes that one row and runs it again gets all the others back.
- The height difference of the yearly chart is called the operating margin
  (`app.js:2258`), but the repairs are in its bars.
- Whether a group is a repair group is decided for each side by the accounts that
  report on it (`operatingFigures.ts:363`): a group may be repairs in the budget and
  operating costs in the books.
- Of `public/`, `createHttpServer.ts:328` serves three files, and `app.js` imports a
  fourth and `index.html` a fifth, which answer 404; DEPLOYMENT.md:17 says that this
  process serves the browser assets.

## 4. What is proved

For every value of the constants (`TLAPS`: SMT, Zenon, PTL):

| Module | Theorems | Properties of runs they state |
|---|---|---|
| `AdminCommitProofs` | `TypeCorrect`, `ValidSnapshot`, `NoLostUpdate`, `ClientsKnow`, `TrailComplete`, `AppendOnly`, `Refinement`; of the tabs `TabsRefine`, `TruthfulTabs` | `TypeOK`, `StoredSnapshotValid`, `CommitsAreRevisions`, `ClientsLearnTheTruth`, `TrailIsTheHistory`, `ImplementsLog`, `TabsTellTheTruth` |
| `AdminBatchProofs` | lemmas on batches and contents that three modules need | |
| `WorkspaceProofs` | `LoopsAreBatches`, `RowsStand`, `PlansAreWhatHasToGo`, `ImportsUndone`, `PreviewsWarn`, `HeaderKept`, `GoodRefresh`; of all of them `WorkspaceTypeCorrect`, `WorkspaceSafe`, `WorkspaceSteps` | `BatchIsItsLoop`, `LiveRowsStand`, `PlansAreExact`, `ImportsAreUndone`, `PreviewWarns`, `HeaderIsKept`, `OneGoodRefresh`, `WorkspaceTypeOK` |
| `ServerProofs` | `TrueOutcomes`, `Refinement`, `OnlyAdmins`, `PoolOutlives`, `NothingSeededOver`; of all of them `ServerTypeCorrect`, `ServerSafe` | `OutcomesAreTrue`, `ImplementsLedger`, `OnlyAdminsAreServed`, `NoRunSeedsOverAnother`, `ServerTypeOK`; the safety part of `NobodyIsCutOff` |
| `EventReviewProofs` | `TypeCorrect`, `StaleNeverAccepted`, `PendingNeverStuck`, `TrailExplains` | `TypeOK`, `DecidedAsReviewed`, `PendingIsDecidable` (declared types), `TrailExplainsDecisions` |
| `CalculationsProofs` | of the forecast one for each of its six parts and `ForecastSound`; of all calculations `CalculationsTypeCorrect`, `RowsCountedOnce`, `AllFiguresCountedOnce`, `ViewsAgreeAlways`, `SheetsCompareAlways`, `ChangesStay` | `ForecastIsSound`, `CalculationsTypeOK`, `RowsAreCountedOnce`, `FiguresAreCountedOnce`, `ViewsAgree`, `SheetsCompare`, `ChangesStayInPlace` |
| `JwksCacheProofs` | `TypeCorrect`, `OldKeys`, `NewKeys`, `Spared` | `TypeOK`, `OldKeysExpire`, `NewKeysAccepted`, `EndpointIsSpared` |
| `SetLemmas` | lemmas on the extrema and sums of sets, which three modules need | |

**Assumptions**, each named where its constant is declared: `NoRow` is no snapshot,
batches are sequences of operations, expected revisions naturals, initial contents
contents (`AdminBatch`, `AdminCommit`); equal fingerprints of an event are equal
versions (`HashAssumption`, which names what the code relies on: its hash has 32 bits);
candidates, edits and initial events are of their types (`EventReview`); a horizon of at
least one year, inputs of their type (`Liquidity`); a fetch is shorter than the
interval, and that no longer than the time to live (`TimesAssumption`); lists of
migrations are sequences, `Nobody` no runner (`Migrations`); times are naturals and the
tolerance is at most 300 (`HttpApi`, `JwtAuthentication`); a session outlives the leeway
(`BrowserSession`). Contents to begin with have finitely many rows, and the types
without references (`PlainRefs`) are none of the types that have some; neither the
company nor a price level confirmation has a delete button (`EntityDeletion`); there is
a source, and an import has at least one (`EntityDeletion`, `FinancialImports`); what is
pasted is a text, no period is the empty string, and `ForeignCompany` is another
company. Of what is calculated from (`CalculationsAssumption`): there are finitely many
events, rows, accounts, groups and book years; years and amounts are integers and the
prices of rows not negative; what is edited or pasted is of its type. `Absent`, `Gap`,
`None`, `Nothing` and the like are none of the values they stand beside.

**The arguments.**

*Write path.* `StoredSnapshotValid` alone is not inductive: a request in phase
`update` will write a snapshot computed earlier. `StagedIsCurrent` says what such a
request knows: if the revision it expects is still the stored one, its snapshot is
the batch applied to the stored one and was accepted against it; otherwise its UPDATE
will change nothing. Revisions only grow, so this survives every step of the others.
`OutcomeIsKnown` carries what a request learned from its UPDATE to its answer. The
refinement follows because the only step that changes the row, `Update` of a request
whose revision is current, is `AdminLog!Commit` of that request (`RowMoves`). The
trail's two theorems are invariants on top: a batch has at most one operation per row
(`OneOperationPerRow`), so its entries close exactly one link of each row's chain.

*Tabs.* A step of a tab is a step of the clients and the server of `AdminCommit`, or
changes nothing there (`TabsRefine`), so everything proved of the write path holds below
the tabs. `TabInv` adds that what each tab shows, fetches or has open, and what each
request was filled from, was stored. The trail only grows, so what was stored stays so;
and a request that commits expected the revision its tab showed, so a form filled from
that very workspace replaces what is in it.

*Rules.* `CompanyValid`: what is stored breaks no rule of `DocValid`. Only batches whose
result is valid are stored, so the work is in what validity is good for: the drafts of
any valid content can be approved, and the rows that its live rows name are there.
That the batch is its loop is a fact about any content: `Progress` says that after i
operations the loop has the contents and the entries of the batch of the first i. The
error of an operation depends on those before it only, and one that names a row a second
time is refused, so each row a later operation reads is still as it was stored.

*Deletions.* The browser computes the cascade round by round. A round that adds a row
uses one up, and there are finitely many, so the rows that go are closed: a row that
names one of them and cannot be cleared of it goes too. Hence nothing that stays names
what goes, and what stays is valid once cleared, which is what the server asks.
Nothing goes without need: each row that goes but the target was put in the queue by
another that goes, which it names however it is cleared, and a row that is rewritten
names one that goes. `DeletionInv` says that an open confirmation is the plan of the rows
as they are (no one else saves while it is open; what happens then is `AdminBrowser`).

*Imports.* `ImportsInv`: a tab that has seen the stored revision shows what is stored, a
preview made at the revision seen warns of what is true of the ledger shown, and every
account of a row is there. What an import wrote carries its sources, so undoing it
finds just those rows, and takes the accounts that are left with none.

*Statement.* `StatementInv`: a field never edited shows what the tab shows, which is what
is stored if the tab has seen the revision; a source never touched is the one of the
period in the field.

*Side by side.* A step of `Workspace` or `Server` is a step of the part at work and a
stutter of the others, so each part's invariant is kept; the rules, whose rows are those
of the deletions, keep the deletions' invariant because no confirmation is open then.

*Review.* `DecidedAsReviewed` speaks of the trail only; `ReviewInv` adds what
proposals remember: the fingerprint of an approved event, which is that of `basis`.
`PendingNeverStuck` needs `Checked`: everything the diff makes of a candidate
satisfies the validation of the decision.

*Liquidity.* Loop invariants: `PathInv` says what the rows of the walked years are,
`CollectionInv` that the requirement so far is enough for the years seen and that one
of them needs all of it. The rest is arithmetic on the finished loops; maxima and
minima of sets come from `SetLemmas`.

*Calculations.* Their data is edited freely, so the types of the data are the
invariant, with two facts that are not types: an entry names an account there is, and a
stored sheet was made by the parser. The rest is what a sum over a set is.
`SumFunctionOnSet` of the community modules adds in an order it chooses, so nothing
can be said of a sum before it is known that another order gives the same. Among the
sets of elements for which it would not, there would be a least one (`LeastSubset`), and
taking two elements out of it in either order leads to a smaller one (`SumTakes`). What
a sum over a union is, over disjoint parts and under other names, follows (`SumUnion`,
`SumOfParts`, `SumRenamed`). Then: the approved rows of a scenario are the disjoint union
of those before the horizon, of one part for each of its years, and of those after it,
each split into priced rows and gaps. A year's margin is income less the costs of its
groups, and each account that states a figure belongs to one group. The browser goes
over accounts where the server goes over groups, and both sum the same set. A
comparison has a row for each item on either sheet, so the changes of its rows add up to
the difference of the totals. And where all amounts of a projection are whole cents,
rounding each year changes nothing, so that the total of the years is the horizon's and
`validatedCostMap` accepts it; without that condition it does not hold (see the
observations).

*JWKS.* Nothing in the code forbids two fetches at once; that there is one is a matter
of time. A fetch that is not forced began without a fresh set, and none comes before
it ends; a forced one was charged when it began, and ends within the interval. With
`FlightInv`, sets are stored in the order they were asked for (`KeysInv`), and a set's
age counts from the moment it was asked for, whence `OldKeys`. For `NewKeys`, `RefreshInv`
says what a charge of the unknown-key interval has to show for itself: a key a fetch did
not find was published after that fetch began, and a charge that no forced refresh is
behind any more was made no later than a failure, or no later than a fetch's duration
after any key that the cache lacks was published. A refusal happens within the interval
of a charge, hence in time or near a failure.

*Requests.* Between the steps of a request grants come and go and the clock goes on.
`RequestInv` says what a request has shown so far; `HeldInv` that a grant in force now
counts as held by every request open now, so that what authorizes a request was held
while it was open, however soon it is revoked. `PoolInv` orders the shutdown.

*Seed.* A run decides by a workspace read long before. `ReadInv`: revisions only grow,
so either its revision is still the stored one and the water heater still absent, or
the save will be refused.

*Session.* `SharedInv`: the promise is there just as long as a refresh is. `GoodInv`:
the token of a refresh is unspent, and so is the session's unless the service has
granted it a new one the tab has yet to hear of.

*Migrations.* `RunInv` says what a run has applied and skipped and that a row stands
behind each, `HolderInv` that nothing of it is on record before it commits; both last
because the ledger changes only when the holder of the lock commits. For the
refinement, `LedgerInv` says that the versions on record are 1 to n, `PlanInv` that a
run's schema is that of the ledger and its own rows; then `Commit` of a run that has
applied something is `MigrationLedger!Migrate` of its list (`CommitMigrates`), and all
other steps stutter.

**Only model-checked**: liveness, since fairness and ENABLED are beyond the prover:
`EveryRequestEnds`, `EveryCallEnds`, `EveryRunEnds` and the part of `NobodyIsCutOff` by
which a shutdown ends. Every other property of a run that passes is stated by a theorem
above. The four findings are counterexamples, and TLC's.

## 5. Not modelled

- Rendering, wording, labels, percentages and formatting of the browser; the forms of
  single entities, which repeat the server's validation field by field and send one
  operation each. Most of the lines of `adminOperationPayloads.js` and `app.js` are
  these.
- HTTP headers and the parsing of bodies, environment parsing, the text of a JWT and
  its signature, the splitting of SQL text: functions of one string without state.
- SQL adapters (type conversion of rows), fixtures, the Cloudflare worker (one pool and
  one key provider per request: its interleavings are those of `AdminCommit`).
- A revocation between the grant's look-up and the save is in `AdminCommit`, without a
  property: the code checks authorization once and promises no more.
- A key endpoint whose body never ends, and colliding fingerprints: nothing bounds the
  one or forbids the other.

What could come next: the Worker's `inject` path next to `HttpApi`.
