# PriceGrid in TLA+

PriceGrid keeps the prices of many companies: products, price lists,
marketplaces, prices with an audit trail, discounts, and a catalog that users
read and export. This directory models the parts of it where several actors
change the same state, checks them with TLC on small instances, and proves the
results that matter most with TLAPS for every instance.

Paths below are relative to the repository: `BE` stands for
`src/backend/prices-api/src` and `FE` for `src/frontend/prices-admin/src/app`.
`PROJECT.json` maps every definition to the lines it models and lists components,
runs, mutants, findings, hazards and theorems.

    tlc -workers 2 -config MCExportQueue_slow.cfg MCExportQueue
    tlapm ExportQueueProofs.tla

## 1. The system

Three kinds of processes share one MySQL database (through Prisma): the API
server (Express, one process that interleaves requests at every `await`, or
several of them), any number of export workers (`BE/export-worker.ts`), and
operators' scripts. Browsers run an Angular client. Nothing but the database,
the export directory and the cookies is shared.

| component | state | operations | hard behaviour | what makes it correct |
|---|---|---|---|---|
| Export queue (`BE/services/export.service.ts`, `export.storage.ts`, `BE/export-worker.ts`) | `export_requests`, files | request, get, download; poll, claim, run, complete, requeue | workers that race, crash, outlive a ten minute lock; errors and retries; revoked access; expiry | a job has one worker, is settled once, a completed row describes a whole file, no row is stranded, access is checked at download |
| Sessions (`BE/services/auth.service.ts`, `BE/repositories/auth.repository.ts`) | `refresh_tokens`, cookies | login, refresh (rotation, reuse alarm), logout | concurrent refreshes of one cookie, lost answers, logout or alarm racing a refresh | a session is not lost by rotation, ends by logout and alarm, one usable token, no false alarm |
| Pricing engine (`BE/services/pricing.engine.ts`) | none | choose a discount, calculate an amount | precedence and ties, rounding, floor | the best applicable discount; never negative, never above the base |
| Prices (`BE/services/price.service.ts`) | `prices`, `price_history` | preview, create, update, delete | reads before the transaction that writes; discounts, references and days that change meanwhile | the trail records every amount and continues without a gap |
| Discounts (`BE/services/discount.service.ts`, validators) | `discounts` | create, partial update, delete | partial bodies merged with a row that may have changed | exactly the reference of the scope, own company, sound values |
| Generic CRUD (`BE/common/crud`) | the row of any model | list, get, create, update, softDelete | check, then write by id | as for its users |
| Access and catalog (`BE/services/price-list-access.service.ts`, `price-catalog.service.ts`, `price-list.service.ts`) | assignments, relations of lists | replace assignments, set products and marketplaces, read the catalog | delete and insert in a transaction after a check outside it; a read of seven statements | nobody reads a list he has lost; a read is of one company |
| API keys (`BE/services/api-key.service.ts`) | `api_keys` | create, update, revoke, resolve | resolution racing revocation, derived expiry | a revoked key never comes back |
| Users, roles (`BE/services/user.service.ts`, `role.service.ts`, `BE/middlewares/auth.ts`) | `users`, `roles`, `role_permissions` | CRUD, assign permissions | effect on requests and sessions under way | system roles stay, the next request sees the change |
| Companies, currencies, products, marketplaces, dashboard, serializers, HTTP layer | rows or none | CRUD, reads, formatting | none of their own | |
| Client session (`FE/core/interceptors/error.interceptor.ts`, guards, session store, shell) | access token, user, active company, language, refresh in flight | login, logout, 401 with refresh and replay, navigation through guards, switch of company and language | several 401 at once, a refresh that outlives a logout or a switch, guards that redirect | every call and navigation ends, no session means the login page, a screen offers what the API allows |
| List pages (`FE/shared/crud-page.component.ts`, `FE/features/*`) | rows shown, query, form, options, panels | load, search, sort, page, edit, preview, save, delete, assign | answers that overtake each other and outlive modals and companies | what is shown is what was asked for last; what is saved is what was shown |
| Autocomplete (`FE/shared/ui/async-autocomplete.component.ts`) | text, id, suggestions | type, select, retry, clear | delay, cancellation, late labels | the id belongs to the text |
| Catalog page (`FE/features/price-catalog`) | selection, rows, exports | select, search, page, request and watch exports | a cascade of loads; an interval that stops by itself | the selection holds together; a finished export is shown |

Components meet in few places. A price is calculated by the engine from the
discounts and the day (`PriceWrites` extends `PricingEngine`). The catalog asks
the same engine. Exports ask access twice, at the request and at the download,
and the catalog when a worker runs them. Sessions read the status of users, and what a
user may do hangs on the role that `AccessAdmin` writes and `CatalogAccess` reads. The
client meets the server through the cookie, status codes and the bodies that its forms
send and the validators judge: `ClientSession` has the first two, `RecordForm` the third.

## 2. Modules

| module | models | kind |
|---|---|---|
| `ExportLifecycle` | what a user is promised of an export job | abstract specification |
| `ExportQueue` | rows, files, workers, downloads | component; implements `ExportLifecycle` |
| `AuthSession` | token rows, cookies, requests | component |
| `PricingEngine` | selection and amounts | operators |
| `PriceWrites` | a price, its history and the requests on it | component over `PricingEngine` |
| `DiscountWrites` | a discount and the requests on it | component over `PricingEngine` |
| `CatalogAccess` | rows of lists and marketplaces, relations, assignments, roles, and the requests that read and write them | component |
| `AccessAdmin` | API keys, roles, users and the requests on them | component |
| `Permissions` | seeded roles, what routes ask for, what screens ask for and offer | operators |
| `ClientSession` | the session of the dashboard in one browser | component over `Permissions` |
| `Screen` | what screens share: the user, calls that overtake each other | base of the next six |
| `ListPage`, `RecordForm`, `AssignmentPanel` | the list page, its forms, its panels | components |
| `CatalogPage`, `ExportWatch`, `Autocomplete` | the catalog, its exports, the search field | components |
| `DashboardScreens` | a visit to one of the six | composition |
| `MC*` | instances for TLC | |
| `*Proofs` | theorems and their proofs | TLAPS |

In all of them **a step is the code between two awaits**: one database statement
or transaction, one file operation, one answer. Between two steps of a handler
anything of any other actor can happen, and a handler may stop for good at each of
them (`Halt`, `Drop`, `Fail`). So interleaving in one event loop, several server
processes and crashes are all covered by the same actions. A definition whose
name has an underscore (`Claimable_QueuedOnly`) is a mutation: a plausible bug of
the operator below it, used to check that a property would notice.

**ExportQueue.** `Poll`, `Claim`, `CreateFile`, `WriteFile`, `Complete` and
`Catch`, `RequeueOrFail` are `processPending` in order; `LoseClaim`,
`FileExists` and `Throw` are its other ends. Statements that update by id take no
guard, as in the code. The time between `locked_at` and now is abstracted to
"fresh" or "stale", which is all the code asks, and a lock is identified by the
attempt that took it, since each claim increments `attempt_count`. A lock goes
stale by `AbandonedLockAges` when its worker is gone and by `OutliveLock` when it
is merely slow. Reading the catalog and serializing are part of `CreateFile`: they
change nothing, and `Throw` covers their errors. `assertExportInput`, at the request and
at the download, is two statements, `CheckList` and `CheckRelation`, each of which reads
what is true at its own moment (`accepts`); `ChangeAccess` is everything that changes
either, at any time. `granted` is a history variable: the checks that would have passed at some moment since
the call began.

**AuthSession.** `FindToken`, `CheckUser`, `Issue`, `Retire`, `Respond` are
`refresh`; a login enters at `Issue`. `root`, `delivered`, `loggedOut`, `alarmed`,
`closed`, `overlapped` and `lost` are history variables that no action reads. The
family of a token is not a column: `root` records what rotation means by it.

**PriceWrites.** `Update` reads `existing`; `CheckReferences`, `Preview` and
`Write` follow with statements in between. `Write` updates by id, adds history if
the amounts differ *from the row that was read*, and does not look whether the
price was deleted. Amounts are integers of a tick that is a tenth of a cent, so
that rounding is real; a percentage is an integer. The active discounts are read
and the day is taken in one step; the code has the time zone's row in between.

**DiscountWrites.** The validators decide what body may enter; `Merge` is the
merge with `existing`, the check of the reference and the normalization of the
scope columns; `Check` and `Write` are the two steps of the generic update. Names
(a unique key) and priorities are left out.

**CatalogAccess.** A read is `Read` (the user and his role), `FindPermissions` (what
the role grants, then `resolveTenant` and `requirePermission`), `AssertVisible`, and
one step for each further statement of `PriceCatalogService`; a replacement is its
check (`Assign`, `AssertPriceLists`; `Relate`, `AssertAllExist`) and its transaction;
`Update` and `Write`, `Delete` and `SoftDelete` are the two statements of
`TenantCrudRepository`, which writes by id. `held` is a history variable: the
conditions that have held at some moment since the request arrived. What a list or a
marketplace is called, the search and the pages of the result are left out, and the
amounts belong to `PricingEngine`. Administrators' requests enter when they are authorised.

**AccessAdmin.** A request is a body and the next statement: `Check` is any read or
test (`rename` and `custom` look at the role, `slug` is `assertSlugAvailable`, `get` and
`exists` are the two lookups of an update, `resolve` and `touch` those of
`resolveByRawKey`), and one action for each statement that writes, which looks at
nothing again. The unique index (`IndexAdmits`) does not constrain roles of no company,
as a null is never equal to another. `ended` is a history variable.

**Permissions.** `SystemRole` is the seed, `Needs`, `ForGlobalAdmin` and `NeedsCompany`
the routes of the API, `NavItems` the sidebar, `Opens` what a screen asks for when it is
shown, `Offers` what its buttons and panels may ask for.

**ClientSession.** `calls` holds everything sent and not yet landed; `Serve` is the server,
the `...Lands` actions are the callbacks. `Show` is the end of a navigation, `Guards` one
evaluation of the guards. One `load` stands for those a screen sends together. `Follow`
is a link, of the sidebar, which needs a user, or of the dashboard, which does not
(`Links`); `Browse` is the history of the browser, which leads anywhere. Both supersede
the navigation under way, with the refresh of its guard, the one to the login page
included. `Serves` is what the API asks of a call: a permission, and a company where
`requireTenantContext` stands before the route. A replay puts the company of now over the
one the call was sent with, and leaves that one where there is none (`HeaderAgain`).
`shownTo`, `turned`, `deselected` and `astray` are history variables. The
refresh token's own life is `AuthSession`; here a refresh is granted or refused. `Kept`
takes calls out of the sequence by their rank instead of recursively, so that it can be
proved about; it is what `SelectSeq` would give.

**Screens.** A component is created when its screen is entered and destroyed when it is
left, so a behaviour is a visit to one screen and `DashboardScreens` is a disjoint
composition over the shared company. A call carries what it was asked with; `Landed`
marks those of the same subscriber that it overtakes as late. In `ListPage` a write is
carried out (`WriteServed`) apart from its answer (`SaveLands`, `DeleteLands`), which may
be lost. `CatalogPage` names what is shown by what it was asked for. In `ExportWatch`,
`Tick` is one run of the interval. In `Autocomplete` a search is `Live` while somebody
listens to it. In `AssignmentPanel` `from`, `touched` and `crossed` record where the ticks
come from and are read by no guard. `RecordForm` has the controls of nine screens as
`Fields`, `ToForm` and `Mapped` for their mappings, `FormErrors` for what a form and
`Refused` for what the API's validator does not accept, `Parsed` for what the validators
make of a value and `Kept` for what service and column do. A value is empty (`NoText`, the
empty text of a control), null (`None`) or the representative of a kind that some rule
tells from the others: with blanks around it, of nothing but blanks, in another case, too
long, too short, not of its format, with fractions of a cent, not an integer, negative,
in a year of more than four digits, which the day of an API key, no `dateOnlySchema`, leaves
out. `Misfits` are the kinds that the schema of a field refuses by itself.

## 3. Runs

| run | instance | distinct states | shows |
|---|---|---|---|
| `export_slow` | 1 job, 2 workers, 1 caller, 3 attempts, 1 halt, 2 slow locks, 2 errors, 3 access changes | 419 k | safety when everything goes wrong, overtaken workers included |
| `export_prompt` | 2 jobs, 2 workers, 1 caller, 2 attempts, 1 halt, 1 error, no slow lock | 103 k | every job is settled; the queue implements `ExportLifecycle` |
| `auth` | 1 user, 2 browsers, 2 requests at a time, 3 tokens, 1 expires | 2.5 M | what rotation, alarm and logout guarantee |
| `prices` | 2 requests at a time, 3 in all, 3 competing discounts, 2 days | 233 k | trail, amounts, choice of discount |
| `discounts` | 2 requests at a time, any number, 10 bodies | 580 k | what partial updates keep |
| `catalog` | 2 companies, 2 lists, 1 marketplace, 1 user, 2 roles, 2 requests of which 1 reads | 1.2 M | a read answers what was allowed since it arrived, of one company |
| `access_admin` | 2 companies, 2 keys, 3 roles, 2 users, 2 requests at a time, 3 in all | 565 k | a revoked key stays closed; roles and slugs stay the company's own |
| `session` | 1 browser with the cookie of a user of any seeded role or none, one logs in, 1 link or entry of the history, 2 actions in all, 1 call left under way | 205 k | calls and navigations end, where a session ends, whose language is shown, screens and API agree |
| `screens` | a visit to each screen: 3 to 6 actions of the user, 2 companies | 399 k | what is shown, offered and saved while answers overtake each other |
| `export_recovery`, `price_trail`, `key_removal` | the smallest instance, or that of `access_admin` | | the first three disagreements of section 5 |

Why the bounds suffice. In `export_slow` two workers and two slow locks are what it
takes for one worker to be overtaken, overtake again and meet its own file; three
attempts reach the last one both by error and by reclaim; three changes of access
take it away, give it back and take it away again around the two checks of a download. `export_prompt`
has two jobs because a worker that takes one must not starve the other. In
`auth` three tokens are a login and two rotations of it, or two logins, with a request
of each browser under way; every property speaks of at most two
tokens and two requests. One price, or one discount, is enough because requests on
different rows share only what they read. In `prices` three requests are a create
and two updates that overlap; the three discounts tie on priority, end, start and
exceed the price. In `catalog` one read suffices because reads change nothing
another one could see (`Readers`), and the rows of one company change (`Managed`) because
those of the other only have to be there to be answered by mistake; the two sets
of permissions (`Grants`) differ in all three, so that each can be gained and
lost. The theorems of section 6 have none of these bounds.

In `access_admin` three requests are what it takes to pass a check, undo it and
use what was checked; two live in the same company while a third row is free to be
created. In `session` the user who logs in is the one with the fewest permissions, so
that guards redirect him; the page may be loaded with the cookie of any role, and then
the session, its refreshes and up to two actions of whoever sits there overlap. He goes on
while at most one call is under way (`MaxCalls`): with the calls that his last action
adds, and those that screens and guards send by themselves, that is what it takes for
answers to overtake each other. `Hasty` leaves out that he logs in while a link or the history
is already leading away from the login page. The theorems have neither bound.

In `screens` the bound is on what the *user* does (`MaxOps`); answers come in every
order. Three actions on the list and the catalog make two calls overtake each other with a switch of
the company between them; four on the exports are two requests, a switch and one back;
six in the field are type, select, type again, leave; five in a form are open, change
three fields and save, and the forms of all nine screens are met. `MaxPolls`
bounds calls of the interval under way: with two, an answer is overtaken by the next.
Rows are three with pages of one, so that there is a next page to lose. `DayBefore` places
the browser west of Greenwich, where the day of an instant in UTC is another one.

Symmetry is used where ids are only compared for equality (workers, requests,
browsers, users), never with a temporal property, and not for tokens, jobs or
discounts, which have an order.

**Fairness.** `FairSpec` of `ExportQueue`, for `EveryJobSettles`: `WF(WorkerStep)`: the loop of
`export-worker.ts` never stops by itself and each await in it returns or throws.
`WF(Restart)`: a worker that ended is started again; the repository leaves this to
the operator, so this is an assumption on the deployment, and without it a single
exception in a `catch` block would end all exports. `WF(AbandonedLockAges)`: ten
minutes pass. Nothing is assumed of users, administrators or of the order in which
two workers win a claim. `Fairness` of `ClientSession`: calls are answered, if only by an
error, and the router goes on (`WF(Answer)`, `WF(Guards)`); which answer, is left open.
`EveryCallSettles` leaves out a router that is sent from a route to the same route again
and again (`GoesRound`, section 5): such a page hears of no answer.
`ExportWatchFairness`: the first call for exports and the request are answered, the
interval runs, and jobs finish, which is `EveryJobSettles`. Nothing is assumed of users.

## 4. Properties

Each is stated in its module with the code it is about; the ones that need a
condition say it. *While no worker outlives its lock*: `OneWorkerPerJob`,
`KeepsLifecycle` — with slow workers the code really can turn a completed row back
into a queued one, because completing and requeueing are updates by id; what still
holds then is that no row describes a file it does not have (`CompletedHasItsFile`,
`DownloadsAreWhole`), and the reason is the flag `wx`, which also causes the first
finding below. *Requests of a browser do not overlap*: `OneUsableToken`,
`LogoutEndsSession`, `NoFalseAlarm` — the client sees to most of this with a shared
refresh; that of a guard is another one, and the two overlap when the user goes back from the
login page while a call from before meets its 401 (`RefreshIsShared` says how far it goes).
*Requests on a row do not overlap*: `TrailIsComplete`, `DiscountsOnlyLower`,
`ScopeMatches`; `EveryAmountIsRecorded`, `ReferencesAreOwn` and what is only proved
(section 6) are what remains whatever overlaps.
`RevocationBlocksDownload` asks of a download that delivers that each of the two checks
would have passed at some moment since it began, not both at one: between the two
statements access may go and a relation come, and the file is served though list and
relation were never both there.
No property of `CatalogAccess` needs such a condition; `AnswersWereAllowed` asks that each
permission was there *at some moment*, not all at one, since no two statements of a read
see the same data. `AccessAdmin` has no such condition either.

The client never cancels a call but in the search field, so a property of what is shown
has to say *unless the last answer had been overtaken*: with two loads under way the
older may land last, and the page then shows what nobody asked for any more.
`SettledPageIsCurrent` and `SelectionHoldsTogether` state what is true otherwise: that
every way of changing the query, the selection, the company or the rows asks for what is
then shown, in an order of assignments where the last call has the last values. `late`,
`astray` and `missed` are the history variables of these conditions. `UntouchedSaveIsHarmless`
excludes the saves that really can wipe assignments (section 5).

`SavedAsShown` claims of what is entered that the form shows it again, tidied as the API
does (`Tidy`): without the blanks around a name, an email or a slug, in lower case for an
email, to two decimals for an amount; descriptions and notes to the letter. It names four fields of
which even that is false. `FormsMirrorTheApi` claims the rules that form and API both mean
to have: what must be there, signs of numbers, the limit of a percentage, the references and
dates of a discount. It names the kinds of values no form looks at (`LeftToTheApi`) and three
fields. Exceptions are divergences of section 5, and neither property says anything of them.

`SessionEndsAtLogin` and `NavigationSettles` leave out a user who turns from the way to the
login page by a link or by going back (`turned`): no guard stops him. `ScreensAreServed` is of the seeded
roles: a role made by hand may hold one permission without the others its screen needs.
It claims that neither a permission nor a company is missing, but for a global
administrator who has deselected the company on the screen he is on, and for the
currencies of the form of companies, which he may open before there is one.

## 5. Where the documentation and the code differ

1. *Exports "recover safely from worker failure".* A worker that ends after its
   file was created leaves it there, and every later attempt fails on it
   (`export_recovery`).
2. *"Every change to a price's base or final value writes a price_history row ...
   recording old/new values".* Overlapping updates write old values that were
   not the price, or change it without a row (`price_trail`).
3. *"`DELETE /api-keys/:id` (soft delete)".* The generic soft deletion writes status
   `inactive`, which the enum of API keys does not have: every removal ends in an error
   and the key stays (`key_removal`). Revoking works.

The models also show the following, each in a few steps; no run is kept for them.

- *"Retry transient failures up to max_attempts".* A stale lock is reclaimed however
  often that has happened (`BE/services/export.service.ts:83`).
- *"Reused tokens invalidate the family".* A refresh already past its check survives the
  alarm and issues one more token (`BE/services/auth.service.ts:131`).
- *"Exactly one scope FK must be set matching applies_to".* Overlapping updates separate
  the two, each merging the row it has read (`BE/services/discount.service.ts:157`).
- *"percentage ≤ 100".* An update of the value alone is compared with nothing; the
  engine's floor keeps the price from going negative.
- *"An empty password means 'keep the current one'"* (`FE/features/users/users.component.ts:167`):
  the mapping that drops it is not bound in the template, so an edit of a user
  without a new password sends `''` and is always refused. The same holds of price lists:
  one without a currency cannot be saved (`FE/features/price-lists/price-lists.component.ts:134`).
- The forms leave to the API the format of emails and slugs, blank texts (but the name of
  a discount), lengths, passwords that are too short, priorities that are not integers and
  years of more than four digits (`FE/shared/crud-page.component.ts:415` against
  `BE/validators/access.validators.ts:40`): such a form is sent, and refused.
- What is saved is not always what was typed: emails are lowercased
  (`BE/services/user.service.ts:95`), names trimmed by their schemas, amounts rounded to the
  two decimals of their columns. The forms show it differently when they are opened again.
- A key's expiry is shown in local time and saved as UTC: west of Greenwich each edit
  moves it a day back, and drops all scopes but the first and the time of day
  (`FE/features/api-keys/api-keys.component.ts:87`).
- The form of a price lets list and marketplace be changed in an edit and does not send
  them (`FE/features/prices/prices.component.ts:157`); it lets a range of dates that ends
  before it starts through, which the API refuses.
- The check of a discount looks at the controls, hidden ones included: after a change of
  scope the reference of the previous one makes the form invalid with the error on a
  field that is not shown (`FE/features/discounts/discounts.component.ts:55`).
- *"Saving is disabled while list options load"* (`agent/PRICE_CATALOG_ACCESS_AND_EXPORTS_PLAN.md:417`).
  The access panel of a user can be saved before his lists have landed, as its button only waits
  for a save: all of them are taken away (`FE/features/users/users.component.ts:203`).
  The panel of a role keeps the ticks of the one before it, or none, when its load fails (`FE/features/roles/roles.component.ts:190`).
- The catch behind a replay also meets the errors of the replayed request: whatever it
  fails with, the session ends (`FE/core/interceptors/error.interceptor.ts:58`).
- A change of language that lands after a logout puts the user back without a token
  (`FE/core/services/session.store.ts:41`).
- Without a session a page may stay where it is: after `clear` and until the navigation to
  the login page ends, a link of the dashboard or the back button supersedes it, and no
  guard of a child route looks at the token; `permissionGuard` sends who may read nothing
  to the dashboard, where he is (`FE/core/guards/permission.guard.ts:16`).
- Who may read neither catalog nor dashboard, nobody included, is sent by the guard of the
  dashboard to the dashboard, again and again (`FE/core/guards/permission.guard.ts:16`).
- A guard's refresh is not the shared one (`FE/core/guards/auth.guard.ts:21`): back from the
  login page it can present the cookie while a call from before has it presented as well.
- The dashboard never unsubscribes from changes of the company and goes on loading after
  it was left (`FE/features/dashboard/dashboard.component.ts:59`).
- A global administrator without a company meets a 401 of `requireTenantContext` on
  the screen of companies, whose form asks for the currencies, and wherever he deselects the
  company; the client answers it by a refresh, a replay and the
  end of the session (`BE/middlewares/tenant.ts:51`).

Met in `CatalogAccess`, where the models say what the code does and no property is stated
against it: `assertExportInput` accepts a marketplace that is inactive or deleted, for
which the worker's own `list` then fails at every attempt; `setMarketplaces` accepts
inactive marketplaces, as `assertAllExist` looks only at the company and at deletion; a
user with read-all reads an inactive list by its id though it is not offered to
him; an update that overlaps a deletion may leave the deleted row with status `active`,
which is why every query has to look at `deleted_at` as well (`SelectorIsReadable`); the
second check of `assertUser`, for a global user, can never fail after its query.

## 6. Proofs

All theorems are of `Spec` for all values of the constants under the module's
`ASSUME`, with no bound on workers, jobs, browsers, requests, tokens or payloads.

- `ExportQueueProofs`. The claims are not inductive: what a row's checksum describes
  depends on who may still write the file. `IInv` adds that an attempt is held by at most
  one worker and is not above the row's count (`AttemptsOwned`), that a file being
  written, or just stored, is the one of its worker's attempt (`FilesOwned`), that the
  decision to give up was taken on a count that has only grown since, that a download
  works on a row that was once completed, that a row is requested by one call (`RowsExist`)
  and a call has seen what it has passed (`GrantsRecorded`), and that without slow workers a
  worker at work holds the row's current, fresh lock (`PromptWorkersHoldTheLock`). From it follow
  the six safety properties and, with `MaxSlow = 0`, that each step is a step of
  `ExportLifecycle` or a stutter (`ImplementsLifecycle`).
- `AuthSessionProofs`. `IInv` follows a token through the request that issues it: until
  the answer arrives nobody else can present it (`NewTokenIsPrivate`), so retiring the
  old one leaves the new one to the family (`NewTokenServes`), and a refresh past the
  revocation check belongs to a family no alarm has closed (`RacersAreOpen`).
  Its second half adds `WInv`, twelve conjuncts about browsers that wait: a request
  presents the cookie the browser still has, the cookies of a family are in one jar, and
  a valid delivered token of a family is the cookie.
- `PriceWritesProofs`, first the engine. Rounding to a multiple of the unit is
  idempotent, and a discount yields a price between zero and the rounded base; integer
  division is handled through the inequalities that define it. The discount chosen is the
  least of its scope in three keys, each taken as the least of a set of natural numbers
  (`FirstCandidate`), so that there is one however many tie (`BestDiscountAppliesAlways`).
  Then the price. An update only writes back amounts that it has read or records
  (`SeenIsRecorded`), and while requests do not overlap what was read is still the row
  when the transaction runs (`OneAtATime`, `SeenIsRow`), so that entries join up.
- `DiscountWritesProofs`. Between check and write a request holds one reference, of its own
  company, in the column of the scope it has merged (`ScopeMerged`); that the column fits
  the row's scope needs `SeenIsRow`.

- `CatalogAccessProofs`. `IInv` says of each request, by the statement it has come to,
  which arguments it has (`Fits`), which conditions have held (`Known`) and that what it
  found is its company's (`Own`). A request that does not take a step keeps all of it
  (`Bystander`): what has held stays in the history. The one condition that looks at
  the present is a reader of all lists: between its permission and `assertVisible`, a list
  that exists now existed then, because deletion is final (`NoneReturns`, proved together
  with the invariant).
- `AccessAdminProofs`. A request writes by id what it has read before, so `IInv` says of
  each what nobody else can have changed since: that a role it is about to rename is of the
  seed and keeps its slug, or has a company and a slug no role of the seed has (`SeedStays`,
  `Custom`), that a role about to be given exists and is the company's or the seed's
  (`Fits`; a removal does not undo it, as rows stay). A revoked key has status `revoked`,
  and no statement but the revocation writes a status (`KeysRevoked`).
- `ClientSessionProofs`. `SessionInv` holds the screen and the session together
  (`ScreenInv`): whoever a screen was shown to passed its guards (`EntersAs`), had a
  company if he needs one (`CompanyOk`, until he deselects it), and a page
  without a user is at the login page, on its way there, or being loaded (`WayOk`, until he
  turns back). What is under
  way is part of it, because an answer brings the session it was given: what a call brings
  is what the server has unless the call is marked as overtaken (`CallsOk`), and the
  language can only be another one than the user's while a change of it is under way
  (`LocaleOk`). `ScreensAreServed` is then a fact of the seed: of each screen, what its
  guard asks for brings with it, in every seeded role, all the screen asks for, and of the
  companies that they ask for nothing of a company but the currencies (`CompaniesAsk`).
  `RefreshInv` adds that of each kind of refresh at most one is under way (`AtMostOne`), and
  the shared one is there as long as a call waits for it (`Awaiting`). Each step but the
  401 itself and the guard of the shell takes calls away or adds ones that neither refresh
  nor wait (`Keeps`). This is the dashboard's side of the
  condition of section 4 that the requests of a browser do not overlap: of the shared
  refresh there is never more than one, nor of a guard's; one of each can be, and a
  refresh and a logout, or two pages of one browser.
- `DashboardScreensProofs`. The calls of a screen are a sequence in the order sent that
  shifts when one lands, so every property needs to say where the newest call is: it is
  under way and asks for what the user sees now, or it has landed and all others are late
  (`NewestList`, `NewestOptions`, `NewestRead`, `OnlyLastLive`). Lemmas about appending,
  marking and removing a call are proved once, and each screen's steps are classified by
  what they do to its calls (`ListSteps`, `WriteSteps`, `OptionsSteps`, `FieldSteps`);
  the invariants `WriteInv`, `OptionsInv`, `ListInv`, `PanelInv`, `IdInv`, `SuggestInv`,
  `CatalogInv`, `FormInv` and `WatchInv` are shown class by class. The panel needs that its one save
  is known to a panel opened meanwhile (`SavesCross`), the field that an id without its
  label stands only where nothing has been searched for (`AsOpened`), the catalog page
  that what is missing of the selection is still to be asked for by a call under way,
  the forms that what they hold are values of their own fields (`IsValues`), among them
  only kinds the field can have (`Apt`), and the
  interval that when it has stopped nothing under way can take what it has brought from
  the screen (`StoppedWith`).

Some theorems state what no run is spent on: the types, `NeverStranded`,
`SuccessorsStayInFamily`, `OldAmountsWereNew`, `AtMostOneReference`,
`StoredDiscountOnlyLowers`, `DeletedStaysDeleted`, `SelectorIsReadable`, `IntervalGoesOn`,
`RefreshIsShared`.

The assumptions on constants that these proofs use, and why the code justifies them:
ids of discounts are a primary key, their priorities are not negative and a price has no
null among its references (`DiscountAssumption`, by the schema and the validators); a
screen declares finitely many sources of options (`ListPageAssumption`); the lists and
marketplaces the API offers come as arrays (`CatalogPageAssumption`); and `None`, which
stands for null or for no answer yet, is none of the values, paths and answers it is
distinguished from.

Every safety property of a passing run, invariant or action property, is stated by a
theorem. Only model-checked is what needs fairness, which is beyond the prover:
`EveryJobSettles`, `EveryCallSettles`, `NavigationSettles` and `FinishedExportIsShown`.
Of three of them the part that needs no fairness is proved: a job in processing can be
claimed again (`NeverStranded`), a call that waits for a refresh has one to wait for
(`RefreshIsShared`), and the interval is not cleared before the export is shown
(`IntervalGoesOn`). What TLC adds to the theorems is that every action happens, that the
conditions of a property are met, and that the mutants of each property break it.

Assumed: each database statement and transaction is atomic and durable, `wx` creates
a file or fails, tokens are not guessed and their hashes do not collide, clocks of
the processes agree within the ten minutes of a lock.

## 7. Not modelled

Contents and formats of exports; time zones and calendars (days are numbers); binary
floating point (amounts are exact, `Math.round` is halves up); names, notes and
descriptions but for whether there are any; translations, columns and layout; the
JSON of errors; access tokens, which are verified without state. A completing update
that commits but whose reply is lost is not modelled either. Two browsers that edit the
same row meet in the server's models, not in `ListPage`. Serializers, the counts of the
dashboard, configuration and logging keep no state anybody shares. The components marked
`not_modelled` in `PROJECT.json` say why.

## 8. Plan

Done: 1 `ExportQueue` with `ExportLifecycle`, 2 `AuthSession`, 3 `PricingEngine`
and `PriceWrites`, 4 `DiscountWrites`, 5 `CatalogAccess`, 6 `AccessAdmin`,
7 `Permissions` and `ClientSession`, 8 the screens; all with proofs.

Next, in this order:

9. The composition of `ExportQueue` with `CatalogAccess`: the catalog's answers in place
   of `accepts`, and a download of a list that was lost in between.
10. The composition of `ClientSession` with `AuthSession`, to derive from the shared
    refresh (`RefreshIsShared`) what remains possible of a family when a page is closed
    with a refresh under way, or two pages share the cookie.
11. Dates of prices and discounts under partial updates.
