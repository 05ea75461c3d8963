# Tickmark in TLA+

Tickmark is a Node.js server (no dependencies, SQLite through the synchronous
`node:sqlite` API) with which an accounting practice asks clients for documents.
A client opens a link without an account, the browser encrypts the file to the
practice's public key, and the server stores an envelope it cannot read. A hosted
edition runs many practices ("tenants"), one database each, behind a gateway.

This directory holds a model of the program: modules that TLC checks on small
instances and theorems that the TLAPS proof system checks for every instance.
`PROJECT.json` lists the runs, the lines each definition stands for, the hazards and
the theorems. Paths below are those of the repository, which lies under `src/`.

## How the program runs, and what an action is

One server process handles requests on one thread. Every SQL statement is
synchronous, so a handler is atomic from one `await` to the next, and other
handlers run only at the awaits: while a body arrives, a password is hashed, a file
is moved or another server is asked. Command-line tools are processes of their own
over the same database (WAL mode) and the same files. An action of a module is the
code from one await to the next, with its transaction, its early returns and its
calls. What a handler read before an await and uses after it is a variable of its
own: these are the stale values most of the properties are about. A process may end
at any await; the tables and files stay.

## Inventory

| part | files | state it keeps | operations | what is hard |
|---|---|---|---|---|
| upload pipeline | `client-portal.js`, `request-actions.js`, `http.js`, `storage.js`, `blobs.js` | tables `upload`, `upload_reservation`, `access_token`; files `<id>.incoming`, `<id>.bin` | open a page, post a file, spool, check, move, record, download, revoke a link | several bodies at once against one quota; refusals and crashes between two awaits; a link that closes meanwhile |
| re-encryption and keys of documents | `keys-views.js`, `store.js`, `web/reencrypt.js` | `practice_key`, `upload.key_id`, `upload.storage_path` | post a copy sealed to a newer key, replace, unlink; make and retire keys | two passes over one document, a download in between, a key retired in between |
| reconciliation | `tenancy/reconcile-uploads.js`, `tools/reconcile-uploads.mjs` | the same tables and files, from another process | read the tables, walk the files, delete orphans, drop stale reservations | deletes by what it read earlier; ends in the middle |
| request checklist | `store.js` (items), `request-actions.js`, `client-portal.js` (`clientSays`), `board-views.js` | `request`, `request_item`, `upload.request_item_id` | add, relabel, withdraw, flag, check, answer, close, reopen, raise again | what a page showed against what is there when its button is pressed |
| members and key custody | `members-views.js`, `roles.js`, `account-views.js`, `store.js` | `practitioner`, `invite`, `key_wrapping`, the recovery wrapping | invite, accept, change role, remove, rotate, recover | the last person who can open a file; copies of retired keys |
| sign-in | `signin-views.js`, `account-views.js`, `auth.js`, `totp.js`, `ratelimit.js` | `session`, `login_challenge`, recovery codes, reset links | sign in, second factor, reset, sign out everywhere | attempts counted, and passwords changed, across awaits |
| notices and chasing | `notices.js`, `chase-views.js`, `bulk-ask-views.js`, `mailer.js`, `sms.js` | events in the history | tell the practice, remind the client, ask in bulk | mail goes out before it is recorded |
| gateway and pool | `tenancy/gateway.js`, `resolve.js`, `pool.js`, `app.js` | open database handles | route a request to its practice | a handle closed under a request; three names for one practice |
| registry, sign-up, hosted invites | `tenancy/registry.js`, `gateway.js`, `tools/create-tenant.mjs`, `reap-pending-tenants.mjs` | the registry database, a directory per practice | sign up, sign in, accept an invitation across two databases, reap | no transaction spans both |
| billing | `tenancy/billing.js`, `tools/reconcile-stripe.mjs` | the entitlement of a tenant, event ids | webhook, checkout, reconciliation | events late, twice and out of order |
| offboarding, backup, restore | `tenancy/offboarding.js`, `restore-tombstones.js`, `practice-export.js`, `tools/*backup*`, `restore-hosted.mjs` | the deletion ledger, directories, snapshots | request, hold, purge, back up, export, restore | deletion in steps; a restore that brings a practice back; copies of a moving practice |
| integrations | `integrations-sync.js`, `xero-views.js`, `quickbooks-views.js`, `tenancy/xero.js`, `quickbooks.js` | OAuth tokens, the client book | connect, refresh, sync, disconnect | a rotating refresh token good once; names looked up before an await |
| database | `db.js` | the schema and every table | open: create, migrate, sweep | migrations that stop anywhere and run in two processes |
| parsers | `http.js`, `views.js` | none | a client list out and in, a form with a file | boundaries and quoting |
| pages, board, templates, style | `board-views.js`, `clients-views.js`, `templates-views.js`, `style.js`, ... | little of their own | render; single statements | nothing concurrent |
| browser code | `web/*.js` | the unwrapped key and picked files in the page | check, encrypt, send, save as an archive, re-encrypt | loops over awaits beside other pages; names and offsets in an archive |

## Modules

| module | models | run | proofs |
|---|---|---|---|
| `DocumentCustody` | the promise: an accepted upload is kept, a refused one never is | `key_moves` (refined) | `UploadPipelineProofs` |
| `UploadPipeline` | uploads, passes, downloads, keys, links, crashes, reconciliation; implements `DocumentCustody` | `upload_races`, `key_moves` | `UploadPipelineProofs` |
| `RequestChecklist` | the documents of a request, their marks, what answers them, the pages acted from | `checklist` | `RequestChecklistProofs` |
| `KeyCustody` | members, roles, invitations, keys, copies, the recovery sheet | `custody` | `CustodyProofs` |
| `PracticeCopies` | backup, fleet backup, export and its restore beside a live practice | `parts` | `CustodyProofs` |
| `ClientPage` | the client's page that picks, checks and sends files | `parts` | `CustodyProofs` |
| `SignIn` | sessions, challenges, factor, reset links, limits | `sign_in` | `SignInProofs` |
| `MailSession` | one SMTP conversation | `fair_parts` | `SignInProofs` |
| `Chasing` | chases, asks, reminders, notices and their record | `chasing` | `ChasingProofs` |
| `AccountingLink` | the link to Xero or QuickBooks and the client book | `accounts` | `AccountingLinkProofs` |
| `PracticePage` | saving an archive, moving files onto the current key | `fair_parts` | `AccountingLinkProofs` |
| `StripeBilling` | a subscription, its events and the reconciliation | `billing` | `TenancyProofs` |
| `HostedSignup` | sign-up, reaper, create-tenant, purge of an address | `parts`, `reused_address` | `TenancyProofs` |
| `TenantServer` | from an address to a practice's database | `parts` | `TenancyProofs` |
| `InvitedMembership` | the promise of an invitation | `fair_parts` (refined) | `TenancyProofs` |
| `HostedInvite` | an invitation accepted in two databases; implements `InvitedMembership` | `fair_parts` | `TenancyProofs` |
| `TenantDeletion` | the deletion of a practice, daily backups, restores | `deletion` | `TenantDeletionProofs` |
| `OpenDatabase` | opening an old database, in steps, by several processes | `parts` | `TenantDeletionProofs` |
| `FormFormats` | the client list as CSV, `multipart/form-data` | `parts` | `RequestChecklistProofs` |

`MC*` modules only give instances: symmetry, bounds that no single constant can
express, and two sums of parts. A proof module holds the theorems of one to four
modules that share no state, one after another; nothing is concluded from one to the
other.

How the components meet: `UploadPipeline` says how a body becomes a row, and whether it
does; `RequestChecklist` takes it from there (a post begins, and ends as `RecordAnswer`
or `Refuse`; the guard on the link is in both). The keys that `UploadPipeline` names are
made and retired in `KeyCustody`, moved by the loop of `PracticePage` and copied with
the files by `PracticeCopies`. `ClientPage` is the sender of what `UploadPipeline`
takes. The letters of `Chasing` go through `MailSession`. `HostedSignup`,
`HostedInvite`, `StripeBilling` and `TenantDeletion` own different columns of the
registry, whose `lifecycle` and standing `TenantServer` reads.

## The components

Each section says how state and actions correspond to the code, what is abstracted, what
its run shows within which bounds, and along which argument its theorems are proved. A
bound that only exists for TLC is a constant named `Max...` with a comment "bound", or an
operator `MCBounded` of the MC module. `CHECK_DEADLOCK FALSE` stands in a configuration
where such a bound, or spent names, may leave nothing to do; the code has no such end.

### UploadPipeline and DocumentCustody

`rows`, `size`, `sealed`, `stored` are the columns of `upload`; `reserved`, `held` are
`upload_reservation`; `disk` is the blob directory, a file being a kind (`incoming` or
`bin`) and the id in its name; `links`, `newest`, `retired` are `access_token` and
`practice_key`. `pc`, `sender`, `claim`, `got`, `spent` are the local state of a running
`acceptEnvelope`, `passPc`, `moving`, `target`, `previous` that of a `reencryptFile`,
`readPc`, `reading` that of a `serveEnvelope`, and `tool`, `referenced`, `pending`,
`candidates`, `stale` that of a reconciliation. `Crash` ends every handler at any await.
`opening`, `unlinking` are what `spoolBody` asked of the file system and does not wait for:
the open of its stream, which `FinishSpool` needs and `GiveUp` does not, and the unlink of
`giveUp`, which is begun as the refusal goes up. A refusal is therefore answered, and its
reservation released, with the spool file perhaps still there or to come. `missed` is for
the properties: spool files whose unlink came before the open, or died with the process.
`spent` (the total read before the body), `claim` (the key of a page served earlier) and
`referenced` (what the tool read) are used later than they are read.

Bytes are counted in chunks, one `data` event each; one practice and one request; an unlink
of one's own fails only in those two ways (the code swallows any error of it); an upload
without `x-key-id` is left out; `DayPasses` stands for the age a reconciliation asks for,
longer than any handler lives, since a request times out after minutes.

`upload_races`: two uploads of up to two chunks, a link and the practice as senders, a quota
of three chunks, one pass, one download; `MCBounded` lets either several uploads run or one
be moved and downloaded. `RefusalsAreUndone` is checked there: whatever refuses an upload
takes back its row, reservation and stored file, and the spool file but for `missed` and an
unlink on its way. `key_moves`: one upload, two passes, keys 1 and 2; the passes have no
names, so `MCInOrder` lets the first start first. Every race over quota, limit and
reservation is between two bodies, every race over one path between two passes.

Fairness of `key_moves` (`MCFairSpec`): a handler that can go on does (its awaits are
answered by the file system; a request timeout ends a body that stops, so `Chunk` is not
needed); so do opens and unlinks that nobody waits for; the day passes; the nightly timer
starts a run with `--apply`. The steps of that run and the passing of the day are strongly
fair: a run may be killed any number of times, but not always.

Proved: `IInv` is inductive, and `RefusalsUndo` follows. Its parts say which files and
reservations may exist while a handler stands where it stands (`FilesInPlace`,
`ChargedOnce`, `SpoolIsHeld`), where a row may point (`RowsPointAtTheirOwn`), that what a
pass is about to unlink is a file no row points at (`PreviousIsLeft`), that a day-old file
belongs to no handler (`AgedIsFinished`), and that what the tool read is still good for the
files it may touch (`SnapshotIsSound`). `RowsHaveFiles` needs the last three, since tool and
pass delete by what they read earlier. From `IInv` follow the safety invariants, `StrayInv`
on top of it, the action properties `NothingBecomesUnopenable` and `LinksWithinQuota` (who
is charged, with cardinalities of finite sets), and that `UploadPipeline` implements
`DocumentCustody`. Proved and in no run: `LimitPassedOnlyUnknowing`. What is compared with
the request's limit is the total read before the body, so the limit itself is not kept;
`FitsWhatWasRead`, inductive for every number of uploads, leaves one way past it: the
request grew in between. Only model-checked: `LeftoversReclaimed`.

### RequestChecklist

`raised`, `closed` and `link` are `request` and `access_token`; `owner`, `label`, `note`,
`position`, `withdrawn`, `flagged`, `reviewed` and `says` are the columns of
`request_item`; `answers` is `upload.request_item_id`. `post`, `about` and `saw` are the
local state of a running `clientSays`, `receiveUpload` or `addFileForClient`, `adding`
that of an `addItemsPage`. `shown` and `offered` are what a page of the practice was drawn
with; `recorded` is the events of the last step, and `covered` remembers for the
properties which files an item had when it was checked. Most handlers of the practice use
nothing they read before their body, so each is one action: `Relabel` is `setItemLabel`,
`Withdraw` and `Restore` are `setItemWithdrawn`, `Check`, `CheckAll`, `Uncheck` are
`setItemReviewed`.

A label is a word and the way it is written, and `Fold` gives the word; the lines of a
form come in any order; `parseItems`' cut at 200 characters is left out, and so is a file
that answers no document.

`checklist` explores two modes: two lists copied from each other and added to from two
forms, or one list with two posts and one page and nothing renamed. Two posts let an
answer come before a look and another between the look and the check. Symmetry is over
rows and posts, which are never told apart. No liveness: whether anyone answers or looks
is up to people.

Proved: `ListInv` is inductive. `CheckedCoversFiles` needs `ListIsClosed` (a post that has
not ended is nobody's answer), and `PositionsCount` needs facts on finite sets: distinct
numbers below n given to n rows are all the numbers below n (`DistinctNumbersFill`), which
is also why the ranks that `ReRaise` copies are good positions. From `ListInv` follow
`ReadyMeansDone` (`stateOf`, computed from four counts), `AddingRepeatsNothing` and,
without it, `HistoryTellsOfChecks`.

### KeyCustody

`standing`, `role` are `practitioner`; `maker`, `retired` are `practice_key`, numbered as
they were made; `wrap` is `key_wrapping`; `sheet` the `recovery_wrapping` of the first row;
`invite` the table; `flight[m]` is the request of m that passed the dispatcher, which asks
the role, and waits for its body, after which the handler acts (`Answer`). `Reopen` is the
part of `db.js` that runs whenever the database is opened. What a copy is sealed under is
left out. `custody`: two members, two invitations, two keys, two requests in flight
(`MCBounded`: two requests, or two invitations beside one request and no sheet); the race
for the last owner is between two requests.

Proved: `CustodyInv` is `TypeOK`, an owner remains, and requests about keys name keys the
practice made. `CopiesAreKept` is an action property over every handler: a copy goes only
with its holder's standing or role, or with its key.

### PracticeCopies

`path`, `files`, `growing` are the live practice's rows and blobs, a file being named by
its document and a number; `copy[c]` is what a run of the tools has read and written. The
live steps are an upload (`Arrive`, `Place`, `Record`) and a pass (`Reseal`, `Replace`,
`Unlink`); a run reads the rows in one statement (`VacuumInto`; the export inside its
transaction), lists, copies file by file, describes and seals. Afterwards files may be
lost from a copy (`Lose`), or it is restored. `parts`: two documents, one run of any of
the three kinds, one move, one loss. One run is enough because runs only read the live
practice.

Proved: `CopiesInv` says that a growing file is named by no row (`GrowingIsUnnamed`), that
a run read its rows no later than its files and none of them names what was half written
when it came by (`RunsReadBackwards`), and that rows stand still while an export reads
(`ExportsHoldStill`, its transaction). `DocumentsAssumption` (finitely many documents) is for
the comparison of counts.

### ClientPage

`picked`, `dead`, `said` are the file input, the button and the status line; `reader` each
call of `validate()`, `press` each submit handler, `wire` requests the server has or has
answered, `stored` the rows it made. A check or batch is cut at its awaits; a reload ends
what the page does but not a request the server has. `parts`: two files, one above the
limit, one check, two presses, two visits. A lost answer is a request whose `visit` is 0.

Proved: `ClientInv` says that what a batch has left to send contains whatever of it is not
stored (`BatchIsSound`), and that a request of this visit is of the file its press waits
for, one for each press, stored if so answered (`WireIsSound`).

### SignIn

`session`, `challenge`, `resets`, `signups` are tables, `failures` the limiter's memory,
`factor` the two-factor state; `flight[f]` is a request that waits for a body or for
scrypt, with what it read before. `era` counts the changes of password and the removals;
`made`, `late`, `from` and `guesses` in the rows are for the properties. A password or
code is right, spent or wrong. `sign_in`: two sessions, one challenge, two requests in
flight, limits of two attempts, three eras. Overtaking is between two requests.

Proved: `SignInInv` (types without the bound on `era`; `ProofsAreOfThePast`,
`NobodyBefore`, `RemovedAreLate`: which sessions and proofs in flight may be older than
the last change; `GuessesAreCounted`, `FailuresAreCounted`: a guess or failure is one
already counted, or of a request in flight, with cardinalities of the requests waiting).
`FlightAssumption`: the requests in flight are finitely many and at least one can be.

### MailSession

`step` is the step of `sendMail`, `waiting` the lines `readReply` has, `asked` whether it
is pending, `lines` what came while nobody asked, `failure` the remembered break, `relay`
and `answers` the external relay and what is under way from it. `fair_parts`: replies of
up to two lines, four greetings. Fairness: the client's own steps, and the relay or its
timer does something (`Break \/ Answers`): `mailer.js` arms a timeout for every wait, so
silence ends in a break.

Proved: `MailInv` says that every line under way answers the step the client is at and
that nothing follows the last line of a reply (`Talking`), and when the letter was taken
(`Took`). Proved and in no run: `PasswordsAreCovered`, from `Covered` (what each step tells
of the socket: a second hello is on an encrypted one), and the types, with the letter taken
once at most. Only model-checked: `LettersEnd`.

### Chasing

`clientOf` is `request.client_id`: a client may have several requests, and the code keeps
the cadence and the day's notice by request (`HeldBackBy`, `ToldToday`). An ask or an
opening is recorded as `request.sent`, which `HeldBackBy` does not count; a text goes before
the letter of a chase and leaves nothing that is read. `history` is the rows of `event` that
something reads, `letters` what the relay has taken and whether it said so, `run[x]` a
handler with what it has listed (`todo`), whom it is writing to (`now`), what it will say
(`outcome`) and what it saw when it began (`seen`). Listing, sending and recording are
separate steps of each handler. Time is counted in parts of a day. `chasing`: two clients,
two requests, of one client or of each, two handlers, two parts of a day, a cadence of one
day; `MCBounded` keeps the second request for the handlers that write to many, within the
first day. Two handlers are what a race between listing and recording needs. There is no
fairness and no liveness: whether anything is sent is up to a person or a relay.

Proved: `ChasingInv` says what each handler's outcome means for the letters
(`RunKeepsBooks`), that every letter whose answer came is in the history
(`LettersAreRecorded`), and the two spacing properties; `SaidIsSent` follows. Both spacing
properties speak of one request: a client with two open ones is written to about both on one
day, and knowingly (see the divergences).

### AccountingLink

`link` is the row of `connection`; `call[c]` a handler with the token it read or was
answered; `syncing` the module variable of `integrations-sync.js`; `book` the table
`client`; `approved`, `live` are the provider's side: the good refresh token of every
approval; `lost` the approvals of which an answer never arrived. The provider is external
and rotates as `xero.js:137` expects. `accounts`: two handlers, two clients, two names,
two companies, two approvals, three tokens each, one fault. Losing the token needs two
refreshes of one token, or one lost answer.

Proved: `TokensInHand` carries the argument: no refresh token is ahead of the provider's,
one that was answered is the good one, and nobody else has it. `NamesDiffer` needs every
writer of `book`: an import looks the name up in the step that inserts.

### PracticePage

`rows` are the uploads' keys and envelopes, `records` the private halves under their
passphrases, `tabKeys`, `tab` the saving page, `mover[m]` a page that moves files. `shown`
is the list the page was drawn with: files of documents that were not withdrawn and files
nobody asked for, that had come by then (`archiveFiles`). Documents are not in this module,
so any list without repetitions may be shown (`Listing`), and `ArchiveIsWhole` speaks of the
files listed, not of the request's. Envelopes are symbolic. A broken re-seal and a rubbish
upload are the faults the pages guard against. `fair_parts`: three files, listed in one
order with at most one missing (`MCShown`; every other list is in the proof only), two
moving pages, two keys, two phrases, names that differ by case and a name the numbering
would give, a ZIP's 16-bit word of 16 and 32-bit word of 1000, so that sizes and counts meet
them. Fairness: a moving page goes on (`Moves`): each of its awaits is answered or fails.
Which pending file the server offers first is left open.

Proved: `MovingInv` says a page has one file in hand and posts that file's envelope and
no other, and that what was sealed opens with the key its row names. `SavingInv` says that
while files are fetched those before the next are entries already, each with its own
document and name, and that a saved archive is all of the list. `ArchivesAreWhole` needs three
inductions besides, each over a number of files: the names given so far are different in
one case (a free number is found among one more than there are names: a pigeonhole
argument), the offsets only grow, so no two records begin at one place, and the unzipper
that goes from record to record is at the offset the writer put it at.
`NamesAssumption`: finitely many uploads, each with a stem; `DigitsAssumption`: digits have
no case, and different numbers are written differently. Only model-checked: `PassesEnd`.

### StripeBilling

`theirs`, `customerOf`, `sent` are Stripe's side; `recorded`, `unmatched` are
`stripe_event`; `status`, `since`, `customer`, `subscription`, `latest` and `lifecycle` are
columns of `tenant`; `check[c]` a run of `reconcile-stripe.mjs`. An event in `sent` may be
delivered at any time and any number of times (`Unmatched`, `Outdated`, `Apply`, `Bind`,
`Observe` are the branches of `applyStripeEvent`); seconds may be shared. `billing`: two
subscriptions, one reconciliation, seconds 0 to 3, four events: an end and a start in one
second, a second subscription, and a check that reads before and writes after an event all
fit.

Proved: `BillingInv` says that events are in the order of Stripe's clock, that the last
snapshot of a subscription and every answer to a check were true when given, that a row's
`latest` only grows and its status is what Stripe said at that moment, and that an end the
row took in is known. `SubAssumption`: SQL's NULL is no subscription and no number.

### HostedSignup

`accounts`, `tenants`, `hosts`, `retired` are the registry's `account`, `tenant`,
`tenant_host` and the slugs in `tenant_deletion`; `folder` the practice's directory and
file, made one statement after another; `form[f]` what a sign-up decided before scrypt;
`reaping` the list the reaper read once; `first` remembers who had an address first.
`Provision` is `create-tenant`, with or without `--activate`, at any slug and with any host
typed; `MapHost` is the upsert, so a host leaves whoever had it.
`parts`: two applicants, two forms, one name, two practices, at most one of them made by the
tool, one process that ends in the middle, and no host typed with a number no sign-up comes to
(`MCOperator`). `reused_address` is the one run that is violated; see the findings.

Proved: `SignupInv`: ids and slugs are unique, files and tombstones agree with the rows
(`Rows`), a host leads to the practice of its slug or to one an operator made
(`AddressRows`), and what a waiting form chose is by now taken or was never had
(`FormChoices`). That `uniqueSlug` always finds a number is a pigeonhole argument
over finite sets, and a theorem of its own on the way.

### TenantServer

`pool` is the handles, least recently used first, `handles` numbers the openings,
`req[r]` a request with the host, path and link it named and the handle it holds.
`GatewayPage` and `CorePage` are the gateway's own pages and the core's dispatch behind
the resolver; `Throws` is a request whose handle was closed. `parts`: three practices, two
requests, a pool of two, two openings of each. A request that loses its handle needs a
pool smaller than the practices.

Proved: `AnsweredByItsOwn` with the shape of a waiting request (`RequestsAreKept`) is
inductive for every pool and every number of requests. Proved and in no run: `PoolIsSound`
(the limit, no practice open twice, a handle of the practice that was asked for) and the
types. `Sound` is inductive on its own: a handle is appended where none of its practice is
in the pool, and taking one out of a list without repetitions leaves none of it
(`TakenOut`, `FirstGone`).

### HostedInvite and InvitedMembership

`invite`, `practitioner`, `session` are in the practice's database, `hosted`, `account`,
`member` in the registry; `request[r]` is how far a request has come. `Present`, `Verify`,
`Accept` and so on are cut at the hash and between the databases; `Crash` may come
between, and `Reload` is the page that reconciles. `fair_parts`: two addresses, two
invitations, one of them from before the registry knew invitations, two requests, two
passwords, one fault. Fairness: a person who claimed an invitation looks at its page
again (`Reload`): an assumption about people, which `EntryIsFinished` states.

Proved: with `InviteInv` (the types, that only an invitation that was made expires, and that
one being accepted names an account), every step of
`HostedInvite` maps to `Join`, `Enter`, `Leave` or `Close` of `InvitedMembership`, or to
none. The mapping takes a person's standing, the used and the closed invitations.
Only model-checked: `EntryIsFinished`.

### TenantDeletion

`life` is `tenant.lifecycle_state`, `tomb` the row of `tenant_deletion`, `files` the
directory, `bound` another practice's invitation that names an account, `purge[p]` a run of
`completeTenantDeletion` by the timer or by hand, `backup` the daily run, `repo` the
snapshots with the registry and files of their moments, `status` and `lock` the two small
files. `deletion`: days are 0 and 1, one crash or failed backup, two runs by hand. Fairness:
days pass, timers fire, so the steps of the backup and of the timer's purge are strongly
fair (each may be turned away by the other's lock, or by a stale status, but not for ever);
a lock left by a crash is found.

Proved: `DeletionInv`: no snapshot knows more of the deletion than the newest ledger, nor
that more than the registry (`LedgersAreInOrder`), a backup copied the files before its
registry (`BackupIsSound`), and a purge under way is due and known to the newest ledger
(`PurgesAreDue`).
`ErasedStaysErased` is proved under `RetentionAssumption` (the retention is longer than a
backup may be old when a purge accepts it: the defaults are 30 days and 26 hours). Without
it, it does not hold; see the divergences. Only model-checked: `CarriedOut`.

### OpenDatabase

`columns` is what the tables look like, `keyColumn` whose key is still in columns of
`practitioner`, the rest rows; `opening[o]` is how far an opener is and what it has read.
Each statement outside a transaction is a step, a transaction is one. `parts`: two
openers, two people, one client, one upload, one crash, and a release put back for a
while.

Proved: `OpeningInv`: a key that left an opener's hands has its row while the columns are
there, so dropping them loses none; nobody serves before `upload` is rebuilt, so what was
counted stands until it is carried. Two openings at once are part of the theorem for keys
and excepted for documents, because the code does lose one then (see the divergences).

### FormFormats

`csvCell` against `parseCsv` and `clientRowsFromCsv`, and `parseMultipart` (one delimiter
a step) against what a browser writes, over texts of the characters the parsers tell
apart. `parts`: every list of one client with a name of up to three characters, of two
with shorter ones, every form of two parts of up to three bytes. That is where the
parsers' states meet: a quote at the start, in the middle and at the end of a cell, a line
break before a delimiter.

Proved, for lists and forms of any length (`WrittenTextsAreRead`). A cell, a row and a
list are written one after another, so each has a place at which it begins in the text
(`Beginning`) and the reader a state in which it gets there: at the start of a cell with
nothing in it (`AtStart`), within quotes with the first k characters in hand (`Hand`), or
with a cell filled (`Filled`). One lemma for each kind of character takes the reader one
further, and induction takes it through a quoted cell, a plain one, a row and the list. A form
is laid out in parts (`Laid`), each of which begins where the one before ended, and every
turn of the loop reads the next one (`ReadSoFar`): the boundary found first is the one
that ends the part, because no content holds it. `BooksAssumption`: names and addresses are
trimmed and every client has a name, as `field` and the import leave them;
`LettersAssumption`: the boundary a browser picks is in nothing it sends. A form that was
not written by a browser, and a list edited by hand, are outside the module.

### The two sums of parts

`parts` and `fair_parts` explore several modules that share no state, one part at a time:
the initial state chooses the part, and the others stay in one initial state. Every
property of one part is thereby checked over all its behaviours and the others' initial
states, and the number of states is the sum, not the product.

## What is proved and what is only checked

Eight modules hold theorems; `PROJECT.json` lists those a reader should know of, with the
property of a run each one states. Every safety property of a passing run is proved for
every value of the constants.

Liveness stays with TLC: `LeftoversReclaimed`, `CarriedOut`, `PassesEnd`, `LettersEnd`,
`EntryIsFinished`.

A proof has the same shape everywhere: an inductive invariant (`...Inv`), one lemma for
the initial states, one per action, a lemma that puts the actions of the next-state
relation together, and a temporal theorem whose last step is `PTL`. Type invariants are
part of the inductive ones, without the bounds of TLC where those would hide something
(`SignInTypes` has no bound on eras). For `ClientPage` and `OpenDatabase` only the parts of
the state the property depends on are typed in the proof; their `...TypeOK` is
documentation of the whole.

What a loop of the code computes from any list or text (the names and offsets of an archive,
the cells of a list, the parts of a form) is a recursive function in the model and an
induction over its argument in the proof. The library's induction theorems take the
statement as an operator, which the provers here cannot instantiate. The proofs go by the
least number instead: were there a counterexample there would be a least one (`WFMin`,
`NatLessThanWellFounded`), which is not the first and follows from the one before
(`OneByOne`, `OneByOneUpTo`); a set of numbers stands for the statement. The same lemma
shows that a function defined by recursion exists.

Assumptions on constants are the named `ASSUME`s of the modules. Most say that a bound is
a natural number or a set is finite (rows of a table, requests in flight). Some carry
meaning: `RetentionAssumption` (`TenantDeletion`), the file names of uploads and passes
that differ (`UploadPipeline`; they are random ids), what the
folders, lists and forms hold (`NamesAssumption`, `DigitsAssumption`, `BooksAssumption`,
`LettersAssumption`), and the various `None` that are not
members of a set (SQL's NULL).

`TooSoonOnlyUnknowing` and `OneNoticeADay` do not say that letters keep their distance,
which is false of the code: they say that one comes too soon only after what its handler
could not know of (`seen`). In most modules the tables alone are not inductive; what has
to be strengthened is what each handler, page or process holds in hand since its last
await.

## Divergences

Where the code and its own words part, or where it does what a reader would not expect.
The models have each of these as the code has it. One is checked by a run that is
violated: `reused_address`.

Uploads and keys

- An upload may be recorded under a key that was retired while the page was open or the
  body in flight: `client-portal.js:495` takes any key of the practice, where `store.js:1576` promises that
  no file becomes unopenable.
- Two uploads at once pass a link's limit: the total checked at `client-portal.js:460` was
  read before the body (`LimitPassedOnlyUnknowing` says what that comes to). Files the
  practice adds are charged to the quota and never refused for it (`request-actions.js:97`);
  `LinksWithinQuota` speaks of links only.
- A refusal is answered before the partial file is gone: `giveUp` begins the unlink, waits
  for nothing and rejects (`http.js:167`), where the comment at `http.js:151` says the file
  is removed before the error is raised. An unlink that comes before the open finds nothing
  and the file stays for the nightly run (`missed`). A key id that cannot be decoded, or a
  header that cannot be read, throws past the clean-up and leaves file and reservation
  (`Throws`).
- A move that fails for want of space leaves the spool file to the nightly run
  (`client-portal.js:542`).
- A download whose file a pass has unlinked is recorded as opened all the same
  (`request-actions.js:143`, against the comment at 148).
- The page's late check of an earlier pick overwrites the button and message of a later
  one (`web/upload.js:62`); two presses send everything twice, and a batch that was stopped
  sends again what had arrived. A file within 99 bytes of the limit passes the page and is
  refused by the route; the twin check compares an envelope's size with a file's.
- Files of withdrawn documents are left out of "Download everything" (`board-views.js:749`),
  where the comment at 726 says every file on the request; files that came after the page was
  drawn are not in it either (`Listing`). An upload that does
  not open blocks a pass for good, since it is always the first that is pending.

Checklist

- A check covers files its page never showed (`store.js:1716`); a client's "I do not have
  this" stays beside a file (`store.js:1455`).
- Whether the document is withdrawn or the request closed is asked before the body and not
  again (`client-portal.js:664`, `request-actions.js:710`), and two equal answers in flight
  do not cancel (`client-portal.js:325`).
- `attention_at` is not cleared by an answer, though `store.js:1425` says so; a note cannot
  be taken off while the words stay (`store.js:2536`); `setItemLabel` does not compare with
  the other documents, so `NoLabelTwiceOn` is a premise of `AddingRepeatsNothing`.

Members, sign-in

- `db.js:564` gives every member a copy of a key again at every open, though
  `docs/members.md:61` says otherwise; the recovery sheet is filed under the oldest key
  (`store.js:2291`) and is not found after a rotation; a request in flight from somebody
  removed meanwhile still files a copy.
- A sign-in in flight across a change of password, a reset or a removal still makes a
  session (`late` in `ChangesShutOut`); `twoFactorStart` turns an armed factor off without a
  code; attempts pass their limit by the requests in flight (`GuessesAreBounded`).

Letters

- The cadence is kept by request (`chase-views.js:88`), where the page says that even one
  day stops the same client being contacted twice and that every kind of contact counts
  (`chase-views.js:309`, and the comment at 170). A client with two open requests gets two
  letters from one run, and a chase follows an ask, an opening or a text at once.
- The cadence holds for what a handler could know: two runs at once write twice, a letter
  after which the process ended is not counted, and the failure report that says a retry
  waits starts none. A notice mailed before midnight and recorded after counts for the new day; a
  change after the day's notice is told to nobody.
- A text message whose connection is cut after the headers leaves `sendSms` unsettled
  (`sms.js:125`); a relay that drips bytes never meets the timeout.

Hosted service

- Gateway pages open a practice's database without asking its lifecycle, against
  `docs/saas.md:306`, and recreate its directory during a purge; a request that waits may
  lose its handle to the pool and fail with its file left (`Throws`).
- At sign-up the address is chosen before the hash is awaited (`gateway.js:395`); the second
  of two forms fails on a unique index, in a handler nobody awaits, and its account may stay
  without a practice. The reaper asks once whether anybody paid.
- `create-tenant` and `import-tenant` ignore tombstones; a typed `--host` takes a living
  practice's host without a word (`create-tenant.mjs:77`), and a sign-up takes a host that was
  typed for another, which is why `SignupsGetFreshAddresses` lets a host lead to a practice an
  operator made; "run again with `--activate`" fails on the slug.
- An invitation accepted before a crash may leave an account that can only be entered with
  the first password; a change of password is written to two databases in turn.
- `handleCheckout` passes a customer id that `tenantForToken` does not select
  (`registry.js:354`), so every checkout makes a new customer; events of a second
  subscription are unmatched; a subscription that starts in the
  second another ended waits for its next event.

Accounting

- A refresh in flight writes its row again after a disconnect (`store.js:731`), and a sync in
  flight imports after it; a corrected address is overwritten by the next quiet refresh; a
  lost answer locks the practice out until it approves again.

Backup, deletion, databases

- With a retention of 0 or 1 days a restore can bring back a practice that was erased
  (`RetentionAssumption`). A hold put on after the purge's check, or after the last backup, is
  lost. A purge that removed the directory and not the row makes the fleet's snapshot one
  that the verifier refuses whole (`backup-lib.mjs:242`).
- An upload in flight ends a backup with an error, though `docs/operations.md` says it may
  run beside the server; an export of a practice that was re-encrypted cannot be verified
  (`practice-export.js:246`); a crash in an export leaves a manifest of a backup with the
  secrets not yet taken out.
- A crash between the copy of a key and the drop of its columns doubles `practice_key`
  rows at the next open (`db.js:600`); of two processes that migrate at once, one may drop an
  upload that arrived between its count and its copy (`db.js:786`).
- A client's name that begins with `=`, `+`, `-` or `@` comes back from the list with an
  apostrophe (`http.js:301`), and carriage returns are dropped.

## Not modelled

Cryptography (symbolic where envelopes appear), HTML and wording, the board's filters and
templates (single statements), the calendar arithmetic of `clock.js`, the books check of
the Xero page, the dashboard, `import-tenant`'s copies, the operator's scripts that print
or set one value, the site, benches and checks.

## How to run

`tlc -config X.cfg M` for a row of `runs` in `PROJECT.json`, `tlapm M.tla` for a proof
module. The longest run takes a few minutes with two workers.

## What is left

- The other type invariants (`ClientPageTypeOK`, `OpenTypeOK`) as theorems.
- `import-tenant`, the registry's status pages and the books check as actions.
