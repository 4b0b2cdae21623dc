# A TLA+ model of the PeriodO server

PeriodO publishes a dataset of named periods, grouped into *authorities*, that
anyone may propose changes to and editors curate. The server (`src/periodo/`)
is a Flask application on one SQLite file, run by gunicorn with two workers
(`Dockerfile`, last line) behind an nginx proxy that caches its answers
(`cache.py:12`). This
directory holds TLA+ models of that server, the TLC configurations that check
them, and TLAPS proofs of nearly all that they check.

The question the models ask is nearly always the same one. A handler is a
sequence of separate database reads followed by one write transaction; the
other worker, or a crash, may come between any two of them. What is still true
of the tables afterwards?

## 1. The system

### Components

| component | code | state | operations |
|---|---|---|---|
| Change requests and dataset versions | `patching.py`; `resources.py` (`Dataset.patch`, `PatchRequest`, `Patch`, `PatchMerge`, `PatchReject`, `PatchMessages`) | tables `patch_request`, `dataset`, `patch_request_comment` | submit (PATCH /dataset/), revise (PUT), merge, reject, comment |
| JSON patches on the dataset | `patching.py:20-82`, the `jsonpatch` library | none | apply, decide which entities a patch touches or removes |
| Permanent identifiers | `identifier.py`, `database.get_identifier_map`, `get_removed_entity_keys` | `identifier_map` and `removed_entities` columns of merged requests | mint identifiers for skolem IRIs, check digits, find them in a patch |
| Entity lookup | `database.find_version_of_last_update`, `resources.Authority`, `Period`, `abort_gone_or_not_found` | none (reads the above) | redirect to the version of the last update, 404 or 410 |
| Initial load | `commands.py` | all tables | `init_db`, `load_data`, `set_permissions` |
| Bags | `resources.Bags`, `Bag`, `database.create_or_update_bag` | table `bag` (every version kept) | PUT, GET, GET ?version |
| Named graphs | `resources.Graphs`, `Graph`, `database.create_or_update_graph`, `delete_graph` | table `graph` (versions, with a deleted mark) | PUT, DELETE, GET |
| Proxy cache | `cache.py`, headers in `resources.py`, `routes.py` | what nginx keeps, for up to a year | cache headers; purge paths after a write |
| Users and permissions | `auth.py`, `routes.py` (`register`, `registered`) | table `user`, the session cookie | ORCID login, token issue and replacement, permission needs per request |
| History, feed and request listing | `provenance.py`, `feed.py`, `resources.PatchRequestList` | none (reads) | provenance graph, Atom feed, pages of requests |
| Translation client | `translate.py` | none (an external service does) | submit RDF, poll for the result |
| Export | `routes.py` (`export`) | none (reads) | SQL dump streamed while others write |
| Representations, VoID, middleware | `representations.py`, `void.py`, `highlight.py`, `middleware.py`, `utils.py` | none | formatting |

### How they interact

Through the database, and through it only: workers share no memory. A merge
reads `dataset` and the columns that earlier merges wrote, adds a version, and
closes its request; lookups, history and listings read what merges left. Bags
read the dataset to test their items. `/graphs/` contains the dataset, so a
merge must tell the proxy to drop it. The proxy is the one other holder of
state, and it is told of changes by fire-and-forget HTTP POSTs
(`cache.py:41-48`): a purge that fails is logged and forgotten.

`database.open_cursor(write=True)` is the only transaction boundary, and
Python's `sqlite3` opens the transaction at the first INSERT or UPDATE. Hence
every earlier SELECT, even one inside the block (`SELECT MAX(version)` of bags
and graphs), is a separate step. SQLite serialises the writes and rolls back
what is interrupted; a lock that is not free in time raises. Nothing in the
code compares what it read with what is there when it writes: no UPDATE of
`patch_request` has a condition besides the id.

### Hard behaviours, and what each component has to guarantee

* **Change requests.** Interleaved reviews; stale dataset, identifier map and
  request row; a crash between commit and purge. A merged request must tell
  the truth about its source and result; no version may have two origins; a
  decided request stays decided; no accepted change is lost; a new entity never
  takes the place of an existing one; a skolem IRI keeps one identifier.
* **Lookup.** Long legal sequences of merges, in another order than that of
  submission. Every entity of every version can be found; the redirect leads
  to the content asked for; what was removed is "gone", not unknown.
* **Bags and graphs.** Two writers numbering the same version; owner and item
  tests against state that has moved on. Versions form a chain; an acknowledged
  version is the one sent; deleted graphs do not come back.
* **Proxy.** Which paths a write makes stale and which are purged, a reader
  racing the purge. Nothing stale remains once the purges are done.
* **Users.** Two registrations in one browser; a token replaced while in use;
  permissions collected at the start of a request and used at its end. Who is
  let in had the permission and an unexpired token; the newest token works;
  registering again changes no permission.
* **Translation.** Polling that outlasts the worker's own time limit, while the
  two workers are all the server has. Every worker comes free again.
* **Listing, history, feed.** Readers that query twice, or page by page, while
  the tables change; times in whole seconds. A client reaches the last page and
  misses no more rows than changed; what is counted is also listed; the feed
  begins with what happened last.
* **Export.** A dump in many reads. Each version in it has its source in it.

`PROJECT.json` lists the hazards with the line where each bites and the
properties that would catch it.

## 2. Modules

| module | models | composes |
|---|---|---|
| `Dataset` | pure operators: a dataset, a one-operation JSON patch, what it affects (`Updated`, `Removed`), when it applies (`Applicable`), what it does (`Apply`), which identifiers it may get (`Assignments`) | |
| `Patching` | the two tables and the workers that run submit, revise, merge, reject | `Dataset` |
| `Provenance` | lookups by version, gone or not found | `Patching` |
| `History` | the entity versions that `/history?full` names | `Provenance` |
| `Export` | a dump of the two tables while the workers go on | `History` |
| `Curation` | the abstract specification: requests are proposed, revised, and accepted or declined once, each in one step | `Dataset` |
| `PatchingCuration` | how the tables of `Patching` are read as `Curation` (the refinement mapping) | `Patching`, `Curation` |
| `BagStore` | PUT of bags by several workers while the dataset changes | |
| `Access` | registration through ORCID, tokens, permissions, and the identity that a PUT of a bag runs under | `BagStore` |
| `GraphStore` | PUT, DELETE, GET of graphs, the merges that touch `/graphs/`, the proxy and its purges | |
| `Delivery` | GETs of the dataset, history and identifier map, translation, the proxy, the purges of a merge, workers that die or are overdue | |
| `Activity` | the columns that hold times, comments, pages of `/patches/`, comments in `/history`, the feed | |
| `Identifier` | check digits of identifiers, and theorems about them | |
| `PatchingProofs` | theorems about `Patching`, however reviews overlap | `Patching` |
| `CurationProofs` | theorems about `Patching` when they do not, and that it implements `Curation` | `PatchingProofs`, `PatchingCuration` |
| `HistoryProofs` | theorems about `Provenance`, `History` and `Export` | `CurationProofs`, `Export` |
| `AccessProofs`, `GraphStoreProofs`, `DeliveryProofs`, `ActivityProofs` | theorems about the module each is named for; those about `BagStore` are in `AccessProofs` | the module |
| `MCPatching`, `MCExport`, `MCBagStore`, `MCGraphStore`, `MCDelivery`, `MCActivity` | finite values, symmetry and bounds for TLC | |

### Patching and its code

State. `dataset` is the table of the same name without row 0 (which
`schema.sql` fills with `{}`); `request` is `patch_request` without timestamps;
`worker[w]` holds the request a worker is serving: `call`, the point `pc` it
has reached, and the local variables that outlive a database call (`patch`,
`base` the dataset id it read, `ids` the map `replace_skolem_ids` returned).
Workers are Flask processes; local state vanishes when one dies.

| action | code |
|---|---|
| `CreateRead`, `CreateInsert` | `Dataset.patch`, `create_request` (read and validate; INSERT) |
| `UpdateAuthorize`, `UpdateRead`, `UpdateWrite` | `_get_identity` collecting `UpdatePatchNeed`s, `update_request` (read and validate; UPDATE) |
| `MergeRead` | the SELECT of the row and the tests of `merge` |
| `MergeDataset`, `MergeIdMap`, `MergeMint` | the three reads that follow: `get_dataset`, `get_identifier_map`, `get_removed_entity_keys`, each with the computation that depends on it |
| `MergeCommit` | the transaction: UPDATE, INSERT, UPDATE |
| `MergePurge` | telling the proxy, after the commit |
| `RejectRead`, `RejectWrite` | `reject` |
| `Fail` | the worker is killed, the lock times out, or anything raises: a transaction in progress leaves nothing |
| `Done` | the answer is out, the worker is free |

A handler may fail at every point, so a merge may be committed and answered 500
(or not at all): that is why no property says "not answered, hence not done".

`Dataset` keeps the nesting of periods in authorities through `AuthorityOf`, as
the code does by string prefix. A dataset is a function from the identifiers in
it to their content; content is one of a few values. `unprefix` in
`replace_skolem_ids` is modelled by what it does: it yields strings that no
identifier it is compared with can equal (`Unprefix`, `ExistingIds`).

### BagStore and GraphStore and their code

`bag[uuid]` and `graph[id]` are the versions of one bag or graph, in order:
version `v` is element `v + 1`. `PutNumber` (bags) and `Put` (graphs) read
`MAX(version)`; `PutInsert` inserts, and fails if the primary key exists by
then. In `BagStore`, `PutItems` and `PutOwner` are the two earlier reads of
`Bag.put`. In `GraphStore`, `cache[path]` is what the proxy has; `Purge` is one
POST of `cache.purge_endpoint`, which always drops `/graphs/` too, since every
rule whose endpoint starts with "graph" is purged.

### Access and its code

`tab` is the registrations in the order of `/register`, and registration `k` has
the state token `k`; `cookie[u]` is what the browser of `u` has in
`session["state_token"]`. The cookie is a value in the client's hands: a worker
sees the one that came with the request, and changes it only with the answer.

| action | code |
|---|---|
| `Register` | `register`: a new state token, put into the cookie |
| `Callback` | the test at the top of `registered` (403 if the tokens differ) |
| `Exchange`, `ExchangeFails` | the POST to ORCID, and `add_user_or_update_credentials`: INSERT OR IGNORE, UPDATE, one transaction |
| `Receive` | the answer with the token, and the cookie without a state token |
| `Lose` | the worker dies, before or after it stored the token |
| `SetPermissions`, `Expire` | `commands.set_permissions`; `token_expires_at` passes |
| `BearerPut` | `_get_identity`, `update_bag_permission.require()`, then `BagStore`'s `Put` |

`granted` and `overtaken` are history variables: what an administrator permitted
last, and the workers whose user lost something since their request came.

### Delivery and its code

`cache[rep]` is what the proxy has for each representation that a merge is meant
to purge, and for the identifier map, which none does; an entry is the version
of the dataset it was made from, with the two marks `late` and `missed` for the
properties. `worker[w].elapsed` counts seconds up to gunicorn's limit.

| action | code |
|---|---|
| `Get` | `Dataset.get`, `History.get`, `IdentifierMap.get`: the reads |
| `Wake`, `PutData`, `Poll` | the three kinds of call of `translate.py`; a poll that brings nothing is followed by its wait (`Again`) |
| `Respond` | the response, with its lifetime, at the proxy |
| `Merge`, `Purge` | `PatchMerge.post`: the commit, then five POSTs (`PurgePosts`), each of which may be lost |
| `Die` | the worker is killed, by gunicorn or otherwise: its unsent purges stay unsent |
| `Expire` | the proxy drops an entry |

### Activity, History, Export and Identifier

`Activity` has the columns of `patch_request` that `Patching` leaves out. Its
`Submit`, `Revise`, `Merge`, `Reject`, `Comment` are the writes alone, because
how reviews overlap is `Patching`'s matter. `lister` is a client that asks for
pages (`StartList`, `GetPage`, `EndList`: `PatchRequestList.get`); `history` is a worker
between `get_merged_patches`, which counts comments, and
`get_patch_request_comments`, which lists them (`HistoryRows`,
`HistoryComments`, `HistoryEnd`). The feed is one query, so it is operators
(`FeedRows`, `WhatHappened`, `FeedTop`). `latest` is a history variable.

`History` reads the rows of `Patching` as `add_entity_details` does. `Export`
adds one variable, the tables that a dump has sent, and one action per table:
`iterdump` of `sqlite3` selects them in the order of their names, without a
transaction around them. `Identifier` has the arithmetic of `check_digit_for`,
`OLD_check_digit_for` and `check`.

## 3. Runs

The runs of concurrency (`patching_concurrent`, `patching_serial`,
`merged_twice`, `bags`, `graphs`, `graph_not_listed`, `delivery`) use two workers, the deployed number; the others show sequences that
one worker suffices for. Each finishes in about two minutes or less.

| run | checks | shows |
|---|---|---|
| `patching_concurrent` | `TypeOK`, `MergedRowsExplainVersions`, `OneRowPerVersion`, `CreatedAreNew` | these hold however submissions, revisions, merges and rejections overlap |
| `patching_serial` | `LinearHistory`, `MergedAsProposed`, `SkolemsMappedOnce`, `AcknowledgedMergesLast`, `ClosedRowsFrozen`, `ImplementsCuration` | if reviews (revise, merge, reject) do not overlap, the server is a linear history of decisions, and implements `Curation` |
| `lookups_in_sequence` | `EveryEntityHasAnUpdate`, `RedirectKeepsContentInOrder`, `RemovedMeansGone`, `HistoryLeadsToVersions`, `InvalidatedAreGone`, `DumpedVersionsHaveASource` | one worker, three requests after the load, and a dump beside it: lookups tell the truth when requests are merged in the order of their ids, each entity version in the history is there, and each version in a dump has its source there |
| `bags` | `TypeOK`, `RevisionChain`, `AcknowledgedBagsLast`, `OwnersKept`, `ItemsExistedTogether`, `AccessTypeOK`, `PutsArePermitted`, `PermissionsAsGranted`, `NewestTokenWorks`, `RefusalsHaveACause` | the primary key makes up for the stale `MAX(version)`; permissions and tokens are those that were granted, and a registration fails for no other reason than another in the same browser |
| `graphs` | `TypeOK`, `RevisionChain`, `DeletedStayHidden`, `PurgesSuffice` | the same for graphs; the purges reach all they are meant to |
| `delivery` | `TypeOK`, `StaleHasACause`, `LastPollIsOverdue`, `WorkersComeFree` | a stale response is due to one of the causes listed, and to nothing else; a translation that times out kills its worker first; no worker is lost for good |
| `activity` | `TypeOK`, `PagesMissLittle`, `PagesEnd`, `HistoryNamesCounted`, `FeedTellsLatest` | paging ends if the limit is not 0, and misses at most as many unchanged rows as rows were changed, none in the default order; counted comments are listed; the feed begins with the latest event |
| `merged_twice` (violation) | `ClosedNeverMerged` | two editors merging at once: the second merges a closed request again |
| `update_not_stored` (violation) | `UpdatesAreStored` | a PUT whose patch does not apply is answered 200, nothing is stored |
| `id_reused` (violation) | `IdsNeverReused` | a removed period's identifier may be given to a new one |
| `merged_out_of_order` (violation) | `RedirectKeepsContent` | merged out of id order, `/<id>?version=v` redirects to another content |
| `graph_not_listed` (violation) | `GraphsAreListed` | a new graph is missing from a cached `/graphs/` |

The violations are things the code does and its own messages or tests speak
against; `PROJECT.json` ("findings") quotes the lines. They are also why the
passing properties have the form they have: `patching_serial` states what is
lost without `SerialReview`, and `RedirectKeepsContentInOrder` excludes exactly
the case of `merged_out_of_order`.

### Assumptions about the environment

Those in code font are named constants, so that each run says which it makes; the
others are in the actions.

* `SerialReview`: no two of revise, merge, reject overlap. The code does not
  enforce it. Without it, besides
  `merged_twice`, TLC finds that a reject un-merges a request merged meanwhile,
  that a revision is written over a merged request, that two merges from the
  same version lose the first one's change from the current data, and that one
  skolem IRI gets two identifiers. Submissions overlap freely even under it.
* `ReadsOverlapWrites` (FALSE) and `PurgesArrive` (TRUE) in `GraphStore`: no GET
  is under way during a write, and nginx gets each purge. Both are needed for
  `PurgesSuffice`: the code has no defence against either, and a stale answer
  then stays for a week. `PurgesSuffice` also leaves out the two kinds of path
  the code never purges: groups holding a graph that has had only its first
  version (`resources.py:811`), and group paths without the final slash.
* In `Delivery` a purge may be lost, a worker may die at any point, the
  translation service may answer anything at any time or never, and the proxy
  may drop an entry at any time. Nothing is assumed to go well.
* In `Access`, ORCID gives a token that no other user has; it may be the one
  that it gave this user before. A user has one browser.
* `Maker` in `BagStore`: a UUID is made up by one user, and others learn it only
  once the bag is stored. Two users inventing one UUID could both pass the
  owner test, and the later would then own the bag.

### Bounds

`MaxRequests` and `MaxVersions` (3 in the concurrent runs, 4 where a sequence
needs it; the initial load counts as the first of each) leave room for two requests
by two workers, which is what every interleaving hazard needs: the one that
reads early and the one that commits in between. Removal, re-creation and
lookup need three merges in sequence, hence 4. The patches of each run are the
few in `MCPatching` that can disturb each other: an edit of a period, its
reversal, a new period (by skolem IRI), a new authority with a period in it
(one skolem IRI the parent of another), removal of a period, of an authority
and of the "periods" of an authority, replacement of a whole authority that
keeps one period and brings a new one. Two authorities and four periods leave
an identifier to choose and can run out, so that collisions occur.
`BagStore` with `Access` (run `bags`): one UUID, up to 3 versions, 2 datasets;
three users (the maker of the bag, another who registered before, one who did
not), `MaxRegistrations` = 2, so that two tabs cross, or a second registration
follows the first. `MCBound` splits the run in two: overlapping PUTs and a
changing dataset while nothing happens to the users, and everything that may
happen to the maker and the newcomer beside one PUT at a time, until the bag
has `MCVersions` = 1 version. The second part has no more than one PUT because
identities of different requests have nothing to do with each other.
`GraphStore`: two graphs in one group, up to 2 versions each, 2 datasets; a
third version repeats the second. `Delivery`: two workers, 3 versions (a
response two merges old), one representation that is translated and one that is
not, `CallTimes` of 0 and 5 seconds, one translation at a time
(`MaxTranslations`; two would only multiply independent counters), and the
code's own 10 polls, 32 seconds and gunicorn's default of 30. `Activity`: 3 rows
of requests and comments together, 3 seconds, so that things happen at the same
second and at different ones; queries in each order and with each filter, and
limits 0, 1, 2 and negative. `Export`: a dump begins when there is a version
after the loaded one and room for another, and ends before anything else happens
once it is complete (`MCShortDumps`), which loses nothing, for it changes no
more. Symmetry is over workers only, and is not used where liveness is checked;
no property tells workers apart by name.

### Liveness and fairness

* `WorkersComeFree` (`delivery`): `[]<>` each worker is idle. Fairness: weak, on
  a worker's own step (`Step(w)`), because gunicorn runs it and each call that
  it makes to another service returns or raises (`httpx` has a timeout of five
  seconds by default, and the code sets no other). Not on `Die`: polls end
  without gunicorn's help. With `AgainFromTheStart` for `Again` they would not.
* `PagesEnd` (`activity`): a client that pages, with a limit other than 0, comes
  to the last page. Fairness: weak, on `GetPage`, since a client that follows
  the links goes on. With limit 0 the page is empty and "next" leads to itself.

No handler waits for another: SQLite's busy timeout turns waiting into an error
(`Fail`), and the server never retries. That a purge follows a commit the code
does not ensure, so nothing is claimed of it.

## 4. Proofs

Every invariant, action property and refinement that a passing run checks is
also a theorem: TLC shows it on a small instance, the theorem for all values of
the constants, that is for any number of workers, users, requests, versions,
patches, paths and rows. Each was checked by TLC first, and so were the inductive
invariants named below, as invariants of the same runs. The proofs assume what
the modules' `ASSUME`s say of their constants (`IdAssumption`: the kinds of
identifiers are distinct, every period has an authority; `PatchAssumption`:
patches have the shape of patches; and one for each other module), which TLC
evaluates on the instances, and in a theorem what it lists under `ASSUME`.

### Patching

`PatchingProofs`, with `SerialReview` true or false:

* `TypesAreKept`: `Spec => []TypeOK`. `TypeOK` has the column types and
  `LocalsOK`: what a handler holds between database calls is still good when it
  uses it. The identifiers it holds at "commit" are new to the version it read
  *then*, whatever has been merged since. It is inductive because both tables
  only grow (`StepKeepsTypes`).
* `HistoryIsTrue`: `Spec => []MergedRowsExplainVersions`
* `VersionsHaveOneSource`: `Spec => []OneRowPerVersion`
* `NewEntitiesAreNew`: `Spec => []CreatedAreNew`

The last three follow from one inductive invariant, `TypeOK /\ RecordsOK`
(`RecordsOK` is their conjunction). They need each other: that a new record
claims a version no other has follows only because every earlier record points
into the table as it was; that `CreatedAreNew` survives an append needs
versions once written to stay, for `applied_to` and `resulted_in` to be in
range; and at the commit it needs `LocalsOK` on the identifiers held.
`MergeCommitRecords` is the one hard step; `RecordsStay` covers all the others,
including a rejection that overlaps a merge, which drops a record but alters
none. The argument does not rest on what a request said when it was read, only
on what the transaction itself writes.

### Patching when reviews do not overlap

`CurationProofs`. Each theorem assumes `SerialReview`, without which TLC finds
it false (section 3):

* `MergesLast`: `[]AcknowledgedMergesLast`; `ClosedIsFinal`: `ClosedRowsFrozen`
* `HistoryIsAChain`: `[]LinearHistory`; `ProposalsAreApplied`: `[]MergedAsProposed`;
  `SkolemsHaveOneIdentifier`: `[]SkolemsMappedOnce`
* `HandlersImplementCuration`: `Spec => ImplementsCuration`

`ReviewsOK` is the strengthening: at most one worker is in a review, and what it
has read is still so: its request is open with the patch it holds, its base is
the newest version, its patch applies there, no merge has mapped its skolem IRIs,
and its identifiers are free. That is the whole of what a transaction around the
handler would give, and it is why the rest holds: with it, a commit
appends to the newest version (`ChainOK`, the three properties of the second
line, is inductive), touches only an open row, and is a step `Accept` of
`Curation`. Each kind of step maps to one step of `Curation` or to a stutter
(`NextRefines`): an INSERT to `Submit`, the UPDATE of a PUT to `Revise`, the
commit to `Accept`, the UPDATE of a reject to `Decline`, and every other, the
purge and the failures among them, to nothing.

### Lookup, history and dumps

`HistoryProofs`, all under `SerialReview`:

| theorem | property | further hypotheses |
|---|---|---|
| `DumpsHaveSources` | `DumpedVersionsHaveASource` | |
| `InvalidatedEntitiesAreGone` | `InvalidatedAreGone` | |
| `EntitiesCanBeLookedUp` | `EveryEntityHasAnUpdate` | `[]ListedExist` |
| `RedirectsKeepContent` | `RedirectKeepsContentInOrder` | `EditsAreTold` |
| `HistoryNamesWhatIsThere` | `HistoryLeadsToVersions` | `AddsAreNew` |
| `RemovedAreReportedGone` | `RemovedMeansGone` | `WholesAreKept`, `AuthoritiesStayGone` |

The hypotheses are about patches, and the patches of the run
`lookups_in_sequence` satisfy them. The code does not enforce them: it takes any
valid JSON patch. They were found by failed proofs, and for each TLC has a
counterexample without it:

* `ListedExist`: no merged patch names, within the value of a whole authority,
  a period that the data does not have. Such a period comes in under a permanent
  identifier somebody made up, is recorded neither as created nor as updated
  (`patching.py:67-71`), and `?version` has nowhere to redirect to.
* `EditsAreTold`: no patch changes entities within the value of another, or
  removes a field. Removal of a field records the entity as removed
  (`patching.py:61-66`), so that its last update is an older one.
* `AddsAreNew`: what is added as a whole has no permanent identifier yet. With
  one, it is listed as updated, and the history names the version before.
* `WholesAreKept`: no patch replaces a whole authority or its list of periods: a
  period that it drops is not recorded. `AuthoritiesStayGone`: no new authority
  takes the identifier of a removed one. Minting is meant to avoid it, but
  compares identifiers in two forms (`Unprefix`; `id_reused` shows it of periods).

The inductive invariants: `DumpOK` (there are no more versions in the dump than in
the table, so that the later read of requests finds the source of each, by
`LinearHistory`); `AccountsOK` (the columns of a merged request are what its patch does to
the version it was applied to); and `GoneOK` (what was ever there is there, or
among the removed). `EveryEntityHasAnUpdate` and `RedirectKeepsContentInOrder`
speak of all versions at once, and follow by induction on the version, here in
the form of a least counterexample: the first version with an entity that cannot
be looked up was made by some merge, which created the entity, updated it, or
left it as it was in the version before (`LeastIsThere`, by the library's `WFMin`).

### Bags and access

`AccessProofs`: `BagsAreTyped` (`TypeOK`), `BagVersionsFormAChain`
(`RevisionChain`), `AnsweredBagsLast` (`AcknowledgedBagsLast`),
`BagsStayWithTheirMaker` (`OwnersKept`), `BagsOfOneVersion`
(`ItemsExistedTogether`), `AccessIsTyped` (`AccessTypeOK`), `OnlyPermittedPuts`
(`PutsArePermitted`), `GrantsSurvive` (`PermissionsAsGranted`), `LastTokenWorks`
(`NewestTokenWorks`), `OnlyCrossedRefused` (`RefusalsHaveACause`), all of
`AccessSpec`, and so of PUTs beside registrations.

`BagInv` has, besides types, what a PUT knows at each point (`JobOK`): its items
were in one version together, its user is the maker, or the bag exists, and from
the owner test on it is the maker. The insert fails if its number is not the
next, and so each row is one more than the last. `TabsInv` adds to the properties themselves
`CrossingsMarked` (two registrations of one user, the earlier under way, are both
marked) and `CookieIsTheirs` (one that nothing crossed finds its own state in the
cookie); without the first, nothing relates the order of the answers to the
order of the tokens in the table.

### Graphs and the proxy

`GraphStoreProofs`: `GraphsAreTyped` (`TypeOK`), `GraphVersionsFormAChain`
(`RevisionChain`), `DeletedGraphsStayHidden` (`DeletedStayHidden`), however
requests overlap, from `TableInv`: a live version has no deleted one above it.
`PurgesAreEnough` (`PurgesSuffice`) assumes `ReadsOverlapWrites = FALSE` and
`PurgesArrive = TRUE` (section 3). Its invariant, `CacheInv`: no GET is under
way beside a write, what a GET has read is what it would read now, and each path is
fresh, or about to be purged by some worker, or has a new graph under it. The
hard step is a write to a graph: which paths show it, and that its worker holds
the purge of each of them.

### Delivery

`DeliveryProofs`, for all times that calls may take:

* `TypeCorrectness`: `Spec => []TypeOK`
* `StalenessExplained`: `Spec => []StaleHasACause`. The inductive invariant is
  `TypeOK /\ OnlyMergesPurge /\ StaleHasACause`. `OnlyMergesPurge` is needed
  because a worker that answers a GET or dies becomes idle: if it could hold
  unsent purges, it would take with it the one reason why a stale response is
  there. A merge makes everything stale at once and has all five POSTs before it;
  each POST turns its cause into another (the entry is gone, or marked missed).
* `LastPollTooLate`: `Spec => []LastPollIsOverdue` under `MaximumPolls` = 10,
  `MaximumBackoff` >= 11 and `WorkerTimeout` < 38 (gunicorn's default is 30,
  and the `Dockerfile` sets none). `PollsTakeTime` is the strengthening: a worker
  at poll `n` has spent at least the waits before it, which `WaitedBefore` lists.

### Listing, history of comments, feed

`ActivityProofs`: `ActivityIsTyped` (`TypeOK`), `CountedAreNamed`
(`HistoryNamesCounted`), `FeedIsRight` (`FeedTellsLatest`), `PagesMissFew`
(`PagesMissLittle`). `HistoryOK`: the comments counted are those up to some
number, and later ones come after them. `LatestOK`: if the latest event was alone
in its second, every other time in the tables is earlier. `PagesMissLittle` needs
to be said of a client under way (`PagingOK`): of the requests it wants, those not
seen *and already before its offset* are no more than the changes since
it began. A page that is read moves the offset over rows that it shows; a
change moves at most one row forward past the offset, or takes at most one row from
before it, so that one other moves back over it; and in the orders in
which rows only move forward none does.

### Identifier

For every identifier that `IDENTIFIER_RE` accepts: `TranspositionsAreDetected`
(two neighbours that change places), `SubstitutionsAreDetected` (a wrong
character anywhere but third or sixth), `SubstitutionsMissed` (there it goes
unseen exactly if off by 9 or 18, since 3 and 6 have a factor in common with 27),
`LastTransposition` (the check digit and the character before it). They rest on
a case for each position and on `SameRemainder`; no run is needed, for nothing
moves. test/test_identifiers.py tries one substitution of one identifier.

### What is only model-checked

`PagesEnd` and `WorkersComeFree`: liveness under fairness is beyond the prover.
What the five runs that end in a counterexample show stays with TLC, too.
Induction over data is beyond the prover as well, and the models avoid it: they
have no RECURSIVE operator, and where a proof needs a least or a last version, it
takes it from a set of numbers. That the hypotheses of the lookups hold in the
run is read off its patches; that they are needed was seen on variants of that run
with one more patch, which are not kept here.

## 5. Limits

### Of the models

* A patch is one operation. Patches of several operations compose it, and
  `test`, `move` and `copy`, are left out.
* The path of a period is under its own authority; whether a *field* exists
  within an entity is abstracted, so `remove` and `replace` of a field always
  apply.
* `Patching` has no cache; the purge of `MergePurge` is in `GraphStore` (the part
  of it that concerns graphs) and `Delivery` (all five POSTs).
* Conditional requests (ETag, 304) are left out: their answers have nothing for
  the proxy to keep. The random part of a second in each wait is left out: it only
  adds to it.
* `GraphStore` leaves out `?version=v` and paths with a format suffix, and
  `Access` the permissions that other handlers need; they are tested the same way.

### Known behaviour that no run reports on

These are things the code does which no line of the repository speaks against.

* Removal of all "authorities" records nothing as removed (`patching.py:66`; such a
  merge fails anyway, see `Describable`); removal of a field of an authority or
  period is recorded as removal of the entity (54, 61-66); periods that a
  replacement drops are not recorded as removed and are answered 404 (67-71).
* The identifier map is kept by the proxy for a year and never purged
  (`resources.py:676`); a comment does not purge `/history` (651). The 500 of a
  failed translation is kept like a success (327).
* Turtle and CSV are public for a day and a week (`representations.py:97`, 106):
  browsers keep them whatever the proxy is told.
* One path has different responses by `Accept`, and none names it in `Vary`.
* A bag's `?version=v` is cached for a year, but rendered from the current dataset
  (`resources.py:751`, 763); one with a period of a removed authority fails.
* Two tabs that register in one browser may both be refused: the second replaces
  the state token of the first, and the refusal of the first removes it
  (`routes.py:167`, 180).
* `X-Total-Count` counts all requests, whatever the filter (`resources.py:494`);
  `applied_to` is shown as the URL of `created_from` (101).
* The feed has 32 rows, one for each comment, so that a request with many comments
  takes the place of others (`feed.py:44-48`).
* A comment posted while `/history` is put together makes `as:totalItems` smaller
  than the number of items, and `as:last` an earlier one (`provenance.py:111-122`).
* A dump may have a request that was merged into a version it does not have.

### Not modelled

* GET of bags, of versions of graphs, of `/context`, and pages that redirect: they
  read one row and render it.
* Choice of a representation and formatting (`representations.py`, `highlight.py`,
  `utils.py`): no state beyond a response.
* VoID (`void.py`): counts; that it raises on an ill-formed dataset, and a merge
  with it, is in `Describable`.
* Set-up and middleware (`__init__.py`, `middleware.py`): configuration, headers and
  error pages; the answers 401 and 403 are in `Access`.

## 6. Plan

All components with state of their own are modelled, and what the runs check of
them is proved but for liveness. What is left, in this order: theorems that go
beyond the runs (that what `Curation` itself promises holds of it, so that the
refinement carries it over; that overlapping reviews do no more than the named
kinds of harm); weaker hypotheses for `RedirectsKeepContent` and
`RemovedAreReportedGone`, stated of merged requests instead of all patches, as
`ListedExist` is; and of the components, GET of bags beside removals
(`database.py:102`).

## 7. Running it

    tlc -config patching_concurrent.cfg MCPatching
    tlc -config bags.cfg MCBagStore
    tlc -config lookups_in_sequence.cfg MCExport
    tlc -config graphs.cfg MCGraphStore
    tlc -config delivery.cfg MCDelivery
    tlc -config activity.cfg MCActivity
    tlapm PatchingProofs.tla
    tlapm CurationProofs.tla
    tlapm HistoryProofs.tla
    tlapm AccessProofs.tla
    tlapm GraphStoreProofs.tla
    tlapm DeliveryProofs.tla
    tlapm ActivityProofs.tla
    tlapm Identifier.tla
