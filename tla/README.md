# Formal models of go-rest-api-service-template

TLA+ models of the service in `src/`, the TLC configurations that check them on
small instances, and TLAPS proofs of what matters most for every instance. The
modules are written from the Go code and its SQL; a document or a comment enters
only where a run shows that the code does something else.

`PROJECT.json` holds the same information for tools: components, runs, the source
lines each definition translates, one mutation of the code per property, hazards,
findings and theorems.

## 1. The system

A REST service in Go: HTTP handlers (`adapter/driving/http`) call use cases
(`core/usecase`), which call driven adapters (`adapter/driven`): PostgreSQL
repositories, an optional Valkey cache with a change channel, JWT signing, OPA,
identity providers, mail. Several **replicas** of the process share one database;
each keeps mirrors and counters of its own in memory. Three kinds of concurrency
matter:

- requests, each a goroutine, interleave between their calls to the database:
  a use case is a sequence of transactions, not one;
- background goroutines of a replica (tickers, watchers, sweepers) run among them;
- replicas see each other through the database and the channel only.

Any call can fail, can commit and not be answered, or can be the process's last.

### Components, their state and what makes them correct

| Component | State | Operations | Hard part | What must hold |
| --- | --- | --- | --- | --- |
| Refresh tokens (`usecase/authn.go`, `revoked_tokens`) | signed claims, denylist rows with rotation links | login, refresh, re-issue in the grace window, replay detection, logout, sweep | a refresh is read, sign, rotate: three steps | one live token per session; an ended session stays ended; a chain stays in its login |
| Token lifetimes (`token_lifetimes_mirror.go`) | one row, a pointer per replica | PUT, reload by ticker, watcher, PUT, first load | a reload is query then store; signals get lost | a serving replica has validated values; all replicas converge; a PUT whose reload no older query overlaps applies before it answers; a mirror that has caught up is not taken back |
| Revoked access tokens (`revoked_access_tokens.go`) | table, remote and local set per replica | logout, reload, sweep, restart | the local set must cover the reload it raced with | a token logged out here is never accepted here; the table reaches all replicas |
| Rate-limit breaker (`ratelimitbreaker`) | open-until, failures, probing flag | admit, record, time-out, cancel | outcomes arrive late and out of order | one probe, the flag never leaks, recovery closes |
| Quotas (`resources_limits.go`) | counter row per scope | reserve, insert, release, delete, decrement, recount | counter and resource move in different transactions | never below what exists; never past the limit; exact without faults |
| Rate limiting (`ratelimit.go`, `ratelimitmemory`, `ratelimitvalkey`) | rules mirror, buckets, shared counters | resolve, charge local then shared, sweep | several windows, two stores, a store that fails | no request beyond the tightest window; a refused request charges no later window |
| Accounts (`users.go`, `administrator_account.go`) | users row, cached copy | create, update, lock, delete, verify, reset | check, then write, in two statements; a stale cached copy | an administrator who can sign in remains unless writes race; a locked account stays shut |
| Authorization (`roles.go`, `policies.go`, `grant_guard.go`, `policyopa`) | rows and links users-roles-policies, a cached copy per account | create, edit, delete, link, unlink, decide | the guard reads, then the link is written; a write must find every cached copy it touches | nobody grants more than they hold; a revoked grant leaves the cache; the seeded administrator keeps everything |
| Verification and reset tokens (`authn.go`) | single-use marks | issue, consume | consume races itself; the address changes meanwhile | a token works once, for the address it was sent to |
| Identity links (`users_identities.go`, `idps.go`, `users.go`) | accounts, providers, the identities between them | sign-in, first sign-in, link, unlink, provider's delete and update, account's delete and `local_account` | READ COMMITTED transactions that read each other's rows before the commit | no account loses its last way in; an identity means what its issuer said; no circle of locks |
| Provider sign-in (`authn_idp.go`, `oauthidp`) | pending states | start, callback | the callback comes once, late or never | a state is spent once |
| Projects, products | rows, membership | create, share, delete | a shared project has two owners' counters | see Quotas |
| Cache (`cachevalkey`) | copies with a lifetime | fill, invalidate | a fill lands after the invalidation | staleness is bounded |
| Life cycle, health (`app/`) | start order, probes | start, serve, drain | readiness while a mirror loads | no request before the first loads |

Handlers, payloads, validation, pagination, configuration, telemetry, mail,
encryption at rest and the dialler keep no state that these behaviours depend on;
they stay unmodelled, as `PROJECT.json` lists them with the reason.

## 2. Modules

| Module | Models | Abstractions |
| --- | --- | --- |
| `RefreshRotation` | `AuthnService` login, refresh and logout of the refresh token with every store call a step; `RevokedTokensRepository` and its sweeper | a token is its number; one clock for service and database |
| `SettingsMirror` | `TokenLifetimes.Reload`, its four callers on every replica, the channel of `changenotifyvalkey` | the row is its version; rate-limit rules are mirrored the same way |
| `AccessDenylist` | `RevokedAccessTokens`: remote and local set, `Reload` as query, store and prune; `LogoutUser`'s row and `Add` | the database's clock is off by `Skew` |
| `StoreBreaker` | `Breaker.admit` and `record` around a call that ends within the timeout | the cooldown and each call's age, relative, in ticks |
| `ResourceQuota` | one counter: `ReserveUsage`, `DecrementUsage`, `RecountUsage`, and the creations and deletions around them | no signature; the limit is a constant |
| `AccessControl` | every route that writes a role, a policy or a link between accounts, roles and policies, as handler, guard, statement and invalidations; the permissions an account has and their cached copy | a grant is an action and a resource, equal or `*`; at most `Batch` ids per link request, read one by one, a role's policies on one page; one request per slot |
| `Accounts` | `UpdateByID` and `DeleteByID` of an account with every question asked before the statement, the mailed links, a provider's disable | fields are on, off or not said; one provider; names and passwords are left out |
| `LoginSessions` | nothing of the code: what refresh tokens promise, with no table, clock or request | `RefreshRotation` implements it while the requests of one session do not overlap |
| `IdentityLinks` | every transaction that writes `users_identities` or the rows it hangs on, statement by statement, with the row locks each statement takes | the OAuth exchange is one step that may take for ever; a refusal for a reason outside the model is a rollback; roles and the administrator guard are left out |
| `AtomicLinks` | nothing of the code: what an operation on an account's identities promises, each in one step, with no request, lock or statement | `IdentityLinks` implements it |

Each module `M` but `LoginSessions` and `AtomicLinks` has `MCM` (the instance for TLC) and `M_proofs`.
The comment before an action says what is particular about the code; `PROJECT.json`
"map" gives its lines. Operators whose comment calls them a fault are mutations: no
specification uses them, and each breaks the property it is listed with.

The modules meet where the components do. `RefreshRotation` and `AccessDenylist` split
`LogoutUser` by the token it revokes. `IdentityLinks`, `AccessControl` and `Accounts`
write the same tables by different columns: identities and `local_account` under row
locks; links and what they grant; the columns that decide who signs in. What one leaves
out it allows in every order the others could produce (a request of `AccessControl` may
come from any account, an identity of `Accounts` comes and goes by itself), so each
holds whatever the other components do.

How the state corresponds to the code:

- `RefreshRotation`: `row` is the table `revoked_tokens` (`repl` its
  `replaced_by`), `claims` what was signed, `out` what a response carried, `req`
  the program counter and locals of the requests inside `RefreshAccessToken` or
  `LogoutUser`. `ended` is history: sessions whose end was answered.
- `SettingsMirror`: `current` is the atomic pointer, `reads` what each reload has
  queried and not stored, `puts` the position of each `Update`, `channel` and
  `since` a replica's subscription.
- `AccessDenylist`: `remote` and `local` are the two pointers, `reload` the one
  running `Reload`, `logout` the handlers, `row` the unexpired or unswept rows,
  `answered` history.
- `StoreBreaker`: `open` and `left` are `openUntil`, `calls` the requests between
  `admit` and `record`.
- `ResourceQuota`: `counted` and `usage` are the row of `resources_usage`,
  `existing` the resource table, `request` the handlers, `faulted` history.
- `IdentityLinks`: `accounts`, `local`, `providers`, `issuer`, `enabled` and `links` are
  what is committed of `users`, `idps` and `users_identities`; `request` is where each
  transaction is, and the locks it holds follow from that (`KeyShareOfProvider`,
  `ForUpdateOfProvider`, `KeyShareOfAccount`, `NoKeyUpdateOfAccount`). A statement that
  decides reads the committed tables in one step; its writes are there at the commit,
  a later step. `used` and `excused` are history: ids ever given out, and accounts an
  update made federated while they had no identity, which the code allows.
- `AccessControl`: `users`, `roles`, `policy`, `holds` and `composes` are the tables,
  `spent` the ids that are gone (an id is a UUID and never comes back), `request` a
  handler from its body to the keys it has yet to invalidate, `entry` the cached
  `cache:authz:<uid>` with its dependencies, `fill` a read on its way into it. A foreign
  key is a guard, a trigger refuses the statement, a cascade is part of it. Any account
  may call any route: which grant opens a route is data, and fewer callers do less. The
  `admin` flag is constant here; `Accounts` changes it. `vouched`, `raced` and `excused`
  are history: grants a caller was checked to hold, policies edited over another row
  than the one read, entries an invalidation failed to reach.
- `Accounts`: the columns of `users` are sets of accounts (`locked` is
  `disabled_by_admin`), `open` says whether the provider is enabled, `linked` who has
  an identity at it, `mailed` what each link says, `spent` the rows `Consume` left,
  `request` a handler between two statements with what it was judged on. A question the
  code repeats for several fields is asked once, so the model refuses less. Addresses
  are in the service's spelling. `had` holds every address an account ever had: what a
  cached copy may still say. `stale`, `stood` and `overlapped` are history: requests
  during which another one wrote, requests whose caller was an enabled administrator at
  some moment of them, and whether a stale request has written.
- `LoginSessions`: per session the tokens it can go on with, the dead tokens, the ended
  sessions. `RefreshRotation` maps them to the signed tokens that are unexpired and have
  no row, those that are not, and `ended`.
- `AtomicLinks`: the committed tables of `IdentityLinks` and nothing of its requests; a
  step of it is what one commit does, under what must be true of the tables then.

## 3. What the runs check

| Run | Instance | Shows |
| --- | --- | --- |
| `MCRefreshRotation` | 1 user, 2 requests, 3 tokens, time to 3, grace 1 | interleaved store calls: chains are lines inside one login, no refresh extends a session, rows do not change while they matter, a refused token stays refused |
| `MCRefreshSequential` | 1 user, 2 requests, never both in one session | at most one live token per session, an ended session stays ended, and the whole implements `LoginSessions` |
| `MCRefreshLogoutRace` | 2 users, 2 requests | **violated**: logout during a refresh |
| `MCSettingsMirror` | 2 replicas, 1 PUT each, overlapping reloads, all faults | a serving replica has validated values; a PUT answers with its write in force unless an older query overlapped its reload; a mirror that has caught up stays so; the ticker makes all replicas converge |
| `MCAccessDenylist` | 2 replicas, 1 handler each, 1 token, all faults, a database clock one behind | logouts are final here, recorded, and spread |
| `MCStoreBreaker` | 3 requests, threshold 2, cooldown 3, timeout 2 | one probe, no leaked flag, recovery |
| `MCResourceQuota` | 3 requests, 3 ids, limit 2, all faults | the counter covers what exists, the limit holds, the counter is exact at rest |
| `MCQuotaRecount` | the same, the only fault a recount | **violated**: a recount misses a reserved unit |
| `MCIdentityLinks` | 2 accounts at the start and room for a new one, 2 providers, 2 issuers, 2 subjects, 2 requests at a time, 3 in all; from every way the accounts may be linked | no account is left without a way in, identities hold, a sign-in ends at its own issuer, nobody waits in a circle, and a transaction is one step of `AtomicLinks` |
| `MCAccessControl` | 2 accounts and room for one, 2 roles and room for one, 2 policies and room for one, 2 requests of any kind, 1 replica filling the cache | the seeded administrator keeps everything, a grant in use was checked, a revoked grant is dropped |
| `MCAccessWidening` | the same | **violated**: a grant that was given does not reach the cached copy |
| `MCAccounts` | the seeded account, another in any state, room for a third; 2 requests, 8 bodies, 1 mailed link | who may change what, the lock, the links, and that an administrator remains |

**Bounds.** Every unbounded counter has a named bound (`MaxJti`, `MaxTime`,
`MaxVersion`, `MaxRequests`, `Batch`) in the guard of the action that advances it. Two accounts and a free id let a row be
deleted and its address be taken again; two requests start from every combination of
flags, locks and links an account may have, so that what came before them is in the
initial states and not in the depth of the run. Two actors of a kind are
enough for every race below, as each is between two steps of one and one step of
another; three tokens give a chain with a middle, three requests a race for the last
of two units with one more waiting, three transactions let a provider be pointed elsewhere
and linked to again while a sign-in is on its way, and the breaker needs an old call, a probe and a
newcomer. Time runs past the expiry of the longest-lived token. A link request
names one id (`Batch` = 1, 2 is too large for the run); the theorems hold for any number. The bounds make
systems stop where only the bound stops them: such configurations turn deadlock
checking off (`MCIdentityLinks` among them: all three requests may be spent, and the
database may have no account left; `MCAccessControl` and `MCAccounts`, where the requests
are spent); `MCAccessDenylist`, `MCSettingsMirror`, `MCStoreBreaker` and
`MCResourceQuota` keep it on.

**Fairness.** Liveness is stated only where the code schedules for it.
`AccessDenylist` and `SettingsMirror`: a Go ticker fires for ever and a reload
returns, since its query has a deadline (weak fairness), and a reload that is tried
again and again succeeds infinitely often (strong fairness on its success: a database
that fails for ever teaches nobody anything). `StoreBreaker`: time passes, a call ends
within its timeout, and requests keep coming. No fairness is assumed of users,
operators, or of a message arriving.

## 4. What disagrees with the documentation

Three runs refute a sentence of the repository; the traces are short.

1. **Logout racing a refresh** (`MCRefreshLogoutRace`). The refresh has read the
   denylist; the logout revokes the token, finds no successor, answers 200; the
   refresh's `Rotate` does nothing (`ON CONFLICT DO NOTHING`) and its successor leaves
   live. `docs/architecture/authentication.md:492`: "Logout never claims a success it
   did not deliver".
2. **Recount racing a creation** (`MCQuotaRecount`). The lock protects the counter, not
   the insert that follows in another transaction. `repositorypg/resources_limits.go:783`:
   "so a reservation racing with a repair either waits for the corrected value or is
   counted by the recount". Only a replica that starts with reconcile-on-start while
   others serve can meet it.
3. **A role's first policy** (`MCAccessWidening`). The cached permissions depend on the
   roles and policies the inner joins answered; a role without a policy is not among
   them, so linking its first policy invalidates keys that reach none of its members'
   entries. They are refused what they hold until the TTL.
   `docs/architecture/authorization.md:224`: "Each path that widens or narrows a grant
   invalidates". Narrowing does (`RevokedGrantsAreDropped`, proved).

Others are boundaries of what is checked and proved. Two edits of one policy, one naming
the action and one the resource, are each checked for their own merge of the row they
read and then merge into one another: `GrantsAreVouched` excepts such a row (`raced`).
The guard of the last administrator counts and then writes, as its comment says:
`AnAdministratorRemains` excepts a write after another one during the same request
(`overlapped`), and `OnlyTheFlagDoes` a flag that was given between.

Two of them go past what a sentence of the repository says. A reload of a mirror that
read before a PUT may store after the PUT's own: the ticker queries, the PUT writes,
queries and stores, the ticker stores the older row, the PUT answers with the old
lifetimes in force, against `token_lifetimes_mirror.go:25` ("A change made on THIS
replica applies before its PUT answers"). `OwnWriteAppliesBeforeAnswer` excepts such a
PUT (`applied`); the next reload repairs it (`TickerConverges`), and what is repaired
stays so (`CaughtUpStays`). And two refreshes of one token that both read the denylist
before either records its rotation sign a successor each, of which one is in no chain,
against `authentication.md:569` ("two requests refreshing at once": "The successor it
already issued is re-issued"); it is the race of 1. with a second refresh in the
logout's place, and the reason `AtMostOneLiveToken` is about requests that do not
overlap.

The breaker keeps to one probe only with a
cooldown longer than the store's timeout, which no configuration check asks for; and a
late success of a call admitted before the breaker opened closes it. A revoked access
token is refused everywhere to its end only if the database's clock is not ahead of the
replicas'.

## 5. What is proved

For all values of the constants, by TLAPS; each proof module states one inductive
invariant and proves initial states, steps and consequence.

- `RefreshRotation_proofs`. The safety properties of a rotation are not
  inductive: they need what each request in flight knows. The invariant ties a
  request's program counter to the claims it has read, the successor it has signed
  and nobody else has, and the rows that cannot have changed since.
  While the requests of one session do not overlap (`SequentialSpec`: no two requests
  under way carry tokens of one session, those of other sessions interleave freely) it is
  strengthened by what the table is then (`SInv`): every token a client holds is on a
  chain, a chain has one live end, an ended session has none, a walk from anywhere reaches
  the end, and the request under way in a session knows what it read. The facts a request
  knows are about its own session, and a step of another request leaves that session's
  rows and claims as they are (`OthersKnow`). From it every step is a step of
  `LoginSessions` or none (`SequentialSessions`): a rotation is a `Lose` until its answer
  hands out the successor, a logout or a replay is an `End` because the walk misses
  nothing.
- `SettingsMirror_proofs`. A version that is current anywhere was validated. A query made
  for a PUT returns what the PUT wrote or newer (`PutReadsItsWrite`); if its reload stores
  with no older query under way, no reload is left that could take the write back
  (`AppliedIsInForce`), so it is in force at the answer (`OwnWriteFirst`). The same
  argument keeps a mirror that has caught up (`CaughtUpIsKept`). Reloads may overlap as
  they like in both: no hypothesis.
- `AccessDenylist_proofs`. A token whose logout was answered has a row or has expired,
  and in each of its three stages a reload holds it in what it is about to store or in
  `local`; the stages of a replica and of a handler go with what each holds (`StagesOK`).
  Hypothesis: the database's clock is not ahead (`Skew <= 0`).
- `StoreBreaker_proofs`. The flag is up exactly while the probe is out, because every
  other call still out ends before the cooldown does. Hypothesis: `Cooldown > Timeout`;
  `TypeCorrect`, that a count never leaves its range, and `FlagNeverLeaks`, that a flag
  that is up has a probe to take it down, need none.
- `ResourceQuota_proofs`. Counting argument: a unit belongs to a resource or to a request
  on its way to the insert or to the statement that gives it back, so the counter is at
  least the two together, and equal to them without a fault. Finite-set lemmas give the
  cardinalities. No hypothesis beyond the constants' types; the properties themselves
  except the two documented windows (an insert's unanswered commit, a recount).

- `IdentityLinks_proofs`. The argument of the locks: what a statement has read stays
  true until its commit, because whoever could change it waits for a lock the request
  holds. The invariant has one `Facts` per request (what it has checked still holds,
  and a delete holds, or has yet to take, the row of every account linked to its
  provider) and one `Apart` per pair (no conflicting locks, no common key, no common
  new account). No hypothesis beyond the constants' types, except that `NobodyInACircle`
  uses the `ASSUME` that orders the accounts. Its argument: a transaction takes the row of
  a provider before that of an account, only a provider's delete takes several accounts,
  and it takes them in their order. Nobody waits for a request that asks for its first
  lock, and an identity's insert waits only for one that has nothing left to ask for. So a
  circle would be made of deletes on their way up the accounts, and the one that has
  climbed highest waits for none of them. There is a highest one since finitely many
  requests are under way at any time (`FiniteHasLast`, from the well-foundedness of the
  strict subsets of a finite set).
  `ActsAtCommit` is the refinement: a commit is one step of `AtomicLinks` and any other
  step is none, because the facts a statement decided on are among those its locks keep
  till the commit. What no lock keeps `AtomicLinks` does not promise: an unlink is decided
  on another identity at an *enabled* provider, and a disable may commit in between.

- `AccessControl_proofs`. `BootstrapKeepsEverything` rests on the links' foreign keys
  and the two triggers. `GrantsAreVouched` needs, per request, what its guard has
  established and nothing can undo (`Facts`: every grant it is about to hand out is
  `Known`, vouched for or of a raced policy), since `vouched` only grows and a policy
  only changes by an edit that was checked itself. The ids of a link are read one by one,
  so the facts grow with each (`read`): what the first of them granted stays known while
  the last is read, however many there are. `RevokedGrantsAreDropped` needs the
  same of a fill on its way: a grant in an entry is supported by links its dependencies
  name, so whoever removes one has a key left that reaches it.
- `Accounts_proofs`. A request carries what it was judged on, and that still holds
  unless another one has written since (`Fresh`); who asked was an administrator when
  it had to be (`Vouched`), and that is never lost; a body that says lock carries no
  `disabled: false` past its judgement (`Agrees`); a token in use is held by one request
  (`Holding`, `Apart`). Every write makes the other requests stale, so a write has only
  its own facts to account for. All five properties follow, the three about steps from
  the invariant before the step. No hypothesis beyond `AccountsAssumption`.

**Liveness.** `ENABLED`, and so `WF` and `SF` themselves, are beyond the prover; temporal
logic is not. `RevocationReaches`, `MirrorsConverge` and `BreakerRecovers` prove
`RevocationSpreads`, `TickerConverges` and `RecoveryCloses` from `Schedules`: the same
fairness with the guard of each action written in the place of its `ENABLED`. Each guard
is the action's own first conjuncts, so a reader compares the two line by line. (The
breaker's records are fair each by itself, which is more than `Schedules` asks: some
record, and some success's, is made as long as there is one to make.)

- `RevocationReaches`: whoever serves infinitely often stores infinitely often, because a
  crash leaves a replica that must store before it serves again. The first store after a
  revocation may still be of an older query, but leaves none on its way (`Fresh`); the
  second has the token (`Refused`), which is stable.
- `MirrorsConverge`: while the row stands, no step brings an older one back
  (`RowStands`), so the ticker's next store is final.
- `BreakerRecovers`: with no failure left to record an open breaker stays open until a
  success closes it. Were there none, nobody would be asked, no probe would be admitted,
  and `FlagNeverLeaks` and the records would take the flag down; then a request is idle,
  the breaker has cooled and a probe must be admitted. The cooldown may be of any length.

What takes counting stays a hypothesis, as induction does: that the writes of the row end
(`WritesEnd`, which `MaxVersion` implies), that the queries of before the last write end
(`OldQueriesEnd`), and that the cooldown and the failures of an outage run out
(`OutageEnds`). The last two follow from the fairness of the specifications by a descent
over numbers, so they are stated in the proof modules only; TLC checks the three results
from that fairness itself.

Assumptions are the named `ASSUME` of each module. Only model-checked: the three liveness
properties under `WF` and `SF` as such.
`AtMostOneLiveToken`, `EndedSessionIsOver` and `SessionsAreSingleUse` are proved while
the requests of a session do not overlap, and `MCRefreshLogoutRace` shows that they have
to be. Induction over data and RECURSIVE operators are avoided; the chain walk is a
least closed set instead.

## 6. Not modelled, and what could come next

`PROJECT.json` lists every component with its status. Left out of the modelled ones:

- `Accounts`: names, passwords and the password's hash; the re-spelling of an address
  stored before the service spelled them one way; a link's expiry; more than one
  provider (a provider's delete and its locks are `IdentityLinks`'); lists.
- `AccessControl`: the matching of a request's path against a policy's pattern (OPA's
  and a pure function's), the other cache entries, which decide nothing.
- `ResourceQuota`: which limit applies, unlimited scopes, and a second counter: a project
  shared by several members is reserved on one counter and given back on another.
- `IdentityLinks`: the exchange with the provider, whose state is spent by the same
  `Consume` as a mailed link's token in `Accounts`.

Not modelled though a model could say something, in the order of what it would add:

1. Rate limiting: which rule wins (functions against a reference definition), windows
   charged shortest first, local then shared, a store that fails, the sweep of buckets.
   Its mirror and its breaker are `SettingsMirror` and `StoreBreaker`.
2. Sign-in throttling: the failure counters of an account and an address, and their decay.
3. `ResourceQuota` with two scopes and the membership of projects.
4. Readiness, shutdown and the order of the background goroutines.

The rest keeps no state these behaviours depend on: handlers and payloads, validation,
pagination, configuration, telemetry, mail, encryption at rest, the dialler, generated
code and tests. Most of the repository's lines are of that kind (API documentation,
handlers, list queries), so the share of lines the map covers stays small however much of
the protocols is modelled.
