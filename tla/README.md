# TLA+ specifications of nestkit-backend

nestkit-backend is a NestJS service over PostgreSQL (Prisma).  Its handlers are
sequences of awaited database calls.  There is not one transaction in the
repository, so between any two awaits of a handler every other request may run,
and the process may stop.  These modules model the handlers at that grain, check
them with TLC on small instances and prove the most important facts with TLAPS.

## Inventory

| Component (under `src/src`) | State | Operations | Interacts with | What is hard | Status |
|---|---|---|---|---|---|
| Login, OTP, lock (`auth/login`, `auth/otp`, `auth/verify-email`) | `User.failedLoginCount`, `loginAttemptTime`, `twoFactorOtp`; `Session` rows | `login`, `updateOtp`, `verifyOtp`, `verifyEmail` | mailer, sessions | read-then-write of the count, rounding of the lock time, codes used and replaced by overlapping requests | modelled |
| Sessions (`auth/refresh-token`, `auth/token.service.ts`) | `Session.refreshToken`, `refreshTokenExpiry` | `refreshAccessToken`, cleanup in `login` and `verifyOtp`, `verifyEmail` | login, account | find by token, update by id; lost answers; rows deleted meanwhile | modelled |
| Account (`auth/signup`, `auth/verify-email`, `auth/password-reset`, `user/update-profile`) | `User` row, `UserRole`, mails | `signup`, `verifyEmail`, `requestPasswordReset`, `resetPassword`, `updateProfile` | mailer, roles, sessions | racing signups, half-done signups, mails that run ahead of the row | modelled |
| Workspaces (`workspace`) | `Workspace`, `WorkspaceMembership` | create, rename, delete, restore; invite, answer; delete and restore a membership | guards, mailer, every table with a `workspaceId` (cascade) | check then write by id, cascades, half-done creations | modelled |
| Guards (`auth/*.guard.ts`) | none (they read) | `JwtAuthGuard`, `RoleGuard`, `WorkspaceMemberShipGuard`, `PostMemberShipValidation` | every handler | several queries, each of a different moment | modelled |
| Roles (`roles`) | `Role`, `RolePrivilege`, `UserRole` | create, update, delete, assign, unassign | `RoleGuard` | two-step writes, stashed roles that still grant | modelled |
| Posts (`post`) | `Post` | create, update, delete, restore | memberships, workspaces | a guard for one workspace, a post of another; check then write by id | modelled |
| Files (`media/file`, `aws`) | `File`, `S3AccessSession`, stored objects | upload, resize, renewal of signed URLs, delete | S3 or disk, workspaces | row, object and session written separately, removals nobody awaits, cascades | partly |
| Folders (`media/folder`) | `Folder.parentId` | create, update, delete | workspaces | cycles, deletion under moves | modelled |
| Messages (`message`) | `ConnectedUser`, `Message`, socket rooms | connect, disconnect, join, send | sockets | disconnect before the connection row exists, a server that dies | modelled |
| Queue (`que`) | BullMQ queue `video` | add, process | Redis | workers that die, delayed jobs | modelled |
| Subscription plans (`subscription`) | `SubscriptionPlan`, `SubscriptionPlanInfo` | create, update, delete of both | lists | infos that change their plan, cascade | modelled |
| Lists (`shared/base-list`) | none | `paginationInputTransformer`, count and page of every list | every table | zero and boundary pages; rows that come, go and change place during a walk; rows the order does not tell apart | partly |
| Seeds (`seed`) | every table | five seeds, run by hand any number of times | the running service | failures that are only logged, writes nobody awaits | modelled |

What makes each correct is listed with the modules below.  The hazards, each at
its line and with the properties that watch it, are the `hazards` of
`PROJECT.json`.

## Modules

| Module | Models | Checked by | Proved in |
|---|---|---|---|
| `Login` | `LoginService.login`, `updateOtp`, `OtpLoginService.verifyOtp`, `VerifyEmailService.verifyEmail` | `MCLogin` (3 configurations) | `LoginProofs` |
| `RefreshToken` | `refreshAccessToken`, the rows opened by `login`, `verifyOtp` and `verifyEmail`, the cleanup | `MCRefreshToken*.cfg` | `RefreshTokenProofs` |
| `Account` | `signup`, `verifyEmail`, `requestPasswordReset`, `resetPassword`, `updateProfile` | `MCAccount` | `AccountProofs` |
| `Workspace` | workspaces, invitations, memberships | `MCWorkspace` | `WorkspaceProofs` |
| `Roles` | `createRole`, `updateRole`, `deleteRole`, `assignRole`, `unAssignRole`, `RoleGuard` | `MCRoles` (3 configurations) | `RolesProofs` |
| `Requests` | what posts, folders and files share: workspaces, memberships, requests in flight | with `Content` | `ContentSteps` |
| `Post`, `Folder`, `Media` | the handlers of `post`, `media/folder` and `media/file` | with `Content` | with `Content` |
| `Content` | composes the three with the deletion of a workspace | `MCContent` | `ContentSteps`, `ContentProofs` |
| `Presence` | the gateway of `message` | with `Services` | `ServicesProofs` |
| `Queue` | controller and worker of `que`; BullMQ as an environment | with `Services` | `ServicesProofs` |
| `Plan`, `Paging`, `Lists` | subscription plans; the arithmetic of pages; a walk of the pages of a list | with `Services` | `ServicesProofs` |
| `Seeds` | the five seeds, run after one another, with the service used in between | with `Services` | `ServicesProofs` |
| `Services` | the four parts above side by side | `MCServices` | `ServicesProofs` |
| `Stash` | abstract: the life of a row with `deletedAt` | refined by `Workspace` (two tables), `Roles` and `Content` (three tables) | `WorkspaceProofs`, `RolesProofs`, `ContentProofs` |

### How a handler becomes actions

A request in flight is a record of `active`.  It carries what the handler has
read into local variables and a `phase`, the await it is at.  `Begin...` is the
code up to the first await that matters; each later action is the code from one
await to the next; `Abort` is the handler that dies there (an exception, a lost
connection, a stopped process).  A request that is refused before its first
write changes nothing and is a stuttering step, so it is not counted.

Requests are numbered by `serial`, and the number stands for whatever the
request mints: a row id, a refresh token, a hash, a verification token, the key
of a stored object, a signed URL.  The first ones come from UUIDs or from random
bytes; two requests minting the same one is not modelled.  (Two signed URLs can
be the same, and are in `Media`.)  The variables called "observed only by the
properties" record history and appear in no guard.

Some of them record that a failure the code does allow has happened: `cut` (a
handler died between two of its writes), `crossed` (a restore came between the
check and the write of a deletion), `raced` (two requests were at one file, or
one died there), `looped` (a folder was moved below itself), `early` (a socket
was disconnected before its row was created).  A property that makes an
exception for one of them does not say that the failure is harmless.  It says
that nothing less leads to the bad state; with the failure the code really gets
there.

### Login

`attemptAge` is the age of `loginAttemptTime` in half minutes, because the code
rounds to minutes: `TimeDifference` is `Math.round`.  `NoAttempt` is `null`, for
which the JavaScript difference is `NaN` and every comparison false.  `Tick` lets
half a minute pass; ages beyond the lock are one value.  `CountFailure` writes
the count the request *read* plus one, as the code does.  The codes of
`codeGenerator` are the set `Codes`; a stored code carries, for the properties,
the login that issued it.  Sending the code changes no row, so a failing mail is
not an action: the code stays stored either way.  `verifyEmail` opens a session
too, without a password and without a code: `BeginVerifyEmail` finds the row by
its token, which an unverified row has, `VerifyAccount` is the update by id, and
`CreateSession` is shared with the other two handlers.  `otpFeature` is the
`OTP_FEATURE` of the environment: on or off from the start, and never changed.

- `LockIsFounded`: the stored count never exceeds the failures really presented,
  and the count and the time that ends the lock are never apart.
- `SessionAuthenticated`: every session is of a verified account and follows a
  right password of that very user, and with `OTP_FEATURE` a code; or it is the
  one `verifyEmail` opens, for the user whose own token it was given.
- `OtpIsRedeemed`: a code redeemed to the end is never stored again
  (`SpentOtpGone`), and no verification that begins after that opens a session
  with it (`RedeemedBefore`).  Verifications that were under way together may
  all do so: the check of the code and its removal are apart.
- `LockEnds`: a lock ends by itself.
- Violated: `RetryAdviceHolds`, `FailuresAccumulate` (see Findings).

### RefreshToken

`BeginRefresh` is the `findFirst` by token, `UpdateSession` the `update` by id
(which throws if the row is gone), `Respond` the answer reaching the client;
`Abort` in the phase `respond` is a lost answer.  Only tokens a client holds are
presented.

- `TokensOpenOne`: `findFirst` can only find one row, and neither a rotated
  token nor a removed session comes back through a request that had already
  found the row.
- `HeldAccounted`: a delivered token is in its row, was rotated, or its row was
  removed.
- `SequentialAccess`: a client that waits for each answer keeps its session.
- Violated: `VerifyEmailTokenUsable` (see Findings).

### Account

The user row with its USER role, and the mails handed to the mailer.  `signup`
and `requestPasswordReset` do not await `sendMail`, so a mail is a member of
`mails` that may be acted on at any later moment or never.  `JwtAuthGuard` reads
the row for `resetPassword` and `updateProfile`: `BeginReset` is that read with
the check, `SetPassword` the update after the hash.

- `MailsMatchAccounts`: the mail, the row, the role and the verification belong
  together, also when two signups of one address race or one dies half way.
- `ResetConsumesRequest`: a stored reset request is good for one reset, unless
  two resets passed the check together.

### Workspace and Stash

`createWorkspace` is two creates; `sendInvitation` is find, create, mail;
`acceptInvitation` is find, then update or delete by id.  The four stash handlers
(`deleteWorkSpace`, `restoreWorkSpace`, `deleteMembership`, `restoreMembership`)
have one shape: a check of the caller, a `findUnique` by id and `deletedAt`, and
a write by id.  They are the phases `find`, then `stash`, `destroy` or `restore`.
`updateWorkspace` looks for the name and then writes it by id.  Deleting a
workspace cascades to its memberships, as the schema says.  The privileges of
the caller (`RoleGuard`) are left out: every caller has them.

- `MembersBelong`: nobody is a member who was not asked, nor twice of one
  workspace, nor of a workspace that is gone; also with two overlapping
  invitations that both found no membership, and for an invitation under way
  when the workspace was destroyed.  (Two invitations are kept apart by the
  unique constraint.  `createWorkspace` does not look for a membership, but
  nobody can be invited before the owner's row is there.)
- `PendingHasMail`: an invitation can be answered, unless its request died
  before the mail.
- `OwnedUnlessCut`: a workspace without an owner's row is one whose creation was
  cut short, or whose owner's membership was destroyed.
- `DestroyedFromStash`: an active workspace is destroyed only when its restore
  came between the check and the delete of a deletion from the stash.  (The code
  does allow that much: the delete is by id alone.)
- `RowsAreStashed`: both tables implement `Stash`.  The refinement mapping takes
  the number of the request that created a row for its id; a row that was
  created and is not there is gone.  A step of `Workspace` is one create, one
  stashing, one restore, the destruction of a set of rows (the cascade), or a
  stutter.

### Roles

`createRole` is `role.create` and a `createMany` of the privileges; `updateRole`
is a `createMany` and a `deleteMany` (its `role.update` of the title is left out
with the title); `deleteRole` has the shape of the other stash handlers, without
a restore; `assignRole` and `unAssignRole` find, then write by id.  `createMany`
writes all its rows or none: `Addable` is the foreign key and the unique
constraint.  `DestroyRoles` is the cascade of the schema.  The privilege a
handler asks of its own caller is left out: the caller has it.  `DestroyWorkspace`
and `ToggleOwner` are what module `Workspace` does to these tables, each as one
step.

`RoleGuard` is the requests with `op = "canActivate"`: the owner's membership,
the ADMIN role, the caller's roles and their privileges, each in a step of its
own, as they are queries of their own.  It looks neither at `deletedAt` of the
role nor at the workspace of the assignment, and any role of type ADMIN may be
the one it finds; the model says the same.  `Watch`, part of every step, records
for each guard under way whether its caller could have been let through at some
moment and how often a table was written meanwhile.  `passed` is what had been
recorded when a guard let its caller through.

- `CreatedWithPrivileges`: a role has the privileges it was created with, unless
  an update took one away, its creation is still under way, or it was cut short.
- `AssignmentsHold`: nobody has a role twice, and no privilege or assignment is
  there without its role, against requests that found the role, or found no
  assignment, some time ago.
- `GlobalBySuperAdmin`: global roles and their privileges change only under a
  super admin's request, or go with their workspace.
- `RoleDestroyedFromStash`, `RolesAreStashed`: a role goes only from
  the stash, and the table implements `Stash`.  Roles keep a stronger promise
  than workspaces do: there is no restore to race with.
- `PassedIfOneWrite`: the guard is right if at most one write comes between its
  queries.
- Violated: `PassedHadPrivilege`, with two writes (see Findings).

### Content: Post, Folder, Media

The three modules share `Requests`: the workspaces, the memberships (which
`ToggleMember` changes as module `Workspace` would) and the requests in flight.
A request is a record whose `phase` also tells the handler it runs.
`DestroyWorkspace` is the cascade of the schema over all three tables.

`Post`: `WorkspaceMemberShipGuard` reads a membership in the workspace of the
*header* before the handler starts; the handler validates the author or the
caller again, in a query of its own, and writes by id.  An `authorId` may be left out
(`NotGiven`) or be null (`None`).  `createPost` treats both alike; `updatePost`
validates the caller for both and then spreads its input, so that a null is
written and the post has no author any more.

- `AuthorsWereMembers`: the author of a post, if it has one, is or was a member
  of the post's workspace, though `updatePost` may be called with any
  workspace's header.
- `PostDestroyedFromStash`: as for workspaces, up to a restore in between.

`Folder`: `createFolder` and `updateFolder` are one write each, with any folder
for a parent.  `createFolder` has no guard but `JwtAuthGuard`: without the
header of a workspace the folder has none, and no cascade reaches it.  A folder
that goes leaves its subfolders without a parent (`SetNull`).

- `RootedUnlessLooped`: every folder is below a root unless a folder was once
  moved below itself, which nothing in `updateFolder` prevents; `looped` records
  it.  `Above` is reachability, stated with closed sets.

`Media`: a file has a row, an object, and, if it is RESTRICTED and in S3, the
sessions of its signed URLs.  Upload stores the object, creates the row, then
the session; the upload of a profile image has no workspace.  A renewal (`updateFileUrl`) signs, upserts the session, which
Prisma does as a find and a write, and updates the row; whether a URL has
expired is left open.  `deleteFile` starts the removals of the resized copies
and does not await them: `FindCopies` turns one request into several.  A removal
is sessions, row, object.  A file row has sessions without `onDelete`, so the
delete of a file, or of its workspace, is refused while one is there.

- `ReferencesHold`: no row outlives the workspace it names, no session its file.
- `ObjectsAgree`: a row's object is there; an object without a row is being
  written or removed, or was left by a request that failed between the two or by
  the cascade of a workspace, which removes no objects.
- `OneSessionInTurn`: a file that requests came to one at a time has one
  session, of the URL in its row.  (With overlapping renewals it may have
  several; they go when the file is removed.)
- `CopiesGoWithOriginal`: a deletion leaves no copy behind, unless another
  request was at the copy or the original meanwhile.
- `RowsAreStashed` of `Content`: the three tables implement `Stash`; a renewal,
  an update or a restore under way brings no destroyed row back.

### Services: Presence, Queue, Lists, Seeds

Four parts that share nothing, or do not run beside the rest.  `focus` chooses
the one a behaviour is about, so that their states do not multiply.

`Presence`: `handleConnection` and `handleDisconnect` are callbacks that do not
wait for each other; each awaits one call.  `Crash` is the server that dies.

- `StatusAgrees`: a row that is ONLINE has a connected socket, or its update is
  under way, or ran before the row was created, or will never run; a row that is
  OFFLINE has no connected socket.
- `ReceivedIsInHistory`: whatever a socket received is in the history.

`Queue`: the jobs as Redis has them.  Delay, hand-over, stall and retry are
BullMQ's and marked external; `RunTask` is one turn of the worker's loop.

- `JobsEnd`: every job fails, or completes with all of its progress reported; in
  particular a job that kills its worker does not come back for ever.

`Plan` and `Lists`: plans and infos are written by handlers of one call.  A list
counts the rows and then reads a page, in two queries; the client walks the
pages while rows come, go and change.  The order is any the input can ask for:
by `createdAt`, `name` or `price`, up or down, `createdAt` descending if nothing
is said, and by id descending if one of the two is null.  `Place` is a row's
value in that column, `Ahead` the rows that come before it or have the same
value, and `Orderings` what the database may answer: prices and times may be the
same, and nothing fixes the order of such rows, nor makes it the same in two
queries.  `UpdatePlan` moves a row when the list is by name or price.  `Paging`
is `paginationInputTransformer`, page 0 and size 0 included.

- `WalkShowsAll`: a walk shows every row that lost no place while it went on
  (`steady`), however many rows came or fell back, unless one came between the
  last count and its page (`grew`); over a table at rest whose rows the order
  tells apart (`quiet`) it shows each row once and in order.  A row loses a place
  when one ahead of it goes or moves behind it, when it moves ahead itself, and
  when at a read another row has its value in the column.  These are exceptions
  because the code really misses rows then: pages are cut by position, and
  nothing breaks ties.

`Seeds`: `Program` is the writes of `main` in their order.  A part gives up at
its first failing call and the next one goes on (`GiveUp`); the process may be
killed anywhere, also with writes nobody awaited (`assigning`).  Between runs
somebody signs up and files are uploaded.

- `SeedsRepair`: there is never a second global role of a type (a super admin's
  `createRole` makes roles of a workspace, of any type), and each part that the
  latest run got to the end of left what it is to leave, however earlier runs
  ended.

## Runs

| Run | Shows | Bounds | Distinct states |
|---|---|---|---|
| `login` | founded lock, authenticated sessions, redeemed codes, locks end; password, code or link; with `OTP_FEATURE` on and off | 1 user, 2 codes, 4 requests, 3 at a time, limit 2, lock 1 minute | 474,703 |
| `login_advice`, `login_lost` | the findings | the smallest that exhibit them | |
| `refresh` | tokens and rows | 4 requests, 3 at a time | 291,452 |
| `refresh_verify` | a finding | 2 requests | |
| `account` | signup, verification, reset, profile | 2 addresses, 5 requests, 3 at a time | 107,303 |
| `workspace` | memberships; refinement of `Stash` by both tables | 2 users, 4 requests, 3 at a time | 31,788 |
| `roles` | creation, constraints, global roles, destruction | 1 user, 1 workspace, 2 privileges, SUPER_ADMIN seeded, 3 requests, 2 at a time | 860,303 |
| `roles_guard` | the guard with one write; refinement of `Stash` | 1 user, 1 privilege, ADMIN and USER seeded, 3 requests, 2 at a time | 383,809 |
| `roles_moment` | a finding | the smallest that exhibits it | |
| `content` | posts, folders and files; refinement of `Stash` by the three tables | 2 users, 2 workspaces, 3 memberships, 4 requests, 2 at a time, one of the tables in a behaviour | 850,585 |
| `services` | presence, jobs, lists, seeds | 2 users, 2 sockets, 1 message; 2 jobs; 3 plans, 3 names, 2 prices, 2 times, 4 writes, page sizes 1 and the default 2; 2 runs of the seeds | 768,882 |

The bounds are enough for the cases the properties are about.  Handlers touch
the rows of one user or one workspace, and rows of different users meet only in
the cleanup of expired sessions and in invitations; so one user and three
requests in flight give every pairwise race with a third request in between.
Four requests allow create, stash, and a deletion racing a restore; a login, its
two verifications and a further login, or the verification of the address and three
logins; two signups of one address, the
verification of the winner, and a reset.  For roles, three requests, two of them
overlapping, allow a creation, an update or a deletion of that role and a third
request against either, with a workspace that is destroyed or an owner who
leaves in between; one user suffices, since rows of different users never meet
in these tables.

In `content`, four requests allow an upload, a copy, and a deletion against a
renewal; two uploads and a destroyed workspace; three nested folders and a move;
a post with two requests against it.  The constraint `OneTable` keeps the tables
apart: no handler of one reads another.  It has three memberships at most in a
behaviour, as a request looks at no more: the caller's in the workspace of the
header, the caller's in that of the post, and the author's.  It creates posts
without an `authorId` of null, which `createPost` treats as one left out;
updates have it.  What the proofs of `Content` state holds without it.

In `services`, two sockets of one user or of two, two jobs for one worker, and
three plans on pages of one or two rows are the smallest
instances where one can take the other's place; the second run of the seeds
meets what a broken first one left.  Two prices and two times are enough for
ties and for a row that moves over another.  The constraint `OneColumn` lets
only the column vary that the list is ordered by, and creates infos only while
no walk is under way; it says nothing of the states of the other parts, so
`JobsEnd` is checked on all of them.  The proofs need no bounds and no
constraint.

Deadlock is checked in `Login` alone, where time always passes.  Elsewhere the
number of requests is bounded, and the system stops when all have been served.

Fairness: `FairSpec` of `Login` has weak fairness of `Tick` alone: time passes.
`Spec` of `Services` has weak fairness of `Work` alone: a worker is running and
BullMQ hands out, promotes and recovers jobs; adding a job, failing and dying
are not fair.  Nothing is assumed of the requests, which may stay between two
awaits for ever, nor of the clients.

## Proofs

All for any value of the constants, from the named assumptions of the modules.

`LoginProofs`:

- `TypeCorrect`, by cases of `Next`.
- `CountsAreBacked` and `LocksAreFounded` from `CountInv`.  `CountBacked` is not
  inductive: a request writes the count it read plus one, so the invariant must
  say that what each request in flight has read is also bounded by the failures
  so far, and that a request on its way to count a failure has not been counted.
- `SessionsAreAuthenticated` from `AuthInv`, which carries the authentication
  through the request: what a request in flight relies on (`via`) is a password
  check that passed or a token that was found, what a stored code carries is a
  password check that passed, and an account that was verified stays so.
- `OtpsAreRedeemedOnce` from `SpentInv`, on top of `AuthInv`: a login that still
  has to store its code has not been spent, each login stores its code once, and
  a verification that relies on a spent code began before it was spent.

`RefreshTokenProofs`: `TypeCorrect`, `RotatedStaysGone`, `DeletedStaysGone`,
`TokensIdentifyRows`, the three together as `TokensOpenOneSession`,
`HeldStaysAccounted` and `ClientsInTurnKeepSession`.  The common argument is that a request mints its token and
its row id once: `MintInv` says that a request which has still to write is in no
row, no rotated token and no delivered answer yet.  For `HeldStaysAccounted`,
`HeldInv` says that the token a request has still to deliver is accounted for
already.  For `ClientsInTurnKeepSession`, `TurnInv` says of a row that was never
refreshed twice at a time what its one request is about: before the update the
row's token is older than the request and a client holds it, after it the token
is the request's own; no client's token of the row is newer than the row's.

`RolesProofs` (`RolesAssumption`: there is a user and a workspace, the seeds use
privileges that exist):

- `TypeCorrect` from `TypeInv`: `Sound` says that the request that creates a
  role names it after itself and that only guards read in the guard's phases,
  without which the types of the rows they write do not follow.
- `AssignmentsAlwaysHold` from `TableInv`, which is inductive because each write
  looks at the constraint itself.
- `RolesAreDestroyedFromStash` from `NameInv`: `role.delete` looks at the id
  alone, so the invariant must say that the role a deletion has found in the
  stash still is there or gone, and that no creation under way will use its id.
- `RolesAreCreatedWhole` from `CreationInv` and `AskedInv`: a creation is for the
  role named after it, which nobody else has asked for; a role that was created
  has its privileges, or lost them to an update, or is gone, or its creation has
  still to add them or was cut short.
- `GlobalRolesNeedSuperAdmin`, an action property, from `SuperInv`: whoever is
  about to write to a global role is a super admin.  The request looked at the
  role it found; the invariant carries this to the role that has the id when the
  write is made, because a row keeps its type and workspace and ids are not used
  again.
- `OneWriteIsHarmless` from `GuardInv`.  `Honest` compares the roles a guard will
  still look at (`Reach`) with the roles that count (`Candidates`): equal or fewer
  as long as nothing was written, and after one write still without the
  privilege unless the caller was entitled at a moment that was recorded.  The
  step that needs care is the write itself (`OneWrite`).  With two writes it is
  false, which is the finding `PassedHadPrivilege`.
- `RolesFollowStash`: the step simulation, row by row (`RoleAt`).

`AccountProofs`:

- `TypeCorrect` and `MailsAlwaysMatch` from `Inv`, which is `TypeOK`, `RowInv`
  and `MailInv`: the row and the mail a request in flight has still to write
  bear its own number, so that no request writes for another.
- `ResetsConsumeRequests` from `ResetInv`, by counting: what is `Owed` to an
  account, the request it has stored and the reset that is under way for it, is
  never more than the stored requests that have not been used.

`WorkspaceProofs`:

- `TypeCorrect` from `TypeInv`; `MintInv` and `UniqueInv` say that rows are
  named after the requests that made them and no two share a key.
- `MembersAlwaysBelong`, `PendingAlwaysHasMail`, `WorkspacesAreOwned` from one
  invariant each (`BelongInv`, `PendingInv`, `OwnedInv`), which says of each
  phase what its request has found and will not look at again.  That a
  membership is there once needs `OnceInv`: while the owner's row of a workspace
  is still to come, the workspace has no membership and no invitation
  (`Inviting`) is under way.
- `DestroyedAreStashed` from `DestroyInv`: what a deletion is about to destroy
  is stashed, unless its restore was recorded.
- `RowsFollowStash`: the step simulation.  `TableStep` is what a step can do to
  a table, `StashStep` that this is a step of `Stash` or none.

`ContentSteps` says once what each action does, in the words the invariants
need: `Begins` (a request starts), `Step(q)` (a request is served, what it
becomes, what it does to each table) and the steps of one call.  It proves
`TypeCorrect`.  `ContentProofs` rests on it and on `NumberInv`: requests have
numbers of their own but for the removals of a file and its copies; a request
that creates a row has the row's number, which no row has had; every other is
about a row that was created.

- `ReferencesAlwaysHold` needs `SessionInv`: an upsert that found a session
  writes it by id, perhaps after the session and the file went; it brings back
  neither, because numbers of sessions are used once and a write that finds no
  session fails.
- `ObjectsAlwaysAgree` needs `ObjectInv`: an object is stored before its row is
  created, and no row names it once it is to be removed.
- `AuthorsAlwaysWereMembers` needs `AuthorInv`: what a request has read of the
  memberships was true then, and the post it found keeps its workspace; an
  update writes the caller, null, or no author at all.
- `PostsAreStashed` from `DestroyInv`, as for workspaces.
- `FoldersAreRooted`: the set of folders above the new parent is closed under
  parents and does not contain the folder moved, so that a set of folders
  without a root after the move would have been one before.
- `CopiesAlwaysGoWithOriginal` from `FileInv`, which has three parts: the
  original of a copy is there while its number is (`OriginInv`); two requests at
  one file have been recorded as meeting there (`MetAtFile`); the copies of a
  file that is being removed are being removed too, and a file at its last step
  has no session left to refuse the delete (`RemovalInv`).
- `SessionsInTurnAreOne` from `TurnInv`: what holds of a signed file between the
  two writes of a renewal, the session before the URL of the row, for each await
  of the one request at the file (`AloneAt`).
- `ContentFollowsStash`: each table alone makes, puts away, restores or loses
  rows (`TableStep`), numbers are not shared between tables (`Apart`), so the
  three taken together make one step of `Stash` or none; the cascade of a
  workspace takes rows of all three at once.

`ServicesProofs`:

- `StatusAgreesWithSockets` from `PresenceInv`, `ReceivedStaysInHistory` from
  `StoredInv` (what is to be emitted is stored).
- `CompletedJobsAreWhole` and `ProgressGoesForward` from `QueueInv`: progress
  follows the loop variable of whoever has the job.
- `InfosAlwaysHavePlan`, the foreign key against updates and cascades.
- `WalksShowAllRows` from `WalkInv`.  A row's `Rank` is how many rows of the list
  do not come after it.  A steady row is only ever pushed back (`RankGrows`), so
  one that was not shown is ranked behind the pages read.  A row without ties is
  in the answer at its rank, whichever of the `Orderings` the database chose
  (`RankIsPlace`), and a walk that showed every row at its rank showed one of the
  `Orderings` (`PlacesAreOrdering`).  What was counted is no less than what there
  is, unless a row came since.
- `SeedsAlwaysRepair` from `SeedInv`.  `Done` is the steps the latest run has
  behind it in parts it has not given up; for each step there is a conjunct that
  says what it leaves, which every later step keeps, and a part that fails, a
  kill and a use of the service take their steps out of `Done`.  A create nobody
  awaits is either in the table or in `assigning`.  `ProgramIs` computes the 35
  steps of `Program` and their parts once.
- `ServicesTyped`, which joins what the invariants above say of types.
- `EveryRowHasPage` and `NoRowOnTwoPages`, the arithmetic of `Paging` for every
  number of rows and every page size.

Every invariant and action property of the passing runs is stated by a theorem.
Only model-checked: `LockEnds` and `JobsEnd`, because liveness under fairness is
out of the prover's reach.  That the database answers with one of the
`Orderings` is taken from the `orderBy` of the query.

## Findings

- `RetryAdviceHolds`: the number of minutes in "Maximum retry count reached" is
  too small (`login.service.ts:71`, `otp-login.service.ts:49`).
- `FailuresAccumulate`: overlapping wrong attempts are lost (`login.service.ts:84`).
- `VerifyEmailTokenUsable`: the refresh token `verifyEmail` answers with is
  stored nowhere (`verify-email.service.ts:43`).
- `PassedHadPrivilege`: `RoleGuard` can let a caller through who held the
  privilege at no moment of the check (`role.guard.ts:75`).

## Not modelled

- Lists other than `listSubscriptionPlan`, which are the same code on another
  table; filters by name and by `fromStash`; `userList`.
- `currentUser` and `getUserPermission`: they make the queries of `RoleGuard`,
  which `Roles` models, and write nothing.
- What `update-profile-image` does after its upload, which is in `Media`: it
  writes the URL of the file to the user.  A crop of an image without dimensions
  (`file.service.ts:147`), which stores nothing but still creates a row.
- `getFolder`, `listFile` and the other reads of `media`, but for the renewal of
  URLs.  (Two things met while reading them: `get-folder.service.ts:30` lists
  every root folder when the folder asked for is missing, and
  `get-file.service.ts:114` answers an unexpired signed URL with `BACKEND_URL`
  before it.)
- The mailer: what its failure does to a caller is modelled there.  Wiring,
  configuration, validation and error formatting; the gRPC and RabbitMQ samples,
  which keep no state.

Contents of rows that no property is about (names, IP addresses, mail texts,
titles) are left out of the models.  Names, prices and times of plans are
numbers, as only their order matters.

## Plan

What is left, the most useful first:

1. `Roles` and `Content` composed: `RoleGuard` before the handlers of posts,
   with a role that goes between the guard and the write.
2. The user's profile image as a reference from `Account` into `Media`.
3. Proofs of what these compositions promise, and of what a run of the seeds
   owes to the foreign keys (`tables.granted` within `tables.roles`, and so on).
