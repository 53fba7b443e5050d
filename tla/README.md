# EduGear back end in TLA+

EduGear is a multi-tenant school management service: NestJS controllers and
services over Prisma and PostgreSQL (READ COMMITTED), Redis as a cache,
object storage for files, Paystack for online payments and Resend for mail.
This directory holds its specifications: TLA+ modules, TLC configurations,
and proofs checked by TLAPS. Paths below are relative to `src/src/` unless they
begin with `prisma/`, `scripts/`, `test/` or are `README.md`, which are in `src/`.

Everything in this system that can go wrong quietly has one shape: a request
reads, decides, and writes, and other requests run in between. The code answers
with four tools, and the models keep all four: a row lock taken first
(`database/row-lock.ts`, `SELECT ... FOR UPDATE`), an update that is
conditional on the state it expects (`updateMany where status = ...`), a unique
index whose violation (P2002) is caught and retried or reported, and, where
several systems are involved (Paystack, storage, mail, Redis), an order of steps
chosen so that a failure leaves the harmless half. Where the code uses none of
them, the models show what then holds only while requests do not overlap.

## 1. Inventory

State is that of `prisma/schema.prisma`. "Correct" names what the component owes
its callers; "hard" is what makes it difficult. The last column names the
modules; *partly* is explained in section 8.

| Component | State | Operations | Hard | Correct | Module |
|---|---|---|---|---|---|
| Payments (`finance/payments.service.ts`, `fee-math.ts`, `receipt-number.ts`) | `payments`, the balance columns of `student_fees` | record, verify, reject; recalculateInvoice, nextReceiptNumber | transactions of one invoice queue on its lock, those of different invoices share only the receipt sequence; retry on P2002; status checks before the transaction | amountPaid is the verified money; never more claimed than billed; receipts unique, gapless, permanent; a payment only moves forward | `Payments`, partly |
| Student fees (`finance/student-fees.service.ts`) | `student_fees`, `student_fee_items` | assign, discount, waive, cancel | the same lock; assign reads structure and students outside the transaction | a decision stands; no money on a cancelled invoice; nobody billed twice for one structure | `Payments`, `FeeStructures` |
| Online payments (`finance/paystack/`) | `webhook_events`, `providerReference`; charges at Paystack | start, sweepAbandoned, refresh, handleWebhook | no transaction spans two statements; Paystack redelivers; crash between claim and work; sweep races payer | credit only what was collected in full, once; a claim or an acknowledgement never outlives a failure | `Paystack` |
| Fee structures, categories | `fee_categories`, `fee_structures`, `fee_structure_items` | create, update, publish, archive, remove | invoices are counted before the transaction that replaces the items | amounts are frozen once invoiced; an archived structure is neither published nor billed | `FeeStructures` |
| Payment reminders | `fee_reminders`, the inbox | send, history | sent before logged; cooldown, balance and pending money read apart | no second mail within the cooldown; only what is owed is asked for | `Reminders` |
| Finance documents, reports, statements | none | reads | - | - | - |
| Result sheets (`results/result-sheets.service.ts`) | `result_sheets`, `student_results`, `subject_results` | compute, submit, approve, publish, returnToDraft, comments | computed from tables others write; staleness flag; students move | what is published is what was computed from the scores at submission | `ResultSheets` |
| Scores, schemes, grading | `scores`, `assessment_components`, `grade_bands` | save, setScheme, setGrading | context read outside the sheet's lock; replacement row by row | no score lands in a sheet that is being submitted; components make 100, bands cover 0-100 once | `ResultSheets`, `Assessment`, `ResultMath` |
| Subjects | `subjects`, `class_subjects`, `teaching_assignments` | create, update, remove, offer, withdraw, assignTeacher | scores are counted before the offer goes | a sheet covers the subjects of its class | `ResultSheets`, partly |
| Report cards, results access | none | reads | - | - | - |
| Students, admission numbers | `students` and the arm each points at | admit, bulkAdmit, update, changeStatus, promote, remove | number allocated by retry; capacity counted before the write; movers read before the update | numbers unique; an arm holds at most its capacity; promoted means moved | `ClassArms`, `AdmissionNumbers`, `Files` |
| Student import | the same, and guardians | importRows, importCsv, legacyBulk | rows checked before one transaction under many arm locks | all or nothing; never deadlocks; a dry run shows what would happen | `StudentImport`, `ClassArms` |
| Guardians | `guardians`, `student_guardians` | create, update, link, updateLink, unlink, remove | demotes the primaries it can see | one primary per student | `Guardians` |
| Sessions and terms | `academic_sessions`, `terms` | create, update, setCurrent, remove | marker moved by two updates; overlap looked for before the write | one current session and term; no day in two | `AcademicCalendar` |
| Classes and arms | `classes`, `class_arms` | create, update, remove | capacity compared with a count taken before | capacity never below enrolment; only empty arms go | `ClassArms`, partly |
| Attendance | `attendance_records` | register, save, tally | an upsert per student, row after row in one transaction | a save is there whole or not at all, whatever part of the register it names | `Attendance` |
| Authentication | `users` (attempts, lock) | login, refresh, logout, reset, change, switchSchool, registerSchool | counters and one-time links under concurrency | lockout after the limit; a link works once | `Sessions`, `Accounts`, partly |
| Tokens (`auth/token.service.ts`) | `refresh_tokens`, `verification_tokens` | issue, rotate, revoke (one, a family, all of a user), create and consume verification tokens | reuse detection by family; rotation in two statements | a revoked family has no live token | `Sessions`, `Accounts` |
| Membership cache | Redis | get, set, invalidate (membership, role, user) | a fill races an invalidation; Redis fails | nothing is served that stopped to hold longer ago than the time to live | `MembershipCache` |
| Users and memberships | `memberships` | invite, acceptInvitation, update, revokeAccess | proprietors counted without a lock; acceptance beside a new invitation | a school keeps a proprietor; a revoked person stays out | `Memberships` |
| Roles | `roles`, `role_permissions` | create, update, setPermissions, remove, reassignMembers | what the caller holds is read before the write | nobody gives what they do not hold | `Roles` |
| Platform administration | `platform_admins`, `schools` | grant, revoke, suspend, reactivate, quota | last owner under concurrent revocations | the platform keeps an owner; operators belong to no school | `Memberships`, `Sessions`, `MembershipCache`, `Files`, partly |
| Files | `file_objects`, storage | upload, replaceLinked, removeLinked, attachToPayment, remove | bytes before row; quota summed under an advisory lock | quota holds; a link never points at nothing | `Files` |
| Parent portal | `guardians.userId` | invite, linkStaffLogin, revoke; reads | the login is looked for before it is written | only a guardian's own children | `Guardians`, partly |
| School settings, schools | `school_settings`, `schools` | update, provision | read, merge, write | no update lost; some day is open | `Settings`, partly |
| Notifications, audit | mail, `audit_logs` | fire and forget after commit | - | never fail the operation | `Reminders`, `ResultSheets`, partly |
| Tenant isolation, health, configuration | none | - | - | - | - |

How they interact. Controllers call services in one process; there is no queue
and no worker, so concurrency is between requests (and deliveries of Paystack).
`PaystackService.start`, `refresh` and `handleWebhook` call
`PaymentsService.record` and `verify`, the path a bursar takes; the parent
portal calls `start`. `StudentFeesService.assign` creates the rows
`PaymentsService` locks. `SchoolSettingsService` changes the prefixes from which
`nextReceiptNumber` and `createWithGeneratedNumber` build a number.
`ScoresService` and `AssessmentService` write what `ResultSheetsService`
computes from, and mark its sheets stale; `StudentsService` moves students
between the arms those sheets are about, and fills the same arms as
`StudentImportService`. `PaymentsService`, `StudentsService` and the school's
profile point at files. `UsersService`, `RolesService` and `AuthService` invalidate
the membership cache every authenticated request reads. `PROJECT.json` lists
the hazards at their lines.

## 2. Modules

Components:

| Module | Code |
|---|---|
| `FeeMath` | money arithmetic, table shapes, receipt sequence: `fee-math.ts`, `receipt-number.ts` and the helpers of `payments.service.ts` |
| `Payments` | the transactions of `PaymentsService` and of discount, waive, cancel, interleaved |
| `Paystack` | `PaystackService`, statement by statement, over the ledger |
| `FeeStructures` | `FeeStructuresService`, `FeeCategoriesService`, `StudentFeesService.assign` |
| `Reminders` | `PaymentRemindersService` |
| `ResultSheets` | `ResultSheetsService`, `ScoresService.save`, offers of `SubjectsService` |
| `Assessment` | `AssessmentService` |
| `ResultMath` | `compute-results.ts`, `ranking.ts`, `grading.ts`, against reference definitions |
| `ClassArms` | rolls and capacities: `ClassArmsService`, `StudentsService`, the writing half of an import |
| `AdmissionNumbers` | `createWithGeneratedNumber` and `allocateNumbers` |
| `StudentImport` | `StudentImportService` |
| `Guardians` | `GuardiansService`, `PortalAccessService`, the portal's guard |
| `AcademicCalendar` | `AcademicSessionsService`, `TermsService` |
| `Attendance` | `AttendanceService` |
| `Memberships` | `UsersService`, `PlatformAdminService` |
| `Roles` | `RolesService` |
| `MembershipCache` | `MembershipCacheService`, `AccessControlService`, what `JwtStrategy` answers |
| `Sessions` | `TokenService` under `AuthService` and `PlatformAuthService` |
| `Accounts` | login attempts, verification and reset links |
| `Settings` | `SchoolSettingsService` |
| `Files` | `FilesService` and its callers |

Abstract specifications, each implemented by a detailed one:

| Module | What it promises | Implemented by |
|---|---|---|
| `InvoiceLedger` | every operation on invoices and payments happens at once | `Payments` (`ImplementsLedger`, checked and proved) |
| `SheetPath` | DRAFT, SUBMITTED, APPROVED, PUBLISHED, and what of a report card each stop fixes | `ResultSheets` (`FollowsPath`, checked and proved) |
| `BoundedStaleness` | an answer is what holds, or held no longer than a bound ago | `MembershipCache` (`StalenessIsBounded`, checked and proved) |

Instances for TLC: `MCPayments`, `MCPaystack`, `MCResultSheets`, `MCClassArms`,
`MCMembershipCache` and `MCAdmissionNumbers`, each of one module, and three that put
components side by side: `MCAccess` (memberships, cache, roles, sessions,
accounts), `MCOffice` (fee structures, calendar, guardians, settings, files,
reminders, register, schemes, arithmetic, seats, numbers, imports) and `MCLive`
(liveness). In those three a behaviour belongs to one component under one
instance, its *part*: the variable `on` says which, its `Init` and `Next` are used
as they are, and the variables of the others stay `None`. Components that share a
row are in one module (`ClassArms` has everyone who fills an arm); those put side
by side share none, so that interleaving them would add states and no cases.
`MCAccess` extends `Roles`, whose own constants are those of one part
(administrators who overlap); the other parts are instances.

Proofs: `FeeMathProofs` (sums, receipt sequences), `PaymentsProofs` (inductive
invariant and safety, implementation of the ledger, action properties, retries),
`PaystackProofs`, `ResultSheetsProofs`, `MembershipCacheProofs`, `RolesProofs`;
`AccessProofs` (memberships, sessions, accounts) and `OfficeProofs` (class arms, fee
structures, files, the calendar, guardians), each of which extends one component and
takes the others as instances over variables of the same names (`Sess!`, `Acct!`;
`Fees!`, `Store!`, `Cal!`, `Kin!`). The definitions an argument rests on stand at
the end of each component, under "Why they hold" (`JobOK`, `Typed`, `Checked`,
`AloneInv`), so that a run can check them too.

Definitions whose comment says "A bug" are not used by any specification. Each is
a variant of the definition after it, kept to show that a property notices.

## 3. How the code is modelled

### Payments

A request is a record `req[r]`: `idle`, `waiting` for the lock of its invoice,
`locked`, `write` (it has read and decided), `commit` (it has written inside its
transaction and nobody else sees it yet). `holder[i]` is the row lock. A
transaction is cut exactly where another request's committed write could come
between: before the lock; between the reads and the writes of one transaction,
because READ COMMITTED reads other rows as they are by then; and at the commit.
What is read before the transaction (`getOrThrow`, `assertPending`) is a guard
of the `Start` action and may be false by the time the lock is granted.

- `record` (59-120): `RecordCheck` / `RecordRefuse` / `RecordInsert`.
  `assertNotOverpaying` counts pending payments. Attaching the evidence file
  inside the transaction is one of the ways to `Rollback`.
- `verify` (122-187): `VerifyNumber` reads the highest number and the prefix;
  `VerifyUpdate` is the conditional update and `recalculateInvoice`. The
  unique index shows in three ways: a number already committed collides
  (`VerifyCollide`: retried from the lock, at most `ReceiptAttempts` times), a
  number claimed by an uncommitted transaction makes the second writer wait
  (`Claiming`), and `DecisionCommit` publishes.
- `reject` (189-230): a pending payment is refused, a verified one reversed; the
  receipt number stays on the row.
- `discount`, `waive`, `cancel` (213-297 of `student-fees.service.ts`): through
  `mutateLocked`, which hands the row it read to the change.
- `Discard`: the two `deleteMany ... PENDING` of Paystack, which take no invoice
  lock but do wait for a row lock on the payment. `SetPrefix`: the settings.
- Amounts are naturals (kobo of a `Decimal(12, 2)`), `MaxAmount` caps a column.
  `Sum` counts units, as the cardinality of a set of pairs: no recursion, so
  that the provers can use it.
- The receipts are those of one calendar year. `prefix` and sequence number are
  kept apart, because `nextReceiptSequence` ignores the prefix and the unique
  index does not.

### Paystack

A worker is a record `job[w]`: a request to start or refresh, or a delivery of an
event. Every statement of `PaystackService` is a step: none shares a
transaction with the next. `online[p]` is what the payment row has besides the
ledger (reference stored, old enough to be swept) and the charge at Paystack
(`none`, `open`, `collected` in full, or `short`: another amount or currency).
`event` is the table `webhook_events`; `acked` is what Paystack has seen
answered 200. Calls of `PaymentsService` are single steps of `InvoiceLedger`,
which `Payments` is shown to implement; a call can also end in a conflict
(`Conflict`) or in an error before or after its commit (`WebhookError`,
`RequestFails`).

- `start` with `sweepAbandoned` (76-134, 319-354): `StartOnline` selects at most
  `MaxAbandonedSwept` stale candidates; `SweepCheck` asks Paystack and goes to
  `SweepDelete` or into `refresh`, whose errors the sweep catches; then
  `StartRecord`, `StartReference`, `StartInitialize` or `StartRefused` and
  `StartDiscard`.
- `refresh` (261-301): `RefreshRead`, `RefreshAsk`, `RefreshApply`,
  `RefreshAnswer`.
- `handleWebhook` (141-255): `Claim` inserts the event or answers "duplicate";
  `Find`; `WebhookApply`; `WebhookError` then `Release` (or `ReleaseFails`).
- Others: `Pay` (the payer), `Age` (the clock), `Bursar` (verify, reject, from
  the payments controller), `Crash`.

The faults are constants. `MayCrash`: a worker stops between two statements or
its release fails. `MayOverlap`: an event is delivered again while an earlier
delivery of it is at work. `MayExhaust`: `verify` runs out of receipt attempts,
which it reports with the same kind of error as "no longer pending".

### The other components

A request is a record (`req[r]` or `job[q]`) with `at`, the statement it is about
to run, and what it has read so far. A handler is cut at every place where it
gives way to another request: each query outside a transaction is a step; a
transaction whose reads are under a lock is one step from the lock on, unless a
row it reads is not covered; a transaction without a lock is cut at its writes
where READ COMMITTED lets two interleave (a `deleteMany` followed by inserts in
`Assessment` and `Roles`, two `updateMany` in `AcademicCalendar`, a sequence of
upserts in `Attendance`). What was checked before is what was true then: it is
never looked at again unless the code does.

The environment is given by constants. `MayOverlap`: requests run beside each
other; without it a request starts only when none is under way (or, in
`ClassArms`, when none is under way for the same student). `MayStop`,
`MayCrash`: a process ends between two statements. `MayFail`: a call of Redis,
the bucket or the mail provider fails. `MayMove`, `MayWithdraw`, `MayResize`,
`MayRemove`: what others may do to the rows a request depends on. Without
`MayMove`, students change arm or leave only before there are sheets and while no
request is under way; without `MayResize`, capacities change only while nobody
else is at work. A property that
the code only guarantees without one of these is checked without it, at the
largest instance where it holds, and section 6 says what happens with it.

- `ResultSheets`: `SaveValidate` is what `save` reads before its transaction,
  `SaveLock` and `SaveCommit` the two halves of that; `Compute` and `Recompute`
  are those of compute and submit, with the inputs read under the lock and the
  scores last. `Notify` follows a publication. A `card` is a snapshot: of whom,
  with which marks and comments; `stale` is the flag.
- `Assessment`: `SetScheme` reads the scheme, `CountScores` the scores; then `Rename`
  of the rows read or, while there are no scores, `Delete` and `Create`, where `Delete`
  reaches the rows that were there when it began. `Rename` fails when a row it read
  is gone, and waits for whoever is deleting one.
- `ResultMath`: every table of marks within bounds can be reached; places,
  averages and grades are compared with definitions by counting.
- `ClassArms`: `Lock` takes the arms of a request in the order of their ids
  (`lockRows`), `HasRoom` counts under the lock, `Write` writes and commits.
  Resizing and the two deletions check in one step and write in the next.
- `AdmissionNumbers`: `Read`, `Propose`, `Insert`; an insertion that meets the
  unique index starts again at `Read`. `prefix` may change between any two.
- `StudentImport`: `ResolveArms`, `CheckNumbers` and `ResolveGuardians` are the queries
  of the check, each at its own time: how many are active in the arms, which numbers
  are taken, which parents are on file. The last one ends the check, which compares
  every row with what was found and with the other rows; `Write` counts the seats
  again and creates parents, students and links in one step; `Refuse` and `Retry` are
  the outcomes of a violated index.
- `Memberships`, `Sessions`, `Accounts`: no transaction at all, one step per
  statement. A link or a token is a model value with its owner and its state.
- `MembershipCache`: `Hit`, `Fetch` and `Store` of a reader; a change, `Find` and
  `Drop` of a writer; `Tick` is the clock of Redis, under which entries and
  index sets expire. `ended` keeps when each version of a membership stopped to
  hold; it is what `BoundedStaleness` measures.
- `AcademicCalendar`: a removal reads the period with its terms, then counts the fee
  structures (`CountFees`), then, of a term, scores and sheets (`CountResults`), and
  then deletes. The database cascades to terms and fee structures and refuses when
  invoices or results stand in the way, which is why `used` tells fees from results.
- `Roles`: a request is checked against what its caller holds and then writes. `Admin`
  and `Manager` are the permissions the two controllers ask for: managing roles, and
  updating a member of staff.
  `Clear` and `Replace` are the two statements of setPermissions. `asked` is the
  set each role was last asked to have, for the properties.
- `FeeStructures`: a structure is a status and a set of items; an item has a
  category, an amount, and whether it is bought by choice. An assignment reads the
  structure (`Assign`), the students (`ResolveStudents`) and who of them is billed
  (`SkipBilled`), one after the other, and then issues all invoices in one
  transaction, or none (`Abort`). `Clash` is the unique index on structure and student.
- `Settings`: the week is the bit mask of the code, over fewer days; `OldMasks`
  are rows an earlier version may have left, among them masks that name no day.
- `Files`: bytes (`object`) and rows (`row`) apart; `lockSchoolScope` is the
  advisory lock under which the quota is summed.
- `Reminders`: `owingInvoices`, `pendingByInvoice`, `collectDebtors`,
  `applyCooldown`, `recipients`, `sendBatch`, `Log` and `notifyParentsOf` are
  steps; payments are submitted and verified in between.
- `Attendance`: a save names all students of an arm or some, in any order (`Orders`). An
  upsert takes the row of a student's mark until the end of the transaction; of two
  that wait for each other the database stops one. A mark remembers which others were
  saved with it (`with`), for `RegisterIsWhole`.

## 4. Runs

| Run | Instance | Shows |
|---|---|---|
| `payments_ledger` | 2 requests, 1 invoice, 3 payment ids, amounts to 2, 2 attempts | every operation against every other on one invoice: types, money, status, decisions, and refinement of the ledger |
| `payments_receipts` | 2 requests, 2 invoices, 4 ids, 2 prefixes, 3 attempts | the race for a receipt number, which no lock arbitrates |
| `paystack` | 2 workers, 2 payments, 1 invoice, every fault | exclusion of deliveries, credit only for what was collected, no settled payment deleted |
| `paystack_calm` | 2 workers, 1 payment, any number of errors but none of the three faults, no symmetry | claim and acknowledgement do not outlive a failure; redelivery settles every collected charge |
| `sheets` | 1 arm, 2 students, 1 subject, 2 requests, crashes, withdrawals | sheets follow their path, and show the scores as they are |
| `arms` | 2 arms of one seat, 2 students, 2 requests, deletions, capacities that change at quiet times | no arm is filled past its capacity |
| `cache` | 2 memberships of one user in two schools, a reader and a writer that overlap, failing calls, a clock to 4 | the cache implements the staleness it promises |
| `access` | 8 parts, below | a school keeps a proprietor and the platform an owner; links work once; what was taken away is gone; nobody gives what they do not hold, nor do two together |
| `office` | 22 parts | one of what there must be one of; nothing by halves; answers agree with the records; no step does what nobody asked for; reminders are due |
| `live` | 7 parts | requests that wait, retry or tell others end; two imports do not wait for each other |
| `paystack_crash` | 1 payment, crashes | violation, section 6 |
| `numbers_prefixed` | 3 admissions one after another or at once, 1 prefix | violation, section 6 |

Parts of `access`: `members`, 3 persons in 2 schools; `invitations`, 3 links of
one school; `cacheCalm`, 2 memberships of one user, two roles, no overlap and no
failure; `roles`, a proprietor and an administrator, 4 roles, 4 names of which two
have one slug; `rolesOverlap`, a proprietor and two administrators, 2 requests;
`logins` (2 doors, 3 tokens) and `loginsOverlap` (2 requests, stops); `account`, 3
links.

Parts of `office`: `fees` (2 structures) and `feesOverlap` (2 requests, 1 category), 2 students;
`calendar` (2 sessions, 2 terms, 4 days) and `calendarOverlap` (types only: a
request beside another may leave two current);
`parents` (2 guardians, 2 logins) and `parentsOverlap`; `settings` (3 days, 2
fields) and `settingsOverlap`; `files` (3 files) and `filesOverlap` (2 requests,
failures, stops); `reminders` (a family of two children) and `remindersFail`; `register`
(2 arms, 2 days, moves) and `registerOverlap` (3 students, 2 saves of any of them); `scheme`, 2
requests, 2 names, a whole of 2; `places`, 3 pupils, 2 subjects, one of them an
elective, marks 0 to 2; `scales`, every scale of up to 3 bands; `seatsOverlap`, 2
arms of one seat and a student two requests handle at once, and `seatsChange`, an
arm that is resized and deleted meanwhile; `numbers`, 2 admissions and a file of 2;
`import` and `importOverlap`, files of two rows each: siblings, two parents with one
e-mail, a faulty row, an unknown arm, rows with a number of their own, and a number
that collides. Where they overlap, the files are those that can meet: faulty rows and
unknown arms are left to `import`.

Parts of `live`: `money`, verifications on two invoices, 3 attempts; `sheets`, one
whose student comes and goes; `arms`, imports and updates, one lock or two;
`numbers`, `import`, `files` and `register`, 2 requests each.

Why the bounds suffice. Two requests are what a race on a lock, an index or an
unlocked read needs. On invoices, three payment ids allow one verified, one
pending and one that arrives, which is what the ceiling and a gap in the sequence
need; with amounts up to 2 an invoice can be unpaid, partial and paid, and
discounted below what was paid; a limit of 3 attempts on two invoices lets a
verification collide twice and still succeed, and the four ids of
`payments_receipts` let another request issue the three receipts that exhaust it.
In the receipt runs clients only move payments (`PaymentsOnly`): numbers and retries
depend on no other operation. `IdsLeft` stops recordings when the ids run out.
Elsewhere: one seat and two students make a last seat; two arms, a cycle of
locks; two rows, siblings and a collision inside a file; three pupils, a tie and
a gap after it; three persons, a proprietor, one who leaves and one who is
invited; three links, one that is spent by the next and one of another kind; a
time to live of 1 and a request that takes 1, an entry stored stale; three files,
one that is replaced, one attached, one too large for what is left. Identical
model values are symmetric, except in the liveness runs. Deadlock is checked
where requests can always arrive; the configurations of the runs whose ids,
links, tokens, numbers or seats run out say `CHECK_DEADLOCK FALSE`.

### Fairness

`Paystack` (`paystack_calm`): workers proceed (weakly); Paystack redelivers an event
it has not seen acknowledged (strong fairness of `Redelivered`, its documented
behaviour); and neither the claim, nor the lookup, nor the verification of an event
fails for ever (strong fairness: errors are transient). Crashes are off in that run,
since the code does not survive one there.

`MCLive`: `SF(GoesOn(q))` for each request under way. Nobody cancels a request;
rows and advisory locks are handed to those who wait in turn, so that one who may
go on again and again does. Failures and crashes are off; retries, collisions,
waiting and the database's choice between two that deadlock are on. Nothing forces
a request to arrive, and a transaction may roll back at any time. What
`RequestsEnd` shows is that retries are counted, locks are taken in one order and
given back, and a publication is told: with locks taken in the order a request
names its arms, two wait for each other for ever. Only imports and updates
arrive in the part of the arms, one lock or two, since a longer list of
operations there adds no way to wait.

## 5. Proofs

All proofs are for every value of the constants: any number of requests, workers,
invoices, students, arms, roles and so on, any bound, with and without every fault
unless a theorem names one it excludes. The assumptions on the constants are
named in the modules that declare them, and TLC evaluates them for its instances:
`FeeMathAssumption` (finitely many payment ids, so that sums are numbers; `None` is
not an invoice or a receipt), `PaymentsAssumption` (at least one attempt; `None` is
no request), `PaystackAssumption`, `SheetsAssumption`, `ArmsAssumption` (arms are
numbers, since `lockRows` orders them; finitely many students), `CacheAssumption`
(an index set is stored for at least as long as a snapshot), `RolesAssumption`
(the proprietor's role holds everything), `MembershipsAssumption` (finitely many
requests at once, so that invitations on their way can be counted),
`SessionsAssumption`, `AccountsAssumption`,
`FilesAssumption` (finitely many files; the ids of payments are not those of students),
`FeeStructuresAssumption` (an item list is not empty and names a category once),
`CalendarAssumption` (no session is a term) and `GuardiansAssumption`; in all of them
`None` is none of the values it stands in for. A theorem that holds
only while something does not happen says so in its `ASSUME`; section 6 shows, for
each, what happens otherwise.

**Payments.** None of the safety properties is inductive alone. `Inductive` adds
what makes them so: a request inside its transaction holds the lock of its
invoice (`LockInv`); the payment it names is of that invoice or is gone
(`TargetInv`); what it decided by is still so when it writes (`RecordInv`:
the amount still fits; `ChangeInv`: the row read is the row there;
`DecisionInv`: the row computed for the commit is the one a recalculation would
give now); receipt numbers held by requests are at most one ahead
(`NumberInv`), and uncommitted claims are distinct (`ClaimInv`). The argument:
only the holder of a lock writes the invoice and its live payments, apart from
`Discard`, which only ever removes pending ones and therefore cannot break a
ceiling or a sum of verified money. `PaymentsProofs` has one lemma per action
and derives the theorems for `TypeOK`, `PaidIsVerified`, `NeverOverCommitted`,
`StatusFollowsMoney`, `CancelledIsEmpty`, `ReceiptsHaveNoGaps` and
`ReceiptsAreUnique`.

**Refinement.** The same module shows with that invariant that every commit is
one step of `InvoiceLedger` and every other step a stutter. The key lemma is
that rebuilding `amountPaid` from all verified payments (`Recalculated`) equals
moving it by the one amount. The same case analysis gives
`PaymentOnlyMovesForward` and `DecisionsStand`. `RetriesArePaidFor` needs one fact
more (`AttemptInv`): the number of attempts a verification lost is itself an issued
receipt, below the one it tries now.

**Paystack.** `Inductive` there says that a worker past its claim holds it, one
about to verify has seen its charge collected, a charge is opened by one worker
only and only for a payment that exists, and receipts are gapless (so that there
is a next number). `PaystackProofs` first states what one call of the ledger
may do to a payment (`LedgerMoves`), then what any step of one worker must respect
(`WorkerStep`), and each action is an instance of that. It gives
`ClaimExcludes`, `CreditIsNeverDeleted` and `OnlyCollectedIsCredited`.

That an invoice's balance is the sum of its verified payments is not an invariant
of `Inductive`; it comes with the ledger. `PaystackKeepsTheLedger` shows that every
step of every worker and of the bursar is a step of `InvoiceLedger` on invoices and
payments, or none, and `BalancesStand` takes the balances from there; with it
`TypeCorrect`. Two more hold without faults: without crashes and exhausted attempts a
claim is under work or needs none (`ClaimInv`, `ClaimsEndDealtWith`), because every
way out of a delivery that leaves the payment pending releases the claim first;
and if Paystack moreover redelivers only what nobody works on (`AloneInv`), what is
acknowledged is dealt with (`AcknowledgedMeansSettled`).

**Result sheets.** `Inductive` says that a save past its lock, a compute and a submit
hold the sheet of their arm, and that it is a draft (`LockInv`). Since `SheetPath`
lets a card change only in a draft and a status only along the path, that is all
the refinement needs: `SheetsFollowTheirPath` holds whoever moves, withdraws or
crashes. (TLC checks it with moves before there are sheets only.) That a
snapshot agrees with the scores needs more, and is false while students move: only
students who are active in the arm are in its cards, in a save and in the inputs of
a compute (`StayInv`), so that no score can change without the sheet it is in.
`SnapshotsAreCurrent` and `FreshDraftsAreCurrent` assume `~MayMove`; `MovesComeFirst`
is the lemma that under it a move meets no request and no sheet.

**Class arms.** `Inductive`: a request holds the locks of a prefix of the arms it
needs, in the order of their ids, and whoever holds an arm is one who needs it.
`ArmsDoNotDeadlock` is its consequence for all numbers of arms: of two that wait for
each other each would wait for an arm above all it holds. `RollsFit` is about
counting. A request that has all its locks knows how many seats are free
(`SeatsInv`: what it writes needs no more seats than it asked for); nobody else
fills those arms, since an arm is only filled by its holder; and the proof adds up
the roll before and those who arrive (`ComingHaveSeats`, `WriteKeepsRolls`). It assumes that no two requests handle the same student
(`ApartInv`, from `~MayOverlap`) and that a capacity changes while nobody is at work
(`ResizeInv`, from `~MayResize`). `LeaversAreSpared` needs neither: a promotion
updates by status and arm, not by what it read.

**Membership cache.** `Bounded` relates every snapshot to the clock: a reader stores
what was true when it read, no longer than `Delay` ago, an entry expires `TTL`
after it was stored, and `ended` says when each version stopped to hold. From that
`CacheIsBoundedlyStale`, the refinement of `BoundedStaleness` with the bound
`TTL + Delay`, whatever fails. `AwaitedChangesAreSeen` is the stronger promise, kept
when readers do not run beside writers and no call fails (`Calm`): a snapshot is
named by the index of its user, and by that of its role unless a writer is about to
drop it; the index outlives it; and whoever finds an index drops all it names. So
any of the three invalidations reaches every snapshot it is meant for.

**Roles.** `Kept` is types, the references of the schema, and `Contained`: every
permission held by one of the members who make requests, or about to be given by
one of their requests, is in the pool they held together to begin with. That is
inductive although a check may be stale when its write comes: what its caller held
at the check was inside the pool, and no role that is within the pool ever leaves
it. So nobody
escalates beyond the group, however requests overlap (`NobodyEscalates`), while the
promises about one caller (`GrantsAreHeld`, `NobodyPromotesThemselves`), a role's
permissions (`ReplacementsAreWholesale`) and names (`NamesStayApart`) need one
request at a time (`AloneInv`: what it checked is still so).

**Memberships.** `Typed` says what stands behind a request, however requests
overlap: an account behind whoever is invited, granted or dismissed, a membership
behind whoever is updated, revoked or mailed a link. That suffices, since neither is
ever deleted (`Kept`), and gives `MembershipsTypeCorrect`. The promises to whoever
must not be locked out are `Calm`, which needs one request at a time: what each
handler checked is still so at its write (`Checked`), so whoever takes an active
proprietor away has counted another one (`ProprietorStays`), and whoever becomes a
member is no operator (`ApartStays`). Links are kept apart more strictly than
`OneLiveLink` asks, by person and not by membership (`OnlyNewestIsLive`), since
issuing a token spends all of the person; only that is inductive. A process may stop
between any two statements. `AnOwnerAlwaysRemains` excludes a script that demotes.

**The pattern of the rest.** The components below have the same argument in two
layers. `Typed` is what stands behind a row or a request however requests overlap:
`JobOK(j)` says it of the request, by where it is, and uses only what nobody takes
back (a token is never deleted, a student stays billed). `AloneInv` adds, for one
request at a time, that what a handler checked is still so at its write
(`Checked(j)`). Neither can be left out: `Checked` speaks of rows `Typed` says are
there, and the promises are inductive only with both. What needs `AloneInv` is
false without it, and section 6 has the counterexample in nearly every case.

**Sessions.** However requests overlap and wherever they stop, the tokens of one
session are of one door (`SessionsStayBehindTheirDoor`): a rotation writes the door
it read, and a token's door never changes. With one request at a time and none that
stops (`EndedSessionsAreOver`): a family has one live token, or two of which the
older is just being retired (`Retiring`); that is why `OneLiveToken` speaks of
quiet states. No live token is of a family that is over; and an access token of a
session that was ended carries an older version than the user has by then.

**Accounts.** `LettersWorkOnce` needs one request at a time, and holds wherever a
process stops. The older links of a purpose are spent before the next is sent, so a
process that ends in between leaves none rather than two; a link is spent before it
has its effect, so it has that at most once. `AcctTypeCorrect` needs neither: that
an address is verified only by a verification link is in it.

**Fee structures.** `Typed` says of an assignment that whoever it leaves out as
billed is billed. Invoices are never deleted, so this stays true whatever
overlaps, and `NobodyIsLeftOut` follows. `InvoicesAreRight` is due to the copied
items and the unique index (`Clash`), not to any order of requests; a sum counts
units, as in `FeeMath`. Without overlaps `BillsAreDue` and `StructuresStand` say the
rest; the action properties are taken from `AloneInv` at the writing step.

**Files.** The central fact is ownership: bytes with no row yet, or none any more,
are in the hand of one request (`InHand`), which alone may insert the row or delete
them. `RowsHaveTheirBytes` and `StorageIsAfforded` then hold with every overlap,
failure and stop: a row is deleted before its bytes, bytes are stored before their
row, and whoever is about to insert holds the school's lock and found room for it
(`Afforded`; the cardinality of bytes, with `FiniteSetTheorems`). `NoBytesAreLeft`
needs one request at a time and calls that succeed; its invariant, `Neat`, says the
bytes without a row are exactly those a request has in hand. `PhotosAndEvidence`
needs one request at a time, whatever fails.

**The calendar.** `Placed` keeps a term in a session and a session in none;
`OneEach` is stronger than `OneCurrent`: at most one period of each kind has the
marker. Between the two updates that move the marker nobody has it, which `OneEach`
allows and `MarkerStays` is about: the write that follows sets it on the one it was
asked for. `Apart` is that no two periods on file share days, kept since the overlap
that was checked is what is written. What a removal has counted, it finds unchanged
when it deletes (`Checked`), because without overlaps nobody prices or scores a
period meanwhile either.

**Guardians.** `OneLogin` and `CutOut` are what makes `OneFamilyPerLogin` and
`RevokedStaysOut` inductive: no two guardians have one login, so whoever takes it
from one takes it from the portal, and the login that was cut is given again only
by a step that says so. That staff keep their login needs no assumption: neither
inviting nor revoking writes the membership of a member of staff.

**Only model-checked.** `CollectedIsSettled` and `RequestsEnd`: liveness is out of the
prover's reach. Of `office` the parts of settings, reminders, the register, schemes,
admission numbers and imports, and the arithmetic of results: `ResultMath` is compared
with definitions that count over every table, which would take induction over data.

The properties of `access`, `office` and `live` are conjunctions over parts, each
with the constants of its part, and are not themselves theorems. What is proved, for all
constants, is their conjuncts, by the names these have in their own modules:

| Property of a run | Conjuncts proved | Conjuncts checked only |
|---|---|---|
| `TypesOK` | all, of memberships, roles, sessions, accounts and the cache | - |
| `SomebodyIsInCharge` | all (`SchoolsKeepAProprietor`, `AnOwnerAlwaysRemains`, `OperatorsAreNoMembers`) | - |
| `LinksWorkOnce` | all (`OneLinkIsLive`, `LettersWorkOnce`) | - |
| `AccessIsCurrent` | all (`AwaitedChangesAreSeen`, `EndedSessionsAreOver`, `SessionsStayBehindTheirDoor`, `ReplacementsAreWholesale`, `NamesStayApart`) | - |
| `OnlyHeldIsGiven` | all (`GrantsAreHeld`, `NobodyPromotesThemselves`, `AcceptanceIsKept`) | - |
| `TypeOK` (`office`) | fee structures, calendar, guardians, files, seats | the other parts |
| `OneOfEach` | invoices, calendar, guardians | one record for a parent |
| `NothingByHalves` | invoices, files | register, inbox, scheme, imports |
| `AnswersAgree` | a login taken from a parent | register, settings, results, numbers |
| `OnlyWhatWasAsked` | fee structures, calendar, guardians, files, promotions | settings, scheme, imports |
| `RemindersAreDue` | - | all |
| `NoDeadlyEmbrace` | all (`ArmsDoNotDeadlock`) | - |

## 6. Disagreements between code and comment

Two are runs of their own:

1. `paystack_crash`: "The claim must not outlive a failure"
   (finance/paystack/paystack.service.ts:250). It outlives the process.
2. `numbers_prefixed`: "this retries when it fires rather than failing the caller"
   (students/students.service.ts:455). With a prefix, the numbers on file are
   looked for without it (:466) and never found; every attempt proposes the same
   number, and the second student of a year is refused.

The others are statements of the component modules. TLC refutes each as an
INVARIANT, or as `PROPERTY [][A]_vars` where the comment says "Of every step", in
an instance of the module alone with the constants given; what the runs above
check of the same name is the case in which it holds.

With requests that overlap (`MayOverlap = TRUE`, failures and stops off, two
requests, two of each set):

| Module | Property | The code, and what it says of itself |
|---|---|---|
| `FeeStructures` | `LockedOnceIssued` | update counts invoices before its transaction (fee-structures.service.ts:119); "Amounts are frozen once invoices exist" (:115) |
| | `ArchivedForGood` | publish writes by id alone (:165); "An archived fee structure cannot be published again" (:156) |
| | `OnlyPublishedIsBilled` | assign reads the structure before its transaction (student-fees.service.ts:79); README.md:618 |
| | `WithdrawnNeverBilled` | so with the students (:82); "Withdrawn students are never billed" (README.md:622) |
| | `SkippedNotFailed` | of two assignments the second fails for all its students (:86); "skipped rather" than failed (:64) |
| `Reminders` | `NotTwice` | the log is written after sending (payment-reminders.service.ts:252); "a second click does not mail every parent twice" (:51) |
| | `OnlyWhatIsOwed` | balances and pending money are read one after the other (:73); "Money awaiting verification is not chased" (:49) |
| `Assessment` | `PartsMakeWhole` | the second deleteMany misses what the first created (assessment.service.ts:103); "Both are replaced as a whole" (:21) |
| `ClassArms` | `RollFitsCapacity` | changeStatus locks the arm it read (students.service.ts:224); "has to fit in the arm the student still points at" (:228) |
| | `PromotionCountsMoved` | promote answers with those it read (:418); "Students moved into the target arm" (students/dto/bulk.dto.ts:64) |
| `StudentImport` | `OneRecordPerPhone` | parents are looked for before the transaction (student-import.service.ts:688); "sharing a phone share one parent record" (:666), said of one file |
| `Guardians` | `OnePrimary` | two promotions each see no other primary (guardians.service.ts:259); "at most one primary guardian" (:251) |
| | `NobodyIsStripped` | links are counted before the delete (:162); "would quietly strip students of their contact" (:160) |
| | `OneFamilyPerLogin` | the login is looked for, then written, with no index (portal-access.service.ts:96); "it would merge two families' portals" (:88) |
| `AcademicCalendar` | `OneCurrent` | the second clearing misses the marker of the first (academic-sessions.service.ts:144); "Exactly one session is current per school" (:139) |
| | `NoDayIsShared` | overlap is looked for before the write (:233); "cannot be running two sessions on the same day" (:228) |
| | `OnlyWhatWasAsked` | terms are counted before the delete (:170); "refuse rather than silently" delete them (:168) |
| `Memberships` | `KeepsAProprietor` | counted before the write (users.service.ts:426); "must always keep at least one active proprietor" (:419) |
| | `AcceptanceStands` | an invitation beside an acceptance undoes it (:202); "Only live access blocks" it (:172) |
| | `OneLiveLink` | spent and created in two statements (:227); "Only the newest link works" (:225) |
| | `OperatorsStandApart` | each side checks the other first (platform-admin.service.ts:149); README.md:764-765 |
| | `AnOwnerRemains` | two owners remove each other (:198); "which is what makes lockout impossible" (README.md:805) |
| `MembershipCache` | `NextRequestSeesChange` | a reader stores after the invalidation (membership-cache.service.ts:58); "the next request must not be served a stale snapshot" (access-control.service.ts:112) |
| `Roles` | `Wholesale` | two deletions, two insertions (roles.service.ts:142); "Replaces a role's permissions wholesale" (:117) |
| | `NamesApart` | only the slug is unique (:110); "A role named ... already exists" (:348) |
| | `NobodyMovesThemselves` | the caller is looked for among members read before (:209); README.md:696 |
| | `GrantsOnlyHeld` | what the caller holds is read before the transaction (:141); README.md:695 |
| `Sessions` | `OneLiveToken` | two uses of one token both succeed (token.service.ts:232); "Replaying a rotated token revokes the entire token family" (README.md:79-80) |
| | `OverIsOver` | a rotation under way survives revokeAllForUser (:224); "every session" (README.md:94) |
| `Accounts` | `OneLiveLink` | spent and created in two statements (token.service.ts:285); "Only one live token per purpose" (:284) |
| | `SingleUse` | consumed by id alone (:334); "Single-use" (:272) |
| `Settings` | `ChangesStand` | read, merged, written whole (school-settings.service.ts:106); "Takes effect from now on" (school-settings.controller.ts:37) |
| `Files` | `PhotoIsThere` | replaceLinked deletes whatever else is linked (files.service.ts:230); "points the student at it, and drops the old one" (students.service.ts:241) |
| | `EvidenceStays` | checked, then deleted (:207); "is evidence of that payment and stays" (:199) |
| `Paystack` | `AckedIsDealtWith` | a duplicate is acknowledged while the first delivery may yet fail (paystack.service.ts:170); "Anything that *is* worth retrying throws" (:137) |

One request at a time, or with the constant named:

| Module | Property | The code, and what it says of itself |
|---|---|---|
| `ResultSheets` | `OnlyDraftScoresChange` (`MayMove`) | save locks the sheet of the arm it was asked for (scores.service.ts:139); "Only a draft can be computed or have its scores changed" (result-sheets.service.ts:47) |
| | `ScoresAreOffered` (`MayWithdraw`) | withdraw counts, then deletes (subjects.service.ts:223); "Keep the offer while they exist" (:221) |
| | `ReadyCanBeSubmitted` (`MayMove`) | ready counts the last snapshot, submit the arm (result-sheets.service.ts:397); "ready to submit" (results/dto/result-sheet.dto.ts:135) |
| `ClassArms` | `RollFitsCapacity` (`MayResize`) | a capacity is written without the lock (class-arms.service.ts:97); "only correct if nobody else can add a student in between" (row-lock.ts:9-16) |
| | `OnlyEmptyArmsGo` (`MayRemove`) | counted, then deleted (class-arms.service.ts:120); "would quietly unassign its roll" (:118) |
| | `RecordsOutlive` (`MayRemove`) | so with a student's records (students.service.ts:321); "would erase money history" (:292) |
| `AdmissionNumbers` | `SequenceContinues` (`Spec`) | after a change of prefix a sequence starts again (students.service.ts:466); "The year's sequence continues across a change" (README.md:710) |
| `Payments` | `SequenceContinues` (`ReceiptsSpec`, 2 prefixes) | the unique index covers the prefix too (payments.service.ts:359); README.md:710-711 |
| `StudentImport` | `PreviewIsTrue` (a file whose row brings the next number) | allocateNumbers does not look at the file's own (student-import.service.ts:1033); "shows exactly what would happen, down to the admission numbers" (:111) |
| `AcademicCalendar` | `CurrentsAgree` | making a session current moves no term's marker (academic-sessions.service.ts:144); "The current term and current session must agree" (terms.service.ts:259) |
| | `TermsWithinSessions` | a session is moved without its terms (academic-sessions.service.ts:130); "would break every date-driven report" (terms.service.ts:248) |
| `Memberships` | `InvitationsStandApart` | a new link spends those of other schools (token.service.ts:285); "Scoped to this membership" (users.service.ts:225) |
| | `AnOwnerRemains` (`ScriptRoles` with another role) | the script demotes the last owner (scripts/grant-platform-access.ts:92); "must re-establish that invariant" (platform-admin.service.ts:191-193) |
| `Files` | `OnlyUnusedFilesGo` | a photo or a logo in use is deleted (files.service.ts:207); "Deletes a file nothing is using" (:199) |
| | `OwnEvidence` (payments of two children) | once attached, a file is of its payment, not of a child (:275); "another child's, is simply not found" (:272) |
| `Reminders` | `NotTwice` (`MayFail`) | sent, then not logged (payment-reminders.service.ts:361); see above |
| | `FailedAreTriedAgain` (`MayFail`, two parents of one child) | the cooldown asks by student (:256); "Every guardian with an email is contacted" (:54) |
| `Paystack` | `ClaimIsDealtWith` (`MayExhaust`) | a conflict may mean that five numbers were taken (paystack.service.ts:245); "the event has been dealt with" (:243) |
| | `OnlyUncollectedIsRemoved` | the payer may pay between question and deletion (:350); "only a charge they never collected is removed" (:316) |
| | `RefreshTellsTruth` | a bursar's rejection is reported as VERIFIED (:300); "The webhook won the race" (:297) |

## 7. Next

What would pay most now, in this order:

1. `Reminders`, `Attendance` and `Assessment`: the same two layers as in the components
   of `OfficeProofs`.
2. `StudentImport` and `AdmissionNumbers`: all or nothing, and a bound on retries as
   `RetriesArePaidFor` has for receipts.
3. A refinement that lets `ClassArms` be used by `StudentImport` as `InvoiceLedger` is
   by `Paystack`: a seat is taken at once.

## 8. Not modelled

- Finance documents, reports and statements, report cards, what the portal
  reads: they change no state.
- Tenant isolation: a rewrite of each query that adds the school's id. Every module
  is of one school, or of schools that share only what it models.
- Notifications, audit entries and logs after a commit: best effort, and no state
  depends on them. `Reminders` (the inbox) and `ResultSheets` (`told`) keep that
  parents are told.
- Health, observability, configuration, start-up: no state of the domain.
- Of payments: the rollover of the calendar year, receipts of other years, and the
  evidence file inside `record`, which is only a way to fail there (`Files` has the
  other side of it). Of student fees: due dates.
- In `Paystack`: discounts, waivers, cancellations and cash recorded beside it
  (`Payments` covers these on the same tables), events that are not a successful
  charge, the signature check.
- Of subjects: the catalogue and the assignment of teachers; of classes and arms:
  classes themselves, names, form teachers.
- Of authentication: `registerSchool` and `provisionSchool`, which create
  everything at once; hashes and signatures.
- Of platform administration: the operators' journal and the statistics.
- Of students and guardians: personal data. Of an import: parsing and the wording of
  issues.
- The deletion of a student cascades to results and invoices: `RecordsOutlive` says
  what it may take; the other modules do not delete students.

`PROJECT.json` has the status of each component and what of it is left out.
