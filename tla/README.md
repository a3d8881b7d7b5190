# Formal model of destructive_command_guard (dcg)

dcg is a pre-execution hook for coding agents: the agent pipes a JSON
description of each shell command it is about to run into a fresh `dcg`
process, which answers allow, warn, ask or deny. Everything that outlives one
such process (allow-once codes and grants, recovery permits, history) lives in
files that any number of hook processes and user-started CLI processes share.
This directory holds TLA+ models of the parts of dcg where order, concurrency,
failure or accumulated state matters, the TLC configurations that check them
and TLAPS proofs.

## Inventory

| Part (source) | State | Operations | What is hard | What makes it correct |
|---|---|---|---|---|
| Allow-once stores (`pending_exceptions.rs`, `handle_allow_once_*` in `cli.rs`) | pending store, its archive, grant store: JSONL files with one exclusive lock each | record a denial, match a command, list, redeem, revoke, clear | multi-process races, sequences over two locks, torn writes, rotation, caps | a single-use grant lets one command run; nothing removed comes back; codes shown stay redeemable; a denial never waits for the pending store |
| Hook request (`main.rs`, `hook.rs`) | batch of commands, strictest outcome so far, panic policy, claim on stdout, deadline | read stdin, resolve each command, publish one answer | deadlines, panics on two threads, a closed pipe, batches, order of side effects | nothing unjudged or harmful runs; the strictest entry decides; one document |
| Rebase recovery (`rebase_recovery.rs`, `attempt_rebase_recovery` in `main.rs`) | permit file in the repository | issue, probe, check, consume | check and consume are separate, no lock | a permit lets one line through, in its window, and is there until then |
| History writer (`history/mod.rs`) | bounded channel, worker thread, batch, connection | log, flush, shutdown, recover | shutdown, busy database, fatal errors, detached worker | a flush is a barrier, rows are ordered and single, nothing is lost without cause, drop returns |
| History database (`history/schema.rs`, `history/sqlite.rs`) | SQLite file | migrations, queries, pruning | I/O | |
| Evaluator (`evaluator.rs`) | none across commands | config lists, allow-once, quick reject, packs, nested and inline commands, dialects; rounds over findings that policy lets run | order of the stages, budget expiry mid-way, grants redeemed meanwhile, limits on rounds | an override outranks exactly what it may; nothing hides a certain denial; a grant is used once, by a line that runs |
| Proof workers (`evaluator.rs`, `heredoc.rs`, `ast_matcher.rs`, `ast_pattern_engine.rs`) | one slot per kind of proof | claim, spawn, wait for a budget, give back | parsers that cannot be stopped, panics, parallel batches | one parser per slot; the evaluation never waits for a parser |
| Self-heal, install, uninstall (`cli.rs`) | the host's settings file, a lock file, temporary files | look, lock, read again, write, rename; write in place | two hooks at once, a command or the host in between, crashes | repaired once, whole whatever happens, one dcg hook, the hooks of others kept |
| Allowlists (`allowlist.rs`) | three TOML layers | load, match, expiry, conditions | layering, expiry at a boundary | an expired or mismatched entry allows nothing |
| Configuration (`config.rs`) | layered TOML and environment | load, merge, validate | precedence | a project cannot weaken what it may not |
| Packs and regex engines (`packs/`) | compiled tables | select, match | two engines, budgets | the keyword gate passes everything a rule could match |
| Normalising, tokenising, extraction of heredocs, matching of syntax trees (`normalize.rs`, `context.rs`, `heredoc.rs`, `ast_*.rs`) | none | pure functions on text | nesting, limits | no executed text is taken for data |
| CLI outside allow-once, rebase-recover and the hook's registration, scan, simulate, suggestions, statistics, update, MCP, output, installers | files of their own | one command each | mostly I/O | |

`PROJECT.json` lists these parts one by one with their source files and, where a
part is not modelled, the reason; its `hazards` list what in the code is hard
to test, each at its line, with the property that watches it.

### How the parts meet

`main` looks whether the settings still name it, and repairs them if not; it
reads the request and loads configuration and allowlists. For each command it
calls the evaluator, again and again while policy lets what is found run; each
evaluation may hand pieces of text to parser threads, and consults the grant
store unless a rule or a list decides first. A denial that may be a rebase
recovery looks for the permit. The strictest outcome is published: a denial
first appends a record to the pending store to obtain a short code, the history
thread is handed the verdict, the answer is written. The user redeems the code
with `dcg allow-once`, which writes the grant store; the agent tries again.

So: `AllowOnce` has many processes and takes one command per process;
`HookRequest` has one process with two threads and takes the verdict of each
entry as given (an entry may be `granted` or `permitted`, which is where
`AllowOnce`, `RebaseRecovery` and `Evaluator` come in); `MaskedFindings` takes
each evaluation's answer from the findings on the line, `Evaluator` is one such
evaluation from within; `ProofWorkers` has the evaluation threads and their
parsers, `HistoryWriter` the owner, the flush handles and the worker, inside
one process; `SelfHeal` has hook processes, a command and the host, and
`HookEntries` what each of them makes of the list of entries.

## Modules

| Module | What it is |
|---|---|
| `AllowOnceLedger` | abstract specification: what a store of single-use exceptions promises, in terms of grants alone |
| `AllowOnce` | the two stores, hooks and CLI processes; implements `AllowOnceLedger` |
| `AllowOnceProofs` | theorems about both |
| `MCAllowOnce`, `MCScenes`, `MCStores` | its instances for TLC |
| `HookRequest` | one hook process and one request |
| `HookRequestProofs`, `MCHookRequest` | theorems about it, its instances |
| `RebaseRecovery`, `RebaseRecoveryProofs` | the permit of one repository, theorems about it; with one hook it implements `AllowOnceLedger` |
| `MaskedFindings`, `MaskedFindingsProofs` | from the first finding on a line to its verdict, theorems about it |
| `Evaluator`, `EvaluatorProofs` | one evaluation of a line, theorems about it |
| `MCEvaluation` | the two in one specification, and its instances; theorems in `MaskedFindingsProofs` |
| `HistoryWriter`, `HistoryWriterProofs` | owner, channel and worker of the history, theorems about them |
| `ProofWorkers`, `ProofWorkersProofs` | evaluation threads and parsers, theorems about them |
| `MCThreads` | the two in one specification, and its instances; theorems in `ProofWorkersProofs` |
| `SelfHeal` | the settings file and who writes it |
| `HookEntries` | the list of hook entries in the settings |
| `SelfHealProofs` | theorems about these two |
| `MCFiles` | `SelfHeal`, `HookEntries` and `RebaseRecovery` in one specification, and its instances; theorems in `RebaseRecoveryProofs` |

`MCEvaluation`, `MCThreads` and `MCFiles` put components that share no state
into one run: the variable `part` says which of them a behaviour is about, and
the others keep one initial state. `MCScenes` and `MCHookRequest` cut one
component's behaviours into scenes in the same way, and `MCStores` gives each
behaviour a `budget` of commands and interrupted writes.

In a component's module, operators whose comment begins "Mutant" are
variations of a definition of the code's (a dropped guard, a swapped order).
No behaviour of `Spec` uses them; they are there to confirm that each property
notices such a change.

### AllowOnce

A file is the set of its parsable records (`pend`, `grants`, `archive`), in the
order of their numbers, the state of its last line (`ok`; `cut`: a partial
record; `bare`: a record without its newline) and the bulk of unparsable lines
(`junk`). Expiry, `rotate_overflow` and the rules for appending to a torn line
are operators on these sets. Every store operation of the code is open, lock,
load active records, write, unlock; the model has `Acquire` (lock and load into
`view`) and one action for the rest: `Match`, `Record`, `Lookup`, `Add`, `Drop`
(also a revoke's removal of a pending record), `RevokeGrants`, `ClearPend`,
`ClearGrants`. A redeem is `Lookup`, `Add`, `Drop` under three separate locks,
as in `handle_allow_once_command`; a revoke first looks at both stores (`SeeP`,
`SeeG`). A hook goes through `Match`, `Record` (or `SkipRecord`, when the wait
for the lock runs out) and `Publish`. `Fail` is the error path of an operation,
`InterruptPend` and `InterruptGrants` a process killed inside a rewrite or an
append with any prefix of its write done. Whether the budget allows maintenance
is left open where the code decides it.

Left out: the audit log, JSON output, the first creation of a file.

### HookRequest

One entry of a request is a verdict (what an evaluation would find, given
time); one action per stage of `main`: `Configure` arms the panic policy with
the protocol of the agent that was detected, `Read`, `Extract`, then `Begin`/`Evaluate` per entry
with `Collect` for the selection of the strictest, `EndBatch`, `Allowed`;
`Salvage`, `Window`, `EndSalvage`, `Unparsed` for unreadable input; `Publish`,
`Claim`, `Write`, `Audit`, `ExplicitClaim`, `ExplicitWrite`, `Finish`.
`Panic(t)` is a panic of either thread, `BackstopClaim` and `BackstopWrite`
the panic hook; `Expire` is the deadline, `HostCloses` the host's end of the
pipe. What the hosts read (`HostBlocks`) is external and taken from
`hook.rs:747-757` and the OpenCode plugin in `cli.rs:14905-14930`.

Until `Extract` the process knows its host only from the environment and the parent
process, so `proto` starts as any protocol (`Detected`): the host's own; the
Claude shape, which is assumed when nothing is detected (`main.rs:375-389`), as
with Codex and Gemini hooks that are launched without variables of their agent's
(`main.rs:2226-2228`); or that of an agent in whose session the host was started.
Unreadable input is answered in that guess, unless markers in its bytes tell a
Codex, or a Reasonix where nothing was detected (`Salvaged`, `main.rs:282-302`). A document carries
the protocol it is written in, and a host takes in those of its own only, or of
ones with the same fields (`Reads`, external: `hook.rs:712-717`, `3541-3545`,
`4001-4003`). `GuardHolds` leaves out answers in a protocol the host does not
read as long as the payload is not (`Guessed`), and nothing else on that account:
once the payload is read, whatever was guessed, a blocking answer blocks.

Left out: parsing of payloads, how the agent is detected, the
bypass variable, self-heal, SIGINT. Copilot, Gemini, Hermes and Grok answer
like Claude or Crush and differ in wording; the runs leave them out, the
proofs do not.

### RebaseRecovery

No lock is taken, so each file operation is a step: `IssueStart` truncates the
file and `IssueWrite` writes it (into the unlinked file if a hook deleted it
meanwhile); a hook goes through `Probe`, `Check`, `Cleanup` or `Reevaluate`
and `Consume`. `rest` says what else on the line a rule applies to.
`PermitLedger` reads permits as entries of `AllowOnceLedger`: an issued permit
is an entry created, live (`Held`) while the file holds it or a hook that read
it may still run a line on it. Left out: which repository a line reaches
(`resolve_recovery_cwd`), failing file operations.

### HistoryWriter

`queue` is the channel, `worker` where the worker is, `why` the message it
flushes for. `Drop` and `DropReturns` follow the three ways of dropping (`join`
without a deadline, `deadline`, `detach`). Each call of the storage may fail
with each kind the code tells apart: open, size limit, contention, capacity,
fatal, one row's own error, anything else. Time is a flag (`timer`). Left out:
pruning, redaction, SQLite itself. The branch for a disconnected channel is
not in the model: the writer always queues a shutdown before its sender goes.

### MaskedFindings

A line is the sequence of its findings in the order the evaluator would report
them, each with its rule and how it stands in the text (plain; not found in the
raw text; in doubtful surroundings; in text that is data if the proof of it
ends in time). `Begin`, `EndRounds` and `Round` are
`escalate_masked_findings_at`, `LookPast` and `Unwind` the recursion of
`look_past_doubted_occurrences`, its levels on a stack. Codes are redeemed at
any moment, and any evaluation may be cut short. `NothingMasked` and
`StrictestFirst` speak of lines whose rules can be granted (`Grantable`): some
paths, such as `evaluate_command_substitutions` (`evaluator.rs:12537-12558`),
deny without consulting the rule allowlists, so that granting the rule finds it
again and the rounds end there (`evaluator.rs:32797-32806`), which may leave a
later denial masked when policy lets that rule run. `log` is not in the run's `Modes`.

### Evaluator

A line is a forest: a root for each view of the text (dialect), and under each
command the commands its text runs, before or after the whole-command checks.
`frames` is the call stack; each stage is an action (`Enter`: nesting limit,
deadline, config lists; `Open`: the early look-up of the grant; `Descend` and
`Ascend`; `Gate`: quick reject; `Whole`: grant and allowlist; `Packs`;
`FanOut`: the other views), so the deadline (`Expire`) and another process's
redeem (`RedeemMeanwhile`) come between any two. What a stage finds in the text
is the command's `mark` and `find`, and whether the cheap predicate before the
early look-up of the grant sees that commands are nested in it (`seen`,
`evaluator.rs:13486-13519`). Lines in which it sees none though there are some
(aliases, texts rebuilt from `$IFS`, deferred commands, brace lists,
`evaluator.rs:14347-14441`) are among those checked: `GrantHonoured` says that they
cost no more than they must, a granted line is denied only for harm in a command
so missed (`MissedHarm`), and `AuthorizedRuns`, that no granted line is denied,
is what the code's comment promises and `grant_hidden` refutes.

### ProofWorkers

A call is `Claim`, `Spawn`, then `Take` or, when the budget is `Spend`, `GiveUp`;
its parser is `Parsed`, `Deliver` or `Unwind`. Kinds without a slot
(`protected_matches`, `run_ast_match`) are in it as such. A panic unwinds only in
builds that unwind; a release build aborts (`Cargo.toml:161`).

### SelfHeal and HookEntries

The settings are the number of the host edit they are from and the state of
dcg's entry. A healer is `Look`, `TryLock`, `Reread`, `WriteTemp`, `Replace`, and
dies at any of them; a command reads, truncates and writes in place, without
the lock; a rename or an edit under it detaches its open file. Five attempts to
lock within 50 ms are one step that may find it held. One `dcg` executable is
modelled: two of them would repair each other's entry in turn. Permissions, and
that the temporary file is written before they are copied, are left out.

`SelfHeal` takes the list of entries for one that an install understands;
on a malformed one an install fails, as often as it is tried, and `Repaired` does
not speak of it. `HookEntries` has the list itself, malformed ones
included: matchers, arrays that are none, hooks of dcg's
(current, stale) and of others, and a field that is the operator's. `Installed`,
`Cleaned` and `Registers` are `install_dcg_hook_for_matcher`,
`remove_dcg_hooks_from_pre_tool_use` and `settings_has_exact_dcg_hook` on it. `Only`
is the `retain` of both: of some hooks, those that are dcg's, or the others.

## Runs

| Run | Instance | Shows |
|---|---|---|
| `allow_once_concurrent` | 2 hooks (3 runs), 2 CLI processes (2 runs); a race over one command, or in turn over two of one repository | `SingleUseOnce`, `RetiredStayGone`: a single-use grant lets one command run and nothing removed comes back, under every interleaving; `DenialKeepsGrants` |
| `allow_once_stores` | 1 hook, 1 CLI process, up to 4 denials or attempts, 2 commands and one write cut short (`Budgets`), expiry, config blocks, line limit 2, byte cap of two records, fairness | `TypeOK`; `StoreBounded`: the cap is passed by one record at most; `ApprovalJustified`; `LedgerSpec`: the refinement of the ledger; `ShownCodeRedeemable`: a code shown stays redeemable until used, revoked, cleared, expired or archived; `VerdictReached`: a hook decides though the pending store's lock is never released |
| `allow_once_code` | two redeems of one code | violates `OneCommandPerCode` |
| `hook_requests` | batches of up to 3 of 8 verdicts on 4 hosts, none detected; up to 2 entries, readable or not, with a panic of either thread anywhere on 5 hosts, detected, undetected or in another agent's session; deadline, closed pipe | `TypeOK`, `AnswerIsStrictest`, `PermittedRequestRuns`, `AuditAgrees`, `GuardHolds`, `OneDocument`, `EveryRequestEnds` |
| `hook_explicit` | a warned command under OpenCode | violates `PermittedRequestRuns` |
| `hook_scan` | time runs out in the last scan window | violates `ExhaustedScanBlocks` |
| `evaluation` | every line of 3 findings under every policy, 2 rounds, 2 levels, 2 codes; every line of 3 nested commands or views, nesting 1, 2 grants | `NothingMasked`, `StrictestFirst`, `UnfinishedForCause`, `OneCodeSpent`: the rounds find what denies, say when they were cut short and spend one code at most; `DecidesOnMerits`, `UsedMeansRuns`, `GrantHonoured`: an evaluation denies exactly what is harmful in some view, a grant is used once, by a line that runs, and a granted line is denied only for what the cheap predicate misses; `TypesOK` |
| `grant_hidden` | a granted line that defines an alias with a harmful body | violates `AuthorizedRuns` |
| `threads` | history: 4 entries, batches of 2, 2 flushes, up to 3 kinds of failure, three ways to drop; parsers: 2 evaluation threads, 3 proofs of 3 kinds | `FlushIsBarrier`, `RowsAccounted`, `DropEnds`; `OneParser`, `CallsReturn`; `TypesOK` |
| `files` | permit: one hook, two permits, rebases and expiry anywhere; settings: 2 healers, 1 command, 2 host edits, one crash or failed write; entries: every list of two entries of up to two hooks, or three of one | `PermitLedger`: a permit is a single-use exception of the ledger; `OnlyInWindow`, `PermitLasts`; `OneRepair`, `CrashSafe`, `LostOnlyInWindow`, `Repaired`; `OneHook`, `OthersKept`; `TypesOK` |
| `rebase_two` | two hooks, one permit | violates `SingleShot` |
| `heal_dirs` | two hooks, one settings file, two configuration directories | violates `OneRepair` |

### Bounds

*Allow-once.* The races are between two processes over one record or grant;
two hooks and two CLI processes have every pair. Three hook runs are a denial
and two attempts to use its grant, two CLI runs two redeems or a redeem and a
removal. The clock needs one tick past a lifetime of zero for a record to
expire and one within a lifetime of one. Rotation keeps `MAX_PENDING_LINES / 2`
of more than `MAX_PENDING_LINES` records, so a limit of two needs four denials;
to be used, a code of theirs needs one command, and a cap of two records is met
by three of them. What a behaviour may use of all this together is its `budget`,
four commands and one interrupted write or five commands. One
interrupted write suffices, as everything a later operation sees of it is in
`tail` and `junk`; the proofs drop every bound. `MaxHookRuns`, `MaxCliRuns`,
`MaxTime` and `MaxCrashes` are guards of actions only.

*Hook request.* A batch without a panic starts from the Claude shape, whatever the
host: what was detected no longer matters once the payload is read. What the batch loop carries from entry to entry is the strictest
outcome and the held-back row, so an entry before, at and after the one that
decides (three) shows every order; a panic or an unreadable payload is
independent of the rest of the batch and two entries do. The proofs are for
batches of any length.

*Evaluation.* Two rounds and two levels let both limits be met by three findings;
three rules are one granted, one that denies and one that cannot be granted;
a second code is what a second use would need. In a line of three
commands there are two views with a nested command in one, a command under
another under a third (past the nesting limit of one), and two siblings.

*Parsers.* Two evaluation threads are a parallel batch; three calls are one that
is late, one of the same kind that finds the slot, and one of another kind.

*Settings.* Two healers, one of everything else: a second edit is what a healer
may lose, a second command meets what the first left. `MaxEdits`,
`MaxCommands`, `MaxFaults`, `MaxCalls`, `MaxRedeems`, `MaxGrants` and `MaxLine`
are bounds; the limits on rounds, levels and nesting are the code's.

*Rebase recovery.* A lifetime of two ticks has a tick at which a permit is live
and aged; two permits show the second deleted in place of the first; three
runs are a use, an attempt at reuse and one more.

*History.* Four entries in batches of two fill a batch, leave one begun and
have entries queued behind a flush; three kinds of failure reach a fatal error
after an ordinary one and a second after recovery.

Deadlock is checked for the stores, where the state with nothing left to do
(`AllQuiet`; in `MCStores` `AllDone`, with the budget used up) steps to itself. The other programs end: a process exits, permits and runs are used up.

### Fairness

`VerdictReached`: a hook takes its own steps, and a process holding the grant
store's lock finishes with it (`HookFairness`, `GrantHolderFairness`). Nothing
is assumed of the holder of the pending store's lock: the bounded wait of the
record step is what the property is about. `EveryRequestEnds`: the main thread
and a started panic hook keep running; no panic, expiry or closing is obliged.
`DropEnds`: the owner's wait ends when it may, and the worker runs on when its
owner joins it. Under a deadline or detached the worker may be stuck in the
storage for ever. Neither assumes anything of other processes. `CallsReturn`: time
passes, so a budget is spent, and the evaluation thread is scheduled; nothing
is asked of a parser, which may parse for ever. `Repaired`: a hook under way goes
on, and the host keeps running hooks, which is the environment's part: the code
promises a repair when a hook runs, not before. Crashes, failed writes, edits
and commands are never obliged and end with their bounds.

## What is proved

TLAPS checks the following for every value of the constants that the modules'
assumptions admit.

*Ledger.* `LedgerSingleUse`: in the abstract ledger a single-use grant covers
one run.

*Allow-once.* `TypeCorrect` strengthens the type invariant by `ViewInv`: while a
process holds a lock, what it loaded is exactly the unexpired part of the file.
That is what makes a rewrite from `view` sound, and it holds since only the
holder writes. `RetiredGone` adds that record
numbers are fresh and that nothing retired is in a file or a view.
`ImplementsLedger` classifies each step by what it does to the
records (`StepKind`: appends a denial's, appends a grant, authorises a run, or
only removes some) and maps each kind to a step of the ledger or a stutter. `SingleUse` is the
ledger's theorem through that mapping. `Justified`: every authorised run was
in the scope and lifetime of its grant, and a run over a config block goes
back to a forced redeem of a config block's code. `DenialsKeepGrants`: the only step that
takes a hook from matching to its denial is a match that found no grant
(`DenialIsMatch`), and it rewrites the store to what was live. `StoreWithinCap`
needs `SizeInv`: a last line that lacks its newline belongs to a record that is
there, so the append that joins it loses one record for the two units it
wastes; that a finite store has a newest record comes from the well-foundedness
of the numbers below the next one. `ShownCodesRedeemable` rests on `CodeInv`,
which includes codes about to be displayed, and on `TimesInv`: no process works
with a time ahead of the clock, so what it did not load has expired.
`OneCommandWithOneCli` says when the documented promise that `allow_once_code`
refutes does hold: while allow-once processes run one after another and no write
is cut short, for any number of hooks at any time. Both hypotheses are needed:
without the first TLC finds two commands for one code (`allow_once_code`), and so it
does without the second, when a redeem dies once its grant is in the file and
leaves the record to be redeemed again.
`NobodyWaitsForWaiters` is what can be proved of `VerdictReached`, and more: whoever
holds a store's lock is at work on that store, so nobody waits for a process that
waits; and each step of a process under way lowers a number (`Turns`, eight at
most) that no step of another raises. That the verdict then comes needs only
those that hold the grant store's lock to be scheduled.

*Hook request.* `TypeCorrect`; `AtMostOneDocument`, from `ClaimInv`: who is about
to write, or has written, holds the claim, and a claim that is not main's is
the panic hook's, which is writing. `NothingSlipsThrough` proves `GuardHolds`,
readable requests and unreadable ones, for batches of any length, all hosts and
whatever was detected. `ClaimInv` gives the claims; `AnswerInv` ties the protocol
of every answer to the request, or to the guess while the payload is not read; `ScanInv` says what has been scanned is harmless as long as the
strictest outcome proceeds, and that the panic policy is off only before
anything is armed or when the request may run; `VerdictInv` says that once
main has answered, its exit status and document refuse what may not run. The
guards alone are not inductive: `Finish` exits with a status decided several
steps earlier, and a panic reads a policy armed before the payload was.

`StrictestAnswered` proves `AnswerIsStrictest`, for requests without a panic,
in time and with the pipe open: main resolves all entries before
it says anything, so `SelectInv` carries the strictest outcome of the entries
scanned so far (nothing stricter before, and some entry that called for it) from
the selection through the document to the exit status. It needs `OrderlyInv`:
with no panic only main answers, in the protocol of the request, and nothing is
written before the claim. `PermittedRuns` proves `PermittedRequestRuns` for every such
request but a warned one on a host that wants its answers spelled out
(`SpokenWarning`); `hook_explicit` shows that this case does fail.
`HistoryAgrees` proves `AuditAgrees`: `AuditInv` says at each stage whether a
denial is on record, and that the answer refuses just then, also when time
runs out or the pipe is closed; an oversized entry is refused without a row.

`ScanStopsShortOfLastOnly` is about unreadable input: a scan that runs out of
time blocks (`ExhaustedScanBlocks`) unless the time ran out in the last window,
which is the behaviour `hook_scan` shows. It takes `SalvageInv`: every window
before the current one was looked into, or all but the last of them, on which
time ran out. `RequestsAreShort` is what can be proved of `EveryRequestEnds`: a
number (`Fuel`) that starts below `2 * Last + 22` for a request of `Last`
entries or windows goes down with each step of any thread, and until the process
has exited a thread has a step to take (`SomeoneGoesOn`). No loop, no wait on
the other thread and no panic can keep a request from ending.

*Rebase recovery.* `TypeCorrect`; `WindowHolds`: `OnlyInWindow` for any number
of overlapping hooks. `SingleShotAlone`: with one hook slot, a permit lets one
line through however many permits are issued meanwhile; `rebase_two` shows that
the hypothesis is needed. It rests on permits being numbered as issued and on
`SpentInv`: a permit that was used is gone from the file and no hook still acts
on it. `PermitKeepsLedger` proves under the same hypothesis (`OnlyHook`) that
the permit file implements the ledger step by step: a permit that is written is
`Create`, a line let run on it `Authorize`, one that expires, is deleted or is
replaced `End`. The invariant adds that a permit about to be written is a fresh
one and that nobody holds a permit on which a line ran. `OnlyPermitLasts` (from
`LastInv`): what is deleted as expired had expired, and nothing deletes the file
while the first permit is written.

*Rounds over findings.* `MaskInv` joins the types with: what is blanked or noted is
doubted (`OnlyDoubted`), what is granted was reported and let run
(`GrantsNoted`), a certain denial is still ahead, on the stack or answered
(`NoEscape`), one code at most is spent and then the search ends (`CodeEnds`), and
so does an evaluation cut short (`CutEnds`). From it `RoundsTypeCorrect`,
`NoCertainDenyMasked`, `CutShort` and `OneCode`, for any rules, policy, limits and
lines; the first under the hypothesis `Grantable` and for lines without a code.
`StrictestDecides`: of the findings that matter, each is dominated by the best of
its level when the rule was reported, and comes after it otherwise, since the
evaluator reports the first it may (`TopInv`); a level that ends dominates all it
did not blank out, and the one above takes the better of the two.
`UnjudgedForCause`: round n has reported n rules and level n has blanked out n
doubted uses (`CrowdInv`, which names them by functions without repetition), so a
limit is met only by a line with more of them than the limit.
`EvaluationsBounded`: each evaluation of a line lowers a number (`Ahead`) that is
`(MaxRounds + 1) * (MaxDepth + 1)` at first and is never raised: each level has
`MaxRounds + 1` evaluations of its own, and none is entered twice. With the limits in
the code (32 and 16) that is 561 evaluations of one line.

*One evaluation.* `GrantUsedByLineThatRuns`: a line uses up one grant at most and
then runs, and a blocked line no plain one. Grants are used by the outermost
command of a view only, which is past its config block (`OutermostUnblocked`), and
once one is used nothing is evaluated any more (`UsedOnce`).
`JudgedOnMerits`: an evaluation that finishes without a grant denies just the
lines that run something harmful. What a command deserves is recursive in the line;
the proof says it with sets: a command is sane when some set of harmless commands
holds it and all that is judged of what its members run, and `MeritInv` lets the
chain of frames return what their commands deserve. `GrantIsHonoured`
(`HonourInv`): a grant that is there from the start stays at hand until the
outermost command is past its checks, unless a block wants a forced one or time
runs out. Until then only commands that the predicate missed are
judged, so a denial that comes back to the outermost command is for harm nested
among those (`Missed`, `HarmAmongMissed`). `EvaluatorTypeCorrect`
includes that commands are evaluated one level below the nesting limit at most.

*History writer.* `WriterTypeCorrect` adds to the types that messages and
batches name entries that were sent and that a batch being gathered is not full.
`FlushAndDropDrain` (`BarrierInv`): every entry is settled, in the batch or
queued, and the entries a flush request or the shutdown marker waits for are
settled, in the batch or queued ahead of it; a write, a recovery or a failure
moves entries from the batch to the settled and drops none on the way.
`RowsInOrderLossesCaused`: `OrderInv` keeps rows, batch and channel in one
ascending order, the batch from `pos` on without a row yet, as long as no fatal
error met the entry-by-entry fallback; `FaultInv` and `LossInv` tie what the
worker has given up to the failures it met. `DropIsBounded` is what can be
proved of `DropEnds`: once the writer is dropped there is one shutdown marker,
ahead of the worker or the cause of its last batch (`MarkInv`); the worker never
waits on an empty channel (`NoVainWait`); and each of its steps lowers a number
(`ToDo`) that nothing raises, at most `2 * BatchSize + 8` per message up to the
marker, requests that are still sent included. So only a storage call that never
returns, the deadline's business, can keep a drop waiting. All for any batch
size, any number of entries, flushes and failures.

*Parsers.* `WorkersTypeCorrect`, `OneParserPerSlot`: a call that is starting or
parsing holds the slot of its kind (`SlotsHeld`), for any number of threads and
calls.

*Settings.* `HealInv` says of temporary files, locks, repairs, edit numbers and
ages what each step of a healer knows. From it `HealTypeCorrect`,
`HealersAreCrashSafe`, and, for one configuration directory that is not purged
(`OneDir`, `NoPurge`), `RepairedOnce` and `LostInWindow`; `heal_dirs` shows that the
first hypothesis is needed.

*The list of entries.* `InstallsOneHook` and `InstallKeepsOthers`, for lists of any
length, any number of hooks and any sequence of commands. What a command makes of
a list, and what the properties look at, are all of one form: a sequence for each
entry, joined (`Each`). So it is enough to know what joining does to two lists put
together, and what each operation does to one entry. An install splits the
list around the first entry under dcg's matcher (`Around`); what it wrote splits
the same way with that entry first, so that a second install, or repair,
writes the same (`InstalledKeeps`). The invariant (`EntriesInv`) adds only
that the list is one of entries. `ListsAssumption` says the lists to start from are.

*Components together.* `EvaluationCorrect`, `ThreadsCorrect` and `FilesCorrect` state
all invariants of the runs `evaluation`, `threads` and `files` for the
specifications those runs check (`PartSpec`, `ThreadsSpec`, `FilesSpec`), with the
hypotheses of the theorems they join: a behaviour of each is one of the part it
is about, or one in which nothing moves there, and both keep that part's
invariant.

*Theorems beside the violated runs.* For each of the six runs that find a
violation a theorem states what does hold, and the counterexample is outside
its hypothesis: `OneCommandWithOneCli` (`allow_once_code`), `PermittedRuns`
(`hook_explicit`), `ScanStopsShortOfLastOnly` (`hook_scan`), `SingleShotAlone`
(`rebase_two`), `RepairedOnce` (`heal_dirs`), `GrantIsHonoured` (`grant_hidden`).

*Only model-checked.* Liveness (`VerdictReached`, `EveryRequestEnds`, `DropEnds`,
`CallsReturn`, `Repaired`) and ENABLED are out of the prover's reach; of the first
three the bounds above are proved. The library's induction theorems
cannot be applied either; where a proof needs recursion (the depth and the worth of a
nested command, the fold behind `FlattenSeq`), it takes the set of arguments at which
the statement fails and the least of them (`LeastOne`).

## Where code and text disagree

Each of the first six has a run whose counterexample is a behaviour of the code.

- **One code, two commands** (`allow_once_code`). The README and
  `docs/allow-once-usage.md:63` give a code's scope as a single command. Lookup,
  addition of the grant and removal of the record are three lock sections
  (`cli.rs:19319`, `19441-19443`), so two overlapping redeems both succeed.
- **A warned command is blocked under OpenCode** (`hook_explicit`). A warning on
  the Claude shape writes nothing but takes the claim, so the allow line that
  `main.rs:2405-2408` promises is not written.
- **A scan cut short lets the payload run** (`hook_scan`). A window whose own
  evaluation runs out of time is ignored (`main.rs:779`); when it is the last
  window, nothing else looks at the deadline (`main.rs:583-584` says it blocks).
- **A permit used twice** (`rebase_two`). Reading and deleting it are apart, and
  overlapping hooks both pass (`rebase_recovery.rs:37`, `988`).
- **Two locks for one settings file** (`heal_dirs`). The lock file's name is keyed to
  the settings' path so that "the lock follow[s] the file it protects", but it
  is joined to `config_dir()` (`cli.rs:18201-18224`): hooks whose environments
  differ in `XDG_CONFIG_HOME` or `DCG_CONFIG_DIR` lock different files and
  repair the settings at once.
- **An authorized line stays denied** (`grant_hidden`). A false negative of the
  predicate before the early look-up "would make an explicitly authorized outer
  command impossible to run" (`evaluator.rs:13488-13490`), and it has some. Bodies of
  aliases (`14380-14405`), texts rebuilt from `$IFS` (`14347-14373`), deferred
  commands and brace lists (`14415-14441`) are judged before the look-up at
  `14873`, and nothing at `13491-13519` matches `alias x='rm -rf ~'; x`: it is denied
  before its grant is looked at, however often the user redeems a code for it.

Others were seen while modelling. A property's hypothesis or an assumption leaves
them out, and no run is about them:

- The wait for the grant store's lock has no bound (`pending_exceptions.rs:724`):
  a wedged holder stalls hooks. `GrantHolderFairness` assumes it away.
- Once appends reach the byte cap without a rotation, maintenance that frees
  nothing leaves denials without a code (`pending_exceptions.rs:442`, `1444`).
- An analysis limit ends the batch scan as a deadline does, so a later denial
  gives way to "unverified" (`main.rs:2368-2373`, `1391`); `AnswerIsStrictest` excepts
  such entries. The request is still stopped (`GuardHolds`).
- A grant or permit used by an entry of a batch that a later entry denies is
  gone though nothing ran (`main.rs:1190`).
- A panic hook on a worker thread that took the claim and has not written when
  main, finding it taken, exits 0: nothing is on stdout (`hook.rs:807-809`).
  `Excused` leaves this order out.
- A panic before the payload is read, and unreadable input, are answered in the
  protocol of the detected agent. Hooks of Codex and Gemini are often launched
  without variables of their agent's (`main.rs:2226-2228`); the Claude shape is then
  assumed (`main.rs:375-389`), and its `ask` at exit 0 is none for Codex
  (`hook.rs:4001-4003`), its envelope not read by Crush (`hook.rs:712-717`). So
  the request may run, where `src/README.md:939` has hook mode "always blocking" after
  a panic and `main.rs:276-281` speaks of Reasonix alone. `Guessed` leaves these
  answers out of `GuardHolds`.
- Antigravity reads no exit status, so a lost document is not made up for
  (`Excused`).
- A permit issued between another hook's reading and its deletion of an older one
  is deleted in its place. `PermitLasts` speaks of the only permit issued.
- A fatal error in the entry-by-entry fallback of the history writer makes it
  write rows of the batch again (`history/mod.rs:1012`); `RowsAccounted` leaves
  that sequence out.
- A rule reported on a path that consults no allowlist ends the rounds, and may mask
  a later denial when policy lets that rule run (`evaluator.rs:32797-32806`);
  `Grantable` leaves such lines out.
- A code redeemed while a line is evaluated may be spent by a later round though the
  answer stays what it was, and that round writes no audit entry
  (`main.rs:1379`).
- `apply_branch_strictness` (`evaluator.rs:33048`) is called from tests only; the
  adoption of another view's warning (`evaluator.rs:14116`) never happens, as an
  answer that allows carries no mode at this point.
- In a parallel batch a proof may find its slot taken by another entry's, so what
  is recognised as data depends on timing; the line is then scanned more
  coarsely (`cli.rs:3028`).
- A host edit between a healer's second read and its rename is lost: the host takes
  no lock. `install` and `uninstall` truncate the settings in place, without the
  lock, and leave a file that does not parse if they die there, which healers
  then leave alone (`cli.rs:13785`). `LostOnlyInWindow` and `CrashSafe` say this is
  all that is lost or torn.
- After `dcg uninstall` a hook that still runs registers dcg again, as `self_heal` is
  on by default; `--purge` removes the lock file under a healer that holds it.

## Not modelled

- *History database, statistics, scan, simulate, suggestions, MCP, output, installers*:
  one pass over input or files, SQL, wording; nothing in them depends on an
  order of steps.
- *Evaluator and heredocs, beyond the above*: most of both files decides what text
  means (splitting, dialects, quoting, substitution, extraction, patterns). Their
  results are inputs of `Evaluator` and `MaskedFindings`. The same holds for
  normalisation, the regex engines and the tables of patterns.
- *Allowlists and configuration*: the layers are merged field by field before an
  evaluation, on text and dates; `Evaluator` takes the outcome as the mark of a
  command. Expiry and conditions of an entry, and the order of layers, could be
  functions checked against a definition over small inputs; they have no steps.
- *Self-update*: the copies before an update and the rollback (`update.rs`), which
  on Unix copies over the running executable (`update.rs:395-401`), are file
  operations of one process at a time, started by the user.
- *Other hosts' settings, permissions, SIGINT, payload parsing, failing deletions,
  pruning of history rows* in the components that are modelled.

## What could follow

The layers of allowlists and configuration as functions;
the sequence of copies in `update.rs`.
