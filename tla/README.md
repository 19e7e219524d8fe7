# Verification of aim-google

aim-google is a command line program in Go for Google Workspace (a fork of
gogcli): `gmail`, `calendar`, `drive`, `docs`, `sheets` and a dozen other
services, one process per command. This directory holds TLA+ modules that model
its state-carrying parts, the TLC configurations that check them on small
instances, and theorems that TLAPS proves for every instance.

`PROJECT.json` is the machine-readable index: components, runs, mutants, the map
from every definition to the lines of source it models, hazards, findings and
theorems.

## 1. The system

A command parses its flags (`internal/cmd/root.go`), passes the guards
(allow list, no-send, dry run, confirmation), resolves the account and the OAuth
client, takes a refresh token from the keyring, builds an API client over the
retrying transport, and makes its calls. Processes share nothing but the user's
state directory, configuration file and keyring. Concurrency inside a process is
rare and deliberate: two fetchers of search results, the team calendar, the
keyring's opening timeout, the callback servers of the authorization, and the
HTTP server of `gmail watch serve`.

| Component | State | Operations | Talks to | Hard behaviour |
|---|---|---|---|---|
| Gmail watch | state file per account; its copy in the server; Gmail's history; Pub/Sub's unacknowledged pushes | `watch start/renew/stop/serve`, push handler | Gmail history and messages, Pub/Sub, a web hook, the file system | overlapping handlers, repeated and reordered pushes, history that has expired, crash between save and hook, torn file |
| HTTP transport | circuit breaker, counters of each request | `RoundTrip`, `retryOnQuota` | every Google API | nested retries, bodies that can be read once, overflow of Retry-After, a breaker shared by concurrent requests |
| Search | pages, page tokens, a goroutine per result, a semaphore, a channel | `gmail search`, `gmail messages search` | Gmail lists and gets | results out of order, an error in the middle, tokens in a circle, cancellation |
| Configuration | `config.json`, its temporary file and lock file | `UpdateConfig`, `ReadConfig` + `WriteConfig` | the processes of one user | lost updates, torn files, a stale lock |
| Token store | two keyring entries per account | `SetToken`, `GetToken`, `DeleteToken`, the persisting token source | keyring, Google's token endpoint | rotation of tokens by concurrent requests, half-done writes, migration of old keys |
| Authorization | OAuth state, callback channels, files of the two-step flow | browser flow, manual flow, account manager | browser, Google | timeouts racing answers, answers to another process or tab, files that expire while they are used |
| Command runner and guards | flags, configuration | dry run, confirm, no-send, allow list | every command | a guard placed after a change, commands without the guard |
| Sending | drafts, messages, labels | `gmail send`, `drafts send`, `forward`, `autoreply` | Gmail | failure in the middle of a batch, repeated replies |
| Open tracking | tracking configuration, keyring secrets, worker database | `track setup/status/opens/rotate` | Cloudflare, keyring | half-done set-up |
| Calendar | - (the service's) | events, recurring edits, team view | Calendar API | two calls for "this and following", ten goroutines |
| Drive, Docs, Sheets, Slides, Forms | - (the service's) | single calls and batches | the APIs | indices shifted by earlier edits, temporary files that must go |
| Others (Contacts, Keep, Chat, Classroom, Tasks, Admin, Apps Script, YouTube) | - | mostly a call per command | the APIs | bulk changes that stop half way |
| Output, parsing | - | formatting | - | none with state |

What makes each of them correct:

- *Watch*: no event that a push announces is lost unless for a reason the code
  accepts, none reaches the hook twice without one, the history id never goes
  back, every push is acknowledged in the end.
- *Transport*: bounded attempts and bounded side effects, whole bodies, RoundTrip's
  respect for Retry-After, a breaker that only rejects while the service fails.
- *Search*: everything listed is put out, once and in order, or an error is; no
  goroutine stays behind.
- *Configuration*: an update reported as saved stays, the file can always be
  read.
- *Token store*: what a command reported as stored or removed is what the next
  one finds; the newest token wins.
- *Authorization*: a token is stored for the account that consented, once, and, where the state of the
  answer was compared, for what it consented to; a URL that was printed can be redeemed; every wait ends.
- *Commands*: a dry run changes nothing, nothing is destroyed without consent,
  nothing is sent under no-send, others' edits stay, failures are reported.
- *Sending, tracking, calendar edits*: a failure between two calls leaves
  nothing half done that is reported as done, and trying again does not repeat
  what was done.

## 2. Modules

| Module | Models | Properties |
|---|---|---|
| `GmailWatch` | `gmail_watch_server.go`, `_state.go`, `_cmds.go`, with mailbox and Pub/Sub as used | safety, action, liveness |
| `RetryTransport` | `googleapi/transport.go`, `circuitbreaker.go`, `docs_sed_retry.go` | safety, action, liveness |
| `SearchFetch` over `SearchContract` | `paging.go`, `gmail_thread_search_helpers.go`, `gmail_messages.go` | safety, liveness, refinement |
| `ConfigStore` over `ConfigRegister` | `config/config.go` and the callers of `WriteConfig` | safety, liveness, refinement |
| `TokenStore` | `secrets/store.go`, `googleapi/client_auth.go` | safety, action, liveness |
| `Authorization` over `ConsentContract` | `googleauth/oauth_flow.go`, `oauth_flow_manual.go`, `manual_state.go`, `accounts_server.go`, as `auth add` and `auth manage` use them | safety, liveness, refinement |
| `CommandRunner` over `CommandSteps` | `root.go`, `dryrun.go`, `confirm.go`, `gmail_no_send.go`: one run of one command | safety, liveness |
| `CommandScripts` | no code: what the order of a command's steps has to be for the properties of `CommandRunner`; the assumptions of its theorems, which TLC checks of all the commands | - |
| `GmailCommands`, `PeopleCommands`, `DriveCommands`, `CalendarCommands`, `DocsCommands`, `SheetsCommands`, `SlidesCommands`, `ClassroomCommands`, `WorkspaceCommands` | the commands for Google's services (slides with forms; people with contacts, groups and keep; the last: tasks, chat, admin, Apps Script, YouTube), each as the sequence of its guards and calls | - (run by `CommandRunner`) |
| `SedCommands`, `AuthCommands` | `docs sed` and `docs clear`; the commands of `auth` and `config` | - (run by `CommandRunner`) |
| `MC*` | the instances for TLC: constants, tables, symmetry | - |
| `*Proofs` | theorems of the module they are named after; `CommandRunnerProofs` is about `CommandScripts` | - |
| `DataInduction` | no code: induction over the natural numbers for sets, and that recursive functions exist; for the proofs about transport and searches | - |

In each module an action is one step of the code between two points where
another thread, process or service may act: a call, a lock, a file operation.
Where the code changes several things without such a point, they are one action.
Definitions keep the names of the functions they model; a helper that differs
from the code by design is a mutant, and says so.

### GmailWatch

The mailbox is its history (`log`): event *i* has history id *i*, and a message is
named by the event that added it. `pushes` are the ids Pub/Sub was given,
`pending` those it still has to get acknowledged. `disk` is the state file
(absent, torn or a state), `mem` the copy in `gmailWatchStore`. Each HTTP request
has a program counter:

    idle -ReceivePush-> start -StartFetch-> list -ListHistory-> fetch
         list -HistoryStale-> resync -ListRecent-> fetch
         fetch -FetchMessage*- AdvanceHistory-> hook -PostHook-> record -> idle

The store's mutex covers each of `StartHistoryID`, `Update` and `Save`, but not
the time between them: other requests interleave there, as in the code. The
commands `start`, `renew` and `stop` are another process (`cli`) that calls Gmail
and then writes or removes the file under the server's feet; the server never
reads it again.

`outcome` and `cliWrote` are observers: no guard reads them. `outcome[e]`
collects what became of event *e*: hooked, answered, or lost, and why
(`overflow`: it did not fit on the one page the handler reads; `pruned`, `bypassed`: a resync
did not reach it, after Gmail had forgotten the history, or with the history intact; `skipped`: message gone or excluded; `suppressed`: it was on a
page whose payload was dropped; `hookFailed`; `jumped`: start or renew wrote a
newer id; `crashed`: the server died before the call).

A resync has two causes. Gmail no longer has the history from the stored id; and any failure of the
network under `history.list`, because `isStaleHistoryError` (line 532) looks for the word "history" in the text of
the error and that holds the URL `.../users/me/history`. An answer with a 5xx status has no URL in its text and
is a failed call (`CallFails`). A network failure therefore costs more than a
repetition: deletions, and messages beyond the newest `ResyncMax`, are passed for good, and what the resync does find may be
told a second time, although docs/watch.md:141 speaks only of a stale id.

Abstracted: expirations, labels, delivery notes and timestamps of the state
file, headers and tokens that authenticate a push (a push that is refused changes
nothing), the text of payloads, the fetch delay.

### RetryTransport

Time is in seconds and moves by `Tick`; the loop of `RoundTrip` is
`ready -> sent -> asleep -> ready ...`, with the answer of the server in between.
The delays are computed as in the code, jitter included, and a duration wraps
around as `time.Duration` does (`Wrapped`). `retryOnQuota` is the outer loop
(`backoff -> new`), with new counters and a new body for every call. `getBody[r]` says whether the request can make its body again
(`ensureReplayableBody` sees to it before the first attempt); a retry whose `GetBody` fails ends with an error (`GetBodyFails`). The breaker is shared
by all the requests. `effects` observes how often the server did the work: a 5xx
may follow a request that was carried out.

### SearchFetch

The server's list is a table from page tokens to pages, chosen at the start and
arbitrary: circles, empty pages, entries without an id. Each result has a worker
(`queued -> calling -> sent -> exited`), the semaphore is the number of workers
between `Acquire` and `Exit`, the channel is buffered with room for all. `kind` tells the two
searches apart: a message search fails with the first error, a thread search goes
through the threads once more to find the error, and if that round succeeds puts
out what the first one got. `TokenAt[n]` and `ListedUpTo[n]` are the token and the entries that following the
server's pages from the start leads to; they are no variables, but what `AllPagesListed` compares the listing
with. `SearchContract` is the promise, and
`KeepsContract` the refinement (`listing <- listed`).

### ConfigStore

Processes in `Locked` go through `UpdateConfig` (lock file with O_EXCL, two
seconds, deferred removal), those in `Unlocked` call `ReadConfig` and
`WriteConfig`. `os.WriteFile` is three steps, open with truncation, write,
close, and the rename is one; a file descriptor follows the file it has open
through a rename (`AfterRename`). `ConfigRegister` is a record updated in one
step; `UpdatesAreAtomic` says the locked processes implement it.

### TokenStore

`primary` and `legacy` are the two keyring entries, the second of which exists for the
default client only. `SetToken` is store, verify, copy; `DeleteToken` two
removals; `GetToken` read, or read the legacy entry and migrate. A session is a command
that calls Google: several threads share one `persistingTokenSource`, whose
mutex is `holder`; `Obtain` is the call of the base source outside the
mutex, with which Google may rotate the token. `promised` and `doubt` are
observers: what the last operation that reported success left, and whether
one has failed since.

A keyring fails in four ways, which a run may allow one by one: an access is *refused*; an entry
is *unreadable* for once; a write reports success but stores nothing (*blank*), which
`SetToken` finds out by reading the entry back; and the same of the copies and migrations, which
nobody reads back (*blank copy*). *crash* is a kill between two accesses.

### Authorization

Several processes of one user at a time, each in one of six flows: `browser` (a local
server waits for Google's redirect), `paste` (`--manual`: the URL is pasted at a
prompt), `print` and `redeem` (`--remote`, steps 1 and 2), `loose` (`--auth-url` or
`--auth-code` without `--remote`) and `manage` (the account manager: a server, its tabs
and a handler for each redirect). The process goes

    idle -> waiting (browser) | serving (manage) | saving | prompt (paste, print)
         -> exchanging -> granted -> idle

What is asked for (client, scopes, forced consent) is one value, as it is compared
with a state file as one; `include_granted_scopes`, which is not compared, is not part of it.
A state is the number under which it was made up. `codeCh` and `errCh` are the two channels
of capacity one, which the handlers of the browser flow fill without ever waiting: the
first answer counts. `files` are the manual states in the state directory, `old` those of
more than ten minutes; a file that is looked at and is old is removed. Google exchanges a code
once (`spent`). `stored` is an observer.

Abstracted: ports (any answer may come to any server, which is what a port used again by the
next process can do); the client an entry is stored under; the page of the account manager. Left
out: the default account, the entry of `config.json` for a client override.

The state of an answer is not compared in every flow. A bare `--auth-code` has none; a redirect URL may have lost
its state (`StatesIn`, for the consents in `Cut`), and then `--auth-url` without `--remote`
(`oauth_flow_manual.go:68`) and the prompt of `--manual` (lines 149, 153) exchange its code all the same; a
state without a file is let pass without `--remote`; and the account manager compares with
its state from the beginning, which before the first tab is empty, so that an answer without one passes
(`accounts_server.go:343`). `compared` tells whether a run or handler has compared; where it has not, the
token is stored with `checked = FALSE`, of which `ConsentContract` promises less. A paste without a state
still clears the state of its own run (line 173), so that the URL of that run can no longer be
redeemed although nobody has answered it: `blind` observes such states, and `PrintedIsRedeemable` names them.

The prompt of `--manual` has
no deadline and heeds no `--no-input` (`input/prompt.go:12`), so that `EveryRunEnds` leaves it out. The
account manager has one state for all its tabs: `accounts_server.go:258` overwrites it, after which the
answer to the older tab is refused. Handlers do so without a lock; as all the states have one length, a
handler that reads it meanwhile finds the old or the new one, which is what the order of the
two actions gives. An upgrade names an account, but whoever consents is stored, under the name Google
gives.

### CommandRunner and the commands

A command is its `Run` method, with the helpers it calls, as a sequence of steps:
a check of flags, files or answers; a guard (`DryRun`, `Ask`, `Prompt`, `NoSend`); an
account or client; a call that reads, creates, updates, replaces, deletes, sends or gives access
(`Expose`); something local that is stored, erased or saved. `Opt`, `Each`, `Either` and
`Try` (what to do when a step fails) put them together; a script keeps the order of the
code, its conditions become choices, and what a call is about is a kind of object. So
`GmailSend` reads

    <<Check, DryRun>> \o SendService \o ResolveComposeSender \o PrepareComposeReply
      \o <<Check>> \o Each(<<Check, Send("mail")>>)

`CommandRunner` runs one of them: `Begin` is what `Execute` does before (lists of commands,
no-send), then one action per sort of step. Any call may fail, before or after it has
done its work; a `Guarded` call, which sends an etag or revision, fails if
somebody else (`OthersEdit`) has changed the thing since it was read. The flags are chosen at
the start and fixed. `changed`, `grave`, `lent`, `failed`, `overwritten` are observers;
`deferred` is Go's list of deferred removals, which `CleansUp` works off.

A property that does not hold of every command names those it leaves out
(`Exemptions` in `MCCommands`); they are known gaps of the program:

| Property | Left out | Why |
|---|---|---|
| `DryRunChangesNothing` | 32 commands, among them `contacts create`, `drive upload`, `drive share`, `docs write`, `docs find-replace`, `slides delete-slide`, `appscript run`, `auth add --remote` (its step 1 stores a state), `auth credentials set`, `auth keep`, `auth tokens import` | no `dryRunExit` on the way to the change, although `root.go:46` says of the flag "Do not make changes" |
| `NothingGraveUnasked` | `drive share`, `gmail autoforward update` | a file is shared with a user or a domain (`drive.go:481`), mail is forwarded to an address, at once; only sharing with anybody is confirmed |
| | `docs create`, `docs find-replace` with markdown, `slides add-slide`, `slides replace-slide` | local pictures are readable for everybody while Google fetches them |
| | `slides delete-slide`, `sheets named-ranges delete`, `forms watch delete`, `chat messages reactions delete` | deletions that nobody confirms, where their siblings (`forms delete-question`, `sheets chart delete`) ask |
| `FailureReported` | `gmail labels modify`, `gmail watch stop`, `docs find-replace` with markdown, `sheets create`, `appscript run`, `docs sed` with several expressions | one failure of several is only noted, or dropped (the error of `os.Remove`, placeholders, the move to a folder, the script's own error; a picture whose place was removed by the first attempt: the second finds nothing to do, `docs_sed.go:501`) |
| `EndsWithoutInput` | `auth add`, `gmail watch serve` | the answer of `--manual` is typed whatever `--no-input` says (`oauth_flow_manual.go:133`); the server runs until it is killed |
| `OthersEditsKept` | 19 commands, among them `calendar respond`, `gmail vacation update`, `docs write`, `docs sed`, `docs clear`, `youtube update` | what was read, or positions that were read, are written back without etag or revision |

The guards' properties follow from the order of the steps: no way through the script leads to a change but past
the guard. `CommandScripts` states that order for each guard (`Behind`, `GuardsFirst`, `MailBehind`,
`NotWrittenBack`). `FailureReported` and `NothingLeftBehind` depend on more than an order: `Track` is the set of
what a run can know of one object at each position (a change that failed and was not repeated, a thing lent and not taken back,
a deferred removal), `Reported` and `TakenBack` say which of that is permitted where a command may end well. All of them are
ASSUMEs that TLC evaluates for every command but the exempted ones, and `CommandRunnerProofs` proves the
properties from them for scripts of any length.

`auth credentials remove` removes the file of credentials before the tokens of its accounts: when one of
these fails, the command cannot be repeated, as it looks for the file first
(`auth_credentials.go:215`). It reports the failure, so that no property is violated.

`EndsWithoutInput` also assumes an open keyring (`keyring`, chosen at the start). A locked one asks for its
passphrase wherever a terminal is there (`secrets/store.go:130`, `keychain_darwin.go:73`), and neither that nor the prompt of
`auth add --manual` looks at `--no-input`, of which `root.go:48` says "Never prompt; fail instead": for them the help
text does not hold. `Pauses` and `Opens` are the two actions that wait in the model.

`NothingGraveUnasked` counts removals and what opens a file or a mailbox to others; the members of a course and the guests
of an event, who are what such a command is about, are not counted.

`NothingLeftBehind` speaks of commands that succeed: after a failed second picture the
first one stays in Drive, readable for everybody (`docs_import.go:386` defers the removal too late).

## 3. Runs

| Run | Instance | Checks |
|---|---|---|
| `watch_concurrent` | 2 requests, 3 events, 2 pushes, 1 fault of 7 kinds, 1 crash, 2 commands; symmetric requests | `NothingUnaccounted`, `HistoryIdNeverRegresses` |
| `watch_serial` | 1 request, 3 events of 3 kinds, 2 pushes (also without id, malformed), 1 fault, 1 crash, with and without hook, fairness | `TypeOK`, `AtMostOnce`, `AcknowledgedPushesBehind`, `EveryPushIsHandled` |
| `watch_deletions` | a deletion beside an excluded message | finding: `DeletionsReachTheHook` fails |
| `retry` | 2 requests, one through `retryOnQuota` with a stream body; one retry of each sort; headers beyond the largest duration | `TypeOK`, `AttemptsBounded`, `WholeBodySent`, `RejectedOnlyWhenFailing`, `RespectsRetryAfter`, `EveryRequestEnds` |
| `search` | all lists of two pages over two entries and a blank, a page of three; 2 of 3 workers at a time; both kinds; cancellation | `TypeOK`, `AllPagesListed`, `NoPageTwice`, `NothingDropped`, `KeepsContract`, `SearchEnds` |
| `search_threads_lost` | threads, one transient error | finding: `ThreadsNotDropped` fails |
| `config_locked` | 3 locked processes, crashes, full disk | `TypeOK`, `NoUpdateLost`, `FileReadable`, `UpdatesAreAtomic`, `EveryUpdateEnds` |
| `config_unlocked` | a locked and an unlocked one, no fault | finding: `NoUpdateLost` fails |
| `token_default` | default client, 2 threads, 4 tokens, 2 faults (refused, unreadable, writes that store nothing) and kills | `TypeOK`, `Settled`, `LegacyFollows`, `EveryCallReturns` |
| `token_rotation` | 2 threads, no fault | finding: `NewestKept` fails |
| `commands` | every command for a Google service and of `auth` and `config`, 339 of them, with every combination of flags (1,004,988 states) | `TypeOK`, `DryRunChangesNothing`, `NothingGraveUnasked`, `RefusalLeavesNothing`, `NoSendHolds`, `FailureReported`, `NothingLeftBehind`, `OthersEditsKept`, `EndsWithoutInput` |
| `auth` | 2 processes, one in four flows and one in two, all six kinds among them, 2 accounts, 2 asks, 2 states, 2 consents, one of whose redirect URLs may lose its state (752,746 states) | `TypeOK`, `PrintedIsRedeemable`, `StoresConsents`, `EveryRunEnds` |

Every property of a passing run has a mutant in `PROJECT.json`: a change of one
definition of the sort a bug would make (the id is stored even if it is behind, the semaphore is
not released, the lock file is made without O_EXCL ...), under which TLC finds
the property violated.

### Bounds

- Three events and two pushes are the least with which a push can be late, be
  repeated and overtake another while a third event arrives in between. With a
  page of one record (`HistoryMax = 1`) the page overflows; with two it holds
  events of two kinds.
- Two concurrent requests suffice for `watch_concurrent` because the state
  they share is one id, and the theorems cover any number.
- In `retry` the counts are 1 where the code has 3 and 5, so that every
  loop is entered, repeated and left; `MaxDuration = 1` makes the
  header 3 overflow. `MaxTime` bounds only time nobody waits for.
- Two page tokens give both circles (of one and of two pages) and ends; three
  results with two slots make one wait.
- Three processes on `config.json`: one that crashed with the lock, one
  that waits, one that arrives later.
- A command repeats its loops once more than it must (`MaxTurns = 1`), so
  that a loop is left out, entered and repeated; two local pictures are the
  least of which one can be left behind. `Shared` lists the things somebody else edits.
- Four tokens: one of an older version, one added, two rotations.
- `Cut = {1}`: one consent whose answer has a state and may lose it, one whose answer keeps it.
- Two processes and two consents are the least with which an answer can come to the wrong one, come
  twice, or be redeemed by both; two states, with which the file of one expires while the other is used. The theorems cover
  any number of each.

`CHECK_DEADLOCK FALSE` is set everywhere, because the system may stop: a
finished command, or a mailbox at the bound.

### Fairness

- *Watch*: a request the server handles keeps running (weak), and Pub/Sub
  keeps delivering a push until it is acknowledged (strong, because the handlers
  may be busy each time). Nothing is assumed of the user's commands, of the mailbox, or
  of a server that is down: `EveryPushIsHandled` ends there.
- *Transport*: time passes and goroutines run; `responseHeaderTimeout` and the context
  end a round trip that gets no answer.
- *Search*: goroutines run and calls return, which the transport guarantees.
- *Configuration*: a process runs unless it crashes.
- *Commands*: the process runs and calls return (weak, for all its actions together). Nobody
  has to answer a question, nor edit anything: `EndsWithoutInput` is about `--no-input`.
- *Authorization*: each process runs (weak, for all its own steps): Google answers an exchange or the
  deadline comes, the keyring answers, and the timer of the browser flow fires. The user has to do nothing: no
  consent, no redirect and no paste is assumed.
- *Tokens*: threads run; Go's mutex is fair after a millisecond of starvation (strong).

### Findings

Each is a run of its own with a counterexample, and quotes the line it disagrees with in
`PROJECT.json`:

1. *Deletions without messages are not sent.* When all the messages of a page are
   excluded by label, the payload is dropped with the deletions that
   were on the page (`gmail_watch_server.go`), and the id moves on.
2. *A thread search can lose threads without an error*: after an error the second
   round only repeats the calls to find the error; if they succeed this time, the first round's
   gaps are put out as the result.
3. *`config set` and its like can undo a setting* that a process with the
   lock has saved: they read and write without taking the lock.
4. *An older token can be stored over a newer one*: two requests obtain
   tokens outside the mutex and store them in the order in which they take it.

## 4. Proofs

The 38 theorems of the table are listed in `PROJECT.json`; all leaves are checked by tlapm
(Z3, Zenon, LS4). Every invariant and every action property of a passing run has its theorem. They hold for every value of the constants under the
assumptions named in each module.

| Module | Theorem | Says |
|---|---|---|
| `GmailWatchProofs` | `TypeCorrect` | `Spec => []TypeOK` |
| | `EveryEventAccounted` | `Spec => []NothingUnaccounted`, for any number of requests, events and faults, resyncs after network failures included |
| | `NeverRegresses` | `Spec => HistoryIdNeverRegresses` |
| | `AcknowledgedIsBehind` | `Spec => []AcknowledgedPushesBehind`, if one command runs (`MaxCommands = 1`) and no save of the state file fails |
| | `HookedAtMostOnce` | `Spec => []AtMostOnce`, if besides requests come one at a time; what a resync reports is exempted |
| `RetryTransportProofs` | `TypesCorrect` | `Spec => []TypeOK`, the doubling back-off and its wrap-around included |
| | `BodyIsSentWhole` | `Spec => []WholeBodySent`: no retry sends the rest of a body |
| | `TurnedAwayOnlyWhenFailing` | `Spec => RejectedOnlyWhenFailing` |
| | `RetriesAreBounded` | `Spec => []AttemptsBounded`, for all limits of the two nested loops |
| | `RetryAfterIsWaitedFor` | `Spec => RespectsRetryAfter`, of RoundTrip's own retries, durations that wrap around included; a later call of `retryOnQuota` may be early |
| `SearchFetchProofs` | `TypesCorrect` | `Spec => []TypeOK` |
| | `EveryPageIsListed` | `Spec => []AllPagesListed`, for any list of the server |
| | `MessagesNotDropped` | `Spec => []NothingDropped` |
| | `OutputIsListed` | the same and more in terms of places: what is put out is a selection of the listing in its order, for messages exactly the entries with an id |
| | `NobodyWaitsForEver` | the slots are respected, the collector never waits for workers of whom none can go on, and none outlives the search |
| | `NoPageIsFetchedTwice` | `Spec => []NoPageTwice`: the tokens of the pages fetched are all different, for any set of page tokens |
| | `SearchKeepsContract` | `Spec => Contract!Spec`: the refinement |
| `ConfigStoreProofs` | `ConfigTypes` | `Spec => []TypeOK` |
| | `LockedUpdatesKept`, `ReadableUnderLock` | `NoUpdateLost`, `FileReadable`, if everybody takes the lock (`Unlocked = {}`) |
| | `LockedUpdatesAtomic` | `Spec => Register!Spec`: the refinement |
| `TokenStoreProofs` | `TypesCorrect` | `Spec => []TypeOK` |
| | `ReportedIsFound`, `OlderVersionsFindIt` | `Settled`, `LegacyFollows`, for one process at a time and a keyring without blank copies (`Alone`) |
| | `NewestIsFound` | the next command finds the newest token that was issued, if besides requests are made one at a time and nothing is killed (`OneCall`) |
| | `RequestsTakeTurns` | any number of processes side by side, kills included: in each, one request stores at a time, and a mutex that is held is held by a request that is storing |
| `CommandRunnerProofs` | `TypesCorrect` | `Spec => []TypeOK`, for scripts whose jumps stay inside |
| | `DryRunHolds`, `AskHolds`, `SendBlockHolds` | `DryRunChangesNothing`, `NothingGraveUnasked`, `NoSendHolds`, for scripts with the guard on every way to the change |
| | `FailuresAreReported`, `NothingIsLeftBehind` | `FailureReported`, `NothingLeftBehind`, for scripts with `Reported` and `TakenBack` |
| | `RefusalsAreClean` | `RefusalLeavesNothing`, for scripts without a guard after a change |
| | `EditsStay` | `OthersEditsKept`, for scripts that write nothing back unguarded |
| | `CombinatorsStayInside` | sequence, `Opt`, `Each`, `Either`, `Try` and `Tolerated` make scripts whose jumps stay inside (`WellFormed`) of such scripts |
| `AuthorizationProofs` | `AuthorizationTypes` | `Spec => []TypeOK` |
| | `UrlsAreRedeemable` | `Spec => []PrintedIsRedeemable`, answers without a state included |
| | `AuthorizationKeepsContract` | `Spec => Contract!Spec`: the refinement |

The arguments:

- **Watch.** `NothingUnaccounted` is not inductive: when a handler stores its id, the
  events below it must be covered by what it has listed. `AccountingInvariant` adds
  that requests are served by a running server, that every id comes from the mailbox, that a
  handler started at or behind the stored id (which never goes back, so it stays
  behind), that its page and the events it missed cover everything between its start and the id it
  will store, and that the file is no further than what the server had accounted for,
  unless a command wrote it. The theorems need `TypeCorrect` for the ids to be numbers.
  `AckInvariant` (for `AcknowledgedIsBehind`) relates a handler past its save, the memory and the file, and the one command
  that may write it. Its assumptions are needed: a push acknowledged after a save that failed is behind only
  in memory, which a crash loses; and `renew`, run while the server is up, replaces the file by the id it got from
  Gmail before the push was acknowledged. `OnceInvariant` adds that what the one handler carries is beyond what
  has been hooked.
- **Transport.** The breaker counts failures since the last success or the last closing, which never
  exceeds the true number since the last success; an open breaker had `Threshold` of them. `BudgetInvariant` counts
  by call of `retryOnQuota`: the attempts are at most those of the calls before, each at its limit, and the retries of this one.
  `WaitInvariant`: a request asleep after a 429 wakes no earlier than what is due, and what comes later only adds.
  `BodyInvariant`: whoever is in the loop has `getBody`, which only a stream that has not begun lacks. The type of
  the delays rests on `2^n` being a natural number: `Shifted` is a recursive function, which exists by `RecursiveFunction`, and
  `SetInduction` gives its type.
- **Search.** `SearchInvariant`: once the workers run, entries with an answer in the channel or
  received are accounted for, `ordered[i]` is `listed[i]` or no id, and
  it is `listed[i]` for every entry whose worker sent "ok" and was
  received (`WorkersSound`). When all have been received and there was no error, `ordered` with its
  blanks left out is the listing with its blanks left out. `PagesDiffer`: the tokens seen are
  those of the pages fetched, and these are all different. `ListingInvariant`: the token is `TokenAt[pages]` and the listing `ListedUpTo[pages]`. `WithIdExact`, that leaving out
  blanks selects places in their order, is proved by `SetInduction` over the prefixes of a list. `WorkersInvariant`: the slots are respected, and all workers
  have exited before the results are looked at.
- **Configuration.** `LockInvariant`: only the process named in the lock file is between reading and unlocking,
  so its copy is the file with its own setting, and the temporary file is its own. A crash leaves
  the lock, after which nobody writes.
- **Tokens.** One process at a time means that the writer's
  program counter determines what each entry holds: before, the promised token; half way, the new
  one in `primary` and the promised one in `legacy`; after a failure, doubt. For `NewestIsFound`, a token that is being
  stored, or obtained and not yet stored, is the last that was issued. With two requests it need not be: run `token_rotation`.
  `Held` needs no such assumption: a request gives the mutex back on each of its ways out, a kill ends its process with the mutex.
- **Commands.** A run that has not passed the guard is at a position that can be reached without it (`NotPast`), which by
  the assumption on the script is no position of a change; each property has such an invariant (`DryRunInvariant`, `AskInvariant`,
  `SendInvariant`, `GuardsInvariant`, `WritesInvariant`). `TrackInvariant`: what has failed, is lent or deferred of an object is, at the run's
  position, in `Track`.
- **Authorization.** `UrlsSound`: a file belongs to a manual state, and only a spent consent or age takes it away.
  `RunsSound` and `HandlersSound`: the state a process expects is of what it asks for, and so is the code it exchanges, if it
  has compared them (`compared`). `OneHand`: a code that Google has granted and nobody has stored is in the hands of one process or handler, because
  Google exchanges a code once; so that a token is stored once, and `NextRefines` maps each step to one of the contract or a stutter.

Only model-checked: the seven liveness properties (`EveryPushIsHandled`, `EveryRequestEnds`, `SearchEnds`, `EveryUpdateEnds`,
`EveryCallReturns`, `EveryRunEnds`, `EndsWithoutInput`), as fairness and ENABLED are beyond the prover; of `SearchEnds` and
`EveryCallReturns` the safety they rest on is proved (`NobodyWaitsForEver`, `RequestsTakeTurns`). The findings are
counterexamples. That a command's script meets the conditions on its order is evaluated by TLC, for each of the scripts.

## 5. Plan

Done: the watch, the transport, searches, configuration, tokens, the commands with the theorem for any script, and
authorization. Left, in this order:

1. **Several steps with a crash between them**: `AutoReply` (reply, then label), `CalendarTeam` (goroutines
   and a merge), tracking set-up (secrets, then deployment, then configuration), send batches.
   `CalendarRecurrence`: an instance and those after it changed in two calls, each of which may fail; `update` cuts
   the recurrence of the event that was named (`calendar_edit.go:336`), `delete` that of its series.
2. **Tokens with processes side by side** (`Serial = FALSE`): a migration (`store.go:390`) or a rotation that writes what it
   read before a removal. `TokenStore` has the actions; `Settled` does not hold there.
3. **Pure algorithms**: account and client resolution, scopes, listing of tokens and choice of the keyring backend, and the
   index arithmetic of Docs edits, each against a reference definition over bounded inputs.
4. **Compositions**: commands over `ConfigStore` (the no-send flag is read from the file) and
   over `TokenStore` (a session per command); `Authorization` over `TokenStore` (its `keyring` is one entry that is written in one
   step).
5. **Proofs**: the token store as an implementation of one register, for one process at a time; `Behind`, `Reported` and
   `TakenBack` of a combined script from those of its parts, as `CombinatorsStayInside` has it for `WellFormed`.

## 6. Not modelled

Formatting, parsing and wording of output; the API's own semantics beyond what the code
relies on; the tables of flags; TLS and the authentication of pushes; the
expression language of `docs sed` and the positions and styles in its batches (its calls, their order and their retries are modelled);
the tracking worker (one insert per request).

Some hazards have no property that would catch them. `gmail_autoreply.go:267` (a reply that is sent and not labelled is sent
again): the commands' module runs a command once and keeps no labels between runs. `store.go:390` (step 2 of the
plan), `store.go:355` and `store.go:389`: what happens to the entries after a copy that is not read back, or after a write
that has failed, is in the model, but `Settled` promises nothing there. And three that do happen, in commands their
properties name or leave out: `docs_import.go:386`, `calendar_respond.go:95`, `docs_sed.go:501`.

The components with status `not_modelled` in `PROJECT.json` give the
reason for each, or the step of the plan.
