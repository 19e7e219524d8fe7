----------------------------- MODULE SearchFetch -----------------------------
(***************************************************************************)
(* `gmail search` (threads) and `gmail messages search`: the listing,      *)
(* collectAllPages (paging.go), and the concurrent fetch of the details,   *)
(* fetchThreadDetails (gmail_thread_search_helpers.go) and                 *)
(* fetchMessageDetails (gmail_messages.go).                                *)
(*                                                                         *)
(* The results channel has room for every result, so it is a set: the      *)
(* order in it is the order of the sends, which is arbitrary.              *)
(***************************************************************************)
EXTENDS Integers, Sequences, FiniteSets

CONSTANTS
  Ids, NoId,    \* ids of threads or messages; an entry without one
  Tokens, End,  \* page tokens; no next page
  Tables,       \* lists the server may have: [Tokens -> pages]
  MaxPages,     \* the limit of collectAllPages
  Concurrency   \* size of the semaphore

ASSUME SearchAssumption ==
  /\ NoId \notin Ids /\ End \notin Tokens
  /\ Tables \subseteq [Tokens -> [items : Seq(Ids \cup {NoId}), next : Tokens \cup {End}]]
  /\ MaxPages \in Nat /\ Concurrency \in Nat \ {0}

VARIABLES
  kind,            \* what is searched: "threads" or "messages"
  table, start, all,  \* the server's list; --page and --all
  phase,           \* of the command
  token, seen, pages,  \* the next page, the tokens seen, pages fetched
  listed,          \* entries of the pages so far
  worker,          \* of each entry: "none", "queued", "calling", "sent" or "exited"
  answer,          \* of each entry: "none", "ok" or "error"
  channel,         \* entries whose result has not been received
  ordered, hasErr, \* of the collector
  checked,         \* entries the second, sequential round has been through
  cancelled,       \* the context has ended
  output, outcome

listVars   == <<token, seen, pages, listed>>
workerVars == <<worker, answer, channel>>
vars == <<kind, table, start, all, phase, listVars, workerVars, ordered, hasErr, checked,
          cancelled, output, outcome>>

Entries == DOMAIN listed

\* Mutant: entries without an id are not left out.
AnyItem(item) == TRUE

HasId(item) == item # NoId

\* The entries of a list that have an id, in the order of the list.
WithId(list) ==
  LET upTo[n \in 0..Len(list)] ==
        IF n = 0 THEN <<>>
        ELSE IF HasId(list[n]) THEN Append(upTo[n - 1], list[n]) ELSE upTo[n - 1]
  IN  upTo[Len(list)]

---------------------------------------------------------------------------
(* Listing.                                                                *)

Fail ==
  /\ phase' = "done" /\ outcome' = "error"
  /\ UNCHANGED output

\* The search ends with these items.
Finish(items) ==
  /\ phase' = "done" /\ outcome' = "ok"
  /\ output' = items

\* Nothing was listed.
NoResults ==
  /\ phase' = "done" /\ outcome' = "empty"
  /\ UNCHANGED output

\* Mutant: tokens are not remembered.
NoteNothing == seen

NoteToken == seen \cup {token}

\* Mutant: an empty page is taken for the last one.
StopAtEmptyPage(page) == ~all \/ page.next = End \/ page.items = <<>>

\* A search without --all reads one page.
LastPage(page) == ~all \/ page.next = End

\* One turn of the loop of collectAllPages, or the single page of a search
\* without --all.  An empty list ends the command at once.
FetchPage ==
  /\ phase = "listing"
  /\ LET page  == table[token]
         more  == listed \o page.items
         last  == LastPage(page)
     IN \/ /\ ~cancelled
           /\ all => token \notin seen /\ pages < MaxPages
           /\ listed' = more
           /\ seen' = NoteToken /\ pages' = pages + 1
           /\ token' = page.next
           /\ \/ ~last /\ UNCHANGED <<phase, output, outcome>>
              \/ last /\ more # <<>> /\ phase' = "labels" /\ UNCHANGED <<output, outcome>>
              \/ last /\ more = <<>> /\ NoResults
        \/ Fail /\ UNCHANGED listVars   \* a repeated token, too many pages, a failing call
  /\ UNCHANGED <<kind, table, start, all, workerVars, ordered, hasErr, checked, cancelled>>

\* fetchLabelIDToName, and then a goroutine for every entry with an id.
StartWorkers ==
  /\ phase = "labels"
  /\ \/ /\ phase' = "fetching"
        /\ worker' = [i \in Entries |-> IF HasId(listed[i]) THEN "queued" ELSE "none"]
        /\ answer' = [i \in Entries |-> "none"]
        /\ ordered' = [i \in Entries |-> NoId]
        /\ UNCHANGED <<output, outcome>>
     \/ Fail /\ UNCHANGED <<worker, answer, ordered>>
  /\ UNCHANGED <<kind, table, start, all, listVars, channel, hasErr, checked, cancelled>>

---------------------------------------------------------------------------
(* The workers.                                                            *)

\* Mutant: the semaphore is not released.
HoldingForEver == {i \in DOMAIN worker : worker[i] \in {"calling", "sent", "exited"}}

\* The workers that hold the semaphore.
Holding == {i \in DOMAIN worker : worker[i] \in {"calling", "sent"}}

Acquire(i) ==
  /\ worker[i] = "queued"
  /\ Cardinality(Holding) < Concurrency
  /\ worker' = [worker EXCEPT ![i] = "calling"]
  /\ UNCHANGED <<kind, table, start, all, phase, listVars, answer, channel, ordered, hasErr,
                 checked, cancelled, output, outcome>>

Post(i, ans) ==
  /\ answer' = [answer EXCEPT ![i] = ans]
  /\ channel' = channel \cup {i}

\* The context ends before the semaphore is free: the worker has nothing to
\* release.
GiveUp(i) ==
  /\ worker[i] = "queued" /\ cancelled
  /\ Post(i, "error")
  /\ worker' = [worker EXCEPT ![i] = "exited"]
  /\ UNCHANGED <<kind, table, start, all, phase, listVars, ordered, hasErr, checked, cancelled,
                 output, outcome>>

\* Threads.Get or Messages.Get returns; the result goes to the channel.  A
\* call fails once the context has ended.
Call(i) ==
  /\ worker[i] = "calling"
  /\ worker' = [worker EXCEPT ![i] = "sent"]
  /\ \/ ~cancelled /\ Post(i, "ok")
     \/ Post(i, "error")
  /\ UNCHANGED <<kind, table, start, all, phase, listVars, ordered, hasErr, checked, cancelled,
                 output, outcome>>

\* The deferred calls: the semaphore and the wait group.
Exit(i) ==
  /\ worker[i] = "sent"
  /\ worker' = [worker EXCEPT ![i] = "exited"]
  /\ UNCHANGED <<kind, table, start, all, phase, listVars, answer, channel, ordered, hasErr,
                 checked, cancelled, output, outcome>>

---------------------------------------------------------------------------
(* The collector.                                                          *)

\* Mutant: results are put out in the order in which they come.
PlaceNext(i) ==
  LET free == {j \in Entries : HasId(listed[j]) /\ ordered[j] = NoId}
  IN  [ordered EXCEPT ![CHOOSE j \in free : \A k \in free : j <= k] = listed[i]]

Place(i) == [ordered EXCEPT ![i] = listed[i]]

Receive ==
  /\ phase = "fetching"
  /\ \E i \in channel :
       /\ channel' = channel \ {i}
       /\ IF answer[i] = "ok" THEN ordered' = Place(i) /\ UNCHANGED hasErr
          ELSE hasErr' = TRUE /\ UNCHANGED ordered
  /\ UNCHANGED <<kind, table, start, all, phase, listVars, worker, answer, checked, cancelled,
                 output, outcome>>

\* wg.Wait has returned, the channel is closed and drained.
AllReceived == channel = {} /\ \A i \in DOMAIN worker : worker[i] \in {"none", "exited"}

\* Mutant: an error only matters to threads.
NoMessageError == FALSE

\* fetchMessageDetails returns the first error.
MessageError == hasErr /\ kind = "messages"

\* fetchThreadDetails fetches everything again, to return the error.
ThreadRecheck == hasErr /\ kind = "threads"

Collected ==
  /\ phase = "fetching" /\ AllReceived
  /\ \/ MessageError /\ Fail
     \/ ThreadRecheck /\ phase' = "checking" /\ UNCHANGED <<output, outcome>>
     \/ ~MessageError /\ ~ThreadRecheck /\ Finish(WithId(ordered))
  /\ UNCHANGED <<kind, table, start, all, listVars, workerVars, ordered, hasErr, checked, cancelled>>

\* The second round over the threads: an error ends it, and if there is none
\* the result of the first round is put out as it is.
CheckThread ==
  /\ phase = "checking" /\ checked < Len(listed)
  /\ \/ /\ HasId(listed[checked + 1]) => ~cancelled
        /\ checked' = checked + 1
        /\ UNCHANGED <<phase, output, outcome>>
     \/ HasId(listed[checked + 1]) /\ Fail /\ UNCHANGED checked
  /\ UNCHANGED <<kind, table, start, all, listVars, workerVars, ordered, hasErr, cancelled>>

AllChecked ==
  /\ phase = "checking" /\ checked = Len(listed)
  /\ Finish(WithId(ordered))
  /\ UNCHANGED <<kind, table, start, all, listVars, workerVars, ordered, hasErr, checked, cancelled>>

\* The context of the caller ends.
Cancel ==
  /\ ~cancelled /\ outcome = "running"
  /\ cancelled' = TRUE
  /\ UNCHANGED <<kind, table, start, all, phase, listVars, workerVars, ordered, hasErr, checked,
                 output, outcome>>

---------------------------------------------------------------------------
Init ==
  /\ kind \in {"threads", "messages"}
  /\ table \in Tables /\ all \in BOOLEAN /\ start \in Tokens
  /\ phase = "listing"
  /\ token = start
  /\ seen = {} /\ pages = 0 /\ listed = <<>>
  /\ worker = <<>> /\ answer = <<>> /\ channel = {}
  /\ ordered = <<>> /\ hasErr = FALSE
  /\ checked = 0 /\ cancelled = FALSE
  /\ output = <<>> /\ outcome = "running"

Work(i) == Acquire(i) \/ GiveUp(i) \/ Call(i) \/ Exit(i)

Main == FetchPage \/ StartWorkers \/ Receive \/ Collected \/ CheckThread \/ AllChecked

Next == Main \/ Cancel \/ \E i \in DOMAIN worker : Work(i)

Spec == Init /\ [][Next]_vars

\* Goroutines run, and a call returns: the transport bounds its attempts, and
\* responseHeaderTimeout each of them.
FairSpec == Spec /\ WF_vars(Main) /\ WF_vars(\E i \in DOMAIN worker : Work(i))

---------------------------------------------------------------------------
(* Properties.                                                             *)

TypeOK ==
  /\ kind \in {"threads", "messages"}
  /\ table \in Tables /\ all \in BOOLEAN /\ start \in Tokens
  /\ phase \in {"listing", "labels", "fetching", "checking", "done"}
  /\ token \in Tokens \cup {End} /\ seen \subseteq Tokens /\ pages \in Nat
  /\ listed \in Seq(Ids \cup {NoId})
  /\ worker \in [DOMAIN worker -> {"none", "queued", "calling", "sent", "exited"}]
  /\ answer \in [DOMAIN worker -> {"none", "ok", "error"}]
  /\ ordered \in [DOMAIN worker -> Ids \cup {NoId}]
  /\ DOMAIN worker \in {{}, Entries} /\ channel \subseteq DOMAIN worker
  /\ hasErr \in BOOLEAN /\ cancelled \in BOOLEAN
  /\ checked \in 0..Len(listed)
  /\ output \in Seq(Ids) /\ outcome \in {"running", "ok", "empty", "error"}

Complete ==
  /\ outcome = "ok" => output = WithId(listed)
  /\ outcome = "empty" => listed = <<>>

\* A message search that succeeds puts out every message it listed, each once,
\* in the order of the listing, in whatever order the concurrent calls return.
NothingDropped == kind = "messages" => Complete

\* internal/cmd/gmail_concurrent_test.go: "Verify all threads were fetched".
ThreadsNotDropped == kind = "threads" => Complete

\* The pages in the order in which the server's tokens give them.
TokenAt[n \in Nat] ==
  IF n = 0 THEN start ELSE IF TokenAt[n - 1] = End THEN End ELSE table[TokenAt[n - 1]].next

ListedUpTo[n \in Nat] ==
  IF n = 0 THEN <<>>
  ELSE ListedUpTo[n - 1] \o (IF TokenAt[n - 1] = End THEN <<>> ELSE table[TokenAt[n - 1]].items)

\* With --all a search that ends well has listed every page from the first on,
\* empty ones too, to one without a successor, whatever tokens the server gives.
AllPagesListed ==
  outcome \in {"ok", "empty"} /\ all => listed = ListedUpTo[pages] /\ TokenAt[pages] = End

\* No page is fetched twice: the tokens of the pages fetched are all different,
\* also when those the server gives run in a circle or a page names itself as
\* the next one.
NoPageTwice == \A i, j \in 0..(pages - 1) : TokenAt[i] = TokenAt[j] => i = j

\* The search ends and leaves no goroutine behind: none waits for a slot of the
\* semaphore that nobody gives back.
SearchEnds == <>(outcome # "running") /\ <>[](\A i \in DOMAIN worker : worker[i] \in {"none", "exited"})

Contract == INSTANCE SearchContract WITH Items <- Ids \cup {NoId}, listing <- listed

\* Either search keeps the promise of SearchContract.
KeepsContract == Contract!Spec
=============================================================================
