----------------------------- MODULE GmailWatch -----------------------------
(***************************************************************************)
(* `gmail watch`: the push handler that `watch serve` runs for one account *)
(* (gmail_watch_server.go), the state file it shares with `watch start`,   *)
(* `watch renew` and `watch stop` (gmail_watch_state.go,                   *)
(* gmail_watch_cmds.go), and the two services around it, the Gmail mailbox *)
(* and Pub/Sub, as the code uses them.                                     *)
(*                                                                         *)
(* The mailbox is its history: event number i has history id i.  A message *)
(* is named by the event that added it.  Pub/Sub delivers each push at     *)
(* least once and keeps it until it is answered with a 2xx status.         *)
(* The hook of a server is fixed when it starts.  Expirations, labels,     *)
(* hook settings, delivery notes and timestamps of the state file are      *)
(* abstracted: no step of the handler reads them.                          *)
(***************************************************************************)
EXTENDS Integers, Sequences, FiniteSets

CONSTANTS
  Requests,      \* HTTP requests that may be served at the same time
  HistoryTypes,  \* --history-types (never empty: parseHistoryTypes)
  HistoryMax,    \* defaultHistoryMaxResults: records of the one page read
  ResyncMax,     \* defaultHistoryResyncMax: messages read by a resync
  Excluded,      \* messages that carry a label of --exclude-labels
  HookSettings,  \* a server may run with a hook URL (TRUE), without one (FALSE)
  OddPushes,     \* what else than its id a push may carry: "missing", "malformed"
  FaultKinds,    \* the faults that may happen
  MaxEvents, MaxPushes, MaxFaults, MaxCrashes, MaxCommands  \* bounds

NoId  == 0       \* a history id that is missing from the push or the state
BadId == -1      \* a history id that does not parse
OddIds == {IF odd = "missing" THEN NoId ELSE BadId : odd \in OddPushes}
EventKinds == {"initial", "messageAdded", "messageDeleted", "labelAdded"}
AllFaults  == {"api", "network", "save", "hook", "duplicate", "prune", "abort"}

ASSUME ConstantsAssumption ==
  /\ HistoryTypes \subseteq (EventKinds \ {"initial"})
  /\ HistoryMax \in Nat \ {0} /\ ResyncMax \in Nat \ {0}
  /\ Excluded \subseteq Nat
  /\ HookSettings \subseteq BOOLEAN
  /\ OddPushes \subseteq {"missing", "malformed"}
  /\ FaultKinds \subseteq AllFaults
  /\ MaxEvents \in Nat \ {0} /\ MaxPushes \in Nat /\ MaxFaults \in Nat
  /\ MaxCrashes \in Nat /\ MaxCommands \in Nat

VARIABLES
  log,        \* the mailbox's history: a sequence of [kind, msg]
  floor,      \* Gmail has forgotten the history before this id
  watching,   \* a users.watch registration is in force
  pushes,     \* history id carried by each push published so far
  pending,    \* the pushes Pub/Sub has still to get acknowledged
  disk,       \* the state file: [status, hid, last]
  up, hasHook,  \* `watch serve` is running, with a hook URL
  mem,        \* its gmailWatchStore.state
  pc, push,   \* per HTTP request: where its handler is, the push it serves
  start,      \*   startID
  listing,    \*   what history.list or messages.list has told it
  got,        \*   what fetchMessages has still to get, and has got
  cli,        \* the start, renew or stop command in progress
  faults, crashes, commands,   \* counters the bounds apply to
  outcome,    \* observer: what became of each event
  cliWrote    \* observer: the file was last written by start or renew

vars == <<log, floor, watching, pushes, pending, disk, up, hasHook, mem,
          pc, push, start, listing, got, cli,
          faults, crashes, commands, outcome, cliWrote>>

mailVars   == <<log, floor, watching, pushes>>
requestVars == <<pc, push, start, listing, got>>
serverVars == <<up, hasHook, mem, requestVars>>
countVars  == <<crashes, commands>>

Latest == Len(log)
Events == 1..Latest
EventIds == 1..MaxEvents
NoState == [hid |-> NoId, last |-> 0]
NoListing == [next |-> NoId, page |-> {}, missed |-> {}, lost |-> "overflow"]
Nothing == [todo |-> {}, msgs |-> {}, excluded |-> FALSE]
NoCommand == [op |-> "none", pc |-> "done", hid |-> NoId]
Absent == [status |-> "absent", hid |-> NoId, last |-> 0]
Torn   == [status |-> "torn", hid |-> NoId, last |-> 0]
File(st) == [status |-> "ok", hid |-> st.hid, last |-> st.last]

Fault(kind) == /\ kind \in FaultKinds
               /\ faults < MaxFaults
               /\ faults' = faults + 1

---------------------------------------------------------------------------
(* The state file and the ids in it.                                       *)

\* gmailWatchStore.Save: os.WriteFile truncates the file and then writes it,
\* so that a failing call leaves the old file or a torn one.
Save(st) ==
  \/ /\ disk' = File(st)
     /\ cliWrote' = FALSE
     /\ UNCHANGED faults
  \/ /\ Fault("save")
     /\ disk' \in {disk, Torn}
     /\ UNCHANGED cliWrote

\* Mutants: the candidate is stored even if it is behind; a stored id is
\* never replaced.
AlwaysUpdateHistoryID(current, candidate) == candidate # NoId
NeverUpdateHistoryID(current, candidate) == current = NoId

\* shouldUpdateHistoryID for a candidate that parses.
ShouldUpdateHistoryID(current, candidate) ==
  /\ candidate # NoId
  /\ current = NoId \/ candidate >= current

Parses(id) == id # BadId

\* Mutant: the id is stored without being parsed.
UnparsedUpdate(st, next, n) ==
  [hid |-> IF next # NoId THEN next ELSE st.hid, last |-> n]

\* updateStateAfterHistory: an id that does not parse fails before any change.
UpdateStateAfterHistory(st, next, n) ==
  IF ~Parses(next)
    THEN st
    ELSE [hid  |-> IF ShouldUpdateHistoryID(st.hid, next) THEN next ELSE st.hid,
          last |-> n]

\* Mutant: the page starts at the id of the push, not at the stored one.
StartAtPush(st, hid) == IF hid > st.hid THEN hid ELSE 0

\* gmailWatchStore.StartHistoryID: the id to list from, 0 for "nothing new".
StartHistoryID(st, hid) ==
  IF st.hid = NoId THEN (IF hid > 0 THEN hid ELSE 0)
  ELSE IF hid \in {NoId, BadId} \/ hid > st.hid THEN st.hid ELSE 0

\* StartHistoryID sets the stored id when there is none.
SetsStoredID(st, hid) == st.hid = NoId /\ hid > 0

---------------------------------------------------------------------------
(* The mailbox and Pub/Sub.                                                *)

Present == {m \in Events : log[m].kind = "messageAdded"}
             \ {log[e].msg : e \in {f \in Events : log[f].kind = "messageDeleted"}}

MailboxChange ==
  /\ Latest < MaxEvents
  /\ \/ log' = Append(log, [kind |-> "messageAdded", msg |-> Latest + 1])
     \/ \E m \in Present, kind \in {"messageDeleted", "labelAdded"} :
          log' = Append(log, [kind |-> kind, msg |-> m])
  /\ UNCHANGED <<floor, watching, pushes, pending, disk, serverVars, cli,
                 faults, countVars, outcome, cliWrote>>

\* Gmail forgets old history; listing from before `floor` is then an error.
PruneHistory ==
  /\ Fault("prune")
  /\ floor < Latest
  /\ floor' = Latest
  /\ UNCHANGED <<log, watching, pushes, pending, disk, serverVars, cli,
                 countVars, outcome, cliWrote>>

Publish ==
  /\ watching
  /\ Len(pushes) < MaxPushes
  /\ \E hid \in {Latest} \cup OddIds : pushes' = Append(pushes, hid)
  /\ pending' = pending \cup {Len(pushes) + 1}
  /\ UNCHANGED <<log, floor, watching, disk, serverVars, cli, faults,
                 countVars, outcome, cliWrote>>

\* At-least-once delivery: a push that was acknowledged comes again.
DeliverAgain(n) ==
  /\ Fault("duplicate")
  /\ n \in DOMAIN pushes /\ n \notin pending
  /\ pending' = pending \cup {n}
  /\ UNCHANGED <<mailVars, disk, serverVars, cli, countVars, outcome, cliWrote>>

---------------------------------------------------------------------------
(* The push handler.  A 5xx answer (Reject) leaves the push with Pub/Sub;  *)
(* a 2xx answer (Accept) acknowledges it.                                  *)

Reset(r) == /\ pc'      = [pc EXCEPT ![r] = "idle"]
            /\ push'    = [push EXCEPT ![r] = 0]
            /\ start'   = [start EXCEPT ![r] = 0]
            /\ listing' = [listing EXCEPT ![r] = NoListing]
            /\ got'     = [got EXCEPT ![r] = Nothing]

Accept(r) == /\ Reset(r)
             /\ pending' = pending \ {push[r]}

\* Mutant: a failing fetch is answered with a 2xx status.
AcceptFailure(r) == Accept(r)

Reject(r) == Reset(r) /\ UNCHANGED pending

Goto(r, next) == pc' = [pc EXCEPT ![r] = next]

\* ServeHTTP up to the duplicate check of handlePush.
ReceivePush(r, n) ==
  /\ up /\ pc[r] = "idle" /\ n \in pending
  /\ IF mem.last = n
       THEN /\ pending' = pending \ {n}
            /\ UNCHANGED <<pc, push>>
       ELSE /\ Goto(r, "start")
            /\ push' = [push EXCEPT ![r] = n]
            /\ UNCHANGED pending
  /\ UNCHANGED <<mailVars, disk, up, hasHook, mem, start, listing, got, cli, faults,
                 countVars, outcome, cliWrote>>

\* store.StartHistoryID and what handlePush does with its result.
StartFetch(r) ==
  LET hid == pushes[push[r]]
      id  == StartHistoryID(mem, hid)
  IN
  /\ up /\ pc[r] = "start"
  /\ IF SetsStoredID(mem, hid)
       THEN /\ mem' = [hid |-> hid, last |-> mem.last]
            /\ Save([hid |-> hid, last |-> mem.last])
       ELSE UNCHANGED <<mem, disk, faults, cliWrote>>
  /\ IF id # 0
       THEN /\ Goto(r, "list")
            /\ start' = [start EXCEPT ![r] = id]
            /\ UNCHANGED <<pending, push, listing, got>>
       ELSE IF mem.hid = NoId /\ hid = BadId THEN Reject(r) ELSE Accept(r)
  /\ UNCHANGED <<mailVars, up, hasHook, cli, countVars, outcome>>

Interesting(lo, hi) == {e \in Events : lo < e /\ e <= hi /\ log[e].kind \in HistoryTypes}

\* The one page of history.list the handler asks for: the oldest records.
FirstPage(S) == {e \in S : Cardinality({f \in S : f <= e}) <= HistoryMax}

Tombstones(page) == {log[e].msg : e \in {f \in page : log[f].kind = "messageDeleted"}}

\* collectHistoryMessageIDs, as sets: its order and duplicates are abstracted.
FetchIDs(page) == {log[e].msg : e \in page} \ Tombstones(page)

Listed(r, l, ids) ==
  /\ Goto(r, "fetch")
  /\ listing' = [listing EXCEPT ![r] = l]
  /\ got' = [got EXCEPT ![r] = [todo |-> ids, msgs |-> {}, excluded |-> FALSE]]

\* history.list from the stored id.  Gmail answers with the mailbox's
\* current history id, however short the page is.
ListHistory(r) ==
  /\ up /\ pc[r] = "list" /\ start[r] >= floor
  /\ LET all  == Interesting(start[r], Latest)
         page == FirstPage(all)
     IN  Listed(r, [next |-> Latest, page |-> page, missed |-> all \ page,
                    lost |-> "overflow"], FetchIDs(page))
  /\ UNCHANGED <<mailVars, pending, disk, up, hasHook, mem, push, start, cli, faults,
                 countVars, outcome, cliWrote>>

\* isStaleHistoryError(err): fall back to resyncHistory.  So it does when Gmail
\* has forgotten the history from the stored id, and for any failure of the
\* network under history.list: the text of the error holds the URL, and that
\* the word "history" the function looks for.
HistoryStale(r) ==
  /\ up /\ pc[r] = "list"
  /\ \E lost \in {"pruned", "bypassed"} :
       /\ IF lost = "pruned" THEN start[r] < floor /\ UNCHANGED faults ELSE Fault("network")
       /\ listing' = [listing EXCEPT ![r] = [NoListing EXCEPT !.lost = lost]]
  /\ Goto(r, "resync")
  /\ UNCHANGED <<mailVars, pending, disk, up, hasHook, mem, push, start, got,
                 cli, countVars, outcome, cliWrote>>

\* resyncHistory's messages.list: the newest messages, whatever is known of
\* them, and the push's own id.
ListRecent(r) ==
  /\ up /\ pc[r] = "resync"
  /\ LET recent == {m \in Present : Cardinality({k \in Present : k >= m}) <= ResyncMax}
         next   == pushes[push[r]]
     IN  Listed(r, [next   |-> next,
                    page   |-> {e \in Interesting(0, Latest) : log[e].msg \in recent},
                    missed |-> {e \in Interesting(start[r], next) : log[e].msg \notin recent},
                    lost   |-> listing[r].lost], recent)
  /\ UNCHANGED <<mailVars, pending, disk, up, hasHook, mem, push, start, cli, faults,
                 countVars, outcome, cliWrote>>

\* One messages.get of fetchMessages: a message that is gone or excluded is
\* left out of the payload.
FetchMessage(r) ==
  /\ up /\ pc[r] = "fetch"
  /\ \E m \in got[r].todo :
       /\ \A n \in got[r].todo : m <= n
       /\ got' = [got EXCEPT ![r] =
            [todo     |-> got[r].todo \ {m},
             msgs     |-> got[r].msgs \cup ({m} \cap (Present \ Excluded)),
             excluded |-> got[r].excluded \/ m \in Present \cap Excluded]]
  /\ UNCHANGED <<mailVars, pending, disk, up, hasHook, mem, pc, push, start, listing, cli,
                 faults, countVars, outcome, cliWrote>>

\* newService, messages.list or messages.get fails, history.list is answered
\* with a 5xx status, or the client goes away before it is answered.
CallFails(r) ==
  /\ Fault("api")
  /\ up
  /\ \/ pc[r] \in {"list", "resync"}
     \/ pc[r] = "fetch" /\ got[r].todo # {}
  /\ Reject(r)
  /\ UNCHANGED <<mailVars, disk, up, hasHook, mem, cli, countVars, outcome, cliWrote>>

\* The listing came from resyncHistory.
Resynced(r) == listing[r].lost # "overflow"

\* The events a payload tells the hook about: fetched messages and deletions.
Carried(r) == {e \in listing[r].page : \/ log[e].msg \in got[r].msgs
                                        \/ log[e].kind = "messageDeleted"}

\* Every message was excluded (or nothing was listed): no payload.
NoPayload(r) == \/ got[r].excluded /\ got[r].msgs = {}
                \/ ~Resynced(r) /\ listing[r].page = {}

\* Observer: events left behind once the stored id has passed them.
LeftBehind(r, e) ==
  (IF e \in listing[r].missed THEN {listing[r].lost} ELSE {})
  \cup (IF e \in listing[r].page \ Carried(r) THEN {"skipped"} ELSE {})
  \cup (IF e \in Carried(r) /\ NoPayload(r) THEN {"suppressed"} ELSE {})

\* store.Update(updateStateAfterHistory) and the decision whether to call the
\* hook.  A failing update is only logged.
AdvanceHistory(r) ==
  LET new == UpdateStateAfterHistory(mem, listing[r].next, push[r]) IN
  /\ up /\ pc[r] = "fetch" /\ got[r].todo = {}
  /\ mem' = new
  /\ IF Parses(listing[r].next)
       THEN /\ Save(new)
            /\ outcome' = [e \in EventIds |-> outcome[e] \cup LeftBehind(r, e)]
       ELSE UNCHANGED <<disk, faults, cliWrote, outcome>>
  /\ IF NoPayload(r)
       THEN Accept(r)
       ELSE Goto(r, "hook") /\ UNCHANGED <<pending, push, start, listing, got>>
  /\ UNCHANGED <<mailVars, up, hasHook, cli, countVars>>

\* Without a hook the payload is the answer to Pub/Sub.
Answer(r) ==
  /\ ~hasHook
  /\ up /\ pc[r] = "hook"
  /\ outcome' = [e \in EventIds |->
       outcome[e] \cup IF e \in Carried(r) THEN {"answered"} ELSE {}]
  /\ Accept(r)
  /\ UNCHANGED <<mailVars, disk, up, hasHook, mem, cli, faults, countVars, cliWrote>>

\* The POST of sendHook, which succeeds, or fails with or without having
\* reached the hook.  "again" marks an event the hook got before, "resynced"
\* one that came in the payload of a resync.
PostHook(r) ==
  /\ hasHook
  /\ up /\ pc[r] = "hook"
  /\ \E what \in {{"hooked"}, {"hookFailed"}, {"hooked", "hookFailed"}} :
       /\ IF what = {"hooked"} THEN UNCHANGED faults ELSE Fault("hook")
       /\ outcome' = [e \in EventIds |->
            outcome[e] \cup
              (IF e \in Carried(r) THEN what ELSE {}) \cup
              (IF e \in Carried(r) /\ Resynced(r) THEN {"resynced"} ELSE {}) \cup
              (IF e \in Carried(r) /\ "hooked" \in outcome[e] \cap what
                 THEN {"again"} ELSE {})]
  /\ Goto(r, "record")
  /\ UNCHANGED <<mailVars, pending, disk, up, hasHook, mem, push, start, listing, got,
                 cli, countVars, cliWrote>>

\* The delivery status is saved, and the push is accepted even if the hook failed.
RecordDelivery(r) ==
  /\ up /\ pc[r] = "record"
  /\ Save(mem)
  /\ Accept(r)
  /\ UNCHANGED <<mailVars, up, hasHook, mem, cli, countVars, outcome>>

---------------------------------------------------------------------------
(* The server process and the other commands.                              *)

\* loadGmailWatchStore: without a readable file `watch serve` does not start.
\* Flags and file decide whether there is a hook.
\* The events a start or renew has jumped over are noted.
ServeStart ==
  /\ ~up /\ disk.status = "ok"
  /\ up' = TRUE /\ hasHook' \in HookSettings
  /\ mem' = [hid |-> disk.hid, last |-> disk.last]
  /\ outcome' = [e \in EventIds |->
       outcome[e] \cup IF cliWrote /\ e <= disk.hid /\ outcome[e] = {}
                         THEN {"jumped"} ELSE {}]
  /\ cliWrote' = FALSE
  /\ UNCHANGED <<mailVars, pending, disk, requestVars, cli, faults, countVars>>

\* A request whose next step saves the state file.
Saving(r) == (pc[r] = "fetch" /\ got[r].todo = {}) \/ pc[r] = "record"

\* `watch serve` dies, possibly in the middle of a write.
ServeCrash ==
  /\ up /\ crashes < MaxCrashes
  /\ crashes' = crashes + 1
  /\ up' = FALSE /\ mem' = NoState
  /\ pc' = [r \in Requests |-> "idle"] /\ push' = [r \in Requests |-> 0]
  /\ start' = [r \in Requests |-> 0]
  /\ listing' = [r \in Requests |-> NoListing]
  /\ got' = [r \in Requests |-> Nothing]
  /\ outcome' = [e \in EventIds |->
       outcome[e] \cup IF \E r \in Requests : pc[r] = "hook" /\ e \in Carried(r)
                         THEN {"crashed"} ELSE {}]
  /\ \/ UNCHANGED disk
     \/ (\E r \in Requests : Saving(r)) /\ disk' = Torn
  /\ UNCHANGED <<mailVars, pending, hasHook, cli, faults, commands, cliWrote>>

\* `watch renew` loads the state file first; `watch start` and `watch stop`
\* do not.
CommandBegin(op) ==
  /\ cli = NoCommand /\ commands < MaxCommands
  /\ op = "renew" => disk.status = "ok"
  /\ commands' = commands + 1
  /\ cli' = [op |-> op, pc |-> "call", hid |-> NoId]
  /\ UNCHANGED <<mailVars, pending, disk, serverVars, faults, crashes,
                 outcome, cliWrote>>

\* users.watch answers with the mailbox's current history id; users.stop ends
\* the registration.
CommandCall ==
  /\ cli.pc = "call"
  /\ watching' = (cli.op # "stop")
  /\ cli' = [op |-> cli.op, pc |-> "write",
             hid |-> IF cli.op = "stop" THEN NoId ELSE Latest]
  /\ UNCHANGED <<log, floor, pushes, pending, disk, serverVars, faults,
                 countVars, outcome, cliWrote>>

\* start and renew replace the file by the state of buildWatchState.
CommandWrite ==
  /\ cli.pc = "write" /\ cli.op # "stop"
  /\ \/ /\ disk' = File([hid |-> cli.hid, last |-> 0])
        /\ cliWrote' = TRUE
        /\ UNCHANGED faults
     \/ /\ Fault("save")
        /\ disk' \in {disk, Torn}
        /\ UNCHANGED cliWrote
  /\ cli' = NoCommand
  /\ UNCHANGED <<mailVars, pending, serverVars, countVars, outcome>>

CommandRemove ==
  /\ cli.pc = "write" /\ cli.op = "stop"
  /\ disk' = Absent
  /\ cli' = NoCommand
  /\ UNCHANGED <<mailVars, pending, serverVars, faults, countVars, outcome,
                 cliWrote>>

\* The call fails or the command is killed.
CommandAbort ==
  /\ Fault("abort")
  /\ cli # NoCommand
  /\ cli' = NoCommand
  /\ UNCHANGED <<mailVars, pending, disk, serverVars, countVars, outcome,
                 cliWrote>>

---------------------------------------------------------------------------
Init ==
  /\ log = <<[kind |-> "initial", msg |-> 0]>>
  /\ floor = 0 /\ watching = FALSE
  /\ pushes = <<>> /\ pending = {}
  /\ disk = Absent
  /\ up = FALSE /\ hasHook = FALSE /\ mem = NoState
  /\ pc = [r \in Requests |-> "idle"] /\ push = [r \in Requests |-> 0]
  /\ start = [r \in Requests |-> 0]
  /\ listing = [r \in Requests |-> NoListing]
  /\ got = [r \in Requests |-> Nothing]
  /\ cli = NoCommand
  /\ faults = 0 /\ crashes = 0 /\ commands = 0
  /\ outcome = [e \in EventIds |-> {}]
  /\ cliWrote = FALSE

\* What one request does by itself.
Step(r) ==
  \/ StartFetch(r) \/ ListHistory(r) \/ HistoryStale(r) \/ ListRecent(r)
  \/ FetchMessage(r) \/ AdvanceHistory(r) \/ Answer(r) \/ PostHook(r)
  \/ RecordDelivery(r)

Serve == \E r \in Requests :
           \/ \E n \in pending : ReceivePush(r, n)
           \/ Step(r)
           \/ CallFails(r)

Command == \/ \E op \in {"start", "renew", "stop"} : CommandBegin(op)
           \/ CommandCall \/ CommandWrite \/ CommandRemove \/ CommandAbort

Environment == \/ MailboxChange \/ PruneHistory \/ Publish
               \/ \E n \in DOMAIN pushes : DeliverAgain(n)

Next == Serve \/ Command \/ Environment \/ ServeStart \/ ServeCrash

Spec == Init /\ [][Next]_vars

\* A served request keeps running, and Pub/Sub keeps delivering a push until
\* it is acknowledged.  Delivery is strong: the handlers may be busy.
Fairness ==
  /\ \A r \in Requests : WF_vars(Step(r))
  /\ \A n \in 1..MaxPushes : SF_vars(\E r \in Requests : ReceivePush(r, n))

FairSpec == Spec /\ Fairness

---------------------------------------------------------------------------
(* Properties.                                                             *)

Kinds == {"skipped", "overflow", "pruned", "bypassed", "suppressed", "answered", "hooked",
          "hookFailed", "again", "resynced", "jumped", "crashed"}

HistoryId == Nat \cup {BadId}
ListingType == [next : HistoryId, page : SUBSET EventIds, missed : SUBSET EventIds,
                lost : {"overflow", "pruned", "bypassed"}]

StateType == [hid : Nat, last : Nat]
FileType  == [status : {"absent", "torn", "ok"}, hid : Nat, last : Nat]
GotType   == [todo : SUBSET Nat, msgs : SUBSET Nat, excluded : BOOLEAN]

MailboxTypeOK ==
  /\ log \in Seq([kind : EventKinds, msg : Nat])
  /\ Latest \in EventIds /\ floor \in 0..Latest /\ watching \in BOOLEAN

PushesTypeOK ==
  /\ pushes \in Seq(HistoryId) /\ Len(pushes) <= MaxPushes
  /\ pending \subseteq DOMAIN pushes

StateTypeOK ==
  disk \in FileType /\ up \in BOOLEAN /\ hasHook \in BOOLEAN /\ mem \in StateType

RequestsTypeOK ==
  /\ pc \in [Requests -> {"idle", "start", "list", "resync", "fetch", "hook", "record"}]
  /\ push \in [Requests -> 0..MaxPushes]
  /\ \A r \in Requests : pc[r] # "idle" => push[r] \in DOMAIN pushes
  /\ start \in [Requests -> Nat]
  /\ listing \in [Requests -> ListingType]
  /\ got \in [Requests -> GotType]

CommandTypeOK ==
  cli \in [op : {"none", "start", "renew", "stop"},
           pc : {"done", "call", "write"}, hid : Nat]

ObserverTypeOK ==
  /\ faults \in Nat /\ crashes \in Nat /\ commands \in Nat
  /\ outcome \in [EventIds -> SUBSET Kinds] /\ cliWrote \in BOOLEAN

\* Every variable has its type, and the pushes a request or Pub/Sub holds have
\* been published: no id that does not parse gets into the state file.
TypeOK == /\ MailboxTypeOK /\ PushesTypeOK /\ StateTypeOK
          /\ RequestsTypeOK /\ CommandTypeOK /\ ObserverTypeOK

\* While `watch serve` runs, the history id it works from never goes back,
\* in whatever order concurrent handlers finish (shouldUpdateHistoryID).
HistoryIdNeverRegresses == [][up /\ up' => mem'.hid >= mem.hid]_vars

Accounted(e) == \/ outcome[e] # {}
                \/ \E r \in Requests : pc[r] = "hook" /\ e \in Carried(r)

\* Every event the stored id has passed was handed to the hook, is in a
\* payload about to be, or was lost for one of the known reasons: it did not
\* fit on the page; a resync, which reports the newest messages only, did not
\* reach it, be it because Gmail no longer had the history from the stored id
\* or because the network failed under history.list with the history intact;
\* it was excluded or deleted, its payload was dropped, the hook failed, the
\* server died before the call, or a start or renew jumped over it.
\* Overlapping handlers never lose one by themselves.
NothingUnaccounted ==
  up => \A e \in Interesting(0, mem.hid) : Accounted(e)

\* What makes NothingUnaccounted inductive.  Requests are served by a running
\* server; every id comes from the mailbox; a handler started behind the stored
\* id and knows what became of every event up to the id it will store; and the
\* file, unless start or renew wrote it, is no further than the server was.
RequestsAreServed == \A r \in Requests : pc[r] # "idle" => up

IdsFromMailbox ==
  /\ \A n \in DOMAIN pushes : pushes[n] <= Latest
  /\ up => mem.hid \in Events
  /\ disk.status = "ok" => disk.hid \in Events
  /\ cli.pc = "write" /\ cli.op # "stop" => cli.hid \in Events
  /\ \A r \in Requests : listing[r].next <= Latest /\ listing[r].page \subseteq Events

HandlersStartBehind ==
  \A r \in Requests : pc[r] \in {"list", "resync", "fetch"} => start[r] <= mem.hid

ListingsCover ==
  \A r \in Requests : pc[r] = "fetch" =>
    Interesting(start[r], listing[r].next) \subseteq listing[r].page \cup listing[r].missed

FileAccounted ==
  disk.status = "ok" /\ ~cliWrote => \A e \in Interesting(0, disk.hid) : Accounted(e)

AccountingInvariant ==
  /\ TypeOK /\ RequestsAreServed /\ IdsFromMailbox /\ HandlersStartBehind
  /\ ListingsCover /\ FileAccounted /\ NothingUnaccounted

\* A push that was acknowledged, which Pub/Sub will not send again, is not
\* ahead of the stored id: what it announced is not waiting for another push.
AcknowledgedPushesBehind ==
  up => \A n \in DOMAIN pushes \ pending : pushes[n] <= mem.hid

\* With pushes served one at a time the hook gets each event at most once,
\* however often pushes are repeated or the server is restarted, unless a
\* resync reported it: that fetches the newest messages whatever is known of
\* them, and stores an id that may be older than they are.  A resync follows
\* lost history, and every network failure of history.list.
AtMostOnce == \A e \in EventIds : "again" \in outcome[e] => "resynced" \in outcome[e]

\* Every push is acknowledged in the end, with its history behind the stored
\* id, unless the server is killed: no push is rejected for ever (errors only
\* from finitely many faults).
EveryPushIsHandled ==
  \A n \in 1..MaxPushes :
    (up /\ n \in pending)
      ~> (~up \/ (n \in DOMAIN pushes \ pending /\ mem.hid >= pushes[n]))

\* CHANGELOG.md: "include `deletedMessageIds` in webhook payloads".
DeletionsReachTheHook == \A e \in EventIds : "suppressed" \notin outcome[e]
=============================================================================
