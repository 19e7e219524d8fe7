-------------------------- MODULE GmailWatchProofs --------------------------
(***************************************************************************)
(* Theorems about GmailWatch, for every value of its constants: any number *)
(* of overlapping requests, of pushes, events, faults, crashes and         *)
(* commands.                                                               *)
(***************************************************************************)
EXTENDS GmailWatch, TLAPS, SequenceTheorems

---------------------------------------------------------------------------
(* Type correctness.                                                       *)

LEMMA EventsInRange ==
  ASSUME TypeOK, NEW lo, NEW hi
  PROVE  Interesting(lo, hi) \subseteq EventIds
  BY ConstantsAssumption
  DEF TypeOK, MailboxTypeOK, Interesting, Events, EventIds, Latest

LEMMA MessagesAreNat ==
  ASSUME TypeOK
  PROVE  /\ \A e \in Events : log[e].msg \in Nat
         /\ Present \subseteq Nat
<1>1. ASSUME NEW e \in Events PROVE log[e] \in [kind : EventKinds, msg : Nat]
  BY ElementOfSeq DEF TypeOK, MailboxTypeOK, Events, Latest
<1>2. \A e \in Events : log[e].msg \in Nat
  BY <1>1
<1>3. Present \subseteq Nat
  BY DEF Present, Events
<1> QED
  BY <1>2, <1>3

LEMMA ResetType ==
  ASSUME TypeOK, NEW r \in Requests, Reset(r), UNCHANGED pushes
  PROVE  RequestsTypeOK'
<1> USE DEF TypeOK, RequestsTypeOK, Reset
<1>1. listing' \in [Requests -> ListingType]
  BY DEF NoListing, ListingType, HistoryId, NoId
<1>2. got' \in [Requests -> GotType]
  BY DEF Nothing, GotType
<1>3. start' \in [Requests -> Nat] /\ push' \in [Requests -> 0..MaxPushes]
  BY ConstantsAssumption
<1> QED
  BY <1>1, <1>2, <1>3

LEMMA FileTypes ==
  /\ \A st \in StateType : File(st) \in FileType
  /\ Torn \in FileType /\ Absent \in FileType /\ NoState \in StateType
  BY DEF StateType, FileType, File, Torn, Absent, NoState, NoId

LEMMA SaveType ==
  ASSUME TypeOK, NEW st \in StateType, Save(st)
  PROVE  disk' \in FileType /\ faults' \in Nat /\ cliWrote' \in BOOLEAN
<1> USE DEF TypeOK, StateTypeOK, ObserverTypeOK
<1>1. CASE disk' = File(st) /\ cliWrote' = FALSE /\ UNCHANGED faults
  BY <1>1, FileTypes
<1>2. CASE Fault("save") /\ disk' \in {disk, Torn} /\ UNCHANGED cliWrote
  BY <1>2, FileTypes DEF Fault
<1> QED
  BY <1>1, <1>2 DEF Save

LEMMA ListedType ==
  ASSUME TypeOK, NEW r \in Requests, NEW l \in ListingType, NEW ids \in SUBSET Nat,
         Listed(r, l, ids), pc[r] # "idle", UNCHANGED <<pushes, push, start>>
  PROVE  RequestsTypeOK'
<1> USE DEF TypeOK, RequestsTypeOK, Listed, Goto
<1>1. got' \in [Requests -> GotType]
  BY DEF GotType
<1>2. listing' \in [Requests -> ListingType]
  OBVIOUS
<1> QED
  BY <1>1, <1>2

\* The id stored by an update parses, whatever the push carried.
LEMMA UpdateType ==
  ASSUME NEW st \in StateType, NEW next \in HistoryId, NEW n \in Nat
  PROVE  UpdateStateAfterHistory(st, next, n) \in StateType
<1>1. CASE ~Parses(next)
  BY <1>1 DEF UpdateStateAfterHistory
<1>2. CASE Parses(next)
  <2>1. ShouldUpdateHistoryID(st.hid, next) => next \in Nat
    BY <1>2 DEF HistoryId, Parses
  <2> QED
    BY <1>2, <2>1 DEF UpdateStateAfterHistory, StateType
<1> QED
  BY <1>1, <1>2

LEMMA StartType ==
  ASSUME NEW st \in StateType, NEW hid \in HistoryId
  PROVE  StartHistoryID(st, hid) \in Nat
  BY DEF StartHistoryID, StateType, HistoryId, NoId, BadId

LEMMA InitType == Init => TypeOK
<1> SUFFICES ASSUME Init PROVE TypeOK
  OBVIOUS
<1> USE ConstantsAssumption DEF Init
<1>1. MailboxTypeOK
  <2>1. log \in Seq([kind : EventKinds, msg : Nat]) /\ Len(log) = 1
    BY DEF EventKinds
  <2>2. Latest = 1
    BY <2>1 DEF Latest
  <2>3. Latest \in EventIds /\ floor \in 0..Latest
    BY <2>2 DEF EventIds
  <2> QED
    BY <2>1, <2>3 DEF MailboxTypeOK
<1>2. PushesTypeOK
  BY DEF PushesTypeOK
<1>3. StateTypeOK
  BY FileTypes DEF StateTypeOK
<1>4. RequestsTypeOK
  BY DEF RequestsTypeOK, NoListing, ListingType, HistoryId, Nothing, GotType, NoId
<1>5. CommandTypeOK
  BY DEF CommandTypeOK, NoCommand, NoId
<1>6. ObserverTypeOK
  BY DEF ObserverTypeOK, EventIds
<1> QED
  BY <1>1, <1>2, <1>3, <1>4, <1>5, <1>6 DEF TypeOK

LEMMA TypeStep == TypeOK /\ [Next]_vars => TypeOK'
<1> SUFFICES ASSUME TypeOK, [Next]_vars PROVE TypeOK'
  OBVIOUS
<1> USE ConstantsAssumption
    DEF TypeOK, MailboxTypeOK, PushesTypeOK, StateTypeOK, CommandTypeOK,
        ObserverTypeOK, Latest, mailVars, requestVars, serverVars, countVars
<1>1. CASE MailboxChange
  <2>1. PICK ev \in [kind : EventKinds, msg : Nat] : log' = Append(log, ev)
    <3>1. CASE log' = Append(log, [kind |-> "messageAdded", msg |-> Latest + 1])
      BY <3>1 DEF EventIds, EventKinds
    <3>2. CASE \E m \in Present, kind \in {"messageDeleted", "labelAdded"} :
                 log' = Append(log, [kind |-> kind, msg |-> m])
      BY <3>2, MessagesAreNat DEF EventKinds
    <3> QED
      BY <1>1, <3>1, <3>2 DEF MailboxChange
  <2>2. log' \in Seq([kind : EventKinds, msg : Nat]) /\ Len(log') = Len(log) + 1
    BY <2>1, AppendProperties
  <2>3. MailboxTypeOK'
    BY <1>1, <2>2 DEF MailboxChange, EventIds
  <2> QED
    BY <1>1, <2>3 DEF MailboxChange, RequestsTypeOK
<1>2. CASE PruneHistory
  BY <1>2 DEF PruneHistory, Fault, RequestsTypeOK
<1>3. CASE Publish
  <2>1. PICK hid \in HistoryId : pushes' = Append(pushes, hid)
    BY <1>3 DEF Publish, OddIds, EventIds, HistoryId, NoId, BadId
  <2>2. pushes' \in Seq(HistoryId) /\ Len(pushes') = Len(pushes) + 1
    BY <2>1, AppendProperties
  <2>3. PushesTypeOK'
    BY <1>3, <2>2 DEF Publish
  <2>4. RequestsTypeOK'
    BY <1>3, <2>2 DEF Publish, RequestsTypeOK
  <2> QED
    BY <1>3, <2>3, <2>4 DEF Publish
<1>4. ASSUME NEW n \in DOMAIN pushes, DeliverAgain(n) PROVE TypeOK'
  BY <1>4 DEF DeliverAgain, Fault, RequestsTypeOK
<1>5. ASSUME NEW r \in Requests, NEW n \in pending, ReceivePush(r, n) PROVE TypeOK'
  <2>1. n \in DOMAIN pushes /\ n \in 0..MaxPushes
    OBVIOUS
  <2>2. RequestsTypeOK'
    <3>1. CASE UNCHANGED <<pc, push>>
      BY <1>5, <3>1 DEF ReceivePush, RequestsTypeOK
    <3>2. CASE pc' = [pc EXCEPT ![r] = "start"] /\ push' = [push EXCEPT ![r] = n]
      <4>1. /\ pc' \in [Requests -> {"idle", "start", "list", "resync", "fetch", "hook", "record"}]
            /\ push' \in [Requests -> 0..MaxPushes]
        BY <2>1, <3>2 DEF RequestsTypeOK
      <4>2. \A q \in Requests : pc'[q] # "idle" => push'[q] \in DOMAIN pushes
        BY <2>1, <3>2 DEF RequestsTypeOK
      <4> QED
        BY <1>5, <4>1, <4>2 DEF ReceivePush, RequestsTypeOK
    <3> QED
      BY <1>5, <3>1, <3>2 DEF ReceivePush, Goto
  <2> QED
    BY <1>5, <2>2 DEF ReceivePush
<1>6. ASSUME NEW r \in Requests, StartFetch(r) PROVE TypeOK'
  <2> DEFINE hid == pushes[push[r]]
             id  == StartHistoryID(mem, hid)
             st  == [hid |-> hid, last |-> mem.last]
  <2>1. hid \in HistoryId
    BY <1>6, ElementOfSeq DEF StartFetch, RequestsTypeOK
  <2>2. id \in Nat
    BY <2>1, StartType
  <2>3. RequestsTypeOK' /\ PushesTypeOK'
    <3>1. CASE id # 0
      <4>1. /\ pc' = [pc EXCEPT ![r] = "list"] /\ start' = [start EXCEPT ![r] = id]
            /\ UNCHANGED <<pending, pushes, push, listing, got>> /\ pc[r] = "start"
        BY <1>6, <3>1 DEF StartFetch, Goto
      <4> QED
        BY <2>2, <4>1 DEF RequestsTypeOK
    <3>2. CASE id = 0
      BY <1>6, <3>2, ResetType DEF StartFetch, Accept, Reject
    <3> QED
      BY <3>1, <3>2
  <2>4. mem' \in StateType /\ disk' \in FileType /\ faults' \in Nat /\ cliWrote' \in BOOLEAN
    <3>1. CASE SetsStoredID(mem, hid)
      <4>1. st \in StateType
        BY <2>1, <3>1 DEF SetsStoredID, StateType, HistoryId, BadId
      <4>2. mem' = st /\ Save(st)
        BY <1>6, <3>1 DEF StartFetch
      <4> QED
        BY <4>1, <4>2, SaveType
    <3>2. CASE ~SetsStoredID(mem, hid)
      BY <1>6, <3>2 DEF StartFetch
    <3> QED
      BY <3>1, <3>2
  <2> QED
    BY <1>6, <2>3, <2>4 DEF StartFetch
<1>7. ASSUME NEW r \in Requests, ListHistory(r) PROVE TypeOK'
  <2> DEFINE all  == Interesting(start[r], Latest)
             page == FirstPage(all)
             l == [next |-> Latest, page |-> page, missed |-> all \ page, lost |-> "overflow"]
  <2>1. all \subseteq EventIds /\ all \subseteq Events
    BY EventsInRange DEF Interesting
  <2>2. page \subseteq all
    BY DEF FirstPage
  <2>3. l \in ListingType
    BY <2>1, <2>2 DEF ListingType, HistoryId, EventIds
  <2>4. FetchIDs(page) \subseteq Nat
    BY <2>1, <2>2, MessagesAreNat DEF FetchIDs
  <2>5. RequestsTypeOK'
    BY <1>7, <2>3, <2>4, ListedType DEF ListHistory
  <2> QED
    BY <1>7, <2>5 DEF ListHistory
<1>8. ASSUME NEW r \in Requests, HistoryStale(r) PROVE TypeOK'
  <2>1. PICK lost \in {"pruned", "bypassed"} :
          /\ (start[r] < floor /\ UNCHANGED faults) \/ Fault("network")
          /\ listing' = [listing EXCEPT ![r] = [NoListing EXCEPT !.lost = lost]]
    BY <1>8 DEF HistoryStale
  <2>2. [NoListing EXCEPT !.lost = lost] \in ListingType
    BY DEF NoListing, ListingType, HistoryId, NoId
  <2>3. faults' \in Nat
    BY <2>1 DEF Fault
  <2> QED
    BY <1>8, <2>1, <2>2, <2>3 DEF HistoryStale, Goto, RequestsTypeOK
<1>9. ASSUME NEW r \in Requests, ListRecent(r) PROVE TypeOK'
  <2>1. pushes[push[r]] \in HistoryId
    BY <1>9, ElementOfSeq DEF ListRecent, RequestsTypeOK
  <2> DEFINE recent == {m \in Present : Cardinality({k \in Present : k >= m}) <= ResyncMax}
             next == pushes[push[r]]
             l == [next   |-> next,
                   page   |-> {e \in Interesting(0, Latest) : log[e].msg \in recent},
                   missed |-> {e \in Interesting(start[r], next) : log[e].msg \notin recent},
                   lost |-> listing[r].lost]
  <2>2. l \in ListingType
    <3>1. listing[r].lost \in {"overflow", "pruned", "bypassed"}
      BY DEF RequestsTypeOK, ListingType
    <3> QED
      BY <2>1, <3>1, EventsInRange DEF ListingType
  <2>3. recent \subseteq Nat
    BY MessagesAreNat
  <2>4. RequestsTypeOK'
    BY <1>9, <2>2, <2>3, ListedType DEF ListRecent
  <2> QED
    BY <1>9, <2>4 DEF ListRecent
<1>10. ASSUME NEW r \in Requests, FetchMessage(r) PROVE TypeOK'
  <2>1. PICK g \in GotType : got' = [got EXCEPT ![r] = g]
    BY <1>10, MessagesAreNat DEF FetchMessage, RequestsTypeOK, GotType
  <2>2. RequestsTypeOK'
    BY <1>10, <2>1 DEF FetchMessage, RequestsTypeOK
  <2> QED
    BY <1>10, <2>2 DEF FetchMessage
<1>11. ASSUME NEW r \in Requests, AdvanceHistory(r) PROVE TypeOK'
  <2> DEFINE new == UpdateStateAfterHistory(mem, listing[r].next, push[r])
  <2>1. new \in StateType
    BY UpdateType DEF RequestsTypeOK, ListingType
  <2>2. mem' \in StateType
    BY <1>11, <2>1 DEF AdvanceHistory
  <2>3. disk' \in FileType /\ faults' \in Nat /\ cliWrote' \in BOOLEAN
    BY <1>11, <2>1, SaveType DEF AdvanceHistory
  <2>4. outcome' \in [EventIds -> SUBSET Kinds]
    <3>1. \A e : LeftBehind(r, e) \subseteq Kinds
      BY DEF LeftBehind, RequestsTypeOK, ListingType, Kinds
    <3> QED
      BY <1>11, <3>1 DEF AdvanceHistory
  <2>5. RequestsTypeOK' /\ PushesTypeOK'
    <3>1. CASE NoPayload(r)
      BY <1>11, <3>1, ResetType DEF AdvanceHistory, Accept
    <3>2. CASE ~NoPayload(r)
      BY <1>11, <3>2 DEF AdvanceHistory, Goto, RequestsTypeOK
    <3> QED
      BY <3>1, <3>2
  <2> QED
    BY <1>11, <2>2, <2>3, <2>4, <2>5 DEF AdvanceHistory
<1>12. ASSUME NEW r \in Requests, Answer(r) PROVE TypeOK'
  BY <1>12, ResetType DEF Answer, Accept, Kinds
<1>13. ASSUME NEW r \in Requests, PostHook(r) PROVE TypeOK'
  BY <1>13 DEF PostHook, Goto, Fault, Kinds, RequestsTypeOK
<1>14. ASSUME NEW r \in Requests, RecordDelivery(r) PROVE TypeOK'
  BY <1>14, ResetType, SaveType DEF RecordDelivery, Accept
<1>15. ASSUME NEW r \in Requests, CallFails(r) PROVE TypeOK'
  BY <1>15, ResetType DEF CallFails, Fault, Reject
<1>16. CASE ServeStart
  <2>1. mem' \in StateType
    BY <1>16 DEF ServeStart, FileType, StateType
  <2>2. outcome' \in [EventIds -> SUBSET Kinds]
    BY <1>16 DEF ServeStart, Kinds
  <2> QED
    BY <1>16, <2>1, <2>2 DEF ServeStart, RequestsTypeOK
<1>17. CASE ServeCrash
  <2>1. outcome' \in [EventIds -> SUBSET Kinds]
    BY <1>17 DEF ServeCrash, Kinds
  <2>2. disk' \in FileType
    BY <1>17, FileTypes DEF ServeCrash
  <2>3. RequestsTypeOK'
    BY <1>17 DEF ServeCrash, NoListing, Nothing, ListingType, HistoryId, GotType, NoId,
           RequestsTypeOK
  <2>4. mem' \in StateType
    BY <1>17, FileTypes DEF ServeCrash
  <2>5. crashes' \in Nat /\ UNCHANGED <<mailVars, pending, hasHook, cli, faults, commands, cliWrote>>
        /\ up' = FALSE
    BY <1>17 DEF ServeCrash
  <2> QED
    BY <2>1, <2>2, <2>3, <2>4, <2>5
<1>18. ASSUME NEW op \in {"start", "renew", "stop"}, CommandBegin(op) PROVE TypeOK'
  BY <1>18 DEF CommandBegin, NoId, RequestsTypeOK
<1>19. CASE CommandCall
  BY <1>19 DEF CommandCall, NoId, EventIds, RequestsTypeOK
<1>20. CASE CommandWrite
  <2>1. disk' \in FileType
    <3>1. [hid |-> cli.hid, last |-> 0] \in StateType
      BY DEF StateType
    <3>2. CASE disk' = File([hid |-> cli.hid, last |-> 0])
      BY <3>1, <3>2, FileTypes
    <3>3. CASE disk' \in {disk, Torn}
      BY <3>3, FileTypes
    <3> QED
      BY <1>20, <3>2, <3>3 DEF CommandWrite
  <2>2. faults' \in Nat /\ cliWrote' \in BOOLEAN
    <3>1. CASE cliWrote' = TRUE /\ UNCHANGED faults
      BY <3>1
    <3>2. CASE Fault("save") /\ UNCHANGED cliWrote
      BY <3>2 DEF Fault
    <3> QED
      BY <1>20, <3>1, <3>2 DEF CommandWrite
  <2> QED
    BY <1>20, <2>1, <2>2 DEF CommandWrite, NoCommand, NoId, RequestsTypeOK
<1>21. CASE CommandRemove
  BY <1>21, FileTypes DEF CommandRemove, NoCommand, NoId, RequestsTypeOK
<1>22. CASE CommandAbort
  BY <1>22 DEF CommandAbort, Fault, NoCommand, NoId, RequestsTypeOK
<1>23. CASE UNCHANGED vars
  BY <1>23 DEF vars, RequestsTypeOK
<1> QED
  BY <1>1, <1>2, <1>3, <1>4, <1>5, <1>6, <1>7, <1>8, <1>9, <1>10, <1>11, <1>12,
     <1>13, <1>14, <1>15, <1>16, <1>17, <1>18, <1>19, <1>20, <1>21, <1>22, <1>23
  DEF Next, Serve, Step, Command, Environment

(* Every variable of the watch keeps its type, whatever the requests,       *)
(* commands, crashes and faults do and in whatever order; in particular no  *)
(* push makes the handler store a history id that does not parse.           *)
THEOREM TypeCorrect == Spec => []TypeOK
<1>1. Init => TypeOK
  BY InitType
<1>2. TypeOK /\ [Next]_vars => TypeOK'
  BY TypeStep
<1> QED
  BY <1>1, <1>2, PTL DEF Spec

---------------------------------------------------------------------------
(* Accounting: the events the stored id has passed.                        *)

\* An event stays accounted for as long as every hook call that is to carry it
\* is still to come or has left a trace.
LEMMA AccountedKept ==
  ASSUME NEW e \in EventIds, log' = log, outcome[e] \subseteq outcome'[e],
         \A q \in Requests : pc[q] = "hook" =>
           \/ pc'[q] = "hook" /\ listing'[q] = listing[q] /\ got'[q] = got[q]
           \/ e \in Carried(q) => outcome'[e] # {},
         Accounted(e)
  PROVE  Accounted(e)'
<1>1. CASE outcome[e] # {}
  BY <1>1 DEF Accounted
<1>2. ASSUME NEW q \in Requests, pc[q] = "hook", e \in Carried(q) PROVE Accounted(e)'
  <2>1. CASE outcome'[e] # {}
    BY <2>1 DEF Accounted
  <2>2. CASE pc'[q] = "hook" /\ listing'[q] = listing[q] /\ got'[q] = got[q]
    <3>1. Carried(q)' = Carried(q)
      BY <2>2 DEF Carried
    <3> QED
      BY <1>2, <2>2, <3>1 DEF Accounted
  <2> QED
    BY <1>2, <2>1, <2>2
<1> QED
  BY <1>1, <1>2 DEF Accounted

\* Events of the past do not change when the mailbox goes on.
LEMMA LogGrows ==
  ASSUME TypeOK, MailboxChange
  PROVE  /\ Events \subseteq Events' /\ Latest' = Latest + 1
         /\ \A e \in Events : log'[e] = log[e]
         /\ \A lo \in Int, hi \in Int : hi <= Latest =>
              Interesting(lo, hi)' = Interesting(lo, hi)
<1>1. PICK ev : log' = Append(log, ev)
  BY DEF MailboxChange
<1>2. /\ Len(log) \in Nat /\ Len(log') = Len(log) + 1
      /\ \A e \in 1..Len(log) : log'[e] = log[e]
  BY <1>1 DEF TypeOK, MailboxTypeOK
<1>3. Events \subseteq Events' /\ Latest' = Latest + 1 /\ Latest \in Nat
  BY <1>2 DEF Events, Latest
<1>4. \A e \in Events : log'[e] = log[e]
  BY <1>2 DEF Events, Latest
<1>5. ASSUME NEW lo \in Int, NEW hi \in Int, hi <= Latest
      PROVE  Interesting(lo, hi)' = Interesting(lo, hi)
  <2>1. \A e : e \in Events' /\ e <= hi => e \in Events
    BY <1>3, <1>5 DEF Events
  <2> QED
    BY <1>3, <1>4, <2>1 DEF Interesting
<1> QED
  BY <1>3, <1>4, <1>5

LEMMA SavedFile ==
  ASSUME NEW st \in StateType, Save(st), mem' = st, up', log' = log, NothingUnaccounted',
         FileAccounted, \A e \in Events : Accounted(e) => Accounted(e)'
  PROVE  FileAccounted'
<1>1. CASE disk' = File(st)
  BY <1>1 DEF FileAccounted, NothingUnaccounted, File
<1>2. CASE disk' = disk /\ UNCHANGED cliWrote
  <2>1. \A lo, hi : Interesting(lo, hi)' = Interesting(lo, hi) /\ Interesting(lo, hi) \subseteq Events
    BY DEF Interesting, Events, Latest
  <2> QED
    BY <1>2, <2>1 DEF FileAccounted
<1>3. CASE disk' = Torn
  BY <1>3 DEF FileAccounted, Torn
<1> QED
  BY <1>1, <1>2, <1>3 DEF Save

LEMMA QuietAccounting ==
  ASSUME AccountingInvariant, UNCHANGED <<log, up, mem, disk, cliWrote>>,
         \A e \in EventIds : outcome[e] \subseteq outcome'[e],
         \A q \in Requests, e \in EventIds : pc[q] = "hook" =>
           \/ pc'[q] = "hook" /\ listing'[q] = listing[q] /\ got'[q] = got[q]
           \/ e \in Carried(q) => outcome'[e] # {}
  PROVE  FileAccounted' /\ NothingUnaccounted'
<1>1. \A lo, hi : Interesting(lo, hi)' = Interesting(lo, hi)
  BY DEF Interesting, Events, Latest
<1>2. \A lo, hi : Interesting(lo, hi) \subseteq EventIds
  BY EventsInRange DEF AccountingInvariant
<1>3. \A e \in EventIds : Accounted(e) => Accounted(e)'
  BY AccountedKept
<1> QED
  BY <1>1, <1>2, <1>3 DEF AccountingInvariant, FileAccounted, NothingUnaccounted

\* A request that goes back to idle, or moves from one step to the next without
\* having reached the hook, takes nothing back.
LEMMA ResetFacts ==
  ASSUME TypeOK, NEW r \in Requests, Reset(r)
  PROVE  /\ pc'[r] = "idle" /\ listing'[r] = NoListing /\ start'[r] = 0
         /\ \A q \in Requests \ {r} : /\ pc'[q] = pc[q] /\ listing'[q] = listing[q]
                                      /\ got'[q] = got[q] /\ start'[q] = start[q]
  BY DEF TypeOK, RequestsTypeOK, Reset

LEMMA ResetKeeps ==
  ASSUME AccountingInvariant, NEW r \in Requests, Reset(r), log' = log, up' = up,
         mem' = mem \/ (up /\ mem'.hid \in Nat /\ mem.hid <= mem'.hid)
  PROVE  /\ RequestsAreServed' /\ HandlersStartBehind' /\ ListingsCover'
         /\ \A q \in Requests : listing'[q].next <= Latest' /\ listing'[q].page \subseteq Events'
<1> USE ResetFacts DEF AccountingInvariant
<1>1. RequestsAreServed'
  BY DEF RequestsAreServed
<1>2. HandlersStartBehind'
  BY DEF HandlersStartBehind, TypeOK, StateTypeOK, StateType, RequestsTypeOK
<1>3. ListingsCover'
  BY DEF ListingsCover, Interesting, Events, Latest
<1>4. \A q \in Requests : listing'[q].next <= Latest' /\ listing'[q].page \subseteq Events'
  BY DEF IdsFromMailbox, NoListing, NoId, Events, Latest, TypeOK, MailboxTypeOK, EventIds
<1> QED
  BY <1>1, <1>2, <1>3, <1>4

LEMMA InitAccounting == Init => AccountingInvariant
<1> SUFFICES ASSUME Init PROVE AccountingInvariant
  OBVIOUS
<1>1. RequestsAreServed /\ HandlersStartBehind /\ ListingsCover
  BY DEF Init, RequestsAreServed, HandlersStartBehind, ListingsCover
<1>2. IdsFromMailbox
  BY DEF Init, IdsFromMailbox, Absent, NoCommand, NoListing, NoId, Latest
<1>3. FileAccounted /\ NothingUnaccounted
  BY DEF Init, FileAccounted, NothingUnaccounted, Absent
<1> QED
  BY <1>1, <1>2, <1>3, InitType DEF AccountingInvariant

LEMMA AccountingStep == AccountingInvariant /\ [Next]_vars => AccountingInvariant'
<1> SUFFICES ASSUME AccountingInvariant, [Next]_vars PROVE AccountingInvariant'
  OBVIOUS
<1> DEFINE Rest == /\ RequestsAreServed /\ IdsFromMailbox /\ HandlersStartBehind
                   /\ ListingsCover /\ FileAccounted /\ NothingUnaccounted
<1>0. TypeOK /\ TypeOK'
  BY TypeStep DEF AccountingInvariant
<1> SUFFICES Rest'
  BY <1>0 DEF AccountingInvariant
<1>b. /\ Latest \in Nat /\ Events = 1..Latest /\ Latest' \in Nat /\ Events' = 1..Latest'
      /\ \A q \in Requests : listing[q].next \in HistoryId /\ start[q] \in Nat
      /\ mem.hid \in Nat /\ disk.hid \in Nat
      /\ Latest \in EventIds
  BY <1>0 DEF TypeOK, MailboxTypeOK, StateTypeOK, StateType, FileType, RequestsTypeOK,
     ListingType, Latest, Events
<1>f. /\ UNCHANGED log => /\ UNCHANGED Latest /\ UNCHANGED Events
                          /\ \A lo, hi : Interesting(lo, hi)' = Interesting(lo, hi)
      /\ \A lo, hi : Interesting(lo, hi) \subseteq EventIds
  BY <1>0, EventsInRange DEF Interesting, Events, Latest
<1>g. Events \subseteq EventIds
  BY <1>b, ConstantsAssumption DEF EventIds
<1> USE DEF AccountingInvariant
<1> USE DEF mailVars, requestVars, serverVars, countVars
<1>1. CASE MailboxChange
  <2>1. UNCHANGED <<floor, watching, pushes, pending, disk, up, mem, pc, push, start,
                    listing, got, cli, faults, crashes, commands, outcome, cliWrote>>
    BY <1>1 DEF MailboxChange
  <2>2. \A e \in Events : Accounted(e) => Accounted(e)'
    <3>1. \A q \in Requests : Carried(q)' = Carried(q)
      BY <2>1, <1>0, <1>1, LogGrows DEF Carried, IdsFromMailbox
    <3> QED
      BY <2>1, <3>1 DEF Accounted
  <2>3. RequestsAreServed' /\ HandlersStartBehind'
    BY <2>1 DEF RequestsAreServed, HandlersStartBehind
  <2>4. IdsFromMailbox'
    <3>1. \A n \in DOMAIN pushes : pushes[n] \in HistoryId
      BY <1>0, ElementOfSeq DEF TypeOK, PushesTypeOK
    <3> QED
      BY <2>1, <3>1, <1>0, <1>b, <1>1, LogGrows DEF IdsFromMailbox, HistoryId, BadId
  <2>5. ListingsCover'
    <3>1. \A q \in Requests : Interesting(start[q], listing[q].next)' = Interesting(start[q], listing[q].next)
      BY <2>1, <1>0, <1>b, <1>1, LogGrows DEF IdsFromMailbox, HistoryId, BadId
    <3> QED
      BY <2>1, <3>1 DEF ListingsCover
  <2>6. FileAccounted' /\ NothingUnaccounted'
    <3>1. \A hi \in Events : Interesting(0, hi)' = Interesting(0, hi)
      BY <1>0, <1>b, <1>1, LogGrows
    <3>2. \A hi \in Events : Interesting(0, hi) \subseteq Events
      BY DEF Interesting
    <3> QED
      BY <2>1, <2>2, <3>1, <3>2 DEF FileAccounted, NothingUnaccounted, IdsFromMailbox
  <2> QED
    BY <2>3, <2>4, <2>5, <2>6
<1>2. CASE PruneHistory
  BY <1>2, <1>f, QuietAccounting
  DEF PruneHistory, RequestsAreServed, IdsFromMailbox, HandlersStartBehind, ListingsCover
<1>3. CASE Publish
  <2>1. PICK hid \in HistoryId : pushes' = Append(pushes, hid) /\ hid <= Latest
    BY <1>3, <1>b DEF Publish, OddIds, HistoryId, NoId, BadId
  <2>2. \A n \in DOMAIN pushes' : pushes'[n] <= Latest
    BY <1>0, <2>1, AppendProperties, ElementOfSeq DEF IdsFromMailbox, TypeOK, PushesTypeOK
  <2> QED
    BY <1>3, <2>2, <1>f, QuietAccounting
    DEF Publish, RequestsAreServed, IdsFromMailbox, HandlersStartBehind, ListingsCover
<1>4. ASSUME NEW n \in DOMAIN pushes, DeliverAgain(n) PROVE Rest'
  BY <1>4, <1>f, QuietAccounting
  DEF DeliverAgain, RequestsAreServed, IdsFromMailbox, HandlersStartBehind, ListingsCover
<1>5. ASSUME NEW r \in Requests, NEW n \in pending, ReceivePush(r, n) PROVE Rest'
  <2>1. \A q \in Requests : pc'[q] = pc[q] \/ (pc[q] = "idle" /\ pc'[q] = "start")
    BY <1>5, <1>0 DEF ReceivePush, Goto, TypeOK, RequestsTypeOK
  <2>2. FileAccounted' /\ NothingUnaccounted'
    BY <1>5, <2>1, QuietAccounting DEF ReceivePush
  <2> QED
    BY <1>5, <2>1, <2>2, <1>f
    DEF ReceivePush, RequestsAreServed, IdsFromMailbox, HandlersStartBehind, ListingsCover
<1>6. ASSUME NEW r \in Requests, StartFetch(r) PROVE Rest'
  <2> DEFINE hid == pushes[push[r]]
             id  == StartHistoryID(mem, hid)
  <2>1. up /\ mem.hid \in Events /\ pc[r] = "start" /\ UNCHANGED <<log, up, cli, pushes, outcome>>
    BY <1>6 DEF StartFetch, IdsFromMailbox
  <2>2. UNCHANGED <<mem, disk, cliWrote>>
    BY <1>6, <1>b, <2>1 DEF StartFetch, SetsStoredID, NoId
  <2>3. CASE id # 0
    <3>1. /\ pc' = [pc EXCEPT ![r] = "list"] /\ start' = [start EXCEPT ![r] = id]
          /\ UNCHANGED <<listing, got>> /\ id = mem.hid
      BY <1>6, <1>b, <2>1, <2>3 DEF StartFetch, Goto, StartHistoryID, NoId
    <3>2. /\ pc'[r] = "list" /\ start'[r] = mem.hid
          /\ \A q \in Requests \ {r} : pc'[q] = pc[q] /\ start'[q] = start[q]
      BY <3>1, <1>0 DEF TypeOK, RequestsTypeOK
    <3>3. FileAccounted' /\ NothingUnaccounted'
      BY <2>1, <2>2, <3>1, <3>2, QuietAccounting
    <3>4. RequestsAreServed' /\ IdsFromMailbox'
      BY <2>1, <2>2, <3>1, <3>2, <1>f DEF RequestsAreServed, IdsFromMailbox
    <3>5. HandlersStartBehind' /\ ListingsCover'
      BY <2>1, <2>2, <3>1, <3>2, <1>b, <1>f DEF HandlersStartBehind, ListingsCover
    <3> QED
      BY <3>3, <3>4, <3>5
  <2>4. CASE id = 0
    <3>1. Reset(r)
      BY <1>6, <2>4 DEF StartFetch, Accept, Reject
    <3>2. FileAccounted' /\ NothingUnaccounted'
      BY <2>1, <2>2, <3>1, <1>0, ResetFacts, QuietAccounting
    <3> QED
      BY <2>1, <2>2, <3>1, <3>2, <1>f, ResetKeeps DEF IdsFromMailbox
  <2> QED
    BY <2>3, <2>4
<1>7. ASSUME NEW r \in Requests, ListHistory(r) PROVE Rest'
  <2> DEFINE all  == Interesting(start[r], Latest)
             page == FirstPage(all)
             l    == [next |-> Latest, page |-> page, missed |-> all \ page, lost |-> "overflow"]
  <2>1. /\ up /\ pc[r] = "list" /\ Listed(r, l, FetchIDs(page))
        /\ UNCHANGED <<log, pushes, disk, up, mem, start, cli, outcome, cliWrote>>
    BY <1>7 DEF ListHistory
  <2>2. /\ pc'[r] = "fetch" /\ listing'[r] = l
        /\ \A q \in Requests \ {r} : /\ pc'[q] = pc[q] /\ listing'[q] = listing[q]
                                     /\ got'[q] = got[q]
    BY <2>1, <1>0 DEF Listed, Goto, TypeOK, RequestsTypeOK
  <2>3. FileAccounted' /\ NothingUnaccounted'
    BY <2>1, <2>2, QuietAccounting
  <2>4. page \subseteq all /\ all \subseteq Events
    BY DEF FirstPage, Interesting
  <2>5. RequestsAreServed' /\ IdsFromMailbox' /\ HandlersStartBehind'
    BY <2>1, <2>2, <2>4, <1>b, <1>f DEF RequestsAreServed, IdsFromMailbox, HandlersStartBehind
  <2>6. ListingsCover'
    BY <2>1, <2>2, <2>4, <1>f DEF ListingsCover
  <2> QED
    BY <2>3, <2>5, <2>6
<1>8. ASSUME NEW r \in Requests, HistoryStale(r) PROVE Rest'
  <2>1. /\ pc'[r] = "resync" /\ pc[r] = "list"
        /\ \A q \in Requests \ {r} : pc'[q] = pc[q]
    BY <1>8, <1>0 DEF HistoryStale, Goto, TypeOK, RequestsTypeOK
  <2>2. FileAccounted' /\ NothingUnaccounted'
    BY <1>8, <2>1, QuietAccounting DEF HistoryStale
  <2>3. PICK lost \in {"pruned", "bypassed"} :
          listing' = [listing EXCEPT ![r] = [NoListing EXCEPT !.lost = lost]]
    BY <1>8 DEF HistoryStale
  <2>4. /\ \A q \in Requests \ {r} : listing'[q] = listing[q]
        /\ listing'[r].next = NoId /\ listing'[r].page = {}
    BY <2>3, <1>0 DEF TypeOK, RequestsTypeOK, NoListing
  <2>5. NoId <= Latest
    BY <1>0 DEF TypeOK, MailboxTypeOK, EventIds, NoId
  <2>6. UNCHANGED <<log, pushes, disk, up, mem, start, cli>>
    BY <1>8 DEF HistoryStale
  <2>7. IdsFromMailbox'
    BY <2>4, <2>5, <2>6, <1>f DEF IdsFromMailbox
  <2>8. ListingsCover'
    BY <2>1, <2>4, <2>6, <1>f DEF ListingsCover
  <2> QED
    BY <1>8, <2>1, <2>2, <2>7, <2>8, <1>f
    DEF HistoryStale, RequestsAreServed, IdsFromMailbox, HandlersStartBehind, ListingsCover
<1>9. ASSUME NEW r \in Requests, ListRecent(r) PROVE Rest'
  <2> DEFINE recent == {m \in Present : Cardinality({k \in Present : k >= m}) <= ResyncMax}
             next == pushes[push[r]]
             l == [next   |-> next,
                   page   |-> {e \in Interesting(0, Latest) : log[e].msg \in recent},
                   missed |-> {e \in Interesting(start[r], next) : log[e].msg \notin recent},
                   lost |-> listing[r].lost]
  <2>1. /\ up /\ pc[r] = "resync" /\ Listed(r, l, recent)
        /\ UNCHANGED <<log, pushes, disk, up, mem, start, cli, outcome, cliWrote>>
    BY <1>9 DEF ListRecent
  <2>2. /\ pc'[r] = "fetch" /\ listing'[r] = l
        /\ \A q \in Requests \ {r} : /\ pc'[q] = pc[q] /\ listing'[q] = listing[q]
                                     /\ got'[q] = got[q]
    BY <2>1, <1>0 DEF Listed, Goto, TypeOK, RequestsTypeOK
  <2>3. FileAccounted' /\ NothingUnaccounted'
    BY <2>1, <2>2, QuietAccounting
  <2>4. next <= Latest /\ next \in HistoryId
    BY <2>1, <1>0, ElementOfSeq DEF IdsFromMailbox, TypeOK, RequestsTypeOK, PushesTypeOK
  <2>5. l.next = next /\ l.page \subseteq Events
    BY DEF Interesting
  <2>6. Interesting(start[r], next) \subseteq l.page \cup l.missed
    <3>1. start[r] \in Nat
      BY <1>0 DEF TypeOK, RequestsTypeOK
    <3>2. \A e \in Interesting(start[r], next) : e \in Interesting(0, Latest)
      BY <2>4, <3>1, <1>b DEF Interesting, HistoryId, BadId
    <3> QED
      BY <3>2
  <2> HIDE DEF l, recent
  <2>7. RequestsAreServed'
    BY <2>1, <2>2 DEF RequestsAreServed
  <2>8. IdsFromMailbox'
    BY <2>1, <2>2, <2>4, <2>5, <1>f DEF IdsFromMailbox
  <2>9. HandlersStartBehind'
    BY <2>1, <2>2 DEF HandlersStartBehind
  <2>10. ListingsCover'
    BY <2>1, <2>2, <2>5, <2>6, <1>f DEF ListingsCover
  <2> QED
    BY <2>3, <2>7, <2>8, <2>9, <2>10
<1>10. ASSUME NEW r \in Requests, FetchMessage(r) PROVE Rest'
  <2>1. pc[r] = "fetch" /\ \A q \in Requests \ {r} : got'[q] = got[q]
    BY <1>10, <1>0 DEF FetchMessage, TypeOK, RequestsTypeOK
  <2>2. FileAccounted' /\ NothingUnaccounted'
    BY <1>10, <2>1, QuietAccounting DEF FetchMessage
  <2> QED
    BY <1>10, <2>1, <2>2, <1>f
    DEF FetchMessage, RequestsAreServed, IdsFromMailbox, HandlersStartBehind, ListingsCover
<1>11. ASSUME NEW r \in Requests, AdvanceHistory(r) PROVE Rest'
  <2> DEFINE next == listing[r].next
             new  == UpdateStateAfterHistory(mem, next, push[r])
  <2>1. /\ up /\ up' /\ pc[r] = "fetch" /\ mem' = new /\ UNCHANGED <<log, pushes, cli>>
        /\ next \in HistoryId /\ new \in StateType
    BY <1>11, <1>b, <1>0, UpdateType
    DEF AdvanceHistory, TypeOK, StateTypeOK, RequestsTypeOK
  <2>2. \/ Reset(r)
        \/ /\ pc' = [pc EXCEPT ![r] = "hook"] /\ UNCHANGED <<start, listing, got>>
           /\ ~NoPayload(r)
    BY <1>11 DEF AdvanceHistory, Accept, Goto
  <2>3. \A q \in Requests \ {r} : /\ pc'[q] = pc[q] /\ listing'[q] = listing[q]
                                  /\ got'[q] = got[q] /\ start'[q] = start[q]
    BY <2>2, <1>0, ResetFacts DEF TypeOK, RequestsTypeOK
  <2>4. \A e \in EventIds : outcome[e] \subseteq outcome'[e]
    BY <1>11 DEF AdvanceHistory
  <2>5. \A e \in EventIds : Accounted(e) => Accounted(e)'
    BY <2>1, <2>3, <2>4, AccountedKept
  <2>6. mem'.hid \in Events /\ mem.hid <= mem'.hid
    BY <2>1, <1>b DEF IdsFromMailbox, UpdateStateAfterHistory, ShouldUpdateHistoryID,
       Parses, HistoryId, NoId, BadId
  <2>7. NothingUnaccounted'
    <3>1. SUFFICES ASSUME NEW e \in Interesting(0, mem'.hid) PROVE Accounted(e)'
      BY <2>1, <1>f DEF NothingUnaccounted
    <3>2. e \in EventIds /\ e \in Events
      BY <1>f DEF Interesting
    <3>3. CASE e <= mem.hid
      <4>1. e \in Interesting(0, mem.hid)
        BY <3>3 DEF Interesting
      <4> QED
        BY <2>1, <2>5, <3>2, <4>1 DEF NothingUnaccounted
    <3>4. CASE e > mem.hid
      <4>1. Parses(next) /\ mem'.hid = next
        BY <2>1, <2>6, <3>1, <3>4, <1>b DEF UpdateStateAfterHistory, Interesting
      <4>2. e \in Interesting(start[r], next)
        BY <2>1, <3>1, <3>4, <4>1, <1>b DEF HandlersStartBehind, Interesting
      <4>3. e \in listing[r].page \cup listing[r].missed
        BY <2>1, <4>2 DEF ListingsCover
      <4>4. outcome'[e] = outcome[e] \cup LeftBehind(r, e)
        BY <1>11, <3>2, <4>1 DEF AdvanceHistory
      <4>5. CASE e \in listing[r].missed
        BY <4>4, <4>5 DEF LeftBehind, Accounted
      <4>6. CASE e \in listing[r].page \ Carried(r)
        BY <4>4, <4>6 DEF LeftBehind, Accounted
      <4>7. CASE e \in Carried(r) /\ NoPayload(r)
        BY <4>4, <4>7 DEF LeftBehind, Accounted
      <4>8. CASE e \in Carried(r) /\ ~NoPayload(r)
        <5>1. pc'[r] = "hook" /\ UNCHANGED <<listing, got>>
          BY <1>11, <4>8, <1>0 DEF AdvanceHistory, Goto, TypeOK, RequestsTypeOK
        <5>2. Carried(r)' = Carried(r)
          BY <5>1, <2>1 DEF Carried
        <5> QED
          BY <4>8, <5>1, <5>2 DEF Accounted
      <4> QED
        BY <4>3, <4>5, <4>6, <4>7, <4>8
    <3> QED
      BY <3>2, <3>3, <3>4, <1>b
  <2>8. FileAccounted'
    <3>1. CASE Parses(next)
      <4>1. Save(new)
        BY <1>11, <3>1 DEF AdvanceHistory
      <4>2. \A e \in Events : Accounted(e) => Accounted(e)'
        BY <2>5, <1>g
      <4> QED
        BY <2>1, <2>7, <4>1, <4>2, SavedFile
    <3>2. CASE ~Parses(next)
      BY <1>11, <3>2, <2>5, <1>f DEF AdvanceHistory, FileAccounted
    <3> QED
      BY <3>1, <3>2
  <2>9. disk'.status = "ok" => disk'.hid \in Events'
    <3>1. disk' \in {disk, File(new), Torn}
      BY <1>11 DEF AdvanceHistory, Save
    <3>2. CASE disk' = File(new)
      BY <3>2, <2>1, <2>6, <1>f DEF File
    <3>3. CASE disk' \in {disk, Torn}
      BY <3>3, <2>1, <1>f DEF Torn, IdsFromMailbox
    <3> QED
      BY <3>1, <3>2, <3>3
  <2>10. CASE Reset(r)
    <3>1. /\ RequestsAreServed' /\ HandlersStartBehind' /\ ListingsCover'
          /\ \A q \in Requests : listing'[q].next <= Latest' /\ listing'[q].page \subseteq Events'
      BY <2>1, <2>6, <2>10, <1>b, <1>f, ResetKeeps
    <3>2. IdsFromMailbox'
      BY <2>1, <2>6, <2>9, <3>1, <1>f DEF IdsFromMailbox
    <3> QED
      BY <2>7, <2>8, <3>1, <3>2
  <2>11. CASE pc' = [pc EXCEPT ![r] = "hook"] /\ UNCHANGED <<start, listing, got>>
    <3>1. pc'[r] = "hook"
      BY <2>11, <1>0 DEF TypeOK, RequestsTypeOK
    <3>2. RequestsAreServed' /\ IdsFromMailbox'
      BY <2>1, <2>6, <2>9, <2>11, <1>f DEF RequestsAreServed, IdsFromMailbox
    <3>3. HandlersStartBehind'
      BY <2>3, <2>6, <3>1, <1>b DEF HandlersStartBehind
    <3>4. ListingsCover'
      BY <2>1, <2>3, <3>1, <1>f DEF ListingsCover
    <3> QED
      BY <2>7, <2>8, <3>2, <3>3, <3>4
  <2> QED
    BY <2>2, <2>10, <2>11
<1>12. ASSUME NEW r \in Requests, Answer(r) PROVE Rest'
  <2>1. Reset(r) /\ UNCHANGED <<log, pushes, up, mem, disk, cli, cliWrote>>
    BY <1>12 DEF Answer, Accept
  <2>2. \A e \in EventIds : /\ outcome[e] \subseteq outcome'[e]
                            /\ e \in Carried(r) => outcome'[e] # {}
    BY <1>12 DEF Answer
  <2>3. FileAccounted' /\ NothingUnaccounted'
    BY <2>1, <2>2, <1>0, ResetFacts, QuietAccounting
  <2> QED
    BY <2>1, <2>3, <1>f, ResetKeeps DEF IdsFromMailbox
<1>13. ASSUME NEW r \in Requests, PostHook(r) PROVE Rest'
  <2>1. /\ pc'[r] = "record" /\ \A q \in Requests \ {r} : pc'[q] = pc[q]
        /\ up /\ UNCHANGED <<log, pushes, up, mem, disk, start, listing, got, cli, cliWrote>>
    BY <1>13, <1>0 DEF PostHook, Goto, TypeOK, RequestsTypeOK
  <2>2. PICK what \in {{"hooked"}, {"hookFailed"}, {"hooked", "hookFailed"}} :
          outcome' = [e \in EventIds |->
            outcome[e] \cup
              (IF e \in Carried(r) THEN what ELSE {}) \cup
              (IF e \in Carried(r) /\ Resynced(r) THEN {"resynced"} ELSE {}) \cup
              (IF e \in Carried(r) /\ "hooked" \in outcome[e] \cap what
                 THEN {"again"} ELSE {})]
    BY <1>13 DEF PostHook
  <2>3. \A e \in EventIds : /\ outcome[e] \subseteq outcome'[e]
                            /\ e \in Carried(r) => outcome'[e] # {}
    BY <2>2
  <2>4. FileAccounted' /\ NothingUnaccounted'
    BY <2>1, <2>3, QuietAccounting
  <2> QED
    BY <2>1, <2>4, <1>f
    DEF RequestsAreServed, IdsFromMailbox, HandlersStartBehind, ListingsCover
<1>14. ASSUME NEW r \in Requests, RecordDelivery(r) PROVE Rest'
  <2>1. /\ up /\ pc[r] = "record" /\ Reset(r) /\ Save(mem)
        /\ UNCHANGED <<log, pushes, up, mem, cli, outcome>>
    BY <1>14 DEF RecordDelivery, Accept
  <2>2. \A e \in EventIds : Accounted(e) => Accounted(e)'
    BY <2>1, <1>0, ResetFacts, AccountedKept
  <2>3. NothingUnaccounted'
    BY <2>1, <2>2, <1>f DEF NothingUnaccounted
  <2>4. FileAccounted'
    <3>1. \A e \in Events : Accounted(e) => Accounted(e)'
      BY <2>2, <1>g
    <3> QED
      BY <2>1, <2>3, <3>1, <1>0, SavedFile DEF TypeOK, StateTypeOK
  <2>5. disk'.status = "ok" => disk'.hid \in Events'
    BY <2>1, <1>f DEF Save, File, Torn, IdsFromMailbox
  <2> QED
    BY <2>1, <2>3, <2>4, <2>5, <1>f, ResetKeeps DEF IdsFromMailbox
<1>15. ASSUME NEW r \in Requests, CallFails(r) PROVE Rest'
  <2>1. Reset(r) /\ pc[r] # "hook"
    BY <1>15 DEF CallFails, Reject
  <2>2. FileAccounted' /\ NothingUnaccounted'
    BY <1>15, <2>1, <1>0, ResetFacts, QuietAccounting DEF CallFails, Reject
  <2> QED
    BY <1>15, <2>1, <2>2, <1>f, ResetKeeps DEF CallFails, IdsFromMailbox
<1>16. CASE ServeStart
  <2>1. /\ ~up /\ up' /\ disk.status = "ok" /\ mem' = [hid |-> disk.hid, last |-> disk.last]
        /\ cliWrote' = FALSE
        /\ UNCHANGED <<log, pushes, disk, pc, start, listing, got, cli>>
    BY <1>16 DEF ServeStart
  <2>2. \A q \in Requests : pc[q] = "idle"
    BY <2>1 DEF RequestsAreServed
  <2>3. \A e \in EventIds : outcome'[e] = outcome[e] \cup
          IF cliWrote /\ e <= disk.hid /\ outcome[e] = {} THEN {"jumped"} ELSE {}
    BY <1>16 DEF ServeStart
  <2>4. \A e \in Interesting(0, disk.hid) : outcome'[e] # {}
    <3>1. SUFFICES ASSUME NEW e \in Interesting(0, disk.hid) PROVE outcome'[e] # {}
      OBVIOUS
    <3>2. e \in EventIds /\ e <= disk.hid
      BY <1>f DEF Interesting
    <3>3. CASE cliWrote
      BY <2>3, <3>2, <3>3
    <3>4. CASE ~cliWrote
      BY <2>1, <2>2, <2>3, <3>1, <3>2, <3>4 DEF FileAccounted, Accounted
    <3> QED
      BY <3>3, <3>4, <1>0 DEF TypeOK, ObserverTypeOK
  <2>5. FileAccounted' /\ NothingUnaccounted'
    BY <2>1, <2>4, <1>f DEF FileAccounted, NothingUnaccounted, Accounted
  <2> QED
    BY <2>1, <2>2, <2>5, <1>f
    DEF RequestsAreServed, IdsFromMailbox, HandlersStartBehind, ListingsCover
<1>17. CASE ServeCrash
  <2>1. /\ up' = FALSE /\ UNCHANGED <<log, pushes, cli, cliWrote>>
        /\ \A q \in Requests : /\ pc'[q] = "idle" /\ listing'[q] = NoListing
        /\ disk' = disk \/ disk' = Torn
    BY <1>17 DEF ServeCrash
  <2>2. \A e \in EventIds : outcome'[e] = outcome[e] \cup
          IF \E r \in Requests : pc[r] = "hook" /\ e \in Carried(r) THEN {"crashed"} ELSE {}
    BY <1>17 DEF ServeCrash
  <2>3. \A e \in EventIds : Accounted(e) => Accounted(e)'
    BY <2>2 DEF Accounted
  <2>4. FileAccounted' /\ NothingUnaccounted'
    BY <2>1, <2>3, <1>f DEF FileAccounted, NothingUnaccounted, Torn
  <2>5. IdsFromMailbox'
    BY <2>1, <1>b, <1>f DEF IdsFromMailbox, NoListing, NoId, Torn
  <2> QED
    BY <2>1, <2>4, <2>5 DEF RequestsAreServed, HandlersStartBehind, ListingsCover
<1>18. ASSUME NEW op \in {"start", "renew", "stop"}, CommandBegin(op) PROVE Rest'
  BY <1>18, <1>f, QuietAccounting
  DEF CommandBegin, RequestsAreServed, IdsFromMailbox, HandlersStartBehind, ListingsCover
<1>19. CASE CommandCall
  BY <1>19, <1>f, <1>b, <1>0, QuietAccounting
  DEF CommandCall, RequestsAreServed, IdsFromMailbox, HandlersStartBehind, ListingsCover, TypeOK, MailboxTypeOK, EventIds
<1>20. CASE CommandWrite
  <2>1. /\ cli.pc = "write" /\ cli.op # "stop" /\ cli' = NoCommand
        /\ UNCHANGED <<log, pushes, up, mem, pc, push, start, listing, got, outcome>>
    BY <1>20 DEF CommandWrite
  <2>2. \A e : Accounted(e)' = Accounted(e)
    BY <2>1 DEF Accounted, Carried
  <2>3. NothingUnaccounted'
    BY <2>1, <2>2, <1>f DEF NothingUnaccounted
  <2>4. \/ disk' = File([hid |-> cli.hid, last |-> 0]) /\ cliWrote' = TRUE
        \/ disk' = disk /\ UNCHANGED cliWrote
        \/ disk' = Torn
    BY <1>20 DEF CommandWrite
  <2>5. FileAccounted'
    BY <2>2, <2>4, <2>1, <1>f DEF FileAccounted, Torn
  <2>6. IdsFromMailbox'
    BY <2>1, <2>4, <1>f DEF IdsFromMailbox, File, Torn, NoCommand
  <2> QED
    BY <2>1, <2>3, <2>5, <2>6, <1>f
    DEF RequestsAreServed, HandlersStartBehind, ListingsCover
<1>21. CASE CommandRemove
  <2>1. /\ disk' = Absent /\ cli' = NoCommand
        /\ UNCHANGED <<log, pushes, up, mem, pc, push, start, listing, got, outcome>>
    BY <1>21 DEF CommandRemove
  <2>2. \A e : Accounted(e)' = Accounted(e)
    BY <2>1 DEF Accounted, Carried
  <2>3. FileAccounted' /\ NothingUnaccounted'
    BY <2>1, <2>2, <1>f DEF FileAccounted, NothingUnaccounted, Absent
  <2> QED
    BY <2>1, <2>3, <1>f
    DEF RequestsAreServed, IdsFromMailbox, HandlersStartBehind, ListingsCover, Absent, NoCommand
<1>22. CASE CommandAbort
  BY <1>22, <1>f, QuietAccounting
  DEF CommandAbort, NoCommand, RequestsAreServed, IdsFromMailbox, HandlersStartBehind, ListingsCover
<1>23. CASE UNCHANGED vars
  BY <1>23, <1>f, QuietAccounting
  DEF vars, RequestsAreServed, IdsFromMailbox, HandlersStartBehind, ListingsCover
<1> QED
  BY <1>1, <1>2, <1>3, <1>4, <1>5, <1>6, <1>7, <1>8, <1>9, <1>10, <1>11, <1>12,
     <1>13, <1>14, <1>15, <1>16, <1>17, <1>18, <1>19, <1>20, <1>21, <1>22, <1>23
  DEF Next, Serve, Step, Command, Environment

(* The stored history id never passes an event that nothing is known of:    *)
(* each was handed to the hook, is about to be, or was lost for one of the  *)
(* listed reasons, a resync after a network failure of history.list among   *)
(* them.  However many handlers overlap, in whatever order they store their *)
(* ids, and whichever saves, calls and commands fail, the handlers between  *)
(* them skip nothing.                                                       *)
THEOREM EveryEventAccounted == Spec => []NothingUnaccounted
<1>1. Init => AccountingInvariant
  BY InitAccounting
<1>2. AccountingInvariant /\ [Next]_vars => AccountingInvariant'
  BY AccountingStep
<1>3. AccountingInvariant => NothingUnaccounted
  BY DEF AccountingInvariant
<1> QED
  BY <1>1, <1>2, <1>3, PTL DEF Spec

(* While the server runs, its history id never goes back.                   *)
THEOREM NeverRegresses == Spec => HistoryIdNeverRegresses
<1>1. TypeOK /\ [Next]_vars => [up /\ up' => mem'.hid >= mem.hid]_vars
  <2> SUFFICES ASSUME TypeOK, Next, up, up' PROVE mem'.hid >= mem.hid
    BY DEF vars
  <2>1. mem.hid \in Nat
    BY DEF TypeOK, StateTypeOK, StateType
  <2>2. ASSUME NEW r \in Requests, StartFetch(r) PROVE mem'.hid >= mem.hid
    <3>0. pushes[push[r]] \in Int
      BY <2>2, ElementOfSeq
      DEF StartFetch, TypeOK, RequestsTypeOK, PushesTypeOK, HistoryId, BadId
    <3>1. CASE SetsStoredID(mem, pushes[push[r]])
      BY <2>1, <2>2, <3>0, <3>1 DEF StartFetch, SetsStoredID, NoId
    <3>2. CASE ~SetsStoredID(mem, pushes[push[r]])
      BY <2>1, <2>2, <3>2 DEF StartFetch
    <3> QED
      BY <3>1, <3>2
  <2>3. ASSUME NEW r \in Requests, AdvanceHistory(r) PROVE mem'.hid >= mem.hid
    <3>1. mem' = UpdateStateAfterHistory(mem, listing[r].next, push[r])
      BY <2>3 DEF AdvanceHistory
    <3>2. listing[r].next \in HistoryId
      BY DEF TypeOK, RequestsTypeOK, ListingType
    <3> QED
      BY <2>1, <3>1, <3>2
      DEF UpdateStateAfterHistory, ShouldUpdateHistoryID, Parses, HistoryId, NoId, BadId
  <2>4. ~ServeStart /\ ~ServeCrash
    BY DEF ServeStart, ServeCrash
  <2>5. \/ mem' = mem
        \/ \E r \in Requests : StartFetch(r) \/ AdvanceHistory(r)
    BY <2>4
    DEF Next, Serve, Step, Command, Environment, MailboxChange, PruneHistory, Publish,
        DeliverAgain, ReceivePush, ListHistory, HistoryStale, ListRecent, FetchMessage,
        CallFails, Answer, PostHook, RecordDelivery, CommandBegin, CommandCall,
        CommandWrite, CommandRemove, CommandAbort, serverVars
  <2> QED
    BY <2>1, <2>2, <2>3, <2>5
<1>2. Spec => []TypeOK
  BY TypeCorrect
<1> QED
  BY <1>1, <1>2, PTL DEF Spec, HistoryIdNeverRegresses

---------------------------------------------------------------------------
(* Acknowledged pushes, when nobody but the server writes the state file    *)
(* once it is there and no write fails.                                     *)

Behind(n, id) == n = 0 \/ (n \in DOMAIN pushes /\ pushes[n] <= id)

\* What a handler will store, or has stored, is not behind the push it serves.
HandlerCovers(r) ==
  /\ pc[r] = "fetch" => pushes[push[r]] <= listing[r].next
  /\ pc[r] \in {"hook", "record"} => pushes[push[r]] <= mem.hid

\* The last push seen is behind too (it is what a repeated push is compared
\* with), the file is what the server knows, and before `watch start` has
\* written it no push has been served.
AckInvariant ==
  /\ AccountingInvariant
  /\ up => /\ Behind(mem.last, mem.hid)
           /\ \A n \in DOMAIN pushes \ pending : pushes[n] <= mem.hid
           /\ disk.status = "ok" => disk.hid = mem.hid /\ disk.last = mem.last
  /\ ~up /\ disk.status = "ok" =>
       /\ Behind(disk.last, disk.hid)
       /\ \A n \in DOMAIN pushes \ pending : pushes[n] <= disk.hid
  /\ \A r \in Requests : HandlerCovers(r)
  /\ cli # NoCommand => commands # 0
  /\ commands = 0 \/ cli # NoCommand =>
       disk.status # "ok" /\ ~up /\ pending = DOMAIN pushes

LEMMA InitAck == Init => AckInvariant
  BY InitAccounting DEF Init, AckInvariant, HandlerCovers, Absent

\* A request that ends with a push that is behind.
LEMMA AcceptKeeps ==
  ASSUME AckInvariant, AccountingInvariant', NEW r \in Requests, Accept(r) \/ Reject(r),
         pc[r] # "idle", Accept(r) => pushes[push[r]] <= mem'.hid,
         UNCHANGED <<pushes, up, cli, commands>>, mem'.hid >= mem.hid,
         mem.hid \in Nat, mem'.hid \in Nat,
         mem'.last = mem.last \/ (mem'.last = push[r] /\ pushes[push[r]] <= mem'.hid),
         disk'.status = "ok" => disk'.hid = mem'.hid /\ disk'.last = mem'.last
  PROVE  AckInvariant'
<1>0. /\ TypeOK /\ up /\ RequestsAreServed
      /\ \A n \in DOMAIN pushes : pushes[n] \in HistoryId
  BY ElementOfSeq DEF AckInvariant, AccountingInvariant, RequestsAreServed, TypeOK, PushesTypeOK
<1>1. Reset(r) /\ pending' \in {pending, pending \ {push[r]}}
  BY DEF Accept, Reject
<1>2. \A q \in Requests : HandlerCovers(q)'
  <2>1. push' = [push EXCEPT ![r] = 0]
    BY <1>1 DEF Reset
  <2>2. HandlerCovers(r)'
    BY <1>0, <1>1, ResetFacts DEF HandlerCovers
  <2>3. ASSUME NEW q \in Requests \ {r} PROVE HandlerCovers(q)'
    <3>1. /\ pc'[q] = pc[q] /\ listing'[q] = listing[q] /\ push'[q] = push[q]
          /\ HandlerCovers(q) /\ (pc[q] # "idle" => push[q] \in DOMAIN pushes)
      BY <1>0, <1>1, <2>1, ResetFacts DEF AckInvariant, TypeOK, RequestsTypeOK
    <3> QED
      BY <1>0, <3>1 DEF HandlerCovers, HistoryId, BadId
  <2> QED
    BY <2>2, <2>3
<1>3. \A n \in DOMAIN pushes \ pending' : pushes[n] <= mem'.hid
  <2>1. ASSUME NEW n \in DOMAIN pushes \ pending PROVE pushes[n] <= mem'.hid
    <3>1. pushes[n] \in Int /\ pushes[n] <= mem.hid
      BY <1>0, <2>1 DEF AckInvariant, HistoryId, BadId
    <3> QED
      BY <3>1
  <2>2. CASE Accept(r)
    BY <2>1, <2>2 DEF Accept
  <2>3. CASE Reject(r)
    BY <2>1, <2>3 DEF Reject
  <2> QED
    BY <2>2, <2>3
<1>4. Behind(mem.last, mem'.hid)
  <2>1. Behind(mem.last, mem.hid)
    BY <1>0 DEF AckInvariant
  <2> QED
    BY <1>0, <2>1 DEF Behind, HistoryId, BadId
<1>5. mem'.last = 0 \/ (mem'.last \in DOMAIN pushes /\ pushes[mem'.last] <= mem'.hid)
  BY <1>0, <1>4 DEF Behind, TypeOK, RequestsTypeOK
<1>6. ~(commands = 0 \/ cli # NoCommand)
  BY <1>0 DEF AckInvariant
<1> QED
  BY <1>0, <1>2, <1>3, <1>5, <1>6 DEF AckInvariant, Behind

LEMMA AckStep ==
  ASSUME MaxCommands = 1, "save" \notin FaultKinds, AckInvariant, [Next]_vars
  PROVE  AckInvariant'
<1>0. AccountingInvariant /\ AccountingInvariant' /\ TypeOK /\ TypeOK'
  BY AccountingStep DEF AckInvariant, AccountingInvariant
<1>a. /\ mem.hid \in Nat /\ mem'.hid \in Nat /\ pending \subseteq DOMAIN pushes
      /\ \A n \in DOMAIN pushes : pushes[n] \in HistoryId
      /\ \A q \in Requests : pc[q] # "idle" => push[q] \in DOMAIN pushes
      /\ \A q \in Requests : listing[q].next \in HistoryId
      /\ pc \in [Requests -> {"idle", "start", "list", "resync", "fetch", "hook", "record"}]
      /\ push \in [Requests -> 0..MaxPushes]
      /\ listing \in [Requests -> ListingType]
  BY <1>0, ElementOfSeq
  DEF TypeOK, StateTypeOK, StateType, PushesTypeOK, RequestsTypeOK, ListingType
<1>s. ASSUME NEW st, Save(st) PROVE disk' = File(st)
  BY <1>s DEF Save, Fault
<1>q. ASSUME NEW r \in Requests, pc[r] # "idle" PROVE up /\ ~(commands = 0 \/ cli # NoCommand)
  BY <1>0, <1>q DEF AckInvariant, AccountingInvariant, RequestsAreServed
\* A step of one request that leaves the pushes and the state alone.
<1>h. ASSUME NEW r \in Requests, pc[r] # "idle",
             UNCHANGED <<pushes, pending, push, mem, up, disk, cli, commands>>,
             \A q \in Requests \ {r} : UNCHANGED <<pc[q], listing[q]>>,
             HandlerCovers(r)'
      PROVE  AckInvariant'
  <2>1. \A q \in Requests : HandlerCovers(q)'
    BY <1>h DEF AckInvariant, HandlerCovers
  <2> QED
    BY <1>0, <1>h, <2>1 DEF AckInvariant, Behind
<1> USE DEF mailVars, requestVars, serverVars, countVars
<1>1. CASE MailboxChange \/ PruneHistory \/ UNCHANGED vars
  <2>1. UNCHANGED <<pushes, pending, push, pc, listing, mem, up, disk, cli, commands>>
    BY <1>1 DEF MailboxChange, PruneHistory, vars
  <2>2. \A q \in Requests : HandlerCovers(q)'
    BY <2>1 DEF AckInvariant, HandlerCovers
  <2> QED
    BY <1>0, <2>1, <2>2 DEF AckInvariant, Behind
<1>2. CASE Publish
  <2>1. PICK hid : pushes' = Append(pushes, hid)
    BY <1>2 DEF Publish
  <2>2. /\ DOMAIN pushes = 1..Len(pushes) /\ DOMAIN pushes' = 1..(Len(pushes) + 1)
        /\ \A n \in DOMAIN pushes : pushes'[n] = pushes[n]
        /\ pending' = pending \cup {Len(pushes) + 1}
        /\ Len(pushes) \in Nat
    BY <1>0, <1>2, <2>1 DEF Publish, TypeOK, PushesTypeOK
  <2>3. /\ \A n \in DOMAIN pushes' \ pending' : n \in DOMAIN pushes \ pending
        /\ pending = DOMAIN pushes => pending' = DOMAIN pushes'
    BY <2>2
  <2>4. UNCHANGED <<push, pc, listing, mem, up, disk, cli, commands>>
    BY <1>2 DEF Publish
  <2>5. \A q \in Requests : HandlerCovers(q)'
    BY <1>a, <2>2, <2>4 DEF AckInvariant, HandlerCovers
  <2>6. /\ Behind(mem.last, mem.hid) => Behind(mem.last, mem.hid)'
        /\ Behind(disk.last, disk.hid) => Behind(disk.last, disk.hid)'
    BY <2>2, <2>4 DEF Behind
  <2> QED
    BY <1>0, <2>2, <2>3, <2>4, <2>5, <2>6 DEF AckInvariant
<1>3. ASSUME NEW n \in DOMAIN pushes, DeliverAgain(n) PROVE AckInvariant'
  BY <1>0, <1>a, <1>3 DEF DeliverAgain, AckInvariant, Behind, HandlerCovers
<1>4. ASSUME NEW r \in Requests, NEW n \in pending, ReceivePush(r, n) PROVE AckInvariant'
  <2>1. /\ up /\ pc[r] = "idle" /\ UNCHANGED <<pushes, mem, disk, up, listing, cli, commands>>
    BY <1>4 DEF ReceivePush
  <2>2. CASE mem.last = n
    <3>1. pending' = pending \ {n} /\ UNCHANGED <<pc, push>>
      BY <1>4, <2>2 DEF ReceivePush
    <3>2. n \in DOMAIN pushes /\ n # 0
      BY <1>a, <1>0 DEF TypeOK, PushesTypeOK
    <3>3. pushes[n] <= mem.hid
      BY <2>1, <2>2, <3>2 DEF AckInvariant, Behind
    <3> QED
      BY <1>0, <2>1, <3>1, <3>3 DEF AckInvariant, Behind, HandlerCovers
  <2>3. CASE mem.last # n
    <3>1. /\ pc' = [pc EXCEPT ![r] = "start"] /\ push' = [push EXCEPT ![r] = n]
          /\ UNCHANGED pending
      BY <1>4, <2>3 DEF ReceivePush, Goto
    <3>2. \A q \in Requests : HandlerCovers(q)'
      BY <1>a, <2>1, <3>1 DEF AckInvariant, HandlerCovers
    <3> QED
      BY <1>0, <2>1, <3>1, <3>2 DEF AckInvariant, Behind
  <2> QED
    BY <2>2, <2>3
<1>5. ASSUME NEW r \in Requests, StartFetch(r) PROVE AckInvariant'
  <2> DEFINE hid == pushes[push[r]]
             id  == StartHistoryID(mem, hid)
  <2>1. /\ up /\ pc[r] = "start" /\ UNCHANGED <<up, cli, commands, pushes>>
        /\ mem.hid # NoId /\ hid \in HistoryId
    BY <1>0, <1>a, <1>5
    DEF StartFetch, AccountingInvariant, IdsFromMailbox, Events, NoId
  <2>2. UNCHANGED <<mem, disk>>
    BY <1>5, <2>1 DEF StartFetch, SetsStoredID
  <2>3. CASE id # 0
    <3>1. pc' = [pc EXCEPT ![r] = "list"] /\ UNCHANGED <<pending, push, listing>>
      BY <1>5, <2>3 DEF StartFetch, Goto
    <3>2. HandlerCovers(r)'
      BY <1>a, <3>1 DEF HandlerCovers
    <3> QED
      BY <1>a, <1>h, <2>1, <2>2, <3>1, <3>2
  <2>4. CASE id = 0
    <3>1. Accept(r) \/ Reject(r)
      BY <1>5, <2>4 DEF StartFetch
    <3>2. hid <= mem.hid
      BY <1>a, <2>1, <2>4 DEF StartHistoryID, HistoryId, BadId, NoId
    <3>3. disk.status = "ok" => disk.hid = mem.hid /\ disk.last = mem.last
      BY <2>1 DEF AckInvariant
    <3> QED
      BY <1>0, <1>a, <2>1, <2>2, <3>1, <3>2, <3>3, AcceptKeeps
  <2> QED
    BY <2>3, <2>4
<1>6. ASSUME NEW r \in Requests, ListHistory(r) \/ HistoryStale(r) \/ ListRecent(r)
      PROVE  AckInvariant'
  <2>1. /\ pc[r] # "idle"
        /\ UNCHANGED <<pushes, pending, push, mem, up, disk, cli, commands>>
    BY <1>6 DEF ListHistory, HistoryStale, ListRecent
  <2>2. /\ pushes[push[r]] <= Latest /\ Latest \in Nat
        /\ pushes[push[r]] \in HistoryId
    BY <1>0, <1>a, <2>1 DEF AccountingInvariant, IdsFromMailbox, TypeOK, MailboxTypeOK, EventIds
  <2>3. CASE HistoryStale(r)
    BY <1>a, <1>h, <2>1, <2>3 DEF HistoryStale, Goto, HandlerCovers
  <2>4. ASSUME NEW l, NEW ids, Listed(r, l, ids), pushes[push[r]] <= l.next PROVE AckInvariant'
    BY <1>a, <1>h, <2>1, <2>4 DEF Listed, Goto, HandlerCovers
  <2>5. CASE ListHistory(r)
    BY <2>2, <2>4, <2>5 DEF ListHistory
  <2>6. CASE ListRecent(r)
    <3>1. pushes[push[r]] <= pushes[push[r]]
      BY <2>2 DEF HistoryId, BadId
    <3> QED
      BY <2>4, <2>6, <3>1 DEF ListRecent
  <2> QED
    BY <1>6, <2>3, <2>5, <2>6
<1>7. ASSUME NEW r \in Requests, FetchMessage(r) PROVE AckInvariant'
  BY <1>a, <1>h, <1>7 DEF FetchMessage, AckInvariant, HandlerCovers
<1>8. ASSUME NEW r \in Requests, AdvanceHistory(r) PROVE AckInvariant'
  <2> DEFINE next == listing[r].next
             new  == UpdateStateAfterHistory(mem, next, push[r])
  <2>1. /\ up /\ pc[r] = "fetch" /\ mem' = new /\ UNCHANGED <<up, cli, commands, pushes>>
        /\ pushes[push[r]] <= next /\ pushes[push[r]] \in HistoryId /\ next \in HistoryId
    BY <1>a, <1>8 DEF AdvanceHistory, AckInvariant, HandlerCovers
  <2>2. /\ mem.hid <= mem'.hid /\ pushes[push[r]] <= mem'.hid
        /\ mem'.last = mem.last \/ mem'.last = push[r]
    BY <1>a, <2>1
    DEF UpdateStateAfterHistory, ShouldUpdateHistoryID, Parses, HistoryId, NoId, BadId
  <2>3. disk'.status = "ok" => disk'.hid = mem'.hid /\ disk'.last = mem'.last
    <3>1. CASE Parses(next)
      BY <1>8, <1>s, <2>1, <3>1 DEF AdvanceHistory, File
    <3>2. CASE ~Parses(next)
      BY <1>8, <2>1, <3>2 DEF AdvanceHistory, UpdateStateAfterHistory, AckInvariant
    <3> QED
      BY <3>1, <3>2
  <2>4. CASE Accept(r)
    BY <1>0, <1>a, <2>1, <2>2, <2>3, <2>4, AcceptKeeps
  <2>5. CASE Goto(r, "hook") /\ UNCHANGED <<pending, push, listing>>
    <3>1. \A n \in DOMAIN pushes \ pending : pushes[n] <= mem'.hid
      BY <1>a, <2>1, <2>2 DEF AckInvariant, HistoryId, BadId
    <3>2. Behind(mem'.last, mem'.hid)
      <4>1. Behind(mem.last, mem.hid)
        BY <2>1 DEF AckInvariant
      <4>2. Behind(mem.last, mem'.hid)
        BY <1>a, <2>2, <4>1 DEF Behind, HistoryId, BadId
      <4> QED
        BY <1>a, <2>1, <2>2, <4>2 DEF Behind
    <3>3. \A q \in Requests : HandlerCovers(q)'
      BY <1>a, <2>1, <2>2, <2>5 DEF AckInvariant, HandlerCovers, Goto, HistoryId, BadId
    <3> QED
      BY <1>0, <1>q, <2>1, <2>3, <2>5, <3>1, <3>2, <3>3 DEF AckInvariant, Behind
  <2> QED
    BY <1>8, <2>4, <2>5 DEF AdvanceHistory
<1>9. ASSUME NEW r \in Requests, PostHook(r) PROVE AckInvariant'
  BY <1>a, <1>h, <1>9 DEF PostHook, Goto, AckInvariant, HandlerCovers
<1>10. ASSUME NEW r \in Requests, Answer(r) \/ RecordDelivery(r) \/ CallFails(r)
       PROVE  AckInvariant'
  <2>1. /\ pc[r] # "idle" /\ up /\ UNCHANGED <<up, cli, commands, pushes, mem>>
        /\ Accept(r) \/ Reject(r)
        /\ Accept(r) => pushes[push[r]] <= mem.hid
    <3>1. CASE Answer(r)
      BY <3>1 DEF Answer, AckInvariant, HandlerCovers
    <3>2. CASE RecordDelivery(r)
      BY <3>2 DEF RecordDelivery, AckInvariant, HandlerCovers
    <3>3. CASE CallFails(r)
      <4>1. push[r] \in pending => ~Accept(r)
        BY <3>3 DEF CallFails, Reject, Accept
      <4> QED
        BY <3>3, <4>1, <1>a DEF CallFails, Reject, Accept, AckInvariant
    <3> QED
      BY <1>10, <3>1, <3>2, <3>3
  <2>2. disk'.status = "ok" => disk'.hid = mem'.hid /\ disk'.last = mem'.last
    BY <1>10, <1>s, <2>1 DEF Answer, RecordDelivery, CallFails, AckInvariant, File
  <2> QED
    BY <1>0, <1>a, <2>1, <2>2, AcceptKeeps
<1>11. CASE ServeStart
  BY <1>0, <1>11 DEF ServeStart, AckInvariant, HandlerCovers, Behind, AccountingInvariant,
     RequestsAreServed
<1>12. CASE ServeCrash
  <2>1. /\ up /\ up' = FALSE /\ UNCHANGED <<pushes, pending, cli, commands>>
        /\ \A q \in Requests : pc'[q] = "idle"
        /\ disk' = disk \/ disk' = Torn
    BY <1>12 DEF ServeCrash
  <2> QED
    BY <1>0, <2>1 DEF AckInvariant, HandlerCovers, Behind, Torn
<1>13. ASSUME NEW op \in {"start", "renew", "stop"}, CommandBegin(op) PROVE AckInvariant'
  <2>1. commands = 0
    BY <1>0, <1>13 DEF CommandBegin, TypeOK, ObserverTypeOK
  <2> QED
    BY <1>0, <1>13, <2>1 DEF CommandBegin, AckInvariant, HandlerCovers, Behind
<1>14. CASE CommandCall
  BY <1>0, <1>14 DEF CommandCall, AckInvariant, HandlerCovers, Behind, NoCommand
<1>15. CASE CommandWrite
  <2>1. /\ cli # NoCommand /\ UNCHANGED <<pushes, pending, up, mem, pc, push, listing, commands>>
        /\ disk' = File([hid |-> cli.hid, last |-> 0]) /\ cli' = NoCommand
    BY <1>15 DEF CommandWrite, NoCommand, Fault
  <2>2. ~up /\ pending = DOMAIN pushes
    BY <2>1 DEF AckInvariant
  <2>3. commands # 0
    BY <2>1 DEF AckInvariant
  <2> QED
    BY <1>0, <2>1, <2>2, <2>3 DEF AckInvariant, HandlerCovers, Behind, File
<1>16. CASE CommandRemove
  BY <1>0, <1>16 DEF CommandRemove, AckInvariant, HandlerCovers, Behind, Absent, NoCommand
<1>17. CASE CommandAbort
  BY <1>0, <1>17 DEF CommandAbort, AckInvariant, HandlerCovers, Behind, NoCommand
<1> QED
  BY <1>1, <1>2, <1>3, <1>4, <1>5, <1>6, <1>7, <1>8, <1>9, <1>10, <1>11, <1>12, <1>13,
     <1>14, <1>15, <1>16, <1>17
  DEF Next, Serve, Step, Command, Environment

(* What an acknowledged push announced is not waiting for another push: its *)
(* id is not ahead of the stored one, with any number of overlapping        *)
(* handlers, repeated pushes, crashes and failing calls, as long as writes  *)
(* of the state file succeed and no second command replaces it.             *)
THEOREM AcknowledgedIsBehind ==
  ASSUME MaxCommands = 1, "save" \notin FaultKinds
  PROVE  Spec => []AcknowledgedPushesBehind
<1>1. AckInvariant => AcknowledgedPushesBehind
  BY DEF AckInvariant, AcknowledgedPushesBehind
<1> QED
  BY <1>1, InitAck, AckStep, PTL DEF Spec

---------------------------------------------------------------------------
(* The hook gets each event once, when pushes are served one at a time.     *)

Hooked(e) == "hooked" \in outcome[e] /\ "resynced" \notin outcome[e]

\* The hook has got nothing past `id`, but for what a resync has told it.
Once(id) == \A e \in EventIds : Hooked(e) => e <= id

\* What a handler has listed, and is going to post, is new to the hook, and will
\* be behind the stored id by then.
ListsNew(r) ==
  /\ pc[r] = "list" => Once(start[r])
  /\ pc[r] = "resync" => Resynced(r)
  /\ pc[r] \in {"fetch", "hook"} /\ ~Resynced(r) =>
       \A e \in listing[r].page :
         /\ ~Hooked(e)
         /\ e <= IF pc[r] = "fetch" THEN listing[r].next ELSE mem.hid

OnceInvariant ==
  /\ AckInvariant /\ AtMostOnce
  /\ up => Once(mem.hid)
  /\ ~up /\ disk.status = "ok" => Once(disk.hid)
  /\ commands = 0 \/ cli # NoCommand => \A e \in EventIds : ~Hooked(e)
  /\ \A r \in Requests : ListsNew(r)

HookMarks == {"hooked", "resynced", "again"}

LEMMA InitOnce == Init => OnceInvariant
  BY InitAck
  DEF Init, OnceInvariant, AtMostOnce, Once, Hooked, ListsNew, Absent

LEMMA OnceStep ==
  ASSUME \A q, r \in Requests : q = r, MaxCommands = 1, "save" \notin FaultKinds,
         OnceInvariant, [Next]_vars
  PROVE  OnceInvariant'
<1>0. /\ AckInvariant /\ AckInvariant' /\ AccountingInvariant /\ AccountingInvariant'
      /\ TypeOK /\ TypeOK'
  BY AckStep DEF OnceInvariant, AckInvariant, AccountingInvariant
<1>a. /\ mem.hid \in Nat /\ mem'.hid \in Nat /\ EventIds \subseteq Nat
      /\ \A q \in Requests : listing[q].next \in HistoryId /\ listing[q].page \subseteq EventIds
      /\ pc \in [Requests -> {"idle", "start", "list", "resync", "fetch", "hook", "record"}]
      /\ listing \in [Requests -> ListingType] /\ start \in [Requests -> Nat]
      /\ outcome \in [EventIds -> SUBSET Kinds]
  BY <1>0
  DEF TypeOK, StateTypeOK, StateType, RequestsTypeOK, ListingType, ObserverTypeOK, EventIds
<1>q. ASSUME NEW r \in Requests, pc[r] # "idle" PROVE up /\ ~(commands = 0 \/ cli # NoCommand)
  BY <1>0, <1>q DEF AckInvariant, AccountingInvariant, RequestsAreServed
\* Steps that tell the hook nothing.
<1>k. ASSUME \A e \in EventIds : \A mark \in HookMarks :
               mark \in outcome'[e] <=> mark \in outcome[e]
      PROVE  /\ AtMostOnce' /\ \A e \in EventIds : Hooked(e)' <=> Hooked(e)
             /\ \A id : Once(id) => \A e \in EventIds : Hooked(e)' => e <= id
  BY <1>k DEF HookMarks, OnceInvariant, AtMostOnce, Hooked, Once
\* A step of the request, under a server that goes on.
<1>h. ASSUME NEW r \in Requests, pc[r] # "idle", UNCHANGED <<up, cli, commands>>,
             mem.hid <= mem'.hid,
             \A e \in EventIds : \A mark \in HookMarks :
               mark \in outcome'[e] <=> mark \in outcome[e],
             ListsNew(r)'
      PROVE  OnceInvariant'
  <2>1. up /\ ~(commands = 0 \/ cli # NoCommand)
    BY <1>h, <1>q
  <2>2. \A e \in EventIds : Hooked(e)' => e <= mem.hid
    <3>1. Once(mem.hid)
      BY <2>1 DEF OnceInvariant
    <3>2. \A e \in EventIds : Hooked(e)' <=> Hooked(e)
      BY <1>h, <1>k
    <3> QED
      BY <3>1, <3>2 DEF Once
  <2>3. Once(mem.hid)'
    <3>1. \A e \in EventIds : e <= mem.hid => e <= mem'.hid
      BY <1>a, <1>h
    <3> QED
      BY <2>2, <3>1 DEF Once, Hooked
  <2> QED
    BY <1>0, <1>h, <1>k, <2>1, <2>3 DEF OnceInvariant
<1>i. ASSUME NEW r \in Requests, pc[r] # "idle", UNCHANGED <<up, cli, commands, mem>>,
             \A e \in EventIds : \A mark \in HookMarks :
               mark \in outcome'[e] <=> mark \in outcome[e],
             Reset(r)
      PROVE  OnceInvariant'
  BY <1>0, <1>a, <1>h, <1>i, ResetFacts DEF ListsNew
<1> USE DEF mailVars, requestVars, serverVars, countVars
\* Steps that only concern the mailbox, Pub/Sub or the command.
<1>1. CASE \/ MailboxChange \/ PruneHistory \/ Publish \/ UNCHANGED vars
           \/ \E n \in DOMAIN pushes : DeliverAgain(n)
  <2>1. UNCHANGED <<pc, start, listing, mem, up, disk, cli, commands, outcome>>
    BY <1>1 DEF MailboxChange, PruneHistory, Publish, DeliverAgain, vars
  <2> QED
    BY <1>0, <2>1 DEF OnceInvariant, AtMostOnce, Once, Hooked, ListsNew, Resynced
<1>2. ASSUME NEW r \in Requests, NEW n \in pending, ReceivePush(r, n) PROVE OnceInvariant'
  <2>1. /\ UNCHANGED <<start, listing, mem, up, disk, cli, commands, outcome>>
        /\ \A q \in Requests : pc'[q] = pc[q] \/ pc'[q] = "start"
    BY <1>a, <1>2 DEF ReceivePush, Goto
  <2>2. \A q \in Requests : ListsNew(q)'
    BY <2>1 DEF OnceInvariant, ListsNew, Once, Hooked, Resynced
  <2> QED
    BY <1>0, <2>1, <2>2 DEF OnceInvariant, AtMostOnce, Once, Hooked
<1>3. ASSUME NEW r \in Requests, StartFetch(r) PROVE OnceInvariant'
  <2> DEFINE hid == pushes[push[r]]
             id  == StartHistoryID(mem, hid)
  <2>1. /\ up /\ pc[r] = "start" /\ UNCHANGED <<up, cli, commands, outcome>> /\ mem.hid # NoId
    BY <1>0, <1>3 DEF StartFetch, AccountingInvariant, IdsFromMailbox, Events, NoId
  <2>2. UNCHANGED mem
    BY <1>3, <2>1 DEF StartFetch, SetsStoredID
  <2>3. CASE id # 0
    <3>1. /\ pc' = [pc EXCEPT ![r] = "list"] /\ start' = [start EXCEPT ![r] = mem.hid]
      BY <1>3, <2>1, <2>3 DEF StartFetch, Goto, StartHistoryID
    <3>2. Once(mem.hid)
      BY <2>1 DEF OnceInvariant
    <3>3. ListsNew(r)'
      BY <1>a, <2>1, <3>1, <3>2 DEF ListsNew, Once, Hooked
    <3> QED
      BY <1>a, <1>h, <2>1, <2>2, <3>3
  <2>4. CASE id = 0
    BY <1>3, <1>i, <2>1, <2>2, <2>4 DEF StartFetch, Accept, Reject
  <2> QED
    BY <2>3, <2>4
<1>4. ASSUME NEW r \in Requests, ListHistory(r) PROVE OnceInvariant'
  <2> DEFINE all  == Interesting(start[r], Latest)
             page == FirstPage(all)
             l    == [next |-> Latest, page |-> page, missed |-> all \ page, lost |-> "overflow"]
  <2>1. /\ pc[r] = "list" /\ Listed(r, l, FetchIDs(page))
        /\ UNCHANGED <<mem, up, cli, commands, outcome>>
    BY <1>4 DEF ListHistory
  <2>2. pc'[r] = "fetch" /\ listing'[r] = l
    BY <1>a, <2>1 DEF Listed, Goto
  <2>3. \A e \in page : e \in EventIds /\ start[r] < e /\ e <= Latest
    BY <1>0, EventsInRange DEF FirstPage, Interesting
  <2>4. l.page = page /\ l.next = Latest
    OBVIOUS
  <2> HIDE DEF l, page
  <2>5. ASSUME NEW e \in page, Hooked(e) PROVE FALSE
    <3>1. Once(start[r]) /\ start[r] \in Nat
      BY <1>a, <2>1 DEF OnceInvariant, ListsNew
    <3>2. e \in Nat /\ start[r] < e
      BY <1>a, <2>3
    <3>3. e <= start[r]
      BY <2>3, <2>5, <3>1 DEF Once
    <3> QED
      BY <3>1, <3>2, <3>3
  <2>6. ListsNew(r)'
    BY <2>1, <2>2, <2>3, <2>4, <2>5 DEF ListsNew, Hooked
  <2> QED
    BY <1>a, <1>h, <2>1, <2>6
<1>5. ASSUME NEW r \in Requests, HistoryStale(r) \/ ListRecent(r) \/ FetchMessage(r)
      PROVE  OnceInvariant'
  <2>1. pc[r] # "idle" /\ UNCHANGED <<mem, up, cli, commands, outcome>>
    BY <1>5 DEF HistoryStale, ListRecent, FetchMessage
  <2>2. ListsNew(r)'
    <3>1. CASE HistoryStale(r)
      BY <1>a, <3>1 DEF HistoryStale, Goto, ListsNew, Resynced, NoListing
    <3>2. CASE ListRecent(r)
      BY <1>a, <3>2 DEF ListRecent, Listed, Goto, OnceInvariant, ListsNew, Resynced
    <3>3. CASE FetchMessage(r)
      BY <1>a, <3>3 DEF FetchMessage, OnceInvariant, ListsNew, Hooked, Once, Resynced
    <3> QED
      BY <1>5, <3>1, <3>2, <3>3
  <2> QED
    BY <1>a, <1>h, <2>1, <2>2
<1>6. ASSUME NEW r \in Requests, AdvanceHistory(r) PROVE OnceInvariant'
  <2> DEFINE next == listing[r].next
  <2>1. /\ up /\ pc[r] = "fetch" /\ UNCHANGED <<up, cli, commands>>
        /\ mem' = UpdateStateAfterHistory(mem, next, push[r]) /\ next \in HistoryId
    BY <1>a, <1>6 DEF AdvanceHistory
  <2>2. mem.hid <= mem'.hid /\ next <= mem'.hid
    BY <1>a, <2>1
    DEF UpdateStateAfterHistory, ShouldUpdateHistoryID, Parses, HistoryId, NoId, BadId
  <2>3. \A e \in EventIds : \A mark \in HookMarks :
          mark \in outcome'[e] <=> mark \in outcome[e]
    <3>1. \A e : LeftBehind(r, e) \cap HookMarks = {}
      BY <1>a DEF LeftBehind, ListingType, HookMarks
    <3>2. \/ outcome' = [e \in EventIds |-> outcome[e] \cup LeftBehind(r, e)]
          \/ UNCHANGED outcome
      BY <1>6 DEF AdvanceHistory
    <3> QED
      BY <3>1, <3>2 DEF HookMarks
  <2>4. CASE Reset(r)
    BY <1>0, <1>a, <1>h, <2>1, <2>2, <2>3, <2>4, ResetFacts DEF ListsNew
  <2>5. CASE pc' = [pc EXCEPT ![r] = "hook"] /\ UNCHANGED listing
    <3>1. \A e \in listing[r].page :
            ~Resynced(r) => ~Hooked(e) /\ e \in EventIds /\ e <= next
      BY <1>a, <2>1 DEF OnceInvariant, ListsNew
    <3>2. \A e \in listing[r].page :
            ~Resynced(r) => ~Hooked(e)' /\ e <= mem'.hid
      <4>1. SUFFICES ASSUME NEW e \in listing[r].page, ~Resynced(r)
                     PROVE  ~Hooked(e)' /\ e <= mem'.hid
        OBVIOUS
      <4>2. e \in EventIds /\ e \in Nat /\ e <= next /\ ~Hooked(e)
        BY <1>a, <3>1, <4>1
      <4>3. ~Hooked(e)'
        BY <1>k, <2>3, <4>2
      <4> QED
        BY <1>a, <2>1, <2>2, <4>2, <4>3 DEF HistoryId, BadId
    <3>3. ListsNew(r)'
      BY <1>a, <2>5, <3>2 DEF ListsNew, Resynced
    <3> QED
      BY <1>h, <2>1, <2>2, <2>3, <3>3
  <2> QED
    BY <1>6, <2>4, <2>5 DEF AdvanceHistory, Accept, Goto
<1>7. ASSUME NEW r \in Requests, PostHook(r) PROVE OnceInvariant'
  <2>1. /\ pc[r] = "hook" /\ up /\ pc' = [pc EXCEPT ![r] = "record"]
        /\ UNCHANGED <<up, cli, commands, mem, disk, listing>>
    BY <1>7 DEF PostHook, Goto
  <2>2. PICK what \in {{"hooked"}, {"hookFailed"}, {"hooked", "hookFailed"}} :
          outcome' = [e \in EventIds |->
            outcome[e] \cup
              (IF e \in Carried(r) THEN what ELSE {}) \cup
              (IF e \in Carried(r) /\ Resynced(r) THEN {"resynced"} ELSE {}) \cup
              (IF e \in Carried(r) /\ "hooked" \in outcome[e] \cap what
                 THEN {"again"} ELSE {})]
    BY <1>7 DEF PostHook
  <2>3. Carried(r) \subseteq listing[r].page
    BY DEF Carried
  <2>4. \A e \in Carried(r) : ~Resynced(r) => ~Hooked(e) /\ e <= mem.hid
    BY <2>1, <2>3 DEF OnceInvariant, ListsNew
  <2>5. AtMostOnce'
    <3>1. SUFFICES ASSUME NEW e \in EventIds, "again" \in outcome'[e]
                   PROVE  "resynced" \in outcome'[e]
      BY DEF AtMostOnce
    <3>2. CASE "again" \in outcome[e]
      BY <2>2, <3>2 DEF OnceInvariant, AtMostOnce
    <3>3. CASE "again" \notin outcome[e]
      <4>1. e \in Carried(r) /\ "hooked" \in outcome[e]
        BY <2>2, <3>1, <3>3
      <4> QED
        BY <2>2, <2>4, <4>1 DEF Hooked
    <3> QED
      BY <3>2, <3>3
  <2>6. Once(mem.hid)'
    <3>1. SUFFICES ASSUME NEW e \in EventIds, Hooked(e)' PROVE e <= mem.hid
      BY <2>1 DEF Once
    <3>2. CASE e \in Carried(r)
      <4>1. ~Resynced(r)
        BY <2>2, <3>1, <3>2 DEF Hooked
      <4> QED
        BY <2>4, <3>2, <4>1
    <3>3. CASE e \notin Carried(r)
      BY <2>1, <2>2, <3>1, <3>3 DEF OnceInvariant, Once, Hooked
    <3> QED
      BY <3>2, <3>3
  <2>7. ListsNew(r)'
    BY <1>a, <2>1 DEF ListsNew
  <2> QED
    BY <1>0, <1>q, <2>1, <2>5, <2>6, <2>7 DEF OnceInvariant
<1>8. ASSUME NEW r \in Requests, Answer(r) \/ RecordDelivery(r) \/ CallFails(r)
      PROVE  OnceInvariant'
  <2>1. pc[r] # "idle" /\ Reset(r) /\ UNCHANGED <<up, cli, commands, mem>>
    BY <1>8 DEF Answer, RecordDelivery, CallFails, Accept, Reject
  <2>2. \A e \in EventIds : \A mark \in HookMarks :
          mark \in outcome'[e] <=> mark \in outcome[e]
    BY <1>8 DEF Answer, RecordDelivery, CallFails, HookMarks
  <2> QED
    BY <1>i, <2>1, <2>2
<1>9. CASE ServeStart
  <2>1. /\ ~up /\ disk.status = "ok" /\ up' /\ mem'.hid = disk.hid
        /\ UNCHANGED <<pc, listing, start, cli, commands>>
    BY <1>9 DEF ServeStart
  <2>2. \A e \in EventIds : \A mark \in HookMarks :
          mark \in outcome'[e] <=> mark \in outcome[e]
    BY <1>9 DEF ServeStart, HookMarks
  <2>3. \A q \in Requests : pc[q] = "idle"
    BY <1>0, <2>1 DEF AccountingInvariant, RequestsAreServed
  <2>4. Once(mem.hid)'
    BY <1>k, <2>1, <2>2 DEF OnceInvariant, Once
  <2> QED
    BY <1>0, <1>k, <2>1, <2>2, <2>3, <2>4 DEF OnceInvariant, ListsNew
<1>10. CASE ServeCrash
  <2>1. /\ up /\ up' = FALSE /\ UNCHANGED <<cli, commands>>
        /\ \A q \in Requests : pc'[q] = "idle"
        /\ disk' = disk \/ disk' = Torn
    BY <1>10 DEF ServeCrash
  <2>2. \A e \in EventIds : \A mark \in HookMarks :
          mark \in outcome'[e] <=> mark \in outcome[e]
    BY <1>10 DEF ServeCrash, HookMarks
  <2>3. disk'.status = "ok" => disk'.hid = mem.hid
    BY <1>0, <2>1 DEF AckInvariant, Torn
  <2>4. disk'.status = "ok" => Once(disk.hid)'
    BY <1>k, <2>1, <2>2, <2>3 DEF OnceInvariant, Once
  <2>5. ~(commands = 0 \/ cli # NoCommand)
    BY <1>0, <2>1 DEF AckInvariant
  <2> QED
    BY <1>0, <1>k, <2>1, <2>2, <2>4, <2>5 DEF OnceInvariant, ListsNew
<1>11. ASSUME NEW op \in {"start", "renew", "stop"}, CommandBegin(op) PROVE OnceInvariant'
  <2>1. commands = 0
    BY <1>0, <1>11 DEF CommandBegin, TypeOK, ObserverTypeOK
  <2> QED
    BY <1>0, <1>11, <2>1
    DEF CommandBegin, OnceInvariant, AtMostOnce, Once, Hooked, ListsNew, Resynced
<1>12. CASE CommandCall \/ CommandWrite \/ CommandRemove \/ CommandAbort
  <2>1. /\ cli # NoCommand /\ UNCHANGED <<up, mem, pc, start, listing, commands, outcome>>
    BY <1>12 DEF CommandCall, CommandWrite, CommandRemove, CommandAbort, NoCommand
  <2>2. ~up /\ commands # 0 /\ \A e \in EventIds : ~Hooked(e)
    BY <1>0, <2>1 DEF AckInvariant, OnceInvariant
  <2> QED
    BY <1>0, <2>1, <2>2 DEF OnceInvariant, AtMostOnce, Once, Hooked, ListsNew, Resynced
<1> QED
  BY <1>1, <1>2, <1>3, <1>4, <1>5, <1>6, <1>7, <1>8, <1>9, <1>10, <1>11, <1>12
  DEF Next, Serve, Step, Command, Environment

(* The hook gets each event at most once, unless a resync reported it, when   *)
(* pushes are served one at a time: repeated pushes, crashes between the call *)
(* of the hook and the answer to Pub/Sub, and failing calls repeat nothing    *)
(* but through the resync that a network failure of history.list leads to.    *)
THEOREM HookedAtMostOnce ==
  ASSUME \A q, r \in Requests : q = r, MaxCommands = 1, "save" \notin FaultKinds
  PROVE  Spec => []AtMostOnce
<1>1. OnceInvariant => AtMostOnce
  BY DEF OnceInvariant
<1> QED
  BY <1>1, InitOnce, OnceStep, PTL DEF Spec
=============================================================================
