-------------------------- MODULE SearchFetchProofs --------------------------
(***************************************************************************)
(* `gmail messages search` and `gmail search` keep their promises in       *)
(* SearchContract, for lists of any length, any number of concurrent calls *)
(* and any order of their results.                                         *)
(***************************************************************************)
EXTENDS SearchFetch, SequenceTheorems, FiniteSetTheorems, DataInduction

Entry == Ids \cup {NoId}

WorkerStates == {"none", "queued", "calling", "sent", "exited"}

\* While the workers run: an entry with an id has a worker, and what a worker
\* has answered is in the channel, in its place in `ordered`, or an error.
WorkersSound ==
  /\ worker \in [Entries -> WorkerStates] /\ answer \in [Entries -> {"none", "ok", "error"}]
  /\ ordered \in [Entries -> Entry] /\ channel \subseteq Entries
  /\ \A i \in Entries : worker[i] = "none" <=> listed[i] = NoId
  /\ \A i \in Entries : ordered[i] \in {NoId, listed[i]}
  /\ \A i \in Entries :
       worker[i] \in {"sent", "exited"} => i \in channel \/ hasErr \/ ordered[i] = listed[i]

\* The strengthening of NothingDropped that every step preserves.
SearchInvariant ==
  /\ kind \in {"threads", "messages"}
  /\ table \in Tables /\ (phase = "listing" => token \in Tokens)
  /\ listed \in Seq(Entry) /\ hasErr \in BOOLEAN
  /\ phase \in {"listing", "labels", "fetching", "checking", "done"}
  /\ phase = "checking" => kind = "threads"
  /\ phase = "done" <=> outcome # "running"
  /\ phase # "done" => output = <<>>
  /\ phase \in {"listing", "labels"} => worker = <<>> /\ channel = {}
  /\ phase \in {"fetching", "checking"} => WorkersSound
  /\ NothingDropped

---------------------------------------------------------------------------
\* f[n] is what WithId keeps of the first n entries of the list.
Prefixes(list, f) ==
  /\ f \in [0..Len(list) -> Seq(Ids)] /\ f[0] = <<>>
  /\ \A n \in 1..Len(list) : f[n] = IF HasId(list[n]) THEN Append(f[n - 1], list[n]) ELSE f[n - 1]
  /\ WithId(list) = f[Len(list)]

LEMMA WithIdPrefixes == ASSUME NEW list \in Seq(Entry) PROVE \E f : Prefixes(list, f)
<1> DEFINE add == [n \in Nat |-> [x \in Seq(Ids) |->
                    IF n < Len(list) /\ HasId(list[n + 1]) THEN Append(x, list[n + 1]) ELSE x]]
           Equation(g) == g = [n \in 0..Len(list) |->
                    IF n = 0 THEN <<>>
                    ELSE IF HasId(list[n]) THEN Append(g[n - 1], list[n]) ELSE g[n - 1]]
           upTo == CHOOSE g : Equation(g)
           T == {n \in Nat : n <= Len(list) => upTo[n] \in Seq(Ids)}
<1>0. Len(list) \in Nat /\ <<>> \in Seq(Ids)
  OBVIOUS
<1>1. \A n \in 1..Len(list) : HasId(list[n]) => list[n] \in Ids
  BY ElementOfSeq DEF HasId, Entry
<1>2. /\ add \in [Nat -> [Seq(Ids) -> Seq(Ids)]]
      /\ \A n \in 1..Len(list), x \in Seq(Ids) :
           add[n - 1][x] = IF HasId(list[n]) THEN Append(x, list[n]) ELSE x
  <2>1. ASSUME NEW n \in Nat, n < Len(list), HasId(list[n + 1]), NEW x \in Seq(Ids)
        PROVE  Append(x, list[n + 1]) \in Seq(Ids)
    BY <1>0, <1>1, <2>1, AppendProperties
  <2>2. add \in [Nat -> [Seq(Ids) -> Seq(Ids)]]
    BY <2>1
  <2> QED
    BY <1>0, <2>2
<1> HIDE DEF add
<1>3. PICK f \in [Nat -> Seq(Ids)] : Recursion(f, <<>>, add)
  BY <1>0, <1>2, RecursiveFunction
<1>4. Equation([n \in 0..Len(list) |-> f[n]])
  <2>1. ASSUME NEW n \in 1..Len(list)
        PROVE  f[n] = IF HasId(list[n]) THEN Append(f[n - 1], list[n]) ELSE f[n - 1]
    <3>1. n \in Nat /\ n # 0 /\ n - 1 \in Nat
      BY <1>0
    <3>2. f[n] = add[n - 1][f[n - 1]] /\ f[n - 1] \in Seq(Ids)
      BY <1>3, <3>1 DEF Recursion
    <3> QED
      BY <1>2, <3>2
  <2>2. f[0] = <<>> /\ \A n \in 0..Len(list) : n = 0 \/ n \in 1..Len(list)
    BY <1>0, <1>3 DEF Recursion
  <2>3. \A n \in 1..Len(list) : n - 1 \in 0..Len(list)
    BY <1>0
  <2> QED
    BY <2>1, <2>2, <2>3
<1>5. Equation(upTo)
  <2> HIDE DEF Equation
  <2> QED
    BY <1>4
<1> HIDE DEF upTo
<1>6. upTo[0] = <<>> /\ 0 \in T
  BY <1>0, <1>5
<1>7. ASSUME NEW n \in 1..Len(list)
      PROVE  upTo[n] = IF HasId(list[n]) THEN Append(upTo[n - 1], list[n]) ELSE upTo[n - 1]
  <2>1. n \in 0..Len(list) /\ n # 0
    BY <1>0
  <2> QED
    BY <1>5, <2>1
<1>8. ASSUME NEW n \in Nat, n \in T PROVE n + 1 \in T
  <2> SUFFICES ASSUME n + 1 <= Len(list) PROVE upTo[n + 1] \in Seq(Ids)
    OBVIOUS
  <2>1. upTo[n] \in Seq(Ids) /\ n + 1 \in 1..Len(list) /\ (n + 1) - 1 = n
    BY <1>0, <1>8
  <2>2. upTo[n + 1] = IF HasId(list[n + 1]) THEN Append(upTo[n], list[n + 1]) ELSE upTo[n]
    BY <1>7, <2>1
  <2> QED
    BY <1>1, <2>1, <2>2, AppendProperties
<1>9. Nat \subseteq T
  <2> HIDE DEF T
  <2> QED
    BY <1>6, <1>8, SetInduction
<1>10. upTo \in [0..Len(list) -> Seq(Ids)]
  <2>1. \A n \in 0..Len(list) : n \in Nat /\ n <= Len(list)
    BY <1>0
  <2>2. \A n \in 0..Len(list) : upTo[n] \in Seq(Ids)
    BY <1>9, <2>1
  <2>3. upTo = [n \in 0..Len(list) |-> upTo[n]]
    BY <1>5
  <2> QED
    BY <2>2, <2>3
<1>11. WithId(list) = upTo[Len(list)]
  BY DEF WithId, upTo
<1> QED
  BY <1>6, <1>7, <1>10, <1>11 DEF Prefixes

\* Leaving the entries without an id out of a list leaves ids.
LEMMA WithIdType == ASSUME NEW list \in Seq(Entry) PROVE WithId(list) \in Seq(Ids)
<1>1. PICK f : Prefixes(list, f)
  BY WithIdPrefixes
<1> QED
  BY <1>1 DEF Prefixes

\* at gives the places in the list of the entries of out: in their order, and
\* each of those that have an id.
Selects(at, list, n, out) ==
  /\ at \in [1..Len(out) -> 1..n]
  /\ \A j, k \in 1..Len(out) : j < k => at[j] < at[k]
  /\ \A k \in 1..Len(out) : HasId(list[at[k]]) /\ out[k] = list[at[k]]
  /\ \A i \in 1..n : HasId(list[i]) => \E k \in 1..Len(out) : at[k] = i

LEMMA WithIdExact ==
  ASSUME NEW list \in Seq(Entry)
  PROVE  \E at : Selects(at, list, Len(list), WithId(list))
<1>1. PICK f : Prefixes(list, f)
  BY WithIdPrefixes
<1> DEFINE T == {n \in Nat : n <= Len(list) => \E at : Selects(at, list, n, f[n])}
<1>2. Len(list) \in Nat
  OBVIOUS
<1>3. \E at : Selects(at, list, 0, f[0])
  <2>1. Selects([k \in {} |-> 0], list, 0, <<>>)
    BY DEF Selects
  <2> QED
    BY <1>1, <2>1 DEF Prefixes
<1>4. ASSUME NEW n \in Nat, n + 1 <= Len(list), NEW at, Selects(at, list, n, f[n])
      PROVE  \E more : Selects(more, list, n + 1, f[n + 1])
  <2>1. /\ n \in 0..Len(list) /\ n + 1 \in 1..Len(list) /\ (n + 1) - 1 = n
        /\ f[n] \in Seq(Ids) /\ Len(f[n]) \in Nat
    BY <1>1, <1>2, <1>4 DEF Prefixes
  <2>2. CASE HasId(list[n + 1])
    <3> DEFINE len == Len(f[n])
               more == [k \in 1..(len + 1) |-> IF k <= len THEN at[k] ELSE n + 1]
               out == f[n + 1]
    <3>1. out = Append(f[n], list[n + 1]) /\ list[n + 1] \in Ids
      <4>1. list[n + 1] \in Ids
        BY <2>1, <2>2, ElementOfSeq DEF HasId, Entry
      <4> QED
        BY <1>1, <2>1, <2>2, <4>1 DEF Prefixes
    <3>2. /\ Len(out) = len + 1 /\ out[len + 1] = list[n + 1]
          /\ \A k \in 1..len : out[k] = f[n][k]
      BY <2>1, <3>1, AppendProperties
    <3>3. \A k \in 1..(len + 1) : k \in 1..len \/ k = len + 1
      BY <2>1
    <3>4. \A k \in 1..len : more[k] = at[k] /\ at[k] \in 1..n
      BY <1>4, <2>1 DEF Selects
    <3>5. more[len + 1] = n + 1
      BY <2>1
    <3> HIDE DEF more, out
    <3>6. more \in [1..Len(out) -> 1..(n + 1)]
      <4>1. \A k \in 1..(len + 1) : more[k] \in 1..(n + 1)
        BY <2>1, <3>3, <3>4, <3>5
      <4>2. more \in [1..(len + 1) -> 1..(n + 1)]
        BY <4>1 DEF more
      <4> QED
        BY <3>2, <4>2
    <3>7. \A j, k \in 1..Len(out) : j < k => more[j] < more[k]
      BY <1>4, <2>1, <3>2, <3>3, <3>4, <3>5 DEF Selects
    <3>8. \A k \in 1..Len(out) : HasId(list[more[k]]) /\ out[k] = list[more[k]]
      BY <1>4, <2>2, <3>2, <3>3, <3>4, <3>5 DEF Selects
    <3>9. \A i \in 1..(n + 1) : HasId(list[i]) => \E k \in 1..Len(out) : more[k] = i
      <4> TAKE i \in 1..(n + 1)
      <4> HAVE HasId(list[i])
      <4>1. CASE i = n + 1
        BY <2>1, <3>2, <3>5, <4>1
      <4>2. CASE i # n + 1
        <5>1. PICK k \in 1..len : at[k] = i
          BY <1>4, <4>2 DEF Selects
        <5>2. k \in 1..Len(out) /\ more[k] = i
          BY <2>1, <3>2, <3>4, <5>1
        <5> QED
          BY <5>2
      <4> QED
        BY <4>1, <4>2
    <3> QED
      BY <3>6, <3>7, <3>8, <3>9 DEF Selects, out
  <2>3. CASE ~HasId(list[n + 1])
    <3>1. f[n + 1] = f[n]
      BY <1>1, <2>1, <2>3 DEF Prefixes
    <3>2. Selects(at, list, n + 1, f[n])
      <4>1. \A i \in 1..(n + 1) : i \in 1..n \/ i = n + 1
        OBVIOUS
      <4>2. 1..n \subseteq 1..(n + 1)
        OBVIOUS
      <4> QED
        BY <1>4, <2>3, <4>1, <4>2 DEF Selects
    <3> QED
      BY <3>1, <3>2
  <2> QED
    BY <2>2, <2>3
<1>5. 0 \in T
  BY <1>3
<1>6. ASSUME NEW n \in Nat, n \in T PROVE n + 1 \in T
  <2> SUFFICES ASSUME n + 1 <= Len(list) PROVE \E at : Selects(at, list, n + 1, f[n + 1])
    OBVIOUS
  <2>1. PICK at : Selects(at, list, n, f[n])
    BY <1>2, <1>6
  <2> QED
    BY <1>4, <2>1
<1>7. Nat \subseteq T
  <2> HIDE DEF T
  <2> QED
    BY <1>5, <1>6, SetInduction
<1>8. WithId(list) = f[Len(list)]
  BY <1>1 DEF Prefixes
<1>9. \E at : Selects(at, list, Len(list), f[Len(list)])
  BY <1>2, <1>7
<1> QED
  BY <1>8, <1>9

---------------------------------------------------------------------------
LEMMA InitSound == Init => SearchInvariant
<1>1. <<>> \in Seq(Entry)
  OBVIOUS
<1> QED
  BY <1>1 DEF Init, SearchInvariant, NothingDropped, Complete

\* A page adds entries to the list, or ends the search.
LEMMA FetchPageSound ==
  ASSUME SearchInvariant, FetchPage
  PROVE  SearchInvariant' /\ [Contract!Next]_<<kind, listed, output, outcome>>
<1> USE DEF SearchInvariant, FetchPage
<1>1. table[token].items \in Seq(Entry) /\ table[token].next \in Tokens \cup {End}
  BY SearchAssumption DEF Entry
<1>2. /\ listed \o table[token].items \in Seq(Entry)
      /\ Len(listed \o table[token].items) >= Len(listed)
      /\ \A k \in 1..Len(listed) : (listed \o table[token].items)[k] = listed[k]
  BY <1>1
<1>3. CASE Fail /\ UNCHANGED listVars
  BY <1>3 DEF Fail, listVars, workerVars, NothingDropped, Complete, Contract!Fail, Contract!Next
<1> USE DEF NothingDropped, Complete, Contract!Next, Contract!List, Entry, workerVars
<1>4. CASE /\ listed' = listed \o table[token].items /\ token' = table[token].next
           /\ table[token].next # End /\ UNCHANGED <<phase, output, outcome>>
  BY <1>1, <1>2, <1>4
<1>5. CASE /\ listed' = listed \o table[token].items
           /\ phase' = "labels" /\ UNCHANGED <<output, outcome>>
  BY <1>2, <1>5
<1>6. CASE listed' = <<>> /\ listed' = listed \o table[token].items /\ NoResults
  <2>1. listed = <<>>
    BY <1>1, <1>6, ConcatEqualIffEmpty
  <2> QED
    BY <1>2, <1>6, <2>1 DEF NoResults, Contract!Empty
<1> QED
  BY <1>3, <1>4, <1>5, <1>6 DEF LastPage

\* The workers keep WorkersSound; they do not touch the result.
LEMMA WorkSound ==
  ASSUME SearchInvariant, NEW i \in DOMAIN worker, Work(i)
  PROVE  SearchInvariant' /\ UNCHANGED <<kind, listed, output, outcome>>
<1> USE DEF SearchInvariant, WorkerStates, NothingDropped, Complete
<1>1. phase \notin {"listing", "labels"}
  BY DEF Work
<1>2. /\ UNCHANGED <<kind, table, phase, listVars, hasErr, output, outcome, ordered>>
      /\ WorkersSound => WorkersSound'
  <2>1. CASE Acquire(i)
    BY <2>1 DEF Acquire, WorkersSound, Entries, listVars
  <2>2. CASE GiveUp(i)
    BY <2>2 DEF GiveUp, Post, WorkersSound, Entries, listVars
  <2>3. CASE Call(i)
    BY <2>3 DEF Call, Post, WorkersSound, Entries, listVars
  <2>4. CASE Exit(i)
    BY <2>4 DEF Exit, WorkersSound, Entries, listVars
  <2> QED
    BY <2>1, <2>2, <2>3, <2>4 DEF Work
<1> QED
  BY <1>1, <1>2 DEF listVars

\* Receiving a result puts it into its place.
LEMMA ReceiveSound ==
  ASSUME SearchInvariant, Receive
  PROVE  SearchInvariant' /\ UNCHANGED <<kind, listed, output, outcome>>
<1> USE DEF SearchInvariant, WorkerStates, NothingDropped, Complete, Receive, listVars
<1>1. WorkersSound
  OBVIOUS
<1>2. PICK i \in channel :
        /\ channel' = channel \ {i}
        /\ IF answer[i] = "ok" THEN ordered' = Place(i) /\ UNCHANGED hasErr
           ELSE hasErr' = TRUE /\ UNCHANGED ordered
  OBVIOUS
<1>3. i \in Entries /\ listed[i] \in Entry
  BY <1>1, ElementOfSeq DEF WorkersSound, Entries
<1>4. WorkersSound'
  <2>1. CASE answer[i] = "ok"
    BY <1>1, <1>2, <1>3, <2>1 DEF WorkersSound, Entries, Place
  <2>2. CASE answer[i] # "ok"
    BY <1>1, <1>2, <2>2 DEF WorkersSound, Entries
  <2> QED
    BY <2>1, <2>2
<1> QED
  BY <1>2, <1>4

LEMMA StartWorkersSound ==
  ASSUME SearchInvariant, StartWorkers
  PROVE  SearchInvariant' /\ [Contract!Next]_<<kind, listed, output, outcome>>
<1> USE DEF SearchInvariant, StartWorkers, NothingDropped, Complete, listVars
<1>1. CASE Fail /\ UNCHANGED <<worker, answer, ordered>>
  BY <1>1 DEF Fail, Contract!Fail, Contract!Next
<1>2. CASE /\ phase' = "fetching" /\ UNCHANGED <<output, outcome>>
           /\ worker' = [i \in Entries |-> IF HasId(listed[i]) THEN "queued" ELSE "none"]
           /\ answer' = [i \in Entries |-> "none"]
           /\ ordered' = [i \in Entries |-> NoId]
  <2>1. WorkersSound'
    BY <1>2 DEF WorkersSound, WorkerStates, Entries, HasId, Entry
  <2> QED
    BY <1>2, <2>1
<1> QED
  BY <1>1, <1>2

\* What has been received is put out in the order of the listing, which is what
\* the contract allows a search for threads.
LEMMA PutOutSound ==
  ASSUME SearchInvariant, phase \in {"fetching", "checking"},
         Finish(WithId(ordered)),
         UNCHANGED <<kind, table, token, listed>>, UNCHANGED hasErr,
         kind = "messages" => ordered = listed
  PROVE  SearchInvariant' /\ [Contract!Next]_<<kind, listed, output, outcome>>
<1>1. phase' = "done" /\ outcome' = "ok" /\ output' = WithId(ordered)
  BY DEF Finish
<1>2. WorkersSound /\ listed \in Seq(Entry)
  BY DEF SearchInvariant
<1>3. Entries = 1..Len(listed)
  BY <1>2, LenProperties DEF Entries
<1>4. kind = "messages" => output' = WithId(listed)
  BY <1>1, Zenon
<1>5. NothingDropped'
  BY <1>1, <1>4 DEF NothingDropped, Complete
<1>6. Contract!Answer
  <2>1. ordered \in [1..Len(listed) -> (Ids \cup {NoId}) \cup {NoId}]
    BY <1>2, <1>3 DEF WorkersSound, Entry
  <2>2. \A k \in 1..Len(listed) : ordered[k] \in {NoId, listed[k]}
    BY <1>2, <1>3 DEF WorkersSound
  <2>3. output' = Contract!WithId(ordered)
    BY <1>1 DEF Contract!WithId, WithId, HasId
  <2>4. outcome = "running"
    BY DEF SearchInvariant
  <2> QED
    BY <1>1, <2>1, <2>2, <2>3, <2>4 DEF Contract!Answer
<1> QED
  BY <1>1, <1>5, <1>6 DEF SearchInvariant, Contract!Next

\* When all results are in and none is an error, every entry is in its place.
LEMMA CollectedSound ==
  ASSUME SearchInvariant, Collected
  PROVE  SearchInvariant' /\ [Contract!Next]_<<kind, listed, output, outcome>>
<1>0. UNCHANGED <<kind, table, token, listed, hasErr, workerVars, ordered>>
  BY DEF Collected, listVars
<1>1. CASE Fail
  BY <1>0, <1>1 DEF Fail, Contract!Fail, Contract!Next, SearchInvariant, NothingDropped, Complete, Collected
<1>2. CASE ThreadRecheck /\ phase' = "checking" /\ UNCHANGED <<output, outcome>>
  BY <1>0, <1>2 DEF ThreadRecheck, SearchInvariant, NothingDropped, Complete, WorkersSound,
     Entries, workerVars, Collected
<1>3. CASE ~MessageError /\ ~ThreadRecheck /\ Finish(WithId(ordered))
  <2>1. WorkersSound /\ ~hasErr /\ AllReceived /\ phase = "fetching"
    BY <1>3 DEF MessageError, ThreadRecheck, SearchInvariant, Collected
  <2>2. \A i \in Entries : ordered[i] = listed[i]
    BY <2>1 DEF WorkersSound, AllReceived
  <2>3. ordered = listed
    <3>1. listed = [i \in Entries |-> listed[i]]
      BY LenProperties DEF Entries, SearchInvariant
    <3>2. ordered = [i \in Entries |-> ordered[i]]
      BY <2>1 DEF WorkersSound
    <3> QED
      BY <2>2, <3>1, <3>2
  <2> QED
    BY <1>0, <1>3, <2>1, <2>3, PutOutSound
<1> QED
  BY <1>1, <1>2, <1>3 DEF Collected

\* The second round of a thread search goes on, fails, or puts out what the
\* first one has fetched.
LEMMA CheckingSound ==
  ASSUME SearchInvariant, CheckThread \/ AllChecked
  PROVE  SearchInvariant' /\ [Contract!Next]_<<kind, listed, output, outcome>>
<1>0. /\ UNCHANGED <<kind, table, token, listed, hasErr, workerVars, ordered>>
      /\ phase = "checking" /\ kind = "threads"
  BY DEF CheckThread, AllChecked, listVars, SearchInvariant
<1>1. CASE Fail
  BY <1>0, <1>1 DEF Fail, Contract!Fail, Contract!Next, SearchInvariant, NothingDropped, Complete
<1>2. CASE UNCHANGED <<phase, output, outcome>>
  BY <1>0, <1>2 DEF SearchInvariant, NothingDropped, Complete, WorkersSound, Entries, workerVars
<1>3. CASE AllChecked
  BY <1>0, <1>3, PutOutSound DEF AllChecked
<1> QED
  BY <1>1, <1>2, <1>3 DEF CheckThread

\* Every step keeps the invariant and the contract.
LEMMA NextSound ==
  ASSUME SearchInvariant, [Next]_vars
  PROVE  SearchInvariant' /\ [Contract!Next]_<<kind, listed, output, outcome>>
<1>1. CASE FetchPage
  BY <1>1, FetchPageSound
<1>2. CASE StartWorkers
  BY <1>2, StartWorkersSound
<1>3. CASE Receive
  BY <1>3, ReceiveSound
<1>4. CASE Collected
  BY <1>4, CollectedSound
<1>5. CASE CheckThread \/ AllChecked
  BY <1>5, CheckingSound
<1>6. CASE Cancel
  BY <1>6 DEF Cancel, SearchInvariant, NothingDropped, Complete, WorkersSound, Entries, listVars, workerVars
<1>7. ASSUME NEW i \in DOMAIN worker, Work(i)
      PROVE  SearchInvariant' /\ [Contract!Next]_<<kind, listed, output, outcome>>
  BY <1>7, WorkSound
<1>8. CASE UNCHANGED vars
  BY <1>8 DEF vars, SearchInvariant, NothingDropped, Complete, WorkersSound, Entries, listVars, workerVars
<1> QED
  BY <1>1, <1>2, <1>3, <1>4, <1>5, <1>6, <1>7, <1>8 DEF Next, Main

---------------------------------------------------------------------------
(* A message search that succeeds puts out every message it listed, in order. *)
THEOREM MessagesNotDropped == Spec => []NothingDropped
<1>1. SearchInvariant => NothingDropped
  BY DEF SearchInvariant
<1> QED
  BY <1>1, InitSound, NextSound, PTL DEF Spec

(* Either search implements SearchContract, concurrency and all: messages are *)
(* put out without a gap, threads in their order, or the command fails.       *)
THEOREM SearchKeepsContract == Spec => KeepsContract
<1>1. Init => Contract!Init
  BY DEF Init, Contract!Init
<1> QED
  BY <1>1, InitSound, NextSound, PTL DEF Spec, KeepsContract, Contract!Spec

---------------------------------------------------------------------------
(* The listing.                                                            *)

LEMMA TokenAtEquation ==
  ASSUME table \in Tables, start \in Tokens
  PROVE  /\ TokenAt[0] = start
         /\ \A n \in Nat : /\ TokenAt[n] \in Tokens \cup {End}
                           /\ TokenAt[n + 1] = IF TokenAt[n] = End THEN End
                                               ELSE table[TokenAt[n]].next
<1> DEFINE S == Tokens \cup {End}
           follow == [n \in Nat |-> [t \in S |-> IF t = End THEN End ELSE table[t].next]]
           Equation(g) == g = [n \in Nat |-> IF n = 0 THEN start
                                ELSE IF g[n - 1] = End THEN End ELSE table[g[n - 1]].next]
           T == {n \in Nat : TokenAt[n] \in S}
<1>0. start \in S /\ \A t \in Tokens : table[t].next \in S
  BY SearchAssumption
<1>1. /\ follow \in [Nat -> [S -> S]]
      /\ \A n \in Nat, t \in S : follow[n][t] = IF t = End THEN End ELSE table[t].next
  BY <1>0
<1> HIDE DEF follow, S
<1>2. PICK f \in [Nat -> S] : Recursion(f, start, follow)
  BY <1>0, <1>1, RecursiveFunction
<1>3. Equation(f)
  <2>1. \A n \in Nat : n # 0 => n - 1 \in Nat /\ f[n - 1] \in S
    BY <1>2
  <2>2. \A n \in Nat : n # 0 => follow[n - 1][f[n - 1]]
                                = IF f[n - 1] = End THEN End ELSE table[f[n - 1]].next
    BY <1>1, <2>1
  <2> QED
    BY <1>2, <2>2 DEF Recursion
<1>4. Equation(TokenAt)
  <2>1. TokenAt = CHOOSE g : Equation(g)
    BY DEF TokenAt
  <2> HIDE DEF Equation
  <2> QED
    BY <1>3, <2>1
<1>5. /\ TokenAt[0] = start
      /\ \A n \in Nat : TokenAt[n + 1] = IF TokenAt[n] = End THEN End ELSE table[TokenAt[n]].next
  BY <1>4
<1>6. 0 \in T /\ \A n \in Nat : n \in T => n + 1 \in T
  BY <1>0, <1>5 DEF S
<1>7. Nat \subseteq T
  <2> HIDE DEF T
  <2> QED
    BY <1>6, SetInduction
<1> QED
  BY <1>5, <1>7 DEF S

LEMMA ListedUpToEquation ==
  ASSUME table \in Tables, start \in Tokens
  PROVE  /\ ListedUpTo[0] = <<>>
         /\ \A n \in Nat : TokenAt[n] # End =>
              ListedUpTo[n + 1] = ListedUpTo[n] \o table[TokenAt[n]].items
<1> DEFINE Items(n) == IF TokenAt[n] = End THEN <<>> ELSE table[TokenAt[n]].items
           append == [n \in Nat |-> [l \in Seq(Entry) |-> l \o Items(n)]]
           Equation(g) == g = [n \in Nat |-> IF n = 0 THEN <<>> ELSE g[n - 1] \o
             (IF TokenAt[n - 1] = End THEN <<>> ELSE table[TokenAt[n - 1]].items)]
<1>0. \A n \in Nat : Items(n) \in Seq(Entry)
  <2>1. \A n \in Nat : TokenAt[n] \in Tokens \cup {End}
    BY TokenAtEquation
  <2>2. \A t \in Tokens : table[t].items \in Seq(Entry)
    BY SearchAssumption DEF Entry
  <2> QED
    BY <2>1, <2>2, EmptySeq
<1> HIDE DEF Items
<1>1. /\ append \in [Nat -> [Seq(Entry) -> Seq(Entry)]]
      /\ \A n \in Nat, l \in Seq(Entry) : append[n][l] = l \o Items(n)
  BY <1>0, ConcatProperties
<1> HIDE DEF append
<1>2. PICK f \in [Nat -> Seq(Entry)] : Recursion(f, <<>>, append)
  BY <1>1, EmptySeq, RecursiveFunction
<1>3. Equation(f)
  <2>1. \A n \in Nat : n # 0 => n - 1 \in Nat /\ f[n - 1] \in Seq(Entry)
    BY <1>2
  <2>2. \A n \in Nat : n # 0 => append[n - 1][f[n - 1]] = f[n - 1] \o Items(n - 1)
    BY <1>1, <2>1
  <2> QED
    BY <1>2, <2>2 DEF Recursion, Items
<1>4. Equation(ListedUpTo)
  <2>1. ListedUpTo = CHOOSE g : Equation(g)
    BY DEF ListedUpTo
  <2> HIDE DEF Equation
  <2> QED
    BY <1>3, <2>1
<1>5. ListedUpTo[0] = <<>>
  BY <1>4
<1>6. ASSUME NEW n \in Nat, TokenAt[n] # End
      PROVE  ListedUpTo[n + 1] = ListedUpTo[n] \o table[TokenAt[n]].items
  <2>1. n + 1 \in Nat /\ n + 1 # 0 /\ (n + 1) - 1 = n
    OBVIOUS
  <2> QED
    BY <1>4, <1>6, <2>1
<1> QED
  BY <1>5, <1>6

LEMMA SamePages ==
  ASSUME UNCHANGED <<table, start>>
  PROVE  TokenAt' = TokenAt /\ ListedUpTo' = ListedUpTo
<1>1. TokenAt' = TokenAt
  BY DEF TokenAt
<1> QED
  BY <1>1 DEF ListedUpTo

\* The pages fetched are the first ones, and the search goes on behind them.
ListingInvariant ==
  /\ table \in Tables /\ start \in Tokens /\ pages \in Nat
  /\ phase = "listing" => token \in Tokens
  /\ token = TokenAt[pages] /\ listed = ListedUpTo[pages]
  /\ phase = "done" <=> outcome # "running"
  /\ all /\ phase # "listing" /\ outcome # "error" => token = End

LEMMA ListingInitially == Init => ListingInvariant
  BY TokenAtEquation, ListedUpToEquation DEF Init, ListingInvariant

LEMMA ListingKept ==
  ASSUME ListingInvariant, [Next]_vars
  PROVE  ListingInvariant'
<1> USE DEF ListingInvariant
<1>1. CASE FetchPage
  <2>0. UNCHANGED <<table, start, all>> /\ phase = "listing"
    BY <1>1 DEF FetchPage
  <2>1. CASE Fail /\ UNCHANGED listVars
    BY <2>0, <2>1, SamePages DEF Fail, listVars
  <2>2. CASE /\ listed' = listed \o table[token].items
             /\ pages' = pages + 1 /\ token' = table[token].next
             /\ \/ ~LastPage(table[token]) /\ UNCHANGED <<phase, output, outcome>>
                \/ LastPage(table[token]) /\ phase' = "labels" /\ UNCHANGED <<output, outcome>>
                \/ LastPage(table[token]) /\ NoResults
    <3>1. token \in Tokens /\ token # End /\ table[token].next \in Tokens \cup {End}
      BY <2>0, SearchAssumption
    <3>2. token' = TokenAt[pages'] /\ listed' = ListedUpTo[pages']
      BY <2>2, <3>1, TokenAtEquation, ListedUpToEquation
    <3>3. token' = TokenAt'[pages'] /\ listed' = ListedUpTo'[pages']
      BY <2>0, <3>2, SamePages
    <3> QED
      BY <2>0, <2>2, <3>1, <3>3 DEF LastPage, NoResults
  <2> QED
    BY <1>1, <2>1, <2>2 DEF FetchPage
<1>2. ASSUME UNCHANGED <<table, start, all, listVars>>, phase # "listing",
             phase' # "listing", phase' = "done" <=> outcome' # "running",
             outcome = "error" => outcome' = "error"
      PROVE  ListingInvariant'
  BY <1>2, SamePages DEF listVars
<1>3. CASE StartWorkers \/ Receive \/ Collected \/ CheckThread \/ AllChecked
  BY <1>2, <1>3 DEF StartWorkers, Receive, Collected, CheckThread, AllChecked, Fail, Finish
<1>4. ASSUME UNCHANGED <<table, start, all, listVars, phase, outcome>> PROVE ListingInvariant'
  BY <1>4, SamePages DEF listVars
<1>5. CASE Cancel
  BY <1>4, <1>5 DEF Cancel
<1>6. ASSUME NEW i \in DOMAIN worker, Work(i) PROVE ListingInvariant'
  BY <1>4, <1>6 DEF Work, Acquire, GiveUp, Call, Exit
<1>7. CASE UNCHANGED vars
  BY <1>4, <1>7 DEF vars
<1> QED
  BY <1>1, <1>3, <1>5, <1>6, <1>7 DEF Next, Main

(* With --all a search that ends well has listed every page from the first on *)
(* to one without a successor, also empty ones, for every list of pages a     *)
(* server may have and wherever the search starts in it.                      *)
THEOREM EveryPageIsListed == Spec => []AllPagesListed
<1>1. ListingInvariant => AllPagesListed
  BY DEF ListingInvariant, AllPagesListed
<1> QED
  BY <1>1, ListingInitially, ListingKept, PTL DEF Spec

\* The tokens remembered are those of the pages fetched, which are all different.
PagesDiffer ==
  /\ ListingInvariant /\ NoPageTwice
  /\ seen = {TokenAt[i] : i \in 0..(pages - 1)}
  /\ phase = "listing" /\ ~all => pages = 0

LEMMA NextPageDiffers ==
  ASSUME PagesDiffer, phase = "listing", all => token \notin seen,
         UNCHANGED <<table, start, all>>, ListingInvariant', seen' = seen \cup {token},
         pages' = pages + 1, ~LastPage(table[token]) \/ phase' # "listing"
  PROVE  PagesDiffer'
<1>1. pages \in Nat /\ token = TokenAt[pages] /\ TokenAt' = TokenAt
  BY SamePages DEF PagesDiffer, ListingInvariant
<1>2. token \notin seen
  <2>1. CASE ~all
    BY <2>1 DEF PagesDiffer
  <2> QED
    BY <2>1
<1>3. 0..(pages' - 1) = 0..(pages - 1) \cup {pages}
  BY <1>1
<1>4. \A i \in 0..(pages - 1) : TokenAt[i] # TokenAt[pages]
  BY <1>1, <1>2 DEF PagesDiffer
<1>5. NoPageTwice'
  BY <1>1, <1>3, <1>4 DEF PagesDiffer, NoPageTwice
<1>6. seen' = {TokenAt'[i] : i \in 0..(pages' - 1)}
  BY <1>1, <1>3 DEF PagesDiffer
<1> QED
  BY <1>5, <1>6 DEF PagesDiffer, LastPage

(* No page is fetched twice, with or without --all, whatever tokens the       *)
(* server gives: circles are found out, be they as short as one page.         *)
THEOREM NoPageIsFetchedTwice == Spec => []NoPageTwice
<1>1. Init => PagesDiffer
  BY ListingInitially DEF Init, PagesDiffer, NoPageTwice
<1>2. ASSUME PagesDiffer, FetchPage, ListingInvariant' PROVE PagesDiffer'
  <2>1. CASE Fail /\ UNCHANGED listVars
    BY <1>2, <2>1, SamePages DEF Fail, listVars, FetchPage, PagesDiffer, NoPageTwice
  <2>2. CASE /\ all => token \notin seen
             /\ seen' = NoteToken /\ pages' = pages + 1
             /\ ~LastPage(table[token]) \/ phase' \in {"labels", "done"}
    BY <1>2, <2>2, NextPageDiffers DEF FetchPage, NoteToken
  <2> QED
    BY <1>2, <2>1, <2>2 DEF FetchPage, NoResults
<1>3. ASSUME PagesDiffer, [Next]_vars, ~FetchPage, ListingInvariant' PROVE PagesDiffer'
  <2>1. UNCHANGED <<table, start, all, seen, pages>> /\ (phase' = "listing" => phase = "listing")
    <3>1. CASE StartWorkers \/ Receive \/ Collected \/ CheckThread \/ AllChecked \/ Cancel
      BY <3>1 DEF StartWorkers, Receive, Collected, CheckThread, AllChecked, Cancel, Fail,
                  Finish, listVars
    <3>2. ASSUME NEW i \in DOMAIN worker, Work(i)
          PROVE  UNCHANGED <<table, start, all, seen, pages, phase>>
      BY <3>2 DEF Work, Acquire, GiveUp, Call, Exit, listVars
    <3>3. CASE UNCHANGED vars
      BY <3>3 DEF vars, listVars
    <3> QED
      BY <1>3, <3>1, <3>2, <3>3 DEF Next, Main
  <2> QED
    BY <1>3, <2>1, SamePages DEF PagesDiffer, NoPageTwice
<1>4. PagesDiffer /\ [Next]_vars => PagesDiffer'
  BY <1>2, <1>3, ListingKept DEF PagesDiffer
<1>5. PagesDiffer => NoPageTwice
  BY DEF PagesDiffer
<1> QED
  BY <1>1, <1>4, <1>5, PTL DEF Spec

---------------------------------------------------------------------------
(* Types.                                                                  *)

\* What TypeOK leaves open and a step needs of it.
TypeInvariant ==
  /\ TypeOK
  /\ phase \in {"listing", "labels"} => worker = <<>> /\ channel = {} /\ checked = 0

\* The end of the search, with what has been received or with nothing.
LEMMA PutOutType ==
  ASSUME SearchInvariant, phase \in {"fetching", "checking"}
  PROVE  WithId(ordered) \in Seq(Ids)
<1>1. ordered \in [1..Len(listed) -> Entry] /\ Len(listed) \in Nat
  BY LenProperties DEF SearchInvariant, WorkersSound, Entries
<1>2. ordered \in Seq(Entry)
  BY <1>1
<1> QED
  BY <1>2, WithIdType

LEMMA TypesInitially == Init => TypeInvariant
<1> SUFFICES ASSUME Init PROVE TypeInvariant
  OBVIOUS
<1>1. /\ listed \in Seq(Ids \cup {NoId}) /\ checked \in 0..Len(listed)
      /\ output \in Seq(Ids) /\ pages \in Nat
  BY DEF Init
<1>2. /\ DOMAIN worker = {} /\ worker \in [{} -> WorkerStates]
      /\ answer \in [{} -> {"none", "ok", "error"}] /\ ordered \in [{} -> Ids \cup {NoId}]
  BY DEF Init
<1> QED
  BY <1>1, <1>2 DEF Init, TypeInvariant, TypeOK, WorkerStates

LEMMA FetchPageTypes ==
  ASSUME SearchInvariant, TypeInvariant, FetchPage
  PROVE  TypeInvariant'
<1>0. /\ UNCHANGED <<kind, table, start, all, worker, answer, channel, ordered, hasErr, checked, cancelled>>
      /\ phase = "listing" /\ token \in Tokens /\ token \notin {End}
  BY SearchAssumption DEF FetchPage, workerVars, SearchInvariant
<1>1. CASE Fail /\ UNCHANGED listVars
  BY <1>0, <1>1 DEF Fail, listVars, Entries, TypeInvariant, TypeOK
<1>2. CASE /\ listed' = listed \o table[token].items
           /\ seen' = NoteToken /\ pages' = pages + 1 /\ token' = table[token].next
           /\ \/ UNCHANGED <<phase, output, outcome>>
              \/ phase' = "labels" /\ UNCHANGED <<output, outcome>>
              \/ NoResults
  <2>1. /\ table[token].items \in Seq(Ids \cup {NoId}) /\ table[token].next \in Tokens \cup {End}
        /\ listed \in Seq(Ids \cup {NoId})
    BY <1>0, SearchAssumption DEF TypeInvariant, TypeOK
  <2>2. listed' \in Seq(Ids \cup {NoId}) /\ Len(listed') \in Nat
    BY <1>2, <2>1, ConcatProperties
  <2>3. seen' \subseteq Tokens /\ pages' \in Nat /\ token' \in Tokens \cup {End}
    BY <1>0, <1>2, <2>1 DEF NoteToken, TypeInvariant, TypeOK
  <2>4. /\ phase' \in {"listing", "labels", "fetching", "checking", "done"}
        /\ output' \in Seq(Ids) /\ outcome' \in {"running", "ok", "empty", "error"}
    BY <1>2 DEF NoResults, TypeInvariant, TypeOK
  <2>5. checked' = 0 /\ worker' = <<>> /\ channel' = {} /\ DOMAIN worker' = {}
    BY <1>0 DEF TypeInvariant
  <2>6. checked' \in 0..Len(listed')
    BY <2>2, <2>5
  <2> QED
    BY <1>0, <2>2, <2>3, <2>4, <2>5, <2>6 DEF TypeInvariant, TypeOK
<1> QED
  BY <1>1, <1>2 DEF FetchPage

\* The steps after the listing leave it alone.
LEMMA FetchingTypes ==
  ASSUME SearchInvariant, TypeInvariant, StartWorkers \/ Receive \/ Collected \/ CheckThread \/ AllChecked
  PROVE  TypeInvariant'
<1> USE DEF TypeInvariant, TypeOK, listVars
<1>1. CASE StartWorkers
  BY <1>1 DEF StartWorkers, Fail, Entries, HasId
<1>2. CASE Receive
  <2>1. PICK i \in channel :
          /\ channel' = channel \ {i}
          /\ IF answer[i] = "ok" THEN ordered' = Place(i) /\ UNCHANGED hasErr
             ELSE hasErr' = TRUE /\ UNCHANGED ordered
    BY <1>2 DEF Receive
  <2>2. i \in DOMAIN worker /\ listed[i] \in Ids \cup {NoId}
    BY <2>1, ElementOfSeq, LenProperties DEF Entries
  <2> QED
    BY <1>2, <2>1, <2>2 DEF Receive, Place, Entries
<1>3. CASE Collected
  BY <1>3, PutOutType DEF Collected, Fail, Finish, Entries, workerVars
<1>4. CASE CheckThread
  BY <1>4 DEF CheckThread, Fail, Entries, workerVars
<1>5. CASE AllChecked
  BY <1>5, PutOutType DEF AllChecked, Finish, Entries, workerVars
<1> QED
  BY <1>1, <1>2, <1>3, <1>4, <1>5

LEMMA TypesKept ==
  ASSUME SearchInvariant, TypeInvariant, [Next]_vars
  PROVE  TypeInvariant'
<1> USE DEF TypeInvariant, TypeOK, listVars, workerVars, Entries
<1>1. ASSUME NEW i \in DOMAIN worker, Work(i) PROVE TypeInvariant'
  <2>1. CASE Acquire(i)
    BY <2>1 DEF Acquire
  <2>p. ASSUME NEW ans \in {"ok", "error"}, Post(i, ans)
        PROVE  /\ answer' \in [DOMAIN worker -> {"none", "ok", "error"}]
               /\ channel' \subseteq DOMAIN worker
    BY <2>p DEF Post
  <2>2. CASE GiveUp(i)
    BY <2>2, <2>p DEF GiveUp
  <2>3. CASE Call(i)
    BY <2>3, <2>p DEF Call
  <2>4. CASE Exit(i)
    BY <2>4 DEF Exit
  <2> QED
    BY <1>1, <2>1, <2>2, <2>3, <2>4 DEF Work
<1>2. CASE Cancel
  BY <1>2 DEF Cancel
<1>3. CASE UNCHANGED vars
  BY <1>3 DEF vars
<1> QED
  BY <1>1, <1>2, <1>3, FetchPageTypes, FetchingTypes DEF Next, Main

(* Every variable keeps its type: what is put out are ids, and a worker and   *)
(* an answer belong to an entry of the list.                                  *)
THEOREM TypesCorrect == Spec => []TypeOK
<1>1. TypeInvariant => TypeOK
  BY DEF TypeInvariant
<1> QED
  BY <1>1, InitSound, NextSound, TypesInitially, TypesKept, PTL DEF Spec

---------------------------------------------------------------------------
(* What is put out, said without WithId.                                   *)

\* The entries of out are entries of list, in their order.
InOrder(list, out) ==
  \E at \in [1..Len(out) -> 1..Len(list)] :
    /\ \A j, k \in 1..Len(out) : j < k => at[j] < at[k]
    /\ \A k \in 1..Len(out) : out[k] = list[at[k]]

\* What either search puts out was listed and comes in the order of the
\* listing; a search for messages leaves out nothing that has an id.
OutputSelected ==
  /\ outcome = "ok" => InOrder(listed, output)
  /\ outcome = "ok" /\ kind = "messages" => \E at : Selects(at, listed, Len(listed), output)

LEMMA PutOutInOrder ==
  ASSUME SearchInvariant, phase \in {"fetching", "checking"}
  PROVE  InOrder(listed, WithId(ordered))
<1>1. /\ ordered \in [1..Len(listed) -> Entry] /\ Len(listed) \in Nat
      /\ \A i \in 1..Len(listed) : ordered[i] \in {NoId, listed[i]}
  BY LenProperties DEF SearchInvariant, WorkersSound, Entries
<1>2. ordered \in Seq(Entry) /\ Len(ordered) = Len(listed)
  BY <1>1
<1>3. PICK at : Selects(at, ordered, Len(ordered), WithId(ordered))
  BY <1>2, WithIdExact
<1>4. at \in [1..Len(WithId(ordered)) -> 1..Len(listed)]
  BY <1>2, <1>3 DEF Selects
<1>5. \A k \in 1..Len(WithId(ordered)) : WithId(ordered)[k] = listed[at[k]]
  BY <1>1, <1>3, <1>4 DEF Selects, HasId
<1> QED
  BY <1>3, <1>4, <1>5 DEF Selects, InOrder

LEMMA OutputStays ==
  ASSUME SearchInvariant, [Next]_vars, outcome = "ok"
  PROVE  UNCHANGED <<listed, output, outcome>>
<1>0. phase = "done"
  BY DEF SearchInvariant
<1>1. ASSUME NEW i \in DOMAIN worker, Work(i) PROVE UNCHANGED <<listed, output, outcome>>
  BY <1>1 DEF Work, Acquire, GiveUp, Call, Exit, listVars
<1> QED
  BY <1>0, <1>1 DEF Next, Main, FetchPage, StartWorkers, Receive, Collected, CheckThread, AllChecked,
     Cancel, vars, listVars

\* Where a search begins to end well.
LEMMA OutputAppears ==
  ASSUME SearchInvariant, [Next]_vars, outcome # "ok", outcome' = "ok"
  PROVE  phase \in {"fetching", "checking"} /\ listed' = listed /\ output' = WithId(ordered)
<1>1. ASSUME NEW i \in DOMAIN worker, Work(i) PROVE FALSE
  BY <1>1 DEF Work, Acquire, GiveUp, Call, Exit
<1>2. ~FetchPage /\ ~StartWorkers /\ ~Receive /\ ~CheckThread /\ ~Cancel /\ ~UNCHANGED vars
  BY DEF FetchPage, StartWorkers, Receive, CheckThread, Cancel, vars, Fail, NoResults
<1>3. Collected \/ AllChecked
  BY <1>1, <1>2 DEF Next, Main
<1> QED
  BY <1>3 DEF Collected, AllChecked, Finish, Fail, listVars

(* Both searches put out entries of the listing in the order of the listing,  *)
(* and the one for messages all that have an id: SearchContract and           *)
(* NothingDropped in terms of places in the lists.                            *)
THEOREM OutputIsListed == Spec => []OutputSelected
<1> DEFINE I == SearchInvariant /\ (outcome = "ok" => InOrder(listed, output))
<1>1. Init => I
  BY InitSound DEF Init
<1>2. I /\ [Next]_vars => I'
  <2> SUFFICES ASSUME I, [Next]_vars PROVE I'
    OBVIOUS
  <2>1. SearchInvariant'
    BY NextSound
  <2>2. CASE outcome = "ok"
    BY <2>1, <2>2, OutputStays DEF InOrder
  <2>3. CASE outcome # "ok" /\ outcome' = "ok"
    BY <2>1, <2>3, OutputAppears, PutOutInOrder
  <2> QED
    BY <2>1, <2>2, <2>3
<1>3. I => OutputSelected
  <2> SUFFICES ASSUME I, outcome = "ok", kind = "messages"
               PROVE  \E at : Selects(at, listed, Len(listed), output)
    BY DEF OutputSelected
  <2>1. output = WithId(listed) /\ listed \in Seq(Entry)
    BY DEF SearchInvariant, NothingDropped, Complete
  <2> QED
    BY <2>1, WithIdExact
<1> QED
  BY <1>1, <1>2, <1>3, PTL DEF Spec

---------------------------------------------------------------------------
(* The workers, one beside the other.                                      *)

Finished(i) == worker[i] \in {"none", "exited"}

\* No more workers than the semaphore has slots are between Acquire and Exit;
\* while the collector waits, some worker can go on; and a search that has
\* ended, well or not, has left none behind.
WorkersInvariant ==
  /\ IsFiniteSet(DOMAIN worker) /\ Cardinality(Holding) <= Concurrency
  /\ phase \in {"checking", "done"} => \A i \in DOMAIN worker : Finished(i)

WorkersRun ==
  /\ Cardinality(Holding) <= Concurrency
  /\ phase = "fetching" =>
       \/ AllReceived \/ channel # {}
       \/ \E i \in DOMAIN worker :
            \/ worker[i] \in {"calling", "sent"}
            \/ worker[i] = "queued" /\ Cardinality(Holding) < Concurrency
  /\ outcome # "running" => \A i \in DOMAIN worker : Finished(i)

LEMMA HoldingIs ==
  ASSUME NEW W, W = DOMAIN worker, IsFiniteSet(W)
  PROVE  Holding \subseteq W /\ IsFiniteSet(Holding) /\ Cardinality(Holding) \in Nat
  BY FS_Subset, FS_CardinalityType DEF Holding

LEMMA WorkersKept ==
  ASSUME SearchInvariant, WorkersInvariant, TypeInvariant, [Next]_vars
  PROVE  WorkersInvariant'
<1> USE DEF WorkersInvariant
<1>0. Concurrency \in Nat /\ Concurrency > 0 /\ IsFiniteSet(Holding) /\ Cardinality(Holding) \in Nat
  BY SearchAssumption, HoldingIs
<1>1. ASSUME NEW i \in DOMAIN worker, Work(i) PROVE WorkersInvariant'
  <2>0. DOMAIN worker' = DOMAIN worker /\ phase' = phase /\ phase \notin {"checking", "done"}
    BY <1>1 DEF Work, Acquire, GiveUp, Call, Exit, Finished
  <2>1. CASE Acquire(i)
    <3>1. Holding' = Holding \cup {i} /\ Cardinality(Holding) < Concurrency
      BY <2>1 DEF Acquire, Holding
    <3>2. Cardinality(Holding \cup {i}) \in {Cardinality(Holding), Cardinality(Holding) + 1}
      BY <1>0, FS_AddElement
    <3> QED
      BY <1>0, <2>0, <3>1, <3>2
  <2>2. CASE GiveUp(i) \/ Call(i) \/ Exit(i)
    <3>1. Holding' \subseteq Holding
      BY <2>2 DEF GiveUp, Call, Exit, Holding
    <3>2. Cardinality(Holding') <= Cardinality(Holding) /\ Cardinality(Holding') \in Nat
      BY <1>0, <3>1, FS_Subset, FS_CardinalityType
    <3> QED
      BY <1>0, <2>0, <3>2
  <2> QED
    BY <1>1, <2>1, <2>2 DEF Work
<1>2. CASE StartWorkers
  <2>1. CASE Fail /\ UNCHANGED worker
    <3>1. worker = <<>>
      BY <1>2 DEF StartWorkers, SearchInvariant
    <3> QED
      BY <2>1, <3>1 DEF Holding, Finished
  <2>2. CASE phase' = "fetching" /\ worker' = [i \in Entries |-> IF HasId(listed[i]) THEN "queued" ELSE "none"]
    <3>1. Entries = 1..Len(listed) /\ Len(listed) \in Nat
      BY LenProperties DEF Entries, SearchInvariant
    <3>2. IsFiniteSet(DOMAIN worker')
      BY <2>2, <3>1, FS_Interval
    <3>3. Holding' = {}
      BY <2>2 DEF Holding
    <3> QED
      BY <1>0, <2>2, <3>2, <3>3, FS_EmptySet
  <2> QED
    BY <1>2, <2>1, <2>2 DEF StartWorkers
<1>3. ASSUME UNCHANGED worker,
             phase' \in {"checking", "done"} => \A i \in DOMAIN worker : Finished(i)
      PROVE  WorkersInvariant'
  BY <1>3 DEF Holding, Finished
<1>4. CASE FetchPage
  <2>1. worker = <<>> /\ UNCHANGED worker
    BY <1>4 DEF FetchPage, SearchInvariant, workerVars
  <2> QED
    BY <1>3, <2>1
<1>5. CASE Receive \/ Cancel \/ UNCHANGED vars
  BY <1>3, <1>5 DEF Receive, Cancel, vars, workerVars
<1>6. CASE Collected
  BY <1>3, <1>6 DEF Collected, AllReceived, Finished, workerVars
<1>7. CASE CheckThread \/ AllChecked
  BY <1>3, <1>7 DEF CheckThread, AllChecked, workerVars
<1> QED
  BY <1>1, <1>2, <1>4, <1>5, <1>6, <1>7 DEF Next, Main

(* The safety that SearchEnds rests on, for any number of entries and slots:  *)
(* the slots are respected, the collector never waits for workers of whom     *)
(* none can go on, and no goroutine outlives the search.                      *)
THEOREM NobodyWaitsForEver == Spec => []WorkersRun
<1> DEFINE I == SearchInvariant /\ TypeInvariant /\ WorkersInvariant
<1>1. Init => I
  <2> SUFFICES ASSUME Init PROVE WorkersInvariant
    BY InitSound, TypesInitially
  <2>1. DOMAIN worker = {} /\ Holding = {} /\ phase = "listing"
    BY DEF Init, Holding
  <2> QED
    BY <2>1, FS_EmptySet, SearchAssumption DEF WorkersInvariant
<1>2. I /\ [Next]_vars => I'
  BY NextSound, TypesKept, WorkersKept
<1>3. I => WorkersRun
  <2> SUFFICES ASSUME I, phase = "fetching", ~AllReceived, channel = {},
                      \A i \in DOMAIN worker : worker[i] \notin {"calling", "sent"}
               PROVE  \E i \in DOMAIN worker : worker[i] = "queued" /\ Cardinality(Holding) < Concurrency
    BY DEF WorkersRun, WorkersInvariant, SearchInvariant
  <2>1. PICK i \in DOMAIN worker : worker[i] \notin {"none", "exited"}
    BY DEF AllReceived
  <2>2. worker[i] = "queued"
    BY <2>1 DEF TypeInvariant, TypeOK
  <2>3. Holding = {} /\ Cardinality(Holding) = 0
    BY FS_EmptySet DEF Holding
  <2> QED
    BY <2>2, <2>3, SearchAssumption
<1> QED
  BY <1>1, <1>2, <1>3, PTL DEF Spec
=============================================================================
