-------------------------- MODULE TokenStoreProofs --------------------------
(***************************************************************************)
(* One process at a time, with any number of requests in it, failures and  *)
(* kills at every step: what was reported as done is what the next command *)
(* finds in the keyring.                                                   *)
(***************************************************************************)
EXTENDS TokenStore, TLAPS

Processes == Adders \cup Removers \cup Sessions

StoreStates   == {"storing", "verifying", "copying"}
RemovalStates == {"removing", "removing legacy"}
ReadStates    == {"reading", "reading legacy", "migrating"}
RingStates    == StoreStates \cup RemovalStates \cup ReadStates

\* Types; of the Boolean variable apart.
Typed ==
  /\ primary \in Entries /\ legacy \in Entries
  /\ issued \in 0 .. MaxTokens
  /\ pc \in [Actors -> States] /\ data \in [Actors -> Entries]
  /\ base \in [Sessions -> Tokens \cup {None}]
  /\ kept \in [Sessions -> Tokens \cup {None}]
  /\ holder \in [Sessions -> Threads \cup {Free}]
  /\ faultsLeft \in 0 .. MaxFaults
  /\ promised \in Tokens \cup {None}

\* What is on its way into the keyring is a token.
Carrying ==
  /\ \A a \in Actors : pc[a] \in StoreStates \cup {"obtained"} => data[a] \in Tokens
  /\ \A s \in Sessions : pc[s] = "open" => base[s] \in Tokens

\* Every actor does only its own work.
Roles ==
  /\ \A a \in Adders : pc[a] \in {"idle"} \cup StoreStates
  /\ \A r \in Removers : pc[r] \in {"idle"} \cup RemovalStates
  /\ \A s \in Sessions : pc[s] \in {"idle", "open"} \cup ReadStates
  /\ \A t \in Threads : pc[t] \in {"idle", "obtained"} \cup StoreStates

\* Requests run in an open session, and those that store hold its mutex.
Owned ==
  \A s \in Sessions, c \in Calls :
    /\ pc[<<s, c>>] # "idle" => pc[s] = "open"
    /\ pc[<<s, c>>] \in StoreStates => holder[s] = <<s, c>>

OneProcess ==
  \A p, q \in Processes : pc[p] # "idle" /\ pc[q] # "idle" => p = q

\* What the keyring holds while an actor is at work on it.
Underway(a) ==
  /\ pc[a] = "verifying" => primary \in {data[a], Blank}
  /\ pc[a] = "copying" => Default /\ primary = data[a]
  /\ pc[a] = "removing legacy" => Default /\ primary = None
  /\ pc[a] \in {"reading legacy", "migrating"} => Default
  /\ pc[a] = "migrating" => data[a] = legacy

Reported ==
  Quiet /\ ~doubt => Effective = promised /\ (Default => legacy = promised)

Working == Roles /\ Owned
Control == Working /\ OneProcess
Content == (\A a \in Actors : Underway(a)) /\ Reported
Invariant == Typed /\ Carrying /\ Control /\ Content

\* The keyring loses nothing that is not read back.
Alone == Serial /\ "blank copy" \notin Faults

---------------------------------------------------------------------------
(* Who is at work.                                                         *)

LEMMA ProcessMoves ==
  ASSUME Typed, Working, NEW p \in Processes, NEW x \in States,
         pc' = [pc EXCEPT ![p] = x], \A s \in Sessions : holder'[s] = holder[s],
         p \in Adders => x \in {"idle"} \cup StoreStates,
         p \in Removers => x \in {"idle"} \cup RemovalStates,
         p \in Sessions => /\ x \in {"idle", "open"} \cup ReadStates
                           /\ \A c \in Calls : pc[<<p, c>>] = "idle"
  PROVE  Working'
<1> USE ConstantsAssumption DEF Typed, Working, Actors, Writers, Processes
<1>0. p \notin Threads /\ \A t \in Threads : pc'[t] = pc[t]
  OBVIOUS
<1>1. Roles'
  <2>1. \A t \in Threads : pc'[t] \in {"idle", "obtained"} \cup StoreStates
    BY <1>0 DEF Roles
  <2>2. \A q \in Adders : pc'[q] \in {"idle"} \cup StoreStates
    BY DEF Roles
  <2>3. \A q \in Removers : pc'[q] \in {"idle"} \cup RemovalStates
    BY DEF Roles
  <2>4. \A q \in Sessions : pc'[q] \in {"idle", "open"} \cup ReadStates
    BY DEF Roles
  <2> QED
    BY <2>1, <2>2, <2>3, <2>4 DEF Roles
<1>2. Owned'
  <2> SUFFICES ASSUME NEW s \in Sessions, NEW c \in Calls
               PROVE  /\ pc'[<<s, c>>] # "idle" => pc'[s] = "open"
                      /\ pc'[<<s, c>>] \in StoreStates => holder'[s] = <<s, c>>
    BY DEF Owned
  <2>1. <<s, c>> \in Threads /\ pc'[<<s, c>>] = pc[<<s, c>>]
    BY <1>0 DEF Threads
  <2>2. pc[<<s, c>>] # "idle" => pc[s] = "open" /\ p # s
    BY <2>1 DEF Owned
  <2> QED
    BY <2>1, <2>2 DEF Owned, StoreStates
<1> QED
  BY <1>1, <1>2

LEMMA ThreadMoves ==
  ASSUME Typed, Working, NEW s \in Sessions, NEW c \in Calls, pc[s] = "open",
         NEW x \in {"idle", "obtained"} \cup StoreStates,
         pc' = [pc EXCEPT ![<<s, c>>] = x],
         \A u \in Sessions : holder'[u] = holder[u] \/ holder[u] \in {Free, <<s, c>>},
         x \in StoreStates => holder'[s] = <<s, c>>
  PROVE  Working'
<1> USE ConstantsAssumption DEF Typed, Working, Actors, Writers, Threads, Processes
<1>1. Roles'
  BY DEF Roles, StoreStates, RemovalStates, ReadStates
<1>2. Owned'
  <2> SUFFICES ASSUME NEW u \in Sessions, NEW d \in Calls
               PROVE  /\ pc'[<<u, d>>] # "idle" => pc'[u] = "open"
                      /\ pc'[<<u, d>>] \in StoreStates => holder'[u] = <<u, d>>
    BY DEF Owned
  <2>1. CASE <<u, d>> = <<s, c>>
    BY <2>1 DEF Owned, StoreStates
  <2>2. CASE <<u, d>> # <<s, c>>
    BY <2>2 DEF Owned, StoreStates
  <2> QED
    BY <2>1, <2>2
<1> QED
  BY <1>1, <1>2

\* Only one actor has the keyring open.
LEMMA Exclusive ==
  ASSUME Control, NEW a \in Actors, NEW b \in Actors,
         pc[a] \in RingStates, pc[b] \in RingStates
  PROVE  a = b
<1> USE DEF Control, Working, RingStates
<1>1. CASE a \in Processes /\ b \in Processes
  BY <1>1 DEF OneProcess, StoreStates, RemovalStates, ReadStates
<1>2. ASSUME NEW s \in Sessions, NEW c \in Calls,
             pc[<<s, c>>] \in StoreStates \cup RemovalStates \cup ReadStates
      PROVE  /\ pc[s] = "open" /\ holder[s] = <<s, c>>
             /\ \A p \in Processes : pc[p] # "idle" => p = s
  <2>1. pc[<<s, c>>] \in StoreStates
    BY <1>2 DEF Roles, Threads, StoreStates, RemovalStates, ReadStates
  <2> QED
    BY <2>1 DEF Owned, StoreStates, OneProcess, Processes
<1>3. ASSUME NEW s \in Sessions, NEW c \in Calls, NEW p \in Processes,
             pc[<<s, c>>] \in StoreStates \cup RemovalStates \cup ReadStates,
             pc[p] \in StoreStates \cup RemovalStates \cup ReadStates
      PROVE  FALSE
  BY <1>2, <1>3 DEF StoreStates, RemovalStates, ReadStates
<1>4. CASE a \in Threads /\ b \in Threads
  <2>1. PICK s \in Sessions, c \in Calls : a = <<s, c>>
    BY <1>4 DEF Threads
  <2>2. PICK u \in Sessions, d \in Calls : b = <<u, d>>
    BY <1>4 DEF Threads
  <2>3. u = s /\ holder[s] = <<s, c>> /\ holder[u] = <<u, d>>
    BY <2>1, <2>2, <1>2 DEF Processes
  <2> QED
    BY <2>1, <2>2, <2>3
<1>5. CASE (a \in Threads /\ b \in Processes) \/ (a \in Processes /\ b \in Threads)
  BY <1>3, <1>5 DEF Threads
<1> QED
  BY <1>1, <1>4, <1>5 DEF Actors, Writers, Processes

\* What one actor does to the keyring concerns nobody else.
LEMMA OthersWait ==
  ASSUME Typed, Control, NEW a \in Actors, pc[a] \in RingStates,
         \A b \in Actors : b # a => pc'[b] = pc[b],
         Underway(a)'
  PROVE  \A b \in Actors : Underway(b)'
<1> SUFFICES ASSUME NEW b \in Actors, b # a PROVE Underway(b)'
  OBVIOUS
<1>1. pc[b] \notin RingStates
  BY Exclusive
<1> QED
  BY <1>1 DEF Underway, RingStates, StoreStates, RemovalStates, ReadStates

\* Neither does it concern those at work when somebody begins or ends.
LEMMA RingUntouched ==
  ASSUME \A b \in Actors : Underway(b), NEW a \in Actors, Typed,
         UNCHANGED ring, pc'[a] \in States \ {"verifying", "copying", "removing legacy",
                                     "reading legacy", "migrating"},
         \A b \in Actors : b # a => pc'[b] = pc[b] /\ data'[b] = data[b]
  PROVE  \A b \in Actors : Underway(b)'
<1> SUFFICES ASSUME NEW b \in Actors PROVE Underway(b)'
  OBVIOUS
<1>1. CASE b = a
  BY <1>1 DEF Underway
<1>2. CASE b # a
  BY <1>2 DEF Underway, ring
<1> QED
  BY <1>1, <1>2

---------------------------------------------------------------------------
(* Types.                                                                  *)

LEMMA OneFault ==
  ASSUME Typed, NEW f, Fault(f)
  PROVE  faultsLeft' \in 0 .. MaxFaults
BY ConstantsAssumption DEF Typed, Fault

LEMMA Counting ==
  ASSUME Typed, issued < MaxTokens
  PROVE  issued + 1 \in Tokens /\ issued + 1 \in 0 .. MaxTokens
BY ConstantsAssumption DEF Typed, Tokens

LEMMA TypesWritten ==
  ASSUME Typed, Carrying, NEW a \in Writers, SetToken(a)
  PROVE  Typed'
<1> a \in Actors
  BY DEF Actors
<1> USE DEF Typed, Carrying, Entries, States, StoreStates, Goto, Done, ring, past
<1>1. CASE StorePrimary(a)
  BY <1>1, OneFault DEF StorePrimary, Proceed
<1>2. CASE Verify(a)
  <2>1. CASE primary \in {None, Blank}
    BY <1>2, <2>1 DEF Verify, NotStored, Returned
  <2>2. CASE primary \notin {None, Blank} /\ Default
    BY <1>2, <2>2 DEF Verify, Proceed
  <2>3. CASE primary \notin {None, Blank} /\ ~Default
    BY <1>2, <2>3 DEF Verify, Stored, Returned
  <2> QED
    BY <2>1, <2>2, <2>3
<1>3. CASE StoreLegacy(a)
  BY <1>3, OneFault DEF StoreLegacy, Stored, Returned
<1>4. CASE StoreFails(a)
  BY <1>4, OneFault DEF StoreFails, NotStored, Returned
<1> QED
  BY <1>1, <1>2, <1>3, <1>4 DEF SetToken

LEMMA TypesRead ==
  ASSUME Typed, Carrying, NEW s \in Sessions, GetToken(s)
  PROVE  Typed'
<1> s \in Actors
  BY DEF Actors
<1> USE DEF Typed, Carrying, Entries, States, StoreStates, Goto, Done, Carry, ring, past
<1>1. CASE ReadPrimary(s)
  <2>1. CASE primary = None /\ Default
    BY <1>1, <2>1 DEF ReadPrimary, Proceed
  <2>2. CASE ~(primary = None /\ Default)
    BY <1>1, <2>2 DEF ReadPrimary, Open
  <2> QED
    BY <2>1, <2>2
<1>2. CASE ReadFails(s)
  BY <1>2, OneFault DEF ReadFails, Proceed
<1>3. CASE ReadLegacy(s)
  <2>1. CASE legacy = None
    BY <1>3, <2>1 DEF ReadLegacy
  <2>2. CASE legacy # None
    BY <1>3, <2>2 DEF ReadLegacy
  <2> QED
    BY <2>1, <2>2
<1>4. CASE Migrate(s)
  BY <1>4, OneFault DEF Migrate, Open
<1>5. CASE MigrationFails(s)
  BY <1>5, OneFault DEF MigrationFails
<1> QED
  BY <1>1, <1>2, <1>3, <1>4, <1>5 DEF GetToken

LEMMA TypesKept ==
  ASSUME Typed, Carrying, [Next]_vars
  PROVE  Typed'
<1> Adders \cup Removers \cup Sessions \cup Threads \subseteq Actors
  BY DEF Actors, Writers
<1> USE DEF Typed, Carrying, Entries, States, StoreStates, Goto, Done, Carry, ring, past
<1>1. ASSUME NEW a \in Adders, Authorize(a) PROVE Typed'
  <2>1. issued + 1 \in Tokens /\ issued + 1 \in 0 .. MaxTokens
    BY <1>1, Counting DEF Authorize
  <2> QED
    BY <1>1, <2>1 DEF Authorize
<1>2. ASSUME NEW a \in Writers, SetToken(a) PROVE Typed'
  BY <1>2, TypesWritten
<1>3. ASSUME NEW r \in Removers,
             StartRemoval(r) \/ RemovePrimary(r) \/ RemoveLegacy(r) \/ RemovalFails(r)
      PROVE  Typed'
  <2>1. CASE StartRemoval(r)
    BY <1>3, <2>1 DEF StartRemoval
  <2>2. CASE RemovePrimary(r)
    <3>1. CASE Default
      BY <1>3, <2>2, <3>1 DEF RemovePrimary
    <3>2. CASE ~Default
      BY <1>3, <2>2, <3>2 DEF RemovePrimary, Removed
    <3> QED
      BY <3>1, <3>2
  <2>3. CASE RemoveLegacy(r)
    BY <1>3, <2>3 DEF RemoveLegacy, Removed
  <2>4. CASE RemovalFails(r)
    BY <1>3, <2>4, OneFault DEF RemovalFails
  <2> QED
    BY <1>3, <2>1, <2>2, <2>3, <2>4
<1>4. ASSUME NEW s \in Sessions, StartSession(s) PROVE Typed'
  BY <1>4 DEF StartSession
<1>5. ASSUME NEW s \in Sessions, Close(s) PROVE Typed'
  BY <1>5 DEF Close
<1>6. ASSUME NEW s \in Sessions, GetToken(s) PROVE Typed'
  BY <1>6, TypesRead
<1>7. ASSUME NEW s \in Sessions, NEW c \in Calls, Obtain(s, c) PROVE Typed'
  <2>1. <<s, c>> \in Actors
    BY DEF Threads
  <2> DEFINE t == <<s, c>>
  <2>2. CASE data' = [data EXCEPT ![t] = base[s]] /\ UNCHANGED <<issued, base>>
    BY <1>7, <2>1, <2>2 DEF Obtain
  <2>3. CASE /\ issued < MaxTokens /\ issued' = issued + 1
             /\ base' = [base EXCEPT ![s] = issued + 1]
             /\ data' = [data EXCEPT ![t] = issued + 1]
    <3>1. issued + 1 \in Tokens /\ issued + 1 \in 0 .. MaxTokens
      BY <2>3, Counting
    <3> QED
      BY <1>7, <2>1, <2>3, <3>1 DEF Obtain
  <2> QED
    BY <1>7, <2>2, <2>3 DEF Obtain
<1>8. ASSUME NEW s \in Sessions, NEW c \in Calls, Lock(s, c) PROVE Typed'
  <2>1. <<s, c>> \in Threads /\ <<s, c>> \in Actors
    BY DEF Threads
  <2>2. CASE data[<<s, c>>] = kept[s]
    BY <1>8, <2>1, <2>2 DEF Lock
  <2>3. CASE data[<<s, c>>] # kept[s]
    BY <1>8, <2>1, <2>3 DEF Lock
  <2> QED
    BY <2>2, <2>3
<1>9. ASSUME NEW p \in Adders \cup Removers \cup Sessions, Crash(p)
      PROVE  Typed'
  BY <1>9, OneFault DEF Crash
<1>10. CASE UNCHANGED vars
  BY <1>10 DEF vars
<1> QED
  BY <1>1, <1>2, <1>3, <1>4, <1>5, <1>6, <1>7, <1>8, <1>9, <1>10 DEF Next

\* What the steps of SetToken and GetToken have in common.
LEMMA WriterMoves ==
  ASSUME Typed, NEW a \in Writers, SetToken(a)
  PROVE  /\ pc[a] \in StoreStates
         /\ \E x \in {"idle"} \cup StoreStates : pc' = [pc EXCEPT ![a] = x]
         /\ UNCHANGED <<issued, data, base>>
         /\ \/ pc'[a] # "idle" /\ holder' = holder
            \/ holder' = [s \in Sessions |-> IF holder[s] = a THEN Free ELSE holder[s]]
<1> pc \in [Actors -> States] /\ a \in Actors
  BY DEF Typed, Actors
<1> USE DEF Goto, Done, StoreStates
<1>1. CASE StorePrimary(a)
  BY <1>1 DEF StorePrimary, Proceed
<1>2. CASE Verify(a)
  <2>1. CASE primary \in {None, Blank}
    BY <1>2, <2>1 DEF Verify, NotStored, Returned
  <2>2. CASE primary \notin {None, Blank} /\ Default
    BY <1>2, <2>2 DEF Verify, Proceed
  <2>3. CASE primary \notin {None, Blank} /\ ~Default
    BY <1>2, <2>3 DEF Verify, Stored, Returned
  <2> QED
    BY <2>1, <2>2, <2>3
<1>3. CASE StoreLegacy(a)
  BY <1>3 DEF StoreLegacy, Stored, Returned
<1>4. CASE StoreFails(a)
  BY <1>4 DEF StoreFails, NotStored, Returned
<1> QED
  BY <1>1, <1>2, <1>3, <1>4 DEF SetToken

LEMMA ReaderMoves ==
  ASSUME Typed, NEW s \in Sessions, GetToken(s)
  PROVE  /\ pc[s] \in ReadStates /\ holder' = holder
         /\ \E x \in {"idle", "open"} \cup ReadStates : pc' = [pc EXCEPT ![s] = x]
         /\ \A a \in Actors : a # s => data'[a] = data[a]
         /\ pc'[s] = "open" => base'[s] \in Tokens
         /\ \A u \in Sessions : u # s => base'[u] = base[u]
<1> /\ pc \in [Actors -> States] /\ s \in Actors
    /\ base \in [Sessions -> Tokens \cup {None}] /\ data \in [Actors -> Entries]
  BY DEF Typed, Actors
<1> USE DEF Goto, Done, Carry, ReadStates
<1>1. CASE ReadPrimary(s)
  <2>1. CASE primary = None /\ Default
    BY <1>1, <2>1 DEF ReadPrimary, Proceed
  <2>2. CASE ~(primary = None /\ Default)
    BY <1>1, <2>2 DEF ReadPrimary, Open
  <2> QED
    BY <2>1, <2>2
<1>2. CASE ReadFails(s)
  BY <1>2 DEF ReadFails, Proceed
<1>3. CASE ReadLegacy(s)
  <2>1. CASE legacy = None
    BY <1>3, <2>1 DEF ReadLegacy
  <2>2. CASE legacy # None
    BY <1>3, <2>2 DEF ReadLegacy
  <2> QED
    BY <2>1, <2>2
<1>4. CASE Migrate(s)
  BY <1>4 DEF Migrate, Open
<1>5. CASE MigrationFails(s)
  BY <1>5 DEF MigrationFails
<1> QED
  BY <1>1, <1>2, <1>3, <1>4, <1>5 DEF GetToken

LEMMA RemoverMoves ==
  ASSUME Typed, NEW r \in Removers,
         RemovePrimary(r) \/ RemoveLegacy(r) \/ RemovalFails(r)
  PROVE  /\ pc[r] \in RemovalStates /\ holder' = holder
         /\ \E x \in {"idle"} \cup RemovalStates : pc' = [pc EXCEPT ![r] = x]
         /\ UNCHANGED <<data, base, kept, issued>>
<1> USE DEF Goto, Done, RemovalStates
<1>1. CASE RemovePrimary(r)
  <2>1. CASE Default
    BY <1>1, <2>1 DEF RemovePrimary
  <2>2. CASE ~Default
    BY <1>1, <2>2 DEF RemovePrimary, Removed
  <2> QED
    BY <2>1, <2>2
<1>2. CASE RemoveLegacy(r)
  BY <1>2 DEF RemoveLegacy, Removed
<1>3. CASE RemovalFails(r)
  BY <1>3 DEF RemovalFails
<1> QED
  BY <1>1, <1>2, <1>3

LEMMA CarryingMoves ==
  ASSUME Typed, Carrying, NEW a \in Actors, NEW x \in States,
         pc' = [pc EXCEPT ![a] = x],
         \A b \in Actors : b # a => data'[b] = data[b],
         x \in StoreStates \cup {"obtained"} => data'[a] \in Tokens,
         \A s \in Sessions : s # a \/ x # "open" => base'[s] \in {base[s]} \cup Tokens \/ pc'[s] # "open",
         x = "open" /\ a \in Sessions => base'[a] \in Tokens
  PROVE  Carrying'
<1>1. \A b \in Actors : pc'[b] \in StoreStates \cup {"obtained"} => data'[b] \in Tokens
  BY DEF Typed, Carrying
<1>2. \A s \in Sessions : pc'[s] = "open" => base'[s] \in Tokens
  BY DEF Typed, Carrying, Actors
<1> QED
  BY <1>1, <1>2 DEF Carrying

LEMMA CarryingKept ==
  ASSUME Typed, Carrying, [Next]_vars
  PROVE  Carrying'
<1> Adders \cup Removers \cup Sessions \cup Threads \subseteq Actors
  BY DEF Actors, Writers
<1> StoreStates \cup ReadStates \cup RemovalStates \cup {"idle", "open", "obtained"} \subseteq States
  BY DEF StoreStates, ReadStates, RemovalStates, States
<1>1. ASSUME NEW a \in Adders, Authorize(a) PROVE Carrying'
  <2>1. issued + 1 \in Tokens /\ pc' = [pc EXCEPT ![a] = "storing"]
        /\ data' = [data EXCEPT ![a] = issued + 1] /\ base' = base
    BY <1>1, Counting DEF Authorize, Goto, Carry
  <2>2. data'[a] \in Tokens /\ (\A b \in Actors : b # a => data'[b] = data[b]) /\ "storing" \in States
    BY <2>1 DEF Typed, States
  <2> QED
    BY <2>1, <2>2, CarryingMoves
<1>2. ASSUME NEW a \in Writers, SetToken(a) PROVE Carrying'
  <2>1. PICK x \in {"idle"} \cup StoreStates : pc' = [pc EXCEPT ![a] = x]
    BY <1>2, WriterMoves
  <2>2. pc[a] \in StoreStates /\ data' = data /\ base' = base /\ a \in Actors /\ x \in States
    BY <1>2, <2>1, WriterMoves DEF Actors
  <2>3. data[a] \in Tokens /\ x # "open"
    BY <2>1, <2>2 DEF Carrying, StoreStates
  <2> QED
    BY <2>1, <2>2, <2>3, CarryingMoves
<1>3. ASSUME NEW r \in Removers,
             StartRemoval(r) \/ RemovePrimary(r) \/ RemoveLegacy(r) \/ RemovalFails(r)
      PROVE  Carrying'
  <2>1. PICK x \in {"idle"} \cup RemovalStates : pc' = [pc EXCEPT ![r] = x] /\ data' = data /\ base' = base
    <3>1. CASE StartRemoval(r)
      BY <3>1 DEF StartRemoval, Goto, RemovalStates
    <3>2. CASE RemovePrimary(r) \/ RemoveLegacy(r) \/ RemovalFails(r)
      BY <3>2, RemoverMoves
    <3> QED
      BY <1>3, <3>1, <3>2
  <2>2. x # "open" /\ x \notin StoreStates \cup {"obtained"}
    BY DEF RemovalStates, StoreStates
  <2> QED
    BY <2>1, <2>2, CarryingMoves
<1>4. ASSUME NEW s \in Sessions, StartSession(s) PROVE Carrying'
  <2>1. "reading" \in States /\ "reading" \notin StoreStates
    BY DEF States, StoreStates
  <2> QED
    BY <1>4, <2>1, CarryingMoves DEF StartSession, Goto
<1>5. ASSUME NEW s \in Sessions, Close(s) PROVE Carrying'
  <2>1. /\ pc' = [pc EXCEPT ![s] = "idle"] /\ base' = [base EXCEPT ![s] = None] /\ data' = data
        /\ pc'[s] = "idle"
    BY <1>5 DEF Close, Done, Goto, Typed
  <2>2. "idle" \notin StoreStates \cup {"obtained"} /\ \A u \in Sessions : u # s => base'[u] = base[u]
    BY <2>1 DEF StoreStates, Typed
  <2> QED
    BY <2>1, <2>2, CarryingMoves
<1>6. ASSUME NEW s \in Sessions, GetToken(s) PROVE Carrying'
  <2>1. PICK x \in {"idle", "open"} \cup ReadStates : pc' = [pc EXCEPT ![s] = x]
    BY <1>6, ReaderMoves
  <2>2. x \in States /\ x \notin StoreStates \cup {"obtained"} /\ pc'[s] = x
    BY <2>1 DEF StoreStates, ReadStates, Typed
  <2>3. /\ \A a \in Actors : a # s => data'[a] = data[a]
        /\ x = "open" => base'[s] \in Tokens
        /\ \A u \in Sessions : u # s => base'[u] = base[u]
    BY <1>6, <2>2, ReaderMoves
  <2> QED
    BY <2>1, <2>2, <2>3, CarryingMoves
<1>7. ASSUME NEW s \in Sessions, NEW c \in Calls, Obtain(s, c) PROVE Carrying'
  <2> DEFINE t == <<s, c>>
  <2>1. t \in Threads /\ t \in Actors /\ pc[s] = "open" /\ pc' = [pc EXCEPT ![t] = "obtained"]
    BY <1>7 DEF Obtain, Goto, Threads
  <2>2. base[s] \in Tokens
    BY <2>1 DEF Carrying
  <2>3. data'[t] \in Tokens /\ \A b \in Actors : b # t => data'[b] = data[b]
    BY <1>7, <2>1, <2>2, Counting DEF Obtain, Carry, Typed
  <2>4. \A u \in Sessions : base'[u] \in {base[u]} \cup Tokens
    BY <1>7, <2>2, Counting DEF Obtain, Typed
  <2> QED
    BY <2>1, <2>3, <2>4, CarryingMoves
<1>8. ASSUME NEW s \in Sessions, NEW c \in Calls, Lock(s, c) PROVE Carrying'
  <2> DEFINE t == <<s, c>>
  <2>1. t \in Actors /\ pc[t] = "obtained" /\ data' = data /\ base' = base
    BY <1>8 DEF Lock, Threads
  <2>2. PICK x \in {"idle", "storing"} : pc' = [pc EXCEPT ![t] = x]
    BY <1>8 DEF Lock, Done, Goto
  <2>3. data[t] \in Tokens /\ x \in States
    BY <2>1, <2>2 DEF Carrying, States
  <2> QED
    BY <2>1, <2>2, <2>3, CarryingMoves
<1>9. ASSUME NEW p \in Adders \cup Removers \cup Sessions, Crash(p)
      PROVE  Carrying'
  <2>1. /\ \A a \in Actors : pc'[a] \in {pc[a], "idle"}
        /\ \A s \in Sessions : pc'[s] # "idle" => base'[s] = base[s]
        /\ data' = data
    BY <1>9 DEF Crash, Parts, Actors
  <2> QED
    BY <2>1 DEF Carrying, StoreStates, Actors
<1>10. CASE UNCHANGED vars
  BY <1>10 DEF vars, Carrying
<1> QED
  BY <1>1, <1>2, <1>3, <1>4, <1>5, <1>6, <1>7, <1>8, <1>9, <1>10 DEF Next

LEMMA StoringKeepsLock ==
  ASSUME Typed, NEW a \in Writers, SetToken(a), pc'[a] # "idle"
  PROVE  holder' = holder
<1> pc \in [Actors -> States] /\ a \in Actors
  BY DEF Typed, Actors
<1> USE DEF Goto, Done
<1>1. CASE StorePrimary(a)
  BY <1>1 DEF StorePrimary, Proceed
<1>2. CASE Verify(a)
  BY <1>2 DEF Verify, NotStored, Stored, Proceed, Returned
<1>3. CASE StoreLegacy(a) \/ StoreFails(a)
  BY <1>3 DEF StoreLegacy, StoreFails, Stored, NotStored, Returned
<1> QED
  BY <1>1, <1>2, <1>3 DEF SetToken

---------------------------------------------------------------------------
(* Who is at work stays as it should.                                      *)

LEMMA WorkingKept ==
  ASSUME Typed, Working, [Next]_vars
  PROVE  Working'
<1> /\ Adders \cup Removers \cup Sessions \cup Threads \subseteq Actors
    /\ Adders \cup Removers \cup Sessions = Processes
  BY DEF Actors, Writers, Processes
<1> StoreStates \cup ReadStates \cup RemovalStates \cup {"idle", "open", "obtained"} \subseteq States
  BY DEF StoreStates, ReadStates, RemovalStates, States
<1>0. /\ "storing" \in StoreStates /\ "removing" \in RemovalStates /\ "reading" \in ReadStates
      /\ "idle" \notin StoreStates \cup RemovalStates \cup ReadStates
      /\ "open" \notin StoreStates \cup RemovalStates \cup ReadStates
  BY DEF StoreStates, RemovalStates, ReadStates
<1>1. ASSUME NEW a \in Adders, Authorize(a) PROVE Working'
  <2>1. pc' = [pc EXCEPT ![a] = "storing"] /\ holder' = holder /\ pc[a] = "idle"
    BY <1>1 DEF Authorize, CanStart, Goto
  <2>2. a \notin Removers /\ a \notin Sessions
    BY ConstantsAssumption
  <2> QED
    BY <1>0, <2>1, <2>2, ProcessMoves
<1>2. ASSUME NEW a \in Adders, SetToken(a) PROVE Working'
  <2>1. PICK x \in {"idle"} \cup StoreStates : pc' = [pc EXCEPT ![a] = x]
    BY <1>2, WriterMoves DEF Writers
  <2>2. pc[a] # "idle" /\ x \in States /\ a \notin Removers /\ a \notin Sessions
    BY <1>0, <1>2, WriterMoves, ConstantsAssumption DEF Writers
  <2>3. \A s \in Sessions : holder'[s] = holder[s]
    <3>1. \A s \in Sessions : holder[s] = a => holder[s] = Free
      BY ConstantsAssumption DEF Typed
    <3> QED
      BY <1>2, <3>1, WriterMoves DEF Writers
  <2> QED
    BY <2>1, <2>2, <2>3, ProcessMoves
<1>3. ASSUME NEW s \in Sessions, NEW c \in Calls, SetToken(<<s, c>>) PROVE Working'
  <2> DEFINE t == <<s, c>>
  <2>0. t \in Threads /\ t \in Writers
    BY DEF Threads, Writers
  <2>1. PICK x \in {"idle"} \cup StoreStates : pc' = [pc EXCEPT ![t] = x]
    BY <1>3, <2>0, WriterMoves
  <2>2. pc[t] \in StoreStates /\ pc'[t] = x
    BY <1>3, <2>0, <2>1, WriterMoves DEF Typed
  <2>3. pc[s] = "open" /\ holder[s] = t
    BY <1>0, <2>2 DEF Working, Owned
  <2>4. /\ \A u \in Sessions : holder'[u] = holder[u] \/ holder[u] \in {Free, t}
        /\ x \in StoreStates => holder'[s] = t
    <3>1. CASE pc'[t] # "idle" /\ holder' = holder
      BY <2>3, <3>1
    <3>2. CASE holder' = [u \in Sessions |-> IF holder[u] = t THEN Free ELSE holder[u]]
      <4>1. \A u \in Sessions : holder'[u] = holder[u] \/ holder[u] = t
        BY <3>2
      <4>2. CASE x = "idle"
        BY <1>0, <4>1, <4>2
      <4>3. CASE x # "idle"
        <5>1. holder' = holder
          BY <1>3, <2>0, <2>2, <4>3, StoringKeepsLock
        <5> QED
          BY <2>3, <5>1
      <4> QED
        BY <4>2, <4>3
    <3> QED
      BY <1>3, <2>0, <3>1, <3>2, WriterMoves
  <2> QED
    BY <2>1, <2>3, <2>4, ThreadMoves
<1>4. ASSUME NEW r \in Removers, StartRemoval(r) PROVE Working'
  <2>1. pc' = [pc EXCEPT ![r] = "removing"] /\ holder' = holder /\ pc[r] = "idle"
    BY <1>4 DEF StartRemoval, CanStart, Goto
  <2>2. r \notin Adders /\ r \notin Sessions
    BY ConstantsAssumption
  <2> QED
    BY <1>0, <2>1, <2>2, ProcessMoves
<1>5. ASSUME NEW r \in Removers, RemovePrimary(r) \/ RemoveLegacy(r) \/ RemovalFails(r)
      PROVE  Working'
  <2>1. PICK x \in {"idle"} \cup RemovalStates : pc' = [pc EXCEPT ![r] = x]
    BY <1>5, RemoverMoves
  <2>2. pc[r] # "idle" /\ holder' = holder /\ x \in States /\ r \notin Adders /\ r \notin Sessions
    BY <1>0, <1>5, RemoverMoves, ConstantsAssumption
  <2> QED
    BY <2>1, <2>2, ProcessMoves
<1>6. ASSUME NEW s \in Sessions, StartSession(s) PROVE Working'
  <2>1. pc' = [pc EXCEPT ![s] = "reading"] /\ holder' = holder /\ pc[s] = "idle"
    BY <1>6 DEF StartSession, CanStart, Goto
  <2>2. s \notin Adders /\ s \notin Removers /\ \A c \in Calls : pc[<<s, c>>] = "idle"
    BY <2>1, ConstantsAssumption DEF Working, Owned
  <2> QED
    BY <1>0, <2>1, <2>2, ProcessMoves
<1>7. ASSUME NEW s \in Sessions, GetToken(s) PROVE Working'
  <2>1. PICK x \in {"idle", "open"} \cup ReadStates : pc' = [pc EXCEPT ![s] = x]
    BY <1>7, ReaderMoves
  <2>2. pc[s] \in ReadStates /\ holder' = holder /\ x \in States
    BY <1>7, ReaderMoves
  <2>3. pc[s] # "idle" /\ pc[s] # "open" /\ \A c \in Calls : pc[<<s, c>>] = "idle"
    BY <1>0, <2>2 DEF Working, Owned
  <2>4. s \notin Adders /\ s \notin Removers
    BY ConstantsAssumption
  <2> QED
    BY <2>1, <2>2, <2>3, <2>4, ProcessMoves
<1>8. ASSUME NEW s \in Sessions, Close(s) PROVE Working'
  <2>1. pc' = [pc EXCEPT ![s] = "idle"] /\ holder' = holder /\ pc[s] # "idle"
        /\ \A c \in Calls : pc[<<s, c>>] = "idle"
    BY <1>8 DEF Close, Done, Goto
  <2>2. s \notin Adders /\ s \notin Removers
    BY ConstantsAssumption
  <2> QED
    BY <2>1, <2>2, ProcessMoves
<1>9. ASSUME NEW s \in Sessions, NEW c \in Calls, Obtain(s, c) \/ Lock(s, c) PROVE Working'
  <2> DEFINE t == <<s, c>>
  <2>0. t \in Threads
    BY DEF Threads
  <2>1. CASE Obtain(s, c)
    <3>1. pc[s] = "open" /\ pc' = [pc EXCEPT ![t] = "obtained"] /\ holder' = holder
      BY <2>1 DEF Obtain, Goto
    <3>2. "obtained" \notin StoreStates
      BY DEF StoreStates
    <3> QED
      BY <3>1, <3>2, ThreadMoves
  <2>2. CASE Lock(s, c)
    <3>1. pc[t] = "obtained" /\ holder[s] = Free
      BY <2>2 DEF Lock, Unlocked
    <3>2. pc[s] = "open"
      BY <3>1 DEF Working, Owned
    <3>3. CASE data[t] = kept[s]
      <4>1. pc' = [pc EXCEPT ![t] = "idle"] /\ holder' = holder
        BY <2>2, <3>3 DEF Lock, Done, Goto
      <4> QED
        BY <1>0, <3>2, <4>1, ThreadMoves
    <3>4. CASE data[t] # kept[s]
      <4>1. pc' = [pc EXCEPT ![t] = "storing"] /\ holder' = [holder EXCEPT ![s] = t]
        BY <2>2, <3>4 DEF Lock, Goto
      <4>2. holder'[s] = t /\ \A u \in Sessions : holder'[u] = holder[u] \/ holder[u] = Free
        BY <3>1, <4>1 DEF Typed
      <4> QED
        BY <1>0, <3>2, <4>1, <4>2, ThreadMoves
    <3> QED
      BY <3>3, <3>4
  <2> QED
    BY <1>9, <2>1, <2>2
<1>10. ASSUME NEW p \in Adders \cup Removers \cup Sessions, Crash(p)
       PROVE  Working'
  <2>1. \A a \in Actors : pc'[a] \in {pc[a], "idle"}
    BY <1>10 DEF Crash
  <2>2. Roles'
    BY <2>1 DEF Working, Roles
  <2>4. Owned'
    <3> SUFFICES ASSUME NEW s \in Sessions, NEW c \in Calls
                 PROVE  /\ pc'[<<s, c>>] # "idle" => pc'[s] = "open"
                        /\ pc'[<<s, c>>] \in StoreStates => holder'[s] = <<s, c>>
      BY DEF Owned
    <3>0. <<s, c>> \in Threads
      BY DEF Threads
    <3>1. CASE s = p
      <4>1. <<s, c>> \in Parts(p)
        BY <3>1 DEF Parts
      <4> QED
        BY <1>0, <1>10, <3>0, <4>1 DEF Crash
    <3>2. CASE s # p
      <4>1. s \notin Parts(p) /\ <<s, c>> \notin Parts(p)
        BY <3>0, <3>2, ConstantsAssumption DEF Parts, Threads
      <4> QED
        BY <1>10, <3>0, <3>2, <4>1 DEF Crash, Working, Owned
    <3> QED
      BY <3>1, <3>2
  <2> QED
    BY <2>2, <2>4 DEF Working
<1>11. CASE UNCHANGED vars
  BY <1>11 DEF vars, Working, Roles, Owned
<1>12. ASSUME NEW a \in Writers, SetToken(a) PROVE Working'
  BY <1>2, <1>3, <1>12 DEF Writers, Threads
<1> QED
  BY <1>1, <1>12, <1>4, <1>5, <1>6, <1>7, <1>8, <1>9, <1>10, <1>11 DEF Next

LEMMA OneProcessKept ==
  ASSUME Typed, OneProcess, Serial, [Next]_vars
  PROVE  OneProcess'
<1> /\ Adders \cup Removers \cup Sessions \cup Threads \subseteq Actors
    /\ Adders \cup Removers \cup Sessions = Processes
  BY DEF Actors, Writers, Processes
<1>0. /\ "idle" \notin StoreStates \cup RemovalStates \cup ReadStates
      /\ \A p \in Processes, t \in Threads : p # t
  BY ConstantsAssumption DEF StoreStates, RemovalStates, ReadStates, Processes
<1>1. ASSUME NEW p \in Processes, NEW x, pc' = [pc EXCEPT ![p] = x],
             \A a \in Actors : pc[a] = "idle"
      PROVE  OneProcess'
  BY <1>1 DEF OneProcess, Typed
<1>2. ASSUME NEW a \in Actors, NEW x, pc' = [pc EXCEPT ![a] = x], a \in Threads \/ pc[a] # "idle"
      PROVE  OneProcess'
  BY <1>0, <1>2 DEF OneProcess, Typed
<1>3. ASSUME NEW a \in Adders, Authorize(a) PROVE OneProcess'
  BY <1>1, <1>3 DEF Authorize, CanStart, Goto
<1>4. ASSUME NEW a \in Writers, SetToken(a) PROVE OneProcess'
  <2>1. PICK x \in {"idle"} \cup StoreStates : pc' = [pc EXCEPT ![a] = x]
    BY <1>4, WriterMoves
  <2>2. pc[a] # "idle" /\ a \in Actors
    BY <1>0, <1>4, WriterMoves DEF Actors
  <2> QED
    BY <1>2, <2>1, <2>2
<1>5. ASSUME NEW r \in Removers, StartRemoval(r) PROVE OneProcess'
  BY <1>1, <1>5 DEF StartRemoval, CanStart, Goto
<1>6. ASSUME NEW r \in Removers, RemovePrimary(r) \/ RemoveLegacy(r) \/ RemovalFails(r)
      PROVE  OneProcess'
  <2>1. PICK x \in {"idle"} \cup RemovalStates : pc' = [pc EXCEPT ![r] = x]
    BY <1>6, RemoverMoves
  <2>2. pc[r] # "idle" /\ r \in Actors
    BY <1>0, <1>6, RemoverMoves
  <2> QED
    BY <1>2, <2>1, <2>2
<1>7. ASSUME NEW s \in Sessions, StartSession(s) PROVE OneProcess'
  BY <1>1, <1>7 DEF StartSession, CanStart, Goto
<1>8. ASSUME NEW s \in Sessions, GetToken(s) PROVE OneProcess'
  <2>1. PICK x \in {"idle", "open"} \cup ReadStates : pc' = [pc EXCEPT ![s] = x]
    BY <1>8, ReaderMoves
  <2>2. pc[s] # "idle" /\ s \in Actors
    BY <1>0, <1>8, ReaderMoves
  <2> QED
    BY <1>2, <2>1, <2>2
<1>9. ASSUME NEW s \in Sessions, Close(s) PROVE OneProcess'
  BY <1>2, <1>9 DEF Close, Done, Goto
<1>10. ASSUME NEW s \in Sessions, NEW c \in Calls, Obtain(s, c) \/ Lock(s, c) PROVE OneProcess'
  <2>1. <<s, c>> \in Threads
    BY DEF Threads
  <2>2. PICK x : pc' = [pc EXCEPT ![<<s, c>>] = x]
    BY <1>10 DEF Obtain, Lock, Done, Goto
  <2> QED
    BY <1>2, <2>1, <2>2
<1>11. ASSUME NEW p \in Processes, Crash(p) PROVE OneProcess'
  <2>1. \A a \in Actors : pc'[a] \in {pc[a], "idle"}
    BY <1>11 DEF Crash
  <2> QED
    BY <2>1 DEF OneProcess
<1>12. CASE UNCHANGED vars
  BY <1>12 DEF vars, OneProcess
<1> QED
  BY <1>3, <1>4, <1>5, <1>6, <1>7, <1>8, <1>9, <1>10, <1>11, <1>12 DEF Next

LEMMA ControlKept ==
  ASSUME Typed, Control, Serial, [Next]_vars
  PROVE  Control'
BY WorkingKept, OneProcessKept DEF Control

---------------------------------------------------------------------------
(* The mutex.                                                              *)

\* A mutex that is held is held by a request of its own process that is storing
\* a token, so that no request waits for one that nobody will release.
Held ==
  \A s \in Sessions :
    holder[s] = Free \/ \E c \in Calls : holder[s] = <<s, c>> /\ pc[<<s, c>>] \in StoreStates

\* Of the requests of one process at most one is writing at a time.
TakeTurns ==
  \A s \in Sessions, c, d \in Calls :
    pc[<<s, c>>] \in StoreStates /\ pc[<<s, d>>] \in StoreStates => c = d

LEMMA HeldMoves ==
  ASSUME Typed, Held, NEW a \in Actors, NEW x, pc' = [pc EXCEPT ![a] = x],
         holder' = holder, x \in StoreStates \/ pc[a] \notin StoreStates
  PROVE  Held'
BY DEF Held, Typed, Actors, Writers, Threads

LEMMA HeldKept ==
  ASSUME Typed, Working, Held, [Next]_vars
  PROVE  Held'
<1> Adders \cup Removers \cup Sessions \cup Threads \subseteq Actors
  BY DEF Actors, Writers
<1>0. /\ "idle" \notin StoreStates /\ "open" \notin StoreStates /\ "obtained" \notin StoreStates
      /\ "storing" \in StoreStates
      /\ \A x \in ReadStates \cup RemovalStates : x \notin StoreStates
  BY DEF StoreStates, RemovalStates, ReadStates
<1>1. ASSUME NEW a \in Adders, Authorize(a) PROVE Held'
  BY <1>0, <1>1, HeldMoves DEF Authorize, CanStart, Goto
<1>2. ASSUME NEW a \in Writers, SetToken(a) PROVE Held'
  <2>1. PICK x \in {"idle"} \cup StoreStates : pc' = [pc EXCEPT ![a] = x]
    BY <1>2, WriterMoves
  <2>2. a \in Actors /\ pc'[a] = x
    BY <2>1 DEF Typed, Actors
  <2>3. CASE x # "idle"
    <3>1. holder' = holder
      BY <1>2, <2>2, <2>3, StoringKeepsLock
    <3> QED
      BY <2>1, <2>2, <2>3, <3>1, HeldMoves
  <2>4. CASE x = "idle"
    <3>1. holder' = [s \in Sessions |-> IF holder[s] = a THEN Free ELSE holder[s]]
      BY <1>2, <2>2, <2>4, WriterMoves
    <3>2. ASSUME NEW s \in Sessions, NEW c \in Calls, holder[s] = <<s, c>>, <<s, c>> # a,
                 pc[<<s, c>>] \in StoreStates
          PROVE  holder'[s] = <<s, c>> /\ pc'[<<s, c>>] \in StoreStates
      <4>1. <<s, c>> \in Actors
        BY DEF Threads
      <4> QED
        BY <2>1, <3>1, <3>2, <4>1 DEF Typed
    <3>3. \A s \in Sessions : holder[s] \in {a, Free} => holder'[s] = Free
      BY <3>1
    <3> QED
      BY <3>2, <3>3 DEF Held
  <2> QED
    BY <2>3, <2>4
<1>3. ASSUME NEW r \in Removers, StartRemoval(r) PROVE Held'
  BY <1>0, <1>3, HeldMoves DEF StartRemoval, CanStart, Goto
<1>4. ASSUME NEW r \in Removers, RemovePrimary(r) \/ RemoveLegacy(r) \/ RemovalFails(r) PROVE Held'
  BY <1>0, <1>4, RemoverMoves, HeldMoves
<1>5. ASSUME NEW s \in Sessions, StartSession(s) PROVE Held'
  BY <1>0, <1>5, HeldMoves DEF StartSession, CanStart, Goto
<1>6. ASSUME NEW s \in Sessions, GetToken(s) PROVE Held'
  BY <1>0, <1>6, ReaderMoves, HeldMoves
<1>7. ASSUME NEW s \in Sessions, Close(s) PROVE Held'
  BY <1>0, <1>7, HeldMoves DEF Close, Done, Goto
<1>8. ASSUME NEW s \in Sessions, NEW c \in Calls, Obtain(s, c) PROVE Held'
  <2>1. <<s, c>> \in Actors
    BY DEF Threads
  <2> QED
    BY <1>0, <1>8, <2>1, HeldMoves DEF Obtain, Goto
<1>9. ASSUME NEW s \in Sessions, NEW c \in Calls, Lock(s, c) PROVE Held'
  <2>1. <<s, c>> \in Actors /\ pc[<<s, c>>] = "obtained"
    BY <1>9 DEF Lock, Threads
  <2>2. CASE data[<<s, c>>] = kept[s]
    BY <1>0, <1>9, <2>1, <2>2, HeldMoves DEF Lock, Done, Goto
  <2>3. CASE data[<<s, c>>] # kept[s]
    <3>1. pc' = [pc EXCEPT ![<<s, c>>] = "storing"] /\ holder' = [holder EXCEPT ![s] = <<s, c>>]
      BY <1>9, <2>3 DEF Lock, Goto
    <3>2. holder'[s] = <<s, c>> /\ pc'[<<s, c>>] \in StoreStates
      BY <1>0, <2>1, <3>1 DEF Typed
    <3>3. ASSUME NEW u \in Sessions, NEW d \in Calls, u # s, holder[u] = <<u, d>>,
                 pc[<<u, d>>] \in StoreStates
          PROVE  holder'[u] = <<u, d>> /\ pc'[<<u, d>>] \in StoreStates
      BY <3>1, <3>3 DEF Typed, Actors, Writers, Threads
    <3>4. \A u \in Sessions : u # s => holder'[u] = holder[u]
      BY <3>1 DEF Typed
    <3> QED
      BY <3>2, <3>3, <3>4 DEF Held
  <2> QED
    BY <2>2, <2>3
<1>10. ASSUME NEW p \in Adders \cup Removers \cup Sessions, Crash(p) PROVE Held'
  <2>1. ASSUME NEW s \in Sessions, s # p, NEW c \in Calls, holder[s] = <<s, c>>,
               pc[<<s, c>>] \in StoreStates
        PROVE  holder'[s] = <<s, c>> /\ pc'[<<s, c>>] \in StoreStates
    <3>1. <<s, c>> \in Threads /\ <<s, c>> \notin Parts(p)
      BY <2>1, ConstantsAssumption DEF Parts, Threads
    <3> QED
      BY <1>10, <2>1, <3>1 DEF Crash
  <2>2. \A s \in Sessions : holder'[s] = IF s = p THEN Free ELSE holder[s]
    BY <1>10 DEF Crash
  <2> QED
    BY <2>1, <2>2 DEF Held
<1>11. CASE UNCHANGED vars
  BY <1>11 DEF vars, Held
<1> QED
  BY <1>1, <1>2, <1>3, <1>4, <1>5, <1>6, <1>7, <1>8, <1>9, <1>10, <1>11 DEF Next

---------------------------------------------------------------------------
(* What the keyring holds.                                                 *)

WriteStates == StoreStates \cup RemovalStates

LEMMA QuietMeans == Quiet <=> \A a \in Actors : pc[a] \notin WriteStates
BY DEF Quiet, Writing, WriteStates, StoreStates, RemovalStates

LEMMA QuietMeansNext == Quiet' <=> \A a \in Actors : pc'[a] \notin WriteStates
BY DEF Quiet, Writing, WriteStates, StoreStates, RemovalStates

\* Steps of those who do not write leave what was reported alone.
LEMMA ReportedStays ==
  ASSUME Reported, UNCHANGED ring, UNCHANGED past, NEW a \in Actors,
         pc[a] \notin WriteStates, \A b \in Actors : b # a => pc'[b] = pc[b]
  PROVE  Reported'
<1>1. CASE ~Quiet'
  BY <1>1 DEF Reported
<1>2. CASE Quiet'
  <2>1. Quiet
    BY <1>2, QuietMeans, QuietMeansNext
  <2> QED
    BY <2>1 DEF Reported, Effective, ring, past
<1> QED
  BY <1>1, <1>2

LEMMA ContentWritten ==
  ASSUME Typed, Carrying, Control, Content, Alone, NEW a \in Writers, SetToken(a)
  PROVE  Content'
<1> /\ a \in Actors /\ pc[a] \in StoreStates /\ pc[a] \in RingStates
    /\ data' = data /\ data[a] \in Tokens /\ Underway(a)
    /\ (\A b \in Actors : b # a => pc'[b] = pc[b]) /\ pc \in [Actors -> States]
  BY WriterMoves DEF Writers, Actors, RingStates, Carrying, Content, Typed
<1> None \notin Tokens /\ Blank \notin Tokens /\ None # Blank
  BY DEF None, Blank, Tokens
<1> SUFFICES Underway(a)' /\ Reported'
  BY OthersWait DEF Content
<1>1. CASE StorePrimary(a)
  <2>1. pc'[a] = "verifying" /\ primary' \in {data[a], Blank}
    BY <1>1 DEF StorePrimary, Proceed, Goto
  <2>2. ~Quiet'
    BY <2>1, QuietMeansNext DEF WriteStates, StoreStates
  <2> QED
    BY <2>1, <2>2 DEF Underway, Reported
<1>2. CASE Verify(a)
  <2>0. pc[a] = "verifying" /\ primary' = primary /\ legacy' = legacy
    BY <1>2 DEF Verify, ring
  <2>1. CASE primary \in {None, Blank}
    <3>1. pc'[a] = "idle" /\ doubt' = TRUE
      BY <1>2, <2>1 DEF Verify, NotStored, Returned, Done, Goto
    <3> QED
      BY <3>1 DEF Underway, Reported
  <2>2. CASE primary \notin {None, Blank} /\ Default
    <3>1. pc'[a] = "copying"
      BY <1>2, <2>2 DEF Verify, Proceed, Goto
    <3>2. ~Quiet'
      BY <3>1, QuietMeansNext DEF WriteStates, StoreStates
    <3> QED
      BY <2>0, <2>2, <3>1, <3>2 DEF Underway, Reported
  <2>3. CASE primary \notin {None, Blank} /\ ~Default
    <3>1. pc'[a] = "idle" /\ promised' = data[a]
      BY <1>2, <2>3 DEF Verify, Stored, Returned, Done, Goto
    <3>2. primary = data[a]
      BY <2>0, <2>3 DEF Underway
    <3> QED
      BY <2>0, <2>3, <3>1, <3>2 DEF Underway, Reported, Effective
  <2> QED
    BY <2>1, <2>2, <2>3
<1>3. CASE StoreLegacy(a)
  <2>1. /\ pc[a] = "copying" /\ pc'[a] = "idle" /\ promised' = data[a] /\ primary' = primary
        /\ legacy' = data[a] \/ "blank copy" \in Faults
    BY <1>3 DEF StoreLegacy, Stored, Returned, Done, Goto, Fault
  <2>2. Default /\ primary = data[a] /\ legacy' = data[a]
    BY <2>1 DEF Underway, Alone
  <2> QED
    BY <2>1, <2>2 DEF Underway, Reported, Effective
<1>4. CASE StoreFails(a)
  <2>1. pc'[a] = "idle" /\ doubt' = TRUE
    BY <1>4 DEF StoreFails, NotStored, Returned, Done, Goto
  <2> QED
    BY <2>1 DEF Underway, Reported
<1> QED
  BY <1>1, <1>2, <1>3, <1>4 DEF SetToken

LEMMA ContentRemoved ==
  ASSUME Typed, Control, Content, NEW r \in Removers,
         RemovePrimary(r) \/ RemoveLegacy(r) \/ RemovalFails(r)
  PROVE  Content'
<1> /\ r \in Actors /\ pc[r] \in RemovalStates /\ pc[r] \in RingStates
    /\ data' = data /\ Underway(r)
    /\ (\A b \in Actors : b # r => pc'[b] = pc[b]) /\ pc \in [Actors -> States]
  BY RemoverMoves DEF Actors, RingStates, Content, Typed
<1> SUFFICES Underway(r)' /\ Reported'
  BY OthersWait DEF Content
<1>1. CASE RemovePrimary(r)
  <2>1. CASE Default
    <3>1. pc'[r] = "removing legacy" /\ primary' = None
      BY <1>1, <2>1 DEF RemovePrimary, Goto
    <3>2. ~Quiet'
      BY <3>1, QuietMeansNext DEF WriteStates, RemovalStates
    <3> QED
      BY <2>1, <3>1, <3>2 DEF Underway, Reported
  <2>2. CASE ~Default
    <3>1. pc'[r] = "idle" /\ primary' = None /\ promised' = None
      BY <1>1, <2>2 DEF RemovePrimary, Removed, Done, Goto
    <3> QED
      BY <2>2, <3>1 DEF Underway, Reported, Effective
  <2> QED
    BY <2>1, <2>2
<1>2. CASE RemoveLegacy(r)
  <2>1. /\ pc[r] = "removing legacy" /\ pc'[r] = "idle"
        /\ primary' = primary /\ legacy' = None /\ promised' = None
    BY <1>2 DEF RemoveLegacy, Removed, Done, Goto
  <2>2. Default /\ primary = None
    BY <2>1 DEF Underway
  <2> QED
    BY <2>1, <2>2 DEF Underway, Reported, Effective
<1>3. CASE RemovalFails(r)
  <2>1. pc'[r] = "idle" /\ doubt' = TRUE
    BY <1>3 DEF RemovalFails, Done, Goto
  <2> QED
    BY <2>1 DEF Underway, Reported
<1> QED
  BY <1>1, <1>2, <1>3

LEMMA ContentRead ==
  ASSUME Typed, Control, Content, Alone, NEW s \in Sessions, GetToken(s)
  PROVE  Content'
<1> /\ s \in Actors /\ pc[s] \in ReadStates /\ pc[s] \in RingStates /\ Underway(s)
    /\ (\A b \in Actors : b # s => pc'[b] = pc[b]) /\ pc \in [Actors -> States]
    /\ data \in [Actors -> Entries]
  BY ReaderMoves DEF Actors, RingStates, Content, Typed
<1>0. pc[s] \notin WriteStates
  BY DEF ReadStates, WriteStates, StoreStates, RemovalStates
<1> SUFFICES Underway(s)' /\ Reported'
  BY OthersWait DEF Content
<1>1. CASE ReadPrimary(s)
  <2>1. UNCHANGED ring /\ UNCHANGED past
    BY <1>1 DEF ReadPrimary, Proceed, Open
  <2>2. Reported'
    BY <1>0, <2>1, ReportedStays DEF Content
  <2>3. CASE primary = None /\ Default
    <3>1. pc'[s] = "reading legacy"
      BY <1>1, <2>3 DEF ReadPrimary, Proceed, Goto
    <3> QED
      BY <2>2, <2>3, <3>1 DEF Underway
  <2>4. CASE ~(primary = None /\ Default)
    <3>1. pc'[s] \in {"open", "idle"}
      BY <1>1, <2>4 DEF ReadPrimary, Open, Done, Goto
    <3> QED
      BY <2>2, <3>1 DEF Underway
  <2> QED
    BY <2>3, <2>4
<1>2. CASE ReadFails(s)
  <2>1. UNCHANGED ring /\ UNCHANGED past
    BY <1>2 DEF ReadFails, Proceed
  <2>2. Reported'
    BY <1>0, <2>1, ReportedStays DEF Content
  <2>3. (Default /\ pc'[s] = "reading legacy") \/ pc'[s] = "idle"
    BY <1>2 DEF ReadFails, Proceed, Goto
  <2> QED
    BY <2>2, <2>3 DEF Underway
<1>3. CASE ReadLegacy(s)
  <2>1. UNCHANGED ring /\ UNCHANGED past /\ pc[s] = "reading legacy"
    BY <1>3 DEF ReadLegacy
  <2>2. Reported' /\ Default
    BY <1>0, <2>1, ReportedStays DEF Content, Underway
  <2>3. pc'[s] = "idle" \/ (pc'[s] = "migrating" /\ data'[s] = legacy)
    BY <1>3 DEF ReadLegacy, Done, Goto, Carry
  <2> QED
    BY <2>1, <2>2, <2>3 DEF Underway, ring
<1>4. CASE Migrate(s)
  <2>1. /\ pc[s] = "migrating" /\ pc'[s] \in {"open", "idle"}
        /\ UNCHANGED past /\ legacy' = legacy /\ (primary' = data[s] \/ "blank copy" \in Faults)
    BY <1>4 DEF Migrate, Open, Done, Goto, Fault
  <2>2. Default /\ primary' = legacy
    BY <2>1 DEF Underway, Alone
  <2>3. Quiet' => Quiet
    BY <1>0, QuietMeans, QuietMeansNext
  <2>4. Reported'
    BY <2>1, <2>2, <2>3 DEF Content, Reported, Effective, past
  <2> QED
    BY <2>1, <2>4 DEF Underway
<1>5. CASE MigrationFails(s)
  <2>1. UNCHANGED ring /\ UNCHANGED past /\ pc'[s] = "idle"
    BY <1>5 DEF MigrationFails, Done, Goto
  <2> QED
    BY <1>0, <2>1, ReportedStays DEF Content, Underway
<1> QED
  BY <1>1, <1>2, <1>3, <1>4, <1>5 DEF GetToken

LEMMA ContentKept ==
  ASSUME Typed, Carrying, Control, Content, Alone, [Next]_vars
  PROVE  Content'
<1> /\ Adders \cup Removers \cup Sessions \cup Threads \subseteq Actors
    /\ pc \in [Actors -> States] /\ data \in [Actors -> Entries]
  BY DEF Actors, Writers, Typed
<1>0. {"idle", "obtained", "open"} \cap WriteStates = {}
  BY DEF WriteStates, StoreStates, RemovalStates
<1>1. ASSUME NEW a \in Actors, UNCHANGED ring, UNCHANGED past, pc[a] \notin WriteStates,
             pc'[a] \in {"idle", "obtained", "open", "storing", "removing", "reading"},
             \A b \in Actors : b # a => pc'[b] = pc[b] /\ data'[b] = data[b]
      PROVE  Content'
  <2>1. pc'[a] \in States \ {"verifying", "copying", "removing legacy", "reading legacy", "migrating"}
    BY <1>1 DEF States
  <2>2. \A b \in Actors : Underway(b)'
    BY <1>1, <2>1, RingUntouched DEF Content
  <2>3. Reported'
    BY <1>1, ReportedStays DEF Content
  <2> QED
    BY <2>2, <2>3 DEF Content
<1>2. ASSUME NEW a \in Adders, Authorize(a) PROVE Content'
  <2>1. /\ UNCHANGED ring /\ UNCHANGED past /\ pc[a] = "idle" /\ pc'[a] = "storing"
        /\ \A b \in Actors : b # a => pc'[b] = pc[b] /\ data'[b] = data[b]
    BY <1>2 DEF Authorize, CanStart, Goto, Carry
  <2> QED
    BY <1>0, <1>1, <2>1
<1>3. ASSUME NEW r \in Removers, StartRemoval(r) PROVE Content'
  <2>1. /\ UNCHANGED ring /\ UNCHANGED past /\ pc[r] = "idle" /\ pc'[r] = "removing"
        /\ \A b \in Actors : b # r => pc'[b] = pc[b] /\ data'[b] = data[b]
    BY <1>3 DEF StartRemoval, CanStart, Goto
  <2> QED
    BY <1>0, <1>1, <2>1
<1>4. ASSUME NEW s \in Sessions, StartSession(s) \/ Close(s) PROVE Content'
  <2>1. /\ UNCHANGED ring /\ UNCHANGED past
        /\ pc[s] \in {"idle", "open"} /\ pc'[s] \in {"idle", "reading"}
        /\ \A b \in Actors : b # s => pc'[b] = pc[b] /\ data'[b] = data[b]
    BY <1>4 DEF StartSession, Close, CanStart, Goto, Done
  <2> QED
    BY <1>0, <1>1, <2>1
<1>5. ASSUME NEW s \in Sessions, NEW c \in Calls, Obtain(s, c) PROVE Content'
  <2> DEFINE t == <<s, c>>
  <2>1. t \in Actors
    BY DEF Threads
  <2>2. /\ UNCHANGED ring /\ UNCHANGED past /\ pc[t] = "idle" /\ pc'[t] = "obtained"
        /\ \A b \in Actors : b # t => pc'[b] = pc[b] /\ data'[b] = data[b]
    BY <1>5, <2>1 DEF Obtain, Goto, Carry
  <2> QED
    BY <1>0, <1>1, <2>1, <2>2
<1>6. ASSUME NEW s \in Sessions, NEW c \in Calls, Lock(s, c) PROVE Content'
  <2> DEFINE t == <<s, c>>
  <2>1. t \in Actors
    BY DEF Threads
  <2>2. /\ UNCHANGED ring /\ UNCHANGED past /\ pc[t] = "obtained" /\ pc'[t] \in {"idle", "storing"}
        /\ \A b \in Actors : b # t => pc'[b] = pc[b] /\ data'[b] = data[b]
    BY <1>6, <2>1 DEF Lock, Goto, Done
  <2> QED
    BY <1>0, <1>1, <2>1, <2>2
<1>7. ASSUME NEW p \in Adders \cup Removers \cup Sessions, Crash(p)
      PROVE  Content'
  <2>1. /\ UNCHANGED ring /\ data' = data /\ promised' = promised
        /\ \A a \in Actors : pc'[a] = "idle" \/ pc'[a] = pc[a]
    BY <1>7 DEF Crash
  <2>2. \A a \in Actors : Underway(a)'
    BY <2>1 DEF Content, Underway, ring
  <2>3. Reported'
    <3>1. CASE \E a \in Parts(p) : Writing(a)
      BY <1>7, <3>1 DEF Crash, Reported
    <3>2. CASE ~ \E a \in Parts(p) : Writing(a)
      <4>1. doubt' = (doubt \/ FALSE)
        BY <1>7, <3>2 DEF Crash
      <4>2. \A a \in Actors : a \notin Parts(p) => pc'[a] = pc[a]
        BY <1>7 DEF Crash
      <4>3. \A a \in Parts(p) : pc[a] \notin WriteStates
        BY <3>2 DEF Writing, WriteStates, StoreStates, RemovalStates
      <4>4. Quiet' => Quiet
        BY <4>2, <4>3, QuietMeans, QuietMeansNext
      <4> QED
        BY <2>1, <4>1, <4>4 DEF Content, Reported, Effective, ring
    <3> QED
      BY <3>1, <3>2
  <2> QED
    BY <2>2, <2>3 DEF Content
<1>8. CASE UNCHANGED vars
  <2>1. \A a \in Actors : Underway(a)'
    BY <1>8 DEF vars, ring, Content, Underway
  <2>2. Reported'
    <3>1. Quiet' => Quiet
      BY <1>8, QuietMeans, QuietMeansNext DEF vars
    <3> QED
      BY <1>8, <3>1 DEF vars, ring, past, Content, Reported, Effective
  <2> QED
    BY <2>1, <2>2 DEF Content
<1>9. ASSUME NEW a \in Writers, SetToken(a) PROVE Content'
  BY <1>9, ContentWritten
<1>10. ASSUME NEW r \in Removers, RemovePrimary(r) \/ RemoveLegacy(r) \/ RemovalFails(r)
       PROVE  Content'
  BY <1>10, ContentRemoved
<1>11. ASSUME NEW s \in Sessions, GetToken(s) PROVE Content'
  BY <1>11, ContentRead
<1> QED
  BY <1>2, <1>3, <1>4, <1>5, <1>6, <1>7, <1>8, <1>9, <1>10, <1>11 DEF Next

---------------------------------------------------------------------------
LEMMA Initially == Init => Typed /\ Carrying /\ Control /\ Content
<1> SUFFICES ASSUME Init PROVE Typed /\ Carrying /\ Control /\ Content
  OBVIOUS
<1>0. PICK k \in Starts : primary = k[1] /\ legacy = k[2] /\ issued = k[3] /\ promised = k[3]
  BY DEF Init
<1>1. /\ primary \in {None, 1} /\ legacy \in {None, 1} /\ issued \in {0, 1}
      /\ promised = issued /\ Effective = issued /\ (Default => legacy = issued)
  <2>1. k = <<None, None, 0>> \/ k = <<1, IF Default THEN 1 ELSE None, 1>> \/ (Default /\ k = <<None, 1, 1>>)
    BY DEF Starts
  <2> QED
    BY <1>0, <2>1 DEF None, Effective
<1>2. /\ pc = [a \in Actors |-> "idle"] /\ data = [a \in Actors |-> None]
      /\ base = [s \in Sessions |-> None] /\ kept = [s \in Sessions |-> None]
      /\ holder = [s \in Sessions |-> Free] /\ faultsLeft = MaxFaults
  BY DEF Init
<1>3. None = 0 /\ 1 \in Tokens /\ "idle" \in States
  BY ConstantsAssumption DEF None, Tokens, States
<1>4. Typed
  <2>1. issued \in 0 .. MaxTokens /\ faultsLeft \in 0 .. MaxFaults
    BY <1>1, <1>2, ConstantsAssumption
  <2> QED
    BY <1>1, <1>2, <1>3, <2>1 DEF Typed, Entries
<1>5. Carrying
  BY <1>2 DEF Carrying, StoreStates, Actors
<1>6. Control
  BY <1>2 DEF Control, Working, Roles, Owned, OneProcess, Actors, Writers, Threads, Processes, StoreStates
<1>7. Content
  BY <1>1, <1>2 DEF Content, Underway, Reported
<1> QED
  BY <1>4, <1>5, <1>6, <1>7

LEMMA HeldInitially == Init => Held
  BY DEF Init, Held

(* However many processes use the account at a time, and whatever is killed   *)
(* or refused: the requests of a process store their tokens one after the     *)
(* other, and nobody waits for a mutex that is not going to be released.      *)
THEOREM RequestsTakeTurns == Spec => [](TakeTurns /\ Held)
<1> DEFINE I == Typed /\ Carrying /\ Working /\ Held
<1>1. Init => I
  BY Initially, HeldInitially DEF Control
<1>2. I /\ [Next]_vars => I'
  BY TypesKept, CarryingKept, WorkingKept, HeldKept
<1>3. I => TakeTurns /\ Held
  BY DEF Working, Owned, TakeTurns
<1> QED
  BY <1>1, <1>2, <1>3, PTL DEF Spec

LEMMA DoubtKept == doubt \in BOOLEAN /\ [Next]_vars => doubt' \in BOOLEAN
<1> SUFFICES ASSUME doubt \in BOOLEAN, [Next]_vars PROVE doubt' \in BOOLEAN
  OBVIOUS
<1> USE DEF past
<1>1. ASSUME NEW a \in Adders, Authorize(a) PROVE doubt' \in BOOLEAN
  BY <1>1 DEF Authorize
<1>2. ASSUME NEW a \in Writers, SetToken(a) PROVE doubt' \in BOOLEAN
  <2>1. CASE StorePrimary(a)
    BY <2>1 DEF StorePrimary, Proceed
  <2>2. CASE Verify(a)
    BY <2>2 DEF Verify, NotStored, Stored, Proceed
  <2>3. CASE StoreLegacy(a)
    BY <2>3 DEF StoreLegacy, Stored
  <2>4. CASE StoreFails(a)
    BY <2>4 DEF StoreFails, NotStored
  <2> QED
    BY <1>2, <2>1, <2>2, <2>3, <2>4 DEF SetToken
<1>3. ASSUME NEW r \in Removers,
             StartRemoval(r) \/ RemovePrimary(r) \/ RemoveLegacy(r) \/ RemovalFails(r)
      PROVE  doubt' \in BOOLEAN
  BY <1>3 DEF StartRemoval, RemovePrimary, RemoveLegacy, RemovalFails, Removed
<1>4. ASSUME NEW s \in Sessions, StartSession(s) \/ Close(s) \/ GetToken(s)
      PROVE  doubt' \in BOOLEAN
  <2>1. CASE StartSession(s)
    BY <2>1 DEF StartSession
  <2>2. CASE Close(s)
    BY <2>2 DEF Close
  <2>3. CASE GetToken(s)
    <3>1. doubt' = doubt
      BY <2>3 DEF GetToken, ReadPrimary, ReadFails, ReadLegacy, Migrate, MigrationFails, Proceed, Open
    <3> QED
      BY <3>1
  <2> QED
    BY <1>4, <2>1, <2>2, <2>3
<1>5. ASSUME NEW s \in Sessions, NEW c \in Calls, Obtain(s, c) \/ Lock(s, c)
      PROVE  doubt' \in BOOLEAN
  BY <1>5 DEF Obtain, Lock
<1>6. ASSUME NEW p \in Adders \cup Removers \cup Sessions, Crash(p)
      PROVE  doubt' \in BOOLEAN
  BY <1>6 DEF Crash
<1>7. CASE UNCHANGED vars
  BY <1>7 DEF vars
<1> QED
  BY <1>1, <1>2, <1>3, <1>4, <1>5, <1>6, <1>7 DEF Next

\* Values have their types: in particular, no command ever uses an entry that is
\* no token.
THEOREM TypesCorrect == Spec => []TypeOK
<1> DEFINE Inv == Typed /\ Carrying /\ doubt \in BOOLEAN
<1>1. Init => Inv
  BY Initially DEF Init
<1>2. Inv /\ [Next]_vars => Inv'
  BY TypesKept, CarryingKept, DoubtKept
<1>3. Inv => TypeOK
  BY DEF Typed, TypeOK
<1> QED
  BY <1>1, <1>2, <1>3, PTL DEF Spec

LEMMA InvariantHolds == Alone /\ Spec => []Invariant
<1> SUFFICES ASSUME Alone PROVE Spec => []Invariant
  OBVIOUS
<1>1. Init => Invariant
  BY Initially DEF Invariant
<1>2. Invariant /\ [Next]_vars => Invariant'
  BY TypesKept, CarryingKept, ControlKept, ContentKept DEF Alone, Invariant
<1> QED
  BY <1>1, <1>2, PTL DEF Spec

\* What `auth add`, a rotation or `auth remove` reported as done is what the next
\* command finds, for any number of processes that run one at a time, of requests
\* in them, of failures and of kills.
THEOREM ReportedIsFound == Alone /\ Spec => []Settled
<1>1. Invariant => Settled
  BY DEF Invariant, Content, Reported, Settled
<1> QED
  BY <1>1, InvariantHolds, PTL

\* So is what older versions find under their key.
THEOREM OlderVersionsFindIt == Alone /\ Spec => []LegacyFollows
<1>1. Invariant => LegacyFollows
  BY DEF Invariant, Content, Reported, LegacyFollows
<1> QED
  BY <1>1, InvariantHolds, PTL

---------------------------------------------------------------------------
(* A command that makes one request at a time keeps the newest token.      *)

OneCall == Alone /\ "crash" \notin Faults /\ \A c, d \in Calls : c = d

\* No token is newer than the last one Google has issued.
Bounded ==
  /\ primary <= issued /\ legacy <= issued
  /\ \A a \in Actors : data[a] <= issued
  /\ \A s \in Sessions : base[s] <= issued /\ kept[s] <= issued

\* What is stored is the newest token, and what the source of an open session
\* holds is that or what is stored already.
Newest ==
  /\ \A a \in Writers : pc[a] \in StoreStates => data[a] = issued
  /\ \A s \in Sessions, c \in Calls :
       pc[<<s, c>>] \in StoreStates \cup {"obtained"} => data[<<s, c>>] = base[s]
  /\ \A s \in Sessions : pc[s] = "open" => base[s] \in {kept[s], issued}

\* A request has obtained a token that it will store.
Rotated ==
  \E s \in Sessions, c \in Calls : pc[<<s, c>>] = "obtained" /\ base[s] # kept[s]

Current == Quiet /\ ~doubt => promised \in {None, issued} \/ Rotated

NewestInvariant == Bounded /\ Newest /\ Current

LEMMA NewestInitially == Init => NewestInvariant
<1> SUFFICES ASSUME Init PROVE NewestInvariant
  OBVIOUS
<1>1. Bounded
  BY DEF Init, Starts, Bounded, None
<1>2. Newest
  BY DEF Init, Newest, StoreStates, Writers, Actors, Threads
<1>3. promised = issued
  BY DEF Init, Starts
<1> QED
  BY <1>1, <1>2, <1>3 DEF NewestInvariant, Current

---------------------------------------------------------------------------
(* Nothing newer than issued.                                               *)

LEMMA BoundedMoves ==
  ASSUME Typed, Bounded, issued' >= issued, issued' \in Int,
         primary' \in {primary, legacy, Blank, None} \/ primary' \in {data[a] : a \in Actors},
         legacy' \in {legacy, Blank, None} \/ legacy' \in {data[a] : a \in Actors},
         \A a \in Actors : data'[a] \in {data[a], legacy, issued'} \/ data'[a] \in {base[s] : s \in Sessions},
         \A s \in Sessions : base'[s] \in {base[s], None, primary, issued'} \/ base'[s] \in {data[a] : a \in Actors},
         \A s \in Sessions : kept'[s] \in {kept[s], None, primary} \/ kept'[s] \in {data[a] : a \in Actors}
  PROVE  Bounded'
<1> /\ None = 0 /\ Blank = -1 /\ issued \in 0 .. MaxTokens /\ MaxTokens \in Nat
    /\ primary \in Int /\ legacy \in Int
    /\ \A a \in Actors : data[a] \in Int /\ data[a] <= issued
    /\ \A s \in Sessions : base[s] \in Int /\ kept[s] \in Int /\ base[s] <= issued /\ kept[s] <= issued
  BY ConstantsAssumption DEF None, Blank, Typed, Entries, Tokens, Bounded
<1>1. primary' <= issued' /\ legacy' <= issued'
  BY DEF Bounded
<1>2. \A a \in Actors : data'[a] <= issued'
  BY DEF Bounded
<1>3. \A s \in Sessions : base'[s] <= issued' /\ kept'[s] <= issued'
  BY DEF Bounded
<1> QED
  BY <1>1, <1>2, <1>3 DEF Bounded

LEMMA BoundedKept ==
  ASSUME Typed, Carrying, Bounded, [Next]_vars
  PROVE  Bounded'
<1> /\ Adders \cup Removers \cup Sessions \cup Threads \subseteq Actors
    /\ MaxTokens \in Nat /\ issued \in 0 .. MaxTokens
    /\ data \in [Actors -> Entries] /\ kept \in [Sessions -> Tokens \cup {None}]
    /\ base \in [Sessions -> Tokens \cup {None}]
  BY ConstantsAssumption DEF Actors, Writers, Typed
<1>0. issued >= issued /\ issued \in Int /\ issued + 1 >= issued /\ issued + 1 \in Int
  OBVIOUS
<1>1. ASSUME NEW a \in Adders, Authorize(a) PROVE Bounded'
  BY <1>0, <1>1, BoundedMoves DEF Authorize, Carry, ring
<1>2. ASSUME NEW a \in Writers, SetToken(a) PROVE Bounded'
  <2> a \in Actors
    BY DEF Actors
  <2>1. issued' = issued /\ data' = data /\ base' = base
    BY <1>2, WriterMoves
  <2>2. \A s \in Sessions : kept'[s] \in {kept[s], data[a]}
    <3>1. CASE StorePrimary(a)
      BY <3>1 DEF StorePrimary, Proceed
    <3>2. CASE Verify(a)
      BY <3>2 DEF Verify, Proceed, Stored, NotStored, Returned
    <3>3. CASE StoreLegacy(a)
      BY <3>3 DEF StoreLegacy, Stored, Returned
    <3>4. CASE StoreFails(a)
      BY <3>4 DEF StoreFails, NotStored, Returned
    <3> QED
      BY <1>2, <3>1, <3>2, <3>3, <3>4 DEF SetToken
  <2>3. primary' \in {primary, data[a], Blank} /\ legacy' \in {legacy, data[a], Blank}
    BY <1>2 DEF SetToken, StorePrimary, Verify, StoreLegacy, StoreFails, ring
  <2> QED
    BY <1>0, <2>1, <2>2, <2>3, BoundedMoves
<1>3. ASSUME NEW r \in Removers,
             StartRemoval(r) \/ RemovePrimary(r) \/ RemoveLegacy(r) \/ RemovalFails(r)
      PROVE  Bounded'
  <2>1. /\ UNCHANGED <<issued, data, base, kept>>
        /\ primary' \in {primary, None} /\ legacy' \in {legacy, None}
    BY <1>3 DEF StartRemoval, RemovePrimary, RemoveLegacy, RemovalFails, ring
  <2> QED
    BY <1>0, <2>1, BoundedMoves
<1>4. ASSUME NEW s \in Sessions, GetToken(s) PROVE Bounded'
  <2>1. issued' = issued /\ legacy' = legacy /\ primary' \in {primary, data[s], Blank}
    BY <1>4 DEF GetToken, ReadPrimary, ReadFails, ReadLegacy, Migrate, MigrationFails,
                Proceed, Open, ring
  <2>2. \A a \in Actors : data'[a] \in {data[a], legacy}
    BY <1>4 DEF GetToken, ReadPrimary, ReadFails, ReadLegacy, Migrate, MigrationFails,
                Proceed, Open, Carry
  <2>3. \A u \in Sessions : /\ base'[u] \in {base[u], primary, data[s]}
                            /\ kept'[u] \in {kept[u], primary, data[s]}
    BY <1>4 DEF GetToken, ReadPrimary, ReadFails, ReadLegacy, Migrate, MigrationFails,
                Proceed, Open
  <2> QED
    BY <1>0, <2>1, <2>2, <2>3, BoundedMoves
<1>5. ASSUME NEW s \in Sessions, StartSession(s) \/ Close(s) PROVE Bounded'
  BY <1>0, <1>5, BoundedMoves DEF StartSession, Close, ring
<1>6. ASSUME NEW s \in Sessions, NEW c \in Calls, Obtain(s, c) PROVE Bounded'
  <2>1. UNCHANGED ring /\ kept' = kept
    BY <1>6 DEF Obtain
  <2>2. CASE Carry(<<s, c>>, base[s]) /\ UNCHANGED <<issued, base>>
    BY <1>0, <2>1, <2>2, BoundedMoves DEF Carry, ring
  <2>3. CASE /\ issued' = issued + 1 /\ Carry(<<s, c>>, issued + 1)
             /\ base' = [base EXCEPT ![s] = issued + 1]
    BY <1>0, <2>1, <2>3, BoundedMoves DEF Carry, ring
  <2> QED
    BY <1>6, <2>2, <2>3 DEF Obtain
<1>7. ASSUME NEW s \in Sessions, NEW c \in Calls, Lock(s, c) PROVE Bounded'
  BY <1>0, <1>7, BoundedMoves DEF Lock, ring
<1>8. ASSUME NEW p \in Adders \cup Removers \cup Sessions, Crash(p) PROVE Bounded'
  BY <1>0, <1>8, BoundedMoves DEF Crash, ring
<1>9. CASE UNCHANGED vars
  BY <1>0, <1>9, BoundedMoves DEF vars, ring
<1> QED
  BY <1>1, <1>2, <1>3, <1>4, <1>5, <1>6, <1>7, <1>8, <1>9 DEF Next

---------------------------------------------------------------------------
(* The newest one is stored.                                               *)

\* Whoever works on the keyring leaves the rest of the processes alone.
LEMMA OtherSessionsClosed ==
  ASSUME Control, NEW p \in Processes, pc[p] # "idle",
         NEW s \in Sessions, s # p
  PROVE  pc[s] = "idle" /\ \A c \in Calls : pc[<<s, c>>] = "idle"
<1>1. pc[s] = "idle"
  BY DEF Control, Working, OneProcess, Processes
<1> QED
  BY <1>1 DEF Control, Working, Owned

LEMMA WriterNewest ==
  ASSUME Typed, Control, NewestInvariant, OneCall, NEW a \in Writers, SetToken(a)
  PROVE  Newest' /\ Current'
<1>0. /\ pc[a] \in StoreStates /\ a \in Actors /\ pc \in [Actors -> States]
      /\ UNCHANGED <<issued, data, base>> /\ data[a] = issued /\ pc[a] # "idle"
  BY WriterMoves DEF NewestInvariant, Newest, Actors, Typed, StoreStates
<1>1. PICK x \in {"idle"} \cup StoreStates : pc' = [pc EXCEPT ![a] = x]
  BY WriterMoves
<1>2. x = "idle" => doubt' = TRUE \/ promised' = data[a]
  <2> USE DEF StoreStates
  <2>1. CASE StorePrimary(a)
    BY <1>0, <1>1, <2>1 DEF StorePrimary, Proceed, Goto
  <2>2. CASE Verify(a)
    BY <1>0, <1>1, <2>2 DEF Verify, Proceed, Stored, NotStored, Goto
  <2>3. CASE StoreLegacy(a) \/ StoreFails(a)
    BY <2>3 DEF StoreLegacy, StoreFails, Stored, NotStored
  <2> QED
    BY <2>1, <2>2, <2>3 DEF SetToken
<1>3. Current'
  <2>1. CASE x = "idle"
    BY <1>0, <1>2, <2>1 DEF Current
  <2>2. CASE x # "idle"
    BY <1>0, <1>1, <2>2, QuietMeansNext DEF Current, WriteStates
  <2> QED
    BY <2>1, <2>2
<1>4. \A b \in Writers : pc'[b] \in StoreStates => data'[b] = issued'
  BY <1>0, <1>1 DEF NewestInvariant, Newest, Writers, Actors
<1>5. \A s \in Sessions, c \in Calls :
        pc'[<<s, c>>] \in StoreStates \cup {"obtained"} => data'[<<s, c>>] = base'[s]
  BY <1>0, <1>1 DEF NewestInvariant, Newest, Writers, Actors, Threads
<1>6. ASSUME NEW s \in Sessions, pc'[s] = "open" PROVE base'[s] \in {kept'[s], issued'}
  <2>1. pc[s] = "open" /\ s \in Actors
    BY <1>0, <1>1, <1>6 DEF StoreStates, Actors
  <2>2. CASE a \in Adders
    BY <1>0, <2>1, <2>2, ConstantsAssumption DEF Control, Working, OneProcess, Processes
  <2>3. ASSUME NEW u \in Sessions, NEW c \in Calls, a = <<u, c>>
        PROVE  base'[s] = issued'
    <3>1. pc[u] = "open"
      BY <1>0, <2>3 DEF Control, Working, Owned
    <3>2. u = s
      BY <2>1, <3>1 DEF Control, Working, OneProcess, Processes
    <3> QED
      BY <1>0, <2>3, <3>2 DEF NewestInvariant, Newest
  <2> QED
    BY <2>2, <2>3 DEF Writers, Threads
<1> QED
  BY <1>3, <1>4, <1>5, <1>6 DEF Newest

LEMMA ReaderNewest ==
  ASSUME Typed, Control, NewestInvariant, NEW s \in Sessions, GetToken(s)
  PROVE  Newest' /\ Current'
<1>0. /\ pc[s] \in ReadStates /\ s \in Actors /\ pc \in [Actors -> States]
      /\ issued' = issued /\ UNCHANGED past /\ pc[s] # "idle"
      /\ base \in [Sessions -> Tokens \cup {None}] /\ kept \in [Sessions -> Tokens \cup {None}]
  BY ReaderMoves DEF GetToken, ReadPrimary, ReadFails, ReadLegacy, Migrate, MigrationFails,
                     Proceed, Open, Actors, Typed, ReadStates
<1>1. PICK x \in {"idle", "open"} \cup ReadStates : pc' = [pc EXCEPT ![s] = x]
  BY ReaderMoves
<1>2. /\ \A b \in Actors : b # s => data'[b] = data[b]
      /\ \A u \in Sessions : u # s => base'[u] = base[u] /\ kept'[u] = kept[u]
      /\ x = "open" => base'[s] = kept'[s]
  <2> USE <1>0, <1>1 DEF Proceed, Open, Done, Goto, Carry, ReadStates
  <2>1. CASE ReadPrimary(s)
    BY <2>1 DEF ReadPrimary
  <2>2. CASE ReadFails(s) \/ MigrationFails(s)
    BY <2>2 DEF ReadFails, MigrationFails
  <2>3. CASE ReadLegacy(s)
    BY <2>3, ReaderMoves DEF ReadLegacy
  <2>4. CASE Migrate(s)
    BY <2>4 DEF Migrate
  <2> QED
    BY <2>1, <2>2, <2>3, <2>4 DEF GetToken
<1>3. \A c \in Calls : pc[<<s, c>>] = "idle"
  BY <1>0 DEF Control, Working, Owned, ReadStates
<1>4. \A u \in Sessions, c \in Calls : pc[<<u, c>>] = "idle"
  BY <1>0, <1>3, OtherSessionsClosed DEF Processes
<1>5. /\ \A b \in Writers : b # s /\ b \in Actors
      /\ \A u \in Sessions, c \in Calls : <<u, c>> \in Threads /\ <<u, c>> \in Writers
  BY ConstantsAssumption DEF Writers, Threads, Actors
<1>6. ~Rotated
  BY <1>4 DEF Rotated
<1>7. Quiet' => Quiet
  BY <1>0, <1>1, QuietMeans, QuietMeansNext DEF WriteStates, StoreStates, RemovalStates, ReadStates
<1>8. Current'
  BY <1>0, <1>6, <1>7 DEF NewestInvariant, Current, past
<1>9. \A b \in Writers : pc'[b] \in StoreStates => data'[b] = issued'
  BY <1>0, <1>1, <1>2, <1>5 DEF NewestInvariant, Newest
<1>10. \A u \in Sessions, c \in Calls : pc'[<<u, c>>] = "idle"
  BY <1>0, <1>1, <1>4, <1>5
<1>11. ASSUME NEW u \in Sessions, pc'[u] = "open" PROVE base'[u] \in {kept'[u], issued'}
  BY <1>0, <1>1, <1>2, <1>11 DEF NewestInvariant, Newest, Actors
<1> QED
  BY <1>8, <1>9, <1>10, <1>11 DEF Newest, StoreStates

LEMMA RequestNewest ==
  ASSUME Typed, Control, NewestInvariant, OneCall, NEW s \in Sessions, NEW c \in Calls,
         Obtain(s, c) \/ Lock(s, c)
  PROVE  Newest' /\ Current'
<1> DEFINE t == <<s, c>>
<1> /\ t \in Threads /\ t \in Writers /\ t \in Actors /\ Writers \subseteq Actors
    /\ pc \in [Actors -> States] /\ data \in [Actors -> Entries] /\ t # s /\ s \in Actors
    /\ base \in [Sessions -> Tokens \cup {None}]
  BY ConstantsAssumption DEF Threads, Writers, Actors, Typed
<1>1. pc[s] = "open"
  BY DEF Obtain, Lock, Control, Working, Owned
<1>2. \A u \in Sessions : u # s => pc[u] = "idle" /\ \A d \in Calls : pc[<<u, d>>] = "idle"
  BY <1>1, OtherSessionsClosed DEF Processes
<1>3. \A d \in Calls : d = c
  BY DEF OneCall
<1>4. \A a \in Adders : pc[a] = "idle"
  BY <1>1, ConstantsAssumption DEF Control, Working, OneProcess, Processes
<1>5. Rotated => pc[t] = "obtained" /\ base[s] # kept[s]
  BY <1>2, <1>3 DEF Rotated
<1>6. \A b \in Writers : b # t => pc[b] = "idle"
  BY <1>2, <1>3, <1>4 DEF Writers, Threads
<1>7. CASE Obtain(s, c)
  <2>1. /\ pc[t] = "idle" /\ pc' = [pc EXCEPT ![t] = "obtained"] /\ kept' = kept
        /\ UNCHANGED past
    BY <1>7 DEF Obtain, Goto
  <2>2. Quiet' => Quiet
    BY <2>1, QuietMeans, QuietMeansNext DEF WriteStates, StoreStates, RemovalStates
  <2>3. \A b \in Writers : pc'[b] \notin StoreStates
    BY <1>6, <2>1 DEF StoreStates
  <2>4. \A u \in Sessions : pc'[u] = "open" => u = s
    BY <1>2, <2>1, ConstantsAssumption DEF Threads, Actors
  <2>5. CASE Carry(t, base[s]) /\ UNCHANGED <<issued, base>>
    <3>1. data'[t] = base'[s]
      BY <2>5 DEF Carry
    <3>2. Newest'
      BY <1>1, <1>2, <1>3, <2>1, <2>3, <2>4, <2>5, <3>1 DEF NewestInvariant, Newest, Writers, Threads
    <3>3. ~Rotated
      BY <1>5, <2>1
    <3> QED
      BY <2>1, <2>2, <2>5, <3>2, <3>3 DEF NewestInvariant, Current, past
  <2>6. CASE issued' = issued + 1 /\ base' = [base EXCEPT ![s] = issued + 1] /\ Carry(t, issued + 1)
    <3>1. data'[t] = base'[s] /\ base'[s] = issued'
      BY <2>6 DEF Carry
    <3>2. \A d \in Calls, u \in Sessions :
            pc'[<<u, d>>] \in StoreStates \cup {"obtained"} => u = s /\ d = c
      BY <1>2, <1>3, <2>1 DEF Threads, Writers, Actors, StoreStates
    <3>3. Newest'
      BY <2>3, <2>4, <3>1, <3>2 DEF Newest
    <3>4. base'[s] # kept'[s]
      BY <2>1, <3>1, <2>6, ConstantsAssumption DEF NewestInvariant, Bounded, Typed, Tokens, None
    <3>5. Rotated'
      BY <2>1, <3>4 DEF Rotated
    <3> QED
      BY <3>3, <3>5 DEF Current
  <2> QED
    BY <1>7, <2>5, <2>6 DEF Obtain
<1>8. CASE Lock(s, c)
  <2>1. pc[t] = "obtained" /\ UNCHANGED <<issued, data, base, kept>> /\ UNCHANGED past
        /\ data[t] = base[s]
    BY <1>8 DEF Lock, NewestInvariant, Newest
  <2>2. CASE data[t] = kept[s]
    <3>1. pc' = [pc EXCEPT ![t] = "idle"] /\ ~Rotated
      BY <1>5, <1>8, <2>1, <2>2 DEF Lock, Done, Goto
    <3>2. Quiet' => Quiet
      BY <2>1, <3>1, QuietMeans, QuietMeansNext DEF WriteStates, StoreStates, RemovalStates
    <3>3. Newest'
      BY <2>1, <3>1 DEF NewestInvariant, Newest, StoreStates, Threads, Actors, Writers
    <3> QED
      BY <2>1, <3>1, <3>2, <3>3 DEF NewestInvariant, Current, past
  <2>3. CASE data[t] # kept[s]
    <3>1. pc' = [pc EXCEPT ![t] = "storing"] /\ data[t] = issued
      BY <1>1, <1>8, <2>1, <2>3 DEF Lock, Goto, NewestInvariant, Newest
    <3>2. ~Quiet'
      BY <3>1, QuietMeansNext DEF WriteStates, StoreStates
    <3>3. \A b \in Writers : pc'[b] \in StoreStates => data'[b] = issued'
      BY <2>1, <3>1 DEF NewestInvariant, Newest
    <3>4. \A u \in Sessions, d \in Calls :
            pc'[<<u, d>>] \in StoreStates \cup {"obtained"} => data'[<<u, d>>] = base'[u]
      BY <1>2, <1>3, <2>1, <3>1 DEF StoreStates, Threads, Writers, Actors
    <3>5. \A u \in Sessions : pc'[u] = "open" => base'[u] \in {kept'[u], issued'}
      BY <2>1, <3>1 DEF NewestInvariant, Newest, Actors
    <3> QED
      BY <3>2, <3>3, <3>4, <3>5 DEF Newest, Current
  <2> QED
    BY <2>2, <2>3
<1> QED
  BY <1>7, <1>8

LEMMA NewestIsKept ==
  ASSUME Typed, Carrying, Control, NewestInvariant, OneCall, [Next]_vars
  PROVE  NewestInvariant'
<1> Adders \cup Removers \cup Sessions \cup Threads \subseteq Actors /\ Writers \subseteq Actors
  BY DEF Actors, Writers
<1> pc \in [Actors -> States] /\ Serial
  BY DEF Typed, OneCall, Alone
<1>0. Bounded'
  BY BoundedKept DEF NewestInvariant
<1> SUFFICES Newest' /\ Current'
  BY <1>0 DEF NewestInvariant
<1>1. ASSUME NEW a \in Adders, Authorize(a) PROVE Newest' /\ Current'
  <2>1. /\ \A b \in Actors : pc[b] = "idle"
        /\ pc' = [pc EXCEPT ![a] = "storing"] /\ data'[a] = issued'
    BY <1>1 DEF Authorize, CanStart, Goto, Carry, Typed
  <2>2. ~Quiet'
    BY <2>1, QuietMeansNext DEF WriteStates, StoreStates
  <2>3. a \notin Sessions /\ \A u \in Sessions, c \in Calls : <<u, c>> \in Actors /\ <<u, c>> # a
    BY ConstantsAssumption DEF Threads
  <2> QED
    BY <2>1, <2>2, <2>3 DEF Newest, Current, StoreStates
<1>2. ASSUME NEW a \in Writers, SetToken(a) PROVE Newest' /\ Current'
  BY <1>2, WriterNewest
<1>3. ASSUME NEW r \in Removers,
             StartRemoval(r) \/ RemovePrimary(r) \/ RemoveLegacy(r) \/ RemovalFails(r)
      PROVE  Newest' /\ Current'
  <2>1. /\ UNCHANGED <<data, base, kept, issued>>
        /\ \E x \in {"idle"} \cup RemovalStates : pc' = [pc EXCEPT ![r] = x]
    BY <1>3, RemoverMoves DEF StartRemoval, Goto, RemovalStates
  <2>2. Newest'
    BY <2>1 DEF NewestInvariant, Newest, RemovalStates, StoreStates, Threads, Writers, Actors
  <2>3. ~Quiet' \/ doubt' = TRUE \/ promised' = None
    <3>1. CASE StartRemoval(r)
      <4>1. pc'[r] \in WriteStates
        BY <3>1 DEF StartRemoval, Goto, WriteStates, RemovalStates
      <4> QED
        BY <4>1, QuietMeansNext
    <3>2. CASE RemovePrimary(r)
      <4>1. pc'[r] \in WriteStates \/ promised' = None
        BY <3>2 DEF RemovePrimary, Removed, Goto, WriteStates, RemovalStates
      <4> QED
        BY <4>1, QuietMeansNext
    <3>3. CASE RemoveLegacy(r) \/ RemovalFails(r)
      BY <3>3 DEF RemoveLegacy, Removed, RemovalFails
    <3> QED
      BY <1>3, <3>1, <3>2, <3>3
  <2> QED
    BY <2>2, <2>3 DEF Current
<1>4. ASSUME NEW s \in Sessions, StartSession(s) PROVE Newest' /\ Current'
  <2>1. /\ \A b \in Actors : pc[b] = "idle"
        /\ pc' = [pc EXCEPT ![s] = "reading"]
        /\ UNCHANGED <<data, base, kept, issued>> /\ UNCHANGED past
    BY <1>4 DEF StartSession, CanStart, Goto
  <2>2. Quiet' => Quiet
    BY <2>1, QuietMeans, QuietMeansNext DEF WriteStates, StoreStates, RemovalStates
  <2>3. ~Rotated
    BY <2>1 DEF Rotated, Threads
  <2>4. Newest'
    BY <2>1 DEF Newest, StoreStates, Threads, Writers, Actors
  <2> QED
    BY <2>1, <2>2, <2>3, <2>4 DEF NewestInvariant, Current, past
<1>5. ASSUME NEW s \in Sessions, Close(s) PROVE Newest' /\ Current'
  <2>1. /\ pc[s] = "open" /\ pc' = [pc EXCEPT ![s] = "idle"] /\ \A c \in Calls : pc[<<s, c>>] = "idle"
        /\ UNCHANGED <<data, issued>> /\ UNCHANGED past
        /\ base' = [base EXCEPT ![s] = None] /\ kept' = [kept EXCEPT ![s] = None]
    BY <1>5 DEF Close, Done, Goto
  <2>2. \A u \in Sessions, c \in Calls : pc[<<u, c>>] = "idle"
    BY <2>1, OtherSessionsClosed DEF Processes
  <2>3. ~Rotated
    BY <2>2 DEF Rotated
  <2>4. Quiet' => Quiet
    BY <2>1, QuietMeans, QuietMeansNext DEF WriteStates, StoreStates, RemovalStates
  <2>5. \A u \in Sessions, c \in Calls : pc'[<<u, c>>] = "idle"
    BY <2>1, <2>2 DEF Threads
  <2>6. \A a \in Writers : pc'[a] \in StoreStates => data'[a] = issued'
    BY <2>1 DEF NewestInvariant, Newest, StoreStates
  <2>7. \A u \in Sessions : pc'[u] # "open"
    BY <2>1, OtherSessionsClosed DEF Processes
  <2> QED
    BY <2>1, <2>3, <2>4, <2>5, <2>6, <2>7 DEF NewestInvariant, Newest, Current, past, StoreStates
<1>6. ASSUME NEW s \in Sessions, GetToken(s) PROVE Newest' /\ Current'
  BY <1>6, ReaderNewest
<1>7. ASSUME NEW s \in Sessions, NEW c \in Calls, Obtain(s, c) \/ Lock(s, c)
      PROVE  Newest' /\ Current'
  BY <1>7, RequestNewest
<1>8. ASSUME NEW p \in Adders \cup Removers \cup Sessions, Crash(p) PROVE Newest' /\ Current'
  BY <1>8 DEF Crash, Fault, OneCall
<1>9. CASE UNCHANGED vars
  BY <1>9 DEF vars, ring, past, NewestInvariant, Newest, Current, Rotated, Quiet, Writing
<1> QED
  BY <1>1, <1>2, <1>3, <1>4, <1>5, <1>6, <1>7, <1>8, <1>9 DEF Next

\* client_auth.go:47-77: for any number of commands, one at a time, that each make
\* one request at a time and are not killed, whatever the keyring refuses, the
\* token the next command finds is the newest that Google has issued, or a
\* request is about to store it.
THEOREM NewestIsFound == OneCall /\ Spec => []NewestKept
<1> DEFINE Inv == Invariant /\ NewestInvariant
<1> SUFFICES ASSUME OneCall PROVE Spec => []NewestKept
  OBVIOUS
<1>1. Init => Inv
  BY Initially, NewestInitially DEF Invariant
<1>2. Inv /\ [Next]_vars => Inv'
  <2> SUFFICES ASSUME Inv, [Next]_vars PROVE Inv'
    OBVIOUS
  <2>1. Invariant'
    BY TypesKept, CarryingKept, ControlKept, ContentKept DEF OneCall, Alone, Invariant
  <2>2. NewestInvariant'
    BY NewestIsKept DEF Invariant
  <2> QED
    BY <2>1, <2>2
<1>3. Inv => NewestKept
  <2> SUFFICES ASSUME Inv, Serial, Quiet, ~doubt
               PROVE  \/ Effective = (IF promised = None THEN None ELSE issued)
                      \/ \E t \in Threads : pc[t] = "obtained"
    BY DEF NewestKept
  <2>1. Effective = promised
    BY DEF Invariant, Content, Reported
  <2>2. promised \in {None, issued} \/ Rotated
    BY DEF NewestInvariant, Current
  <2> QED
    BY <2>1, <2>2 DEF Rotated, Threads
<1> QED
  BY <1>1, <1>2, <1>3, PTL DEF Spec
=============================================================================
