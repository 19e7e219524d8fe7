------------------------------ MODULE TokenStore ------------------------------
(***************************************************************************)
(* The refresh token of one account in the keyring: KeyringStore of        *)
(* internal/secrets/store.go, the commands that use it (`auth add`, `auth  *)
(* remove`, and every command that calls Google) and persistingTokenSource *)
(* of internal/googleapi/client_auth.go, which stores a refresh token that *)
(* Google has rotated.                                                     *)
(*                                                                         *)
(* A token is the number Google issued it under; 0 is no entry, and -1 an  *)
(* entry of 0 bytes.  The default OAuth client keeps a second copy under   *)
(* the key of older versions.  Each access of the keyring is one step.     *)
(***************************************************************************)
EXTENDS Integers

CONSTANTS
  Adders, Removers,  \* processes running `auth add` and `auth remove`
  Sessions,          \* processes of a command that calls Google
  Calls,             \* the requests one of them makes at a time
  Free,              \* nobody holds the mutex
  Default,           \* BOOLEAN: the default client, which has the legacy key
  Serial,            \* BOOLEAN: one process at a time
  Faults,            \* of FaultKinds
  MaxFaults, MaxTokens

Threads == Sessions \X Calls
Writers == Adders \cup Threads
Actors  == Writers \cup Removers \cup Sessions

\* The keyring refuses an access or cannot be read, stores 0 bytes without an
\* error (in an entry that is read back, or in a copy that is not), or the
\* process is killed.
FaultKinds == {"refused", "unreadable", "blank", "blank copy", "crash"}

ASSUME ConstantsAssumption ==
  /\ Default \in BOOLEAN /\ Serial \in BOOLEAN
  /\ MaxFaults \in Nat /\ MaxTokens \in Nat \ {0}
  /\ Faults \subseteq FaultKinds
  /\ Free \notin Threads
  /\ Adders \cap Removers = {} /\ Adders \cap Sessions = {}
  /\ Removers \cap Sessions = {}
  /\ Threads \cap (Adders \cup Removers \cup Sessions) = {}

None  == 0
Blank == -1
Tokens  == 1 .. MaxTokens
Entries == Tokens \cup {None, Blank}

VARIABLES
  primary, legacy,  \* token:<client>:<email> and token:<email>
  issued,           \* how many tokens Google has issued
  pc,               \* what an actor does next
  data,             \* the token it writes, or has read
  base, kept,       \* of a session: the token its oauth2 source holds, and p.tok
  holder,           \* of a session: the thread that holds p.mu
  faultsLeft,
  promised,         \* what the last write or removal reported as done has left
  doubt             \* a write has failed or been cut off since

ring == <<primary, legacy>>
past == <<promised, doubt>>
vars == <<ring, issued, pc, data, base, kept, holder, faultsLeft, past>>

Goto(a, next) == pc' = [pc EXCEPT ![a] = next]
Carry(a, v)   == data' = [data EXCEPT ![a] = v]
Done(c)       == Goto(c, "idle")

Fault(f) == f \in Faults /\ faultsLeft > 0 /\ faultsLeft' = faultsLeft - 1

\* What GetToken finds.
Effective == IF Default /\ primary = None THEN legacy ELSE primary

CanStart(c) ==
  pc[c] = "idle" /\ (Serial => \A a \in Actors : pc[a] = "idle")

---------------------------------------------------------------------------
(* SetToken, called by `auth add` and, under p.mu, by a thread.             *)

\* Mutant: p.mu is unlocked only on success.
ReturnedDeferless(a, stored) ==
  /\ Done(a)
  /\ holder' = [s \in Sessions |-> IF stored /\ holder[s] = a THEN Free ELSE holder[s]]
  /\ kept' = [s \in Sessions |->
                IF stored /\ a \in Threads /\ holder[s] = a THEN data[a] ELSE kept[s]]
  /\ UNCHANGED <<issued, data, base>>

\* A thread leaves p.mu; p.tok is replaced only when the token is stored.
Returned(a, stored) ==
  /\ Done(a)
  /\ holder' = [s \in Sessions |-> IF holder[s] = a THEN Free ELSE holder[s]]
  /\ kept' = [s \in Sessions |->
                IF stored /\ a \in Threads /\ holder[s] = a THEN data[a] ELSE kept[s]]
  /\ UNCHANGED <<issued, data, base>>

Stored(a)  == Returned(a, TRUE) /\ promised' = data[a] /\ doubt' = FALSE
NotStored(a) == Returned(a, FALSE) /\ doubt' = TRUE /\ UNCHANGED promised

Proceed(a, next) ==
  Goto(a, next) /\ UNCHANGED <<issued, data, base, kept, holder, past>>

StorePrimary(a) ==
  /\ pc[a] = "storing"
  /\ \/ primary' = data[a] /\ UNCHANGED faultsLeft
     \/ Fault("blank") /\ primary' = Blank
  /\ Proceed(a, "verifying")
  /\ UNCHANGED legacy

\* Mutant: the entry is not read back.
VerifyNothing(a) ==
  /\ pc[a] = "verifying"
  /\ IF Default THEN Proceed(a, "copying") ELSE Stored(a)
  /\ UNCHANGED <<ring, faultsLeft>>

Verify(a) ==
  /\ pc[a] = "verifying"
  /\ IF primary \in {None, Blank} THEN NotStored(a)
     ELSE IF Default THEN Proceed(a, "copying") ELSE Stored(a)
  /\ UNCHANGED <<ring, faultsLeft>>

StoreLegacy(a) ==
  /\ pc[a] = "copying"
  /\ \/ legacy' = data[a] /\ UNCHANGED faultsLeft
     \/ Fault("blank copy") /\ legacy' = Blank
  /\ Stored(a)
  /\ UNCHANGED primary

StoreFails(a) ==
  /\ \/ pc[a] \in {"storing", "copying"} /\ Fault("refused")
     \/ pc[a] = "verifying" /\ Fault("unreadable")
  /\ NotStored(a)
  /\ UNCHANGED ring

SetToken(a) == StorePrimary(a) \/ Verify(a) \/ StoreLegacy(a) \/ StoreFails(a)

\* `auth add`: the user has consented and Google has issued a token.
Authorize(a) ==
  /\ CanStart(a) /\ issued < MaxTokens
  /\ issued' = issued + 1
  /\ Carry(a, issued + 1) /\ Goto(a, "storing")
  /\ UNCHANGED <<ring, base, kept, holder, faultsLeft, past>>

---------------------------------------------------------------------------
(* DeleteToken.                                                             *)

StartRemoval(r) ==
  /\ CanStart(r) /\ Goto(r, "removing")
  /\ UNCHANGED <<ring, issued, data, base, kept, holder, faultsLeft, past>>

Removed(r) == Done(r) /\ promised' = None /\ doubt' = FALSE

\* Mutant: the legacy key is forgotten.
RemoveOnlyPrimary(r) ==
  /\ pc[r] = "removing"
  /\ primary' = None
  /\ Removed(r)
  /\ UNCHANGED <<legacy, issued, data, base, kept, holder, faultsLeft>>

RemovePrimary(r) ==
  /\ pc[r] = "removing"
  /\ primary' = None
  /\ IF Default THEN Goto(r, "removing legacy") /\ UNCHANGED past ELSE Removed(r)
  /\ UNCHANGED <<legacy, issued, data, base, kept, holder, faultsLeft>>

RemoveLegacy(r) ==
  /\ pc[r] = "removing legacy"
  /\ legacy' = None
  /\ Removed(r)
  /\ UNCHANGED <<primary, issued, data, base, kept, holder, faultsLeft>>

RemovalFails(r) ==
  /\ pc[r] \in {"removing", "removing legacy"} /\ Fault("refused")
  /\ Done(r) /\ doubt' = TRUE
  /\ UNCHANGED <<ring, issued, data, base, kept, holder, promised>>

---------------------------------------------------------------------------
(* GetToken, and the token source a command builds on what it returns.      *)

StartSession(s) ==
  /\ CanStart(s) /\ Goto(s, "reading")
  /\ UNCHANGED <<ring, issued, data, base, kept, holder, faultsLeft, past>>

\* Mutant: what is read is used without decoding it.
OpenAnything(s, v) ==
  /\ Goto(s, "open")
  /\ base' = [base EXCEPT ![s] = v] /\ kept' = [kept EXCEPT ![s] = v]
  /\ UNCHANGED <<issued, data, holder, past>>

\* An entry of 0 bytes is no JSON.
Open(s, v) ==
  /\ IF v \in Tokens
       THEN /\ Goto(s, "open")
            /\ base' = [base EXCEPT ![s] = v] /\ kept' = [kept EXCEPT ![s] = v]
       ELSE Done(s) /\ UNCHANGED <<base, kept>>
  /\ UNCHANGED <<issued, data, holder, past>>

ReadPrimary(s) ==
  /\ pc[s] = "reading"
  /\ IF primary = None /\ Default
       THEN Proceed(s, "reading legacy")
       ELSE Open(s, primary)
  /\ UNCHANGED <<ring, faultsLeft>>

\* Any error leads to the legacy key, not only a missing entry.
ReadFails(s) ==
  /\ pc[s] = "reading" /\ Fault("unreadable")
  /\ Proceed(s, IF Default THEN "reading legacy" ELSE "idle")
  /\ UNCHANGED ring

ReadLegacy(s) ==
  /\ pc[s] = "reading legacy"
  /\ IF legacy = None THEN Done(s) /\ UNCHANGED data
     ELSE Goto(s, "migrating") /\ Carry(s, legacy)
  /\ UNCHANGED <<ring, issued, base, kept, holder, faultsLeft, past>>

\* The copy is not read back.
Migrate(s) ==
  /\ pc[s] = "migrating"
  /\ \/ primary' = data[s] /\ UNCHANGED faultsLeft
     \/ Fault("blank copy") /\ primary' = Blank
  /\ Open(s, data[s])
  /\ UNCHANGED legacy

MigrationFails(s) ==
  /\ \/ pc[s] = "reading legacy" /\ Fault("unreadable")
     \/ pc[s] = "migrating" /\ Fault("refused")
  /\ Done(s)
  /\ UNCHANGED <<ring, issued, data, base, kept, holder, past>>

GetToken(s) ==
  ReadPrimary(s) \/ ReadFails(s) \/ ReadLegacy(s) \/ Migrate(s) \/ MigrationFails(s)

\* p.base.Token(), outside p.mu: a cached answer, or a refresh, with which
\* Google may send a new refresh token.
Obtain(s, c) ==
  /\ pc[s] = "open" /\ pc[<<s, c>>] = "idle"
  /\ \/ Carry(<<s, c>>, base[s]) /\ UNCHANGED <<issued, base>>
     \/ /\ issued < MaxTokens
        /\ issued' = issued + 1
        /\ base' = [base EXCEPT ![s] = issued + 1]
        /\ Carry(<<s, c>>, issued + 1)
  /\ Goto(<<s, c>>, "obtained")
  /\ UNCHANGED <<ring, kept, holder, faultsLeft, past>>

\* Mutant: no mutex.
NeverLocked(s) == TRUE

Unlocked(s) == holder[s] = Free

\* p.mu.Lock(), and the comparison with p.tok.
Lock(s, c) ==
  /\ pc[<<s, c>>] = "obtained" /\ Unlocked(s)
  /\ IF data[<<s, c>>] = kept[s]
       THEN Done(<<s, c>>) /\ UNCHANGED holder
       ELSE Goto(<<s, c>>, "storing") /\ holder' = [holder EXCEPT ![s] = <<s, c>>]
  /\ UNCHANGED <<ring, issued, data, base, kept, faultsLeft, past>>

\* The command has finished.
Close(s) ==
  /\ pc[s] = "open" /\ \A c \in Calls : pc[<<s, c>>] = "idle"
  /\ Done(s)
  /\ base' = [base EXCEPT ![s] = None] /\ kept' = [kept EXCEPT ![s] = None]
  /\ UNCHANGED <<ring, issued, data, holder, faultsLeft, past>>

---------------------------------------------------------------------------
Parts(p) == {p} \cup (IF p \in Sessions THEN {p} \X Calls ELSE {})

Writing(a) ==
  pc[a] \in {"storing", "verifying", "copying", "removing", "removing legacy"}

\* A process is killed.
Crash(p) ==
  /\ pc[p] # "idle" /\ Fault("crash")
  /\ pc' = [a \in Actors |-> IF a \in Parts(p) THEN "idle" ELSE pc[a]]
  /\ holder' = [s \in Sessions |-> IF s = p THEN Free ELSE holder[s]]
  /\ base' = [s \in Sessions |-> IF s = p THEN None ELSE base[s]]
  /\ kept' = [s \in Sessions |-> IF s = p THEN None ELSE kept[s]]
  /\ doubt' = (doubt \/ \E a \in Parts(p) : Writing(a))
  /\ UNCHANGED <<ring, issued, data, promised>>

\* An empty keyring, that of an older version, or one that is up to date.
Starts ==
  {<<None, None, 0>>, <<1, IF Default THEN 1 ELSE None, 1>>}
    \cup (IF Default THEN {<<None, 1, 1>>} ELSE {})

Init ==
  /\ \E k \in Starts : primary = k[1] /\ legacy = k[2] /\ issued = k[3] /\ promised = k[3]
  /\ pc = [a \in Actors |-> "idle"] /\ data = [a \in Actors |-> None]
  /\ base = [s \in Sessions |-> None] /\ kept = [s \in Sessions |-> None]
  /\ holder = [s \in Sessions |-> Free]
  /\ faultsLeft = MaxFaults /\ doubt = FALSE

Next ==
  \/ \E a \in Adders : Authorize(a)
  \/ \E a \in Writers : SetToken(a)
  \/ \E r \in Removers :
       StartRemoval(r) \/ RemovePrimary(r) \/ RemoveLegacy(r) \/ RemovalFails(r)
  \/ \E s \in Sessions : StartSession(s) \/ GetToken(s) \/ Close(s)
  \/ \E s \in Sessions, c \in Calls : Obtain(s, c) \/ Lock(s, c)
  \/ \E p \in Adders \cup Removers \cup Sessions : Crash(p)

Spec == Init /\ [][Next]_vars

\* A running thread is scheduled, and Go's mutex starves nobody.
FairSpec ==
  /\ Spec
  /\ \A s \in Sessions, c \in Calls :
       WF_vars(SetToken(<<s, c>>)) /\ SF_vars(Lock(s, c))

---------------------------------------------------------------------------
States ==
  {"idle", "storing", "verifying", "copying", "removing", "removing legacy",
   "reading", "reading legacy", "migrating", "open", "obtained"}

\* Values have their types.
TypeOK ==
  /\ primary \in Entries /\ legacy \in Entries
  /\ issued \in 0 .. MaxTokens
  /\ pc \in [Actors -> States] /\ data \in [Actors -> Entries]
  /\ base \in [Sessions -> Tokens \cup {None}]
  /\ kept \in [Sessions -> Tokens \cup {None}]
  /\ holder \in [Sessions -> Threads \cup {Free}]
  /\ faultsLeft \in 0 .. MaxFaults
  /\ promised \in Tokens \cup {None} /\ doubt \in BOOLEAN

Quiet == \A a \in Actors : ~Writing(a)

\* store.go:321-440: what `auth add`, a rotation or `auth remove` reported as
\* done is what the next command finds, whatever failed before it and whatever
\* commands read in between; one process at a time.
Settled == Serial /\ Quiet /\ ~doubt => Effective = promised

\* store.go:367-371, 433-437: the key that older versions read has that token too.
LegacyFollows == Serial /\ Default /\ Quiet /\ ~doubt => legacy = promised

\* client_auth.go:47-77: the token the next command finds is the newest one that
\* Google has issued, unless the account has been removed.
NewestKept ==
  Serial /\ Quiet /\ ~doubt
    => Effective = (IF promised = None THEN None ELSE issued)
         \/ \E t \in Threads : pc[t] = "obtained"

\* client_auth.go:58-59: a request never waits for ever on p.mu.
EveryCallReturns ==
  \A t \in Threads : (pc[t] # "idle") ~> (pc[t] = "idle")
=============================================================================
