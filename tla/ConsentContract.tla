---------------------------- MODULE ConsentContract ----------------------------
(***************************************************************************)
(* What authorization promises, whichever way it goes: a token is stored   *)
(* for the account that consented, at most once for each consent, and,     *)
(* where the answer was checked, for what that consent was about.          *)
(***************************************************************************)
EXTENDS Naturals, Sequences

CONSTANTS
  Accounts, Asks, NoToken,
  Consents                  \* records, among whose fields are account and ask

Grants == [code : Nat, ask : Asks, checked : BOOLEAN]

VARIABLES
  consents,   \* those the user has given so far
  keyring,    \* the token of each account
  stored      \* the consents whose token has been stored

vars == <<consents, keyring, stored>>

Init ==
  /\ consents = <<>> /\ stored = {}
  /\ keyring \in [Accounts -> Grants \cup {NoToken}]

Give ==
  /\ \E c \in Consents : consents' = Append(consents, c)
  /\ UNCHANGED <<keyring, stored>>

Store(n) ==
  /\ stored' = stored \cup {n}
  /\ \E k \in Asks, checked \in BOOLEAN :
       /\ checked => k = consents[n].ask
       /\ keyring' = [keyring EXCEPT ![consents[n].account] =
                        [code |-> n, ask |-> k, checked |-> checked]]
  /\ UNCHANGED consents

Remove(a) ==
  /\ keyring' = [keyring EXCEPT ![a] = NoToken]
  /\ UNCHANGED <<consents, stored>>

Next ==
  \/ Give
  \/ \E n \in DOMAIN consents \ stored : Store(n)
  \/ \E a \in Accounts : Remove(a)

Spec == Init /\ [][Next]_vars
=============================================================================
