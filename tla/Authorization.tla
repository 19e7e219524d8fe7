----------------------------- MODULE Authorization -----------------------------
(***************************************************************************)
(* How an account gets its token: internal/googleauth, as `auth add` and   *)
(* `auth manage` run it, several processes at a time, one user with the    *)
(* tabs of a browser, and Google.                                          *)
(*                                                                         *)
(*   browser   auth add: a server waits for Google's redirect              *)
(*   paste     auth add --manual: the user pastes the redirect URL         *)
(*   print     auth add --remote, step 1: prints the URL and ends          *)
(*   redeem    auth add --remote, step 2: takes the redirect URL           *)
(*   loose     auth add --auth-url or --auth-code, without --remote        *)
(*   manage    auth manage: a server with a page to add and remove         *)
(*             accounts, and a handler for each redirect                   *)
(*                                                                         *)
(* What is asked for (client, scopes, whether consent is forced) is one    *)
(* value.  A state is the number under which it was made up, a code that   *)
(* of the consent it stands for.                                           *)
(***************************************************************************)
EXTENDS Integers, Sequences

CONSTANTS
  Runs,              \* processes that may run at the same time
  Flows,             \* what each may run: records of kind, want (the account) and ask
  Accounts, Asks,
  NoToken, NoFlow,
  MaxStates, MaxCodes, \* bounds: how many are made up, how often the user consents
  Cut                  \* bound: the consents whose redirect URL may lose its state

Kinds  == {"browser", "paste", "print", "redeem", "loose", "manage"}
States == 1 .. MaxStates
Codes  == 1 .. MaxCodes
None   == 0
AllFlows == [kind : Kinds, want : Accounts, ask : Asks]

ASSUME AuthorizationAssumption ==
  /\ Flows \in [Runs -> SUBSET AllFlows] /\ NoFlow \notin AllFlows
  /\ MaxStates \in Nat /\ MaxCodes \in Nat

VARIABLES
  pc, flow,       \* of each process: where it is, and what it runs
  expected,       \* the state its answer has to have
  code,           \* the code it exchanges
  compared,       \* the state of the answer it took was compared
  codeCh, errCh,  \* the channels of the browser flow, of capacity one
  handlers,       \* of account managers: records of run, code, compared and granted
  asked,          \* for each state made up so far: ask, and whether it is manual
  files,          \* the manual states that have a file
  old,            \* those made up more than manualStateTTL ago
  printed,        \* the URLs shown: records of state and ask
  consents,       \* the consents given: account, ask and state
  spent,          \* the codes Google has exchanged
  keyring,        \* the token of each account
  stored,         \* observer: the codes whose token has been stored
  blind           \* observer: the states of runs that got a token for an answer
                  \* whose state they had not compared

runVars  == <<pc, flow, expected, code, compared, codeCh, errCh, handlers>>
urlVars  == <<asked, files, old, printed>>
userVars == <<consents, spent, blind>>
ringVars == <<keyring, stored>>
vars == <<runVars, urlVars, userVars, ringVars>>

Made          == DOMAIN asked
Goto(r, next) == pc' = [pc EXCEPT ![r] = next]
Expect(r, n)  == expected' = [expected EXCEPT ![r] = n]

\* What the answer of a consent says; a redirect URL may have lost its state, as
\* when the shell cuts it off at the `&`.
StateOf(c)  == consents[c].state
StatesIn(c) == {StateOf(c)} \cup (IF c \in Cut THEN {None} ELSE {})

\* The process ends, and its server and handlers with it.
Ends(r) ==
  /\ Goto(r, "idle") /\ flow' = [flow EXCEPT ![r] = NoFlow]
  /\ Expect(r, None) /\ code' = [code EXCEPT ![r] = None]
  /\ compared' = [compared EXCEPT ![r] = FALSE]
  /\ codeCh' = [codeCh EXCEPT ![r] = None] /\ errCh' = [errCh EXCEPT ![r] = FALSE]
  /\ handlers' = {h \in handlers : h.run # r}

---------------------------------------------------------------------------
(* States and the files of the manual ones.                                 *)

\* A file that is looked at and too old is removed, and counts as missing.
Fresh == files \ old
Looked(n) == files \ ({n} \cap old)

Matches(k) == {n \in Fresh : asked[n].ask = k}

Url(n, k) == [state |-> n, ask |-> k]

MakeUp(k, manual) ==
  /\ Len(asked) < MaxStates
  /\ asked' = Append(asked, [ask |-> k, manual |-> manual])
  /\ files' = IF manual THEN files \cup {Len(asked) + 1} ELSE files
  /\ printed' = printed \cup {Url(Len(asked) + 1, k)}
  /\ UNCHANGED old

\* Ten minutes pass for a state, and for those before it.
Expire(n) ==
  /\ n \in Fresh
  /\ old' = old \cup {m \in files : m <= n}
  /\ UNCHANGED <<runVars, asked, files, printed, userVars, ringVars>>

---------------------------------------------------------------------------
(* The beginning of a run.  It may also end at once, which changes nothing. *)

StartServer(r, f) ==
  /\ f.kind = "browser"
  /\ MakeUp(f.ask, FALSE)
  /\ Goto(r, "waiting") /\ Expect(r, Len(asked) + 1)
  /\ UNCHANGED <<code, compared>>

StartManageServer(r, f) ==
  /\ f.kind = "manage"
  /\ Goto(r, "serving")
  /\ UNCHANGED <<expected, code, compared, urlVars>>

\* manualAuthSetup: of the states that match, the newest is used again.
Reuse(r, f) ==
  /\ f.kind = "paste"
  /\ \E n \in Matches(f.ask) :
       /\ \A m \in Matches(f.ask) : m <= n
       /\ Expect(r, n)
       /\ printed' = printed \cup {Url(n, f.ask)}
  /\ Goto(r, "prompt")
  /\ files' = Fresh
  /\ UNCHANGED <<code, compared, asked, old>>

\* None matches, or the user wants another redirect URI.
NoReuse(r, f) ==
  /\ f.kind \in {"paste", "print"}
  /\ Goto(r, "saving") /\ files' = Fresh
  /\ UNCHANGED <<expected, code, compared, asked, old, printed>>

\* validateManualState.  Without --remote a state that has no file is let pass.
Accepts(f, n) ==
  IF n \in Fresh THEN asked[n].ask = f.ask ELSE f.kind # "redeem"

\* The redirect URL is an argument.
StartRedeeming(r, f) ==
  /\ f.kind \in {"redeem", "loose"}
  /\ \E c \in DOMAIN consents :
       /\ Accepts(f, StateOf(c))
       /\ files' = Looked(StateOf(c))
       /\ Expect(r, IF StateOf(c) \in Fresh THEN StateOf(c) ELSE None)
       /\ compared' = [compared EXCEPT ![r] = StateOf(c) \in Fresh]
       /\ code' = [code EXCEPT ![r] = c]
  /\ Goto(r, "exchanging")
  /\ UNCHANGED <<asked, old, printed>>

\* A code, or a redirect URL that has lost its state: there is nothing to look at,
\* except, for a code, a file that says where it was sent.
StartWithCode(r, f) ==
  /\ f.kind = "loose"
  /\ \E c \in DOMAIN consents : code' = [code EXCEPT ![r] = c]
  /\ files' \in {files, Fresh}
  /\ Goto(r, "exchanging")
  /\ UNCHANGED <<expected, compared, asked, old, printed>>

Begin(r, f) ==
  /\ pc[r] = "idle"
  /\ flow' = [flow EXCEPT ![r] = f]
  /\ \/ StartServer(r, f) \/ StartManageServer(r, f) \/ Reuse(r, f) \/ NoReuse(r, f)
     \/ StartRedeeming(r, f) \/ StartWithCode(r, f)
  /\ UNCHANGED <<codeCh, errCh, handlers, userVars, ringVars>>

\* Step 1 that uses a state again is over at once.
PrintAgain(r, f) ==
  /\ pc[r] = "idle" /\ f.kind = "print"
  /\ \E n \in Matches(f.ask) :
       /\ \A m \in Matches(f.ask) : m <= n
       /\ printed' = printed \cup {Url(n, f.ask)}
  /\ files' = Fresh
  /\ UNCHANGED <<runVars, asked, old, userVars, ringVars>>

\* An answer that is refused; its file, too old, is removed.
Refused(r, f) ==
  /\ pc[r] = "idle" /\ f.kind \in {"redeem", "loose"}
  /\ \E c \in DOMAIN consents :
       /\ ~Accepts(f, StateOf(c))
       /\ files' = Looked(StateOf(c))
  /\ UNCHANGED <<runVars, asked, old, printed, userVars, ringVars>>

\* saveManualState; meanwhile other runs may have looked and found nothing too.
Save(r) ==
  /\ pc[r] = "saving"
  /\ MakeUp(flow[r].ask, TRUE)
  /\ IF flow[r].kind = "print"
       THEN Ends(r)
       ELSE /\ Goto(r, "prompt") /\ Expect(r, Len(asked) + 1)
            /\ UNCHANGED <<flow, code, compared, codeCh, errCh, handlers>>
  /\ UNCHANGED <<userVars, ringVars>>

SaveFails(r) ==
  /\ pc[r] = "saving"
  /\ Ends(r)
  /\ UNCHANGED <<urlVars, userVars, ringVars>>

---------------------------------------------------------------------------
(* The answer.                                                              *)

\* The user consents to what a URL asks for, with any account.
Consent(u, a) ==
  /\ u \in printed /\ Len(consents) < MaxCodes
  /\ consents' = Append(consents, [account |-> a, ask |-> u.ask, state |-> u.state])
  /\ UNCHANGED <<runVars, urlVars, spent, blind, ringVars>>

Expects(r, n) == expected[r] = n

\* The handler of authorizeServer.  The browser goes wherever the redirect URL
\* says, once or more, whoever listens there by now.
Callback(r, c, s) ==
  /\ pc[r] = "waiting"
  /\ IF Expects(r, s)
       THEN /\ codeCh' = [codeCh EXCEPT ![r] = IF @ = None THEN c ELSE @]
            /\ UNCHANGED errCh
       ELSE errCh' = [errCh EXCEPT ![r] = TRUE] /\ UNCHANGED codeCh
  /\ UNCHANGED <<pc, flow, expected, code, compared, handlers, urlVars, userVars, ringVars>>

\* The user declines, or the server fails.
Declined(r) ==
  /\ pc[r] = "waiting"
  /\ errCh' = [errCh EXCEPT ![r] = TRUE]
  /\ UNCHANGED <<pc, flow, expected, code, compared, codeCh, handlers, urlVars, userVars, ringVars>>

\* Nobody reads the channels again.
ReceiveCode(r) ==
  /\ pc[r] = "waiting" /\ codeCh[r] # None
  /\ code' = [code EXCEPT ![r] = codeCh[r]]
  /\ codeCh' = [codeCh EXCEPT ![r] = None] /\ errCh' = [errCh EXCEPT ![r] = FALSE]
  /\ compared' = [compared EXCEPT ![r] = TRUE]
  /\ Goto(r, "exchanging")
  /\ UNCHANGED <<flow, expected, handlers, urlVars, userVars, ringVars>>

\* If both channels have something, either may be read.
ReceiveError(r) ==
  /\ pc[r] = "waiting" /\ errCh[r]
  /\ Ends(r)
  /\ UNCHANGED <<urlVars, userVars, ringVars>>

\* authorizeManualInteractive: the user pastes a redirect URL, perhaps one that
\* belongs to another run.  Without a state it is taken as it is.
Paste(r, c, s) ==
  /\ pc[r] = "prompt"
  /\ files' = IF Expects(r, s) THEN Looked(s) ELSE files
  /\ IF s = None \/ (Expects(r, s) /\ Accepts(flow[r], s))
       THEN /\ Goto(r, "exchanging") /\ code' = [code EXCEPT ![r] = c]
            /\ compared' = [compared EXCEPT ![r] = s # None]
            /\ UNCHANGED <<flow, expected, codeCh, errCh, handlers>>
       ELSE Ends(r)
  /\ UNCHANGED <<asked, old, printed, userVars, ringVars>>

---------------------------------------------------------------------------
(* The token.                                                               *)

\* Mutant: the state is cleared whether there is a token or not.
ClearedAnyway(r, granted) == files \ {expected[r]}

\* The state of the run, not that of the answer, is cleared once there is a token.
Cleared(r, granted) == IF granted THEN files \ {expected[r]} ELSE files

\* Google grants a token for a code once.  That the file cannot be removed is
\* ignored.
Exchange(r) ==
  /\ pc[r] = "exchanging" /\ code[r] \notin spent
  /\ spent' = spent \cup {code[r]}
  /\ blind' = IF compared[r] THEN blind ELSE blind \cup ({expected[r]} \ {None})
  /\ Goto(r, "granted")
  /\ files' \in {files, Cleared(r, TRUE)}
  /\ UNCHANGED <<flow, expected, code, compared, codeCh, errCh, handlers, asked, old, printed,
                 consents, ringVars>>

\* Google refuses, or its answer is lost.
ExchangeFails(r) ==
  /\ pc[r] = "exchanging"
  /\ spent' \in {spent, spent \cup {code[r]}}
  /\ files' = Cleared(r, FALSE)
  /\ Ends(r)
  /\ UNCHANGED <<asked, old, printed, consents, blind, ringVars>>

\* Mutant: the token is kept for the account of the command line.
WhoeverAnswered(r) == TRUE

\* The e-mail address of the token has to be that of the command line.
RightAccount(r) == consents[code[r]].account = flow[r].want

Keep(a, c, k, checked) ==
  /\ keyring' = [keyring EXCEPT ![a] = [code |-> c, ask |-> k, checked |-> checked]]
  /\ stored' = stored \cup {c}

\* Mutant: the token is stored before Google has granted it.
StoresEarly(r) ==
  /\ pc[r] \in {"exchanging", "granted"} /\ RightAccount(r)
  /\ Keep(flow[r].want, code[r], flow[r].ask, compared[r])
  /\ Ends(r)
  /\ UNCHANGED <<urlVars, userVars>>

StoreToken(r) ==
  /\ pc[r] = "granted" /\ RightAccount(r)
  /\ Keep(flow[r].want, code[r], flow[r].ask, compared[r])
  /\ Ends(r)
  /\ UNCHANGED <<urlVars, userVars>>

\* Another account, its address cannot be fetched, or the keyring fails.
NotStored(r) ==
  /\ pc[r] = "granted"
  /\ Ends(r)
  /\ UNCHANGED <<urlVars, userVars, ringVars>>

---------------------------------------------------------------------------
(* The account manager.                                                     *)

Handler(r, c, seen, granted) == [run |-> r, code |-> c, compared |-> seen, granted |-> granted]

\* handleAuthStart and handleAuthUpgrade: one state for all the tabs.
OpenTab(r) ==
  /\ pc[r] = "serving"
  /\ MakeUp(flow[r].ask, FALSE)
  /\ Expect(r, Len(asked) + 1)
  /\ UNCHANGED <<pc, flow, code, compared, codeCh, errCh, handlers, userVars, ringVars>>

\* handleOAuthCallback; an answer with another state gets an error page.  Before
\* the first tab there is no state, and an answer without one passes.
Handle(r, c, s) ==
  /\ pc[r] = "serving" /\ Expects(r, s)
  /\ handlers' = handlers \cup {Handler(r, c, s # None, FALSE)}
  /\ UNCHANGED <<pc, flow, expected, code, compared, codeCh, errCh, urlVars, userVars, ringVars>>

HandlerExchanges(h) ==
  /\ ~h.granted /\ h.code \notin spent
  /\ spent' = spent \cup {h.code}
  /\ handlers' = (handlers \ {h}) \cup {Handler(h.run, h.code, h.compared, TRUE)}
  /\ UNCHANGED <<pc, flow, expected, code, compared, codeCh, errCh, urlVars, consents, blind,
                 ringVars>>

HandlerFails(h) ==
  /\ handlers' = handlers \ {h}
  /\ spent' \in {spent, spent \cup {h.code}}
  /\ UNCHANGED <<pc, flow, expected, code, compared, codeCh, errCh, urlVars, consents, blind,
                 ringVars>>

\* Whoever has consented is the account.
HandlerStores(h) ==
  /\ h.granted
  /\ Keep(consents[h.code].account, h.code, flow[h.run].ask, h.compared)
  /\ handlers' = handlers \ {h}
  /\ UNCHANGED <<pc, flow, expected, code, compared, codeCh, errCh, urlVars, userVars>>

RemoveAccount(r, a) ==
  /\ pc[r] = "serving"
  /\ keyring' = [keyring EXCEPT ![a] = NoToken]
  /\ UNCHANGED <<runVars, urlVars, userVars, stored>>

---------------------------------------------------------------------------
\* Mutant: the deadline is that of the exchange alone.
ExchangeHasDeadline(r) == pc[r] = "exchanging"

\* The context covers the wait and the exchange; the prompt does not look at it.
HasDeadline(r) == pc[r] \in {"waiting", "exchanging", "serving"}

TimeOut(r) ==
  /\ HasDeadline(r)
  /\ Ends(r)
  /\ UNCHANGED <<urlVars, userVars, ringVars>>

\* Something local fails, the user stops the command, or input ends.
Abandoned(r) ==
  /\ pc[r] # "idle"
  /\ Ends(r)
  /\ UNCHANGED <<urlVars, userVars, ringVars>>

Init ==
  /\ pc = [r \in Runs |-> "idle"] /\ flow = [r \in Runs |-> NoFlow]
  /\ expected = [r \in Runs |-> None] /\ code = [r \in Runs |-> None]
  /\ compared = [r \in Runs |-> FALSE]
  /\ codeCh = [r \in Runs |-> None] /\ errCh = [r \in Runs |-> FALSE]
  /\ handlers = {}
  /\ asked = <<>> /\ files = {} /\ old = {} /\ printed = {}
  /\ consents = <<>> /\ spent = {} /\ blind = {}
  /\ keyring = [a \in Accounts |-> NoToken] /\ stored = {}

Starts(r) == \E f \in Flows[r] : Begin(r, f) \/ PrintAgain(r, f) \/ Refused(r, f)

\* What a process does by itself.
Works(r) ==
  \/ Save(r) \/ SaveFails(r) \/ ReceiveCode(r) \/ ReceiveError(r) \/ Exchange(r) \/ ExchangeFails(r)
  \/ StoreToken(r) \/ NotStored(r) \/ TimeOut(r)

\* What the user does with it.
Answers(r) ==
  \/ \E c \in DOMAIN consents : \E s \in StatesIn(c) :
       Callback(r, c, s) \/ Paste(r, c, s) \/ Handle(r, c, s)
  \/ Declined(r) \/ OpenTab(r) \/ Abandoned(r)
  \/ \E a \in Accounts : RemoveAccount(r, a)

Handling(h) == HandlerExchanges(h) \/ HandlerFails(h) \/ HandlerStores(h)

Next ==
  \/ \E r \in Runs : Starts(r) \/ Works(r) \/ Answers(r)
  \/ \E h \in handlers : Handling(h)
  \/ \E u \in printed, a \in Accounts : Consent(u, a)
  \/ \E n \in files : Expire(n)

Spec == Init /\ [][Next]_vars

\* A process runs, Google answers or the deadline comes, and the keyring answers;
\* the user need not do anything.
FairSpec == Spec /\ \A r \in Runs : WF_vars(Works(r))

---------------------------------------------------------------------------
Local == {"idle", "waiting", "serving", "saving", "prompt", "exchanging", "granted"}

RunTypes ==
  /\ pc \in [Runs -> Local] /\ flow \in [Runs -> AllFlows \cup {NoFlow}]
  /\ expected \in [Runs -> Made \cup {None}]
  /\ code \in [Runs -> DOMAIN consents \cup {None}]
  /\ codeCh \in [Runs -> DOMAIN consents \cup {None}] /\ errCh \in [Runs -> BOOLEAN]
  /\ compared \in [Runs -> BOOLEAN]
  /\ handlers \subseteq [run : Runs, code : DOMAIN consents, compared : BOOLEAN, granted : BOOLEAN]

UrlTypes ==
  /\ asked \in Seq([ask : Asks, manual : BOOLEAN]) /\ Len(asked) <= MaxStates
  /\ files \subseteq Made /\ old \subseteq Made
  /\ printed \subseteq [state : Made, ask : Asks]

UserTypes ==
  /\ consents \in Seq([account : Accounts, ask : Asks, state : States])
  /\ Len(consents) <= MaxCodes
  /\ spent \subseteq DOMAIN consents /\ blind \subseteq States

RingTypes ==
  /\ stored \subseteq spent
  /\ keyring \in [Accounts -> [code : Codes, ask : Asks, checked : BOOLEAN] \cup {NoToken}]

\* Values have their types, and no token is stored that was not granted.
TypeOK == RunTypes /\ UrlTypes /\ UserTypes /\ RingTypes

Contract == INSTANCE ConsentContract
              WITH Consents <- [account : Accounts, ask : Asks, state : States]

\* oauth_flow.go, oauth_flow_manual.go, accounts_server.go: whatever answers come
\* from whichever tab to whichever run, early, late, twice or without their state, a
\* token is stored for the account that consented, once, and, if the state was
\* compared, as what was consented to.
StoresConsents == Contract!Spec

\* oauth_flow_manual.go: the URL that `auth add --remote` or --manual has printed
\* can be redeemed for ten minutes, however often that fails, until a token has
\* been granted for an answer to it, or, to a run that used it, for an answer that
\* had lost its state and may have belonged to another URL (line 173).
PrintedIsRedeemable ==
  \A n \in Made \ (files \cup old) :
    asked[n].manual => n \in blind \/ \E c \in spent : StateOf(c) = n

\* oauth_flow.go:106: every run that waits for an answer or for Google ends,
\* except at a prompt.
EveryRunEnds ==
  \A r \in Runs : (pc[r] \notin {"idle", "prompt"}) ~> (pc[r] \in {"idle", "prompt"})
=============================================================================
