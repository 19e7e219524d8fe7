-------------------------- MODULE AuthorizationProofs --------------------------
(***************************************************************************)
(* Authorization keeps its promises in ConsentContract, for any number of  *)
(* processes, accounts, states and consents, and a printed URL can be      *)
(* redeemed.                                                               *)
(***************************************************************************)
EXTENDS Authorization, SequenceTheorems, TLAPS

LEMMA AppendFacts ==
  ASSUME NEW S, NEW s \in Seq(S), NEW e \in S
  PROVE  /\ Append(s, e) \in Seq(S) /\ Len(s) \in Nat
         /\ Len(Append(s, e)) = Len(s) + 1
         /\ DOMAIN s = 1 .. Len(s) /\ DOMAIN Append(s, e) = 1 .. Len(s) + 1
         /\ DOMAIN s \subseteq DOMAIN Append(s, e)
         /\ \A k \in DOMAIN s : Append(s, e)[k] = s[k]
         /\ Append(s, e)[Len(s) + 1] = e
OBVIOUS

---------------------------------------------------------------------------
(* Types.                                                                   *)

\* A process that ends keeps its types.
LEMMA EndsTypes ==
  ASSUME RunTypes, NEW r \in Runs, Ends(r), UNCHANGED <<asked, consents>>
  PROVE  RunTypes'
BY DEF RunTypes, Ends, Goto, Expect, None, Made, Local

\* A flow that may be run.
LEMMA FlowFacts ==
  ASSUME NEW r \in Runs, NEW f \in Flows[r]
  PROVE  f \in AllFlows /\ f # NoFlow /\ f.ask \in Asks /\ f.want \in Accounts
BY AuthorizationAssumption DEF AllFlows

\* One more state: those there were are still there.
LEMMA MakeUpFacts ==
  ASSUME UrlTypes, NEW k \in Asks, NEW manual \in BOOLEAN, MakeUp(k, manual)
  PROVE  /\ UrlTypes' /\ Made \subseteq Made' /\ Len(asked) + 1 \in Made' \ Made
         /\ Made' = Made \cup {Len(asked) + 1}
         /\ \A n \in Made : asked'[n] = asked[n]
         /\ asked'[Len(asked) + 1] = [ask |-> k, manual |-> manual]
<1> DEFINE S == [ask : Asks, manual : BOOLEAN]
           e == [ask |-> k, manual |-> manual]
<1>1. e \in S /\ asked \in Seq(S)
  BY DEF UrlTypes
<1>2. /\ asked' \in Seq(S) /\ Len(asked) \in Nat /\ Len(asked') = Len(asked) + 1
      /\ Made = 1 .. Len(asked) /\ Made' = 1 .. Len(asked) + 1
      /\ \A n \in Made : asked'[n] = asked[n]
      /\ asked'[Len(asked) + 1] = e
  BY <1>1, AppendFacts DEF MakeUp, Made
<1>3. Made \subseteq Made' /\ Len(asked) + 1 \in Made' \ Made /\ Made' = Made \cup {Len(asked) + 1}
  BY <1>2
<1>4. Len(asked') <= MaxStates
  BY <1>2, AuthorizationAssumption DEF MakeUp
<1>5. files' \subseteq Made' /\ old' \subseteq Made'
  BY <1>3 DEF MakeUp, UrlTypes
<1>6. printed' \subseteq [state : Made', ask : Asks]
  BY <1>3 DEF MakeUp, UrlTypes, Url
<1> QED
  BY <1>2, <1>3, <1>4, <1>5, <1>6 DEF UrlTypes

\* More states or consents take no types away.
LEMMA RunTypesGrow ==
  ASSUME RunTypes, Made \subseteq Made', DOMAIN consents \subseteq DOMAIN consents',
         UNCHANGED runVars
  PROVE  RunTypes'
BY DEF RunTypes, runVars

LEMMA BeginTypes ==
  ASSUME TypeOK, NEW r \in Runs, NEW f \in Flows[r], Begin(r, f)
  PROVE  TypeOK'
<1> USE DEF TypeOK
<1>1. f \in AllFlows /\ f.ask \in Asks
  BY FlowFacts
<1>2. UserTypes' /\ RingTypes' /\ UNCHANGED <<consents, codeCh, errCh, handlers>>
  BY DEF Begin, userVars, ringVars, UserTypes, RingTypes
<1>3. flow' \in [Runs -> AllFlows \cup {NoFlow}]
  BY <1>1 DEF Begin, RunTypes
<1>4. CASE StartServer(r, f)
  <2>1. UrlTypes' /\ Made \subseteq Made' /\ Len(asked) + 1 \in Made'
    BY <1>1, <1>4, MakeUpFacts DEF StartServer
  <2> QED
    BY <1>2, <1>3, <1>4, <2>1 DEF StartServer, RunTypes, Goto, Expect, Local
<1>5. CASE StartManageServer(r, f)
  BY <1>2, <1>3, <1>5 DEF StartManageServer, RunTypes, UrlTypes, urlVars, Goto, Local, Made
<1>6. CASE Reuse(r, f)
  BY <1>1, <1>2, <1>3, <1>6
  DEF Reuse, RunTypes, UrlTypes, Goto, Expect, Local, Made, Matches, Fresh, Url
<1>7. CASE NoReuse(r, f)
  BY <1>2, <1>3, <1>7 DEF NoReuse, RunTypes, UrlTypes, Goto, Local, Made, Fresh
<1>8. CASE StartRedeeming(r, f)
  BY <1>2, <1>3, <1>8
  DEF StartRedeeming, RunTypes, UrlTypes, Goto, Expect, Local, Made, Fresh, Looked
<1>9. CASE StartWithCode(r, f)
  BY <1>2, <1>3, <1>9 DEF StartWithCode, RunTypes, UrlTypes, Goto, Local, Made, Fresh
<1> QED
  BY <1>4, <1>5, <1>6, <1>7, <1>8, <1>9 DEF Begin

LEMMA StartsTypes ==
  ASSUME TypeOK, NEW r \in Runs, Starts(r)
  PROVE  TypeOK'
<1> USE DEF TypeOK
<1>1. PICK f \in Flows[r] : Begin(r, f) \/ PrintAgain(r, f) \/ Refused(r, f)
  BY DEF Starts
<1>2. f.ask \in Asks
  BY FlowFacts
<1>3. CASE Begin(r, f)
  BY <1>3, BeginTypes
<1>4. CASE PrintAgain(r, f)
  BY <1>2, <1>4
  DEF PrintAgain, RunTypes, UrlTypes, UserTypes, RingTypes, runVars, userVars, ringVars,
      Matches, Fresh, Url, Made
<1>5. CASE Refused(r, f)
  BY <1>5
  DEF Refused, RunTypes, UrlTypes, UserTypes, RingTypes, runVars, userVars, ringVars, Looked, Made
<1> QED
  BY <1>1, <1>3, <1>4, <1>5

LEMMA ConsentFacts ==
  ASSUME UserTypes, NEW c \in DOMAIN consents
  PROVE  consents[c].account \in Accounts /\ consents[c].ask \in Asks /\ consents[c].state \in States
<1> DEFINE S == [account : Accounts, ask : Asks, state : States]
<1>1. consents \in Seq(S)
  BY DEF UserTypes
<1>2. c \in 1 .. Len(consents)
  BY <1>1
<1>3. consents[c] \in S
  BY <1>1, <1>2, ElementOfSeq
<1> QED
  BY <1>3

\* A token is stored in the keyring.
LEMMA KeepTypes ==
  ASSUME UserTypes, RingTypes, NEW a \in Accounts, NEW c \in spent, NEW k \in Asks,
         NEW checked \in BOOLEAN, Keep(a, c, k, checked), UNCHANGED userVars
  PROVE  RingTypes'
<1>1. c \in Codes
  BY AuthorizationAssumption DEF UserTypes, Codes
<1> QED
  BY <1>1 DEF Keep, RingTypes, userVars

---------------------------------------------------------------------------
(* The inductive invariant.                                                 *)

\* What a URL asks for is what its state was made up for, and so is a consent.
UrlsSound ==
  /\ \A u \in printed : u.ask = asked[u.state].ask
  /\ \A c \in DOMAIN consents :
       StateOf(c) \in Made /\ consents[c].ask = asked[StateOf(c)].ask

\* The state a process expects was made up for what it asks for, and the code it
\* has taken is an answer to that state, if it has compared them.
RunSound(r) ==
  /\ flow[r] = NoFlow <=> pc[r] = "idle"
  /\ pc[r] \in {"idle", "saving"} => expected[r] = None
  /\ pc[r] = "waiting" => expected[r] # None
  /\ expected[r] # None => asked[expected[r]].ask = flow[r].ask
  /\ codeCh[r] # None => pc[r] = "waiting" /\ StateOf(codeCh[r]) = expected[r]
  /\ compared[r] =>
       pc[r] \in {"exchanging", "granted"} /\ expected[r] # None /\ StateOf(code[r]) = expected[r]
  /\ pc[r] \in {"exchanging", "granted"} => code[r] # None

HandlerSound(h) ==
  pc[h.run] = "serving" /\ (h.compared => consents[h.code].ask = flow[h.run].ask)

\* A granted code that is not stored yet is in one hand.
OneHand ==
  /\ \A r \in Runs : pc[r] = "granted" => code[r] \in spent \ stored
  /\ \A h \in handlers : h.granted => h.code \in spent \ stored
  /\ \A r, q \in Runs :
       pc[r] = "granted" /\ pc[q] = "granted" /\ code[r] = code[q] => r = q
  /\ \A h, g \in handlers : h.granted /\ g.granted /\ h.code = g.code => h = g
  /\ \A r \in Runs, h \in handlers : pc[r] = "granted" /\ h.granted => code[r] # h.code

RunsSound == \A r \in Runs : RunSound(r)
HandlersSound == \A h \in handlers : HandlerSound(h)

AuthorizationInvariant ==
  TypeOK /\ UrlsSound /\ RunsSound /\ HandlersSound /\ OneHand /\ PrintedIsRedeemable

LEMMA InitSound == Init => AuthorizationInvariant
<1> SUFFICES ASSUME Init PROVE AuthorizationInvariant
  OBVIOUS
<1>1. Made = {} /\ DOMAIN consents = {} /\ asked \in Seq([ask : Asks, manual : BOOLEAN])
      /\ consents \in Seq([account : Accounts, ask : Asks, state : States])
      /\ Len(asked) = 0 /\ Len(consents) = 0
  BY DEF Init, Made
<1>2. TypeOK
  BY <1>1, AuthorizationAssumption
  DEF Init, TypeOK, RunTypes, UrlTypes, UserTypes, RingTypes, Local, None
<1> QED
  BY <1>1, <1>2
  DEF Init, AuthorizationInvariant, UrlsSound, RunsSound, RunSound, HandlersSound, OneHand,
      PrintedIsRedeemable

\* A step of a process leaves the others as they were.
Alone(r) ==
  \A q \in Runs \ {r} :
    /\ pc'[q] = pc[q] /\ flow'[q] = flow[q] /\ expected'[q] = expected[q]
    /\ code'[q] = code[q] /\ compared'[q] = compared[q] /\ codeCh'[q] = codeCh[q]

\* States and consents are only added.
Grows ==
  /\ Made \subseteq Made' /\ \A n \in Made : asked'[n] = asked[n]
  /\ DOMAIN consents \subseteq DOMAIN consents'
  /\ \A c \in DOMAIN consents : consents'[c] = consents[c]

LEMMA OthersSound ==
  ASSUME AuthorizationInvariant, NEW r \in Runs, Alone(r), Grows, RunSound(r)'
  PROVE  RunsSound'
<1> SUFFICES ASSUME NEW q \in Runs, q # r PROVE RunSound(q)'
  BY DEF RunsSound
<1>1. RunSound(q) /\ expected[q] \in Made \cup {None} /\ codeCh[q] \in DOMAIN consents \cup {None}
      /\ code[q] \in DOMAIN consents \cup {None}
  BY DEF AuthorizationInvariant, RunsSound, TypeOK, RunTypes
<1> QED
  BY <1>1 DEF RunSound, Alone, Grows, StateOf

LEMMA AllSound ==
  ASSUME AuthorizationInvariant, Grows, UNCHANGED <<pc, flow, expected, code, compared, codeCh>>
  PROVE  RunsSound'
<1> SUFFICES ASSUME NEW q \in Runs PROVE RunSound(q)'
  BY DEF RunsSound
<1>1. RunSound(q) /\ expected[q] \in Made \cup {None} /\ codeCh[q] \in DOMAIN consents \cup {None}
      /\ code[q] \in DOMAIN consents \cup {None}
  BY DEF AuthorizationInvariant, RunsSound, TypeOK, RunTypes
<1> QED
  BY <1>1 DEF RunSound, Grows, StateOf

LEMMA UrlsKept ==
  ASSUME AuthorizationInvariant, UNCHANGED <<asked, printed, consents>>
  PROVE  UrlsSound' /\ Grows
BY DEF AuthorizationInvariant, UrlsSound, StateOf, Made, Grows

\* A process that ends.
LEMMA EndsSound ==
  ASSUME AuthorizationInvariant, NEW r \in Runs, Ends(r), UNCHANGED <<asked, printed, consents>>
  PROVE  UrlsSound' /\ RunsSound' /\ HandlersSound'
<1>1. UrlsSound' /\ Grows
  BY UrlsKept
<1>2. RunSound(r)' /\ Alone(r)
  BY DEF AuthorizationInvariant, TypeOK, RunTypes, Ends, Goto, Expect, RunSound, Alone
<1>3. RunsSound'
  BY <1>1, <1>2, OthersSound
<1>4. HandlersSound'
  BY <1>2 DEF AuthorizationInvariant, HandlersSound, HandlerSound, TypeOK, RunTypes, Ends, Goto
<1> QED
  BY <1>1, <1>3, <1>4

\* Nothing is granted or stored.
LEMMA HandsKept ==
  ASSUME AuthorizationInvariant, NEW r \in Runs, Alone(r), pc'[r] # "granted",
         handlers' \subseteq handlers, spent \subseteq spent', UNCHANGED stored
  PROVE  OneHand'
BY DEF AuthorizationInvariant, OneHand, Alone

LEMMA FilesKept ==
  ASSUME AuthorizationInvariant, UNCHANGED <<asked, consents>>, spent \subseteq spent', blind \subseteq blind',
         files \ old \subseteq files', old \subseteq old'
  PROVE  PrintedIsRedeemable'
BY DEF AuthorizationInvariant, PrintedIsRedeemable, Made, StateOf

---------------------------------------------------------------------------
(* The steps of a process that ends.                                        *)

LEMMA StopSound ==
  ASSUME AuthorizationInvariant, NEW r \in Runs, Ends(r),
         UNCHANGED <<urlVars, consents, blind, ringVars>>,
         spent \subseteq spent', spent' \subseteq DOMAIN consents
  PROVE  AuthorizationInvariant'
<1>1. UNCHANGED <<asked, files, old, printed, keyring, stored>>
  BY DEF urlVars, ringVars
<1>2. TypeOK'
  BY <1>1, EndsTypes DEF AuthorizationInvariant, TypeOK, UrlTypes, UserTypes, RingTypes, Made
<1>3. UrlsSound' /\ RunsSound' /\ HandlersSound'
  BY <1>1, EndsSound
<1>4. OneHand'
  BY <1>1, HandsKept DEF Ends, Goto, Expect, Alone, AuthorizationInvariant, TypeOK, RunTypes
<1>5. PrintedIsRedeemable'
  BY <1>1, FilesKept
<1> QED
  BY <1>2, <1>3, <1>4, <1>5 DEF AuthorizationInvariant

LEMMA ExchangeFailsSound ==
  ASSUME AuthorizationInvariant, NEW r \in Runs, ExchangeFails(r)
  PROVE  AuthorizationInvariant'
<1>1. code[r] \in DOMAIN consents
  BY DEF AuthorizationInvariant, RunsSound, RunSound, TypeOK, RunTypes, ExchangeFails
<1> QED
  BY <1>1, StopSound DEF ExchangeFails, Cleared, urlVars, AuthorizationInvariant, TypeOK, UserTypes

LEMMA EndingsSound ==
  ASSUME AuthorizationInvariant, NEW r \in Runs,
         \/ SaveFails(r) \/ ReceiveError(r) \/ NotStored(r) \/ TimeOut(r) \/ Abandoned(r)
  PROVE  AuthorizationInvariant'
BY StopSound
DEF SaveFails, ReceiveError, NotStored, TimeOut, Abandoned, userVars, AuthorizationInvariant,
    TypeOK, UserTypes

LEMMA StoreTokenSound ==
  ASSUME AuthorizationInvariant, NEW r \in Runs, StoreToken(r)
  PROVE  AuthorizationInvariant'
<1>1. UNCHANGED <<asked, files, old, printed, consents, spent, blind>>
  BY DEF StoreToken, urlVars, userVars
<1>2. Ends(r) /\ pc[r] = "granted" /\ stored' = stored \cup {code[r]}
  BY DEF StoreToken, Keep
<1>3. code[r] \in spent /\ flow[r].want \in Accounts /\ flow[r].ask \in Asks /\ compared[r] \in BOOLEAN
  BY <1>2
  DEF AuthorizationInvariant, OneHand, RunsSound, RunSound, TypeOK, RunTypes, AllFlows
<1>4. TypeOK'
  <2>1. RingTypes'
    BY <1>1, <1>3, KeepTypes DEF StoreToken, AuthorizationInvariant, TypeOK, userVars
  <2> QED
    <3>1. RunTypes'
      BY <1>1, <1>2, EndsTypes DEF AuthorizationInvariant, TypeOK
    <3>2. UrlTypes' /\ UserTypes'
      BY <1>1 DEF AuthorizationInvariant, TypeOK, UrlTypes, UserTypes, Made
    <3> QED
      BY <2>1, <3>1, <3>2 DEF TypeOK
<1>5. UrlsSound' /\ RunsSound' /\ HandlersSound'
  BY <1>1, <1>2, EndsSound
<1>6. OneHand'
  BY <1>1, <1>2 DEF Ends, Goto, AuthorizationInvariant, TypeOK, RunTypes, OneHand
<1>7. PrintedIsRedeemable'
  BY <1>1, FilesKept
<1> QED
  BY <1>4, <1>5, <1>6, <1>7 DEF AuthorizationInvariant

---------------------------------------------------------------------------
(* The other steps of a process.                                            *)

LEMMA SaveSound ==
  ASSUME AuthorizationInvariant, NEW r \in Runs, Save(r)
  PROVE  AuthorizationInvariant'
<1> DEFINE n == Len(asked) + 1
<1>1. UNCHANGED <<consents, spent, blind, keyring, stored>> /\ pc[r] = "saving"
  BY DEF Save, userVars, ringVars
<1>2. flow[r] \in AllFlows /\ flow[r].ask \in Asks
  BY <1>1 DEF AuthorizationInvariant, RunsSound, RunSound, TypeOK, RunTypes, AllFlows
<1>3. /\ UrlTypes' /\ Made' = Made \cup {n} /\ n \notin Made
      /\ \A m \in Made : asked'[m] = asked[m]
      /\ asked'[n] = [ask |-> flow[r].ask, manual |-> TRUE]
  BY <1>2, MakeUpFacts DEF Save, AuthorizationInvariant, TypeOK
<1>4. Grows
  BY <1>1, <1>3 DEF Grows
<1>5. /\ printed' = printed \cup {Url(n, flow[r].ask)} /\ files' = files \cup {n}
      /\ UNCHANGED old
  BY DEF Save, MakeUp
<1>6. /\ pc' \in [Runs -> Local] /\ pc'[r] \in {"idle", "prompt"} /\ Alone(r)
      /\ handlers' \subseteq handlers /\ \A h \in handlers' : pc'[h.run] = pc[h.run] /\ flow'[h.run] = flow[h.run]
  BY <1>1 DEF Save, Ends, Goto, Expect, Alone, AuthorizationInvariant, TypeOK, RunTypes, Local,
             HandlersSound, HandlerSound
<1>7. TypeOK'
  <2>1. RunTypes'
    BY <1>1, <1>3 DEF Save, Ends, Goto, Expect, AuthorizationInvariant, TypeOK, RunTypes, Local, None
  <2> QED
    BY <1>1, <1>3, <2>1 DEF AuthorizationInvariant, TypeOK, UserTypes, RingTypes
<1>8. UrlsSound'
  BY <1>1, <1>3, <1>5 DEF AuthorizationInvariant, UrlsSound, Url, StateOf, TypeOK, UrlTypes
<1>9. RunsSound'
  <2>1. RunSound(r)'
    BY <1>1, <1>3 DEF Save, Ends, Goto, Expect, RunSound, AuthorizationInvariant, TypeOK, RunTypes, RunsSound
  <2> QED
    BY <1>4, <1>6, <2>1, OthersSound
<1>10. HandlersSound'
  BY <1>1, <1>6 DEF AuthorizationInvariant, HandlersSound, HandlerSound
<1>11. OneHand'
  BY <1>1, <1>6, HandsKept
<1>12. PrintedIsRedeemable'
  BY <1>1, <1>3, <1>5 DEF AuthorizationInvariant, PrintedIsRedeemable, StateOf
<1> QED
  BY <1>7, <1>8, <1>9, <1>10, <1>11, <1>12 DEF AuthorizationInvariant

LEMMA BeginSound ==
  ASSUME AuthorizationInvariant, NEW r \in Runs, NEW f \in Flows[r], Begin(r, f)
  PROVE  AuthorizationInvariant'
<1> DEFINE n == Len(asked) + 1
<1>1. /\ UNCHANGED <<codeCh, errCh, handlers, consents, spent, blind, keyring, stored>>
      /\ pc[r] = "idle" /\ flow' = [flow EXCEPT ![r] = f] /\ f # NoFlow /\ f.ask \in Asks
      /\ expected[r] = None /\ codeCh[r] = None /\ compared[r] = FALSE
  BY FlowFacts
  DEF Begin, userVars, ringVars, AuthorizationInvariant, RunsSound, RunSound, TypeOK, RunTypes
<1>2. TypeOK'
  BY BeginTypes DEF AuthorizationInvariant
<1>3. /\ Alone(r) /\ pc'[r] \notin {"idle", "granted"}
      /\ \A h \in handlers : pc'[h.run] = pc[h.run] /\ flow'[h.run] = flow[h.run]
  BY <1>1
  DEF Begin, StartServer, StartManageServer, Reuse, NoReuse, StartRedeeming, StartWithCode, Goto,
      Expect, Alone, AuthorizationInvariant, TypeOK, RunTypes, HandlersSound, HandlerSound
<1>4. HandlersSound' /\ OneHand'
  BY <1>1, <1>3, HandsKept DEF AuthorizationInvariant, HandlersSound, HandlerSound
<1>5. CASE StartServer(r, f)
  <2>1. /\ Made' = Made \cup {n} /\ n \notin Made
        /\ \A m \in Made : asked'[m] = asked[m]
        /\ asked'[n] = [ask |-> f.ask, manual |-> FALSE]
        /\ printed' = printed \cup {Url(n, f.ask)} /\ files' = files /\ old' = old
    BY <1>1, <1>5, MakeUpFacts DEF StartServer, MakeUp, AuthorizationInvariant, TypeOK
  <2>2. Grows
    BY <1>1, <2>1 DEF Grows
  <2>3. UrlsSound' /\ PrintedIsRedeemable'
    BY <1>1, <2>1
    DEF AuthorizationInvariant, UrlsSound, PrintedIsRedeemable, Url, StateOf, TypeOK, UrlTypes
  <2>4. RunSound(r)'
    <3>1. /\ pc'[r] = "waiting" /\ expected'[r] = n /\ flow'[r] = f /\ compared'[r] = FALSE
          /\ codeCh'[r] = None
      BY <1>1, <1>5 DEF StartServer, Goto, Expect, AuthorizationInvariant, TypeOK, RunTypes
    <3>2. n # None /\ asked'[n].ask = f.ask
      BY <2>1, AppendFacts DEF AuthorizationInvariant, TypeOK, UrlTypes, None
    <3> HIDE DEF n
    <3> QED
      BY <1>1, <3>1, <3>2 DEF RunSound
  <2> QED
    BY <1>2, <1>3, <1>4, <2>2, <2>3, <2>4, OthersSound DEF AuthorizationInvariant
<1>6. CASE ~StartServer(r, f)
  <2>1. /\ UNCHANGED asked /\ Grows /\ files \ old \subseteq files' /\ old' = old
        /\ printed' \subseteq printed \cup {Url(m, f.ask) : m \in {k \in Made : asked[k].ask = f.ask}}
    BY <1>1, <1>6
    DEF Begin, StartManageServer, Reuse, NoReuse, StartRedeeming, StartWithCode, urlVars, Grows,
        Made, Matches, Fresh, Looked, AuthorizationInvariant, TypeOK, UrlTypes
  <2>2. UrlsSound' /\ PrintedIsRedeemable'
    BY <1>1, <2>1, FilesKept DEF AuthorizationInvariant, UrlsSound, Url, StateOf, Made
  <2>3. RunSound(r)'
    <3>1. CASE StartManageServer(r, f) \/ NoReuse(r, f) \/ StartWithCode(r, f)
      BY <1>1, <3>1
      DEF StartManageServer, NoReuse, StartWithCode, Goto, RunSound, AuthorizationInvariant,
          TypeOK, RunTypes, UserTypes, None
    <3>2. CASE Reuse(r, f)
      BY <1>1, <3>2
      DEF Reuse, Goto, Expect, RunSound, Matches, AuthorizationInvariant, TypeOK, RunTypes
    <3>3. CASE StartRedeeming(r, f)
      <4>1. PICK c \in DOMAIN consents :
              /\ Accepts(f, StateOf(c))
              /\ Expect(r, IF StateOf(c) \in Fresh THEN StateOf(c) ELSE None)
              /\ compared' = [compared EXCEPT ![r] = StateOf(c) \in Fresh]
              /\ code' = [code EXCEPT ![r] = c]
        BY <3>3 DEF StartRedeeming
      <4>2. c # None /\ StateOf(c) # None /\ StateOf(c) \in States
        BY ConsentFacts, AuthorizationAssumption
        DEF AuthorizationInvariant, TypeOK, UserTypes, None, StateOf, States
      <4>3. /\ pc'[r] = "exchanging" /\ flow'[r] = f /\ code'[r] = c
            /\ expected'[r] = IF StateOf(c) \in Fresh THEN StateOf(c) ELSE None
            /\ compared'[r] = (StateOf(c) \in Fresh)
        BY <1>1, <3>3, <4>1
        DEF StartRedeeming, Goto, Expect, AuthorizationInvariant, TypeOK, RunTypes
      <4>4. StateOf(c) \in Fresh => asked[StateOf(c)].ask = f.ask
        BY <4>1 DEF Accepts
      <4>5. StateOf(c)' = StateOf(c) /\ asked' = asked /\ codeCh'[r] = None
        BY <1>1, <2>1 DEF StateOf
      <4>6. CASE StateOf(c) \in Fresh
        <5>1. expected'[r] = StateOf(c) /\ compared'[r] = TRUE
          BY <4>3, <4>6
        <5>2. consents'[code'[r]].state = consents[c].state
          BY <1>1, <4>3
        <5>3. asked'[expected'[r]].ask = flow'[r].ask
          BY <4>3, <4>4, <4>5, <4>6, <5>1
        <5>4. StateOf(code[r])' = expected'[r]
          BY <5>1, <5>2 DEF StateOf
        <5> QED
          BY <1>1, <4>2, <4>3, <4>5, <5>1, <5>3, <5>4 DEF RunSound
      <4>7. CASE StateOf(c) \notin Fresh
        <5>1. expected'[r] = None
          BY <4>3, <4>7
        <5>2. ~compared'[r]
          BY <4>3, <4>7, Zenon
        <5> QED
          BY <1>1, <4>2, <4>3, <4>5, <5>1, <5>2 DEF RunSound
      <4> QED
        BY <4>6, <4>7
    <3> QED
      BY <1>6, <3>1, <3>2, <3>3 DEF Begin
  <2> QED
    BY <1>2, <1>3, <1>4, <2>1, <2>2, <2>3, OthersSound DEF AuthorizationInvariant
<1> QED
  BY <1>5, <1>6

LEMMA StartsSound ==
  ASSUME AuthorizationInvariant, NEW r \in Runs, Starts(r)
  PROVE  AuthorizationInvariant'
<1>1. PICK f \in Flows[r] : Begin(r, f) \/ PrintAgain(r, f) \/ Refused(r, f)
  BY DEF Starts
<1>2. CASE Begin(r, f)
  BY <1>2, BeginSound
<1>3. CASE PrintAgain(r, f) \/ Refused(r, f)
  <2>1. TypeOK'
    BY StartsTypes DEF AuthorizationInvariant
  <2>2. /\ UNCHANGED <<runVars, asked, userVars, stored>> /\ files \ old \subseteq files'
        /\ old' = old
        /\ printed' \subseteq printed \cup {Url(m, f.ask) : m \in {k \in Made : asked[k].ask = f.ask}}
    BY <1>3
    DEF PrintAgain, Refused, ringVars, Matches, Fresh, Looked, AuthorizationInvariant, TypeOK,
        UrlTypes
  <2>3. UrlsSound' /\ PrintedIsRedeemable' /\ Grows
    BY <2>2, FilesKept
    DEF AuthorizationInvariant, UrlsSound, Url, StateOf, Made, Grows, userVars
  <2>4. RunsSound' /\ HandlersSound' /\ OneHand'
    BY <2>2, <2>3, AllSound
    DEF AuthorizationInvariant, HandlersSound, HandlerSound, OneHand, runVars, userVars
  <2> QED
    BY <2>1, <2>3, <2>4 DEF AuthorizationInvariant
<1> QED
  BY <1>1, <1>2, <1>3

\* The handler of the server, and what the select reads.
LEMMA ChannelsSound ==
  ASSUME AuthorizationInvariant, NEW r \in Runs,
         \/ \E c \in DOMAIN consents : \E s \in StatesIn(c) : Callback(r, c, s)
         \/ Declined(r)
         \/ ReceiveCode(r)
  PROVE  AuthorizationInvariant'
<1>1. /\ UNCHANGED <<flow, expected, handlers, asked, files, old, printed, consents, spent, blind, keyring,
                     stored>>
      /\ pc[r] = "waiting" /\ pc' = [pc EXCEPT ![r] = pc'[r]] /\ pc'[r] \in {"waiting", "exchanging"}
      /\ code' = [code EXCEPT ![r] = code'[r]] /\ compared' = [compared EXCEPT ![r] = compared'[r]]
      /\ compared'[r] \in BOOLEAN /\ codeCh' = [codeCh EXCEPT ![r] = codeCh'[r]]
      /\ errCh' \in [Runs -> BOOLEAN]
  BY DEF Callback, Declined, ReceiveCode, Goto, urlVars, userVars, ringVars,
         AuthorizationInvariant, TypeOK, RunTypes
<1>2. /\ code'[r] \in DOMAIN consents \cup {None} /\ codeCh'[r] \in DOMAIN consents \cup {None}
      /\ codeCh'[r] # None => pc'[r] = "waiting" /\ StateOf(codeCh'[r]) = expected[r]
      /\ pc'[r] = "exchanging" => code'[r] # None /\ StateOf(code'[r]) = expected[r]
      /\ compared'[r] => pc'[r] = "exchanging"
  BY <1>1
  DEF Callback, StatesIn, Declined, ReceiveCode, Goto, Expects, AuthorizationInvariant, TypeOK, RunTypes,
      UserTypes, RunsSound, RunSound, None
<1>3. TypeOK'
  BY <1>1, <1>2
  DEF AuthorizationInvariant, TypeOK, RunTypes, UrlTypes, UserTypes, RingTypes, Made, Local
<1>4. UrlsSound' /\ Grows
  BY <1>1, UrlsKept
<1>5. RunSound(r)' /\ Alone(r)
  BY <1>1, <1>2 DEF AuthorizationInvariant, TypeOK, RunTypes, RunsSound, RunSound, Alone, StateOf
<1>6. RunsSound' /\ HandlersSound' /\ OneHand'
  BY <1>1, <1>4, <1>5, OthersSound, HandsKept
  DEF AuthorizationInvariant, HandlersSound, HandlerSound, TypeOK, RunTypes
<1>7. PrintedIsRedeemable'
  BY <1>1, FilesKept
<1> QED
  BY <1>3, <1>4, <1>6, <1>7 DEF AuthorizationInvariant

LEMMA PasteSound ==
  ASSUME AuthorizationInvariant, NEW r \in Runs, NEW c \in DOMAIN consents,
         NEW s \in StatesIn(c), Paste(r, c, s)
  PROVE  AuthorizationInvariant'
<1>1. /\ UNCHANGED <<asked, old, printed, consents, spent, blind, keyring, stored>>
      /\ files \ old \subseteq files' /\ files' \subseteq files /\ pc[r] = "prompt"
  BY DEF Paste, userVars, ringVars, Looked
<1>2. UrlsSound' /\ Grows /\ PrintedIsRedeemable'
  BY <1>1, UrlsKept, FilesKept
<1>3. UrlTypes' /\ UserTypes' /\ RingTypes'
  BY <1>1 DEF AuthorizationInvariant, TypeOK, UrlTypes, UserTypes, RingTypes, Made
<1>4. CASE Ends(r)
  <2>1. RunTypes'
    BY <1>1, <1>4, EndsTypes DEF AuthorizationInvariant, TypeOK
  <2>2. UrlsSound' /\ RunsSound' /\ HandlersSound'
    BY <1>1, <1>4, EndsSound
  <2>3. OneHand'
    BY <1>1, <1>4, HandsKept DEF Ends, Goto, Expect, Alone, AuthorizationInvariant, TypeOK, RunTypes
  <2> QED
    BY <1>2, <1>3, <2>1, <2>2, <2>3 DEF AuthorizationInvariant, TypeOK
<1>5. CASE ~Ends(r)
  <2>0. s # None => s = StateOf(c)
    BY DEF StatesIn
  <2>1. /\ (s = None \/ Expects(r, s)) /\ pc' = [pc EXCEPT ![r] = "exchanging"]
        /\ compared' = [compared EXCEPT ![r] = s # None]
        /\ code' = [code EXCEPT ![r] = c] /\ UNCHANGED <<flow, expected, codeCh, errCh, handlers>>
    BY <1>5 DEF Paste, Goto
  <2>2. RunTypes'
    BY <1>1, <2>1 DEF AuthorizationInvariant, TypeOK, RunTypes, Local, Made
  <2>3. RunSound(r)' /\ Alone(r) /\ pc'[r] # "granted"
    <3>1. /\ pc'[r] = "exchanging" /\ code'[r] = c /\ compared'[r] = (s # None)
          /\ expected'[r] = expected[r] /\ flow'[r] = flow[r] /\ codeCh'[r] = codeCh[r]
      BY <2>1 DEF AuthorizationInvariant, TypeOK, RunTypes
    <3>2. c # None /\ codeCh[r] = None /\ flow[r] # NoFlow
          /\ (expected[r] # None => asked[expected[r]].ask = flow[r].ask)
      BY <1>1 DEF AuthorizationInvariant, TypeOK, UserTypes, RunsSound, RunSound, None
    <3>3. compared'[r] => expected[r] # None /\ StateOf(c)' = expected[r]
      BY <1>1, <2>0, <2>1, <3>1 DEF Expects, StateOf
    <3>4. RunSound(r)'
      BY <1>1, <3>1, <3>2, <3>3 DEF RunSound, StateOf
    <3>5. Alone(r)
      BY <2>1 DEF Alone, AuthorizationInvariant, TypeOK, RunTypes
    <3> QED
      BY <3>1, <3>4, <3>5
  <2>4. RunsSound' /\ OneHand'
    BY <1>1, <1>2, <2>1, <2>3, OthersSound, HandsKept
  <2>5. HandlersSound'
    BY <1>1, <2>1 DEF AuthorizationInvariant, HandlersSound, HandlerSound, TypeOK, RunTypes
  <2> QED
    BY <1>2, <1>3, <2>2, <2>4, <2>5 DEF AuthorizationInvariant, TypeOK
<1> QED
  BY <1>4, <1>5

LEMMA ExchangeSound ==
  ASSUME AuthorizationInvariant, NEW r \in Runs, Exchange(r)
  PROVE  AuthorizationInvariant'
<1>1. /\ UNCHANGED <<flow, expected, code, compared, codeCh, errCh, handlers, asked, old, printed, consents,
                     keyring, stored>>
      /\ pc[r] = "exchanging" /\ pc' = [pc EXCEPT ![r] = "granted"]
      /\ code[r] \notin spent /\ spent' = spent \cup {code[r]}
      /\ files' \in {files, files \ {expected[r]}}
      /\ blind' = IF compared[r] THEN blind ELSE blind \cup ({expected[r]} \ {None})
  BY DEF Exchange, Goto, Cleared, ringVars
<1>2. code[r] \in DOMAIN consents
  BY <1>1 DEF AuthorizationInvariant, TypeOK, RunTypes, RunsSound, RunSound
<1>3. TypeOK'
  <2>1. RunTypes' /\ UrlTypes' /\ RingTypes'
    BY <1>1, <1>2
    DEF AuthorizationInvariant, TypeOK, RunTypes, UrlTypes, RingTypes, Made, Local
  <2>2. {expected[r]} \ {None} \subseteq States
    BY AuthorizationAssumption
    DEF AuthorizationInvariant, TypeOK, RunTypes, UrlTypes, Made, States
  <2>3. UserTypes'
    BY <1>1, <1>2, <2>2 DEF AuthorizationInvariant, TypeOK, UserTypes
  <2> QED
    BY <2>1, <2>3 DEF TypeOK
<1>4. UrlsSound' /\ Grows
  BY <1>1, UrlsKept
<1>5. RunSound(r)' /\ Alone(r)
  BY <1>1 DEF AuthorizationInvariant, TypeOK, RunTypes, RunsSound, RunSound, Alone, StateOf
<1>6. RunsSound'
  BY <1>4, <1>5, OthersSound
<1>7. HandlersSound'
  BY <1>1 DEF AuthorizationInvariant, HandlersSound, HandlerSound, TypeOK, RunTypes
<1>8. OneHand'
  BY <1>1 DEF AuthorizationInvariant, OneHand, TypeOK, RunTypes, RingTypes
<1>9. PrintedIsRedeemable'
  <2>1. compared[r] => StateOf(code[r]) = expected[r]
    BY <1>1 DEF AuthorizationInvariant, RunsSound, RunSound
  <2>2. SUFFICES ASSUME NEW n \in Made \ (files' \cup old), asked[n].manual
                 PROVE  n \in blind' \/ \E c \in spent' : StateOf(c) = n
    BY <1>1 DEF PrintedIsRedeemable, Made, StateOf
  <2>3. CASE n \in files
    <3>1. n = expected[r] /\ n # None
      BY <1>1, <2>2, <2>3 DEF AuthorizationInvariant, TypeOK, UrlTypes, Made, None
    <3> QED
      BY <1>1, <2>1, <3>1
  <2>4. CASE n \notin files
    BY <1>1, <2>2, <2>4 DEF AuthorizationInvariant, PrintedIsRedeemable
  <2> QED
    BY <2>3, <2>4
<1> QED
  BY <1>3, <1>4, <1>6, <1>7, <1>8, <1>9 DEF AuthorizationInvariant

---------------------------------------------------------------------------
(* The account manager.                                                     *)

LEMMA OpenTabSound ==
  ASSUME AuthorizationInvariant, NEW r \in Runs, OpenTab(r)
  PROVE  AuthorizationInvariant'
<1> DEFINE n == Len(asked) + 1
<1>1. /\ UNCHANGED <<pc, flow, code, compared, codeCh, errCh, handlers, consents, spent, blind, keyring, stored>>
      /\ pc[r] = "serving"
  BY DEF OpenTab, userVars, ringVars
<1>2. flow[r].ask \in Asks
  BY <1>1 DEF AuthorizationInvariant, RunsSound, RunSound, TypeOK, RunTypes, AllFlows
<1>3. /\ UrlTypes' /\ Made' = Made \cup {n} /\ n \notin Made
      /\ \A m \in Made : asked'[m] = asked[m]
      /\ asked'[n] = [ask |-> flow[r].ask, manual |-> FALSE]
      /\ printed' = printed \cup {Url(n, flow[r].ask)} /\ files' = files /\ old' = old
  BY <1>2, MakeUpFacts DEF OpenTab, MakeUp, AuthorizationInvariant, TypeOK
<1>4. Grows
  BY <1>1, <1>3 DEF Grows
<1>5. TypeOK'
  BY <1>1, <1>3
  DEF OpenTab, Expect, AuthorizationInvariant, TypeOK, RunTypes, UserTypes, RingTypes
<1>6. UrlsSound' /\ PrintedIsRedeemable'
  BY <1>1, <1>3
  DEF AuthorizationInvariant, UrlsSound, PrintedIsRedeemable, Url, StateOf, TypeOK, UrlTypes
<1>7. RunSound(r)' /\ Alone(r)
  BY <1>1, <1>3
  DEF OpenTab, Expect, AuthorizationInvariant, RunsSound, RunSound, Alone, TypeOK, RunTypes, StateOf
<1>8. RunsSound' /\ HandlersSound' /\ OneHand'
  BY <1>1, <1>4, <1>7, OthersSound, HandsKept
  DEF AuthorizationInvariant, HandlersSound, HandlerSound
<1> QED
  BY <1>5, <1>6, <1>8 DEF AuthorizationInvariant

LEMMA HandleSound ==
  ASSUME AuthorizationInvariant, NEW r \in Runs, NEW c \in DOMAIN consents,
         NEW s \in StatesIn(c), Handle(r, c, s)
  PROVE  AuthorizationInvariant'
<1>1. /\ UNCHANGED <<pc, flow, expected, code, compared, codeCh, errCh, asked, files, old, printed, consents,
                     spent, blind, keyring, stored>>
      /\ pc[r] = "serving" /\ expected[r] = s
      /\ handlers' = handlers \cup {Handler(r, c, s # None, FALSE)}
  BY DEF Handle, Expects, urlVars, userVars, ringVars
<1>2. TypeOK'
  <2>1. Handler(r, c, s # None, FALSE) \in [run : Runs, code : DOMAIN consents, compared : BOOLEAN, granted : BOOLEAN]
    BY DEF Handler
  <2>2. handlers' \subseteq [run : Runs, code : DOMAIN consents, compared : BOOLEAN, granted : BOOLEAN]
    BY <1>1, <2>1 DEF AuthorizationInvariant, TypeOK, RunTypes
  <2> QED
    BY <1>1, <2>2
    DEF AuthorizationInvariant, TypeOK, RunTypes, UrlTypes, UserTypes, RingTypes, Made
<1>3. UrlsSound' /\ Grows /\ PrintedIsRedeemable'
  BY <1>1, UrlsKept, FilesKept
<1>4. RunsSound'
  BY <1>1, <1>3, AllSound
<1>5. s # None => consents[c].ask = flow[r].ask
  <2>1. s # None => s = StateOf(c)
    BY DEF StatesIn
  <2> QED
    BY <1>1, <2>1 DEF AuthorizationInvariant, RunsSound, RunSound, UrlsSound
<1>6. HandlersSound'
  <2>1. HandlerSound(Handler(r, c, s # None, FALSE))
    BY <1>1, <1>5 DEF HandlerSound, Handler
  <2> QED
    BY <1>1, <2>1 DEF AuthorizationInvariant, HandlersSound, HandlerSound
<1>7. OneHand'
  <2>1. \A h \in handlers' : h.granted => h \in handlers
    BY <1>1 DEF Handler
  <2> QED
    BY <1>1, <2>1 DEF AuthorizationInvariant, OneHand
<1> QED
  BY <1>2, <1>3, <1>4, <1>6, <1>7 DEF AuthorizationInvariant

LEMMA HandlingSound ==
  ASSUME AuthorizationInvariant, NEW h \in handlers, Handling(h)
  PROVE  AuthorizationInvariant'
<1> DEFINE granted == Handler(h.run, h.code, h.compared, TRUE)
<1>1. UNCHANGED <<pc, flow, expected, code, compared, codeCh, errCh, asked, files, old, printed, consents,
                  blind>>
  BY DEF Handling, HandlerExchanges, HandlerFails, HandlerStores, urlVars, userVars
<1>2. /\ h \in [run : Runs, code : DOMAIN consents, compared : BOOLEAN, granted : BOOLEAN]
      /\ HandlerSound(h) /\ flow[h.run].ask \in Asks
  BY DEF AuthorizationInvariant, TypeOK, RunTypes, AllFlows, RunsSound, RunSound, HandlersSound,
         HandlerSound
<1>3. spent \subseteq spent' /\ spent' \subseteq DOMAIN consents
  BY <1>1, <1>2
  DEF Handling, HandlerExchanges, HandlerFails, HandlerStores, userVars, AuthorizationInvariant,
      TypeOK, UserTypes
<1>4. /\ handlers' \subseteq handlers \cup {granted}
      /\ granted.run = h.run /\ granted.code = h.code /\ granted.granted = TRUE
      /\ granted.compared = h.compared
      /\ granted \in [run : Runs, code : DOMAIN consents, compared : BOOLEAN, granted : BOOLEAN]
  BY <1>2 DEF Handling, HandlerExchanges, HandlerFails, HandlerStores, Handler
<1>5. RingTypes'
  <2>1. CASE HandlerExchanges(h) \/ HandlerFails(h)
    BY <1>3, <2>1
    DEF HandlerExchanges, HandlerFails, ringVars, AuthorizationInvariant, TypeOK, RingTypes
  <2>2. CASE HandlerStores(h)
    <3>1. h.code \in spent
      BY <2>2 DEF HandlerStores, AuthorizationInvariant, OneHand
    <3>2. consents[h.code].account \in Accounts
      BY <1>2, ConsentFacts DEF AuthorizationInvariant, TypeOK
    <3> QED
      BY <1>2, <2>2, <3>1, <3>2, KeepTypes DEF HandlerStores, AuthorizationInvariant, TypeOK
  <2> QED
    BY <2>1, <2>2 DEF Handling
<1>6. TypeOK'
  <2>1. handlers' \subseteq [run : Runs, code : DOMAIN consents, compared : BOOLEAN, granted : BOOLEAN]
    BY <1>4 DEF AuthorizationInvariant, TypeOK, RunTypes
  <2> QED
    BY <1>1, <1>3, <1>5, <2>1
    DEF AuthorizationInvariant, TypeOK, RunTypes, UrlTypes, UserTypes, Made
<1>7. UrlsSound' /\ Grows /\ PrintedIsRedeemable'
  BY <1>1, <1>3, UrlsKept, FilesKept
<1>8. RunsSound'
  BY <1>1, <1>7, AllSound
<1>9. HandlersSound'
  BY <1>1, <1>2, <1>4 DEF AuthorizationInvariant, HandlersSound, HandlerSound, Handler
<1>10. OneHand'
  <2>1. CASE HandlerExchanges(h)
    <3>1. /\ h.code \notin spent /\ spent' = spent \cup {h.code} /\ stored' = stored
          /\ handlers' = (handlers \ {h}) \cup {granted} /\ stored \subseteq spent
      BY <2>1 DEF HandlerExchanges, ringVars, AuthorizationInvariant, TypeOK, RingTypes
    <3>2. \A g \in handlers' : g.granted => g = granted \/ (g \in handlers /\ g.granted)
      BY <3>1
    <3> HIDE DEF granted
    <3> QED
      BY <1>1, <1>4, <3>1, <3>2 DEF AuthorizationInvariant, OneHand
  <2>2. CASE HandlerFails(h)
    BY <1>1, <1>3, <2>2 DEF HandlerFails, AuthorizationInvariant, OneHand, ringVars
  <2>3. CASE HandlerStores(h)
    BY <1>1, <2>3 DEF HandlerStores, Keep, AuthorizationInvariant, OneHand, userVars
  <2> QED
    BY <2>1, <2>2, <2>3 DEF Handling
<1> QED
  BY <1>6, <1>7, <1>8, <1>9, <1>10 DEF AuthorizationInvariant

LEMMA RemoveAccountSound ==
  ASSUME AuthorizationInvariant, NEW r \in Runs, NEW a \in Accounts, RemoveAccount(r, a)
  PROVE  AuthorizationInvariant'
<1>1. UNCHANGED <<pc, flow, expected, code, compared, codeCh, errCh, handlers, asked, files, old, printed,
                  consents, spent, blind, stored>>
  BY DEF RemoveAccount, runVars, urlVars, userVars
<1>2. TypeOK'
  BY <1>1
  DEF RemoveAccount, AuthorizationInvariant, TypeOK, RunTypes, UrlTypes, UserTypes, RingTypes, Made
<1>3. UrlsSound' /\ Grows /\ PrintedIsRedeemable'
  BY <1>1, UrlsKept, FilesKept
<1>4. RunsSound' /\ HandlersSound' /\ OneHand'
  BY <1>1, <1>3, AllSound DEF AuthorizationInvariant, HandlersSound, HandlerSound, OneHand
<1> QED
  BY <1>2, <1>3, <1>4 DEF AuthorizationInvariant

---------------------------------------------------------------------------
(* The user and the time.                                                   *)

LEMMA ConsentSound ==
  ASSUME AuthorizationInvariant, NEW u \in printed, NEW a \in Accounts, Consent(u, a)
  PROVE  AuthorizationInvariant'
<1> DEFINE n == Len(consents) + 1
           c == [account |-> a, ask |-> u.ask, state |-> u.state]
<1>1. UNCHANGED <<pc, flow, expected, code, compared, codeCh, errCh, handlers, asked, files, old, printed,
                  spent, blind, keyring, stored>>
  BY DEF Consent, runVars, urlVars, ringVars
<1>2. /\ u.state \in Made /\ u.ask \in Asks /\ u.ask = asked[u.state].ask
      /\ c \in [account : Accounts, ask : Asks, state : States]
  BY AuthorizationAssumption
  DEF AuthorizationInvariant, UrlsSound, TypeOK, UrlTypes, Made, States
<1>3. /\ consents' \in Seq([account : Accounts, ask : Asks, state : States])
      /\ Len(consents') = n /\ Len(consents) \in Nat
      /\ DOMAIN consents' = DOMAIN consents \cup {n} /\ n \notin DOMAIN consents
      /\ \A k \in DOMAIN consents : consents'[k] = consents[k]
      /\ consents'[n] = c
  BY <1>2, AppendFacts DEF Consent, AuthorizationInvariant, TypeOK, UserTypes
<1>4. Grows
  BY <1>1, <1>3 DEF Grows, Made
<1>5. TypeOK'
  BY <1>1, <1>3, AuthorizationAssumption
  DEF Consent, AuthorizationInvariant, TypeOK, RunTypes, UrlTypes, UserTypes, RingTypes, Made
<1>6. UrlsSound'
  BY <1>1, <1>2, <1>3 DEF AuthorizationInvariant, UrlsSound, StateOf, Made
<1>7. RunsSound'
  BY <1>1, <1>4, AllSound
<1>8. HandlersSound' /\ OneHand'
  BY <1>1, <1>3
  DEF AuthorizationInvariant, HandlersSound, HandlerSound, OneHand, TypeOK, RunTypes
<1>9. PrintedIsRedeemable'
  BY <1>1, <1>3
  DEF AuthorizationInvariant, PrintedIsRedeemable, Made, StateOf, TypeOK, UserTypes
<1> QED
  BY <1>5, <1>6, <1>7, <1>8, <1>9 DEF AuthorizationInvariant

LEMMA ExpireSound ==
  ASSUME AuthorizationInvariant, NEW n \in files, Expire(n)
  PROVE  AuthorizationInvariant'
<1>1. /\ UNCHANGED <<pc, flow, expected, code, compared, codeCh, errCh, handlers, asked, files, printed,
                     consents, spent, blind, keyring, stored>>
      /\ old \subseteq old' /\ old' \subseteq old \cup files
  BY DEF Expire, runVars, userVars, ringVars
<1>2. TypeOK'
  BY <1>1 DEF AuthorizationInvariant, TypeOK, RunTypes, UrlTypes, UserTypes, RingTypes, Made
<1>3. UrlsSound' /\ Grows /\ PrintedIsRedeemable'
  BY <1>1, UrlsKept, FilesKept
<1>4. RunsSound' /\ HandlersSound' /\ OneHand'
  BY <1>1, <1>3, AllSound DEF AuthorizationInvariant, HandlersSound, HandlerSound, OneHand
<1> QED
  BY <1>2, <1>3, <1>4 DEF AuthorizationInvariant

---------------------------------------------------------------------------
(* Together.                                                                *)

LEMMA WorksSound ==
  ASSUME AuthorizationInvariant, NEW r \in Runs, Works(r)
  PROVE  AuthorizationInvariant'
BY SaveSound, EndingsSound, ChannelsSound, ExchangeSound, ExchangeFailsSound, StoreTokenSound
DEF Works

LEMMA AnswersSound ==
  ASSUME AuthorizationInvariant, NEW r \in Runs, Answers(r)
  PROVE  AuthorizationInvariant'
BY ChannelsSound, PasteSound, HandleSound, OpenTabSound, EndingsSound, RemoveAccountSound DEF Answers

LEMMA StutterSound ==
  ASSUME AuthorizationInvariant, UNCHANGED vars
  PROVE  AuthorizationInvariant'
BY DEF AuthorizationInvariant, vars, runVars, urlVars, userVars, ringVars, TypeOK, RunTypes, UrlTypes,
       UserTypes, RingTypes, UrlsSound, RunsSound, RunSound, HandlersSound, HandlerSound, OneHand,
       PrintedIsRedeemable, StateOf, Made

LEMMA NextSound == AuthorizationInvariant /\ [Next]_vars => AuthorizationInvariant'
<1> SUFFICES ASSUME AuthorizationInvariant, [Next]_vars PROVE AuthorizationInvariant'
  OBVIOUS
<1>1. CASE \E r \in Runs : Starts(r) \/ Works(r) \/ Answers(r)
  BY <1>1, StartsSound, WorksSound, AnswersSound
<1>2. CASE \E h \in handlers : Handling(h)
  BY <1>2, HandlingSound
<1>3. CASE \E u \in printed, a \in Accounts : Consent(u, a)
  BY <1>3, ConsentSound
<1>4. CASE \E n \in files : Expire(n)
  BY <1>4, ExpireSound
<1>5. CASE UNCHANGED vars
  BY <1>5, StutterSound
<1> QED
  BY <1>1, <1>2, <1>3, <1>4, <1>5 DEF Next

LEMMA SpecSound == Spec => []AuthorizationInvariant
BY InitSound, NextSound, PTL DEF Spec

---------------------------------------------------------------------------
(* The contract.                                                            *)

\* Everything but a consent, a token stored and an account removed.
Unseen == UNCHANGED <<consents, keyring, stored>>

\* A token that is kept is stored as the contract has it.
LEMMA KeepRefines ==
  ASSUME UserTypes, RingTypes, NEW c \in spent \ stored, NEW k \in Asks, NEW checked \in BOOLEAN,
         checked => k = consents[c].ask,
         Keep(consents[c].account, c, k, checked), UNCHANGED userVars
  PROVE  Contract!Next
<1>1. c \in DOMAIN consents \ stored
  BY DEF UserTypes
<1>2. Contract!Store(c)
  BY <1>1 DEF Contract!Store, Keep, userVars
<1> QED
  BY <1>1, <1>2 DEF Contract!Next

LEMMA StoreTokenRefines ==
  ASSUME AuthorizationInvariant, NEW r \in Runs, StoreToken(r)
  PROVE  Contract!Next
<1> DEFINE checked == compared[r]
<1>1. /\ code[r] \in spent \ stored /\ consents[code[r]].account = flow[r].want
      /\ flow[r].ask \in Asks
      /\ checked => StateOf(code[r]) = expected[r]
      /\ checked => asked[expected[r]].ask = flow[r].ask
  BY DEF StoreToken, RightAccount, AuthorizationInvariant, OneHand, RunsSound, RunSound, TypeOK,
         RunTypes, AllFlows
<1>2. code[r] \in DOMAIN consents
  BY <1>1 DEF AuthorizationInvariant, TypeOK, UserTypes
<1>3. ASSUME checked PROVE flow[r].ask = consents[code[r]].ask
  BY <1>1, <1>2, <1>3 DEF AuthorizationInvariant, UrlsSound
<1>4. /\ checked \in BOOLEAN /\ Keep(consents[code[r]].account, code[r], flow[r].ask, checked)
      /\ UserTypes /\ RingTypes /\ UNCHANGED userVars
  BY <1>1 DEF StoreToken, AuthorizationInvariant, TypeOK, RunTypes
<1> HIDE DEF checked
<1> QED
  BY <1>1, <1>3, <1>4, KeepRefines

LEMMA HandlerStoresRefines ==
  ASSUME AuthorizationInvariant, NEW h \in handlers, HandlerStores(h)
  PROVE  Contract!Next
<1>1. /\ h.code \in spent \ stored /\ pc[h.run] = "serving" /\ h.run \in Runs
      /\ h.compared => flow[h.run].ask = consents[h.code].ask
      /\ h.compared \in BOOLEAN
  BY DEF HandlerStores, AuthorizationInvariant, OneHand, HandlersSound, HandlerSound, TypeOK, RunTypes
<1>2. flow[h.run].ask \in Asks
  BY <1>1 DEF AuthorizationInvariant, RunsSound, RunSound, TypeOK, RunTypes, AllFlows
<1> QED
  BY <1>1, <1>2, KeepRefines DEF HandlerStores, AuthorizationInvariant, TypeOK

LEMMA ConsentRefines ==
  ASSUME AuthorizationInvariant, NEW u \in printed, NEW a \in Accounts, Consent(u, a)
  PROVE  Contract!Next
<1> DEFINE c == [account |-> a, ask |-> u.ask, state |-> u.state]
<1>1. u.state \in States /\ u.ask \in Asks
  BY AuthorizationAssumption DEF AuthorizationInvariant, TypeOK, UrlTypes, Made, States
<1>2. c \in [account : Accounts, ask : Asks, state : States] /\ consents' = Append(consents, c)
  BY <1>1 DEF Consent
<1>3. Contract!Give
  BY <1>2 DEF Contract!Give, Consent, ringVars
<1> QED
  BY <1>3 DEF Contract!Next

LEMMA RemoveAccountRefines ==
  ASSUME NEW r \in Runs, NEW a \in Accounts, RemoveAccount(r, a)
  PROVE  Contract!Next
BY DEF RemoveAccount, userVars, Contract!Next, Contract!Remove

LEMMA NextRefines ==
  AuthorizationInvariant /\ [Next]_vars => [Contract!Next]_(Contract!vars)
<1> SUFFICES ASSUME AuthorizationInvariant, [Next]_vars
             PROVE  Contract!Next \/ Unseen
  BY DEF Contract!vars, Unseen
<1>1. CASE \E r \in Runs : Starts(r)
  BY <1>1 DEF Starts, Begin, PrintAgain, Refused, userVars, ringVars, Unseen
<1>2. CASE \E r \in Runs : Works(r)
  <2>1. PICK r \in Runs : Works(r)
    BY <1>2
  <2>2. StoreToken(r) \/ Unseen
    BY <2>1
    DEF Works, Save, SaveFails, ReceiveCode, ReceiveError, Exchange, ExchangeFails, NotStored, TimeOut,
        userVars, ringVars, Unseen
  <2> QED
    BY <2>2, StoreTokenRefines
<1>3. CASE \E r \in Runs : Answers(r)
  <2>1. PICK r \in Runs : Answers(r)
    BY <1>3
  <2>2. (\E a \in Accounts : RemoveAccount(r, a)) \/ Unseen
    BY <2>1
    DEF Answers, Callback, Paste, Handle, Declined, OpenTab, Abandoned, userVars, ringVars, Unseen
  <2> QED
    BY <2>2, RemoveAccountRefines
<1>4. CASE \E h \in handlers : Handling(h)
  BY <1>4, HandlerStoresRefines DEF Handling, HandlerExchanges, HandlerFails, ringVars, Unseen
<1>5. CASE \E u \in printed, a \in Accounts : Consent(u, a)
  BY <1>5, ConsentRefines
<1>6. CASE \E n \in files : Expire(n)
  BY <1>6 DEF Expire, userVars, ringVars, Unseen
<1>7. CASE UNCHANGED vars
  BY <1>7 DEF vars, userVars, ringVars, Unseen
<1> QED
  BY <1>1, <1>2, <1>3, <1>4, <1>5, <1>6, <1>7 DEF Next

\* oauth_flow.go, oauth_flow_manual.go, accounts_server.go: values have their types
\* and no token is stored that Google has not granted.
THEOREM AuthorizationTypes == Spec => []TypeOK
<1>1. AuthorizationInvariant => TypeOK
  BY DEF AuthorizationInvariant
<1> QED
  BY SpecSound, <1>1, PTL

\* oauth_flow_manual.go, manual_state.go: a URL that was printed can be redeemed until
\* it is too old, or a token has been granted for an answer to it, or, to a run that
\* used it, for an answer that had lost its state.
THEOREM UrlsAreRedeemable == Spec => []PrintedIsRedeemable
<1>1. AuthorizationInvariant => PrintedIsRedeemable
  BY DEF AuthorizationInvariant
<1> QED
  BY SpecSound, <1>1, PTL

\* oauth_flow.go, auth_add.go, accounts_server.go: a token is stored for who consented,
\* once, and, if the state was compared, as what was consented to.
THEOREM AuthorizationKeepsContract == Spec => StoresConsents
<1>1. Init => Contract!Init
  BY DEF Init, Contract!Init
<1> QED
  BY SpecSound, NextRefines, <1>1, PTL DEF Spec, StoresConsents, Contract!Spec
=============================================================================
