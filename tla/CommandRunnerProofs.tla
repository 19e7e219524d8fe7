------------------------- MODULE CommandRunnerProofs -------------------------
(***************************************************************************)
(* The guards of CommandRunner hold for every set of commands whose steps  *)
(* are in the order CommandScripts asks for, whatever fails, whatever is   *)
(* answered and however often the loops are repeated.                      *)
(***************************************************************************)
EXTENDS CommandScripts, SequenceTheorems, TLAPS

Steps == command.steps

\* Only these steps wait, and only in a run that goes on.
Waits == waiting => /\ result = "running"
                    /\ pc \in DOMAIN Steps /\ Here.op \in {"ask", "prompt", "wait", "open"}

Base == /\ command \in Commands /\ result \in Results
        /\ waiting \in BOOLEAN /\ consented \in BOOLEAN /\ Waits

---------------------------------------------------------------------------
(* What one step can do.                                                     *)

\* A run that goes on does so to a position After allows, and passes a guard
\* only if the guard lets it.
Passes ==
  /\ pc \in DOMAIN Steps /\ pc' \in After(Steps, pc)
  /\ Here.op = "dryRun" => ~dryRun
  /\ Here.op = "ask" => force \/ consented'
  /\ Here.op = "noSend" => noSend # "account"

Starts == /\ pc = 0 /\ pc' = 1
          /\ noSend = "all" => command.name \notin SendCommands

Moves == /\ flagVars' = flagVars
         /\ consented => consented'
         /\ pc' = pc \/ Starts \/ Passes
         /\ result' = "running" => result = "running"
         /\ result # "running" => UNCHANGED <<result, consented>>

\* The observers change only at a step that changes something.
Unaltered == UNCHANGED <<changed, grave, overwritten>>

Alters ==
  /\ result = "running" /\ ~waiting
  /\ pc \in DOMAIN Steps /\ Here.op \in Changing
  /\ changed' \subseteq changed \cup {Here.obj} /\ changed \subseteq changed'
  /\ \/ grave' = grave
     \/ Here.op \in {"delete", "expose"} /\ grave' = grave \cup {Here.obj} /\ Here.obj \in changed'
  /\ \/ overwritten' = overwritten
     \/ /\ Here.op = "replace" /\ Here.obj \in stale
        /\ overwritten' = overwritten \cup {Here.obj} /\ Here.obj \in changed'
  /\ result' \in {"running", "error"}
  /\ result' = "running" => pc' \in After(Steps, pc)

Effects == Unaltered \/ Alters

\* What is known to be stale has been read.
Looks ==
  /\ \/ seen' = seen
     \/ /\ result = "running" /\ ~waiting /\ pc \in DOMAIN Steps /\ Here.op = "read"
        /\ seen' = seen \cup {Here.obj}
        /\ result' = "running" /\ pc' \in After(Steps, pc)
  /\ stale' \subseteq stale \cup (seen \cap Shared)

Refuses == result' \in {"refused", "cancelled", "planned"} /\ result = "running"
             => /\ pc \in DOMAIN Steps /\ Here.op \in {"dryRun", "ask", "prompt"}
                /\ Unaltered

Turns == turns' = turns \/ (turns < MaxTurns /\ turns' = turns + 1)

LEMMA StepsTyped == ASSUME command \in Commands
                    PROVE  /\ Steps \in Seq([op : Words, obj : Words, n : Int])
                           /\ DOMAIN Steps = 1 .. Len(Steps) /\ Len(Steps) \in Nat
                           /\ \A k \in DOMAIN Steps : After(Steps, k) \subseteq 1 .. Len(Steps) + 1
<1>1. WellFormed(Steps)
  BY StepsAssumption DEF Steps
<1> HIDE DEF Steps
<1>2. Steps \in Seq([op : Words, obj : Words, n : Int])
  BY <1>1 DEF WellFormed
<1>3. \A k \in DOMAIN Steps : After(Steps, k) \subseteq 1 .. Len(Steps) + 1
  BY <1>1 DEF WellFormed
<1>4. DOMAIN Steps = 1 .. Len(Steps) /\ Len(Steps) \in Nat
  BY <1>2
<1> QED
  BY <1>2, <1>3, <1>4

\* Each step of a run is of this kind.
LEMMA StepIs == ASSUME Base, Next
                PROVE  Base' /\ Moves /\ Effects /\ Looks /\ Refuses /\ Turns
<1> USE DEF Base, Waits, Results, Moves, Effects, Looks, Refuses, Turns, Passes, Starts, Unaltered, Alters,
            Steps, After, Idle, flagVars, dataVars, doneVars, Here
<1>0. 0 \notin DOMAIN Steps
  BY StepsTyped
<1>1. CASE Begin
  BY <1>0, <1>1 DEF Begin, End, Goto
<1>2. CASE Checks
  BY <1>2 DEF Checks, At, Advance, FailsHere, End, Goto, Fallible
<1>3. CASE Fails
  BY <1>3 DEF Fails, At, FailsHere, End, Goto, Fallible
<1>4. CASE Stops
  <2>1. CASE Advance
    BY <1>4, <2>1 DEF Stops, At, Advance, Goto
  <2>2. CASE End("ok")
    BY <1>4, <2>2 DEF Stops, At, End
  <2> QED
    BY <1>4, <2>1, <2>2 DEF Stops
<1>5. CASE Plans
  BY <1>5 DEF Plans, At, Advance, End, Goto
<1>6. CASE Asks
  <2>1. CASE force /\ Advance
    BY <1>6, <2>1 DEF Asks, At, Advance, Goto
  <2>2. CASE End("refused")
    BY <1>6, <2>2 DEF Asks, At, End
  <2>3. CASE Wait
    BY <1>6, <2>3 DEF Asks, At, Wait
  <2> QED
    BY <1>6, <2>1, <2>2, <2>3 DEF Asks
<1>7. CASE Prompts
  BY <1>7 DEF Prompts, At, Advance, Goto, Wait
<1>8. CASE AccountMaySend
  BY <1>8 DEF AccountMaySend, At, Advance, End, Goto
<1>9. CASE Branches
  BY <1>9 DEF Branches, At, Advance, Goto
<1>10. CASE Defers
  BY <1>10 DEF Defers, At, Advance, Goto
<1>11. CASE Finish
  BY <1>11 DEF Finish, End
<1>12. CASE Opens
  <2>1. CASE Advance
    BY <1>12, <2>1 DEF Opens, At, Advance, Goto
  <2>2. CASE FailsHere
    BY <1>12, <2>2 DEF Opens, At, FailsHere, End, Goto, Fallible
  <2>3. CASE Wait
    BY <1>12, <2>3 DEF Opens, At, Wait
  <2> QED
    BY <1>12, <2>1, <2>2, <2>3 DEF Opens
<1>13. CASE Saves
  BY <1>13 DEF Saves, At, Advance, FailsHere, End, Goto, Fallible
<1>14. CASE Reads
  BY <1>14 DEF Reads, At, Advance, FailsHere, End, Goto, Fallible
<1>15. CASE Changes
  BY <1>15 DEF Changes, Done, At, Advance, Goto, Changing
<1>16. CASE ChangeFails
  BY <1>16 DEF ChangeFails, At, FailsHere, End, Goto, Changing, Fallible
<1>17. CASE CleansUp
  BY <1>17 DEF CleansUp
<1>18. CASE Answer
  <2>1. CASE Advance /\ consented' = (consented \/ Here.op = "ask")
    <3>1. pc' \in After(Steps, pc)
      BY <1>18, <2>1 DEF Answer, Advance, Goto
    <3>2. (Here.op = "ask" => consented') /\ (consented => consented') /\ consented' \in BOOLEAN
      BY <2>1
    <3> QED
      BY <1>18, <2>1, <3>1, <3>2 DEF Answer, Advance, Goto
  <2>2. CASE Here.op \in {"ask", "prompt"} /\ End("cancelled") /\ UNCHANGED consented
    BY <1>18, <2>2 DEF Answer, End
  <2>3. CASE Here.op \notin {"ask", "prompt"} /\ FailsHere /\ UNCHANGED consented
    BY <1>18, <2>3 DEF Answer, FailsHere, End, Goto, Fallible
  <2> QED
    BY <1>18, <2>1, <2>2, <2>3 DEF Answer
<1>19. CASE OthersEdit
  BY <1>19 DEF OthersEdit
<1>20. CASE Pauses
  BY <1>20 DEF Pauses, At, Wait
<1> QED
  BY <1>1, <1>2, <1>3, <1>4, <1>5, <1>6, <1>7, <1>8, <1>9, <1>10, <1>11, <1>12, <1>13, <1>14, <1>15, <1>16, <1>17,
     <1>18, <1>19, <1>20 DEF Next, Run

LEMMA StepInRange == ASSUME Base, Next, pc \in 0 .. Len(Steps) + 1
                     PROVE  pc' \in 0 .. Len(Steps) + 1
<1>1. pc' = pc \/ Starts \/ Passes
  BY StepIs DEF Moves
<1> QED
  BY <1>1, StepsTyped DEF Base, Starts, Passes

LEMMA BaseKept == Base /\ [Next]_vars => Base'
<1>1. CASE UNCHANGED vars
  BY <1>1 DEF vars, flagVars, dataVars, doneVars, Base, Waits, Steps, Here
<1> QED
  BY <1>1, StepIs

LEMMA BaseInit == Init => Base
  BY DEF Init, Base, Waits, Results

---------------------------------------------------------------------------
(* Guards a change lies behind.                                              *)

\* A run that goes on and has not passed the guard is where none has passed it.
NotPast(guard) == result = "running" => pc \in {0} \cup Before(Steps, guard)

LEMMA StaysBefore ==
  ASSUME NEW guard, NEW ks, Base, Moves, NotPast(guard), Behind(Steps, guard, ks),
         Passes => Here.op # guard
  PROVE  NotPast(guard)'
BY StepsTyped DEF Base, Moves, Starts, Passes, NotPast, Behind, Closed, Steps, Here, flagVars

LEMMA NotReached ==
  ASSUME NEW guard, NEW ks, Base, NotPast(guard), Behind(Steps, guard, ks),
         result = "running", pc \in DOMAIN Steps
  PROVE  pc \notin ks
BY StepsTyped DEF Base, NotPast, Behind

\* In a dry run nothing has been done.
DryRunInvariant ==
  dryRun /\ ~Left("dryRun") => changed = {} /\ NotPast("dryRun")

LEMMA DryRunKept == Base /\ DryRunInvariant /\ [Next]_vars => DryRunInvariant'
<1> SUFFICES ASSUME Base, DryRunInvariant, [Next]_vars, dryRun', ~Left("dryRun")'
             PROVE  changed' = {} /\ NotPast("dryRun")'
  BY DEF DryRunInvariant
<1>1. CASE UNCHANGED vars
  BY <1>1 DEF vars, flagVars, dataVars, doneVars, DryRunInvariant, NotPast, Left, Steps
<1>2. CASE Next
  <2>1. Moves /\ Effects
    BY <1>2, StepIs
  <2>2. command' = command /\ dryRun /\ ~Left("dryRun")
    BY <2>1 DEF Moves, flagVars, Left
  <2>3. changed = {} /\ NotPast("dryRun")
    BY <2>2 DEF DryRunInvariant
  <2>4. Behind(Steps, "dryRun", Positions(Steps, Changing))
    BY <2>2, DryRunAssumption DEF Base, Left, Steps
  <2>5. ~Alters
    BY <2>3, <2>4, NotReached DEF Alters, Positions, Here, Steps
  <2>6. NotPast("dryRun")'
    BY <2>1, <2>2, <2>3, <2>4, StaysBefore DEF Passes
  <2> QED
    BY <2>1, <2>3, <2>5, <2>6 DEF Effects, Unaltered
<1> QED
  BY <1>1, <1>2

\* root.go:46: --dry-run makes no changes.
THEOREM DryRunHolds == Spec => []DryRunChangesNothing
<1>1. Init => DryRunInvariant
  BY DEF Init, DryRunInvariant, NotPast
<1>2. DryRunInvariant => DryRunChangesNothing
  BY DEF DryRunInvariant, DryRunChangesNothing
<1> QED
  BY <1>1, <1>2, BaseInit, BaseKept, DryRunKept, PTL DEF Spec

\* Without the user's agreement nothing is removed and nobody is given access.
AskInvariant ==
  ~force /\ ~consented /\ ~Left("asked") => grave = {} /\ NotPast("ask")

LEMMA AskKept == Base /\ AskInvariant /\ [Next]_vars => AskInvariant'
<1> SUFFICES ASSUME Base, AskInvariant, [Next]_vars, ~force', ~consented', ~Left("asked")'
             PROVE  grave' = {} /\ NotPast("ask")'
  BY DEF AskInvariant
<1>1. CASE UNCHANGED vars
  BY <1>1 DEF vars, flagVars, dataVars, doneVars, AskInvariant, NotPast, Left, Steps
<1>2. CASE Next
  <2> DEFINE Grave == {"delete", "expose"}
  <2>1. Moves /\ Effects
    BY <1>2, StepIs
  <2>2. command' = command /\ ~force /\ ~consented /\ ~Left("asked")
    BY <2>1 DEF Moves, flagVars, Left
  <2>3. grave = {} /\ NotPast("ask")
    BY <2>2 DEF AskInvariant
  <2>4. Behind(Steps, "ask", Positions(Steps, Grave))
    BY <2>2, AskAssumption DEF Base, Left, Steps
  <2>5. Alters => Here.op \notin Grave
    BY <2>3, <2>4, NotReached DEF Alters, Positions, Here, Steps
  <2>6. NotPast("ask")'
    BY <2>1, <2>2, <2>3, <2>4, StaysBefore DEF Passes
  <2> QED
    BY <2>1, <2>3, <2>5, <2>6 DEF Effects, Unaltered, Alters
<1> QED
  BY <1>1, <1>2

\* confirm.go: nothing grave is done unasked.
THEOREM AskHolds == Spec => []NothingGraveUnasked
<1>1. Init => AskInvariant
  BY DEF Init, AskInvariant, NotPast
<1>2. AskInvariant => NothingGraveUnasked
  BY DEF AskInvariant, NothingGraveUnasked
<1> QED
  BY <1>1, <1>2, BaseInit, BaseKept, AskKept, PTL DEF Spec

\* While sending is blocked for all accounts a command of the list does not begin;
\* while it is blocked for one, a command that sends has not passed the look at it.
Mail == About(Steps, Changing, "mail")

SendInvariant ==
  /\ noSend \in {"off", "all", "account"}
  /\ noSend # "off" => "mail" \notin changed
  /\ noSend = "all" /\ command.name \in SendCommands /\ result = "running" => pc = 0
  /\ noSend = "account" /\ Mail # {} => NotPast("noSend")

LEMMA SendKept == Base /\ SendInvariant /\ [Next]_vars => SendInvariant'
<1> SUFFICES ASSUME Base, SendInvariant, [Next]_vars
             PROVE  SendInvariant'
  OBVIOUS
<1>1. CASE UNCHANGED vars
  BY <1>1 DEF vars, flagVars, dataVars, doneVars, SendInvariant, NotPast, Mail, Steps
<1>2. CASE Next
  <2>1. Moves /\ Effects
    BY <1>2, StepIs
  <2>2. command' = command /\ noSend' = noSend
    BY <2>1 DEF Moves, flagVars
  <2>3. Mail # {} => command.name \in SendCommands /\ Behind(Steps, "noSend", Mail)
    BY MailAssumption DEF Base, MailBehind, Mail, Steps
  <2>4. ASSUME noSend = "all", command.name \in SendCommands, result' = "running"
        PROVE  pc' = 0
    BY <2>1, <2>4, StepsTyped DEF Moves, Starts, Passes, SendInvariant, Base
  <2>5. ASSUME noSend = "account", Mail # {}
        PROVE  NotPast("noSend")'
    BY <2>1, <2>3, <2>5, StaysBefore DEF Passes, SendInvariant
  <2>6. ASSUME noSend # "off"
        PROVE  "mail" \notin changed'
    <3>1. Alters => pc \notin Mail
      <4>1. CASE noSend = "all"
        BY <2>3, <4>1, StepsTyped DEF Alters, SendInvariant, Base
      <4>2. CASE noSend = "account"
        BY <2>3, <4>2, NotReached DEF Alters, SendInvariant, Base
      <4> QED
        BY <2>6, <4>1, <4>2 DEF SendInvariant
    <3>2. Alters => Here.obj # "mail"
      BY <3>1 DEF Alters, Mail, About, Positions, Here, Steps
    <3> QED
      BY <2>1, <2>6, <3>2 DEF Effects, Unaltered, Alters, SendInvariant
  <2> QED
    BY <2>2, <2>4, <2>5, <2>6 DEF SendInvariant, Mail, Steps
<1> QED
  BY <1>1, <1>2

\* gmail_no_send.go: no mail leaves while sending is blocked.
THEOREM SendBlockHolds == Spec => []NoSendHolds
<1>1. Init => SendInvariant
  BY DEF Init, SendInvariant, NotPast
<1>2. SendInvariant => NoSendHolds
  BY DEF SendInvariant, NoSendHolds
<1> QED
  BY <1>1, <1>2, BaseInit, BaseKept, SendKept, PTL DEF Spec

---------------------------------------------------------------------------
(* What follows a change, or a read.                                         *)

\* A run that has changed something, and goes on, is where no guard follows; one
\* that a guard has stopped has changed nothing.
GuardsInvariant ==
  /\ changed # {} /\ result = "running" => pc \in AfterChange(Steps) \ {0}
  /\ RefusalLeavesNothing

LEMMA GuardsKept == Base /\ GuardsInvariant /\ [Next]_vars => GuardsInvariant'
<1> SUFFICES ASSUME Base, GuardsInvariant, [Next]_vars
             PROVE  GuardsInvariant'
  OBVIOUS
<1>1. CASE UNCHANGED vars
  BY <1>1 DEF vars, flagVars, dataVars, doneVars, GuardsInvariant, RefusalLeavesNothing, Steps
<1>2. CASE Next
  <2>1. Moves /\ Effects /\ Refuses
    BY <1>2, StepIs
  <2>2. Steps' = Steps
    BY <2>1 DEF Moves, flagVars, Steps
  <2>3. GuardsFirst(Steps)
    BY GuardsAssumption DEF Base, Steps
  <2>4. ASSUME changed' # {}, result' = "running"
        PROVE  pc' \in AfterChange(Steps) \ {0}
    <3>1. CASE Unaltered
      <4>1. pc \in AfterChange(Steps) /\ pc # 0
        BY <2>1, <2>3, <2>4, <3>1, StepsTyped
           DEF Unaltered, GuardsInvariant, Moves, Base, GuardsFirst
      <4> QED
        BY <2>1, <2>3, <2>4, <4>1, StepsTyped DEF Base, Moves, Starts, Passes, GuardsFirst, Closed
    <3>2. CASE Alters
      BY <2>3, <2>4, <3>2, StepsTyped
         DEF Base, Alters, GuardsFirst, Following, Positions, Here, Steps
    <3> QED
      BY <2>1, <3>1, <3>2 DEF Effects
  <2>5. ASSUME result' \in {"refused", "cancelled", "planned"}
        PROVE  changed' = {}
    <3>1. CASE result = "running"
      BY <2>1, <2>3, <2>5, <3>1
         DEF Refuses, Unaltered, GuardsInvariant, GuardsFirst, Positions, Here, Steps
    <3>2. CASE result # "running"
      BY <2>1, <2>5, <3>2
         DEF Moves, Effects, Alters, Unaltered, GuardsInvariant, RefusalLeavesNothing
    <3> QED
      BY <3>1, <3>2
  <2> QED
    BY <2>2, <2>4, <2>5 DEF GuardsInvariant, RefusalLeavesNothing
<1> QED
  BY <1>1, <1>2

\* A command that stops at a guard has changed nothing.
THEOREM RefusalsAreClean == Spec => []RefusalLeavesNothing
<1>1. Init => GuardsInvariant
  BY DEF Init, GuardsInvariant, RefusalLeavesNothing
<1>2. GuardsInvariant => RefusalLeavesNothing
  BY DEF GuardsInvariant
<1> QED
  BY <1>1, <1>2, BaseInit, BaseKept, GuardsKept, PTL DEF Spec

\* What may be stale has been read, and is not written back from there.
WritesInvariant ==
  /\ stale \subseteq seen \cap Shared
  /\ ~Left("overwrites") =>
       /\ overwritten = {}
       /\ result = "running" => \A obj \in seen \cap Shared : pc \in AfterReading(Steps, obj) \ {0}

LEMMA WritesKept == Base /\ WritesInvariant /\ [Next]_vars => WritesInvariant'
<1> SUFFICES ASSUME Base, WritesInvariant, [Next]_vars
             PROVE  WritesInvariant'
  OBVIOUS
<1>1. CASE UNCHANGED vars
  BY <1>1 DEF vars, flagVars, dataVars, doneVars, WritesInvariant, Left, Steps
<1>2. CASE Next
  <2>1. Moves /\ Effects /\ Looks
    BY <1>2, StepIs
  <2>2. command' = command
    BY <2>1 DEF Moves, flagVars
  <2>3. (stale \subseteq seen \cap Shared)'
    BY <2>1 DEF Looks, WritesInvariant
  <2>4. ASSUME ~Left("overwrites")
        PROVE  /\ overwritten' = {}
               /\ result' = "running" =>
                    \A obj \in (seen \cap Shared)' : pc' \in AfterReading(Steps, obj) \ {0}
    <3>1. \A obj \in Shared : NotWrittenBack(Steps, obj)
      BY <2>4, WritesAssumption DEF Base, Left, Steps
    <3>2. Alters => ~(Here.op = "replace" /\ Here.obj \in stale)
      <4> SUFFICES ASSUME Alters, Here.op = "replace", Here.obj \in stale
                   PROVE  FALSE
        OBVIOUS
      <4>1. pc \in AfterReading(Steps, Here.obj) /\ Here.obj \in Shared
        BY <2>4 DEF Alters, WritesInvariant
      <4>2. pc \in About(Steps, {"replace"}, Here.obj)
        BY DEF Alters, About, Positions, Here, Steps
      <4> QED
        BY <3>1, <4>1, <4>2 DEF NotWrittenBack
    <3>3. overwritten' = {}
      BY <2>1, <2>4, <3>2 DEF Effects, Unaltered, Alters, WritesInvariant
    <3>4. ASSUME result' = "running", NEW obj \in (seen \cap Shared)'
          PROVE  pc' \in AfterReading(Steps, obj) \ {0}
      <4>1. CASE obj \in seen
        <5>1. pc \in AfterReading(Steps, obj) \ {0} /\ NotWrittenBack(Steps, obj)
          BY <2>1, <2>4, <3>1, <3>4, <4>1 DEF Moves, WritesInvariant
        <5> QED
          BY <2>1, <3>4, <5>1, StepsTyped DEF Base, Moves, Starts, Passes, NotWrittenBack, Closed
      <4>2. CASE obj \notin seen
        <5>1. pc \in About(Steps, {"read"}, obj) /\ pc' \in After(Steps, pc)
          BY <2>1, <3>4, <4>2 DEF Looks, About, Positions, Here, Steps
        <5> QED
          BY <3>1, <5>1, StepsTyped DEF Base, NotWrittenBack, Following, About, Positions
      <4> QED
        BY <4>1, <4>2
    <3> QED
      BY <3>3, <3>4
  <2> QED
    BY <2>2, <2>3, <2>4 DEF WritesInvariant, Left, Steps
<1> QED
  BY <1>1, <1>2

\* The edits of others stay.
THEOREM EditsStay == Spec => []OthersEditsKept
<1>1. Init => WritesInvariant
  BY DEF Init, WritesInvariant
<1>2. WritesInvariant => OthersEditsKept
  BY DEF WritesInvariant, OthersEditsKept
<1> QED
  BY <1>1, <1>2, BaseInit, BaseKept, WritesKept, PTL DEF Spec

---------------------------------------------------------------------------
\* Types, and which observers lie within which.
TypeInvariant == Base /\ TypeOK

LEMMA TypesKept == TypeInvariant /\ [Next]_vars => TypeInvariant'
<1> SUFFICES ASSUME TypeInvariant, [Next]_vars
             PROVE  TypeInvariant'
  OBVIOUS
<1>1. CASE UNCHANGED vars
  BY <1>1, BaseKept DEF vars, flagVars, dataVars, doneVars, TypeInvariant, TypeOK, Names
<1>2. CASE Next
  <2>1. Base' /\ Moves /\ Effects /\ Looks /\ Turns
    BY <1>2, StepIs DEF TypeInvariant
  <2>2. flagVars' = flagVars
    BY <2>1 DEF Moves
  <2>3. pc' \in 0 .. Len(command.steps) + 1
    BY <1>2, StepInRange DEF TypeInvariant, TypeOK, Steps
  <2>4. turns' \in 0 .. MaxTurns
    BY <2>1, StepsAssumption DEF Turns, TypeInvariant, TypeOK
  <2>5. (stale \subseteq seen)' /\ (overwritten \subseteq changed)' /\ (grave \subseteq changed)'
    BY <2>1 DEF Looks, Effects, Unaltered, Alters, TypeInvariant, TypeOK
  <2> QED
    BY <2>1, <2>2, <2>3, <2>4, <2>5 DEF Base, flagVars, TypeInvariant, TypeOK, Names
<1> QED
  BY <1>1, <1>2

\* Values have their types.
THEOREM TypesCorrect == Spec => []TypeOK
<1>1. Init => TypeInvariant
  <2> SUFFICES ASSUME Init PROVE TypeOK
    BY BaseInit DEF TypeInvariant
  <2>1. Len(command.steps) \in Nat
    BY StepsTyped DEF Init, Steps
  <2>2. command.name \in Names
    BY DEF Init, Names
  <2>3. pc \in 0 .. Len(command.steps) + 1 /\ turns \in 0 .. MaxTurns
    BY <2>1, StepsAssumption DEF Init
  <2> QED
    BY <2>2, <2>3 DEF Init, TypeOK, Results
<1>2. TypeInvariant => TypeOK
  BY DEF TypeInvariant
<1> QED
  BY <1>1, <1>2, TypesKept, PTL DEF Spec

---------------------------------------------------------------------------
(* Changes that have failed, and what the command has made for itself.       *)

MarksOf(obj) == (IF obj \in failed THEN {"failed"} ELSE {})
                  \cup (IF obj \in lent THEN {"lent"} ELSE {})
                  \cup (IF obj \in deferred THEN {"deferred"} ELSE {})

\* A run that goes on leaves the marks as they are, and no change behind;
Steady ==
  /\ UNCHANGED <<failed, lent, deferred>>
  /\ pc' = pc \/ Starts \/ (Passes /\ Here.op \notin Changing \cup {"defer"})

\* makes a change,
Works ==
  /\ result = "running" /\ pc \in DOMAIN Steps /\ Here.op \in Changing
  /\ failed' = failed \ {Here.obj}
  /\ lent' = CASE Here.op = "lend" -> lent \cup {Here.obj}
               [] Here.op = "takeBack" -> lent \ {Here.obj}
               [] OTHER -> lent
  /\ UNCHANGED <<deferred, result>>
  /\ pc' = pc + 1

\* fails to make it,
WorksNot ==
  /\ result = "running" /\ pc \in DOMAIN Steps /\ Here.op \in Changing
  /\ failed' = failed \cup {Here.obj}
  /\ UNCHANGED <<lent, deferred>>
  /\ \/ result' = "error"
     \/ result' = "running" /\ Here.n # 0 /\ pc' = pc + 1 + Here.n

\* or notes what is to be removed;
Notes ==
  /\ result = "running" /\ pc \in DOMAIN Steps /\ Here.op = "defer"
  /\ deferred' = deferred \cup {Here.obj}
  /\ UNCHANGED <<failed, lent, result>>
  /\ pc' = pc + 1

\* one that has ended removes it.
TakesAway ==
  /\ result # "running" /\ UNCHANGED result
  /\ \E obj \in deferred :
       /\ deferred' = deferred \ {obj}
       /\ \/ lent' = lent \ {obj} /\ UNCHANGED failed
          \/ obj \in lent /\ failed' = failed \cup {obj} /\ UNCHANGED lent

EndsWell == result' = "ok" /\ result = "running" => MayEnd(Steps, pc) /\ pc # 0

LEMMA MarksStep == ASSUME Base, Next
                   PROVE  EndsWell /\ (Steady \/ Works \/ WorksNot \/ Notes \/ TakesAway)
<1> USE DEF Base, Waits, Results, Passes, Starts, Steady, EndsWell, MayEnd,
            Steps, After, Idle, flagVars, dataVars, doneVars, Here
<1>0. 0 \notin DOMAIN Steps /\ Len(Steps) \in Nat
  BY StepsTyped
<1>1. CASE Begin
  BY <1>0, <1>1 DEF Begin, End, Goto
<1>2. CASE Checks
  BY <1>2 DEF Checks, At, Advance, FailsHere, End, Goto, Fallible, Changing
<1>3. CASE Fails
  BY <1>3 DEF Fails, At, FailsHere, End, Goto, Fallible, Changing
<1>4. CASE Stops
  <2>1. CASE Advance
    BY <1>4, <2>1 DEF Stops, At, Advance, Goto, Changing
  <2>2. CASE End("ok")
    BY <1>0, <1>4, <2>2 DEF Stops, At, End
  <2> QED
    BY <1>4, <2>1, <2>2 DEF Stops
<1>5. CASE Plans
  BY <1>5 DEF Plans, At, Advance, End, Goto, Changing
<1>6. CASE Asks
  <2>1. CASE force /\ Advance
    BY <1>6, <2>1 DEF Asks, At, Advance, Goto, Changing
  <2>2. CASE End("refused")
    BY <1>6, <2>2 DEF Asks, At, End
  <2>3. CASE Wait
    BY <1>6, <2>3 DEF Asks, At, Wait
  <2> QED
    BY <1>6, <2>1, <2>2, <2>3 DEF Asks
<1>7. CASE Prompts
  BY <1>7 DEF Prompts, At, Advance, Goto, Wait, Changing
<1>8. CASE AccountMaySend
  BY <1>8 DEF AccountMaySend, At, Advance, End, Goto, Changing
<1>9. CASE Branches
  BY <1>9 DEF Branches, At, Advance, Goto, Changing
<1>10. CASE Defers
  BY <1>10 DEF Defers, At, Advance, Goto, Notes
<1>11. CASE Finish
  BY <1>0, <1>11 DEF Finish, End
<1>12. CASE Opens
  <2>1. CASE Advance
    BY <1>12, <2>1 DEF Opens, At, Advance, Goto, Changing
  <2>2. CASE FailsHere
    BY <1>12, <2>2 DEF Opens, At, FailsHere, End, Goto, Fallible, Changing
  <2>3. CASE Wait
    BY <1>12, <2>3 DEF Opens, At, Wait
  <2> QED
    BY <1>12, <2>1, <2>2, <2>3 DEF Opens
<1>13. CASE Saves
  BY <1>13 DEF Saves, At, Advance, FailsHere, End, Goto, Fallible, Changing
<1>14. CASE Reads
  BY <1>14 DEF Reads, At, Advance, FailsHere, End, Goto, Fallible, Changing
<1>15. CASE Changes
  BY <1>15 DEF Changes, Done, At, Advance, Goto, Works
<1>16. CASE ChangeFails
  BY <1>16 DEF ChangeFails, At, FailsHere, End, Goto, WorksNot
<1>17. CASE CleansUp
  BY <1>17 DEF CleansUp, TakesAway
<1>18. CASE Answer
  <2>1. CASE Advance
    <3>1. /\ result = "running" /\ pc \in DOMAIN Steps
          /\ pc' = pc + 1 /\ UNCHANGED <<failed, lent, deferred, result>>
      BY <1>18, <2>1 DEF Answer, Advance, Goto
    <3>2. Here.op \notin {"fail", "jump", "dryRun", "noSend"} \cup Changing \cup {"defer"}
      BY <1>18 DEF Answer, Changing
    <3>3. Here.op = "ask" => consented'
      BY <1>18, <2>1 DEF Answer, End, Advance, Goto
    <3> QED
      BY <3>1, <3>2, <3>3
  <2>2. CASE Here.op \in {"ask", "prompt"} /\ End("cancelled")
    BY <1>18, <2>2 DEF Answer, End
  <2>3. CASE Here.op \notin {"ask", "prompt"} /\ FailsHere
    BY <1>18, <2>3 DEF Answer, FailsHere, End, Goto, Fallible, Changing
  <2> QED
    BY <1>18, <2>1, <2>2, <2>3 DEF Answer
<1>19. CASE OthersEdit
  BY <1>19 DEF OthersEdit
<1>20. CASE Pauses
  BY <1>20 DEF Pauses, At, Wait
<1> QED
  BY <1>1, <1>2, <1>3, <1>4, <1>5, <1>6, <1>7, <1>8, <1>9, <1>10, <1>11, <1>12, <1>13, <1>14, <1>15, <1>16, <1>17,
     <1>18, <1>19, <1>20 DEF Next, Run

\* What is known of an object is what Track says of the position the run is at;
\* a run that has ended well leaves an object only where it may.
TrackInvariant ==
  /\ failed \cup lent \cup deferred \subseteq Touched(Steps)
  /\ result = "running" /\ pc = 0 => failed = {} /\ lent = {} /\ deferred = {}
  /\ result = "running" /\ pc # 0 =>
       \A obj \in Touched(Steps) : <<pc, MarksOf(obj)>> \in Track(Steps, obj)
  /\ result = "ok" => lent \subseteq failed \cup deferred
  /\ result = "ok" /\ ~Left("reported") => failed \subseteq lent \ deferred

\* The position after a step at pc is one that Track has, for each object.
LEMMA TrackGoesOn ==
  ASSUME command \in Commands, TrackInvariant, result = "running", pc \in DOMAIN Steps,
         UNCHANGED command, NEW obj \in Touched(Steps),
         <<pc', MarksOf(obj)'>> \in Leads(Steps, obj, pc, MarksOf(obj))
  PROVE  <<pc', MarksOf(obj)'>> \in Track(Steps, obj)
<1>1. pc # 0
  BY StepsTyped
<1>2. <<pc, MarksOf(obj)>> \in Track(Steps, obj)
  BY <1>1 DEF TrackInvariant
<1>3. Followed(Steps, obj)
  BY LendingAssumption DEF Steps
<1> QED
  BY <1>2, <1>3 DEF Followed

LEMMA TrackWorks ==
  ASSUME command \in Commands, TrackInvariant, UNCHANGED command, Works
  PROVE  TrackInvariant'
<1> USE DEF Works
<1>0. Here.obj \in Touched(Steps) /\ Steps' = Steps
  BY DEF Touched, Positions, Here, Steps
<1>1. ASSUME NEW obj \in Touched(Steps)
      PROVE  <<pc', MarksOf(obj)'>> \in Leads(Steps, obj, pc, MarksOf(obj))
  <2>1. CASE obj = Here.obj
    <3>1. MarksOf(obj)' = Succeeded(Here.op, MarksOf(obj))
      BY <2>1 DEF MarksOf, Succeeded
    <3> QED
      BY <2>1, <3>1 DEF Leads, Here, Steps
  <2>2. CASE obj # Here.obj
    <3>1. MarksOf(obj)' = MarksOf(obj)
      BY <2>2 DEF MarksOf
    <3>2. pc + 1 \in After(Steps, pc)
      BY DEF After, Here, Steps, Changing
    <3> QED
      BY <2>2, <3>1, <3>2 DEF Leads, Here, Steps
  <2> QED
    BY <2>1, <2>2
<1>2. \A obj \in Touched(Steps) : <<pc', MarksOf(obj)'>> \in Track(Steps, obj)
  BY <1>1, TrackGoesOn
<1>3. (failed \cup lent \cup deferred \subseteq Touched(Steps))'
  BY <1>0 DEF TrackInvariant
<1>4. pc' # 0 /\ result' = "running"
  BY StepsTyped
<1> QED
  BY <1>0, <1>2, <1>3, <1>4 DEF TrackInvariant

LEMMA TrackWorksNot ==
  ASSUME command \in Commands, TrackInvariant, UNCHANGED command, WorksNot
  PROVE  TrackInvariant'
<1> USE DEF WorksNot
<1>0. Here.obj \in Touched(Steps) /\ Steps' = Steps
  BY DEF Touched, Positions, Here, Steps
<1>3. (failed \cup lent \cup deferred \subseteq Touched(Steps))'
  BY <1>0 DEF TrackInvariant
<1>4. CASE result' = "error"
  BY <1>3, <1>4 DEF TrackInvariant
<1>5. CASE result' = "running" /\ Here.n # 0 /\ pc' = pc + 1 + Here.n
  <2>0. pc' \in After(Steps, pc)
    BY <1>5 DEF After, Here, Steps, Changing, Fallible
  <2>1. ASSUME NEW obj \in Touched(Steps)
        PROVE  <<pc', MarksOf(obj)'>> \in Leads(Steps, obj, pc, MarksOf(obj))
    <3>1. CASE obj = Here.obj
      <4>1. MarksOf(obj)' = MarksOf(obj) \cup {"failed"}
        BY <3>1 DEF MarksOf
      <4> QED
        BY <1>5, <3>1, <4>1 DEF Leads, Here, Steps
    <3>2. CASE obj # Here.obj
      <4>1. MarksOf(obj)' = MarksOf(obj)
        BY <3>2 DEF MarksOf
      <4> QED
        BY <2>0, <3>2, <4>1 DEF Leads, Here, Steps
    <3> QED
      BY <3>1, <3>2
  <2>2. \A obj \in Touched(Steps) : <<pc', MarksOf(obj)'>> \in Track(Steps, obj)
    BY <2>1, TrackGoesOn
  <2>3. pc' # 0
    BY <2>0, StepsTyped
  <2> QED
    BY <1>0, <1>3, <1>5, <2>2, <2>3 DEF TrackInvariant
<1> QED
  BY <1>4, <1>5

LEMMA TrackNotes ==
  ASSUME command \in Commands, TrackInvariant, UNCHANGED command, Notes
  PROVE  TrackInvariant'
<1> USE DEF Notes
<1>0. Here.obj \in Touched(Steps) /\ Steps' = Steps
  BY DEF Touched, Positions, Here, Steps
<1>1. pc + 1 \in After(Steps, pc)
  BY DEF After, Here, Steps
<1>2. ASSUME NEW obj \in Touched(Steps)
      PROVE  <<pc', MarksOf(obj)'>> \in Leads(Steps, obj, pc, MarksOf(obj))
  <2>1. MarksOf(obj)' = IF obj = Here.obj THEN MarksOf(obj) \cup {"deferred"} ELSE MarksOf(obj)
    BY DEF MarksOf
  <2> QED
    BY <1>1, <2>1 DEF Leads, Here, Steps, Changing
<1>3. \A obj \in Touched(Steps) : <<pc', MarksOf(obj)'>> \in Track(Steps, obj)
  BY <1>2, TrackGoesOn
<1>4. (failed \cup lent \cup deferred \subseteq Touched(Steps))' /\ pc' # 0 /\ result' = "running"
  BY <1>0, StepsTyped DEF TrackInvariant
<1> QED
  BY <1>0, <1>3, <1>4 DEF TrackInvariant

LEMMA TrackTakesAway ==
  ASSUME TrackInvariant, UNCHANGED command, TakesAway
  PROVE  TrackInvariant'
BY DEF TrackInvariant, TakesAway, Left, Steps

\* A run that goes on without a change, or ends.
LEMMA TrackSteady ==
  ASSUME command \in Commands, TrackInvariant, UNCHANGED command, Steady, EndsWell,
         result' = "running" => result = "running", result # "running" => UNCHANGED result
  PROVE  TrackInvariant'
<1>0. /\ Steps' = Steps /\ Left("reported")' = Left("reported")
      /\ \A obj : MarksOf(obj)' = MarksOf(obj)
      /\ UNCHANGED <<failed, lent, deferred>>
  BY DEF Steady, Steps, Left, MarksOf
<1>1. ASSUME result' = "running"
      PROVE  TrackInvariant'
  <2>1. CASE pc' = pc
    BY <1>0, <1>1, <2>1 DEF TrackInvariant
  <2>2. CASE Starts
    <3>1. \A obj \in Touched(Steps) : Followed(Steps, obj)
      BY LendingAssumption DEF Steps
    <3>2. \A obj : MarksOf(obj) = {}
      BY <1>1, <2>2 DEF Starts, TrackInvariant, MarksOf
    <3>3. \A obj \in Touched(Steps) : <<1, {}>> \in Track(Steps, obj)
      BY <3>1 DEF Followed
    <3> QED
      BY <1>0, <1>1, <2>2, <3>2, <3>3 DEF Starts, TrackInvariant
  <2>3. CASE Passes /\ Here.op \notin Changing \cup {"defer"}
    <3>1. ASSUME NEW obj \in Touched(Steps)
          PROVE  <<pc', MarksOf(obj)'>> \in Track(Steps, obj)
      <4>1. <<pc', MarksOf(obj)'>> \in Leads(Steps, obj, pc, MarksOf(obj))
        BY <1>0, <2>3 DEF Passes, Leads, Here, Steps
      <4> QED
        BY <1>1, <2>3, <4>1, TrackGoesOn DEF Passes
    <3>2. pc' # 0
      BY <2>3, StepsTyped DEF Passes
    <3> QED
      BY <1>0, <1>1, <3>1, <3>2 DEF TrackInvariant
  <2> QED
    BY <2>1, <2>2, <2>3 DEF Steady
<1>2. ASSUME result' = "ok", result = "running"
      PROVE  TrackInvariant'
  <2>1. MayEnd(Steps, pc) /\ \A obj \in Touched(Steps) : <<pc, MarksOf(obj)>> \in Track(Steps, obj)
    BY <1>2 DEF EndsWell, TrackInvariant
  <2>2. ASSUME NEW obj \in lent PROVE obj \in failed \cup deferred
    <3>1. obj \in Touched(Steps) /\ "lent" \in MarksOf(obj)
      BY <2>2 DEF TrackInvariant, MarksOf
    <3>2. TakenBack(Steps, obj)
      BY <3>1, LendingAssumption DEF Steps
    <3>3. "failed" \in MarksOf(obj) \/ "deferred" \in MarksOf(obj)
      BY <2>1, <3>1, <3>2 DEF TakenBack
    <3> QED
      BY <3>3 DEF MarksOf
  <2>3. ASSUME ~Left("reported"), NEW obj \in failed PROVE obj \in lent \ deferred
    <3>1. obj \in Touched(Steps) /\ "failed" \in MarksOf(obj)
      BY <2>3 DEF TrackInvariant, MarksOf
    <3>2. Reported(Steps, obj)
      BY <2>3, <3>1, ReportAssumption DEF Steps, Left
    <3>3. "lent" \in MarksOf(obj) /\ "deferred" \notin MarksOf(obj)
      BY <2>1, <3>1, <3>2 DEF Reported
    <3> QED
      BY <3>3 DEF MarksOf
  <2> QED
    BY <1>0, <1>2, <2>2, <2>3 DEF TrackInvariant
<1>3. ASSUME result' # "running", result' # "ok" \/ result # "running"
      PROVE  TrackInvariant'
  BY <1>0, <1>3 DEF TrackInvariant
<1> QED
  BY <1>1, <1>2, <1>3

LEMMA TrackKept == Base /\ TrackInvariant /\ [Next]_vars => TrackInvariant'
<1> SUFFICES ASSUME Base, TrackInvariant, [Next]_vars
             PROVE  TrackInvariant'
  OBVIOUS
<1>1. CASE UNCHANGED vars
  BY <1>1 DEF vars, flagVars, dataVars, doneVars, TrackInvariant, MarksOf, Left, Steps
<1>2. CASE Next
  <2>1. Moves /\ EndsWell /\ (Steady \/ Works \/ WorksNot \/ Notes \/ TakesAway)
    BY <1>2, StepIs, MarksStep
  <2>2. /\ UNCHANGED command /\ command \in Commands
        /\ result' = "running" => result = "running"
        /\ result # "running" => UNCHANGED result
    BY <2>1 DEF Moves, flagVars, Base
  <2> QED
    BY <2>1, <2>2, TrackSteady, TrackWorks, TrackWorksNot, TrackNotes, TrackTakesAway
<1> QED
  BY <1>1, <1>2

LEMMA TrackInit == Init => TrackInvariant
  BY DEF Init, TrackInvariant

\* A change that has failed is not reported as a success.
THEOREM FailuresAreReported == Spec => []FailureReported
<1>1. TrackInvariant => FailureReported
  BY DEF TrackInvariant, FailureReported
<1> QED
  BY <1>1, BaseInit, BaseKept, TrackInit, TrackKept, PTL DEF Spec

\* docs_import.go: after a success nothing is left of what the command has made
\* for its own use, unless removing it has failed.
THEOREM NothingIsLeftBehind == Spec => []NothingLeftBehind
<1>1. TrackInvariant => NothingLeftBehind
  BY DEF TrackInvariant, NothingLeftBehind, Ended
<1> QED
  BY <1>1, BaseInit, BaseKept, TrackInit, TrackKept, PTL DEF Spec

---------------------------------------------------------------------------
(* Scripts that are put together with the combinators of CommandSteps.     *)

StepRecord == [op : Words, obj : Words, n : Int]

\* A block of steps stays inside wherever it is put.
LEMMA BlockStaysInside ==
  ASSUME NEW b, WellFormed(b), NEW w \in Seq(StepRecord), NEW o \in Nat,
         o + Len(b) <= Len(w), \A i \in 1..Len(b) : w[o + i] = b[i],
         NEW k \in (o + 1)..(o + Len(b))
  PROVE  After(w, k) \subseteq 1..(Len(w) + 1)
<1> DEFINE i == k - o
<1>1. b \in Seq(StepRecord) /\ Len(b) \in Nat /\ Len(w) \in Nat /\ DOMAIN b = 1..Len(b)
  BY DEF WellFormed, StepRecord
<1>2. i \in 1..Len(b) /\ k = o + i /\ w[k] = b[i]
  BY <1>1
<1>3. b[i].n \in Int
  <2> HIDE DEF i
  <2>1. b[i] \in StepRecord
    BY <1>1, <1>2, ElementOfSeq
  <2> QED
    BY <2>1 DEF StepRecord
<1>4. \A x \in After(w, k) : x - o \in After(b, i) /\ x \in Int
  <2> DEFINE op == b[i].op
             n == b[i].n
  <2>1. After(w, k) = (IF op \in {"fail", "jump"} THEN {} ELSE {k + 1})
          \cup (IF op \in {"skip", "jump"} \/ (op \in Fallible /\ n # 0) THEN {k + 1 + n} ELSE {})
          \cup (IF op = "back" THEN {k - n} ELSE {})
    BY <1>2 DEF After
  <2>2. After(b, i) = (IF op \in {"fail", "jump"} THEN {} ELSE {i + 1})
          \cup (IF op \in {"skip", "jump"} \/ (op \in Fallible /\ n # 0) THEN {i + 1 + n} ELSE {})
          \cup (IF op = "back" THEN {i - n} ELSE {})
    BY DEF After
  <2>3. /\ n \in Int /\ k \in Int /\ i = k - o /\ o \in Int
        /\ (k + 1) - o = i + 1 /\ (k + 1 + n) - o = i + 1 + n /\ (k - n) - o = i - n
    <3>1. n \in Int
      BY <1>3
    <3>2. k \in Int /\ i = k - o /\ o \in Int
      OBVIOUS
    <3> HIDE DEF n, i
    <3> QED
      BY <3>1, <3>2
  <2> HIDE DEF op, n, i
  <2> SUFFICES ASSUME NEW x \in After(w, k) PROVE x - o \in After(b, i) /\ x \in Int
    OBVIOUS
  <2>4. CASE x = k + 1 /\ op \notin {"fail", "jump"}
    BY <2>2, <2>3, <2>4
  <2>5. CASE x = k + 1 + n /\ (op \in {"skip", "jump"} \/ (op \in Fallible /\ n # 0))
    BY <2>2, <2>3, <2>5
  <2>6. CASE x = k - n /\ op = "back"
    BY <2>2, <2>3, <2>6
  <2> QED
    BY <2>1, <2>4, <2>5, <2>6
<1>5. After(b, i) \subseteq 1..(Len(b) + 1)
  BY <1>1, <1>2 DEF WellFormed
<1> QED
  BY <1>1, <1>4, <1>5

\* One step that goes on to the next or n steps further.
LEMMA StepStaysInside ==
  ASSUME NEW w \in Seq(StepRecord), NEW k \in 1..Len(w),
         \/ w[k].op = "skip" /\ w[k].n \in Nat /\ k + 1 + w[k].n <= Len(w) + 1
         \/ w[k].op = "jump" /\ w[k].n \in Nat /\ k + 1 + w[k].n <= Len(w) + 1
         \/ w[k].op = "back" /\ w[k].n \in Nat /\ w[k].n < k
  PROVE  After(w, k) \subseteq 1..(Len(w) + 1)
<1>1. Len(w) \in Nat
  OBVIOUS
<1> QED
  BY <1>1 DEF After, Fallible, Changing

LEMMA ConcatIsWellFormed ==
  ASSUME NEW s, NEW t, WellFormed(s), WellFormed(t)
  PROVE  WellFormed(s \o t)
<1> DEFINE w == s \o t
<1>1. /\ s \in Seq(StepRecord) /\ t \in Seq(StepRecord)
      /\ Len(s) \in Nat /\ Len(t) \in Nat
  BY DEF WellFormed, StepRecord
<1>2. /\ w \in Seq(StepRecord) /\ Len(w) = Len(s) + Len(t) /\ DOMAIN w = 1..Len(w)
      /\ \A i \in 1..Len(s) : w[0 + i] = s[i]
      /\ \A i \in 1..Len(t) : w[Len(s) + i] = t[i]
  BY <1>1, ConcatProperties
<1> HIDE DEF w
<1>3. ASSUME NEW k \in 1..Len(w) PROVE After(w, k) \subseteq 1..(Len(w) + 1)
  <2>1. CASE k <= Len(s)
    <3>1. k \in (0 + 1)..(0 + Len(s)) /\ 0 + Len(s) <= Len(w)
      BY <1>1, <1>2, <2>1
    <3> QED
      BY <1>2, <3>1, BlockStaysInside
  <2>2. CASE k > Len(s)
    <3>1. k \in (Len(s) + 1)..(Len(s) + Len(t)) /\ Len(s) + Len(t) <= Len(w)
      BY <1>1, <1>2, <2>2
    <3> QED
      BY <1>1, <1>2, <3>1, BlockStaysInside
  <2> QED
    BY <1>1, <1>2, <2>1, <2>2
<1> QED
  BY <1>2, <1>3 DEF WellFormed, StepRecord, w

\* Opt: s or nothing.
LEMMA OptIsWellFormed == ASSUME NEW s, WellFormed(s) PROVE WellFormed(Opt(s))
<1> DEFINE w == Opt(s)
           first == Step("skip", "none", Len(s))
<1>1. s \in Seq(StepRecord) /\ Len(s) \in Nat
  BY DEF WellFormed, StepRecord
<1>2. first \in StepRecord /\ first.op = "skip" /\ first.n = Len(s)
  BY <1>1 DEF Step, StepRecord, Words
<1> HIDE DEF first
<1>3. /\ w \in Seq(StepRecord) /\ Len(w) = Len(s) + 1 /\ DOMAIN w = 1..Len(w)
      /\ w[1] = first /\ \A i \in 1..Len(s) : w[1 + i] = s[i]
  BY <1>1, <1>2 DEF Opt, first
<1> HIDE DEF w
<1>4. After(w, 1) \subseteq 1..(Len(w) + 1)
  BY <1>1, <1>2, <1>3, StepStaysInside
<1>5. ASSUME NEW k \in 1..Len(w), k # 1 PROVE After(w, k) \subseteq 1..(Len(w) + 1)
  <2>1. k \in (1 + 1)..(1 + Len(s)) /\ 1 + Len(s) <= Len(w)
    BY <1>1, <1>3, <1>5
  <2> QED
    BY <1>3, <2>1, BlockStaysInside
<1> QED
  BY <1>3, <1>4, <1>5 DEF WellFormed, StepRecord, w

\* Each: s any number of times.
LEMMA EachIsWellFormed == ASSUME NEW s, WellFormed(s) PROVE WellFormed(Each(s))
<1> DEFINE w == Each(s)
           first == Step("skip", "none", Len(s) + 1)
           last == Step("back", "none", Len(s))
<1>1. s \in Seq(StepRecord) /\ Len(s) \in Nat
  BY DEF WellFormed, StepRecord
<1>2. /\ first \in StepRecord /\ first.op = "skip" /\ first.n = Len(s) + 1
      /\ last \in StepRecord /\ last.op = "back" /\ last.n = Len(s)
  BY <1>1 DEF Step, StepRecord, Words
<1> HIDE DEF first, last
<1>3. /\ w \in Seq(StepRecord) /\ Len(w) = Len(s) + 2 /\ DOMAIN w = 1..Len(w)
      /\ w[1] = first /\ w[Len(s) + 2] = last /\ \A i \in 1..Len(s) : w[1 + i] = s[i]
  BY <1>1, <1>2 DEF Each, first, last
<1> HIDE DEF w
<1>4. /\ After(w, 1) \subseteq 1..(Len(w) + 1)
      /\ After(w, Len(s) + 2) \subseteq 1..(Len(w) + 1)
  BY <1>1, <1>2, <1>3, StepStaysInside
<1>5. ASSUME NEW k \in 1..Len(w), k # 1, k # Len(s) + 2 PROVE After(w, k) \subseteq 1..(Len(w) + 1)
  <2>1. k \in (1 + 1)..(1 + Len(s)) /\ 1 + Len(s) <= Len(w)
    BY <1>1, <1>3, <1>5
  <2> QED
    BY <1>3, <2>1, BlockStaysInside
<1> QED
  BY <1>3, <1>4, <1>5 DEF WellFormed, StepRecord, w

\* s and a jump over t, then t, with steps of s that may lead to t: the common
\* part of Either and Try.
LEMMA JumpOverIsInside ==
  ASSUME NEW s \in Seq(StepRecord), NEW t, WellFormed(t), NEW w,
         w = s \o Jump(Len(t)) \o t
  PROVE  /\ w \in Seq(StepRecord) /\ Len(w) = Len(s) + 1 + Len(t) /\ DOMAIN w = 1..Len(w)
         /\ \A i \in 1..Len(s) : w[i] = s[i]
         /\ \A k \in (Len(s) + 1)..Len(w) : After(w, k) \subseteq 1..(Len(w) + 1)
<1> DEFINE jump == Step("jump", "none", Len(t))
<1>1. t \in Seq(StepRecord) /\ Len(t) \in Nat /\ Len(s) \in Nat
  BY DEF WellFormed, StepRecord
<1>2. jump \in StepRecord /\ jump.op = "jump" /\ jump.n = Len(t)
  BY <1>1 DEF Step, StepRecord, Words
<1>3. w = s \o <<jump>> \o t
  BY DEF Jump
<1> HIDE DEF jump
<1>4. /\ w \in Seq(StepRecord) /\ Len(w) = Len(s) + 1 + Len(t) /\ DOMAIN w = 1..Len(w)
      /\ w[Len(s) + 1] = jump
      /\ \A i \in 1..Len(s) : w[i] = s[i]
      /\ \A i \in 1..Len(t) : w[Len(s) + 1 + i] = t[i]
  BY <1>1, <1>2, <1>3
<1>5. After(w, Len(s) + 1) \subseteq 1..(Len(w) + 1)
  <2> DEFINE k == Len(s) + 1
  <2>1. /\ k \in 1..Len(w) /\ w[k].op = "jump" /\ w[k].n \in Nat
        /\ k + 1 + w[k].n <= Len(w) + 1
    BY <1>1, <1>2, <1>4
  <2> HIDE DEF k
  <2>2. After(w, k) \subseteq 1..(Len(w) + 1)
    BY <1>4, <2>1, StepStaysInside
  <2> QED
    BY <2>2 DEF k
<1>6. ASSUME NEW k \in (Len(s) + 1)..Len(w), k # Len(s) + 1 PROVE After(w, k) \subseteq 1..(Len(w) + 1)
  <2> DEFINE o == Len(s) + 1
  <2>1. k \in (o + 1)..(o + Len(t)) /\ o + Len(t) <= Len(w) /\ o \in Nat
    BY <1>1, <1>4, <1>6
  <2>2. \A i \in 1..Len(t) : w[o + i] = t[i]
    BY <1>4
  <2> QED
    BY <1>4, <2>1, <2>2, BlockStaysInside
<1> QED
  BY <1>4, <1>5, <1>6

LEMMA LengthOfConcat ==
  ASSUME NEW s, NEW t, s \in Seq(StepRecord), t \in Seq(StepRecord)
  PROVE  Len(s \o t) = Len(s) + Len(t)
BY ConcatProperties

LEMMA EitherIsWellFormed ==
  ASSUME NEW s, NEW t, WellFormed(s), WellFormed(t)
  PROVE  WellFormed(Either(s, t))
<1> DEFINE first == Step("skip", "none", Len(s) + 1)
           before == <<first>> \o s
           w == Either(s, t)
<1>1. s \in Seq(StepRecord) /\ Len(s) \in Nat /\ t \in Seq(StepRecord) /\ Len(t) \in Nat
  BY DEF WellFormed, StepRecord
<1>2. first \in StepRecord /\ first.op = "skip" /\ first.n = Len(s) + 1
  BY <1>1 DEF Step, StepRecord, Words
<1>3. before \in Seq(StepRecord) /\ Len(before) = Len(s) + 1
      /\ before[1] = first /\ \A i \in 1..Len(s) : before[1 + i] = s[i]
  BY <1>1, <1>2
<1>4. w = before \o Jump(Len(t)) \o t
  <2>1. Jump(Len(t)) \in Seq(StepRecord) /\ Len(Jump(Len(t))) = 1
    BY <1>1 DEF Jump, Step, StepRecord, Words
  <2>2. Len(s \o Jump(Len(t))) = Len(s) + 1
    BY <1>1, <2>1, LengthOfConcat
  <2>3. w = (<<first>> \o (s \o Jump(Len(t)))) \o t
    <3>1. first = Step("skip", "none", Len(s \o Jump(Len(t))))
      BY <2>2
    <3> HIDE DEF first
    <3>2. Opt(s \o Jump(Len(t))) = <<first>> \o (s \o Jump(Len(t)))
      BY <3>1 DEF Opt
    <3> QED
      BY <3>2, Zenon DEF Either
  <2>4. <<first>> \o (s \o Jump(Len(t))) = before \o Jump(Len(t))
    BY <1>1, <1>2, <2>1
  <2> QED
    BY <2>3, <2>4
<1> HIDE DEF w, before, first
<1>5. /\ w \in Seq(StepRecord) /\ Len(w) = Len(s) + 2 + Len(t) /\ DOMAIN w = 1..Len(w)
      /\ \A i \in 1..(Len(s) + 1) : w[i] = before[i]
      /\ \A k \in (Len(s) + 2)..Len(w) : After(w, k) \subseteq 1..(Len(w) + 1)
  <2>1. /\ w \in Seq(StepRecord) /\ Len(w) = Len(before) + 1 + Len(t) /\ DOMAIN w = 1..Len(w)
        /\ \A i \in 1..Len(before) : w[i] = before[i]
        /\ \A k \in (Len(before) + 1)..Len(w) : After(w, k) \subseteq 1..(Len(w) + 1)
    BY <1>3, <1>4, JumpOverIsInside
  <2> QED
    BY <1>1, <1>3, <2>1
<1>6. w[1] = first /\ \A i \in 1..Len(s) : w[1 + i] = s[i]
  BY <1>1, <1>3, <1>5
<1>7. After(w, 1) \subseteq 1..(Len(w) + 1)
  BY <1>1, <1>2, <1>5, <1>6, StepStaysInside
<1>8. ASSUME NEW k \in 2..(Len(s) + 1) PROVE After(w, k) \subseteq 1..(Len(w) + 1)
  <2>1. k \in (1 + 1)..(1 + Len(s)) /\ 1 + Len(s) <= Len(w)
    BY <1>1, <1>5
  <2> QED
    BY <1>5, <1>6, <2>1, BlockStaysInside
<1>9. \A k \in 1..Len(w) : k = 1 \/ k \in 2..(Len(s) + 1) \/ k \in (Len(s) + 2)..Len(w)
  BY <1>1, <1>5
<1> QED
  BY <1>5, <1>7, <1>8, <1>9 DEF WellFormed, StepRecord, w

LEMMA TryIsWellFormed ==
  ASSUME NEW s, NEW t, WellFormed(s), WellFormed(t)
  PROVE  WellFormed(Try(s, t))
<1> DEFINE Caught(i) == s[i].op \in Fallible /\ s[i].n = 0
           tried == [i \in DOMAIN s |-> IF s[i].op \in Fallible /\ s[i].n = 0
                                        THEN [s[i] EXCEPT !.n = Len(s) - i + 1] ELSE s[i]]
           w == Try(s, t)
<1>1. /\ s \in Seq(StepRecord) /\ Len(s) \in Nat /\ DOMAIN s = 1..Len(s)
      /\ t \in Seq(StepRecord) /\ Len(t) \in Nat
  BY DEF WellFormed, StepRecord
<1>2. \A i \in 1..Len(s) : s[i] \in StepRecord
  BY <1>1, ElementOfSeq
<1>3. ASSUME NEW i \in 1..Len(s)
      PROVE  /\ tried[i] \in StepRecord /\ tried[i].op = s[i].op
             /\ tried[i].n = IF Caught(i) THEN Len(s) - i + 1 ELSE s[i].n
  <2> DEFINE r == s[i]
             q == [r EXCEPT !.n = Len(s) - i + 1]
  <2>1. r \in StepRecord
    BY <1>2
  <2>2. Len(s) - i + 1 \in Int
    BY <1>1
  <2>3. q \in StepRecord /\ q.op = r.op /\ q.n = Len(s) - i + 1
    <3> HIDE DEF r
    <3> QED
      BY <2>1, <2>2 DEF StepRecord
  <2>4. tried[i] = IF Caught(i) THEN q ELSE r
    BY <1>1
  <2> HIDE DEF q, r, tried
  <2>5. CASE Caught(i)
    BY <2>3, <2>4, <2>5 DEF r
  <2>6. CASE ~Caught(i)
    BY <2>1, <2>4, <2>6 DEF r
  <2> QED
    BY <2>5, <2>6
<1>4. tried \in Seq(StepRecord) /\ Len(tried) = Len(s)
  <2>1. tried = [i \in 1..Len(s) |-> tried[i]]
    BY <1>1
  <2> HIDE DEF tried
  <2>2. tried \in [1..Len(s) -> StepRecord]
    BY <1>3, <2>1
  <2> QED
    BY <1>1, <2>2
<1>5. w = tried \o Jump(Len(t)) \o t
  BY DEF Try
<1> HIDE DEF w, tried
<1>6. /\ w \in Seq(StepRecord) /\ Len(w) = Len(s) + 1 + Len(t) /\ DOMAIN w = 1..Len(w)
      /\ \A i \in 1..Len(s) : w[i] = tried[i]
      /\ \A k \in (Len(s) + 1)..Len(w) : After(w, k) \subseteq 1..(Len(w) + 1)
  <2>1. /\ w \in Seq(StepRecord) /\ Len(w) = Len(tried) + 1 + Len(t) /\ DOMAIN w = 1..Len(w)
        /\ \A i \in 1..Len(tried) : w[i] = tried[i]
        /\ \A k \in (Len(tried) + 1)..Len(w) : After(w, k) \subseteq 1..(Len(w) + 1)
    BY <1>4, <1>5, JumpOverIsInside
  <2> QED
    BY <1>4, <2>1
<1>7. ASSUME NEW k \in 1..Len(s) PROVE After(w, k) \subseteq 1..(Len(w) + 1)
  <2>1. /\ w[k].op = s[k].op
        /\ w[k].n = IF Caught(k) THEN Len(s) - k + 1 ELSE s[k].n
    BY <1>3, <1>6
  <2>2. After(w, k) \subseteq After(s, k) \cup {Len(s) + 2}
    <3>1. CASE Caught(k)
      <4>1. k + 1 + w[k].n = Len(s) + 2
        BY <1>1, <2>1, <3>1
      <4>2. w[k].op \notin {"skip", "jump", "back"}
        BY <2>1, <3>1 DEF Fallible, Changing
      <4> QED
        BY <2>1, <4>1, <4>2 DEF After
    <3>2. CASE ~Caught(k)
      <4>1. w[k].op = s[k].op /\ w[k].n = s[k].n
        BY <2>1, <3>2
      <4> QED
        BY <4>1 DEF After
    <3> QED
      BY <3>1, <3>2
  <2>3. After(s, k) \subseteq 1..(Len(s) + 1)
    BY <1>1 DEF WellFormed
  <2> QED
    BY <1>1, <1>6, <2>2, <2>3
<1>8. \A k \in 1..Len(w) : k \in 1..Len(s) \/ k \in (Len(s) + 1)..Len(w)
  BY <1>1, <1>6
<1> QED
  BY <1>6, <1>7, <1>8 DEF WellFormed, StepRecord, w

(* Whatever is put together from steps without a distance by sequence, Opt,   *)
(* Each, Either, Try and Tolerated is a script whose jumps stay inside, as    *)
(* StepsAssumption has it.                                                    *)
THEOREM CombinatorsStayInside ==
  /\ WellFormed(<<>>)
  /\ \A step \in StepRecord :
       step.op \notin {"jump", "skip", "back"} /\ step.n = 0 => WellFormed(<<step>>) /\ WellFormed(Tolerated(step))
  /\ \A s, t : WellFormed(s) /\ WellFormed(t) =>
       /\ WellFormed(s \o t) /\ WellFormed(Opt(s)) /\ WellFormed(Each(s))
       /\ WellFormed(Either(s, t)) /\ WellFormed(Try(s, t))
<1>1. WellFormed(<<>>)
  BY DEF WellFormed
<1>2. ASSUME NEW step \in StepRecord, step.op \notin {"jump", "skip", "back"}, step.n = 0
      PROVE  WellFormed(<<step>>)
  <2>1. /\ <<step>> \in Seq(StepRecord) /\ Len(<<step>>) = 1 /\ DOMAIN <<step>> = {1}
        /\ <<step>>[1] = step
    OBVIOUS
  <2>2. After(<<step>>, 1) \subseteq {2}
    BY <1>2, <2>1 DEF After
  <2> QED
    BY <2>1, <2>2 DEF WellFormed, StepRecord
<1>3. ASSUME NEW step, WellFormed(<<step>>) PROVE WellFormed(Tolerated(step))
  BY <1>1, <1>3, TryIsWellFormed DEF Tolerated
<1> QED
  BY <1>1, <1>2, <1>3, ConcatIsWellFormed, OptIsWellFormed, EachIsWellFormed, EitherIsWellFormed,
     TryIsWellFormed
=============================================================================
