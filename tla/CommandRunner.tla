---------------------------- MODULE CommandRunner ----------------------------
(***************************************************************************)
(* One run of one command: the guards of internal/cmd/root.go and of       *)
(* dryrun.go, confirm.go and gmail_no_send.go, and calls that may fail,    *)
(* with or without having done their work.  Meanwhile somebody else edits  *)
(* the same things.                                                        *)
(***************************************************************************)
EXTENDS CommandSteps, FiniteSets

CONSTANTS
  Commands,       \* the commands: names and steps
  SendCommands,   \* gmailSendCommandPaths
  Shared,         \* objects that other people edit at the same time
  Exempt,         \* for each property it names, the commands it leaves out
  MaxTurns        \* bound: how often loops are repeated in a run

VARIABLES
  command,
  dryRun, force,  \* --dry-run, --force
  input,          \* "terminal", "pipe", or "none": --no-input
  keyring,        \* "locked": opening it may ask for a passphrase (secrets/store.go)
  noSend,         \* "off"; "all": flag or config; "account": of the account
  pc,             \* 0: before Run
  turns,          \* turns of loops repeated so far
  waiting,        \* for the user
  consented,      \* the user has said yes
  result,         \* "running", "ok", "planned", "refused", "cancelled" or "error"
  deferred,       \* what is removed when the command returns
  seen, stale,    \* objects read; those somebody has edited since
  changed, grave, lent, failed,  \* observers: changes made; those that remove or
                                 \* give access; things made for its own use and not
                                 \* removed; changes that failed and were not repeated
  overwritten     \* observer: edits of others that are gone

flagVars == <<command, dryRun, force, input, keyring, noSend>>
doneVars == <<changed, grave, lent, failed, overwritten>>
dataVars == <<seen, stale, doneVars>>
vars == <<flagVars, pc, turns, waiting, consented, result, deferred, dataVars>>

Here == command.steps[pc]

At(ops) == /\ result = "running" /\ ~waiting
           /\ pc \in DOMAIN command.steps /\ Here.op \in ops

Goto(next) == pc' = next /\ waiting' = FALSE /\ UNCHANGED result
Advance == Goto(pc + 1)
End(why) == result' = why /\ waiting' = FALSE /\ UNCHANGED pc

\* A check or call fails: an error, or what the command does instead.
FailsHere == IF Here.n = 0 THEN End("error") ELSE Goto(pc + 1 + Here.n)

Idle == UNCHANGED <<flagVars, turns, consented, deferred, dataVars>>

---------------------------------------------------------------------------
(* Guards.                                                                 *)

\* Execute: the lists of enabled and disabled commands, enforceGmailNoSend.
Begin ==
  /\ pc = 0 /\ result = "running"
  /\ \/ End("error")
     \/ IF noSend = "all" /\ command.name \in SendCommands THEN End("error") ELSE Goto(1)
  /\ Idle

Checks == /\ At({"check"})
          /\ Advance \/ FailsHere
          /\ Idle

Fails == /\ At({"fail"})
         /\ FailsHere
         /\ Idle

Stops == /\ At({"mayStop"})
         /\ Advance \/ End("ok")
         /\ Idle

\* Mutant: --dry-run is not looked at.
PlansNothing == At({"dryRun"}) /\ Advance /\ Idle

Plans == /\ At({"dryRun"})
         /\ IF dryRun THEN End("planned") ELSE Advance
         /\ Idle

Wait == waiting' = TRUE /\ UNCHANGED <<pc, result>>

\* Mutant: whether there is a terminal does not matter.
AsksAnybody ==
  /\ At({"ask"})
  /\ IF force THEN Advance ELSE Wait
  /\ Idle

\* Mutant: without a terminal there is nothing to ask.
AsksOnlyTerminals ==
  /\ At({"ask"})
  /\ IF force \/ input # "terminal" THEN Advance ELSE Wait
  /\ Idle

Asks == /\ At({"ask"})
        /\ \/ force /\ Advance
           \/ ~force /\ input # "terminal" /\ End("refused")
           \/ ~force /\ input = "terminal" /\ Wait
        /\ Idle

\* A prompt is left out with --no-input and in a dry run.
Prompts == /\ At({"prompt"})
           /\ IF input = "none" \/ dryRun THEN Advance ELSE Wait
           /\ Idle

\* These are left to the user, whatever the flags say.
Pauses == /\ At({"wait"})
          /\ Wait
          /\ Idle

\* Mutant: the answer is read again and again.
AnswerAgain ==
  /\ waiting
  /\ pc' = pc + 1 /\ consented' = TRUE /\ UNCHANGED <<result, waiting>>
  /\ UNCHANGED <<flagVars, turns, deferred, dataVars>>

\* The user answers, or input ends; the latter is a refusal where a question or a
\* prompt that may be left out stands, else an error.
Answer ==
  /\ waiting
  /\ \/ Advance /\ consented' = (consented \/ Here.op = "ask")
     \/ /\ IF Here.op \in {"ask", "prompt"} THEN End("cancelled") ELSE FailsHere
        /\ UNCHANGED consented
  /\ UNCHANGED <<flagVars, turns, deferred, dataVars>>

\* Mutant: the account's setting is not looked at.
AccountNotLookedAt == At({"noSend"}) /\ (Advance \/ End("error")) /\ Idle

AccountMaySend == /\ At({"noSend"})
                  /\ IF noSend = "account" THEN End("error") ELSE Advance \/ End("error")
                  /\ Idle

---------------------------------------------------------------------------
(* Control.                                                                *)

Branches ==
  /\ \/ At({"skip"}) /\ (Advance \/ Goto(pc + 1 + Here.n)) /\ UNCHANGED turns
     \/ At({"back"}) /\ Advance /\ UNCHANGED turns
     \/ At({"back"}) /\ turns < MaxTurns /\ Goto(pc - Here.n) /\ turns' = turns + 1
     \/ At({"jump"}) /\ Goto(pc + 1 + Here.n) /\ UNCHANGED turns
  /\ UNCHANGED <<flagVars, consented, deferred, dataVars>>

Defers == /\ At({"defer"})
          /\ Advance
          /\ deferred' = deferred \cup {Here.obj}
          /\ UNCHANGED <<flagVars, turns, consented, dataVars>>

\* Mutant: a command that goes through with --dry-run still says it has planned.
FinishesPlanning == /\ result = "running" /\ ~waiting /\ pc = Len(command.steps) + 1
                    /\ End(IF dryRun THEN "planned" ELSE "ok")
                    /\ Idle

Finish == /\ result = "running" /\ ~waiting /\ pc = Len(command.steps) + 1
          /\ End("ok")
          /\ Idle

---------------------------------------------------------------------------
(* Calls.                                                                  *)

\* Without a terminal a locked keyring is an error.
Opens == /\ At({"open"})
         /\ Advance \/ FailsHere \/ (keyring = "locked" /\ Wait)
         /\ Idle

\* A file is written that the user has asked for.
Saves == /\ At({"save"})
         /\ Advance \/ FailsHere
         /\ Idle

Reads ==
  /\ At({"read"})
  /\ \/ /\ Advance
        /\ seen' = seen \cup {Here.obj} /\ stale' = stale \ {Here.obj}
     \/ FailsHere /\ UNCHANGED <<seen, stale>>
  /\ UNCHANGED <<flagVars, turns, consented, deferred, doneVars>>

\* What a call does to the things it is about.
Done ==
  /\ changed' = changed \cup {Here.obj}
  /\ grave' = grave \cup (IF Here.op \in {"delete", "expose"} THEN {Here.obj} ELSE {})
  /\ overwritten' = overwritten \cup
       (IF Here.op \in {"replace", "guarded"} /\ Here.obj \in stale THEN {Here.obj} ELSE {})
  /\ lent' = CASE Here.op = "lend" -> lent \cup {Here.obj}
               [] Here.op = "takeBack" -> lent \ {Here.obj}
               [] OTHER -> lent
  /\ failed' = failed \ {Here.obj}

\* Mutant: without the etag.
ChangesAnyway ==
  /\ At(Changing)
  /\ Advance
  /\ Done
  /\ UNCHANGED <<flagVars, turns, consented, deferred, seen, stale>>

Changes ==
  /\ At(Changing)
  /\ ~(Here.op = "guarded" /\ Here.obj \in stale)
  /\ Advance
  /\ Done
  /\ UNCHANGED <<flagVars, turns, consented, deferred, seen, stale>>

\* Mutant: every failure is tolerated.
ChangeFailsQuietly ==
  /\ At(Changing)
  /\ Advance
  /\ failed' = failed \cup {Here.obj}
  /\ changed' \in {changed, changed \cup {Here.obj}}
  /\ UNCHANGED <<flagVars, turns, consented, deferred, seen, stale, grave, lent, overwritten>>

\* A call that fails may have done its work; what it made is then not known.
ChangeFails ==
  /\ At(Changing)
  /\ FailsHere
  /\ failed' = failed \cup {Here.obj}
  /\ changed' \in {changed, changed \cup {Here.obj}}
  /\ UNCHANGED <<flagVars, turns, consented, deferred, seen, stale, grave, lent, overwritten>>

\* Mutant: the deferred removals are only done after a failure.
CleansUpAfterFailures ==
  /\ result # "running"
  /\ \E obj \in deferred :
       /\ deferred' = deferred \ {obj}
       /\ IF result = "ok" THEN UNCHANGED <<lent, failed>>
          ELSE \/ lent' = lent \ {obj} /\ UNCHANGED failed
               \/ obj \in lent /\ failed' = failed \cup {obj} /\ UNCHANGED lent
  /\ UNCHANGED <<flagVars, pc, turns, waiting, consented, result, seen, stale, changed, grave,
                 overwritten>>

\* The deferred removals of what is there, whatever the result.
CleansUp ==
  /\ result # "running"
  /\ \E obj \in deferred :
       /\ deferred' = deferred \ {obj}
       /\ \/ lent' = lent \ {obj} /\ UNCHANGED failed
          \/ obj \in lent /\ failed' = failed \cup {obj} /\ UNCHANGED lent
  /\ UNCHANGED <<flagVars, pc, turns, waiting, consented, result, seen, stale, changed, grave,
                 overwritten>>

\* Somebody else edits something the command has read.
OthersEdit ==
  /\ result = "running"
  /\ \E obj \in (Shared \cap seen) \ stale : stale' = stale \cup {obj}
  /\ UNCHANGED <<flagVars, pc, turns, waiting, consented, result, deferred, seen, doneVars>>

---------------------------------------------------------------------------
Init ==
  /\ command \in Commands
  /\ dryRun \in BOOLEAN /\ force \in BOOLEAN
  /\ input \in {"terminal", "pipe", "none"}
  /\ keyring \in (IF input = "pipe" THEN {"open"} ELSE {"open", "locked"})
  /\ noSend \in {"off", "all", "account"}
  /\ pc = 0 /\ turns = 0 /\ waiting = FALSE /\ consented = FALSE /\ result = "running"
  /\ deferred = {} /\ seen = {} /\ stale = {}
  /\ changed = {} /\ grave = {} /\ lent = {} /\ failed = {} /\ overwritten = {}

Run == \/ Begin \/ Checks \/ Fails \/ Stops \/ Plans \/ Asks \/ Prompts \/ Pauses
       \/ AccountMaySend \/ Branches \/ Defers \/ Finish \/ Opens \/ Saves \/ Reads \/ Changes
       \/ ChangeFails \/ CleansUp

Next == Run \/ Answer \/ OthersEdit

Spec == Init /\ [][Next]_vars

\* The process runs, and calls return.
FairSpec == Spec /\ WF_vars(Run)

Ended == result # "running" /\ deferred = {}

---------------------------------------------------------------------------
(* Properties.                                                             *)

Results == {"running", "ok", "planned", "refused", "cancelled", "error"}

Names == {c.name : c \in Commands}

TypeOK ==
  /\ command.name \in Names
  /\ dryRun \in BOOLEAN /\ force \in BOOLEAN
  /\ input \in {"terminal", "pipe", "none"} /\ keyring \in {"open", "locked"}
  /\ noSend \in {"off", "all", "account"}
  /\ pc \in 0 .. Len(command.steps) + 1 /\ turns \in 0 .. MaxTurns
  /\ waiting \in BOOLEAN /\ consented \in BOOLEAN /\ result \in Results
  /\ stale \subseteq seen /\ overwritten \subseteq changed /\ grave \subseteq changed

\* The property leaves the command out.
Left(property) == command.name \in Exempt[property]

\* root.go:46: --dry-run makes no changes.
DryRunChangesNothing == dryRun /\ ~Left("dryRun") => changed = {}

\* confirm.go: nothing is removed for good, and no file or mailbox opened to
\* others, that the user has not agreed to, by --force or by answering the
\* question.  Members of courses and guests of events are not counted.
NothingGraveUnasked == grave # {} /\ ~Left("asked") => force \/ consented

\* A command that stops at a guard, because of a dry run, a missing terminal or
\* the user's answer, has changed nothing on the way there.
RefusalLeavesNothing == result \in {"refused", "cancelled", "planned"} => changed = {}

\* gmail_no_send.go: no command sends mail while sending is blocked, for all
\* accounts or for the one that is used.
NoSendHolds == noSend # "off" => "mail" \notin changed

\* A change that has failed is not reported as success; only the removal of
\* what the command made for itself may fail quietly.
FailureReported == result = "ok" /\ ~Left("reported") => failed \subseteq lent

\* docs_import.go: what a command made for its own use is gone after a success,
\* unless removing it has failed.
NothingLeftBehind == Ended /\ result = "ok" => lent \subseteq failed

\* A change that somebody else has made since the command read the thing is
\* not overwritten.
OthersEditsKept == ~Left("overwrites") => overwritten = {}

\* root.go:48: --no-input never prompts, so every command ends by itself.  It is
\* true only as long as the keyring is open, whose passphrase is asked for all the
\* same, and not of the commands that wait for the user in any case.
EndsWithoutInput == input = "none" /\ keyring = "open" /\ ~Left("waits") => <>Ended
=============================================================================
