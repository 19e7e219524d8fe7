----------------------------- MODULE CommandSteps -----------------------------
(***************************************************************************)
(* The steps the commands of internal/cmd are made of.  A command is a     *)
(* sequence of steps, its Run method with the helpers it calls: usage      *)
(* checks, guards, calls of Google, local files.  What a call is about is  *)
(* the name of a kind of object ("label", "event"); a listing of several   *)
(* pages is one read.  The third component of a step is a distance, of a   *)
(* jump or, for checks and calls, to what follows a failure (0: the        *)
(* command ends with an error).  Distances are relative, so that the       *)
(* combinators Opt, Each, Either and Try nest.                             *)
(***************************************************************************)
EXTENDS Integers, Sequences

Step(op, obj, n) == [op |-> op, obj |-> obj, n |-> n]

Check    == Step("check", "input", 0)   \* flags, files or answers are checked
Fail     == Step("fail", "none", 0)     \* returns an error
MayStop  == Step("mayStop", "none", 0)  \* there may be nothing (more) to do
DryRun   == Step("dryRun", "none", 0)   \* dryRunExit
Ask      == Step("ask", "none", 0)      \* confirmDestructiveChecked
Prompt   == Step("prompt", "none", 0)   \* input.PromptLine, unless --no-input
Typed    == Step("wait", "input", 0)    \* input.PromptLine, whatever the flags say; input
                                        \* that ends is an error
Killed   == Step("wait", "signal", 0)   \* until the process is killed
NoSend   == Step("noSend", "none", 0)   \* checkAccountNoSend
Account  == Step("open", "account", 0)  \* requireAccount
Service  == Step("open", "token", 0)    \* a client: credentials and token

Read(obj)    == Step("read", obj, 0)
Create(obj)  == Step("create", obj, 0)
Update(obj)  == Step("update", obj, 0)   \* sets what the flags say
Replace(obj) == Step("replace", obj, 0)  \* writes what was read, changed, or to the
                                         \* positions that were read
Guarded(obj) == Step("guarded", obj, 0)  \* the same, if the revision is that read
Delete(obj)  == Step("delete", obj, 0)   \* for good
Expose(obj)  == Step("expose", obj, 0)   \* others, or anybody, can read it from now on
Send(obj)    == Step("send", obj, 0)
Store(obj)   == Step("store", obj, 0)    \* a local setting or secret is written
Erase(obj)   == Step("erase", obj, 0)    \* a local setting or secret is removed
Save(obj)    == Step("save", obj, 0)     \* a file the user has asked for
Lend(obj)    == Step("lend", obj, 0)     \* makes something for the command's own use
TakeBack(obj) == Step("takeBack", obj, 0)  \* and removes it
Defer(obj)   == Step("defer", obj, 0)    \* it is removed when the command returns

\* confirmDestructive, dryRunAndConfirmDestructive.
Confirm == <<DryRun, Ask>>
Connect == <<Account, Service>>

Changing == {"create", "update", "replace", "guarded", "delete", "expose", "send", "store",
             "erase", "lend", "takeBack"}
Fallible == {"check", "fail", "wait", "open", "read", "save"} \cup Changing

Jump(n) == <<Step("jump", "none", n)>>

Opt(s)       == <<Step("skip", "none", Len(s))>> \o s
Each(s)      == <<Step("skip", "none", Len(s) + 1)>> \o s \o <<Step("back", "none", Len(s))>>
Either(s, t) == Opt(s \o Jump(Len(t))) \o t
OneOf(ss)    == LET from[i \in DOMAIN ss] == IF i = Len(ss) THEN ss[i] ELSE Either(ss[i], from[i + 1])
                IN  from[1]

\* s; where a step of it fails, t.
Try(s, t) ==
  [i \in DOMAIN s |-> IF s[i].op \in Fallible /\ s[i].n = 0
                      THEN [s[i] EXCEPT !.n = Len(s) - i + 1] ELSE s[i]] \o Jump(Len(t)) \o t

\* A step whose failure is noted at most in the output.
Tolerated(step) == Try(<<step>>, <<>>)

\* Common shapes of commands.  Some resolve the account before they check the
\* arguments ("late" checks), which matters for what a refusal has done by then.
ListsOf(obj)     == <<Check>> \o Connect \o <<Read(obj), Check>>
ListsLate(obj)   == <<Account, Check, Service, Read(obj), Check>>
Shows(obj)       == <<Check>> \o Connect \o <<Read(obj)>>
ShowsLate(obj)   == <<Account, Check, Service, Read(obj)>>
Makes(step)      == <<Check, DryRun>> \o Connect \o <<step>>
MakesLate(step)  == <<Account, Check, DryRun, Service, step>>
Removes(obj)     == <<Check>> \o Confirm \o Connect \o <<Delete(obj)>>
RemovesLate(obj) == <<Account, Check>> \o Confirm \o <<Service, Delete(obj)>>

Command(name, steps) == [name |-> name, steps |-> steps]
=============================================================================
