---------------------------- MODULE CommandScripts ----------------------------
(***************************************************************************)
(* What the order of the steps of a command has to be for the properties   *)
(* of CommandRunner to hold.  The conditions are about the steps alone:    *)
(* where a run can be that has not passed a guard, or has made a change.   *)
(***************************************************************************)
EXTENDS CommandRunner

\* Where a run may be after step k of s, if it goes on.
After(s, k) ==
  (IF s[k].op \in {"fail", "jump"} THEN {} ELSE {k + 1})
    \cup (IF s[k].op \in {"skip", "jump"} \/ (s[k].op \in Fallible /\ s[k].n # 0)
            THEN {k + 1 + s[k].n} ELSE {})
    \cup (IF s[k].op = "back" THEN {k - s[k].n} ELSE {})

\* Strings; of those named here the provers do not know that they are.
Words == STRING \cup {"none", "skip", "jump", "back"}

WellFormed(s) ==
  /\ s \in Seq([op : Words, obj : Words, n : Int])
  /\ \A k \in DOMAIN s : After(s, k) \subseteq 1 .. Len(s) + 1

Positions(s, ops)  == {k \in DOMAIN s : s[k].op \in ops}
About(s, ops, obj) == {k \in Positions(s, ops) : s[k].obj = obj}
Following(s, ks)   == UNION {After(s, k) : k \in ks}

\* A run at one of the positions stays on them until it passes a guard.
Closed(s, positions, guards) ==
  \A k \in positions \cap DOMAIN s : s[k].op \notin guards => After(s, k) \subseteq positions

\* Where a run comes to from the positions of start without passing a guard.
From(s, start, guards) ==
  LET grow[i \in 0 .. Len(s)] ==
        IF i = 0 THEN start
        ELSE LET reached == grow[i - 1]
             IN  reached \cup Following(s, (reached \cap DOMAIN s) \ Positions(s, guards))
  IN  grow[Len(s)]

Before(s, guard)     == From(s, {1}, {guard})
AfterChange(s)       == From(s, Following(s, Positions(s, Changing)), {})
AfterReading(s, obj) == From(s, Following(s, About(s, {"read"}, obj)), {})

\* None of the steps is reached but through the guard.
Behind(s, guard, steps) ==
  /\ 1 \in Before(s, guard) /\ Closed(s, Before(s, guard), {guard})
  /\ Before(s, guard) \cap steps = {}

\* No guard is reached after a change.
GuardsFirst(s) ==
  /\ Following(s, Positions(s, Changing)) \subseteq AfterChange(s)
  /\ Closed(s, AfterChange(s), {})
  /\ AfterChange(s) \cap Positions(s, {"dryRun", "ask", "prompt"}) = {}

\* Mail is sent by commands of the list, behind the look at the account.
MailBehind(c) ==
  LET mail == About(c.steps, Changing, "mail")
  IN  mail # {} => c.name \in SendCommands /\ Behind(c.steps, "noSend", mail)

\* A thing that others edit is not written back after it has been read.
NotWrittenBack(s, obj) ==
  /\ Following(s, About(s, {"read"}, obj)) \subseteq AfterReading(s, obj)
  /\ Closed(s, AfterReading(s, obj), {})
  /\ AfterReading(s, obj) \cap About(s, {"replace"}, obj) = {}

\* What a run knows of one object: whether a change of it has failed and was not
\* repeated, whether it was made for the command's own use and is still there,
\* and whether it is removed when the command returns.
Touched(s) == {s[k].obj : k \in Positions(s, Changing \cup {"defer"})}

Succeeded(op, marks) ==
  CASE op = "lend"     -> (marks \ {"failed"}) \cup {"lent"}
    [] op = "takeBack" -> marks \ {"failed", "lent"}
    [] OTHER           -> marks \ {"failed"}

\* Where a run comes to from step k, and what it knows of obj then.
Leads(s, obj, k, marks) ==
  IF s[k].obj = obj /\ s[k].op \in Changing
  THEN {<<k + 1, Succeeded(s[k].op, marks)>>}
         \cup (IF s[k].n = 0 THEN {} ELSE {<<k + 1 + s[k].n, marks \cup {"failed"}>>})
  ELSE After(s, k) \X {IF s[k].obj = obj /\ s[k].op = "defer" THEN marks \cup {"deferred"}
                                                              ELSE marks}

\* All of that, from the first step on.
Track(s, obj) ==
  LET grow[i \in 0 .. Len(s)] ==
        IF i = 0 THEN {<<1, {}>>}
        ELSE LET reached == grow[i - 1]
             IN  reached \cup UNION {Leads(s, obj, t[1], t[2]) : t \in {u \in reached : u[1] \in DOMAIN s}}
  IN  grow[Len(s)]

Followed(s, obj) ==
  LET track == Track(s, obj)
  IN  /\ <<1, {}>> \in track
      /\ \A t \in track : t[1] \in DOMAIN s => Leads(s, obj, t[1], t[2]) \subseteq track

\* Where a command may end well.
MayEnd(s, k) == k = Len(s) + 1 \/ (k \in DOMAIN s /\ s[k].op = "mayStop")

\* A change that has failed was repeated, or was the removal of what the command
\* has made for itself.
Reported(s, obj) ==
  \A t \in Track(s, obj) : MayEnd(s, t[1]) /\ "failed" \in t[2] => "lent" \in t[2] /\ "deferred" \notin t[2]

\* What the command has made for itself is removed, or is going to be.
TakenBack(s, obj) ==
  \A t \in Track(s, obj) : MayEnd(s, t[1]) /\ "lent" \in t[2] => "failed" \in t[2] \/ "deferred" \in t[2]

ASSUME StepsAssumption ==
  MaxTurns \in Nat /\ \A c \in Commands : WellFormed(c.steps)

\* Every command looks at --dry-run before its first change,
ASSUME DryRunAssumption ==
  \A c \in Commands : c.name \notin Exempt["dryRun"]
    => Behind(c.steps, "dryRun", Positions(c.steps, Changing))

\* asks before it removes something or gives access to it,
ASSUME AskAssumption ==
  \A c \in Commands : c.name \notin Exempt["asked"]
    => Behind(c.steps, "ask", Positions(c.steps, {"delete", "expose"}))

\* has all its guards before its changes,
ASSUME GuardsAssumption == \A c \in Commands : GuardsFirst(c.steps)

\* looks at the block of the account before it sends,
ASSUME MailAssumption == \A c \in Commands : MailBehind(c)

\* removes what it made for its own use,
ASSUME LendingAssumption ==
  \A c \in Commands : \A obj \in Touched(c.steps) : Followed(c.steps, obj) /\ TakenBack(c.steps, obj)

\* does not end well after a change that has failed,
ASSUME ReportAssumption ==
  \A c \in Commands : c.name \notin Exempt["reported"]
    => \A obj \in Touched(c.steps) : Reported(c.steps, obj)

\* and writes nothing back, except where Exempt says so.
ASSUME WritesAssumption ==
  \A c \in Commands : c.name \notin Exempt["overwrites"]
    => \A obj \in Shared : NotWrittenBack(c.steps, obj)
=============================================================================
