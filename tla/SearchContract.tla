--------------------------- MODULE SearchContract ---------------------------
(***************************************************************************)
(* What `gmail messages search` and `gmail search` (threads) promise,      *)
(* whatever the concurrency inside: what was listed is put out, in the     *)
(* order it was listed in, or the command fails and puts out nothing.  A   *)
(* search for threads may leave some out.                                  *)
(***************************************************************************)
EXTENDS Integers, Sequences

CONSTANTS Items, NoId     \* what a list may hold; an entry without an id

VARIABLES kind, listing, output, outcome

\* The entries of a list that have an id, in the order of the list.
WithId(list) ==
  LET upTo[n \in 0..Len(list)] ==
        IF n = 0 THEN <<>>
        ELSE IF list[n] # NoId THEN Append(upTo[n - 1], list[n]) ELSE upTo[n - 1]
  IN  upTo[Len(list)]

Init == kind \in {"threads", "messages"} /\ listing = <<>> /\ output = <<>> /\ outcome = "running"

\* A page of the list arrives.
List == /\ outcome = "running"
        /\ listing' \in Seq(Items) /\ Len(listing') >= Len(listing)
        /\ \A k \in 1..Len(listing) : listing'[k] = listing[k]
        /\ UNCHANGED <<output, outcome>>

Answer == /\ outcome = "running"
          /\ outcome' = "ok"
          /\ \E kept \in [1..Len(listing) -> Items \cup {NoId}] :
               /\ \A k \in 1..Len(listing) : kept[k] \in {NoId, listing[k]}
               /\ kind = "messages" => kept = listing
               /\ output' = WithId(kept)
          /\ UNCHANGED listing

Empty == /\ outcome = "running" /\ listing = <<>>
         /\ outcome' = "empty"
         /\ UNCHANGED <<listing, output>>

Fail == /\ outcome = "running"
        /\ outcome' = "error"
        /\ UNCHANGED <<listing, output>>

Next == (List \/ Answer \/ Empty \/ Fail) /\ UNCHANGED kind

Spec == Init /\ [][Next]_<<kind, listing, output, outcome>>
=============================================================================
