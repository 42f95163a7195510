------------------------- MODULE RedeliveryContract -------------------------
(***************************************************************************)
(* What controlled redelivery promises, without handlers, pages or HTTP:   *)
(* an intent is on record before GitHub can act on it, GitHub acts on it   *)
(* at most once, and the verdict recorded once and for all is one that     *)
(* what GitHub did, and may still do, bears out.                           *)
(***************************************************************************)
EXTENDS Naturals

CONSTANT Actions   \* the action ids

VARIABLES
  intents,      \* actions on record
  redelivered,  \* actions for which GitHub has taken on a redelivery
  verdict       \* the verdict of each action

contractVars == <<intents, redelivered, verdict>>

\* "uncertain": recorded, with nothing promised of what GitHub does.
Verdicts == {"open", "accepted", "rejected", "uncertain"}

Init ==
  /\ intents = {}
  /\ redelivered = {}
  /\ verdict = [id \in Actions |-> "open"]

Intend(id) ==
  /\ id \notin intents
  /\ intents' = intents \cup {id}
  /\ UNCHANGED <<redelivered, verdict>>

\* GitHub may act late, after any verdict but a rejection.
TakeOn(id) ==
  /\ id \in intents \ redelivered
  /\ verdict[id] \in {"open", "uncertain"}
  /\ redelivered' = redelivered \cup {id}
  /\ UNCHANGED <<intents, verdict>>

Conclude(id) ==
  /\ id \in intents
  /\ verdict[id] = "open"
  /\ \/ /\ id \in redelivered
        /\ verdict' = [verdict EXCEPT ![id] = "accepted"]
     \/ /\ id \notin redelivered
        /\ verdict' = [verdict EXCEPT ![id] = "rejected"]
     \/ verdict' = [verdict EXCEPT ![id] = "uncertain"]
  /\ UNCHANGED <<intents, redelivered>>

Next == \E id \in Actions : Intend(id) \/ TakeOn(id) \/ Conclude(id)

Spec == Init /\ [][Next]_contractVars
=============================================================================
