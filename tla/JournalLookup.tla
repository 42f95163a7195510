---------------------------- MODULE JournalLookup ----------------------------
(***************************************************************************)
(* Redelivery together with GET /recovery-actions/{action_id}: the lookup  *)
(* loops over the memory journal's deque in a thread-pool thread, without  *)
(* a lock, while the redelivery handlers on the event loop push new rows,  *)
(* evict old ones and replace the row of an action in its place.           *)
(***************************************************************************)
EXTENDS Redelivery, FiniteSetsExt

CONSTANT Readers   \* the lookups that may run at once, each for one client

VARIABLES
  scan,    \* each lookup's loop: the action wanted, the rows still ahead
  said,    \* what each client was last told
  truths   \* history: what was true of the wanted action during the loop

readerVars == <<scan, said, truths>>

Said == States \cup {"nothing", "absent", "error"}

NoScan == [want |-> 0, ahead |-> {}, mutated |-> FALSE]
Scanning(d) == scan[d].want # 0

InitReaders ==
  /\ scan = [d \in Readers |-> NoScan]
  /\ said = [d \in Readers |-> "nothing"]
  /\ truths = [d \in Readers |-> {}]

Truth(id) == IF id \in DOMAIN journal THEN journal[id].state ELSE "absent"

\* Whoever iterates over a deque that an append changed gets a RuntimeError. A
\* row that finalize replaces in its place goes unnoticed.
Disturb ==
  /\ scan' = [d \in Readers |-> IF Scanning(d) /\ created' # created
                                THEN [scan[d] EXCEPT !.ahead = {}, !.mutated = TRUE] ELSE scan[d]]
  /\ truths' = [d \in Readers |-> IF Scanning(d) THEN truths[d] \cup {Truth(scan[d].want)'}
                                  ELSE truths[d]]
  /\ UNCHANGED said

Ask(d) ==
  /\ ~Scanning(d)
  /\ \E id \in 1 .. created :
       /\ scan' = [scan EXCEPT ![d] = [want |-> id, ahead |-> DOMAIN journal, mutated |-> FALSE]]
       /\ truths' = [truths EXCEPT ![d] = {Truth(id)}]
  /\ said' = [said EXCEPT ![d] = "nothing"]
  /\ UNCHANGED vars

Say(d, what) ==
  /\ said' = [said EXCEPT ![d] = what]
  /\ scan' = [scan EXCEPT ![d] = NoScan]
  /\ truths' = [truths EXCEPT ![d] = {}]

\* The newest row ahead of the loop is the wanted one, or it goes on.
Look(d) ==
  LET s == scan[d]
      next == Max(s.ahead)
  IN \/ next = s.want /\ Say(d, journal[next].state)
     \/ next # s.want /\ scan' = [scan EXCEPT ![d].ahead = @ \ {next}] /\ UNCHANGED <<said, truths>>

\* Mutant: the error of a disturbed loop is taken for its end.
TurnSwallowing(d) ==
  /\ Scanning(d)
  /\ \/ (scan[d].mutated \/ scan[d].ahead = {}) /\ Say(d, "absent")
     \/ ~scan[d].mutated /\ scan[d].ahead # {} /\ Look(d)
  /\ UNCHANGED vars

\* One turn of the loop.
Turn(d) ==
  /\ Scanning(d)
  /\ \/ scan[d].mutated /\ Say(d, "error")
     \/ ~scan[d].mutated /\ scan[d].ahead = {} /\ Say(d, "absent")
     \/ ~scan[d].mutated /\ scan[d].ahead # {} /\ Look(d)
  /\ UNCHANGED vars

\* The lookups are gone with the process.
StopReaders ==
  /\ scan' = [d \in Readers |-> NoScan]
  /\ truths' = [d \in Readers |-> {}]
  /\ UNCHANGED said

LookupInit == Init /\ InitReaders

LookupNext ==
  \/ \E r \in Requests : (Submit(r) \/ HandlerStep(r)) /\ Disturb
  \/ \E id \in DOMAIN post : (GitHubHandles(id) \/ Redeliver(id)) /\ UNCHANGED readerVars
  \/ \E guid \in Guids : Deliver(guid) /\ UNCHANGED readerVars
  \/ Restart /\ StopReaders
  \/ \E d \in Readers : Ask(d) \/ Turn(d)

LookupSpec == LookupInit /\ [][LookupNext]_<<vars, readerVars>>

\* The loop without a lock may fail but does not mislead: what it answers was
\* true of the action at some time while it ran, a 404 included, whatever the
\* handlers pushed, evicted or finalized under it
\* (InMemoryRecoveryActionStore.get under get_recovery_action).
LookupIsCurrent ==
  [][\A d \in Readers :
       Scanning(d) /\ ~Scanning(d)' /\ said'[d] \notin {"nothing", "error"}
         => said'[d] \in truths[d]]_<<vars, readerVars>>
=============================================================================
