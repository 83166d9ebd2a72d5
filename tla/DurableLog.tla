----------------------------- MODULE DurableLog -----------------------------
(***************************************************************************)
(* What the Quiver persistence engine promises its callers, with no disk,  *)
(* log or segment: a bundle whose ingest() returned Ok is kept until every *)
(* subscriber has resolved it.  There is no step that gives one up.        *)
(***************************************************************************)
EXTENDS Naturals

CONSTANTS Bundles, Subscribers

VARIABLES accepted,  \* bundles whose ingest returned Ok
          done,      \* done[s]: the bundles subscriber s has resolved
          kept       \* the bundles a restart at this moment would find

vars == <<accepted, done, kept>>

\* Accepted bundles that some subscriber has not resolved.
Needed == {b \in accepted : \E s \in Subscribers : b \notin done[s]}

Init == accepted = {} /\ done = [s \in Subscribers |-> {}] /\ kept = {}

\* What is kept grows and shrinks, with writes, deletions, crashes and restarts,
\* but never by what is needed.
Store ==
  /\ UNCHANGED <<accepted, done>>
  /\ \A b \in Needed : b \in kept'

\* ingest returns Ok for a bundle that is durable already.
Accept(b) ==
  /\ b \notin accepted /\ accepted' = accepted \cup {b}
  /\ b \in kept
  /\ UNCHANGED <<done, kept>>

Resolve(s, b) ==
  /\ b \notin done[s] /\ done' = [done EXCEPT ![s] = @ \cup {b}]
  /\ UNCHANGED <<accepted, kept>>

Next ==
  \/ Store
  \/ \E b \in Bundles : Accept(b) \/ \E s \in Subscribers : Resolve(s, b)

Spec == Init /\ [][Next]_vars
=============================================================================
