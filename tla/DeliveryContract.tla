--------------------------- MODULE DeliveryContract ---------------------------
(***************************************************************************)
(* What either end of the link promises about the envelopes it accepted    *)
(* for the other (spec/protocol.md sections 9.1 to 9.3), with no session,  *)
(* sequence number, poll or network in sight: an accepted envelope is      *)
(* settled only after the receiver took it, is taken for the first time at *)
(* most once, and is abandoned only if the receiver never took it.         *)
(***************************************************************************)
EXTENDS Integers

CONSTANT Messages      \* every envelope that may ever be queued

VARIABLE status        \* [Messages -> the five stations of an envelope]

Stations == {"absent", "queued", "taken", "settled", "retired"}

TypeOK == status \in [Messages -> Stations]

Init == status = [m \in Messages |-> "absent"]

\* Every member of S moves from station a to station b in one step.
Move(S, a, b) ==
  /\ S # {}
  /\ \A m \in S : status[m] = a
  /\ status' = [m \in Messages |-> IF m \in S THEN b ELSE status[m]]

\* The sender accepts an envelope into its queue.
Accept(m) == Move({m}, "absent", "queued")

\* The receiver takes delivery: it is now responsible for the envelopes of S.
Take(S) == Move(S, "queued", "taken")

\* A cumulative ack settles everything it covers, all of it taken.
Settle(S) == Move(S, "taken", "settled")

\* The sender withdraws or loses work the receiver has never taken.
Retire(S) == Move(S, "queued", "retired")

Next ==
  \/ \E m \in Messages : Accept(m)
  \/ \E S \in SUBSET Messages : Take(S) \/ Settle(S) \/ Retire(S)

Spec == Init /\ [][Next]_status
===============================================================================
