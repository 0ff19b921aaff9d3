-------------------------------- MODULE Inbox --------------------------------
(***************************************************************************)
(* What the notification pipeline promises to the inbox of one customer:   *)
(* no two documents with one reference are there together, a document is   *)
(* delivered once, it is announced once and while it is there, and what    *)
(* has been read stays read.  Documents go when they have been kept for    *)
(* their time, and when the account has been closed.                       *)
(***************************************************************************)
CONSTANTS Docs, Surfaces, Ref, NoRef

VARIABLES
  closed,     \* the account has been marked deleted, or is not there any more
  stored,     \* the documents in the inbox
  delivered,  \* the documents that ever were
  announced,  \* the documents announced to the customer's sessions
  marks       \* marks[d]: the surfaces on which d has been read

vars == <<closed, stored, delivered, announced, marks>>

Init ==
  /\ closed = FALSE
  /\ stored = {} /\ delivered = {} /\ announced = {}
  /\ marks = [d \in Docs |-> {}]

Deliver(d) ==
  /\ d \notin delivered
  /\ Ref[d] = NoRef \/ \A g \in stored : Ref[g] # Ref[d]
  /\ stored' = stored \cup {d}
  /\ delivered' = delivered \cup {d}
  /\ UNCHANGED <<closed, announced, marks>>

Announce(d) ==
  /\ d \in delivered \ announced
  /\ closed \/ d \in stored
  /\ announced' = announced \cup {d}
  /\ UNCHANGED <<closed, stored, delivered, marks>>

Read(D, f) ==
  /\ marks' = [d \in Docs |-> IF d \in D THEN marks[d] \cup {f} ELSE marks[d]]
  /\ UNCHANGED <<closed, stored, delivered, announced>>

Expire(d) ==
  /\ d \in stored
  /\ stored' = stored \ {d}
  /\ marks' = [marks EXCEPT ![d] = {}]
  /\ UNCHANGED <<closed, delivered, announced>>

Close == closed' = TRUE /\ UNCHANGED <<stored, delivered, announced, marks>>

Empty ==
  /\ closed
  /\ stored' = {}
  /\ marks' = [d \in Docs |-> {}]
  /\ UNCHANGED <<closed, delivered, announced>>

Next ==
  \/ \E d \in Docs : Deliver(d) \/ Announce(d) \/ Expire(d)
  \/ \E D \in SUBSET stored, f \in Surfaces : Read(D, f)
  \/ Close
  \/ Empty

Spec == Init /\ [][Next]_vars
=============================================================================
