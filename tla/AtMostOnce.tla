----------------------------- MODULE AtMostOnce -----------------------------
(***************************************************************************)
(* What an idempotency key promises to the clients that send it: one       *)
(* effect, and every answer with a body is the answer of an effect made    *)
(* for the same payload.  The promise is given up when it has lapsed.      *)
(***************************************************************************)
CONSTANTS Attempts, Payloads, NoPayload, NoResponse

VARIABLES
  payload,  \* payload[a]: what attempt a asks for, NoPayload before it is made
  effects,  \* the attempts whose handler took effect
  reply,    \* reply[a]: whose response a got, NoResponse while (or if) none
  lapsed    \* nothing is promised any more about a second effect

vars == <<payload, effects, reply, lapsed>>

Init ==
  /\ payload = [a \in Attempts |-> NoPayload]
  /\ effects = {}
  /\ reply = [a \in Attempts |-> NoResponse]
  /\ lapsed = FALSE

Ask(a, h) ==
  /\ payload[a] = NoPayload
  /\ payload' = [payload EXCEPT ![a] = h]
  /\ UNCHANGED <<effects, reply, lapsed>>

TakeEffect(a) ==
  /\ payload[a] # NoPayload
  /\ effects = {} \/ lapsed
  /\ effects' = effects \cup {a}
  /\ UNCHANGED <<payload, reply, lapsed>>

Answer(a, w) ==
  /\ w \in effects
  /\ payload[a] = payload[w]
  /\ reply' = [reply EXCEPT ![a] = w]
  /\ UNCHANGED <<payload, effects, lapsed>>

Lapse == lapsed' = TRUE /\ UNCHANGED <<payload, effects, reply>>

Next ==
  \/ \E a \in Attempts, h \in Payloads : Ask(a, h)
  \/ \E a \in Attempts : TakeEffect(a)
  \/ \E a, w \in Attempts : Answer(a, w)
  \/ Lapse

Spec == Init /\ [][Next]_vars
=============================================================================
