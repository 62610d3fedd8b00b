------------------------------ MODULE Ingress ------------------------------
(***************************************************************************)
(* What the appliance promises of its generation ingress, with none of its *)
(* machinery (lazarus/appliance/api.py): requests enter while the gate is  *)
(* open; the gate may close at any time; a quiesce is acknowledged only    *)
(* when the gate is closed and everyone has left, and from then on nobody  *)
(* enters until a resume is acknowledged, which opens the gate.            *)
(***************************************************************************)

CONSTANT Requests

VARIABLES
  gate,      \* "open" or "closed"
  inside,    \* the requests sent to the engine and not answered
  quiesced   \* the last acknowledgement given was a quiesce's

ivars == <<gate, inside, quiesced>>

InitIngress == gate = "open" /\ inside = {} /\ quiesced = FALSE

Enter(r) ==
  /\ gate = "open" /\ r \notin inside
  /\ inside' = inside \cup {r}
  /\ UNCHANGED <<gate, quiesced>>

Go(r) ==
  /\ r \in inside
  /\ inside' = inside \ {r}
  /\ UNCHANGED <<gate, quiesced>>

Close == gate' = "closed" /\ UNCHANGED <<inside, quiesced>>

AcknowledgeQuiesce ==
  /\ gate = "closed" /\ inside = {}
  /\ quiesced' = TRUE
  /\ UNCHANGED <<gate, inside>>

AcknowledgeResume == gate' = "open" /\ quiesced' = FALSE /\ UNCHANGED inside

NextIngress ==
  \/ \E r \in Requests : Enter(r) \/ Go(r)
  \/ Close \/ AcknowledgeQuiesce \/ AcknowledgeResume

IngressSpec == InitIngress /\ [][NextIngress]_ivars
=============================================================================
