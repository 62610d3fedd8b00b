------------------------- MODULE DeploymentRecords -------------------------
(***************************************************************************)
(* What the host agent promises the Control plane about its records, with  *)
(* none of the machinery (lazarus/agent/deployments.py): every PUT and     *)
(* every DELETE takes effect at one instant or not at all, and is answered *)
(* accordingly; the port of a record is kept by its replacements and never *)
(* shared with another record; a PUT whose request went away before it     *)
(* took effect never does.  Deployments implements this with the record of *)
(* agent.yaml.                                                             *)
(***************************************************************************)
CONSTANTS Ids, Workers, Ports, Boot, None

VARIABLES
  recorded,  \* the record of each deployment, or None
  aim,       \* what each worker was asked for
  verdict    \* how far each worker is

rvars == <<recorded, aim, verdict>>

Records == [by : Workers \cup {Boot}, port : Ports]

InitRecords ==
  /\ recorded \in [Ids -> [by : {Boot}, port : Ports] \cup {None}]
  /\ \A i, j \in Ids : i # j /\ recorded[i] # None /\ recorded[j] # None
                         => recorded[i].port # recorded[j].port
  /\ aim \in [Workers -> [op : {"put", "delete"}, id : Ids]]
  /\ verdict = [w \in Workers |-> "pending"]

Unanswered(w) == verdict[w] \in {"pending", "gone"}

Answer(w, answer) == verdict' = [verdict EXCEPT ![w] = answer]

\* The request goes away before its transition took effect.
Leave(w) ==
  /\ verdict[w] = "pending"
  /\ Answer(w, "gone")
  /\ UNCHANGED <<recorded, aim>>

\* A replacement stands on the port of the record it replaces, a creation
\* on one no record has.
PortFor(i, p) ==
  IF recorded[i] # None
  THEN p = recorded[i].port
  ELSE \A j \in Ids : recorded[j] # None => recorded[j].port # p

Install(w) ==
  /\ aim[w].op = "put" /\ verdict[w] = "pending"
  /\ \E p \in Ports :
       /\ PortFor(aim[w].id, p)
       /\ recorded' = [recorded EXCEPT ![aim[w].id] = [by |-> w, port |-> p]]
  /\ Answer(w, "applied")
  /\ UNCHANGED aim

Remove(w) ==
  /\ aim[w].op = "delete" /\ Unanswered(w)
  /\ recorded' = [recorded EXCEPT ![aim[w].id] = None]
  /\ Answer(w, "applied")
  /\ UNCHANGED aim

Reject(w) ==
  /\ Unanswered(w)
  /\ Answer(w, "rejected")
  /\ UNCHANGED <<recorded, aim>>

NextRecords ==
  \E w \in Workers : Leave(w) \/ Install(w) \/ Remove(w) \/ Reject(w)

RecordsSpec == InitRecords /\ [][NextRecords]_rvars
=============================================================================
