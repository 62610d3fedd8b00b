----------------------------- MODULE FairPlaces -----------------------------
(***************************************************************************)
(* What the Queueing of a language model promises, with none of its        *)
(* machinery (lazarus/agent/queueing.py): its engine has so many places,   *)
(* whoever comes while one is free takes it, whoever comes later joins a   *)
(* line, a place given back goes to the first of the line, and a new       *)
(* process starts with nobody.  Queueing implements this with a count, a   *)
(* queue and a generation number.                                          *)
(***************************************************************************)
EXTENDS Naturals, Sequences, FiniteSets

CONSTANTS Tickets, MaxPlaces

VARIABLES
  places,   \* how many requests the engine holds at once
  holders,  \* the requests that hold a place
  line,     \* the requests that wait for one, the first first
  outside   \* the requests that have not come yet

pvars == <<places, holders, line, outside>>

InLine == {line[i] : i \in 1..Len(line)}

InitPlaces ==
  /\ places \in 1..MaxPlaces
  /\ holders = {} /\ line = <<>> /\ outside = Tickets

TakePlace(t) ==
  /\ t \in outside /\ Cardinality(holders) < places
  /\ holders' = holders \cup {t} /\ outside' = outside \ {t}
  /\ UNCHANGED <<places, line>>

JoinLine(t) ==
  /\ t \in outside /\ Cardinality(holders) = places
  /\ line' = Append(line, t) /\ outside' = outside \ {t}
  /\ UNCHANGED <<places, holders>>

GiveBack(t) ==
  /\ t \in holders
  /\ IF line = <<>>
     THEN holders' = holders \ {t} /\ UNCHANGED line
     ELSE holders' = (holders \ {t}) \cup {Head(line)} /\ line' = Tail(line)
  /\ UNCHANGED <<places, outside>>

GiveUp(t) ==
  /\ t \in InLine
  /\ \E i \in 1..Len(line) :
       /\ line[i] = t
       /\ line' = SubSeq(line, 1, i - 1) \o SubSeq(line, i + 1, Len(line))
  /\ UNCHANGED <<places, holders, outside>>

Renew ==
  /\ places' \in 1..MaxPlaces
  /\ holders' = {} /\ line' = <<>>
  /\ UNCHANGED outside

NextPlaces ==
  Renew \/ \E t \in Tickets : TakePlace(t) \/ JoinLine(t) \/ GiveBack(t) \/ GiveUp(t)

PlacesSpec == InitPlaces /\ [][NextPlaces]_pvars
=============================================================================
