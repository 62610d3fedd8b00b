------------------------------ MODULE Queueing ------------------------------
(***************************************************************************)
(* The requests that wait for a place in a language model's engine, and    *)
(* what the last day saw of them (lazarus/agent/queueing.py).              *)
(*                                                                         *)
(* The proxy takes a ticket for each request it sends (arrive), gives it   *)
(* back exactly once when the request is done (leave, refused when the     *)
(* engine answered with an error), and a replacement restarts it for a new *)
(* process.  Both clocks run together: now stands for the monotonic one,   *)
(* and HourLength of its ticks are an hour of the wall's.                  *)
(***************************************************************************)
EXTENDS Naturals, Sequences, FiniteSets, FiniteSetsExt

CONSTANTS
  Tickets,     \* the requests
  MaxPlaces,   \* the places a deployment's record can ask for
  HoursKept,   \* HOURS_KEPT
  HourLength,  \* ticks of an hour
  MaxTime,     \* bound: the last tick
  MaxProcess   \* bound: the restarts

ASSUME SomeTime == HoursKept \in Nat \ {0} /\ HourLength \in Nat \ {0}
ASSUME FiniteTickets == IsFiniteSet(Tickets) /\ MaxPlaces \in Nat

VARIABLES
  places,    \* places_of the record the process was started from
  process,   \* Queueing.process
  inFlight,  \* Queueing.in_flight
  waiting,   \* Queueing.waiting
  hours,     \* Queueing.hours
  ticket,    \* the Ticket of each request
  now        \* the clock

vars == <<places, process, inFlight, waiting, hours, ticket, now>>

\* Hours count from 1; an hour of 0 says that a ticket was never counted.
HourOf(time) == 1 + time \div HourLength
Hour == HourOf(now)

\* What the request has done, and its Ticket.  "refused" left before it had
\* the place it waited for.
Ticket == [state : {"new", "open", "left", "refused"}, arrived : Nat,
           waiting : BOOLEAN, waited : Nat, counted : Nat, process : Nat]

Bucket == [hour : Nat, queued : Nat, longest : Nat]

Init ==
  /\ places \in 1..MaxPlaces
  /\ process = 0 /\ inFlight = 0 /\ waiting = <<>> /\ hours = <<>>
  /\ ticket = [t \in Tickets |-> [state |-> "new", arrived |-> 0, waiting |-> FALSE,
                                  waited |-> 0, counted |-> 0, process |-> 0]]
  /\ now = 0

-----------------------------------------------------------------------------
\* The current hour is the last of them.
WithHour(kept) ==
  IF kept = <<>> \/ kept[Len(kept)].hour # Hour
  THEN Append(kept, [hour |-> Hour, queued |-> 0, longest |-> 0])
  ELSE kept

IsKept(hour) == hour + HoursKept > Hour

\* The hours with the current one; the old ones are dropped from the left.
ThisHour(kept) ==
  LET current == WithHour(kept)
      first == CHOOSE i \in DOMAIN current :
                 /\ IsKept(current[i].hour)
                 /\ \A j \in DOMAIN current : j < i => ~IsKept(current[j].hour)
  IN  SubSeq(current, first, Len(current))

\* One more request queued, in this hour.
Counted(kept) ==
  LET current == ThisHour(kept)
  IN  [current EXCEPT ![Len(current)].queued = @ + 1]

\* A request counted in an hour never queued after all; its hour may be gone.
Discounted(kept, hour) ==
  [i \in DOMAIN kept |-> IF kept[i].hour = hour
                         THEN [kept[i] EXCEPT !.queued = @ - 1] ELSE kept[i]]

\* Mutant of WaitsEnded: the longest wait is the last one.
LastWaitEnded(kept, ts) ==
  IF ts = {} THEN kept
  ELSE LET current == ThisHour(kept)
       IN  [current EXCEPT ![Len(current)].longest = Max({now - ticket[t].arrived : t \in ts})]

\* The waits of some requests end now.
WaitsEnded(kept, ts) ==
  IF ts = {} THEN kept
  ELSE LET current == ThisHour(kept)
       IN  [current EXCEPT ![Len(current)].longest =
              Max({@} \cup {now - ticket[t].arrived : t \in ts})]

WaitOver(t) == [ticket[t] EXCEPT !.waiting = FALSE, !.waited = now - ticket[t].arrived]

\* waiting.remove
Without(line, t) ==
  LET i == CHOOSE i \in DOMAIN line : line[i] = t
  IN  SubSeq(line, 1, i - 1) \o SubSeq(line, i + 1, Len(line))

-----------------------------------------------------------------------------
Arrive(t) ==
  /\ ticket[t].state = "new"
  /\ LET waits == inFlight >= places
     IN  /\ ticket' = [ticket EXCEPT ![t] =
              [state |-> "open", arrived |-> now, waiting |-> waits, waited |-> 0,
               counted |-> IF waits THEN Hour ELSE 0, process |-> process]]
         /\ waiting' = IF waits THEN Append(waiting, t) ELSE waiting
         /\ hours' = IF waits THEN Counted(hours) ELSE hours
  /\ inFlight' = inFlight + 1
  /\ UNCHANGED <<places, process, now>>

Current(t) == ticket[t].state = "open" /\ ticket[t].process = process

\* One the last process held holds nothing here.
LeaveLate(t) ==
  /\ ticket[t].state = "open" /\ ticket[t].process # process
  /\ ticket' = [ticket EXCEPT ![t].state = "left"]
  /\ UNCHANGED <<places, process, inFlight, waiting, hours, now>>

\* Mutant of LeaveGivingUp: the hour of its departure is discounted.
LeaveDiscounting(t) ==
  /\ Current(t) /\ ticket[t].waiting
  /\ inFlight' = inFlight - 1
  /\ waiting' = Without(waiting, t)
  /\ \/ /\ ticket' = [ticket EXCEPT ![t].state = "refused", ![t].waiting = FALSE]
        /\ hours' = Discounted(hours, Hour)
     \/ /\ ticket' = [ticket EXCEPT ![t] = [WaitOver(t) EXCEPT !.state = "left"]]
        /\ hours' = WaitsEnded(hours, {t})
  /\ UNCHANGED <<places, process, now>>

\* One still waiting was refused, and so never queued, or gave up.
LeaveGivingUp(t) ==
  /\ Current(t) /\ ticket[t].waiting
  /\ inFlight' = inFlight - 1
  /\ waiting' = Without(waiting, t)
  /\ \/ /\ ticket' = [ticket EXCEPT ![t].state = "refused", ![t].waiting = FALSE]
        /\ hours' = Discounted(hours, ticket[t].counted)
     \/ /\ ticket' = [ticket EXCEPT ![t] = [WaitOver(t) EXCEPT !.state = "left"]]
        /\ hours' = WaitsEnded(hours, {t})
  /\ UNCHANGED <<places, process, now>>

\* Mutant of LeaveGivingBack: the place goes to the last of the line.
LeaveToTheLast(t) ==
  /\ Current(t) /\ ~ticket[t].waiting
  /\ inFlight' = inFlight - 1
  /\ IF waiting = <<>>
     THEN /\ ticket' = [ticket EXCEPT ![t].state = "left"]
          /\ UNCHANGED <<waiting, hours>>
     ELSE LET next == waiting[Len(waiting)]
          IN  /\ ticket' = [ticket EXCEPT ![t].state = "left", ![next] = WaitOver(next)]
              /\ waiting' = SubSeq(waiting, 1, Len(waiting) - 1)
              /\ hours' = WaitsEnded(hours, {next})
  /\ UNCHANGED <<places, process, now>>

\* One that held a place gives it to the request that has waited longest.
LeaveGivingBack(t) ==
  /\ Current(t) /\ ~ticket[t].waiting
  /\ inFlight' = inFlight - 1
  /\ IF waiting = <<>>
     THEN /\ ticket' = [ticket EXCEPT ![t].state = "left"]
          /\ UNCHANGED <<waiting, hours>>
     ELSE LET next == Head(waiting)
          IN  /\ ticket' = [ticket EXCEPT ![t].state = "left", ![next] = WaitOver(next)]
              /\ waiting' = Tail(waiting)
              /\ hours' = WaitsEnded(hours, {next})
  /\ UNCHANGED <<places, process, now>>

\* A new process, maybe with other places, serves the deployment.
Restart ==
  /\ process < MaxProcess
  /\ LET ended == {waiting[i] : i \in DOMAIN waiting}
     IN  /\ ticket' = [t \in Tickets |-> IF t \in ended THEN WaitOver(t) ELSE ticket[t]]
         /\ hours' = WaitsEnded(hours, ended)
  /\ waiting' = <<>> /\ inFlight' = 0 /\ process' = process + 1
  /\ places' \in 1..MaxPlaces
  /\ UNCHANGED now

\* What last_day answers, and the hour it makes current for that.
Longest(kept) ==
  Max({0} \cup {kept[i].longest : i \in DOMAIN kept}
          \cup {now - ticket[t].arrived : t \in {waiting[i] : i \in {1} \cap DOMAIN waiting}})

\* The sum over the hours: each request queued is one of its hour.
QueuedIn(kept) == Cardinality(UNION {{i} \X (1..kept[i].queued) : i \in DOMAIN kept})

LastDay ==
  /\ hours' = ThisHour(hours)
  /\ UNCHANGED <<places, process, inFlight, waiting, ticket, now>>

Tick ==
  /\ now < MaxTime
  /\ now' = now + 1
  /\ UNCHANGED <<places, process, inFlight, waiting, hours, ticket>>

Leave(t) == LeaveLate(t) \/ LeaveGivingUp(t) \/ LeaveGivingBack(t)

\* Every request has come and gone.
AllDone ==
  /\ now = MaxTime /\ \A t \in Tickets : ticket[t].state \in {"left", "refused"}
  /\ UNCHANGED vars

Next ==
  \/ \E t \in Tickets : Arrive(t) \/ Leave(t)
  \/ Restart \/ LastDay \/ Tick \/ AllDone

Spec == Init /\ [][Next]_vars

-----------------------------------------------------------------------------
(* The state of the Queueing stays within its types.                        *)
TypeOK ==
  /\ places \in 1..MaxPlaces /\ process \in Nat /\ inFlight \in Nat /\ now \in Nat
  /\ waiting \in Seq(Tickets) /\ hours \in Seq(Bucket)
  /\ ticket \in [Tickets -> Ticket]

(* What last_day says of the requests queued is exact: those counted in the *)
(* kept hours, less the ones refused before they had a place, whatever      *)
(* restarts and departures came between, and whoever left after its hour    *)
(* was forgotten.                                                           *)
LastDayIsExact ==
  QueuedIn(ThisHour(hours))
    = Cardinality({t \in Tickets :
        /\ ticket[t].counted # 0 /\ ticket[t].counted + HoursKept > Hour
        /\ ticket[t].state \notin {"new", "refused"}})

(* The longest wait it says covers every wait that ended in the kept hours  *)
(* and every one that goes on, not only the first of the line's.            *)
LongestCoversEveryWait ==
  LET longest == Longest(ThisHour(hours))
  IN  \A t \in Tickets :
        ticket[t].state \in {"open", "left"} /\ ticket[t].counted # 0 =>
          IF ticket[t].waiting
          THEN now - ticket[t].arrived <= longest
          ELSE HourOf(ticket[t].arrived + ticket[t].waited) + HoursKept > Hour
                 => ticket[t].waited <= longest

\* The places and the line behind the count, the deque and the process number.
Fair == INSTANCE FairPlaces WITH
  holders <- {t \in Tickets : Current(t) /\ ~ticket[t].waiting},
  line <- waiting,
  outside <- {t \in Tickets : ticket[t].state = "new"}

(* Places are given in the order of arrival, to no more requests than there *)
(* are places, and none is left free while a request waits: the Queueing    *)
(* implements FairPlaces.                                                   *)
ImplementsPlaces == Fair!PlacesSpec
=============================================================================
