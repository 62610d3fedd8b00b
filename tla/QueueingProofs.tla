--------------------------- MODULE QueueingProofs ---------------------------
(***************************************************************************)
(* Proofs about the Queueing of a deployment, for any requests, places,    *)
(* length of an hour and number of hours kept, and without the bounds of   *)
(* time and restarts that TLC needs:                                       *)
(*                                                                         *)
(*   - it implements FairPlaces;                                           *)
(*   - what last_day says of the requests queued is exact;                 *)
(*   - the longest wait it says covers every wait of the kept hours.       *)
(*                                                                         *)
(* The invariant behind them says what the count, the line and the hours   *)
(* amount to in terms of the tickets.                                      *)
(***************************************************************************)
EXTENDS Queueing, FiniteSetTheorems, FunctionTheorems, SequenceTheorems, WellFoundedInduction, TLAPS

-----------------------------------------------------------------------------
(* What the tickets say of themselves.                                      *)
TicketSays(t) ==
  /\ ticket[t].state = "new" => ~ticket[t].waiting /\ ticket[t].counted = 0
  /\ ticket[t].state # "new" => ticket[t].arrived <= now /\ ticket[t].process <= process
  /\ ticket[t].waiting => Current(t) /\ ticket[t].counted # 0
  /\ ticket[t].counted # 0 => ticket[t].counted = HourOf(ticket[t].arrived)
  /\ ticket[t].state \in {"open", "left"} => ticket[t].arrived + ticket[t].waited <= now

TicketInv == \A t \in Tickets : TicketSays(t)

(* The line holds those that wait, each once, in the order they came.       *)
LineInv ==
  /\ \A i, j \in DOMAIN waiting : waiting[i] = waiting[j] => i = j
  /\ \A i \in DOMAIN waiting : ticket[waiting[i]].waiting
  /\ \A t \in Tickets : ticket[t].waiting => \E i \in DOMAIN waiting : waiting[i] = t
  /\ \A i, j \in DOMAIN waiting :
       i < j => ticket[waiting[i]].arrived <= ticket[waiting[j]].arrived

Holders == {t \in Tickets : Current(t) /\ ~ticket[t].waiting}

(* The count is of those that hold a place and those that wait for one, and *)
(* nobody waits beside a free place.                                        *)
PlaceInv ==
  /\ inFlight = Cardinality(Holders) + Len(waiting)
  /\ Cardinality(Holders) <= places
  /\ waiting # <<>> => Cardinality(Holders) = places

-----------------------------------------------------------------------------
(* The hours are in order, none is to come, and no wait was longer than the *)
(* time there has been.                                                     *)
InOrder(kept) ==
  /\ \A i, j \in DOMAIN kept : i < j => kept[i].hour < kept[j].hour
  /\ \A i \in DOMAIN kept : kept[i].hour <= Hour /\ kept[i].longest <= now

(* The requests queued in an hour, but for those refused before a place.    *)
Queued(of, hour) ==
  {t \in Tickets : of[t].counted = hour /\ of[t].state \notin {"new", "refused"}}

(* A wait that is over, and the hour it ended in.                           *)
Waited(t) ==
  ticket[t].state \in {"open", "left"} /\ ticket[t].counted # 0 /\ ~ticket[t].waiting

EndedIn(t) == HourOf(ticket[t].arrived + ticket[t].waited)

(* Every hour at hand counts the requests queued in it, and every hour that *)
(* is to be kept and saw anything is at hand.                               *)
CountInv(kept) ==
  /\ \A i \in DOMAIN kept : kept[i].hour # 0 /\ kept[i].queued = Cardinality(Queued(ticket, kept[i].hour))
  /\ \A t \in Tickets :
       /\ ticket[t].counted # 0 /\ ticket[t].state \notin {"new", "refused"}
       /\ IsKept(ticket[t].counted)
       => \E i \in DOMAIN kept : kept[i].hour = ticket[t].counted

WaitInv(kept) ==
  \A t \in Tickets :
    Waited(t) /\ IsKept(EndedIn(t)) =>
      \E i \in DOMAIN kept : kept[i].hour = EndedIn(t) /\ ticket[t].waited <= kept[i].longest

HoursInv == InOrder(hours) /\ CountInv(hours) /\ WaitInv(hours)

IInv == TypeOK /\ TicketInv /\ LineInv /\ PlaceInv /\ HoursInv

-----------------------------------------------------------------------------
(* Sets of numbers, and hours.                                              *)
LEMMA Least ==
  ASSUME NEW S \in SUBSET Nat, S # {}
  PROVE  \E m \in S : \A k \in S : m <= k
<1>1. PICK m \in S : \A k \in S : <<k, m>> \notin OpToRel(<, Nat)
  BY NatLessThanWellFounded, WFMin
<1>2. \A k \in S : ~(k < m)
  BY <1>1 DEF OpToRel
<1> QED
  BY <1>2

LEMMA Greatest ==
  ASSUME NEW S \in SUBSET Nat, S # {}, NEW n \in Nat, \A k \in S : k <= n
  PROVE  Max(S) \in S /\ \A k \in S : k <= Max(S)
<1> DEFINE U == {u \in Nat : \A k \in S : k <= u}
<1>1. PICK m \in U : \A k \in U : m <= k
  <2>1. n \in U
    OBVIOUS
  <2> QED
    BY <2>1, Least
<1>2. m \in S
  <2>1. SUFFICES ASSUME m \notin S
                 PROVE  FALSE
    OBVIOUS
  <2>2. PICK k \in S : TRUE
    OBVIOUS
  <2>3. k < m
    BY <2>1
  <2>4. m - 1 \in U
    BY <2>1, <2>3
  <2> QED
    BY <1>1, <2>4
<1>3. \E x \in S : \A y \in S : x >= y
  BY <1>2
<1> QED
  BY <1>3 DEF Max

(* The hour of a time is a number from 1 on, and does not go back.          *)
LEMMA HoursGoOn ==
  ASSUME NEW a \in Nat, NEW b \in Nat, a <= b
  PROVE  HourOf(a) \in Nat \ {0} /\ HourOf(b) \in Nat \ {0} /\ HourOf(a) <= HourOf(b)
<1> DEFINE l == HourLength
           p == a \div l
           q == b \div l
<1>1. l \in Nat \ {0}
  BY SomeTime
<1>2. /\ p \in Int /\ a = l * p + (a % l) /\ a % l \in 0..(l - 1)
      /\ q \in Int /\ b = l * q + (b % l) /\ b % l \in 0..(l - 1)
  BY <1>1
<1> HIDE DEF p, q
<1>3. p >= 0 /\ q >= 0 /\ p <= q
  <2>1. ASSUME NEW x \in Int, NEW y \in Int, x < y
        PROVE  l * x + l <= l * y
    <3>1. PICK d \in Nat : y = x + 1 + d
      <4>1. y - x - 1 \in Nat /\ y = x + 1 + (y - x - 1)
        BY <2>1
      <4> QED
        BY <4>1
    <3>2. l * y = l * x + l + l * d
      BY <1>1, <3>1
    <3>3. l * d >= 0
      BY <1>1, <3>1
    <3> QED
      BY <1>1, <3>1, <3>2, <3>3
  <2>2. l * 0 = 0
    BY <1>1
  <2>3. l * p \in Int /\ l * q \in Int
    BY <1>1, <1>2
  <2>4. p >= 0
    BY <1>1, <1>2, <2>1, <2>2, <2>3
  <2>5. q >= 0
    BY <1>1, <1>2, <2>1, <2>2, <2>3
  <2>6. ~(q < p)
    BY <1>1, <1>2, <2>1, <2>3
  <2> QED
    BY <1>2, <2>4, <2>5, <2>6
<1>4. HourOf(a) = 1 + p /\ HourOf(b) = 1 + q
  BY DEF HourOf, p, q
<1> QED
  BY <1>2, <1>3, <1>4
-----------------------------------------------------------------------------
(* What making the current hour the last one comes to: the hours to be kept *)
(* stay, the old ones go, and the current one is there, empty if it was not.*)
Fresh == [hour |-> Hour, queued |-> 0, longest |-> 0]

Renewed(kept, k) ==
  /\ k \in Seq(Bucket) /\ k # <<>> /\ InOrder(k) /\ k[Len(k)].hour = Hour
  /\ \A j \in DOMAIN k :
       \/ \E i \in DOMAIN kept : k[j] = kept[i]
       \/ k[j] = Fresh /\ \A i \in DOMAIN kept : kept[i].hour # Hour
  /\ \A i \in DOMAIN kept : IsKept(kept[i].hour) => \E j \in DOMAIN k : k[j] = kept[i]

LEMMA WithHourEffect ==
  ASSUME now \in Nat, NEW kept \in Seq(Bucket), InOrder(kept)
  PROVE  Renewed(kept, WithHour(kept))
<1> DEFINE k == WithHour(kept)
<1>1. Hour \in Nat \ {0}
  BY HoursGoOn DEF Hour
<1>2. Fresh \in Bucket
  BY <1>1 DEF Fresh, Bucket
<1>3. Len(kept) \in Nat /\ DOMAIN kept = 1..Len(kept) /\ (kept = <<>> <=> Len(kept) = 0)
  OBVIOUS
<1>4. CASE kept = <<>> \/ kept[Len(kept)].hour # Hour
  <2>1. k = Append(kept, Fresh)
    BY <1>4 DEF WithHour, Fresh
  <2>2. /\ k \in Seq(Bucket) /\ Len(k) = Len(kept) + 1 /\ DOMAIN k = 1..(Len(kept) + 1)
        /\ k[Len(kept) + 1] = Fresh /\ \A i \in DOMAIN kept : k[i] = kept[i]
    BY <1>2, <1>3, <2>1
  <2>3. \A i \in DOMAIN kept : kept[i].hour < Hour
    <3>1. ASSUME NEW i \in DOMAIN kept
          PROVE  kept[i].hour < Hour
      <4>1. /\ kept[i] \in Bucket /\ kept[Len(kept)] \in Bucket /\ Len(kept) \in DOMAIN kept
        BY <1>3
      <4>2. kept[Len(kept)].hour <= Hour /\ kept[Len(kept)].hour # Hour
        BY <1>3, <1>4, <4>1 DEF InOrder
      <4>3. i = Len(kept) \/ kept[i].hour < kept[Len(kept)].hour
        BY <1>3, <4>1 DEF InOrder
      <4> QED
        BY <1>1, <4>1, <4>2, <4>3 DEF Bucket
    <3> QED
      BY <3>1
  <2>4. InOrder(k)
    <3>1. ASSUME NEW i \in DOMAIN k, NEW j \in DOMAIN k, i < j
          PROVE  k[i].hour < k[j].hour
      <4>1. i \in DOMAIN kept
        BY <1>3, <2>2, <3>1
      <4>2. CASE j \in DOMAIN kept
        BY <2>2, <3>1, <4>1, <4>2 DEF InOrder
      <4>3. CASE j = Len(kept) + 1
        BY <2>2, <2>3, <4>1, <4>3 DEF Fresh
      <4> QED
        BY <1>3, <2>2, <4>2, <4>3
    <3>2. ASSUME NEW i \in DOMAIN k
          PROVE  k[i].hour <= Hour /\ k[i].longest <= now
      <4>1. CASE i \in DOMAIN kept
        BY <2>2, <4>1 DEF InOrder
      <4>2. CASE i = Len(kept) + 1
        BY <1>1, <2>2, <4>2 DEF Fresh
      <4> QED
        BY <1>3, <2>2, <4>1, <4>2
    <3> QED
      BY <3>1, <3>2 DEF InOrder
  <2>5. k # <<>> /\ k[Len(k)].hour = Hour
    BY <1>3, <2>2 DEF Fresh
  <2>6. \A j \in DOMAIN k : (\E i \in DOMAIN kept : k[j] = kept[i]) \/ k[j] = Fresh
    BY <1>3, <2>2
  <2>7. \A i \in DOMAIN kept : kept[i].hour # Hour
    <3>1. \A i \in DOMAIN kept : kept[i] \in Bucket
      BY <1>3
    <3>2. \A i \in DOMAIN kept : kept[i].hour \in Nat
      BY <3>1 DEF Bucket
    <3> QED
      BY <1>1, <2>3, <3>2
  <2>8. \A i \in DOMAIN kept : \E j \in DOMAIN k : k[j] = kept[i]
    BY <1>3, <2>2
  <2> HIDE DEF k
  <2>9. Renewed(kept, k)
    BY <2>2, <2>4, <2>5, <2>6, <2>7, <2>8 DEF Renewed
  <2> QED
    BY <2>9 DEF k
<1>5. CASE ~(kept = <<>> \/ kept[Len(kept)].hour # Hour)
  <2>1. k = kept
    BY <1>5 DEF WithHour
  <2> QED
    BY <1>3, <1>5, <2>1 DEF Renewed
<1> QED
  BY <1>4, <1>5

LEMMA ThisHourEffect ==
  ASSUME now \in Nat, NEW kept \in Seq(Bucket), InOrder(kept)
  PROVE  /\ Renewed(kept, ThisHour(kept))
         /\ \A j \in DOMAIN ThisHour(kept) : IsKept(ThisHour(kept)[j].hour)
<1> DEFINE c == WithHour(kept)
           Starts(i) == IsKept(c[i].hour) /\ \A j \in DOMAIN c : j < i => ~IsKept(c[j].hour)
           first == CHOOSE i \in DOMAIN c : Starts(i)
           k == SubSeq(c, first, Len(c))
<1>1. Renewed(kept, c)
  BY WithHourEffect
<1>2. ThisHour(kept) = k
  BY DEF ThisHour
<1>3. Hour \in Nat \ {0}
  BY HoursGoOn DEF Hour
<1>4. /\ c \in Seq(Bucket) /\ c # <<>> /\ c[Len(c)].hour = Hour /\ InOrder(c)
  BY <1>1 DEF Renewed
<1> HIDE DEF c
<1>5. Len(c) \in Nat \ {0} /\ DOMAIN c = 1..Len(c) /\ Len(c) \in DOMAIN c
  BY <1>4
<1>6. IsKept(c[Len(c)].hour)
  BY <1>3, <1>4, SomeTime DEF IsKept
<1>7. first \in DOMAIN c /\ Starts(first)
  <2> DEFINE S == {i \in DOMAIN c : IsKept(c[i].hour)}
  <2>1. S \in SUBSET Nat /\ S # {}
    BY <1>5, <1>6
  <2>2. PICK m \in S : \A i \in S : m <= i
    BY <2>1, Least
  <2>3. \A j \in DOMAIN c : j < m => ~IsKept(c[j].hour)
    BY <1>5, <2>2
  <2>4. m \in DOMAIN c /\ Starts(m)
    BY <2>2, <2>3
  <2> HIDE DEF Starts
  <2> QED
    BY <2>4
<1> HIDE DEF first
<1>8. /\ k \in Seq(Bucket) /\ Len(k) = Len(c) - first + 1 /\ DOMAIN k = 1..Len(k)
      /\ \A j \in DOMAIN k : k[j] = c[first + j - 1] /\ first + j - 1 \in DOMAIN c
  <2>1. first \in 1..Len(c)
    BY <1>5, <1>7
  <2>2. k \in Seq(Bucket) /\ Len(k) = Len(c) - first + 1
    BY <1>4, <1>5, <2>1
  <2>3. DOMAIN k = 1..Len(k)
    BY <2>2
  <2>4. \A j \in 1..(Len(c) - first + 1) : k[j] = c[first + j - 1]
    BY <1>4, <1>5, <2>1
  <2> QED
    BY <1>5, <2>1, <2>2, <2>3, <2>4
<1> HIDE DEF k
<1>9. k # <<>> /\ k[Len(k)] = c[Len(c)]
  BY <1>5, <1>7, <1>8
<1>10. InOrder(k)
  <2>1. ASSUME NEW i \in DOMAIN k, NEW j \in DOMAIN k, i < j
        PROVE  k[i].hour < k[j].hour
    <3>1. first + i - 1 < first + j - 1
      BY <1>5, <1>7, <1>8, <2>1
    <3> QED
      BY <1>4, <1>8, <3>1 DEF InOrder
  <2>2. ASSUME NEW i \in DOMAIN k
        PROVE  k[i].hour <= Hour /\ k[i].longest <= now
    BY <1>4, <1>8 DEF InOrder
  <2> QED
    BY <2>1, <2>2 DEF InOrder
<1>11. \A j \in DOMAIN k :
         \/ \E i \in DOMAIN kept : k[j] = kept[i]
         \/ k[j] = Fresh /\ \A i \in DOMAIN kept : kept[i].hour # Hour
  BY <1>1, <1>8 DEF Renewed
<1>12. ASSUME NEW i \in DOMAIN c, IsKept(c[i].hour)
       PROVE  \E j \in DOMAIN k : k[j] = c[i]
  <2>1. ~(i < first)
    BY <1>7, <1>12
  <2>2. i - first + 1 \in DOMAIN k /\ k[i - first + 1] = c[i]
    BY <1>5, <1>7, <1>8, <2>1
  <2> QED
    BY <2>2
<1>13. \A i \in DOMAIN kept : IsKept(kept[i].hour) => \E j \in DOMAIN k : k[j] = kept[i]
  <2>1. ASSUME NEW i \in DOMAIN kept, IsKept(kept[i].hour)
        PROVE  \E j \in DOMAIN k : k[j] = kept[i]
    <3>1. PICK m \in DOMAIN c : c[m] = kept[i]
      BY <1>1, <2>1 DEF Renewed
    <3>2. PICK j \in DOMAIN k : k[j] = c[m]
      BY <1>12, <2>1, <3>1
    <3> QED
      BY <3>1, <3>2
  <2> QED
    BY <2>1
<1>14. Renewed(kept, k)
  BY <1>4, <1>8, <1>9, <1>10, <1>11, <1>13 DEF Renewed
<1>15. ASSUME NEW j \in DOMAIN k
       PROVE  IsKept(k[j].hour)
  <2>1. first + j - 1 \in DOMAIN c /\ k[j] = c[first + j - 1] /\ first <= first + j - 1
    BY <1>5, <1>7, <1>8
  <2>2. c[first] \in Bucket /\ c[first + j - 1] \in Bucket
    BY <1>4, <1>5, <1>7, <2>1
  <2>3. c[first].hour <= c[first + j - 1].hour
    <3>1. CASE j = 1
      BY <1>5, <1>7, <2>2, <3>1 DEF Bucket
    <3>2. CASE j # 1
      <4>1. first < first + j - 1
        BY <1>5, <1>7, <1>8, <3>2
      <4>2. c[first].hour < c[first + j - 1].hour
        BY <1>4, <1>7, <2>1, <4>1 DEF InOrder
      <4>3. c[first].hour \in Nat /\ c[first + j - 1].hour \in Nat
        BY <2>2 DEF Bucket
      <4> QED
        BY <4>2, <4>3
    <3> QED
      BY <3>1, <3>2
  <2>4. c[first].hour \in Nat /\ c[first + j - 1].hour \in Nat
    BY <2>2 DEF Bucket
  <2> QED
    BY <1>3, <1>7, <2>1, <2>3, <2>4, SomeTime DEF IsKept
<1> QED
  BY <1>2, <1>14, <1>15

(* So what is said of the hours is still said of them.                      *)
LEMMA RenewedCounts ==
  ASSUME now \in Nat, NEW kept \in Seq(Bucket), CountInv(kept), NEW k, Renewed(kept, k)
  PROVE  CountInv(k)
<1>1. Hour \in Nat \ {0}
  BY HoursGoOn DEF Hour
<1>2. ASSUME NEW j \in DOMAIN k
      PROVE  k[j].hour # 0 /\ k[j].queued = Cardinality(Queued(ticket, k[j].hour))
  <2>1. CASE \E i \in DOMAIN kept : k[j] = kept[i]
    BY <2>1 DEF CountInv
  <2>2. CASE k[j] = Fresh /\ \A i \in DOMAIN kept : kept[i].hour # Hour
    <3>1. ASSUME NEW t \in Queued(ticket, Hour)
          PROVE  FALSE
      <4>1. ticket[t].counted = Hour /\ ticket[t].state \notin {"new", "refused"} /\ t \in Tickets
        BY DEF Queued
      <4>2. IsKept(Hour)
        BY <1>1, SomeTime DEF IsKept
      <4> QED
        BY <1>1, <2>2, <4>1, <4>2 DEF CountInv
    <3>2. Queued(ticket, Hour) = {}
      BY <3>1
    <3>3. k[j].hour = Hour /\ k[j].queued = 0
      BY <2>2 DEF Fresh
    <3>4. Cardinality(Queued(ticket, k[j].hour)) = 0
      BY <3>2, <3>3, FS_EmptySet
    <3> QED
      BY <1>1, <3>3, <3>4
  <2> QED
    BY <2>1, <2>2 DEF Renewed
<1>3. ASSUME NEW t \in Tickets, ticket[t].counted # 0, ticket[t].state \notin {"new", "refused"},
             IsKept(ticket[t].counted)
      PROVE  \E j \in DOMAIN k : k[j].hour = ticket[t].counted
  <2>1. PICK i \in DOMAIN kept : kept[i].hour = ticket[t].counted
    BY <1>3 DEF CountInv
  <2> QED
    BY <1>3, <2>1 DEF Renewed
<1> QED
  BY <1>2, <1>3 DEF CountInv

LEMMA RenewedWaits ==
  ASSUME NEW kept \in Seq(Bucket), WaitInv(kept), NEW k, Renewed(kept, k)
  PROVE  WaitInv(k)
<1> SUFFICES ASSUME NEW t \in Tickets, Waited(t), IsKept(EndedIn(t))
             PROVE  \E j \in DOMAIN k : k[j].hour = EndedIn(t) /\ ticket[t].waited <= k[j].longest
  BY DEF WaitInv
<1>1. PICK i \in DOMAIN kept : kept[i].hour = EndedIn(t) /\ ticket[t].waited <= kept[i].longest
  BY DEF WaitInv
<1> QED
  BY <1>1 DEF Renewed

-----------------------------------------------------------------------------
(* What one more request queued, and the end of some waits, come to.        *)
LEMMA CountedEffect ==
  ASSUME now \in Nat, NEW kept \in Seq(Bucket), InOrder(kept)
  PROVE  \E k \in Seq(Bucket) :
           /\ Renewed(kept, k) /\ Counted(kept) \in Seq(Bucket)
           /\ DOMAIN Counted(kept) = DOMAIN k
           /\ \A j \in DOMAIN k :
                /\ Counted(kept)[j].hour = k[j].hour
                /\ Counted(kept)[j].longest = k[j].longest
                /\ Counted(kept)[j].queued =
                     IF j = Len(k) THEN k[j].queued + 1 ELSE k[j].queued
<1> DEFINE k == ThisHour(kept)
           more == [k[Len(k)] EXCEPT !.queued = @ + 1]
           c == [k EXCEPT ![Len(k)] = more]
<1>1. Counted(kept) = c
  BY DEF Counted
<1>2. Renewed(kept, k)
  BY ThisHourEffect
<1> HIDE DEF k
<1>3. k \in Seq(Bucket) /\ k # <<>>
  BY <1>2 DEF Renewed
<1>4. Len(k) \in Nat \ {0} /\ DOMAIN k = 1..Len(k) /\ Len(k) \in DOMAIN k
  BY <1>3
<1>5. k[Len(k)] \in Bucket
  BY <1>3, <1>4
<1>6. /\ more \in Bucket /\ more.hour = k[Len(k)].hour
      /\ more.longest = k[Len(k)].longest /\ more.queued = k[Len(k)].queued + 1
  BY <1>5 DEF Bucket
<1> HIDE DEF more
<1>7. /\ c \in Seq(Bucket) /\ DOMAIN c = DOMAIN k /\ c[Len(k)] = more
      /\ \A j \in DOMAIN k : j # Len(k) => c[j] = k[j]
  BY <1>3, <1>4, <1>6
<1> HIDE DEF c
<1> QED
  BY <1>1, <1>2, <1>3, <1>6, <1>7

LEMMA WaitsEndedEffect ==
  ASSUME now \in Nat, NEW kept \in Seq(Bucket), InOrder(kept), CountInv(kept), WaitInv(kept),
         ticket \in [Tickets -> Ticket],
         NEW ts \in SUBSET Tickets, \A t \in ts : ticket[t].arrived <= now
  PROVE  /\ WaitsEnded(kept, ts) \in Seq(Bucket) /\ InOrder(WaitsEnded(kept, ts))
         /\ CountInv(WaitsEnded(kept, ts)) /\ WaitInv(WaitsEnded(kept, ts))
         /\ \A t \in ts : \E j \in DOMAIN WaitsEnded(kept, ts) :
              /\ WaitsEnded(kept, ts)[j].hour = Hour
              /\ now - ticket[t].arrived <= WaitsEnded(kept, ts)[j].longest
<1> DEFINE k == ThisHour(kept)
           S == {k[Len(k)].longest} \cup {now - ticket[t].arrived : t \in ts}
           longest == Max(S)
           more == [k[Len(k)] EXCEPT !.longest = longest]
           c == [k EXCEPT ![Len(k)] = more]
<1>1. CASE ts = {}
  BY <1>1 DEF WaitsEnded
<1>2. CASE ts # {}
  <2>1. WaitsEnded(kept, ts) = c
    BY <1>2 DEF WaitsEnded
  <2>2. Renewed(kept, k)
    BY ThisHourEffect
  <2> HIDE DEF k
  <2>3. CountInv(k) /\ WaitInv(k)
    BY <2>2, RenewedCounts, RenewedWaits
  <2>4. k \in Seq(Bucket) /\ k # <<>> /\ InOrder(k) /\ k[Len(k)].hour = Hour
    BY <2>2 DEF Renewed
  <2>5. Len(k) \in Nat \ {0} /\ DOMAIN k = 1..Len(k) /\ Len(k) \in DOMAIN k
    BY <2>4
  <2>6. \A j \in DOMAIN k : k[j] \in Bucket
    BY <2>4, <2>5
  <2>7. \A j \in DOMAIN k : k[j].longest \in Nat /\ k[j].longest <= now
    BY <2>4, <2>6 DEF Bucket, InOrder
  <2>8. \A t \in ts : ticket[t].arrived \in Nat
    BY DEF Ticket
  <2>9. S \in SUBSET Nat /\ S # {} /\ \A n \in S : n <= now
    BY <2>5, <2>7, <2>8
  <2>10. longest \in S /\ \A n \in S : n <= longest
    BY <2>9, Greatest
  <2>11. longest \in Nat /\ longest <= now /\ k[Len(k)].longest <= longest
         /\ \A t \in ts : now - ticket[t].arrived <= longest
    BY <2>9, <2>10
  <2> HIDE DEF longest
  <2>12. /\ more \in Bucket /\ more.hour = k[Len(k)].hour
         /\ more.longest = longest /\ more.queued = k[Len(k)].queued
    BY <2>5, <2>6, <2>11 DEF Bucket
  <2> HIDE DEF more
  <2>13. /\ c \in Seq(Bucket) /\ DOMAIN c = DOMAIN k /\ c[Len(k)] = more
         /\ \A j \in DOMAIN k : j # Len(k) => c[j] = k[j]
    BY <2>4, <2>5, <2>12
  <2> HIDE DEF c
  <2>14. \A j \in DOMAIN c : /\ j \in DOMAIN k /\ c[j].hour = k[j].hour /\ c[j].queued = k[j].queued
                             /\ k[j].longest <= c[j].longest /\ c[j].longest <= now
                             /\ c[j].longest \in Nat
    BY <2>7, <2>11, <2>12, <2>13
  <2>15. InOrder(c)
    BY <2>4, <2>13, <2>14 DEF InOrder
  <2>16. CountInv(c)
    BY <2>3, <2>13, <2>14 DEF CountInv
  <2>17. WaitInv(c)
    <3> SUFFICES ASSUME NEW t \in Tickets, Waited(t), IsKept(EndedIn(t))
                 PROVE  \E j \in DOMAIN c :
                          c[j].hour = EndedIn(t) /\ ticket[t].waited <= c[j].longest
      BY DEF WaitInv
    <3>1. PICK j \in DOMAIN k : k[j].hour = EndedIn(t) /\ ticket[t].waited <= k[j].longest
      BY <2>3 DEF WaitInv
    <3>2. ticket[t].waited \in Nat
      BY DEF Ticket
    <3>3. ticket[t].waited <= c[j].longest
      BY <2>7, <2>13, <2>14, <3>1, <3>2
    <3> QED
      BY <2>13, <2>14, <3>1, <3>3
  <2>18. \A t \in ts : \E j \in DOMAIN c :
           c[j].hour = Hour /\ now - ticket[t].arrived <= c[j].longest
    BY <2>4, <2>5, <2>11, <2>12, <2>13
  <2> QED
    BY <2>1, <2>13, <2>15, <2>16, <2>17, <2>18
<1> QED
  BY <1>1, <1>2

(* One request less of an hour, wherever it is.                             *)
LEMMA DiscountedEffect ==
  ASSUME now \in Nat, NEW kept \in Seq(Bucket), InOrder(kept), WaitInv(kept), NEW hour,
         \A i \in DOMAIN kept : kept[i].hour = hour => kept[i].queued # 0
  PROVE  /\ Discounted(kept, hour) \in Seq(Bucket) /\ InOrder(Discounted(kept, hour))
         /\ WaitInv(Discounted(kept, hour))
         /\ DOMAIN Discounted(kept, hour) = DOMAIN kept
         /\ \A i \in DOMAIN kept :
              /\ Discounted(kept, hour)[i].hour = kept[i].hour
              /\ Discounted(kept, hour)[i].queued =
                   IF kept[i].hour = hour THEN kept[i].queued - 1 ELSE kept[i].queued
<1> DEFINE d == Discounted(kept, hour)
<1>1. Len(kept) \in Nat /\ DOMAIN kept = 1..Len(kept) /\ \A i \in DOMAIN kept : kept[i] \in Bucket
  OBVIOUS
<1>2. ASSUME NEW i \in DOMAIN kept
      PROVE  /\ d[i] \in Bucket /\ d[i].hour = kept[i].hour /\ d[i].longest = kept[i].longest
             /\ d[i].queued = IF kept[i].hour = hour THEN kept[i].queued - 1 ELSE kept[i].queued
  <2>1. kept[i] \in Bucket
    BY <1>1
  <2>2. CASE kept[i].hour = hour
    <3>1. kept[i].queued - 1 \in Nat
      <4>1. kept[i].queued \in Nat
        BY <2>1 DEF Bucket
      <4>2. kept[i].queued # 0
        BY <2>2
      <4> QED
        BY <4>1, <4>2
    <3>2. d[i] = [kept[i] EXCEPT !.queued = @ - 1]
      BY <2>2 DEF Discounted
    <3> QED
      BY <2>1, <2>2, <3>1, <3>2 DEF Bucket
  <2>3. CASE kept[i].hour # hour
    BY <2>1, <2>3 DEF Discounted
  <2> QED
    BY <2>2, <2>3
<1>3. d = [i \in 1..Len(kept) |-> d[i]]
  BY <1>1 DEF Discounted
<1>4. DOMAIN d = DOMAIN kept
  BY DEF Discounted
<1> HIDE DEF d
<1>5. d \in Seq(Bucket)
  BY <1>1, <1>2, <1>3
<1>6. InOrder(d)
  BY <1>2, <1>4 DEF InOrder
<1>7. WaitInv(d)
  BY <1>2, <1>4 DEF WaitInv
<1> QED
  BY <1>2, <1>4, <1>5, <1>6, <1>7 DEF d

-----------------------------------------------------------------------------
(* The invariant is kept: first of the hours.                               *)
LEMMA CurrentHour ==
  ASSUME TypeOK
  PROVE  Hour \in Nat \ {0} /\ IsKept(Hour)
<1>1. Hour \in Nat \ {0}
  <2>1. now \in Nat
    BY DEF TypeOK
  <2> QED
    BY ONLY <2>1, HoursGoOn DEF Hour
<1> QED
  BY <1>1, SomeTime DEF IsKept

LEMMA QueuedAreFinite ==
  ASSUME NEW of, NEW hour
  PROVE  IsFiniteSet(Queued(of, hour)) /\ Cardinality(Queued(of, hour)) \in Nat
<1>1. Queued(of, hour) \in SUBSET Tickets
  BY DEF Queued
<1> QED
  BY <1>1, FiniteTickets, FS_Subset, FS_CardinalityType

(* Some waits end, and maybe a request leaves that waits no more.           *)
Settles(ts) ==
  \A t \in Tickets :
    /\ ticket'[t].arrived = ticket[t].arrived /\ ticket'[t].counted = ticket[t].counted
    /\ t \in ts => /\ ticket[t].state = "open" /\ ticket'[t].state \in {"open", "left"}
                   /\ ticket'[t].waited = now - ticket[t].arrived
    /\ t \notin ts => /\ \/ ticket'[t].state = ticket[t].state
                         \/ ticket[t].state = "open" /\ ticket'[t].state = "left"
                      /\ ticket'[t].waiting = ticket[t].waiting
                      /\ ticket'[t].waited = ticket[t].waited

LEMMA WaitsSettle ==
  ASSUME TypeOK, TicketInv, HoursInv, now' = now, ticket' \in [Tickets -> Ticket],
         NEW ts \in SUBSET Tickets, hours' = WaitsEnded(hours, ts), Settles(ts)
  PROVE  hours' \in Seq(Bucket) /\ HoursInv'
<1> DEFINE w == WaitsEnded(hours, ts)
<1>1. \A t \in ts : ticket[t].arrived <= now
  BY DEF TicketInv, TicketSays, Settles
<1>2. /\ w \in Seq(Bucket) /\ InOrder(w) /\ CountInv(w) /\ WaitInv(w)
      /\ \A t \in ts : \E j \in DOMAIN w : w[j].hour = Hour /\ now - ticket[t].arrived <= w[j].longest
  BY <1>1, WaitsEndedEffect DEF TypeOK, HoursInv
<1>3. hours' = w
  OBVIOUS
<1> HIDE DEF w
<1>4. Hour' = Hour /\ \A hour : IsKept(hour)' <=> IsKept(hour)
  BY DEF Hour, IsKept
<1>5. \A hour : Queued(ticket', hour) = Queued(ticket, hour)
  BY DEF Queued, Settles
<1>6. InOrder(hours)'
  BY <1>2, <1>3, <1>4 DEF InOrder
<1>7. CountInv(hours)'
  <2>1. ASSUME NEW i \in DOMAIN w
        PROVE  w[i].hour # 0 /\ w[i].queued = Cardinality(Queued(ticket', w[i].hour))
    BY <1>2, <1>5 DEF CountInv
  <2>2. ASSUME NEW t \in Tickets, ticket'[t].counted # 0, ticket'[t].state \notin {"new", "refused"},
               IsKept(ticket'[t].counted)
        PROVE  \E i \in DOMAIN w : w[i].hour = ticket'[t].counted
    BY <1>2, <2>2 DEF CountInv, Settles
  <2> QED
    BY <1>3, <1>4, <2>1, <2>2 DEF CountInv, IsKept
<1>8. WaitInv(hours)'
  <2>1. ASSUME NEW t \in Tickets, Waited(t)', IsKept(EndedIn(t)')
        PROVE  \E i \in DOMAIN w : w[i].hour = EndedIn(t)' /\ ticket'[t].waited <= w[i].longest
    <3>1. CASE t \in ts
      <4>1. ticket[t].arrived \in Nat /\ now \in Nat
        BY DEF TypeOK, Ticket
      <4>2. ticket[t].arrived + (now - ticket[t].arrived) = now
        BY <4>1
      <4>3. EndedIn(t)' = Hour
        BY <3>1, <4>2 DEF EndedIn, Hour, Settles
      <4> QED
        BY <1>2, <3>1, <4>3 DEF Settles
    <3>2. CASE t \notin ts
      <4>1. Waited(t) /\ EndedIn(t)' = EndedIn(t) /\ ticket'[t].waited = ticket[t].waited
        BY <2>1, <3>2 DEF Waited, EndedIn, Settles
      <4> QED
        BY <1>2, <2>1, <4>1 DEF WaitInv
    <3> QED
      BY <3>1, <3>2
  <2> QED
    BY <1>3, <1>4, <2>1 DEF WaitInv, IsKept
<1> QED
  BY <1>2, <1>3, <1>6, <1>7, <1>8 DEF HoursInv

(* A request arrives, and waits or not.                                     *)
LEMMA ArriveHours ==
  ASSUME TypeOK, TicketInv, HoursInv, NEW t \in Tickets, Arrive(t)
  PROVE  hours' \in Seq(Bucket) /\ HoursInv'
<1> DEFINE waits == inFlight >= places
<1>1. /\ ticket[t].state = "new" /\ now' = now
      /\ ticket' = [ticket EXCEPT ![t] =
              [state |-> "open", arrived |-> now, waiting |-> waits, waited |-> 0,
               counted |-> IF waits THEN Hour ELSE 0, process |-> process]]
      /\ hours' = IF waits THEN Counted(hours) ELSE hours
  BY DEF Arrive
<1>2. /\ ticket'[t].state = "open" /\ ticket'[t].waiting = waits
      /\ ticket'[t].counted = IF waits THEN Hour ELSE 0
      /\ \A u \in Tickets \ {t} : ticket'[u] = ticket[u]
  BY <1>1 DEF TypeOK
<1> HIDE DEF waits
<1>3. Hour \in Nat \ {0} /\ Hour' = Hour /\ \A hour : IsKept(hour)' <=> IsKept(hour)
  BY <1>1, CurrentHour DEF Hour, IsKept
<1>4. ticket[t].counted = 0 /\ \A hour : t \notin Queued(ticket, hour)
  BY <1>1 DEF TicketInv, TicketSays, Queued
<1>5. ~Waited(t)'
  BY <1>2 DEF Waited
<1>6. \A u \in Tickets \ {t} : (Waited(u)' <=> Waited(u)) /\ EndedIn(u)' = EndedIn(u)
  BY <1>2 DEF Waited, EndedIn
<1>7. CASE ~waits
  <2>1. hours' = hours /\ ticket'[t].counted = 0
    BY <1>1, <1>2, <1>7
  <2>2. \A hour : hour # 0 => Queued(ticket', hour) = Queued(ticket, hour)
    BY <1>2, <1>4, <2>1 DEF Queued
  <2>3. InOrder(hours)'
    BY <1>1, <1>3, <2>1 DEF HoursInv, InOrder
  <2>4. CountInv(hours)'
    <3>1. ASSUME NEW i \in DOMAIN hours
          PROVE  hours[i].hour # 0 /\ hours[i].queued = Cardinality(Queued(ticket', hours[i].hour))
      BY <2>2 DEF HoursInv, CountInv
    <3>2. ASSUME NEW u \in Tickets, ticket'[u].counted # 0,
                 ticket'[u].state \notin {"new", "refused"}, IsKept(ticket'[u].counted)
          PROVE  \E i \in DOMAIN hours : hours[i].hour = ticket'[u].counted
      BY <1>2, <2>1, <3>2 DEF HoursInv, CountInv
    <3> QED
      BY <1>3, <2>1, <3>1, <3>2 DEF CountInv, IsKept
  <2>5. WaitInv(hours)'
    <3>1. ASSUME NEW u \in Tickets, Waited(u)', IsKept(EndedIn(u)')
          PROVE  \E i \in DOMAIN hours : /\ hours[i].hour = EndedIn(u)'
                                         /\ ticket'[u].waited <= hours[i].longest
      BY <1>2, <1>5, <1>6, <3>1 DEF HoursInv, WaitInv
    <3> QED
      BY <1>3, <2>1, <3>1 DEF WaitInv, IsKept
  <2> QED
    BY <2>1, <2>3, <2>4, <2>5 DEF HoursInv, TypeOK
<1>8. CASE waits
  <2> DEFINE c == Counted(hours)
  <2>1. PICK k \in Seq(Bucket) :
           /\ Renewed(hours, k) /\ c \in Seq(Bucket) /\ DOMAIN c = DOMAIN k
           /\ \A j \in DOMAIN k :
                /\ c[j].hour = k[j].hour /\ c[j].longest = k[j].longest
                /\ c[j].queued = IF j = Len(k) THEN k[j].queued + 1 ELSE k[j].queued
    BY CountedEffect DEF TypeOK, HoursInv
  <2>2. hours' = c /\ ticket'[t].counted = Hour
    BY <1>1, <1>2, <1>8
  <2> HIDE DEF c
  <2>3. CountInv(k) /\ WaitInv(k)
    BY <2>1, RenewedCounts, RenewedWaits DEF TypeOK, HoursInv
  <2>4. InOrder(k) /\ k # <<>> /\ k[Len(k)].hour = Hour
    BY <2>1 DEF Renewed
  <2>5. Len(k) \in DOMAIN k /\ DOMAIN k = 1..Len(k) /\ Len(k) \in Nat
    BY <2>1, <2>4
  <2>6. \A j \in DOMAIN k : k[j].hour \in Nat
    <3>1. \A j \in DOMAIN k : k[j] \in Bucket
      BY <2>1, <2>5
    <3> QED
      BY <3>1 DEF Bucket
  <2>7. \A j \in DOMAIN k : k[j].hour = Hour <=> j = Len(k)
    <3>1. \A j \in DOMAIN k : j # Len(k) => k[j].hour < k[Len(k)].hour
      BY <2>4, <2>5 DEF InOrder
    <3> QED
      BY <1>3, <2>4, <2>5, <2>6, <3>1
  <2>8. Queued(ticket', Hour) = Queued(ticket, Hour) \cup {t}
    BY <1>2, <1>3, <2>2 DEF Queued
  <2>9. \A hour : hour # Hour => Queued(ticket', hour) = Queued(ticket, hour)
    BY <1>2, <1>4, <2>2 DEF Queued
  <2>10. Cardinality(Queued(ticket', Hour)) = Cardinality(Queued(ticket, Hour)) + 1
    BY <1>4, <2>8, QueuedAreFinite, FS_AddElement
  <2>11. InOrder(hours)'
    BY <1>1, <1>3, <2>1, <2>2, <2>4 DEF InOrder
  <2>12. CountInv(hours)'
    <3>1. ASSUME NEW i \in DOMAIN c
          PROVE  c[i].hour # 0 /\ c[i].queued = Cardinality(Queued(ticket', c[i].hour))
      <4>1. i \in DOMAIN k /\ k[i].hour # 0 /\ k[i].queued = Cardinality(Queued(ticket, k[i].hour))
        BY <2>1, <2>3, <3>1 DEF CountInv
      <4>2. c[i].hour = k[i].hour
        BY <2>1, <4>1
      <4>3. CASE i = Len(k)
        <5>1. c[i].hour = Hour /\ c[i].queued = k[i].queued + 1
              /\ k[i].queued = Cardinality(Queued(ticket, Hour))
          BY <2>1, <2>4, <4>1, <4>2, <4>3
        <5> QED
          BY <1>3, <2>10, <5>1
      <4>4. CASE i # Len(k)
        <5>1. k[i].hour # Hour /\ c[i].queued = k[i].queued
          BY <2>1, <2>7, <4>1, <4>4
        <5> QED
          BY <2>9, <4>1, <4>2, <5>1
      <4> QED
        BY <4>3, <4>4
    <3>2. ASSUME NEW u \in Tickets, ticket'[u].counted # 0,
                 ticket'[u].state \notin {"new", "refused"}, IsKept(ticket'[u].counted)
          PROVE  \E i \in DOMAIN c : c[i].hour = ticket'[u].counted
      <4>1. CASE u = t
        BY <2>1, <2>2, <2>4, <2>5, <4>1
      <4>2. CASE u # t
        <5>1. PICK i \in DOMAIN k : k[i].hour = ticket[u].counted
          BY <1>2, <2>3, <3>2, <4>2 DEF CountInv
        <5> QED
          BY <1>2, <2>1, <4>2, <5>1
      <4> QED
        BY <4>1, <4>2
    <3> QED
      BY <1>3, <2>2, <3>1, <3>2 DEF CountInv, IsKept
  <2>13. WaitInv(hours)'
    <3>1. ASSUME NEW u \in Tickets, Waited(u)', IsKept(EndedIn(u)')
          PROVE  \E i \in DOMAIN c : /\ c[i].hour = EndedIn(u)'
                                     /\ ticket'[u].waited <= c[i].longest
      <4>1. u # t /\ Waited(u) /\ EndedIn(u)' = EndedIn(u) /\ ticket'[u] = ticket[u]
        BY <1>2, <1>5, <1>6, <3>1
      <4>2. PICK i \in DOMAIN k : k[i].hour = EndedIn(u) /\ ticket[u].waited <= k[i].longest
        BY <2>3, <3>1, <4>1 DEF WaitInv
      <4> QED
        BY <2>1, <4>1, <4>2
    <3> QED
      BY <1>3, <2>2, <3>1 DEF WaitInv, IsKept
  <2> QED
    BY <2>1, <2>2, <2>11, <2>12, <2>13 DEF HoursInv
<1> QED
  BY <1>7, <1>8

(* One that waits is refused, and was never queued after all.               *)
LEMMA RefusalHours ==
  ASSUME TypeOK, TicketInv, HoursInv, NEW t \in Tickets, Current(t), ticket[t].waiting,
         ticket' = [ticket EXCEPT ![t].state = "refused", ![t].waiting = FALSE],
         hours' = Discounted(hours, ticket[t].counted), now' = now
  PROVE  hours' \in Seq(Bucket) /\ HoursInv'
<1> DEFINE h == ticket[t].counted
           d == Discounted(hours, h)
<1>1. /\ ticket[t].state = "open" /\ h # 0 /\ t \in Queued(ticket, h)
      /\ \A g : g # h => t \notin Queued(ticket, g)
  BY DEF Current, TicketInv, TicketSays, Queued
<1>2. /\ ticket'[t].state = "refused" /\ ticket'[t].counted = h
      /\ \A u \in Tickets \ {t} : ticket'[u] = ticket[u]
  BY DEF TypeOK, Ticket
<1>3. Cardinality(Queued(ticket, h)) # 0
  BY <1>1, QueuedAreFinite, FS_EmptySet
<1>4. \A i \in DOMAIN hours : hours[i].hour = h => hours[i].queued # 0
  BY <1>3 DEF HoursInv, CountInv
<1>5. /\ d \in Seq(Bucket) /\ InOrder(d) /\ WaitInv(d) /\ DOMAIN d = DOMAIN hours
      /\ \A i \in DOMAIN hours :
           /\ d[i].hour = hours[i].hour
           /\ d[i].queued = IF hours[i].hour = h THEN hours[i].queued - 1 ELSE hours[i].queued
  BY <1>4, DiscountedEffect DEF TypeOK, HoursInv
<1>6. hours' = d
  OBVIOUS
<1> HIDE DEF d
<1>7. Hour' = Hour /\ \A hour : IsKept(hour)' <=> IsKept(hour)
  BY DEF Hour, IsKept
<1>8. Queued(ticket', h) = Queued(ticket, h) \ {t}
  BY <1>2 DEF Queued
<1>9. \A g : g # h => Queued(ticket', g) = Queued(ticket, g)
  BY <1>1, <1>2 DEF Queued
<1>10. Cardinality(Queued(ticket', h)) = Cardinality(Queued(ticket, h)) - 1
  BY <1>1, <1>8, QueuedAreFinite, FS_RemoveElement
<1>11. InOrder(hours)'
  BY <1>5, <1>6, <1>7 DEF InOrder
<1> HIDE DEF h
<1>12. CountInv(hours)'
  <2>1. ASSUME NEW i \in DOMAIN d
        PROVE  d[i].hour # 0 /\ d[i].queued = Cardinality(Queued(ticket', d[i].hour))
    <3>1. i \in DOMAIN hours /\ hours[i].hour # 0 /\ d[i].hour = hours[i].hour
          /\ hours[i].queued = Cardinality(Queued(ticket, hours[i].hour))
      BY <1>5, <2>1 DEF HoursInv, CountInv
    <3>2. CASE hours[i].hour = h
      BY <1>5, <1>10, <3>1, <3>2
    <3>3. CASE hours[i].hour # h
      BY <1>5, <1>9, <3>1, <3>3
    <3> QED
      BY <3>2, <3>3
  <2>2. ASSUME NEW u \in Tickets, ticket'[u].counted # 0,
               ticket'[u].state \notin {"new", "refused"}, IsKept(ticket'[u].counted)
        PROVE  \E i \in DOMAIN d : d[i].hour = ticket'[u].counted
    <3>1. u # t /\ ticket'[u] = ticket[u]
      BY <1>2, <2>2
    <3>2. PICK i \in DOMAIN hours : hours[i].hour = ticket[u].counted
      BY <2>2, <3>1 DEF HoursInv, CountInv
    <3> QED
      BY <1>5, <3>1, <3>2
  <2> QED
    BY <1>6, <1>7, <2>1, <2>2 DEF CountInv, IsKept
<1>13. WaitInv(hours)'
  <2>1. ASSUME NEW u \in Tickets, Waited(u)', IsKept(EndedIn(u)')
        PROVE  \E i \in DOMAIN d : d[i].hour = EndedIn(u)' /\ ticket'[u].waited <= d[i].longest
    <3>1. u # t /\ ticket'[u] = ticket[u]
      BY <1>2, <2>1 DEF Waited
    <3>2. Waited(u) /\ EndedIn(u)' = EndedIn(u)
      BY <2>1, <3>1 DEF Waited, EndedIn
    <3> QED
      BY <1>5, <2>1, <3>1, <3>2 DEF WaitInv
  <2> QED
    BY <1>6, <1>7, <2>1 DEF WaitInv, IsKept
<1> QED
  BY <1>5, <1>6, <1>11, <1>12, <1>13 DEF HoursInv

(* Time passes, and what is to be kept is no more than before.              *)
LEMMA TickHours ==
  ASSUME TypeOK, HoursInv, Tick
  PROVE  HoursInv'
<1>1. UNCHANGED <<hours, ticket>> /\ now' = now + 1 /\ now \in Nat
  BY DEF Tick, TypeOK
<1>2. Hour \in Nat /\ Hour' \in Nat /\ Hour <= Hour'
  BY <1>1, HoursGoOn DEF Hour
<1>3. ASSUME NEW hour \in Nat, IsKept(hour)'
      PROVE  IsKept(hour)
  BY <1>2, <1>3, SomeTime DEF IsKept
<1>4. \A i \in DOMAIN hours : hours[i] \in Bucket
  BY DEF TypeOK
<1>5. \A i \in DOMAIN hours : hours[i].hour \in Nat /\ hours[i].longest \in Nat
  BY <1>4 DEF Bucket
<1>6. InOrder(hours)'
  BY <1>1, <1>2, <1>5 DEF HoursInv, InOrder
<1>7. CountInv(hours)'
  <2>1. ASSUME NEW u \in Tickets, ticket[u].counted # 0,
               ticket[u].state \notin {"new", "refused"}, IsKept(ticket[u].counted)'
        PROVE  \E i \in DOMAIN hours : hours[i].hour = ticket[u].counted
    <3>1. ticket[u].counted \in Nat
      BY DEF TypeOK, Ticket
    <3> QED
      BY <1>1, <1>3, <2>1, <3>1 DEF HoursInv, CountInv
  <2> QED
    BY <1>1, <2>1 DEF HoursInv, CountInv
<1>8. WaitInv(hours)'
  <2>1. ASSUME NEW u \in Tickets, Waited(u), IsKept(EndedIn(u))'
        PROVE  \E i \in DOMAIN hours : /\ hours[i].hour = EndedIn(u)
                                       /\ ticket[u].waited <= hours[i].longest
    <3>1. EndedIn(u) \in Nat /\ EndedIn(u)' = EndedIn(u)
      <4>1. ticket[u].arrived \in Nat /\ ticket[u].waited \in Nat
        BY DEF TypeOK, Ticket
      <4>2. ticket[u].arrived + ticket[u].waited \in Nat
        BY <4>1
      <4> QED
        BY <1>1, <4>2, HoursGoOn DEF EndedIn
    <3> QED
      BY <1>3, <2>1, <3>1 DEF HoursInv, WaitInv
  <2> QED
    BY <1>1, <2>1 DEF HoursInv, WaitInv, Waited, EndedIn
<1> QED
  BY <1>6, <1>7, <1>8 DEF HoursInv

(* The hours are renewed, and nothing else happens.                         *)
LEMMA LastDayHours ==
  ASSUME TypeOK, HoursInv, LastDay
  PROVE  hours' \in Seq(Bucket) /\ HoursInv'
<1> DEFINE k == ThisHour(hours)
<1>1. Renewed(hours, k)
  BY ThisHourEffect DEF TypeOK, HoursInv
<1>2. hours' = k /\ UNCHANGED <<ticket, now>>
  BY DEF LastDay
<1> HIDE DEF k
<1>3. k \in Seq(Bucket) /\ InOrder(k)
  BY <1>1 DEF Renewed
<1>4. CountInv(k) /\ WaitInv(k)
  BY <1>1, RenewedCounts, RenewedWaits DEF TypeOK, HoursInv
<1>5. InOrder(hours)' /\ CountInv(hours)' /\ WaitInv(hours)'
  BY <1>2, <1>3, <1>4 DEF InOrder, CountInv, WaitInv, Hour, IsKept, Queued, Waited, EndedIn
<1> QED
  BY <1>2, <1>3, <1>5 DEF HoursInv

-----------------------------------------------------------------------------
(* Then the line.  One taken out leaves the others in their order.          *)
LEMMA WithoutEffect ==
  ASSUME NEW S, NEW s \in Seq(S), NEW x, NEW k \in DOMAIN s, s[k] = x,
         \A i, j \in DOMAIN s : s[i] = s[j] => i = j
  PROVE  /\ Without(s, x) \in Seq(S) /\ Len(Without(s, x)) = Len(s) - 1
         /\ \A i \in 1..(Len(s) - 1) :
              Without(s, x)[i] = IF i < k THEN s[i] ELSE s[i + 1]
<1> DEFINE a == SubSeq(s, 1, k - 1)
           b == SubSeq(s, k + 1, Len(s))
           t == a \o b
<1>1. Without(s, x) = t
  <2>1. (CHOOSE i \in DOMAIN s : s[i] = x) = k
    OBVIOUS
  <2> QED
    BY <2>1 DEF Without
<1>2. k \in 1..Len(s) /\ Len(s) \in Nat /\ DOMAIN s = 1..Len(s)
  OBVIOUS
<1>3. a \in Seq(S) /\ Len(a) = k - 1 /\ \A i \in 1..(k - 1) : a[i] = s[i]
  BY <1>2
<1>4. /\ b \in Seq(S) /\ Len(b) = Len(s) - k
      /\ \A i \in 1..(Len(s) - k) : b[i] = s[k + i]
  BY <1>2
<1> HIDE DEF a, b
<1>6. /\ t \in Seq(S) /\ Len(t) = Len(a) + Len(b)
      /\ \A i \in 1..(Len(a) + Len(b)) : t[i] = IF i <= Len(a) THEN a[i] ELSE b[i - Len(a)]
  <2>1. a \in Seq(S) /\ b \in Seq(S)
    BY ONLY <1>3, <1>4
  <2> QED
    BY ONLY <2>1, ConcatProperties
<1> HIDE DEF t
<1>7. Len(t) = Len(s) - 1
  BY <1>2, <1>3, <1>4, <1>6
<1>8. \A i \in 1..(Len(s) - 1) : t[i] = IF i < k THEN s[i] ELSE s[i + 1]
  <2>1. ASSUME NEW i \in 1..(Len(s) - 1), i < k
        PROVE  t[i] = s[i]
    BY <1>2, <1>3, <1>6, <1>7, <2>1
  <2>2. ASSUME NEW i \in 1..(Len(s) - 1), ~(i < k)
        PROVE  t[i] = s[i + 1]
    <3>1. i - (k - 1) \in 1..(Len(s) - k) /\ t[i] = b[i - (k - 1)]
      BY <1>2, <1>3, <1>6, <1>7, <2>2
    <3>2. b[i - (k - 1)] = s[k + (i - (k - 1))]
      BY <1>4, <3>1
    <3>3. k + (i - (k - 1)) = i + 1
      BY <1>2
    <3> QED
      BY <3>1, <3>2, <3>3
  <2> QED
    BY <2>1, <2>2
<1> QED
  BY <1>1, <1>6, <1>7, <1>8

(* The line without one that was in it, and that waits no more.             *)
LEMMA LineShrinks ==
  ASSUME TypeOK, LineInv, NEW k \in DOMAIN waiting, waiting' \in Seq(Tickets),
         Len(waiting') = Len(waiting) - 1,
         \A i \in 1..(Len(waiting) - 1) :
            waiting'[i] = IF i < k THEN waiting[i] ELSE waiting[i + 1],
         \A u \in Tickets : /\ ticket'[u].waiting <=> ticket[u].waiting /\ u # waiting[k]
                            /\ ticket'[u].arrived = ticket[u].arrived
  PROVE  LineInv'
<1> DEFINE at(i) == IF i < k THEN i ELSE i + 1
<1>1. /\ Len(waiting) \in Nat /\ DOMAIN waiting = 1..Len(waiting) /\ waiting \in Seq(Tickets)
      /\ DOMAIN waiting' = 1..(Len(waiting) - 1)
      /\ \A i \in DOMAIN waiting : waiting[i] \in Tickets
  BY DEF TypeOK
<1>2. \A i \in DOMAIN waiting' : at(i) \in DOMAIN waiting /\ at(i) # k /\ waiting'[i] = waiting[at(i)]
  BY <1>1
<1>3. \A i, j \in DOMAIN waiting' : i < j => at(i) < at(j)
  BY <1>1
<1>4. \A i, j \in DOMAIN waiting' : at(i) = at(j) => i = j
  BY <1>1
<1>5. ASSUME NEW m \in DOMAIN waiting, m # k
      PROVE  \E i \in DOMAIN waiting' : at(i) = m
  <2>1. CASE m < k
    <3>1. m \in DOMAIN waiting' /\ at(m) = m
      BY <1>1, <2>1
    <3> QED
      BY <3>1
  <2>2. CASE m > k
    <3>1. m - 1 \in DOMAIN waiting' /\ at(m - 1) = m
      BY <1>1, <2>2
    <3> QED
      BY <3>1
  <2> QED
    BY <1>1, <1>5, <2>1, <2>2
<1> HIDE DEF at
<1>6. \A i, j \in DOMAIN waiting' : waiting'[i] = waiting'[j] => i = j
  BY <1>2, <1>4 DEF LineInv
<1>7. \A i \in DOMAIN waiting' : ticket'[waiting'[i]].waiting
  <2>1. ASSUME NEW i \in DOMAIN waiting'
        PROVE  ticket'[waiting'[i]].waiting
    <3>1. waiting[at(i)] # waiting[k] /\ ticket[waiting[at(i)]].waiting
      BY <1>2 DEF LineInv
    <3> QED
      BY <1>1, <1>2, <3>1
  <2> QED
    BY <2>1
<1>8. ASSUME NEW u \in Tickets, ticket'[u].waiting
      PROVE  \E i \in DOMAIN waiting' : waiting'[i] = u
  <2>1. PICK m \in DOMAIN waiting : waiting[m] = u
    BY <1>8 DEF LineInv
  <2>2. m # k
    BY <1>8, <2>1
  <2>3. PICK i \in DOMAIN waiting' : at(i) = m
    BY <1>5, <2>2
  <2> QED
    BY <1>2, <2>1, <2>3
<1>9. ASSUME NEW i \in DOMAIN waiting', NEW j \in DOMAIN waiting', i < j
      PROVE  ticket'[waiting'[i]].arrived <= ticket'[waiting'[j]].arrived
  <2>1. ticket[waiting[at(i)]].arrived <= ticket[waiting[at(j)]].arrived
    BY <1>2, <1>3, <1>9 DEF LineInv
  <2> QED
    BY <1>1, <1>2, <2>1
<1> QED
  BY <1>6, <1>7, <1>8, <1>9 DEF LineInv

(* The line with one more, who came after all the others.                   *)
LEMMA LineGrows ==
  ASSUME TypeOK, TicketInv, LineInv, NEW t \in Tickets, ticket[t].state = "new",
         waiting' = Append(waiting, t), ticket'[t].waiting, ticket'[t].arrived = now,
         \A u \in Tickets \ {t} : ticket'[u] = ticket[u]
  PROVE  waiting' \in Seq(Tickets) /\ Len(waiting') = Len(waiting) + 1 /\ LineInv'
<1> DEFINE n == Len(waiting) + 1
<1>1. /\ waiting \in Seq(Tickets) /\ Len(waiting) \in Nat /\ DOMAIN waiting = 1..Len(waiting)
      /\ \A i \in DOMAIN waiting : waiting[i] \in Tickets
  BY DEF TypeOK
<1>2. /\ waiting' \in Seq(Tickets) /\ Len(waiting') = n /\ DOMAIN waiting' = 1..n
      /\ waiting'[n] = t /\ \A i \in DOMAIN waiting : waiting'[i] = waiting[i]
  BY <1>1
<1>3. \A i \in DOMAIN waiting : waiting[i] \in Tickets \ {t}
  BY <1>1 DEF TicketInv, TicketSays, LineInv
<1>4. DOMAIN waiting' = (DOMAIN waiting) \cup {n} /\ n \notin DOMAIN waiting
      /\ \A i \in DOMAIN waiting : i < n
  BY <1>1, <1>2
<1> HIDE DEF n
<1>5. \A i, j \in DOMAIN waiting' : waiting'[i] = waiting'[j] => i = j
  BY <1>2, <1>3, <1>4 DEF LineInv
<1>6. \A i \in DOMAIN waiting' : ticket'[waiting'[i]].waiting
  <2>1. ASSUME NEW i \in DOMAIN waiting
        PROVE  ticket'[waiting'[i]].waiting
    BY <1>2, <1>3 DEF LineInv
  <2> QED
    BY <1>2, <1>4, <2>1
<1>7. ASSUME NEW u \in Tickets, ticket'[u].waiting
      PROVE  \E i \in DOMAIN waiting' : waiting'[i] = u
  <2>1. CASE u = t
    BY <1>2, <1>4, <2>1
  <2>2. CASE u # t
    <3>1. PICK i \in DOMAIN waiting : waiting[i] = u
      BY <1>7, <2>2 DEF LineInv
    <3> QED
      BY <1>2, <1>4, <3>1
  <2> QED
    BY <2>1, <2>2
<1>8. ASSUME NEW i \in DOMAIN waiting', NEW j \in DOMAIN waiting', i < j
      PROVE  ticket'[waiting'[i]].arrived <= ticket'[waiting'[j]].arrived
  <2>1. i \in DOMAIN waiting /\ waiting'[i] = waiting[i] /\ waiting[i] \in Tickets \ {t}
        /\ ticket'[waiting[i]] = ticket[waiting[i]]
    <3>1. i # n
      BY <1>2, <1>8 DEF n
    <3> QED
      BY <1>2, <1>3, <1>4, <3>1
  <2>2. CASE j = n
    <3>1. ticket[waiting[i]].state # "new"
      BY <2>1 DEF TicketInv, TicketSays, LineInv
    <3>2. ticket[waiting[i]].arrived <= now
      BY <2>1, <3>1 DEF TicketInv, TicketSays
    <3> QED
      BY <1>2, <2>1, <2>2, <3>2
  <2>3. CASE j # n
    <3>1. j \in DOMAIN waiting /\ waiting'[j] = waiting[j] /\ ticket'[waiting[j]] = ticket[waiting[j]]
      BY <1>2, <1>3, <1>4, <2>3
    <3> QED
      BY <1>8, <2>1, <3>1 DEF LineInv
  <2> QED
    BY <2>2, <2>3
<1> QED
  BY <1>2, <1>5, <1>6, <1>7, <1>8 DEF LineInv, n

-----------------------------------------------------------------------------
(* Every action keeps the invariant.                                        *)
LEMMA HoldersAreFinite ==
  IsFiniteSet(Holders) /\ Cardinality(Holders) \in Nat
<1>1. Holders \in SUBSET Tickets
  BY DEF Holders
<1> QED
  BY <1>1, FiniteTickets, FS_Subset, FS_CardinalityType

LEMMA PlacesAreNumbers ==
  ASSUME TypeOK
  PROVE  places \in Nat /\ inFlight \in Nat /\ Len(waiting) \in Nat
         /\ (waiting = <<>> <=> Len(waiting) = 0)
  BY FiniteTickets DEF TypeOK

(* A request that arrives takes a place, or joins the line when there is    *)
(* none.                                                                    *)
LEMMA ArriveStep ==
  ASSUME IInv, NEW t \in Tickets, Arrive(t)
  PROVE  IInv' /\ IF inFlight >= places
                  THEN /\ Cardinality(Holders) = places
                       /\ Holders' = Holders /\ waiting' = Append(waiting, t)
                  ELSE /\ Cardinality(Holders) < places
                       /\ Holders' = Holders \cup {t} /\ waiting' = waiting
<1> DEFINE waits == inFlight >= places
           new == [state |-> "open", arrived |-> now, waiting |-> waits, waited |-> 0,
                   counted |-> IF waits THEN Hour ELSE 0, process |-> process]
<1>0. TypeOK /\ TicketInv /\ LineInv /\ PlaceInv /\ HoursInv
  BY DEF IInv
<1>1. /\ ticket[t].state = "new" /\ ticket' = [ticket EXCEPT ![t] = new]
      /\ waiting' = IF waits THEN Append(waiting, t) ELSE waiting
      /\ inFlight' = inFlight + 1 /\ UNCHANGED <<places, process, now>>
  BY DEF Arrive
<1>2. Hour \in Nat \ {0} /\ Hour = HourOf(now)
  BY <1>0, CurrentHour DEF Hour
<1>3. now \in Nat /\ process \in Nat /\ waits \in BOOLEAN
  BY <1>0 DEF TypeOK
<1> HIDE DEF waits
<1>4. new \in Ticket
  BY <1>2, <1>3 DEF Ticket
<1>5. /\ new.state = "open" /\ new.arrived = now /\ new.waiting = waits /\ new.waited = 0
      /\ new.counted = (IF waits THEN Hour ELSE 0) /\ new.process = process
  OBVIOUS
<1> HIDE DEF new
<1>6. /\ ticket' \in [Tickets -> Ticket] /\ ticket'[t] = new
      /\ \A u \in Tickets \ {t} : ticket'[u] = ticket[u]
  BY <1>0, <1>1, <1>4 DEF TypeOK
<1>7. hours' \in Seq(Bucket) /\ HoursInv'
  BY <1>0, ArriveHours
<1>8. TicketInv'
  <2>1. ASSUME NEW u \in Tickets \ {t}
        PROVE  Current(u)' <=> Current(u)
    BY <1>1, <1>6 DEF Current
  <2>2. Current(t)'
    BY <1>1, <1>5, <1>6 DEF Current
  <2>3. ticket'[t].arrived + ticket'[t].waited <= now
    BY <1>3, <1>5, <1>6
  <2>4. ticket'[t].counted # 0 => ticket'[t].counted = HourOf(ticket'[t].arrived)
    BY <1>2, <1>5, <1>6
  <2>5. /\ ticket'[t].state = "open" /\ ticket'[t].arrived <= now /\ ticket'[t].process <= process
        /\ ticket'[t].waiting => ticket'[t].counted # 0
    BY <1>2, <1>3, <1>5, <1>6
  <2>6. \A u \in Tickets \ {t} : ticket'[u] = ticket[u]
    BY <1>6
  <2> QED
    BY <1>0, <1>1, <2>1, <2>2, <2>3, <2>4, <2>5, <2>6 DEF TicketInv, TicketSays
<1>9. ~ticket[t].waiting /\ t \notin Holders
  BY <1>0, <1>1 DEF TicketInv, TicketSays, Holders, Current
<1>10. \A u \in Tickets \ {t} : u \in Holders' <=> u \in Holders
  BY <1>1, <1>6 DEF Holders, Current
<1>11. t \in Holders' <=> ~waits
  BY <1>1, <1>5, <1>6 DEF Holders, Current
<1>12. Holders \subseteq Tickets /\ Holders' \subseteq Tickets
  BY DEF Holders
<1>13. /\ inFlight = Cardinality(Holders) + Len(waiting) /\ Cardinality(Holders) <= places
       /\ waiting # <<>> => Cardinality(Holders) = places
  BY <1>0 DEF PlaceInv
<1>14. inFlight' \in Nat
  BY <1>0, <1>1 DEF TypeOK
<1>15. CASE waits
  <2>1. Holders' = Holders
    BY <1>9, <1>10, <1>11, <1>12, <1>15
  <2>2. waiting' = Append(waiting, t)
    BY <1>1, <1>15
  <2>3. waiting' \in Seq(Tickets) /\ Len(waiting') = Len(waiting) + 1 /\ LineInv'
    BY <1>0, <1>1, <1>5, <1>6, <1>15, <2>2, LineGrows
  <2>4. Cardinality(Holders) = places
    BY <1>0, <1>13, <1>15, HoldersAreFinite, PlacesAreNumbers DEF waits
  <2>5. inFlight' = Cardinality(Holders') + Len(waiting')
    BY <1>0, <1>1, <1>13, <2>1, <2>3, HoldersAreFinite, PlacesAreNumbers
  <2>6. PlaceInv'
    BY <1>1, <1>13, <2>1, <2>4, <2>5 DEF PlaceInv
  <2>7. TypeOK'
    BY <1>0, <1>1, <1>6, <1>7, <1>14, <2>3 DEF TypeOK
  <2> QED
    BY <1>7, <1>8, <1>15, <2>1, <2>2, <2>3, <2>4, <2>6, <2>7 DEF IInv, waits
<1>16. CASE ~waits
  <2>1. Holders' = Holders \cup {t}
    BY <1>10, <1>11, <1>12, <1>16
  <2>2. waiting' = waiting
    BY <1>1, <1>16
  <2>3. inFlight < places
    BY <1>0, <1>16, PlacesAreNumbers DEF waits
  <2>4. Cardinality(Holders) < places /\ waiting = <<>> /\ Len(waiting) = 0
    BY <1>0, <1>13, <2>3, HoldersAreFinite, PlacesAreNumbers
  <2>5. Cardinality(Holders') = Cardinality(Holders) + 1
    BY <1>9, <2>1, HoldersAreFinite, FS_AddElement
  <2>6. PlaceInv'
    BY <1>0, <1>1, <1>13, <2>2, <2>4, <2>5, HoldersAreFinite, PlacesAreNumbers DEF PlaceInv
  <2>7. LineInv'
    <3>1. \A u \in Tickets : ~ticket'[u].waiting
      BY <1>0, <1>5, <1>6, <1>16, <2>4 DEF LineInv
    <3>2. DOMAIN waiting' = {}
      BY <2>2, <2>4
    <3> QED
      BY <3>1, <3>2 DEF LineInv
  <2>8. TypeOK'
    BY <1>0, <1>1, <1>6, <1>7, <1>14, <2>2 DEF TypeOK
  <2> QED
    BY <1>7, <1>8, <1>16, <2>1, <2>2, <2>4, <2>6, <2>7, <2>8 DEF IInv, waits
<1> QED
  BY <1>15, <1>16

(* One that the last process held leaves nothing behind.                    *)
LEMMA LeaveLateStep ==
  ASSUME IInv, NEW t \in Tickets, LeaveLate(t)
  PROVE  /\ IInv' /\ UNCHANGED <<places, Holders, waiting>>
         /\ \A u \in Tickets : ticket'[u].state = "new" <=> ticket[u].state = "new"
<1>0. TypeOK /\ TicketInv /\ LineInv /\ PlaceInv /\ HoursInv
  BY DEF IInv
<1>1. /\ ticket[t].state = "open" /\ ticket[t].process # process
      /\ ticket' = [ticket EXCEPT ![t].state = "left"]
      /\ UNCHANGED <<places, process, inFlight, waiting, hours, now>>
  BY DEF LeaveLate
<1>2. ticket[t] \in Ticket
  BY <1>0 DEF TypeOK
<1>3. /\ ticket' \in [Tickets -> Ticket] /\ ticket'[t].state = "left"
      /\ \A u \in Tickets \ {t} : ticket'[u] = ticket[u]
      /\ \A u \in Tickets : /\ ticket'[u].arrived = ticket[u].arrived
                            /\ ticket'[u].waiting = ticket[u].waiting
                            /\ ticket'[u].waited = ticket[u].waited
                            /\ ticket'[u].counted = ticket[u].counted
                            /\ ticket'[u].process = ticket[u].process
  BY <1>0, <1>1, <1>2 DEF TypeOK, Ticket
<1>4. TypeOK'
  BY <1>0, <1>1, <1>3 DEF TypeOK
<1>5. \A u \in Tickets : Current(u)' <=> Current(u)
  BY <1>1, <1>3 DEF Current
<1>6. TicketInv'
  BY <1>0, <1>1, <1>3, <1>5 DEF TicketInv, TicketSays
<1>7. LineInv'
  <2>1. \A i \in DOMAIN waiting : waiting[i] \in Tickets
    BY <1>0 DEF TypeOK
  <2> QED
    BY <1>0, <1>1, <1>3, <2>1 DEF LineInv
<1>8. Holders' = Holders
  BY <1>3, <1>5 DEF Holders
<1>9. PlaceInv'
  BY <1>0, <1>1, <1>8 DEF PlaceInv
<1>10. HoursInv'
  <2>1. hours' = WaitsEnded(hours, {})
    BY <1>1 DEF WaitsEnded
  <2>2. ASSUME NEW u \in Tickets
        PROVE  \/ ticket'[u].state = ticket[u].state
               \/ ticket[u].state = "open" /\ ticket'[u].state = "left"
    <3>1. CASE u = t
      BY <1>1, <1>3, <3>1
    <3>2. CASE u # t
      BY <1>3, <3>2
    <3> QED
      BY <3>1, <3>2
  <2>3. Settles({})
    BY <1>3, <2>2 DEF Settles
  <2> QED
    BY <1>0, <1>1, <1>3, <2>1, <2>3, WaitsSettle
<1>11. \A u \in Tickets : ticket'[u].state = "new" <=> ticket[u].state = "new"
  BY <1>1, <1>3
<1> QED
  BY <1>1, <1>4, <1>6, <1>7, <1>8, <1>9, <1>10, <1>11 DEF IInv

(* One that waits leaves the line, and no place moves.                      *)
LEMMA LeaveGivingUpStep ==
  ASSUME IInv, NEW t \in Tickets, LeaveGivingUp(t)
  PROVE  /\ IInv' /\ UNCHANGED <<places, Holders>>
         /\ \A u \in Tickets : ticket'[u].state = "new" <=> ticket[u].state = "new"
         /\ \E k \in 1..Len(waiting) :
              /\ waiting[k] = t
              /\ waiting' = SubSeq(waiting, 1, k - 1) \o SubSeq(waiting, k + 1, Len(waiting))
<1>0. TypeOK /\ TicketInv /\ LineInv /\ PlaceInv /\ HoursInv
  BY DEF IInv
<1>1. /\ Current(t) /\ ticket[t].waiting /\ inFlight' = inFlight - 1
      /\ waiting' = Without(waiting, t) /\ UNCHANGED <<places, process, now>>
  BY DEF LeaveGivingUp
<1>2. PICK k \in DOMAIN waiting : waiting[k] = t
  BY <1>0, <1>1 DEF LineInv
<1>3. waiting \in Seq(Tickets) /\ \A i, j \in DOMAIN waiting : waiting[i] = waiting[j] => i = j
  BY <1>0 DEF TypeOK, LineInv
<1>4. /\ waiting' = SubSeq(waiting, 1, k - 1) \o SubSeq(waiting, k + 1, Len(waiting))
      /\ waiting' \in Seq(Tickets) /\ Len(waiting') = Len(waiting) - 1
      /\ \A i \in 1..(Len(waiting) - 1) :
           waiting'[i] = IF i < k THEN waiting[i] ELSE waiting[i + 1]
  <2>1. waiting \in Seq(Tickets) /\ k \in DOMAIN waiting /\ waiting[k] = t
        /\ \A i, j \in DOMAIN waiting : waiting[i] = waiting[j] => i = j
    BY <1>2, <1>3
  <2>2. /\ Without(waiting, t) \in Seq(Tickets) /\ Len(Without(waiting, t)) = Len(waiting) - 1
        /\ \A i \in 1..(Len(waiting) - 1) :
             Without(waiting, t)[i] = IF i < k THEN waiting[i] ELSE waiting[i + 1]
    BY ONLY <2>1, WithoutEffect
  <2>3. (CHOOSE i \in DOMAIN waiting : waiting[i] = t) = k
    BY ONLY <2>1
  <2>4. Without(waiting, t) = SubSeq(waiting, 1, k - 1) \o SubSeq(waiting, k + 1, Len(waiting))
    BY <2>3 DEF Without
  <2> QED
    BY <1>1, <2>2, <2>4
<1>5. k \in 1..Len(waiting) /\ Len(waiting) \in Nat /\ waiting # <<>>
  BY <1>2, <1>3
<1>6. /\ ticket[t] \in Ticket /\ ticket[t].state = "open" /\ ticket[t].process = process
      /\ ticket[t].arrived <= now /\ ticket[t].arrived \in Nat /\ now \in Nat
      /\ ticket[t].arrived + ticket[t].waited <= now
  BY <1>0, <1>1 DEF TypeOK, Current, TicketInv, TicketSays, Ticket
<1>7. now - ticket[t].arrived \in Nat /\ ticket[t].arrived + (now - ticket[t].arrived) = now
  BY <1>6
<1>8. ASSUME ticket' \in [Tickets -> Ticket], ticket'[t].state \in {"left", "refused"},
             ~ticket'[t].waiting, ticket'[t].arrived = ticket[t].arrived,
             ticket'[t].counted = ticket[t].counted, ticket'[t].process = ticket[t].process,
             ticket'[t].state = "left" => ticket'[t].waited = now - ticket[t].arrived,
             \A u \in Tickets \ {t} : ticket'[u] = ticket[u],
             hours' \in Seq(Bucket), HoursInv'
      PROVE  IInv' /\ UNCHANGED <<places, Holders>>
             /\ \A u \in Tickets : ticket'[u].state = "new" <=> ticket[u].state = "new"
  <2>1. \A u \in Tickets \ {t} : Current(u)' <=> Current(u)
    BY <1>1, <1>8 DEF Current
  <2>2. Holders' = Holders
    <3>1. t \notin Holders /\ t \notin Holders'
      BY <1>1, <1>8 DEF Holders, Current
    <3>2. \A u \in Tickets \ {t} : u \in Holders' <=> u \in Holders
      BY <1>8, <2>1 DEF Holders
    <3>3. Holders \subseteq Tickets /\ Holders' \subseteq Tickets
      BY DEF Holders
    <3> QED
      BY <3>1, <3>2, <3>3
  <2>3. inFlight' = Cardinality(Holders) + Len(waiting') /\ inFlight' \in Nat
    <3>1. Cardinality(Holders) \in Nat /\ inFlight = Cardinality(Holders) + Len(waiting)
      BY <1>0, HoldersAreFinite DEF PlaceInv
    <3>2. Len(waiting') = Len(waiting) - 1 /\ Len(waiting) \in Nat \ {0}
      BY <1>3, <1>4, <1>5
    <3> QED
      BY <1>1, <3>1, <3>2
  <2>4. TypeOK'
    BY <1>0, <1>1, <1>4, <1>8, <2>3 DEF TypeOK
  <2>5. TicketInv'
    <3>1. \A u \in Tickets \ {t} : ticket'[u] = ticket[u]
      BY <1>8
    <3>2. /\ ticket'[t].state # "new" /\ ticket'[t].state # "open" /\ ~ticket'[t].waiting
          /\ ticket'[t].arrived <= now /\ ticket'[t].process <= process
          /\ ticket'[t].counted # 0 => ticket'[t].counted = HourOf(ticket'[t].arrived)
          /\ ticket'[t].state = "left" => ticket'[t].arrived + ticket'[t].waited <= now
      BY <1>0, <1>6, <1>7, <1>8 DEF TicketInv, TicketSays, TypeOK
    <3> QED
      BY <1>0, <1>1, <2>1, <3>1, <3>2 DEF TicketInv, TicketSays
  <2>6. LineInv'
    <3>1. \A u \in Tickets : /\ ticket'[u].waiting <=> ticket[u].waiting /\ u # waiting[k]
                             /\ ticket'[u].arrived = ticket[u].arrived
      BY <1>2, <1>8
    <3> QED
      BY <1>0, <1>2, <1>4, <3>1, LineShrinks
  <2>7. PlaceInv'
    BY <1>0, <1>1, <1>5, <2>2, <2>3 DEF PlaceInv
  <2>8. \A u \in Tickets : ticket'[u].state = "new" <=> ticket[u].state = "new"
    <3>1. ticket'[t].state # "new" /\ ticket[t].state # "new"
      BY <1>6, <1>8
    <3> QED
      BY <1>8, <3>1
  <2> QED
    BY <1>1, <1>8, <2>2, <2>4, <2>5, <2>6, <2>7, <2>8 DEF IInv
<1>9. CASE /\ ticket' = [ticket EXCEPT ![t].state = "refused", ![t].waiting = FALSE]
           /\ hours' = Discounted(hours, ticket[t].counted)
  <2> DEFINE own == [ticket[t] EXCEPT !.state = "refused", !.waiting = FALSE]
  <2>1. own \in Ticket /\ own.state = "refused" /\ own.waiting = FALSE
        /\ own.arrived = ticket[t].arrived /\ own.counted = ticket[t].counted
        /\ own.process = ticket[t].process
    BY <1>6 DEF Ticket
  <2>2. ticket \in [Tickets -> Ticket]
    BY <1>0 DEF TypeOK
  <2>3. ticket' = [ticket EXCEPT ![t] = own]
    BY <1>6, <1>9, <2>2 DEF Ticket
  <2> HIDE DEF own
  <2>4. ticket' \in [Tickets -> Ticket] /\ ticket'[t] = own
        /\ \A u \in Tickets \ {t} : ticket'[u] = ticket[u]
    BY <2>1, <2>2, <2>3
  <2>5. hours' \in Seq(Bucket) /\ HoursInv'
    BY <1>0, <1>1, <1>9, RefusalHours
  <2>6. IInv' /\ UNCHANGED <<places, Holders>>
        /\ \A u \in Tickets : ticket'[u].state = "new" <=> ticket[u].state = "new"
    BY <1>8, <2>1, <2>4, <2>5
  <2> QED
    BY <1>2, <1>4, <1>5, <2>6
<1>10. CASE /\ ticket' = [ticket EXCEPT ![t] = [WaitOver(t) EXCEPT !.state = "left"]]
            /\ hours' = WaitsEnded(hours, {t})
  <2> DEFINE own == [WaitOver(t) EXCEPT !.state = "left"]
  <2>1. own \in Ticket /\ own.state = "left" /\ own.waiting = FALSE
        /\ own.arrived = ticket[t].arrived /\ own.counted = ticket[t].counted
        /\ own.process = ticket[t].process /\ own.waited = now - ticket[t].arrived
    BY <1>6, <1>7 DEF Ticket, WaitOver
  <2>2. ticket \in [Tickets -> Ticket]
    BY <1>0 DEF TypeOK
  <2>3. ticket' = [ticket EXCEPT ![t] = own]
    BY <1>10
  <2> HIDE DEF own
  <2>4. ticket' \in [Tickets -> Ticket] /\ ticket'[t] = own
        /\ \A u \in Tickets \ {t} : ticket'[u] = ticket[u]
    BY <2>1, <2>2, <2>3
  <2>5. hours' \in Seq(Bucket) /\ HoursInv'
    <3>1. \A u \in {t} : /\ ticket[u].state = "open" /\ ticket'[u].state \in {"open", "left"}
                         /\ ticket'[u].waited = now - ticket[u].arrived
      BY <1>6, <2>1, <2>4
    <3>2. \A u \in Tickets : /\ ticket'[u].arrived = ticket[u].arrived
                             /\ ticket'[u].counted = ticket[u].counted
      BY <2>1, <2>4
    <3>3. Settles({t})
      BY <2>4, <3>1, <3>2 DEF Settles
    <3> QED
      BY <1>0, <1>1, <1>10, <2>4, <3>3, WaitsSettle
  <2>6. IInv' /\ UNCHANGED <<places, Holders>>
        /\ \A u \in Tickets : ticket'[u].state = "new" <=> ticket[u].state = "new"
    BY <1>8, <2>1, <2>4, <2>5
  <2> QED
    BY <1>2, <1>4, <1>5, <2>6
<1> QED
  BY <1>9, <1>10 DEF LeaveGivingUp

(* One that held a place gives it to the first of the line.                 *)
LEMMA LeaveGivingBackStep ==
  ASSUME IInv, NEW t \in Tickets, LeaveGivingBack(t)
  PROVE  /\ IInv' /\ places' = places /\ t \in Holders
         /\ \A u \in Tickets : ticket'[u].state = "new" <=> ticket[u].state = "new"
         /\ IF waiting = <<>>
            THEN Holders' = Holders \ {t} /\ waiting' = waiting
            ELSE Holders' = (Holders \ {t}) \cup {Head(waiting)} /\ waiting' = Tail(waiting)
<1>0. TypeOK /\ TicketInv /\ LineInv /\ PlaceInv /\ HoursInv
  BY DEF IInv
<1>1. /\ Current(t) /\ ~ticket[t].waiting /\ inFlight' = inFlight - 1
      /\ UNCHANGED <<places, process, now>>
  BY DEF LeaveGivingBack
<1>2. t \in Holders
  BY <1>1 DEF Holders
<1>3. /\ ticket \in [Tickets -> Ticket] /\ ticket[t] \in Ticket /\ ticket[t].state = "open"
      /\ waiting \in Seq(Tickets) /\ now \in Nat
  BY <1>0, <1>1 DEF TypeOK, Current
<1>4. /\ inFlight = Cardinality(Holders) + Len(waiting) /\ Cardinality(Holders) <= places
      /\ waiting # <<>> => Cardinality(Holders) = places
  BY <1>0 DEF PlaceInv
<1>5. Cardinality(Holders) # 0 /\ Cardinality(Holders \ {t}) = Cardinality(Holders) - 1
      /\ IsFiniteSet(Holders \ {t})
  BY <1>2, HoldersAreFinite, FS_RemoveElement, FS_EmptySet
<1>6. inFlight' \in Nat
  BY <1>0, <1>1, <1>4, <1>5, HoldersAreFinite, PlacesAreNumbers
<1>7. CASE waiting = <<>>
  <2>1. ticket' = [ticket EXCEPT ![t].state = "left"] /\ UNCHANGED <<waiting, hours>>
    BY <1>7 DEF LeaveGivingBack
  <2>2. /\ ticket' \in [Tickets -> Ticket] /\ ticket'[t].state = "left"
        /\ \A u \in Tickets \ {t} : ticket'[u] = ticket[u]
        /\ \A u \in Tickets : /\ ticket'[u].arrived = ticket[u].arrived
                              /\ ticket'[u].waiting = ticket[u].waiting
                              /\ ticket'[u].waited = ticket[u].waited
                              /\ ticket'[u].counted = ticket[u].counted
                              /\ ticket'[u].process = ticket[u].process
    BY <1>3, <2>1 DEF Ticket
  <2>3. TypeOK'
    BY <1>0, <1>1, <1>6, <2>1, <2>2 DEF TypeOK
  <2>4. \A u \in Tickets \ {t} : Current(u)' <=> Current(u)
    BY <1>1, <2>2 DEF Current
  <2>5. TicketInv'
    <3>1. /\ ticket'[t].state = "left" /\ ~ticket'[t].waiting
          /\ ticket'[t].arrived <= now /\ ticket'[t].process <= process
          /\ ticket'[t].counted # 0 => ticket'[t].counted = HourOf(ticket'[t].arrived)
          /\ ticket'[t].arrived + ticket'[t].waited <= now
      BY <1>0, <1>1, <1>3, <2>2 DEF TicketInv, TicketSays
    <3>2. ASSUME NEW u \in Tickets \ {t}
          PROVE  TicketSays(u)'
      <4>1. ticket'[u] = ticket[u] /\ (Current(u)' <=> Current(u)) /\ TicketSays(u)
        BY <1>0, <2>2, <2>4 DEF TicketInv
      <4> QED
        BY <1>1, <4>1 DEF TicketSays
    <3>3. TicketSays(t)'
      BY <1>1, <3>1 DEF TicketSays
    <3> QED
      BY <3>2, <3>3 DEF TicketInv
  <2>6. LineInv'
    <3>1. \A i \in DOMAIN waiting : waiting[i] \in Tickets
      BY <1>3
    <3> QED
      BY <1>0, <2>1, <2>2, <3>1 DEF LineInv
  <2>7. Holders' = Holders \ {t}
    <3>1. t \notin Holders'
      BY <2>2 DEF Holders, Current
    <3>2. \A u \in Tickets \ {t} : u \in Holders' <=> u \in Holders
      BY <2>2, <2>4 DEF Holders
    <3>3. Holders \subseteq Tickets /\ Holders' \subseteq Tickets
      BY DEF Holders
    <3> QED
      BY <3>1, <3>2, <3>3
  <2>8. PlaceInv'
    BY <1>0, <1>1, <1>4, <1>5, <1>7, <2>1, <2>7, HoldersAreFinite, PlacesAreNumbers DEF PlaceInv
  <2>9. HoursInv'
    <3>1. hours' = WaitsEnded(hours, {})
      BY <2>1 DEF WaitsEnded
    <3>2. ASSUME NEW u \in Tickets
          PROVE  \/ ticket'[u].state = ticket[u].state
                 \/ ticket[u].state = "open" /\ ticket'[u].state = "left"
      <4>1. CASE u = t
        BY <1>3, <2>2, <4>1
      <4>2. CASE u # t
        BY <2>2, <4>2
      <4> QED
        BY <4>1, <4>2
    <3>3. Settles({})
      BY <2>2, <3>2 DEF Settles
    <3> QED
      BY <1>0, <1>1, <2>2, <3>1, <3>3, WaitsSettle
  <2>10. \A u \in Tickets : ticket'[u].state = "new" <=> ticket[u].state = "new"
    BY <1>3, <2>2
  <2> QED
    BY <1>1, <1>2, <1>7, <2>1, <2>3, <2>5, <2>6, <2>7, <2>8, <2>9, <2>10 DEF IInv
<1>8. CASE waiting # <<>>
  <2> DEFINE next == Head(waiting)
             over == WaitOver(next)
             gone == [ticket[t] EXCEPT !.state = "left"]
  <2>1. /\ ticket' = [ticket EXCEPT ![t].state = "left", ![next] = over]
        /\ waiting' = Tail(waiting) /\ hours' = WaitsEnded(hours, {next})
    BY <1>8 DEF LeaveGivingBack
  <2>2. /\ next = waiting[1] /\ 1 \in DOMAIN waiting /\ next \in Tickets
        /\ Len(waiting) \in Nat \ {0}
    BY <1>3, <1>8
  <2>3. ticket[next].waiting /\ next # t
    BY <1>0, <1>1, <2>2 DEF LineInv
  <2> HIDE DEF next
  <2>4. /\ ticket[next] \in Ticket /\ ticket[next].state = "open" /\ ticket[next].process = process
        /\ ticket[next].arrived <= now /\ ticket[next].arrived \in Nat
    BY <1>0, <1>3, <2>2, <2>3 DEF Current, TicketInv, TicketSays, Ticket
  <2>5. now - ticket[next].arrived \in Nat
        /\ ticket[next].arrived + (now - ticket[next].arrived) = now
    BY <1>3, <2>4
  <2>6. over \in Ticket /\ over.state = "open" /\ over.waiting = FALSE
        /\ over.arrived = ticket[next].arrived /\ over.counted = ticket[next].counted
        /\ over.process = ticket[next].process /\ over.waited = now - ticket[next].arrived
    BY <2>4, <2>5 DEF Ticket, WaitOver
  <2>7. gone \in Ticket /\ gone.state = "left" /\ gone.waiting = ticket[t].waiting
        /\ gone.arrived = ticket[t].arrived /\ gone.counted = ticket[t].counted
        /\ gone.process = ticket[t].process /\ gone.waited = ticket[t].waited
    BY <1>3 DEF Ticket
  <2>8. ticket' = [ticket EXCEPT ![t] = gone, ![next] = over]
    BY <2>1
  <2> HIDE DEF over, gone
  <2>9. /\ ticket' \in [Tickets -> Ticket] /\ ticket'[t] = gone /\ ticket'[next] = over
        /\ \A u \in Tickets \ {t, next} : ticket'[u] = ticket[u]
    BY <1>3, <2>2, <2>3, <2>6, <2>7, <2>8
  <2>10. \A u \in Tickets : /\ ticket'[u].arrived = ticket[u].arrived
                            /\ ticket'[u].counted = ticket[u].counted
                            /\ ticket'[u].process = ticket[u].process
                            /\ ticket'[u].waiting <=> ticket[u].waiting /\ u # next
    BY <2>3, <2>6, <2>7, <2>9
  <2>11. /\ waiting' \in Seq(Tickets) /\ Len(waiting') = Len(waiting) - 1
         /\ \A i \in 1..(Len(waiting) - 1) : waiting'[i] = waiting[i + 1]
    BY <1>3, <1>8, <2>1
  <2>12. LineInv'
    <3>1. \A i \in 1..(Len(waiting) - 1) :
            waiting'[i] = IF i < 1 THEN waiting[i] ELSE waiting[i + 1]
      BY <2>11
    <3>2. \A u \in Tickets : /\ ticket'[u].waiting <=> ticket[u].waiting /\ u # waiting[1]
                             /\ ticket'[u].arrived = ticket[u].arrived
      BY <2>2, <2>10
    <3> QED
      BY <1>0, <2>2, <2>11, <3>1, <3>2, LineShrinks
  <2>13. hours' \in Seq(Bucket) /\ HoursInv'
    <3>1. \A u \in {next} : /\ ticket[u].state = "open" /\ ticket'[u].state \in {"open", "left"}
                            /\ ticket'[u].waited = now - ticket[u].arrived
      BY <2>4, <2>6, <2>9
    <3>2. ASSUME NEW u \in Tickets \ {next}
          PROVE  /\ \/ ticket'[u].state = ticket[u].state
                    \/ ticket[u].state = "open" /\ ticket'[u].state = "left"
                 /\ ticket'[u].waiting = ticket[u].waiting /\ ticket'[u].waited = ticket[u].waited
      <4>1. CASE u = t
        BY <1>3, <2>3, <2>7, <2>9, <4>1
      <4>2. CASE u # t
        <5>1. ticket'[u] = ticket[u]
          BY <2>9, <4>2
        <5> QED
          BY <5>1
      <4> QED
        BY <4>1, <4>2
    <3>3. Settles({next})
      BY <2>10, <3>1, <3>2 DEF Settles
    <3> QED
      BY <1>0, <1>1, <2>1, <2>2, <2>9, <3>3, WaitsSettle
  <2>14. TypeOK'
    BY <1>0, <1>1, <1>6, <2>9, <2>11, <2>13 DEF TypeOK
  <2>15. \A u \in Tickets \ {t} : Current(u)' <=> Current(u)
    BY <1>1, <2>4, <2>6, <2>9 DEF Current
  <2>16. TicketInv'
    <3>1. ticket'[next].state = "open" /\ ~ticket'[next].waiting
          /\ ticket'[next].arrived + ticket'[next].waited <= now
      BY <1>3, <2>4, <2>5, <2>6, <2>9
    <3>2. ticket'[t].state = "left" /\ ~ticket'[t].waiting
          /\ ticket'[t].arrived + ticket'[t].waited <= now
      BY <1>0, <1>1, <1>3, <2>7, <2>9 DEF TicketInv, TicketSays
    <3>3. ticket[t].state # "new" /\ ticket[next].state # "new"
      BY <1>3, <2>4
    <3> QED
      BY <1>0, <1>1, <2>9, <2>10, <2>15, <3>1, <3>2, <3>3 DEF TicketInv, TicketSays
  <2>17. Holders' = (Holders \ {t}) \cup {next}
    <3>1. t \notin Holders'
      BY <2>7, <2>9 DEF Holders, Current
    <3>2. next \in Holders'
      BY <1>1, <2>2, <2>4, <2>6, <2>9 DEF Holders, Current
    <3>3. \A u \in Tickets \ {t, next} : u \in Holders' <=> u \in Holders
      BY <2>9, <2>15 DEF Holders
    <3>4. Holders \subseteq Tickets /\ Holders' \subseteq Tickets
      BY DEF Holders
    <3> QED
      BY <2>3, <3>1, <3>2, <3>3, <3>4
  <2>18. Cardinality(Holders') = Cardinality(Holders)
    <3>1. next \notin Holders \ {t}
      BY <2>3 DEF Holders
    <3>2. Cardinality((Holders \ {t}) \cup {next}) = Cardinality(Holders \ {t}) + 1
      BY <1>5, <3>1, FS_AddElement
    <3>3. Cardinality(Holders) \in Nat
      BY HoldersAreFinite
    <3> QED
      BY <1>5, <2>17, <3>2, <3>3
  <2>19. PlaceInv'
    BY <1>0, <1>1, <1>4, <1>8, <2>2, <2>11, <2>18, HoldersAreFinite, PlacesAreNumbers DEF PlaceInv
  <2>20. \A u \in Tickets : ticket'[u].state = "new" <=> ticket[u].state = "new"
    BY <1>3, <2>4, <2>6, <2>7, <2>9
  <2> QED
    BY <1>1, <1>2, <1>8, <2>1, <2>12, <2>13, <2>14, <2>16, <2>17, <2>19, <2>20 DEF IInv, next
<1> QED
  BY <1>7, <1>8

(* A new process starts with nobody, and every wait is over.                *)
LEMMA RestartStep ==
  ASSUME IInv, Restart
  PROVE  /\ IInv' /\ places' \in 1..MaxPlaces /\ Holders' = {} /\ waiting' = <<>>
         /\ \A u \in Tickets : ticket'[u].state = "new" <=> ticket[u].state = "new"
<1> DEFINE ended == {waiting[i] : i \in DOMAIN waiting}
<1>0. TypeOK /\ TicketInv /\ LineInv /\ PlaceInv /\ HoursInv
  BY DEF IInv
<1>1. /\ ticket' = [t \in Tickets |-> IF t \in ended THEN WaitOver(t) ELSE ticket[t]]
      /\ hours' = WaitsEnded(hours, ended)
      /\ waiting' = <<>> /\ inFlight' = 0 /\ process' = process + 1
      /\ places' \in 1..MaxPlaces /\ now' = now
  BY DEF Restart
<1>2. ended \in SUBSET Tickets /\ \A u \in Tickets : u \in ended <=> ticket[u].waiting
  BY <1>0 DEF TypeOK, LineInv
<1> HIDE DEF ended
<1>3. now \in Nat /\ process \in Nat
  BY <1>0 DEF TypeOK
<1>4. ASSUME NEW u \in Tickets
      PROVE  /\ ticket'[u] \in Ticket /\ ~ticket'[u].waiting
             /\ ticket'[u].state = ticket[u].state
             /\ ticket'[u].arrived = ticket[u].arrived /\ ticket'[u].counted = ticket[u].counted
             /\ ticket'[u].process = ticket[u].process
             /\ u \in ended => /\ ticket[u].state = "open"
                               /\ ticket'[u].waited = now - ticket[u].arrived
             /\ u \notin ended => /\ ticket'[u].waiting = ticket[u].waiting
                                  /\ ticket'[u].waited = ticket[u].waited
  <2>1. ticket[u] \in Ticket
    BY <1>0 DEF TypeOK
  <2>2. CASE u \in ended
    <3>1. ticket'[u] = WaitOver(u)
      BY <1>1, <2>2
    <3>2. ticket[u].waiting /\ ticket[u].state = "open" /\ ticket[u].arrived <= now
      BY <1>0, <1>2, <2>2 DEF TicketInv, TicketSays, Current
    <3>3. now - ticket[u].arrived \in Nat
      BY <1>3, <2>1, <3>2 DEF Ticket
    <3> QED
      BY <2>1, <2>2, <3>1, <3>2, <3>3 DEF WaitOver, Ticket
  <2>3. CASE u \notin ended
    <3>1. ticket'[u] = ticket[u] /\ ~ticket[u].waiting
      BY <1>1, <1>2, <2>3
    <3> QED
      BY <2>1, <2>3, <3>1
  <2> QED
    BY <2>2, <2>3
<1>5. ticket' \in [Tickets -> Ticket]
  <2>1. ticket' = [u \in Tickets |-> ticket'[u]]
    BY <1>1
  <2> QED
    BY <1>4, <2>1
<1>6. \A u \in Tickets : ~Current(u)'
  <2>1. ASSUME NEW u \in Tickets, ticket[u].state = "open"
        PROVE  ticket[u].process # process + 1
    <3>1. ticket[u].process <= process /\ ticket[u].process \in Nat
      BY <1>0, <2>1 DEF TicketInv, TicketSays, TypeOK, Ticket
    <3> QED
      BY <1>3, <3>1
  <2> QED
    BY <1>1, <1>4, <2>1 DEF Current
<1>7. Holders' = {}
  BY <1>6 DEF Holders
<1>8. hours' \in Seq(Bucket) /\ HoursInv'
  <2>1. Settles(ended)
    BY <1>4 DEF Settles
  <2> QED
    BY <1>0, <1>1, <1>2, <1>5, <2>1, WaitsSettle
<1>9. TypeOK'
  <2>1. waiting' \in Seq(Tickets)
    BY <1>1
  <2> QED
    BY <1>1, <1>3, <1>5, <1>8, <2>1 DEF TypeOK
<1>10. TicketInv'
  <2>1. ASSUME NEW u \in Tickets
        PROVE  TicketSays(u)'
    <3>1. TicketSays(u) /\ ticket[u].arrived \in Nat /\ ticket[u].process \in Nat
      BY <1>0 DEF TicketInv, TypeOK, Ticket
    <3>2. ticket[u].state # "new" => ticket'[u].arrived <= now' /\ ticket'[u].process <= process'
      BY <1>1, <1>3, <1>4, <3>1 DEF TicketSays
    <3>3. ticket[u].state \in {"open", "left"} => ticket'[u].arrived + ticket'[u].waited <= now'
      <4>1. CASE u \in ended
        BY <1>1, <1>3, <1>4, <3>1, <4>1
      <4>2. CASE u \notin ended
        BY <1>1, <1>4, <3>1, <4>2 DEF TicketSays
      <4> QED
        BY <4>1, <4>2
    <3>4. /\ ticket[u].state = "new" => ticket'[u].counted = 0
          /\ ticket'[u].counted # 0 => ticket'[u].counted = HourOf(ticket'[u].arrived)
      BY <1>4, <3>1 DEF TicketSays
    <3> QED
      BY <1>4, <3>2, <3>3, <3>4 DEF TicketSays
  <2> QED
    BY <2>1 DEF TicketInv
<1>11. LineInv'
  <2>1. DOMAIN waiting' = {}
    BY <1>1
  <2> QED
    BY <1>4, <2>1 DEF LineInv
<1>12. PlaceInv'
  <2>1. Cardinality(Holders') = 0 /\ Len(waiting') = 0
    BY <1>1, <1>7, FS_EmptySet
  <2>2. places' \in Nat
    BY <1>1, FiniteTickets
  <2> QED
    BY <1>1, <2>1, <2>2 DEF PlaceInv
<1> QED
  BY <1>1, <1>4, <1>7, <1>8, <1>9, <1>10, <1>11, <1>12 DEF IInv

(* The clock, and what last_day renews, touch no ticket.                    *)
LEMMA OthersStep ==
  ASSUME IInv, LastDay \/ Tick \/ UNCHANGED vars
  PROVE  IInv' /\ UNCHANGED <<places, Holders, waiting, ticket>>
<1>0. TypeOK /\ TicketInv /\ LineInv /\ PlaceInv /\ HoursInv
  BY DEF IInv
<1>1. UNCHANGED <<places, process, inFlight, waiting, ticket>>
  BY DEF LastDay, Tick, vars
<1>2. now \in Nat /\ now' \in Nat /\ now <= now'
  BY <1>0 DEF TypeOK, LastDay, Tick, vars
<1>3. hours' \in Seq(Bucket) /\ HoursInv'
  <2>1. CASE LastDay
    BY <1>0, <2>1, LastDayHours
  <2>2. CASE Tick
    BY <1>0, <2>2, TickHours DEF Tick, TypeOK
  <2>3. CASE UNCHANGED vars
    BY <1>0, <2>3 DEF vars, TypeOK, HoursInv, InOrder, CountInv, WaitInv, Hour, IsKept,
       Queued, Waited, EndedIn
  <2> QED
    BY <2>1, <2>2, <2>3
<1>4. TypeOK'
  BY <1>0, <1>1, <1>2, <1>3 DEF TypeOK
<1>5. Holders' = Holders /\ \A u \in Tickets : Current(u)' <=> Current(u)
  BY <1>1 DEF Holders, Current
<1>6. TicketInv'
  <2>1. ASSUME NEW u \in Tickets
        PROVE  TicketSays(u)'
    <3>1. TicketSays(u) /\ ticket[u] \in Ticket
      BY <1>0 DEF TicketInv, TypeOK
    <3>2. ticket[u].arrived \in Nat /\ ticket[u].waited \in Nat
      BY <3>1 DEF Ticket
    <3>3. /\ ticket[u].arrived <= now => ticket[u].arrived <= now'
          /\ ticket[u].arrived + ticket[u].waited <= now
               => ticket[u].arrived + ticket[u].waited <= now'
      BY <1>2, <3>2
    <3> QED
      BY <1>1, <1>5, <3>1, <3>3 DEF TicketSays
  <2> QED
    BY <2>1 DEF TicketInv
<1>7. LineInv'
  BY <1>0, <1>1 DEF LineInv
<1>8. PlaceInv'
  BY <1>0, <1>1, <1>5 DEF PlaceInv
<1> QED
  BY <1>1, <1>3, <1>4, <1>5, <1>6, <1>7, <1>8 DEF IInv

LEMMA InitiallyInv == Init => IInv /\ Holders = {}
<1> SUFFICES ASSUME Init PROVE IInv /\ Holders = {}
  OBVIOUS
<1>1. /\ places \in 1..MaxPlaces /\ process = 0 /\ inFlight = 0 /\ waiting = <<>>
      /\ hours = <<>> /\ now = 0
      /\ ticket = [t \in Tickets |-> [state |-> "new", arrived |-> 0, waiting |-> FALSE,
                                      waited |-> 0, counted |-> 0, process |-> 0]]
  BY DEF Init
<1>2. \A t \in Tickets : /\ ticket[t] \in Ticket /\ ticket[t].state = "new"
                         /\ ~ticket[t].waiting /\ ticket[t].counted = 0
  BY <1>1 DEF Ticket
<1>3. TypeOK
  BY <1>1, <1>2 DEF TypeOK
<1>4. TicketInv
  BY <1>2 DEF TicketInv, TicketSays
<1>5. DOMAIN waiting = {} /\ DOMAIN hours = {} /\ Len(waiting) = 0
  BY <1>1
<1>6. LineInv
  BY <1>2, <1>5 DEF LineInv
<1>7. Holders = {}
  BY <1>2 DEF Holders, Current
<1>8. PlaceInv
  BY <1>1, <1>5, <1>7, FS_EmptySet, FiniteTickets DEF PlaceInv
<1>9. HoursInv
  BY <1>2, <1>5 DEF HoursInv, InOrder, CountInv, WaitInv, Waited
<1> QED
  BY <1>3, <1>4, <1>6, <1>7, <1>8, <1>9 DEF IInv

LEMMA EveryStep == IInv /\ [Next]_vars => IInv'
<1> SUFFICES ASSUME IInv, [Next]_vars PROVE IInv'
  OBVIOUS
<1>1. CASE \E t \in Tickets : Arrive(t) \/ Leave(t)
  BY <1>1, ArriveStep, LeaveLateStep, LeaveGivingUpStep, LeaveGivingBackStep DEF Leave
<1>2. CASE Restart
  BY <1>2, RestartStep
<1>3. CASE LastDay \/ Tick \/ UNCHANGED vars
  BY <1>3, OthersStep
<1>4. CASE AllDone
  BY <1>4, OthersStep DEF AllDone
<1> QED
  BY <1>1, <1>2, <1>3, <1>4 DEF Next

(* The count of the places taken, the line and the hours are always what    *)
(* the tickets amount to: nobody waits beside a free place, nobody is in    *)
(* the line twice, and every hour counts those queued in it.                *)
THEOREM InvariantHolds == Spec => []IInv
<1>1. Init => IInv
  BY InitiallyInv
<1>2. IInv /\ [Next]_vars => IInv'
  BY EveryStep
<1> QED
  BY <1>1, <1>2, PTL DEF Spec

-----------------------------------------------------------------------------
(* The requests of some hours, one hour after the other.                    *)
LEMMA QueuedInCounts ==
  ASSUME NEW k \in Seq(Bucket), NEW of,
         \A i, j \in DOMAIN k : k[i].hour = k[j].hour => i = j,
         \A i \in DOMAIN k : k[i].queued = Cardinality(Queued(of, k[i].hour))
  PROVE  QueuedIn(k) = Cardinality(UNION {Queued(of, k[i].hour) : i \in DOMAIN k})
<1> DEFINE Of(i) == Queued(of, k[i].hour)
           P == UNION {{i} \X (1..k[i].queued) : i \in DOMAIN k}
           E == UNION {Of(i) : i \in DOMAIN k}
           G == [i \in DOMAIN k |-> CHOOSE g : g \in Bijection(1..k[i].queued, Of(i))]
           f == [p \in P |-> G[p[1]][p[2]]]
<1>1. ASSUME NEW i \in DOMAIN k
      PROVE  G[i] \in Bijection(1..k[i].queued, Of(i))
  <2>1. ExistsBijection(1..Cardinality(Of(i)), Of(i))
    BY QueuedAreFinite, FS_CardinalityType
  <2>2. \E g : g \in Bijection(1..k[i].queued, Of(i))
    BY <2>1 DEF ExistsBijection
  <2> QED
    BY <2>2
<1>2. ASSUME NEW i \in DOMAIN k
      PROVE  /\ G[i] \in [1..k[i].queued -> Of(i)]
             /\ \A m, n \in 1..k[i].queued : G[i][m] = G[i][n] => m = n
             /\ \A t \in Of(i) : \E n \in 1..k[i].queued : G[i][n] = t
  <2> DEFINE S == 1..k[i].queued
             g == G[i]
             T == Of(i)
  <2>1. g \in Bijection(S, T)
    BY <1>1
  <2> HIDE DEF S, g, T
  <2>2. g \in [S -> T] /\ (\A m, n \in S : g[m] = g[n] => m = n) /\ \A t \in T : \E n \in S : g[n] = t
    BY <2>1 DEF Bijection, Injection, Surjection, IsInjective
  <2> QED
    BY <2>2 DEF S, g, T
<1>3. \A i, j \in DOMAIN k : \A t : t \in Of(i) /\ t \in Of(j) => i = j
  BY DEF Queued
<1>4. \A p \in P : p[1] \in DOMAIN k /\ p[2] \in 1..k[p[1]].queued /\ p = <<p[1], p[2]>>
  OBVIOUS
<1>5. \A i \in DOMAIN k : \A n \in 1..k[i].queued : <<i, n>> \in P
  OBVIOUS
<1>6. IsFiniteSet(E)
  <2>1. E \in SUBSET Tickets
    BY DEF Queued
  <2> QED
    BY <2>1, FiniteTickets, FS_Subset
<1>7. \A i \in DOMAIN k : Of(i) \subseteq E
  OBVIOUS
<1>8. \A t \in E : \E i \in DOMAIN k : t \in Of(i)
  OBVIOUS
<1> HIDE DEF P, E, G, Of
<1>9. f \in [P -> E]
  <2>1. ASSUME NEW p \in P
        PROVE  G[p[1]][p[2]] \in E
    <3>1. p[1] \in DOMAIN k /\ p[2] \in 1..k[p[1]].queued
      BY <1>4
    <3>2. G[p[1]] \in [1..k[p[1]].queued -> Of(p[1])]
      BY ONLY <1>2, <3>1
    <3>3. G[p[1]][p[2]] \in Of(p[1])
      BY ONLY <3>1, <3>2
    <3> QED
      BY <1>7, <3>1, <3>3
  <2> QED
    BY <2>1
<1>10. ASSUME NEW p \in P, NEW q \in P, f[p] = f[q]
       PROVE  p = q
  <2>1. /\ f[p] = G[p[1]][p[2]] /\ f[q] = G[q[1]][q[2]]
        /\ G[p[1]][p[2]] \in Of(p[1]) /\ G[q[1]][q[2]] \in Of(q[1])
    <3>1. \A r \in P : G[r[1]][r[2]] \in Of(r[1])
      <4>1. ASSUME NEW r \in P
            PROVE  G[r[1]][r[2]] \in Of(r[1])
        <5>1. r[1] \in DOMAIN k /\ r[2] \in 1..k[r[1]].queued
          BY <1>4
        <5>2. G[r[1]] \in [1..k[r[1]].queued -> Of(r[1])]
          BY ONLY <1>2, <5>1
        <5> QED
          BY ONLY <5>1, <5>2
      <4> QED
        BY <4>1
    <3>2. f[p] = G[p[1]][p[2]] /\ f[q] = G[q[1]][q[2]]
      BY DEF f
    <3> QED
      BY <3>1, <3>2
  <2>2. p[1] = q[1]
    BY <1>3, <1>4, <1>10, <2>1
  <2>3. p[2] = q[2]
    BY <1>2, <1>4, <1>10, <2>1, <2>2
  <2> QED
    BY <1>4, <2>2, <2>3
<1>11. ASSUME NEW t \in E
       PROVE  \E p \in P : f[p] = t
  <2>1. PICK i \in DOMAIN k : t \in Of(i)
    BY <1>8
  <2>2. PICK n \in 1..k[i].queued : G[i][n] = t
    BY <1>2, <2>1
  <2>3. <<i, n>> \in P /\ f[<<i, n>>] = G[i][n]
    BY <1>5
  <2> QED
    BY <2>2, <2>3
<1> HIDE DEF f
<1>12. f \in Bijection(P, E)
  BY <1>9, <1>10, <1>11 DEF Bijection, Injection, Surjection, IsInjective
<1>13. ExistsBijection(E, P)
  BY <1>12, Fun_ExistsBijSymmetric DEF ExistsBijection
<1>14. Cardinality(P) = Cardinality(E)
  BY <1>6, <1>13, FS_Bijection
<1> QED
  BY <1>14 DEF QueuedIn, P, E, Of

(* What last_day says of the requests queued is exact: those counted in an  *)
(* hour that is kept, less the ones refused, whatever restarts, departures  *)
(* and forgotten hours came between.                                        *)
LEMMA LastDayFollows == IInv => LastDayIsExact
<1> SUFFICES ASSUME IInv PROVE LastDayIsExact
  OBVIOUS
<1> DEFINE k == ThisHour(hours)
           E == {t \in Tickets :
                   /\ ticket[t].counted # 0 /\ ticket[t].counted + HoursKept > Hour
                   /\ ticket[t].state \notin {"new", "refused"}}
<1>1. TypeOK /\ InOrder(hours) /\ CountInv(hours)
  BY DEF IInv, HoursInv
<1>2. Renewed(hours, k) /\ \A j \in DOMAIN k : IsKept(k[j].hour)
  BY <1>1, ThisHourEffect DEF TypeOK
<1> HIDE DEF k
<1>3. CountInv(k)
  BY <1>1, <1>2, RenewedCounts DEF TypeOK
<1>4. k \in Seq(Bucket) /\ InOrder(k)
  BY <1>2 DEF Renewed
<1>5. \A i, j \in DOMAIN k : k[i].hour = k[j].hour => i = j
  <2>1. DOMAIN k = 1..Len(k) /\ Len(k) \in Nat /\ \A i \in DOMAIN k : k[i] \in Bucket
    BY <1>4
  <2>2. \A i \in DOMAIN k : k[i].hour \in Nat
    BY <2>1 DEF Bucket
  <2>3. \A i, j \in DOMAIN k : i < j => k[i].hour < k[j].hour
    BY <1>4 DEF InOrder
  <2>4. \A i, j \in DOMAIN k : i < j \/ j < i \/ i = j
    BY <2>1
  <2> QED
    BY <2>2, <2>3, <2>4
<1>6. UNION {Queued(ticket, k[i].hour) : i \in DOMAIN k} = E
  <2>1. ASSUME NEW i \in DOMAIN k, NEW t \in Queued(ticket, k[i].hour)
        PROVE  t \in E
    BY <1>2, <1>3 DEF Queued, CountInv, IsKept
  <2>2. ASSUME NEW t \in E
        PROVE  \E i \in DOMAIN k : t \in Queued(ticket, k[i].hour)
    <3>1. PICK i \in DOMAIN k : k[i].hour = ticket[t].counted
      BY <1>3 DEF CountInv, IsKept
    <3> QED
      BY <3>1 DEF Queued
  <2> QED
    BY <2>1, <2>2
<1>7. QueuedIn(k) = Cardinality(UNION {Queued(ticket, k[i].hour) : i \in DOMAIN k})
  <2>1. \A i \in DOMAIN k : k[i].queued = Cardinality(Queued(ticket, k[i].hour))
    BY <1>3 DEF CountInv
  <2>2. k \in Seq(Bucket)
    BY <1>4
  <2> QED
    BY ONLY <1>5, <2>1, <2>2, QueuedInCounts
<1> QED
  BY <1>6, <1>7 DEF LastDayIsExact, k

THEOREM LastDayHolds == Spec => []LastDayIsExact
  BY InvariantHolds, LastDayFollows, PTL

(* The longest wait that last_day says covers every wait that ended in an   *)
(* hour that is kept, and every wait that goes on, though it looks at the   *)
(* first of the line alone: the line is in the order of arrival.            *)
LEMMA LongestFollows == IInv => LongestCoversEveryWait
<1> SUFFICES ASSUME IInv PROVE LongestCoversEveryWait
  OBVIOUS
<1> DEFINE k == ThisHour(hours)
           first == {waiting[i] : i \in {1} \cap DOMAIN waiting}
           S == {0} \cup {k[i].longest : i \in DOMAIN k}
                    \cup {now - ticket[t].arrived : t \in first}
           longest == Longest(k)
<1>1. TypeOK /\ TicketInv /\ LineInv /\ InOrder(hours) /\ CountInv(hours) /\ WaitInv(hours)
  BY DEF IInv, HoursInv
<1>2. Renewed(hours, k)
  BY <1>1, ThisHourEffect DEF TypeOK
<1>3. now \in Nat /\ waiting \in Seq(Tickets) /\ DOMAIN waiting = 1..Len(waiting)
      /\ Len(waiting) \in Nat /\ ticket \in [Tickets -> Ticket]
  BY <1>1 DEF TypeOK
<1> HIDE DEF k
<1>4. k \in Seq(Bucket) /\ InOrder(k) /\ WaitInv(k)
  BY <1>1, <1>2, RenewedWaits DEF TypeOK, Renewed
<1>5. \A i \in DOMAIN k : k[i].longest \in Nat /\ k[i].longest <= now
  <2>1. \A i \in DOMAIN k : k[i] \in Bucket
    BY <1>4
  <2> QED
    BY <1>4, <2>1 DEF Bucket, InOrder
<1>6. \A t \in Tickets : /\ ticket[t].arrived \in Nat /\ ticket[t].waited \in Nat
                         /\ ticket[t].waiting => ticket[t].arrived <= now
  <2>1. \A t \in Tickets : ticket[t] \in Ticket
    BY <1>3
  <2>2. \A t \in Tickets : ticket[t].waiting => ticket[t].arrived <= now
    BY <1>1 DEF TicketInv, TicketSays
  <2> QED
    BY <2>1, <2>2 DEF Ticket
<1>7. \A t \in first : t \in Tickets /\ ticket[t].waiting
  BY <1>1, <1>3 DEF LineInv
<1>8. S \in SUBSET Nat /\ S # {} /\ \A n \in S : n <= now
  BY <1>3, <1>5, <1>6, <1>7
<1>9. longest = Max(S)
  BY DEF Longest
<1> HIDE DEF longest
<1>10. \A n \in S : n <= longest
  BY <1>3, <1>8, <1>9, Greatest
<1>11. longest \in Nat
  BY <1>3, <1>8, <1>9, Greatest
<1>12. ASSUME NEW t \in Tickets, ticket[t].waiting
       PROVE  now - ticket[t].arrived <= longest
  <2>1. PICK i \in DOMAIN waiting : waiting[i] = t
    BY <1>1, <1>12 DEF LineInv
  <2>2. 1 \in DOMAIN waiting /\ waiting[1] \in Tickets /\ waiting[1] \in first
    BY <1>3, <2>1
  <2>3. ticket[waiting[1]].arrived <= ticket[t].arrived
    <3>1. CASE i = 1
      BY <1>6, <2>1, <3>1
    <3>2. CASE i # 1
      BY <1>1, <1>3, <2>1, <2>2, <3>2 DEF LineInv
    <3> QED
      BY <3>1, <3>2
  <2>4. now - ticket[waiting[1]].arrived \in S
    BY <2>2
  <2>5. now - ticket[waiting[1]].arrived <= longest
    BY <1>10, <2>4
  <2> HIDE DEF S, first
  <2>6. ticket[waiting[1]].arrived \in Nat /\ ticket[t].arrived \in Nat
    BY <1>6, <2>2
  <2> QED
    BY <1>3, <1>11, <2>3, <2>5, <2>6
<1>13. ASSUME NEW t \in Tickets, ticket[t].state \in {"open", "left"}, ticket[t].counted # 0,
              ~ticket[t].waiting,
              HourOf(ticket[t].arrived + ticket[t].waited) + HoursKept > Hour
       PROVE  ticket[t].waited <= longest
  <2>1. Waited(t) /\ IsKept(EndedIn(t))
    BY <1>13 DEF Waited, IsKept, EndedIn
  <2>2. PICK i \in DOMAIN k : ticket[t].waited <= k[i].longest
    BY <1>4, <2>1 DEF WaitInv
  <2>3. k[i].longest \in S
    OBVIOUS
  <2>4. k[i].longest <= longest
    BY <1>10, <2>3
  <2> HIDE DEF S, first
  <2> QED
    BY <1>5, <1>6, <1>11, <2>2, <2>4
<1> QED
  BY <1>12, <1>13 DEF LongestCoversEveryWait, longest, k

THEOREM LongestHolds == Spec => []LongestCoversEveryWait
  BY InvariantHolds, LongestFollows, PTL

-----------------------------------------------------------------------------
(* The Queueing implements FairPlaces: whoever arrives takes a free place   *)
(* or joins the line, whoever waits gives up, whoever held a place gives it *)
(* to the first of the line, a restart starts anew, and what else happens   *)
(* moves nobody.                                                            *)
Outside == {t \in Tickets : ticket[t].state = "new"}

LEMMA SameCardinality == \A S : Fair!Cardinality(S) = Cardinality(S)
  BY DEF Fair!Cardinality, Cardinality

LEMMA StepIsFair ==
  ASSUME IInv, [Next]_vars
  PROVE  [Fair!NextPlaces]_Fair!pvars
<1>1. ASSUME NEW t \in Tickets, Arrive(t)
      PROVE  Fair!TakePlace(t) \/ Fair!JoinLine(t)
  <2>1. t \in Outside /\ Outside' = Outside \ {t} /\ places' = places
    <3>1. ticket[t].state = "new" /\ places' = places /\ ticket'[t].state = "open"
          /\ \A u \in Tickets \ {t} : ticket'[u] = ticket[u]
      BY <1>1 DEF IInv, TypeOK, Arrive
    <3> QED
      BY <3>1 DEF Outside
  <2>2. CASE inFlight >= places
    <3>1. Cardinality(Holders) = places /\ Holders' = Holders /\ waiting' = Append(waiting, t)
      BY <1>1, <2>2, ArriveStep
    <3> QED
      BY ONLY <2>1, <3>1, SameCardinality DEF Fair!JoinLine, Outside, Holders
  <2>3. CASE ~(inFlight >= places)
    <3>1. Cardinality(Holders) < places /\ Holders' = Holders \cup {t} /\ waiting' = waiting
      BY <1>1, <2>3, ArriveStep
    <3> QED
      BY ONLY <2>1, <3>1, SameCardinality DEF Fair!TakePlace, Outside, Holders
  <2> QED
    BY <2>2, <2>3
<1>2. ASSUME NEW t \in Tickets, LeaveLate(t)
      PROVE  UNCHANGED Fair!pvars
  BY <1>2, LeaveLateStep DEF Fair!pvars, Holders
<1>3. ASSUME NEW t \in Tickets, LeaveGivingUp(t)
      PROVE  Fair!GiveUp(t)
  <2>1. t \in Fair!InLine
    BY <1>3, LeaveGivingUpStep DEF Fair!InLine
  <2>2. Outside' = Outside
    BY <1>3, LeaveGivingUpStep DEF Outside
  <2> QED
    BY <1>3, <2>1, <2>2, LeaveGivingUpStep DEF Fair!GiveUp, Holders, Outside
<1>4. ASSUME NEW t \in Tickets, LeaveGivingBack(t)
      PROVE  Fair!GiveBack(t)
  <2>1. Outside' = Outside
    BY <1>4, LeaveGivingBackStep DEF Outside
  <2> QED
    BY <1>4, <2>1, LeaveGivingBackStep DEF Fair!GiveBack, Holders, Outside
<1>5. CASE Restart
  <2>1. Outside' = Outside
    BY <1>5, RestartStep DEF Outside
  <2> QED
    BY <1>5, <2>1, RestartStep DEF Fair!NextPlaces, Fair!Renew, Holders, Outside
<1>6. CASE LastDay \/ Tick \/ UNCHANGED vars \/ AllDone
  BY <1>6, OthersStep DEF Fair!pvars, Holders, AllDone
<1> QED
  BY <1>1, <1>2, <1>3, <1>4, <1>5, <1>6 DEF Next, Leave, Fair!NextPlaces

THEOREM PlacesAreFair == Spec => ImplementsPlaces
<1>1. Init => Fair!InitPlaces
  <2>1. ASSUME Init
        PROVE  Holders = {} /\ Outside = Tickets /\ waiting = <<>> /\ places \in 1..MaxPlaces
    BY <2>1, InitiallyInv DEF Init, Outside
  <2> QED
    BY <2>1 DEF Fair!InitPlaces, Holders, Outside
<1>2. IInv /\ [Next]_vars => [Fair!NextPlaces]_Fair!pvars
  BY StepIsFair
<1> QED
  BY <1>1, <1>2, InvariantHolds, PTL DEF Spec, ImplementsPlaces, Fair!PlacesSpec
=============================================================================
