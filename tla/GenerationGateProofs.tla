------------------------ MODULE GenerationGateProofs ------------------------
(***************************************************************************)
(* Proofs about the appliance's request gate, for any number of requests,  *)
(* slots and control calls.                                                *)
(***************************************************************************)
EXTENDS GenerationGate, FiniteSetTheorems, SequenceTheorems, TLAPS

(* The requests of a set that are in some phase of ph, by a given function. *)
Count(f, ph, set) == Cardinality({r \in set : f[r] \in ph})

(* Nobody but r changes its phase from f to g.                              *)
OnlyMoves(r, f, g) == \A q \in Requests \ {r} : g[q] = f[q]

LEMMA RequestsAreFinite == IsFiniteSet(Requests)
  BY GateAssumption, FS_Union DEF Requests

(* A role is one of the two, and has slots. *)
LEMMA RoleType ==
  /\ \A r \in Requests : Role(r) \in Roles
  /\ \A role \in Roles : Slots(role) \in Nat \ {0}
  BY GateAssumption DEF Role, Roles, Slots, Requests

(* A count is a number, zero when nobody is in the phase.                   *)
LEMMA CountType ==
  ASSUME NEW f, NEW ph, NEW set \in SUBSET Requests
  PROVE  /\ Count(f, ph, set) \in Nat
         /\ Count(f, ph, set) = 0 <=> \A r \in set : f[r] \notin ph
<1>1. IsFiniteSet({r \in set : f[r] \in ph})
  BY RequestsAreFinite, FS_Subset
<1> QED
  BY <1>1, FS_CardinalityType, FS_EmptySet DEF Count

(* What a count becomes when one request enters one of its phases, when one *)
(* leaves them, and when nobody does.                                       *)
LEMMA CountUp ==
  ASSUME NEW f, NEW g, NEW r \in Requests, OnlyMoves(r, f, g),
         NEW ph, NEW set \in SUBSET Requests, r \in set, g[r] \in ph, f[r] \notin ph
  PROVE  Count(g, ph, set) = Count(f, ph, set) + 1
<1> DEFINE before == {q \in set : f[q] \in ph}
           after == {q \in set : g[q] \in ph}
<1>1. IsFiniteSet(before)
  BY RequestsAreFinite, FS_Subset
<1>2. after = before \cup {r} /\ r \notin before
  BY DEF OnlyMoves
<1>3. Count(f, ph, set) = Cardinality(before) /\ Count(g, ph, set) = Cardinality(after)
  BY DEF Count
<1> HIDE DEF before, after
<1> QED
  BY <1>1, <1>2, <1>3, FS_AddElement

LEMMA CountDown ==
  ASSUME NEW f, NEW g, NEW r \in Requests, OnlyMoves(r, f, g),
         NEW ph, NEW set \in SUBSET Requests, r \in set, g[r] \notin ph, f[r] \in ph
  PROVE  Count(g, ph, set) = Count(f, ph, set) - 1
<1> DEFINE before == {q \in set : f[q] \in ph}
           after == {q \in set : g[q] \in ph}
<1>1. IsFiniteSet(before)
  BY RequestsAreFinite, FS_Subset
<1>2. after = before \ {r} /\ r \in before
  BY DEF OnlyMoves
<1>3. Count(f, ph, set) = Cardinality(before) /\ Count(g, ph, set) = Cardinality(after)
  BY DEF Count
<1> HIDE DEF before, after
<1> QED
  BY <1>1, <1>2, <1>3, FS_RemoveElement

LEMMA CountSame ==
  ASSUME NEW f, NEW g, NEW ph, NEW set,
         \A q \in set : g[q] \in ph <=> f[q] \in ph
  PROVE  Count(g, ph, set) = Count(f, ph, set)
<1>1. {q \in set : g[q] \in ph} = {q \in set : f[q] \in ph}
  OBVIOUS
<1> QED
  BY <1>1 DEF Count

(* The line without one of its members, who is in it once: everybody else,  *)
(* each once.                                                               *)
LEMMA WithoutEffect ==
  ASSUME NEW S, NEW s \in Seq(S), NEW r, NEW k \in DOMAIN s, s[k] = r,
         \A i, j \in DOMAIN s : s[i] = s[j] => i = j
  PROVE  /\ Without(s, r) \in Seq(S)
         /\ \A j \in DOMAIN Without(s, r) :
              \E i \in DOMAIN s : i # k /\ Without(s, r)[j] = s[i]
         /\ \A i \in DOMAIN s :
              i # k => \E j \in DOMAIN Without(s, r) : Without(s, r)[j] = s[i]
         /\ \A i, j \in DOMAIN Without(s, r) :
              Without(s, r)[i] = Without(s, r)[j] => i = j
<1> DEFINE a == SubSeq(s, 1, k - 1)
           b == SubSeq(s, k + 1, Len(s))
           t == a \o b
<1>1. Without(s, r) = t
  BY DEF Without
<1>2. k \in 1..Len(s) /\ Len(s) \in Nat /\ DOMAIN s = 1..Len(s)
  OBVIOUS
<1>3. a \in Seq(S) /\ Len(a) = k - 1 /\ \A i \in 1..(k - 1) : a[i] = s[i]
  BY <1>2
<1>4. /\ b \in Seq(S) /\ Len(b) = Len(s) - k
      /\ \A i \in 1..(Len(s) - k) : b[i] = s[k + i]
  BY <1>2
<1> HIDE DEF a, b
<1>5. /\ t \in Seq(S) /\ Len(t) = Len(a) + Len(b)
      /\ \A i \in 1..(Len(a) + Len(b)) : t[i] = IF i <= Len(a) THEN a[i] ELSE b[i - Len(a)]
  BY <1>3, <1>4, ConcatProperties
<1> HIDE DEF t
<1>6. Len(t) = Len(s) - 1 /\ DOMAIN t = 1..(Len(s) - 1)
  <2>1. Len(t) = Len(s) - 1
    BY <1>2, <1>3, <1>4, <1>5
  <2>2. DOMAIN t = 1..Len(t)
    BY <1>5, LenProperties
  <2> QED
    BY <2>1, <2>2
<1>7. \A i \in 1..(Len(s) - 1) : t[i] = IF i < k THEN s[i] ELSE s[i + 1]
  <2>1. ASSUME NEW i \in 1..(Len(s) - 1), i < k PROVE t[i] = s[i]
    BY <1>2, <1>3, <1>5, <1>6, <2>1
  <2>2. ASSUME NEW i \in 1..(Len(s) - 1), ~(i < k) PROVE t[i] = s[i + 1]
    <3>1. i - (k - 1) \in 1..(Len(s) - k) /\ t[i] = b[i - (k - 1)]
      BY <1>2, <1>3, <1>5, <1>6, <2>2
    <3>2. b[i - (k - 1)] = s[k + (i - (k - 1))]
      BY <1>4, <3>1
    <3>3. k + (i - (k - 1)) = i + 1
      BY <1>2
    <3> QED
      BY <3>1, <3>2, <3>3
  <2> QED
    BY <2>1, <2>2
<1>8. \A j \in DOMAIN t : \E i \in DOMAIN s : i # k /\ t[j] = s[i]
  <2>1. ASSUME NEW j \in DOMAIN t PROVE \E i \in DOMAIN s : i # k /\ t[j] = s[i]
    <3>1. CASE j < k
      BY <1>2, <1>6, <1>7, <3>1
    <3>2. CASE ~(j < k)
      <4>1. j + 1 \in DOMAIN s /\ j + 1 # k /\ t[j] = s[j + 1]
        BY <1>2, <1>6, <1>7, <3>2
      <4> QED
        BY <4>1
    <3> QED
      BY <3>1, <3>2
  <2> QED
    BY <2>1
<1>9. \A i \in DOMAIN s : i # k => \E j \in DOMAIN t : t[j] = s[i]
  <2>1. ASSUME NEW i \in DOMAIN s, i # k PROVE \E j \in DOMAIN t : t[j] = s[i]
    <3>1. CASE i < k
      BY <1>2, <1>6, <1>7, <3>1
    <3>2. CASE i > k
      <4>1. i - 1 \in DOMAIN t /\ t[i - 1] = s[i]
        BY <1>2, <1>6, <1>7, <3>2
      <4> QED
        BY <4>1
    <3> QED
      BY <1>2, <2>1, <3>1, <3>2
  <2> QED
    BY <2>1
<1>10. \A i, j \in DOMAIN t : t[i] = t[j] => i = j
  <2>1. ASSUME NEW i \in DOMAIN t, NEW j \in DOMAIN t, t[i] = t[j] PROVE i = j
    <3> DEFINE u(n) == IF n < k THEN n ELSE n + 1
    <3>1. u(i) \in DOMAIN s /\ u(j) \in DOMAIN s /\ t[i] = s[u(i)] /\ t[j] = s[u(j)]
      BY <1>2, <1>6, <1>7
    <3>2. u(i) = u(j)
      BY <2>1, <3>1
    <3> QED
      BY <1>2, <1>6, <3>2
  <2> QED
    BY <2>1
<1> QED
  BY <1>1, <1>5, <1>8, <1>9, <1>10

-----------------------------------------------------------------------------
(* The slots. *)

Admitted == {"held", "inside"}
Slotted == {"woken", "held", "inside"}
Mine(role) == {r \in Requests : Role(r) = role}

(* None of the waiters stays asleep beside a free slot, unless one is about *)
(* to run who will see to it.                                               *)
Attended(role) ==
  free[role] > 0 /\ InPhase({"queued"}, Mine(role)) # {}
    => InPhase({"woken"}, Mine(role)) # {}

(* The counts, in the words of the proofs.                                  *)
LEMMA Counting ==
  /\ CountsAreExact <=> /\ waiting = Count(phase, Waiters, Generations)
                        /\ active = Count(phase, Admitted, Generations)
                        /\ idle <=> active = 0
  /\ SlotsAreConserved <=>
       \A role \in Roles :
         /\ free[role] + Count(phase, Slotted, Mine(role)) = Slots(role)
         /\ Attended(role)
  BY DEF CountsAreExact, SlotsAreConserved, Count, InPhase, Waiters, Admitted, Slotted,
         Mine, Attended

LEMMA CountingNext ==
  ASSUME NEW g, g = phase'
  PROVE  /\ CountsAreExact' <=> /\ waiting' = Count(g, Waiters, Generations)
                                /\ active' = Count(g, Admitted, Generations)
                                /\ idle' <=> active' = 0
         /\ SlotsAreConserved' <=>
              \A role \in Roles :
                /\ free'[role] + Count(g, Slotted, Mine(role)) = Slots(role)
                /\ Attended(role)'
  BY DEF CountsAreExact, SlotsAreConserved, Count, InPhase, Waiters, Admitted, Slotted,
         Mine, Attended

(* Wake wakes a request of the role that sleeps, if there is a slot and one *)
(* sleeps.                                                                  *)
LEMMA WakeEffect ==
  ASSUME TypeOK, LinesAgree, NEW role \in Roles, NEW ph \in [Requests -> Phases],
         NEW slots \in Nat, Wake(role, ph, slots),
         \A q \in Requests : ph[q] = "queued" => phase[q] = "queued"
  PROVE  \/ /\ phase' = ph /\ free' = [free EXCEPT ![role] = slots]
            /\ slots = 0 \/ \A q \in Mine(role) : ph[q] # "queued"
         \/ /\ slots > 0 /\ free' = [free EXCEPT ![role] = slots - 1]
            /\ \E w \in Mine(role) : ph[w] = "queued" /\ phase' = [ph EXCEPT ![w] = "woken"]
<1>1. line[role] \in Seq(Requests)
  BY DEF TypeOK
<1>2. CASE slots = 0
  BY <1>2 DEF Wake
<1>3. CASE slots # 0 /\ Asleep(role, ph) = {}
  <2>1. ASSUME NEW q \in Mine(role), ph[q] = "queued" PROVE FALSE
    <3>1. phase[q] \in Waiters /\ Role(q) = role /\ q \in Requests
      BY <2>1 DEF Mine, Waiters
    <3>2. PICK i \in DOMAIN line[role] : line[role][i] = q
      BY <3>1 DEF LinesAgree
    <3>3. i \in Asleep(role, ph)
      BY <2>1, <3>2 DEF Asleep
    <3> QED
      BY <1>3, <3>3
  <2> QED
    BY <1>3, <2>1 DEF Wake
<1>4. CASE slots # 0 /\ Asleep(role, ph) # {}
  <2>1. PICK i \in Asleep(role, ph) : phase' = [ph EXCEPT ![line[role][i]] = "woken"]
    BY <1>4 DEF Wake
  <2>2. i \in DOMAIN line[role] /\ ph[line[role][i]] = "queued"
    BY <2>1 DEF Asleep
  <2>3. line[role][i] \in Mine(role)
    BY <1>1, <2>2 DEF Mine, LinesAgree
  <2>4. free' = [free EXCEPT ![role] = slots - 1] /\ slots > 0
    BY <1>4 DEF Wake
  <2> QED
    BY <2>1, <2>2, <2>3, <2>4
<1> QED
  BY <1>2, <1>3, <1>4

(* Whom Wake wakes changes no count but that of the slots, which balance,   *)
(* and nobody of the role sleeps beside a free slot afterwards.             *)
LEMMA WakeCounts ==
  ASSUME TypeOK, LinesAgree, NEW role \in Roles, NEW ph \in [Requests -> Phases],
         NEW slots \in Nat, Wake(role, ph, slots), NEW g, g = phase',
         \A q \in Requests : ph[q] = "queued" => phase[q] = "queued"
  PROVE  /\ phase' \in [Requests -> Phases] /\ free' \in [Roles -> Nat]
         /\ \A q \in Requests :
              phase'[q] = ph[q] \/ (ph[q] = "queued" /\ phase'[q] = "woken" /\ Role(q) = role)
         /\ Count(g, Waiters, Generations) = Count(ph, Waiters, Generations)
         /\ Count(g, Admitted, Generations) = Count(ph, Admitted, Generations)
         /\ free'[role] + Count(g, Slotted, Mine(role))
              = slots + Count(ph, Slotted, Mine(role))
         /\ \A other \in Roles \ {role} :
              /\ free'[other] = free[other]
              /\ Count(g, Slotted, Mine(other)) = Count(ph, Slotted, Mine(other))
         /\ Attended(role)'
<1> DEFINE Whole ==
      /\ phase' = ph /\ free' = [free EXCEPT ![role] = slots]
      /\ slots = 0 \/ \A q \in Mine(role) : ph[q] # "queued"
<1>1. Generations \in SUBSET Requests /\ \A other \in Roles : Mine(other) \in SUBSET Requests
  BY DEF Requests, Mine
<1>2. free \in [Roles -> Nat]
  BY DEF TypeOK
<1>3. \A other \in Roles : Count(ph, Slotted, Mine(other)) \in Nat
  BY <1>1, CountType
<1>4. CASE Whole
  <2>1. free' \in [Roles -> Nat] /\ free'[role] = slots
        /\ \A other \in Roles \ {role} : free'[other] = free[other]
    BY <1>2, <1>4
  <2>2. Attended(role)'
    BY <1>4, <2>1 DEF Attended, InPhase
  <2> QED
    BY <1>3, <1>4, <2>1, <2>2
<1>5. ASSUME slots > 0, free' = [free EXCEPT ![role] = slots - 1],
             NEW w \in Mine(role), ph[w] = "queued", phase' = [ph EXCEPT ![w] = "woken"]
      PROVE  /\ phase' \in [Requests -> Phases] /\ free' \in [Roles -> Nat]
             /\ \A q \in Requests :
                  phase'[q] = ph[q] \/ (ph[q] = "queued" /\ phase'[q] = "woken" /\ Role(q) = role)
             /\ Count(g, Waiters, Generations) = Count(ph, Waiters, Generations)
             /\ Count(g, Admitted, Generations) = Count(ph, Admitted, Generations)
             /\ free'[role] + Count(g, Slotted, Mine(role))
                  = slots + Count(ph, Slotted, Mine(role))
             /\ \A other \in Roles \ {role} :
                  /\ free'[other] = free[other]
                  /\ Count(g, Slotted, Mine(other)) = Count(ph, Slotted, Mine(other))
             /\ Attended(role)'
  <2>1. w \in Requests /\ Role(w) = role
    BY <1>5 DEF Mine
  <2>2. phase' \in [Requests -> Phases] /\ phase'[w] = "woken"
        /\ \A q \in Requests \ {w} : phase'[q] = ph[q]
    BY <1>5, <2>1 DEF Phases
  <2>0. g[w] = "woken" /\ ph[w] = "queued" /\ \A q \in Requests \ {w} : g[q] = ph[q]
    BY <1>5, <2>2
  <2>12. OnlyMoves(w, ph, g)
    BY <2>0 DEF OnlyMoves
  <2>3. "woken" \in Phases /\ "woken" \in Waiters /\ "queued" \in Waiters
        /\ "woken" \notin Admitted /\ "queued" \notin Admitted
        /\ "woken" \in Slotted /\ "queued" \notin Slotted
    BY DEF Phases, Waiters, Admitted, Slotted
  <2>4. Count(g, Waiters, Generations) = Count(ph, Waiters, Generations)
    <3>1. \A q \in Generations : g[q] \in Waiters <=> ph[q] \in Waiters
      BY <1>1, <2>0, <2>1, <2>3
    <3> QED
      BY <3>1, CountSame
  <2>5. Count(g, Admitted, Generations) = Count(ph, Admitted, Generations)
    <3>1. \A q \in Generations : g[q] \in Admitted <=> ph[q] \in Admitted
      BY <1>1, <2>0, <2>1, <2>3
    <3> QED
      BY <3>1, CountSame
  <2>6. Count(g, Slotted, Mine(role)) = Count(ph, Slotted, Mine(role)) + 1
    <3>1. g[w] \in Slotted /\ ph[w] \notin Slotted /\ Mine(role) \in SUBSET Requests
      BY <1>1, <2>0, <2>3
    <3> QED
      BY <2>1, <2>12, <3>1, CountUp
  <2>8. ASSUME NEW other \in Roles \ {role}
        PROVE  Count(g, Slotted, Mine(other)) = Count(ph, Slotted, Mine(other))
    <3>1. \A q \in Mine(other) : g[q] \in Slotted <=> ph[q] \in Slotted
      BY <2>0, <2>1 DEF Mine
    <3> QED
      BY <3>1, CountSame
  <2>9. free' \in [Roles -> Nat] /\ free'[role] = slots - 1
        /\ \A other \in Roles \ {role} : free'[other] = free[other]
    BY <1>2, <1>5
  <2>10. Attended(role)'
    BY <1>5, <2>2 DEF Attended, InPhase
  <2>11. free'[role] + Count(g, Slotted, Mine(role)) = slots + Count(ph, Slotted, Mine(role))
    BY <1>3, <2>6, <2>9
  <2> QED
    BY <1>5, <2>1, <2>2, <2>4, <2>5, <2>8, <2>9, <2>10, <2>11
<1> QED
  BY <1>4, <1>5, WakeEffect

(* A step that only moves waiters among themselves leaves the lines right.  *)
LEMMA SameLines ==
  ASSUME TypeOK, LinesAgree, line' = line,
         \A q \in Requests : phase'[q] \in Waiters <=> phase[q] \in Waiters
  PROVE  LinesAgree'
<1>1. \A role \in Roles : \A i \in DOMAIN line[role] : line[role][i] \in Requests
  BY DEF TypeOK
<1> QED
  BY <1>1 DEF LinesAgree

(* A waiter that waits no more has left its line.                           *)
LEMMA LeavesLine ==
  ASSUME TypeOK, LinesAgree, NEW r \in Requests, phase[r] \in Waiters,
         line' = [line EXCEPT ![Role(r)] = Without(line[Role(r)], r)],
         phase'[r] \notin Waiters,
         \A q \in Requests \ {r} : phase'[q] \in Waiters <=> phase[q] \in Waiters
  PROVE  line' \in [Roles -> Seq(Requests)] /\ LinesAgree'
<1> DEFINE old == line[Role(r)]
           new == Without(old, r)
<1>1. Role(r) \in Roles /\ line \in [Roles -> Seq(Requests)]
  BY RoleType DEF TypeOK
<1>2. old \in Seq(Requests) /\ \A i, j \in DOMAIN old : old[i] = old[j] => i = j
  BY <1>1 DEF LinesAgree
<1>3. PICK k \in DOMAIN old : old[k] = r
  BY DEF LinesAgree
<1> HIDE DEF old
<1>4. /\ new \in Seq(Requests)
      /\ \A j \in DOMAIN new : \E i \in DOMAIN old : i # k /\ new[j] = old[i]
      /\ \A i \in DOMAIN old : i # k => \E j \in DOMAIN new : new[j] = old[i]
      /\ \A i, j \in DOMAIN new : new[i] = new[j] => i = j
  BY <1>2, <1>3, WithoutEffect
<1> HIDE DEF new
<1>5. line' = [line EXCEPT ![Role(r)] = new]
  BY DEF new, old
<1>6. /\ line' \in [Roles -> Seq(Requests)] /\ line'[Role(r)] = new
      /\ \A role \in Roles \ {Role(r)} : line'[role] = line[role]
  BY <1>1, <1>4, <1>5
<1>7. \A j \in DOMAIN new : new[j] \in Requests \ {r} /\ Role(new[j]) = Role(r)
                            /\ phase[new[j]] \in Waiters
  <2>1. ASSUME NEW j \in DOMAIN new
        PROVE  new[j] \in Requests \ {r} /\ Role(new[j]) = Role(r) /\ phase[new[j]] \in Waiters
    <3>1. PICK i \in DOMAIN old : i # k /\ new[j] = old[i]
      BY <1>4
    <3>2. old[i] # r /\ old[i] \in Requests
      BY <1>2, <1>3, <3>1
    <3>3. Role(old[i]) = Role(r) /\ phase[old[i]] \in Waiters
      BY <1>1, <3>1 DEF LinesAgree, old
    <3> QED
      BY <3>1, <3>2, <3>3
  <2> QED
    BY <2>1
<1>8. \A role \in Roles : \A i \in DOMAIN line'[role] :
        Role(line'[role][i]) = role /\ phase'[line'[role][i]] \in Waiters
  <2>1. ASSUME NEW role \in Roles \ {Role(r)}, NEW i \in DOMAIN line[role]
        PROVE  Role(line[role][i]) = role /\ phase'[line[role][i]] \in Waiters
    <3>1. line[role][i] \in Requests /\ Role(line[role][i]) = role
          /\ phase[line[role][i]] \in Waiters
      BY <1>1, <2>1 DEF LinesAgree
    <3> QED
      BY <2>1, <3>1
  <2> QED
    BY <1>6, <1>7, <2>1
<1>9. \A role \in Roles : \A i, j \in DOMAIN line'[role] :
        line'[role][i] = line'[role][j] => i = j
  BY <1>4, <1>6 DEF LinesAgree
<1>10. ASSUME NEW q \in Requests, phase'[q] \in Waiters
       PROVE  \E i \in DOMAIN line'[Role(q)] : line'[Role(q)][i] = q
  <2>1. q # r /\ phase[q] \in Waiters /\ Role(q) \in Roles
    BY <1>10, RoleType
  <2>2. PICK i \in DOMAIN line[Role(q)] : line[Role(q)][i] = q
    BY <2>1 DEF LinesAgree
  <2>3. CASE Role(q) = Role(r)
    <3>1. i \in DOMAIN old /\ old[i] = q /\ i # k
      BY <1>3, <2>1, <2>2, <2>3 DEF old
    <3> QED
      BY <1>4, <1>6, <2>3, <3>1
  <2>4. CASE Role(q) # Role(r)
    BY <1>6, <2>1, <2>2, <2>4
  <2> QED
    BY <2>3, <2>4
<1> QED
  BY <1>6, <1>8, <1>9, <1>10 DEF LinesAgree

(* A newcomer that waits is the last of its line.                           *)
LEMMA JoinsLine ==
  ASSUME TypeOK, LinesAgree, NEW r \in Requests, phase[r] \notin Waiters,
         line' = [line EXCEPT ![Role(r)] = Append(line[Role(r)], r)],
         phase'[r] \in Waiters, \A q \in Requests \ {r} : phase'[q] = phase[q]
  PROVE  line' \in [Roles -> Seq(Requests)] /\ LinesAgree'
<1> DEFINE old == line[Role(r)]
           new == Append(old, r)
<1>1. Role(r) \in Roles /\ line \in [Roles -> Seq(Requests)]
  BY RoleType DEF TypeOK
<1>2. old \in Seq(Requests) /\ \A i, j \in DOMAIN old : old[i] = old[j] => i = j
  BY <1>1 DEF LinesAgree
<1>3. \A i \in DOMAIN old : old[i] \in Requests \ {r} /\ Role(old[i]) = Role(r)
                            /\ phase[old[i]] \in Waiters
  BY <1>1, <1>2 DEF LinesAgree
<1> HIDE DEF old
<1>4. /\ new \in Seq(Requests) /\ DOMAIN new = (DOMAIN old) \cup {Len(old) + 1}
      /\ \A i \in DOMAIN old : new[i] = old[i]
      /\ new[Len(old) + 1] = r /\ Len(old) + 1 \notin DOMAIN old
  <2>1. old \in Seq(Requests) /\ r \in Requests /\ Len(old) \in Nat
        /\ DOMAIN old = 1..Len(old)
    BY <1>2
  <2>2. new \in Seq(Requests) /\ Len(new) = Len(old) + 1 /\ new[Len(old) + 1] = r
        /\ \A i \in 1..Len(old) : new[i] = old[i]
    BY ONLY <2>1
  <2>3. DOMAIN new = 1..(Len(old) + 1)
    BY ONLY <2>2
  <2>4. 1..(Len(old) + 1) = (1..Len(old)) \cup {Len(old) + 1}
        /\ Len(old) + 1 \notin 1..Len(old)
    BY ONLY <2>1
  <2> QED
    BY ONLY <2>1, <2>2, <2>3, <2>4
<1> HIDE DEF new
<1>5. line' = [line EXCEPT ![Role(r)] = new]
  BY DEF new, old
<1>6. /\ line' \in [Roles -> Seq(Requests)] /\ line'[Role(r)] = new
      /\ \A role \in Roles \ {Role(r)} : line'[role] = line[role]
  <2>1. new \in Seq(Requests)
    BY ONLY <1>4
  <2> QED
    BY ONLY <1>1, <1>5, <2>1
<1>7. ASSUME NEW role \in Roles, NEW i \in DOMAIN line'[role]
      PROVE  Role(line'[role][i]) = role /\ phase'[line'[role][i]] \in Waiters
  <2>1. CASE role = Role(r)
    BY <1>3, <1>4, <1>6, <1>7, <2>1
  <2>2. CASE role # Role(r)
    <3>1. line'[role] = line[role] /\ line[role] \in Seq(Requests) /\ i \in DOMAIN line[role]
      BY <1>1, <1>6, <1>7, <2>2
    <3>2. line[role][i] \in Requests /\ Role(line[role][i]) = role
          /\ phase[line[role][i]] \in Waiters
      BY <3>1 DEF LinesAgree
    <3> QED
      BY <2>2, <3>1, <3>2
  <2> QED
    BY <2>1, <2>2
<1>8. \A role \in Roles : \A i, j \in DOMAIN line'[role] :
        line'[role][i] = line'[role][j] => i = j
  <2>1. \A i, j \in DOMAIN new : new[i] = new[j] => i = j
    BY <1>2, <1>3, <1>4
  <2> QED
    BY <1>6, <2>1 DEF LinesAgree
<1>9. ASSUME NEW q \in Requests, phase'[q] \in Waiters
      PROVE  \E i \in DOMAIN line'[Role(q)] : line'[Role(q)][i] = q
  <2>1. CASE q = r
    BY <1>4, <1>6, <2>1
  <2>2. CASE q # r
    <3>1. phase[q] \in Waiters /\ Role(q) \in Roles
      BY <1>9, <2>2, RoleType
    <3>2. PICK i \in DOMAIN line[Role(q)] : line[Role(q)][i] = q
      BY <3>1 DEF LinesAgree
    <3>3. CASE Role(q) = Role(r)
      BY <1>4, <1>6, <3>2, <3>3 DEF old
    <3>4. CASE Role(q) # Role(r)
      BY <1>6, <3>1, <3>2, <3>4
    <3> QED
      BY <3>3, <3>4
  <2> QED
    BY <2>1, <2>2
<1> QED
  BY <1>6, <1>7, <1>8, <1>9 DEF LinesAgree

(* What one request's move does to a count.                                 *)
LEMMA MoveCounts ==
  ASSUME NEW f, NEW g, NEW r \in Requests, OnlyMoves(r, f, g),
         NEW ph, NEW set \in SUBSET Requests
  PROVE  Count(g, ph, set) + (IF r \in set /\ f[r] \in ph THEN 1 ELSE 0)
           = Count(f, ph, set) + (IF r \in set /\ g[r] \in ph THEN 1 ELSE 0)
<1>1. Count(f, ph, set) \in Nat /\ Count(g, ph, set) \in Nat
  BY CountType
<1>2. CASE r \in set /\ g[r] \in ph /\ f[r] \notin ph
  <2>1. Count(g, ph, set) = Count(f, ph, set) + 1
    BY <1>2, CountUp
  <2> QED
    BY <1>1, <1>2, <2>1
<1>3. CASE r \in set /\ g[r] \notin ph /\ f[r] \in ph
  <2>1. Count(g, ph, set) = Count(f, ph, set) - 1
    BY <1>3, CountDown
  <2> QED
    BY <1>1, <1>3, <2>1
<1>4. CASE r \notin set \/ (g[r] \in ph <=> f[r] \in ph)
  <2>1. \A q \in set : g[q] \in ph <=> f[q] \in ph
    BY <1>4 DEF OnlyMoves
  <2>2. Count(g, ph, set) = Count(f, ph, set)
    BY <2>1, CountSame
  <2> QED
    BY <1>1, <1>4, <2>2
<1> QED
  BY <1>2, <1>3, <1>4

(* The same for the counts of the gate.                                     *)
LEMMA MoveAll ==
  ASSUME NEW f, NEW g, NEW r \in Requests, OnlyMoves(r, f, g)
  PROVE  /\ Count(g, Waiters, Generations) + (IF r \in Generations /\ f[r] \in Waiters THEN 1 ELSE 0)
              = Count(f, Waiters, Generations) + (IF r \in Generations /\ g[r] \in Waiters THEN 1 ELSE 0)
         /\ Count(g, Admitted, Generations) + (IF r \in Generations /\ f[r] \in Admitted THEN 1 ELSE 0)
              = Count(f, Admitted, Generations) + (IF r \in Generations /\ g[r] \in Admitted THEN 1 ELSE 0)
         /\ Count(g, Slotted, Mine(Role(r))) + (IF f[r] \in Slotted THEN 1 ELSE 0)
              = Count(f, Slotted, Mine(Role(r))) + (IF g[r] \in Slotted THEN 1 ELSE 0)
         /\ \A role \in Roles \ {Role(r)} :
              Count(g, Slotted, Mine(role)) = Count(f, Slotted, Mine(role))
<1>1. Generations \in SUBSET Requests
  BY DEF Requests
<1>2. r \in Mine(Role(r)) /\ Mine(Role(r)) \in SUBSET Requests
  BY DEF Mine
<1>3. Count(g, Waiters, Generations) + (IF r \in Generations /\ f[r] \in Waiters THEN 1 ELSE 0)
        = Count(f, Waiters, Generations) + (IF r \in Generations /\ g[r] \in Waiters THEN 1 ELSE 0)
  BY <1>1, MoveCounts
<1>4. Count(g, Admitted, Generations) + (IF r \in Generations /\ f[r] \in Admitted THEN 1 ELSE 0)
        = Count(f, Admitted, Generations) + (IF r \in Generations /\ g[r] \in Admitted THEN 1 ELSE 0)
  BY <1>1, MoveCounts
<1>5. Count(g, Slotted, Mine(Role(r))) + (IF r \in Mine(Role(r)) /\ f[r] \in Slotted THEN 1 ELSE 0)
        = Count(f, Slotted, Mine(Role(r))) + (IF r \in Mine(Role(r)) /\ g[r] \in Slotted THEN 1 ELSE 0)
  BY <1>2, MoveCounts
<1>6. ASSUME NEW role \in Roles \ {Role(r)}
      PROVE  Count(g, Slotted, Mine(role)) = Count(f, Slotted, Mine(role))
  <2>1. \A q \in Mine(role) : g[q] \in Slotted <=> f[q] \in Slotted
    BY DEF Mine, OnlyMoves
  <2> QED
    BY <2>1, CountSame
<1> QED
  BY <1>2, <1>3, <1>4, <1>5, <1>6

(* A role stays attended when none of its waiters falls asleep or goes on,  *)
(* and it has no more free slots.                                           *)
LEMMA StaysAttended ==
  ASSUME NEW role, Attended(role), free'[role] > 0 => free[role] > 0,
         \A q \in Mine(role) : phase'[q] = "queued" => phase[q] = "queued",
         \A q \in Mine(role) : phase[q] = "woken" => phase'[q] = "woken"
  PROVE  Attended(role)'
  BY DEF Attended, InPhase

(* A request moves and wakes nobody: the slots balance if its own do.       *)
LEMMA PlainStep ==
  ASSUME TypeOK, CountsAreExact, SlotsAreConserved, NEW r \in Requests,
         NEW f, f = phase, NEW g, g = phase', OnlyMoves(r, f, g),
         phase' \in [Requests -> Phases], free' \in [Roles -> Nat],
         free'[Role(r)] + (IF g[r] \in Slotted THEN 1 ELSE 0)
           = free[Role(r)] + (IF f[r] \in Slotted THEN 1 ELSE 0),
         \A role \in Roles \ {Role(r)} : free'[role] = free[role],
         Attended(Role(r))'
  PROVE  /\ SlotsAreConserved'
         /\ Count(g, Waiters, Generations) + (IF r \in Generations /\ f[r] \in Waiters THEN 1 ELSE 0)
              = waiting + (IF r \in Generations /\ g[r] \in Waiters THEN 1 ELSE 0)
         /\ Count(g, Admitted, Generations) + (IF r \in Generations /\ f[r] \in Admitted THEN 1 ELSE 0)
              = active + (IF r \in Generations /\ g[r] \in Admitted THEN 1 ELSE 0)
<1>1. free \in [Roles -> Nat] /\ Role(r) \in Roles
  BY RoleType DEF TypeOK
<1>2. \A q \in Requests \ {r} : phase'[q] = phase[q]
  BY DEF OnlyMoves
<1>3. /\ waiting = Count(f, Waiters, Generations) /\ active = Count(f, Admitted, Generations)
      /\ \A role \in Roles : free[role] + Count(f, Slotted, Mine(role)) = Slots(role)
      /\ \A role \in Roles : Attended(role)
  BY Counting
<1>4. free[Role(r)] \in Nat /\ free'[Role(r)] \in Nat
  BY <1>1
<1>5. /\ Count(g, Waiters, Generations) + (IF r \in Generations /\ f[r] \in Waiters THEN 1 ELSE 0)
           = Count(f, Waiters, Generations) + (IF r \in Generations /\ g[r] \in Waiters THEN 1 ELSE 0)
      /\ Count(g, Admitted, Generations) + (IF r \in Generations /\ f[r] \in Admitted THEN 1 ELSE 0)
           = Count(f, Admitted, Generations) + (IF r \in Generations /\ g[r] \in Admitted THEN 1 ELSE 0)
      /\ Count(g, Slotted, Mine(Role(r))) + (IF f[r] \in Slotted THEN 1 ELSE 0)
           = Count(f, Slotted, Mine(Role(r))) + (IF g[r] \in Slotted THEN 1 ELSE 0)
      /\ \A role \in Roles \ {Role(r)} :
           Count(g, Slotted, Mine(role)) = Count(f, Slotted, Mine(role))
  BY ONLY MoveAll, r \in Requests, OnlyMoves(r, f, g)
<1>6. Mine(Role(r)) \in SUBSET Requests
  BY DEF Mine
<1>7. Count(g, Slotted, Mine(Role(r))) \in Nat /\ Count(f, Slotted, Mine(Role(r))) \in Nat
  BY <1>6, CountType
<1>8. \A role \in Roles : free'[role] + Count(g, Slotted, Mine(role)) = Slots(role)
  <2>1. free'[Role(r)] + Count(g, Slotted, Mine(Role(r))) = Slots(Role(r))
    BY <1>1, <1>3, <1>4, <1>5, <1>7
  <2> QED
    BY <1>3, <1>5, <2>1
<1>9. \A role \in Roles : Attended(role)'
  <2>1. ASSUME NEW role \in Roles \ {Role(r)} PROVE Attended(role)'
    <3>1. \A q \in Mine(role) : phase'[q] = phase[q]
      BY <1>2 DEF Mine
    <3> QED
      BY <1>3, <3>1, StaysAttended
  <2> QED
    BY <2>1
<1>10. SlotsAreConserved'
  BY <1>8, <1>9, CountingNext
<1> QED
  BY <1>3, <1>5, <1>10

(* A request moves and its slot, if it had one and has none, wakes another. *)
LEMMA WakeStep ==
  ASSUME TypeOK, LinesAgree, CountsAreExact, SlotsAreConserved, NEW r \in Requests,
         NEW p \in Phases \ {"queued"}, NEW slots \in Nat,
         slots + (IF p \in Slotted THEN 1 ELSE 0)
           = free[Role(r)] + (IF phase[r] \in Slotted THEN 1 ELSE 0),
         NEW ph, ph = [phase EXCEPT ![r] = p], Wake(Role(r), ph, slots),
         NEW f, f = phase, NEW g, g = phase'
  PROVE  /\ phase' \in [Requests -> Phases] /\ free' \in [Roles -> Nat]
         /\ SlotsAreConserved'
         /\ p \notin Waiters => phase'[r] = p
         /\ \A q \in Requests \ {r} :
              phase'[q] = phase[q] \/ (phase[q] = "queued" /\ phase'[q] = "woken")
         /\ Count(g, Waiters, Generations) + (IF r \in Generations /\ phase[r] \in Waiters THEN 1 ELSE 0)
              = waiting + (IF r \in Generations /\ p \in Waiters THEN 1 ELSE 0)
         /\ Count(g, Admitted, Generations) + (IF r \in Generations /\ phase[r] \in Admitted THEN 1 ELSE 0)
              = active + (IF r \in Generations /\ p \in Admitted THEN 1 ELSE 0)
<1>1. phase \in [Requests -> Phases] /\ free \in [Roles -> Nat] /\ Role(r) \in Roles
  BY RoleType DEF TypeOK
<1>2. /\ ph \in [Requests -> Phases] /\ ph[r] = p
      /\ \A q \in Requests \ {r} : ph[q] = phase[q]
  BY <1>1
<1>3. /\ waiting = Count(f, Waiters, Generations) /\ active = Count(f, Admitted, Generations)
      /\ \A role \in Roles : free[role] + Count(f, Slotted, Mine(role)) = Slots(role)
      /\ \A role \in Roles : Attended(role)
  BY Counting
<1>4. ph[r] = p /\ f[r] = phase[r]
  BY <1>2
<1>5. OnlyMoves(r, f, ph)
  BY <1>2 DEF OnlyMoves
<1>6. /\ Count(ph, Waiters, Generations) + (IF r \in Generations /\ f[r] \in Waiters THEN 1 ELSE 0)
           = Count(f, Waiters, Generations) + (IF r \in Generations /\ ph[r] \in Waiters THEN 1 ELSE 0)
      /\ Count(ph, Admitted, Generations) + (IF r \in Generations /\ f[r] \in Admitted THEN 1 ELSE 0)
           = Count(f, Admitted, Generations) + (IF r \in Generations /\ ph[r] \in Admitted THEN 1 ELSE 0)
      /\ Count(ph, Slotted, Mine(Role(r))) + (IF f[r] \in Slotted THEN 1 ELSE 0)
           = Count(f, Slotted, Mine(Role(r))) + (IF ph[r] \in Slotted THEN 1 ELSE 0)
      /\ \A role \in Roles \ {Role(r)} :
           Count(ph, Slotted, Mine(role)) = Count(f, Slotted, Mine(role))
  BY ONLY <1>5, MoveAll, r \in Requests
<1>7. \A q \in Requests : ph[q] = "queued" => phase[q] = "queued"
  BY <1>2
<1>8. /\ phase' \in [Requests -> Phases] /\ free' \in [Roles -> Nat]
      /\ \A q \in Requests :
           phase'[q] = ph[q] \/ (ph[q] = "queued" /\ phase'[q] = "woken" /\ Role(q) = Role(r))
      /\ Count(g, Waiters, Generations) = Count(ph, Waiters, Generations)
      /\ Count(g, Admitted, Generations) = Count(ph, Admitted, Generations)
      /\ free'[Role(r)] + Count(g, Slotted, Mine(Role(r)))
           = slots + Count(ph, Slotted, Mine(Role(r)))
      /\ \A other \in Roles \ {Role(r)} :
           /\ free'[other] = free[other]
           /\ Count(g, Slotted, Mine(other)) = Count(ph, Slotted, Mine(other))
      /\ Attended(Role(r))'
  BY ONLY TypeOK, LinesAgree, <1>1, <1>2, <1>7, slots \in Nat,
     Wake(Role(r), ph, slots), g = phase', WakeCounts
<1>9. Mine(Role(r)) \in SUBSET Requests
  BY DEF Mine
<1>10. Count(ph, Slotted, Mine(Role(r))) \in Nat /\ Count(f, Slotted, Mine(Role(r))) \in Nat
       /\ Count(g, Slotted, Mine(Role(r))) \in Nat
  BY <1>9, CountType
<1>11. \A role \in Roles : free'[role] + Count(g, Slotted, Mine(role)) = Slots(role)
  <2>1. free'[Role(r)] + Count(g, Slotted, Mine(Role(r))) = Slots(Role(r))
    BY <1>1, <1>3, <1>4, <1>6, <1>8, <1>10
  <2> QED
    BY <1>3, <1>6, <1>8, <2>1
<1>12. \A role \in Roles : Attended(role)'
  <2>1. ASSUME NEW role \in Roles \ {Role(r)} PROVE Attended(role)'
    <3>1. \A q \in Mine(role) : phase'[q] = phase[q]
      BY <1>2, <1>8 DEF Mine
    <3> QED
      BY <1>3, <1>8, <3>1, StaysAttended
  <2> QED
    BY <1>8, <2>1
<1>13. SlotsAreConserved'
  BY <1>11, <1>12, CountingNext
<1>14. p \notin Waiters => phase'[r] = p
  BY <1>2, <1>8 DEF Waiters
<1>15. \A q \in Requests \ {r} :
         phase'[q] = phase[q] \/ (phase[q] = "queued" /\ phase'[q] = "woken")
  BY <1>2, <1>8
<1>16. Count(g, Waiters, Generations) + (IF r \in Generations /\ phase[r] \in Waiters THEN 1 ELSE 0)
         = waiting + (IF r \in Generations /\ p \in Waiters THEN 1 ELSE 0)
  BY ONLY <1>3, <1>4, <1>6, <1>8
<1>17. Count(g, Admitted, Generations) + (IF r \in Generations /\ phase[r] \in Admitted THEN 1 ELSE 0)
         = active + (IF r \in Generations /\ p \in Admitted THEN 1 ELSE 0)
  BY ONLY <1>3, <1>4, <1>6, <1>8
<1> QED
  BY <1>8, <1>13, <1>14, <1>15, <1>16, <1>17

(* No request's step breaks its types, lines, counts or slots.              *)
LEMMA StepKeepsSlots ==
  ASSUME TypeOK, SlotInv, NEW r \in Requests, Step(r)
  PROVE  TypeOK' /\ SlotInv'
<1> DEFINE RequestTypes ==
      /\ phase \in [Requests -> Phases]
      /\ free \in [Roles -> Nat] /\ line \in [Roles -> Seq(Requests)]
      /\ waiting \in Nat /\ active \in Nat /\ idle \in BOOLEAN
<1>1. PICK f, g : f = phase /\ g = phase'
  OBVIOUS
<1>2. /\ phase \in [Requests -> Phases] /\ free \in [Roles -> Nat] /\ Role(r) \in Roles
      /\ line \in [Roles -> Seq(Requests)] /\ free[Role(r)] \in Nat
      /\ waiting \in Nat /\ active \in Nat /\ idle \in BOOLEAN
  BY RoleType DEF TypeOK
<1>3. LinesAgree /\ CountsAreExact /\ SlotsAreConserved /\ Attended(Role(r))
  BY <1>2, Counting DEF SlotInv
<1>4. Role(r) = "generation" <=> r \in Generations
  BY DEF Role
<1>5. (idle <=> active = 0) /\ "done" \in Phases \ {"queued"} /\ "held" \in Phases \ {"queued"}
      /\ "inside" \in Phases /\ "queued" \in Phases /\ "done" \in Phases /\ "held" \in Phases
  BY <1>3 DEF CountsAreExact, Phases
<1>6. Count(g, Waiters, Generations) \in Nat /\ Count(g, Admitted, Generations) \in Nat
  <2>1. Generations \in SUBSET Requests
    BY DEF Requests
  <2> QED
    BY <2>1, CountType
<1>7. ASSUME RequestTypes', controlVars' = controlVars PROVE TypeOK'
  BY <1>7 DEF TypeOK, controlVars
<1>8. CASE Refuse(r)
  <2>1. /\ phase' = [phase EXCEPT ![r] = "done"]
        /\ free' = [free EXCEPT ![Role(r)] = free[Role(r)]]
        /\ line' = line /\ waiting' = waiting /\ active' = active /\ idle' = idle
        /\ controlVars' = controlVars /\ phase[r] = "new"
    BY <1>2, <1>8 DEF Refuse
  <2>2. /\ phase' \in [Requests -> Phases] /\ free' = free
        /\ phase'[r] = "done" /\ \A q \in Requests \ {r} : phase'[q] = phase[q]
    BY <1>2, <1>5, <2>1
  <2>3. Attended(Role(r))'
    BY <1>2, <1>3, <2>1, <2>2, StaysAttended DEF Mine
  <2>7. OnlyMoves(r, f, g) /\ g[r] \notin Slotted /\ f[r] \notin Slotted
        /\ g[r] \notin Admitted /\ f[r] \notin Admitted /\ g[r] \notin Waiters /\ f[r] \notin Waiters
    BY <1>1, <2>1, <2>2 DEF OnlyMoves, Waiters, Admitted, Slotted
  <2>8. /\ SlotsAreConserved'
        /\ Count(g, Waiters, Generations) + (IF r \in Generations /\ f[r] \in Waiters THEN 1 ELSE 0)
              = waiting + (IF r \in Generations /\ g[r] \in Waiters THEN 1 ELSE 0)
        /\ Count(g, Admitted, Generations) + (IF r \in Generations /\ f[r] \in Admitted THEN 1 ELSE 0)
              = active + (IF r \in Generations /\ g[r] \in Admitted THEN 1 ELSE 0)
    BY <1>1, <1>2, <1>3, <2>2, <2>3, <2>7, PlainStep
  <2>4. SlotsAreConserved' /\ Count(g, Waiters, Generations) = waiting
        /\ Count(g, Admitted, Generations) = active
    BY <1>2, <1>6, <2>7, <2>8
  <2>5. LinesAgree'
    BY <1>3, <2>1, <2>2, SameLines DEF Waiters
  <2>6. CountsAreExact'
    BY <1>1, <1>5, <2>1, <2>4, CountingNext
  <2> QED
    BY <1>2, <1>7, <2>1, <2>2, <2>4, <2>5, <2>6 DEF SlotInv
<1>9. CASE Take(r)
  <2>1. /\ phase' = [phase EXCEPT ![r] = "held"] /\ phase[r] = "new" /\ free[Role(r)] > 0
        /\ free' = [free EXCEPT ![Role(r)] = free[Role(r)] - 1]
        /\ line' = line /\ waiting' = waiting /\ controlVars' = controlVars
        /\ IF r \in Generations THEN active' = active + 1 /\ idle' = FALSE
                                 ELSE active' = active /\ idle' = idle
    BY <1>4, <1>9 DEF Take, Holding
  <2>2. /\ phase' \in [Requests -> Phases] /\ free' \in [Roles -> Nat]
        /\ free'[Role(r)] = free[Role(r)] - 1
        /\ \A role \in Roles \ {Role(r)} : free'[role] = free[role]
        /\ phase'[r] = "held" /\ \A q \in Requests \ {r} : phase'[q] = phase[q]
    BY <1>2, <1>5, <2>1
  <2>3. Attended(Role(r))'
    BY <1>2, <1>3, <2>1, <2>2, StaysAttended DEF Mine
  <2>4. OnlyMoves(r, f, g) /\ g[r] \in Slotted /\ f[r] \notin Slotted
        /\ g[r] \in Admitted /\ f[r] \notin Admitted /\ g[r] \notin Waiters /\ f[r] \notin Waiters
    BY <1>1, <2>1, <2>2 DEF OnlyMoves, Waiters, Admitted, Slotted
  <2>9. free'[Role(r)] + (IF g[r] \in Slotted THEN 1 ELSE 0)
          = free[Role(r)] + (IF f[r] \in Slotted THEN 1 ELSE 0)
    BY <1>2, <2>2, <2>4
  <2>5. /\ SlotsAreConserved'
        /\ Count(g, Waiters, Generations) + (IF r \in Generations /\ f[r] \in Waiters THEN 1 ELSE 0)
              = waiting + (IF r \in Generations /\ g[r] \in Waiters THEN 1 ELSE 0)
        /\ Count(g, Admitted, Generations) + (IF r \in Generations /\ f[r] \in Admitted THEN 1 ELSE 0)
              = active + (IF r \in Generations /\ g[r] \in Admitted THEN 1 ELSE 0)
    BY <1>1, <1>2, <1>3, <2>2, <2>3, <2>4, <2>9, PlainStep
  <2>6. LinesAgree'
    BY <1>3, <2>1, <2>2, SameLines DEF Waiters
  <2>7. waiting' = Count(g, Waiters, Generations) /\ active' = Count(g, Admitted, Generations)
        /\ (idle' <=> active' = 0) /\ idle' \in BOOLEAN
    <3>1. CASE r \in Generations
      <4>2. active' = active + 1 /\ idle' = FALSE /\ waiting' = waiting
        BY <2>1, <3>1
      <4>3. waiting \in Nat /\ active \in Nat
        BY <1>2
      <4>4. Count(g, Waiters, Generations) + 0 = waiting + 0
        BY ONLY <2>4, <2>5, <3>1
      <4>5. Count(g, Admitted, Generations) + 0 = active + 1
        BY ONLY <2>4, <2>5, <3>1
      <4>1. waiting' = Count(g, Waiters, Generations) /\ active' = Count(g, Admitted, Generations)
        BY ONLY <1>6, <4>2, <4>3, <4>4, <4>5
      <4>6. active' # 0
        BY ONLY <4>2, <4>3
      <4> QED
        BY <1>2, <4>1, <4>2, <4>6
    <3>2. CASE r \notin Generations
      <4>1. waiting' = Count(g, Waiters, Generations) /\ active' = Count(g, Admitted, Generations)
        BY <1>2, <1>6, <2>1, <2>4, <2>5, <3>2
      <4>2. active' = active /\ idle' = idle
        BY <2>1, <3>2
      <4> QED
        BY <1>2, <1>5, <4>1, <4>2
    <3> QED
      BY <3>1, <3>2
  <2>8. CountsAreExact'
    BY <1>1, <2>7, CountingNext
  <2> QED
    BY <1>2, <1>6, <1>7, <2>1, <2>2, <2>5, <2>6, <2>7, <2>8 DEF SlotInv
<1>10. CASE Forward(r)
  <2>1. /\ phase' = [phase EXCEPT ![r] = "inside"] /\ phase[r] = "held" /\ free' = free
        /\ line' = line /\ waiting' = waiting /\ active' = active /\ idle' = idle
        /\ controlVars' = controlVars
    BY <1>10 DEF Forward
  <2>2. /\ phase' \in [Requests -> Phases]
        /\ phase'[r] = "inside" /\ \A q \in Requests \ {r} : phase'[q] = phase[q]
    BY <1>2, <1>5, <2>1
  <2>3. Attended(Role(r))'
    BY <1>2, <1>3, <2>1, <2>2, StaysAttended DEF Mine
  <2>4. OnlyMoves(r, f, g) /\ g[r] \in Slotted /\ f[r] \in Slotted
        /\ g[r] \in Admitted /\ f[r] \in Admitted /\ g[r] \notin Waiters /\ f[r] \notin Waiters
    BY <1>1, <2>1, <2>2 DEF OnlyMoves, Waiters, Admitted, Slotted
  <2>5. /\ SlotsAreConserved'
        /\ Count(g, Waiters, Generations) + (IF r \in Generations /\ f[r] \in Waiters THEN 1 ELSE 0)
              = waiting + (IF r \in Generations /\ g[r] \in Waiters THEN 1 ELSE 0)
        /\ Count(g, Admitted, Generations) + (IF r \in Generations /\ f[r] \in Admitted THEN 1 ELSE 0)
              = active + (IF r \in Generations /\ g[r] \in Admitted THEN 1 ELSE 0)
    BY <1>1, <1>2, <1>3, <2>1, <2>2, <2>3, <2>4, PlainStep
  <2>6. LinesAgree'
    BY <1>3, <2>1, <2>2, SameLines DEF Waiters
  <2>7. waiting' = Count(g, Waiters, Generations) /\ active' = Count(g, Admitted, Generations)
        /\ (idle' <=> active' = 0)
    BY <1>2, <1>5, <1>6, <2>1, <2>4, <2>5
  <2>8. CountsAreExact'
    BY <1>1, <2>7, CountingNext
  <2> QED
    BY <1>2, <1>7, <2>1, <2>2, <2>5, <2>6, <2>8 DEF SlotInv
<1>11. CASE Queue(r)
  <2>1. /\ phase' = [phase EXCEPT ![r] = "queued"] /\ phase[r] = "new" /\ free' = free
        /\ line' = [line EXCEPT ![Role(r)] = Append(line[Role(r)], r)]
        /\ active' = active /\ idle' = idle
        /\ waiting' = IF r \in Generations THEN waiting + 1 ELSE waiting
        /\ controlVars' = controlVars
        /\ free[Role(r)] = 0 \/ line[Role(r)] # <<>>
    BY <1>4, <1>11 DEF Queue
  <2>2. /\ phase' \in [Requests -> Phases]
        /\ phase'[r] = "queued" /\ \A q \in Requests \ {r} : phase'[q] = phase[q]
    BY <1>2, <1>5, <2>1
  <2>3. Attended(Role(r))'
    <3>1. CASE free[Role(r)] = 0
      BY <2>1, <3>1 DEF Attended
    <3>2. CASE line[Role(r)] # <<>>
      <4>1. line[Role(r)] \in Seq(Requests)
        BY <1>2
      <4>2. 1 \in DOMAIN line[Role(r)] /\ line[Role(r)][1] \in Requests
        BY <3>2, <4>1
      <4>3. line[Role(r)][1] \in Mine(Role(r)) /\ phase[line[Role(r)][1]] \in Waiters
        BY <1>2, <1>3, <4>2 DEF LinesAgree, Mine
      <4>4. CASE phase[line[Role(r)][1]] = "woken"
        BY <2>1, <2>2, <4>2, <4>3, <4>4 DEF Attended, InPhase
      <4>5. CASE phase[line[Role(r)][1]] = "queued" /\ free[Role(r)] > 0
        <5>1. PICK q \in Mine(Role(r)) : phase[q] = "woken"
          BY <1>3, <4>3, <4>5 DEF Attended, InPhase
        <5>2. phase'[q] = "woken"
          BY <2>1, <2>2, <5>1 DEF Mine
        <5> QED
          BY <5>1, <5>2 DEF Attended, InPhase
      <4>6. CASE ~(free[Role(r)] > 0)
        BY <2>1, <4>6 DEF Attended
      <4> QED
        BY <4>3, <4>4, <4>5, <4>6 DEF Waiters
    <3> QED
      BY <2>1, <3>1, <3>2
  <2>4. OnlyMoves(r, f, g) /\ g[r] \notin Slotted /\ f[r] \notin Slotted
        /\ g[r] \notin Admitted /\ f[r] \notin Admitted /\ g[r] \in Waiters /\ f[r] \notin Waiters
    BY <1>1, <2>1, <2>2 DEF OnlyMoves, Waiters, Admitted, Slotted
  <2>5. /\ SlotsAreConserved'
        /\ Count(g, Waiters, Generations) + (IF r \in Generations /\ f[r] \in Waiters THEN 1 ELSE 0)
              = waiting + (IF r \in Generations /\ g[r] \in Waiters THEN 1 ELSE 0)
        /\ Count(g, Admitted, Generations) + (IF r \in Generations /\ f[r] \in Admitted THEN 1 ELSE 0)
              = active + (IF r \in Generations /\ g[r] \in Admitted THEN 1 ELSE 0)
    BY <1>1, <1>2, <1>3, <2>1, <2>2, <2>3, <2>4, PlainStep
  <2>6. line' \in [Roles -> Seq(Requests)] /\ LinesAgree'
    BY <1>2, <1>3, <2>1, <2>2, JoinsLine DEF Waiters
  <2>7. waiting' = Count(g, Waiters, Generations) /\ active' = Count(g, Admitted, Generations)
        /\ (idle' <=> active' = 0)
    BY <1>2, <1>5, <1>6, <2>1, <2>4, <2>5
  <2>8. CountsAreExact'
    BY <1>1, <2>7, CountingNext
  <2> QED
    BY <1>2, <1>6, <1>7, <2>1, <2>2, <2>5, <2>6, <2>7, <2>8 DEF SlotInv
<1>12. CASE Acquire(r)
  <2>1. PICK ph : ph = [phase EXCEPT ![r] = "held"]
    OBVIOUS
  <2>2. /\ phase[r] = "woken" /\ Wake(Role(r), ph, free[Role(r)])
        /\ line' = [line EXCEPT ![Role(r)] = Without(line[Role(r)], r)]
        /\ waiting' = IF r \in Generations THEN waiting - 1 ELSE waiting
        /\ IF r \in Generations THEN active' = active + 1 /\ idle' = FALSE
                                 ELSE active' = active /\ idle' = idle
        /\ controlVars' = controlVars
    BY <1>4, <1>12, <2>1 DEF Acquire, Unwaiting, Holding
  <2>3. /\ "held" \in Slotted /\ "held" \in Admitted /\ "held" \notin Waiters
        /\ phase[r] \in Slotted /\ phase[r] \notin Admitted /\ phase[r] \in Waiters
    BY <2>2 DEF Slotted, Admitted, Waiters
  <2>4. free[Role(r)] + (IF "held" \in Slotted THEN 1 ELSE 0)
          = free[Role(r)] + (IF phase[r] \in Slotted THEN 1 ELSE 0)
    BY <2>3
  <2>5. /\ phase' \in [Requests -> Phases] /\ free' \in [Roles -> Nat]
        /\ SlotsAreConserved' /\ phase'[r] = "held"
        /\ \A q \in Requests \ {r} :
             phase'[q] = phase[q] \/ (phase[q] = "queued" /\ phase'[q] = "woken")
        /\ Count(g, Waiters, Generations) + (IF r \in Generations /\ phase[r] \in Waiters THEN 1 ELSE 0)
             = waiting + (IF r \in Generations /\ "held" \in Waiters THEN 1 ELSE 0)
        /\ Count(g, Admitted, Generations) + (IF r \in Generations /\ phase[r] \in Admitted THEN 1 ELSE 0)
             = active + (IF r \in Generations /\ "held" \in Admitted THEN 1 ELSE 0)
    BY ONLY TypeOK, <1>1, <1>2, <1>3, <1>5, <2>1, <2>2, <2>3, <2>4, r \in Requests, WakeStep
  <2>6. line' \in [Roles -> Seq(Requests)] /\ LinesAgree'
    BY ONLY TypeOK, <1>3, <2>2, <2>3, <2>5, r \in Requests, LeavesLine DEF Waiters
  <2>7. waiting' = Count(g, Waiters, Generations) /\ active' = Count(g, Admitted, Generations)
        /\ (idle' <=> active' = 0) /\ idle' \in BOOLEAN
    <3>1. CASE r \in Generations
      <4>1. Count(g, Waiters, Generations) + 1 = waiting + 0
        BY ONLY <2>3, <2>5, <3>1
      <4>2. Count(g, Admitted, Generations) + 0 = active + 1
        BY ONLY <2>3, <2>5, <3>1
      <4>3. waiting' = waiting - 1 /\ active' = active + 1 /\ idle' = FALSE
        BY <2>2, <3>1
      <4>4. waiting \in Nat /\ active \in Nat
        BY <1>2
      <4>5. waiting' = Count(g, Waiters, Generations) /\ active' = Count(g, Admitted, Generations)
            /\ active' # 0
        BY ONLY <1>6, <4>1, <4>2, <4>3, <4>4
      <4> QED
        BY <4>3, <4>5
    <3>2. CASE r \notin Generations
      <4>1. Count(g, Waiters, Generations) + 0 = waiting + 0
            /\ Count(g, Admitted, Generations) + 0 = active + 0
        BY ONLY <2>5, <3>2
      <4>2. waiting' = waiting /\ active' = active /\ idle' = idle
        BY <2>2, <3>2
      <4>3. waiting' = Count(g, Waiters, Generations) /\ active' = Count(g, Admitted, Generations)
        BY <1>2, <1>6, <4>1, <4>2
      <4> QED
        BY <1>2, <1>5, <4>2, <4>3
    <3> QED
      BY <3>1, <3>2
  <2>8. CountsAreExact'
    BY <1>1, <2>7, CountingNext
  <2> QED
    BY <1>6, <1>7, <2>2, <2>5, <2>6, <2>7, <2>8 DEF SlotInv
<1>13. CASE CancelWaiting(r)
  <2>1. PICK ph : ph = [phase EXCEPT ![r] = "done"]
    OBVIOUS
  <2>2. /\ phase[r] \in Waiters
        /\ IF phase[r] = "woken" THEN Wake(Role(r), ph, free[Role(r)] + 1)
                                 ELSE phase' = ph /\ free' = free
        /\ line' = [line EXCEPT ![Role(r)] = Without(line[Role(r)], r)]
        /\ waiting' = IF r \in Generations THEN waiting - 1 ELSE waiting
        /\ active' = active /\ idle' = idle /\ controlVars' = controlVars
    BY <1>4, <1>13, <2>1 DEF CancelWaiting, Unwaiting, GiveBackSlot, Waiters
  <2>3. /\ "done" \notin Slotted /\ "done" \notin Admitted /\ "done" \notin Waiters
        /\ phase[r] \notin Admitted /\ (phase[r] \in Slotted <=> phase[r] = "woken")
    BY <2>2 DEF Slotted, Admitted, Waiters
  <2>4. /\ phase' \in [Requests -> Phases] /\ free' \in [Roles -> Nat]
        /\ SlotsAreConserved' /\ phase'[r] = "done"
        /\ \A q \in Requests \ {r} :
             phase'[q] = phase[q] \/ (phase[q] = "queued" /\ phase'[q] = "woken")
        /\ Count(g, Waiters, Generations) + (IF r \in Generations /\ phase[r] \in Waiters THEN 1 ELSE 0)
             = waiting + (IF r \in Generations /\ "done" \in Waiters THEN 1 ELSE 0)
        /\ Count(g, Admitted, Generations) + (IF r \in Generations /\ phase[r] \in Admitted THEN 1 ELSE 0)
             = active + (IF r \in Generations /\ "done" \in Admitted THEN 1 ELSE 0)
    <3>1. CASE phase[r] = "woken"
      <4>1. free[Role(r)] + 1 \in Nat
            /\ free[Role(r)] + 1 + (IF "done" \in Slotted THEN 1 ELSE 0)
                 = free[Role(r)] + (IF phase[r] \in Slotted THEN 1 ELSE 0)
        BY <1>2, <2>3, <3>1
      <4>2. Wake(Role(r), ph, free[Role(r)] + 1)
        BY <2>2, <3>1
      <4> QED
        BY ONLY TypeOK, <1>1, <1>2, <1>3, <1>5, <2>1, <2>3, <4>1, <4>2,
                r \in Requests, WakeStep
    <3>2. CASE phase[r] # "woken"
      <4>1. /\ phase' \in [Requests -> Phases] /\ free' = free
            /\ phase'[r] = "done" /\ \A q \in Requests \ {r} : phase'[q] = phase[q]
            /\ phase[r] = "queued"
        BY <1>2, <1>5, <2>1, <2>2, <3>2 DEF Waiters
      <4>2. Attended(Role(r))'
        BY <1>2, <1>3, <2>1, <4>1, StaysAttended DEF Mine
      <4>3. OnlyMoves(r, f, g) /\ g[r] = "done" /\ f[r] = phase[r]
            /\ g[r] \notin Slotted /\ f[r] \notin Slotted
        BY <1>1, <2>3, <3>2, <4>1 DEF OnlyMoves
      <4>4. /\ SlotsAreConserved'
            /\ Count(g, Waiters, Generations) + (IF r \in Generations /\ f[r] \in Waiters THEN 1 ELSE 0)
                  = waiting + (IF r \in Generations /\ g[r] \in Waiters THEN 1 ELSE 0)
            /\ Count(g, Admitted, Generations) + (IF r \in Generations /\ f[r] \in Admitted THEN 1 ELSE 0)
                  = active + (IF r \in Generations /\ g[r] \in Admitted THEN 1 ELSE 0)
        BY <1>1, <1>2, <1>3, <4>1, <4>2, <4>3, PlainStep
      <4> QED
        BY ONLY <1>2, <4>1, <4>3, <4>4
    <3> QED
      BY <3>1, <3>2
  <2>5. line' \in [Roles -> Seq(Requests)] /\ LinesAgree'
    BY ONLY TypeOK, <1>3, <2>2, <2>3, <2>4, r \in Requests, LeavesLine DEF Waiters
  <2>6. waiting' = Count(g, Waiters, Generations) /\ active' = Count(g, Admitted, Generations)
    <3>1. CASE r \in Generations
      <4>1. Count(g, Waiters, Generations) + 1 = waiting + 0
            /\ Count(g, Admitted, Generations) + 0 = active + 0
        BY ONLY <2>2, <2>3, <2>4, <3>1
      <4>2. waiting' = waiting - 1 /\ active' = active
        BY ONLY <2>2, <3>1
      <4>3. waiting \in Nat /\ active \in Nat
        BY <1>2
      <4> QED
        BY ONLY <1>6, <4>1, <4>2, <4>3
    <3>2. CASE r \notin Generations
      <4>1. Count(g, Waiters, Generations) + 0 = waiting + 0
            /\ Count(g, Admitted, Generations) + 0 = active + 0
        BY ONLY <2>4, <3>2
      <4> QED
        BY <1>2, <1>6, <2>2, <3>2, <4>1
    <3> QED
      BY <3>1, <3>2
  <2>7. CountsAreExact'
    BY <1>1, <1>5, <2>2, <2>6, CountingNext
  <2> QED
    BY <1>2, <1>6, <1>7, <2>2, <2>4, <2>5, <2>6, <2>7 DEF SlotInv
<1>14. CASE TurnAway(r) \/ Leave(r)
  <2>1. PICK ph : ph = [phase EXCEPT ![r] = "done"]
    OBVIOUS
  <2>2. /\ phase[r] \in Admitted /\ Wake(Role(r), ph, free[Role(r)] + 1)
        /\ IF r \in Generations
           THEN active' = active - 1 /\ idle' = (active = 1)
           ELSE active' = active /\ idle' = idle
        /\ line' = line /\ waiting' = waiting
        /\ paused' = paused /\ proven' = proven /\ engine' = engine /\ holder' = holder
        /\ quiesced' = quiesced
    BY <1>4, <1>14, <2>1 DEF TurnAway, Leave, Leaving, GiveBackSlot, Admitted
  <2>3. /\ "done" \notin Slotted /\ "done" \notin Admitted /\ "done" \notin Waiters
        /\ phase[r] \notin Waiters /\ phase[r] \in Slotted
    BY <2>2 DEF Slotted, Admitted, Waiters
  <2>4. free[Role(r)] + 1 \in Nat
        /\ free[Role(r)] + 1 + (IF "done" \in Slotted THEN 1 ELSE 0)
             = free[Role(r)] + (IF phase[r] \in Slotted THEN 1 ELSE 0)
    BY <1>2, <2>3
  <2>5. /\ phase' \in [Requests -> Phases] /\ free' \in [Roles -> Nat]
        /\ SlotsAreConserved' /\ phase'[r] = "done"
        /\ \A q \in Requests \ {r} :
             phase'[q] = phase[q] \/ (phase[q] = "queued" /\ phase'[q] = "woken")
        /\ Count(g, Waiters, Generations) + (IF r \in Generations /\ phase[r] \in Waiters THEN 1 ELSE 0)
             = waiting + (IF r \in Generations /\ "done" \in Waiters THEN 1 ELSE 0)
        /\ Count(g, Admitted, Generations) + (IF r \in Generations /\ phase[r] \in Admitted THEN 1 ELSE 0)
             = active + (IF r \in Generations /\ "done" \in Admitted THEN 1 ELSE 0)
    BY ONLY TypeOK, <1>1, <1>2, <1>3, <1>5, <2>1, <2>2, <2>3, <2>4, r \in Requests, WakeStep
  <2>6. LinesAgree'
    <3>1. \A q \in Requests : phase'[q] \in Waiters <=> phase[q] \in Waiters
      BY <2>3, <2>5 DEF Waiters
    <3> QED
      BY <1>3, <2>2, <3>1, SameLines
  <2>7. waiting' = Count(g, Waiters, Generations) /\ active' = Count(g, Admitted, Generations)
        /\ (idle' <=> active' = 0) /\ idle' \in BOOLEAN
    <3>1. CASE r \in Generations
      <4>1. Count(g, Waiters, Generations) + 0 = waiting + 0
            /\ Count(g, Admitted, Generations) + 1 = active + 0
        BY ONLY <2>2, <2>3, <2>5, <3>1
      <4>2. active' = active - 1 /\ idle' = (active = 1)
        BY <2>2, <3>1
      <4>3. waiting' = Count(g, Waiters, Generations) /\ active' = Count(g, Admitted, Generations)
        BY <1>2, <1>6, <2>2, <4>1, <4>2
      <4>4. active = 1 <=> active' = 0
        BY <1>2, <4>2
      <4> QED
        BY <4>2, <4>3, <4>4
    <3>2. CASE r \notin Generations
      <4>1. Count(g, Waiters, Generations) + 0 = waiting + 0
            /\ Count(g, Admitted, Generations) + 0 = active + 0
        BY ONLY <2>5, <3>2
      <4>2. waiting' = waiting /\ active' = active /\ idle' = idle
        BY <2>2, <3>2
      <4>3. waiting' = Count(g, Waiters, Generations) /\ active' = Count(g, Admitted, Generations)
        BY <1>2, <1>6, <4>1, <4>2
      <4> QED
        BY <1>2, <1>5, <4>2, <4>3
    <3> QED
      BY <3>1, <3>2
  <2>8. CountsAreExact'
    BY <1>1, <2>7, CountingNext
  <2>9. control' \in [Controls -> [step : Steps, op : Operations]]
    <3>1. control \in [Controls -> [step : Steps, op : Operations]]
      BY DEF TypeOK
    <3>2. \/ control' = control
          \/ control' = [c \in Controls |->
               IF active = 1 /\ control[c].step = "draining"
               THEN [control[c] EXCEPT !.step = "drained"] ELSE control[c]]
      BY <1>14 DEF TurnAway, Leave, Leaving
    <3> QED
      BY <3>1, <3>2 DEF Steps
  <2>10. TypeOK'
    BY <1>6, <2>2, <2>5, <2>7, <2>9 DEF TypeOK
  <2> QED
    BY <2>5, <2>6, <2>8, <2>10 DEF SlotInv
<1> QED
  BY <1>8, <1>9, <1>10, <1>11, <1>12, <1>13, <1>14 DEF Step

-----------------------------------------------------------------------------
(* The gate and the control calls. *)

Past == {"draining", "drained", "asked"}
Inside == InPhase({"inside"}, Generations)

(* A step of a control call or of the backend leaves the requests alone.    *)
LEMMA ControlKeepsSlots ==
  ASSUME TypeOK, SlotInv,
         \/ \E c \in Controls : Control(c)
         \/ BackendCloses \/ \E role \in Roles : RoleObserved(role)
  PROVE  TypeOK' /\ SlotInv' /\ UNCHANGED requestVars
<1>1. UNCHANGED requestVars
  BY DEF Control, BeginFails, GivesUp, Begin, Drained, DrainFails, Unacknowledged,
         QuiesceAcknowledged, ResumeAcknowledged, BackendCloses, RoleObserved
<1>2. SlotInv'
  BY <1>1 DEF SlotInv, LinesAgree, CountsAreExact, SlotsAreConserved, InPhase, requestVars
<1>3. /\ paused' \in BOOLEAN /\ proven' \in [Roles -> BOOLEAN]
      /\ engine' \in {"running", "paused"}
      /\ holder' \in Controls \cup {None} /\ quiesced' \in BOOLEAN
      /\ control' \in [Controls -> [step : Steps, op : Operations]]
  <2>1. ASSUME NEW c \in Controls, NEW step \in Steps, Ask(c, step)
        PROVE  control' \in [Controls -> [step : Steps, op : Operations]]
    BY <2>1 DEF TypeOK, Ask
  <2>2. "done" \in Steps /\ "asked" \in Steps /\ "drained" \in Steps /\ "draining" \in Steps
    BY DEF Steps
  <2>3. ASSUME NEW c \in Controls, GivesUp(c)
        PROVE  /\ control' \in [Controls -> [step : Steps, op : Operations]]
               /\ paused' = TRUE /\ holder' = None /\ proven' = proven /\ quiesced' = quiesced
    BY <2>1, <2>2, <2>3 DEF GivesUp
  <2>4. CASE BackendCloses \/ \E role \in Roles : RoleObserved(role)
    BY <2>4 DEF TypeOK, BackendCloses, RoleObserved, Roles
  <2>5. ASSUME NEW c \in Controls, NEW op \in Operations, Begin(c, op)
        PROVE  control' \in [Controls -> [step : Steps, op : Operations]]
    BY <2>2, <2>5 DEF TypeOK, Begin
  <2>6. ASSUME NEW c \in Controls, Control(c)
        PROVE  control' \in [Controls -> [step : Steps, op : Operations]]
    BY <2>1, <2>2, <2>3, <2>5, <2>6
       DEF Control, BeginFails, Drained, DrainFails, Unacknowledged,
           QuiesceAcknowledged, ResumeAcknowledged
  <2>7. ASSUME NEW c \in Controls, Control(c)
        PROVE  /\ paused' \in BOOLEAN /\ proven' = proven
               /\ engine' \in {"running", "paused"}
               /\ holder' \in Controls \cup {None} /\ quiesced' \in BOOLEAN
    BY <2>7 DEF TypeOK, Control, GivesUp, Begin, BeginFails, Drained, DrainFails,
                Unacknowledged, QuiesceAcknowledged, ResumeAcknowledged
  <2> QED
    BY <2>4, <2>6, <2>7 DEF TypeOK
<1> QED
  BY <1>1, <1>2, <1>3 DEF TypeOK, requestVars

(* Only Forward sends a request to the engine.                              *)
LEMMA OnlyForwardSends ==
  ASSUME TypeOK, NEW r \in Requests, Step(r), ~Forward(r)
  PROVE  \A q \in Requests : phase'[q] = "inside" => phase[q] = "inside"
<1>1. phase \in [Requests -> Phases]
  BY DEF TypeOK
<1>2. ASSUME NEW p \in {"held", "done"}, NEW role, NEW slots,
             Wake(role, [phase EXCEPT ![r] = p], slots)
      PROVE  \A q \in Requests : phase'[q] = "inside" => phase[q] = "inside"
  BY <1>1, <1>2 DEF Wake
<1>3. CASE Refuse(r) \/ Take(r) \/ Queue(r)
  BY <1>1, <1>3 DEF Refuse, Take, Queue
<1>4. CASE Acquire(r)
  BY <1>2, <1>4 DEF Acquire
<1>5. CASE CancelWaiting(r)
  BY <1>1, <1>2, <1>5 DEF CancelWaiting, GiveBackSlot
<1>6. CASE TurnAway(r) \/ Leave(r)
  BY <1>2, <1>6 DEF TurnAway, Leave, Leaving, GiveBackSlot
<1> QED
  BY <1>3, <1>4, <1>5, <1>6 DEF Step

(* Nobody is at the engine when no generation request is active.            *)
LEMMA IdleIsEmpty ==
  ASSUME CountsAreExact, active = 0
  PROVE  Inside = {}
<1>1. Count(phase, Admitted, Generations) = 0 /\ Generations \in SUBSET Requests
  BY Counting DEF Requests
<1>2. \A r \in Generations : phase[r] \notin Admitted
  BY <1>1, CountType
<1> QED
  BY <1>2 DEF Inside, InPhase, Admitted

LEMMA IdleIsEmptyNext ==
  ASSUME CountsAreExact', active' = 0
  PROVE  Inside' = {}
<1>1. PICK g : g = phase'
  OBVIOUS
<1>2. Count(g, Admitted, Generations) = 0 /\ Generations \in SUBSET Requests
  BY <1>1, CountingNext DEF Requests
<1>3. \A r \in Generations : g[r] \notin Admitted
  BY <1>2, CountType
<1> QED
  BY <1>1, <1>3 DEF Inside, InPhase, Admitted

(* What requests do to the gate: none gets through a closed one, and the    *)
(* last to leave is what a quiesce waits for.                               *)
LEMMA StepKeepsControl ==
  ASSUME TypeOK, SlotInv, ControlInv, NEW r \in Requests, Step(r), SlotInv'
  PROVE  ControlInv'
<1>1. None \notin Controls /\ Generations \subseteq Requests
  BY GateAssumption DEF Requests
<1>2. /\ \A c \in Controls :
           /\ control[c].step \in Past <=> holder = c
           /\ holder = c => paused
           /\ control[c].step = "drained" \/ (control[c].step = "asked" /\ control[c].op = "quiesce")
                => Inside = {}
      /\ quiesced => paused /\ Inside = {}
  BY DEF ControlInv, ControlsAgree, QuiescedStaysIdle, Inside, Past
<1>3. CASE Forward(r) /\ r \in Generations
  <2>1. ~paused /\ controlVars' = controlVars
    BY <1>3 DEF Forward, IsReady, Role
  <2>2. ~quiesced /\ \A c \in Controls : control[c].step \notin Past
    BY <1>2, <2>1
  <2> QED
    BY <2>1, <2>2 DEF ControlInv, ControlsAgree, QuiescedStaysIdle, OpenGateHasRunningEngine,
                      controlVars, Past
<1>4. CASE ~(Forward(r) /\ r \in Generations)
  <2>1. \A q \in Generations : phase'[q] = "inside" => phase[q] = "inside"
    <3>1. CASE Forward(r)
      BY <1>1, <1>4, <3>1 DEF Forward, TypeOK
    <3>2. CASE ~Forward(r)
      BY <1>1, <3>2, OnlyForwardSends
    <3> QED
      BY <3>1, <3>2
  <2>2. Inside = {} => Inside' = {}
    BY <2>1 DEF Inside, InPhase
  <2>3. /\ paused' = paused /\ engine' = engine /\ holder' = holder /\ quiesced' = quiesced
        /\ \A c \in Controls :
             \/ control'[c] = control[c]
             \/ /\ control[c].step = "draining" /\ control'[c].step = "drained"
                /\ Inside' = {}
    <3>1. CASE controlVars' = controlVars
      BY <3>1 DEF controlVars
    <3>2. CASE TurnAway(r) \/ Leave(r)
      <4>1. Leaving(r)
        BY <3>2 DEF TurnAway, Leave
      <4>2. CASE r \in Generations
        <5>1. /\ active' = active - 1
              /\ control' = [c \in Controls |->
                   IF active = 1 /\ control[c].step = "draining"
                   THEN [control[c] EXCEPT !.step = "drained"] ELSE control[c]]
          BY <4>1, <4>2 DEF Leaving, Role
        <5>2. active = 1 => Inside' = {}
          <6>1. active = 1 => active' = 0
            BY <5>1
          <6> QED
            BY <6>1, IdleIsEmptyNext DEF SlotInv
        <5> QED
          BY <4>1, <5>1, <5>2 DEF Leaving, TypeOK
      <4>3. CASE r \notin Generations
        BY <4>1, <4>3 DEF Leaving, Role
      <4> QED
        BY <4>2, <4>3
    <3> QED
      BY <3>1, <3>2 DEF Step, Refuse, Take, Queue, Acquire, CancelWaiting, Forward
  <2>4. ControlsAgree'
    <3>1. ASSUME NEW c \in Controls
          PROVE  /\ control'[c].step \in Past <=> holder' = c
                 /\ holder' = c => paused'
                 /\ control'[c].step = "drained"
                      \/ (control'[c].step = "asked" /\ control'[c].op = "quiesce")
                      => Inside' = {}
      BY <1>2, <2>2, <2>3 DEF Past
    <3> QED
      BY <3>1 DEF ControlsAgree, Past, Inside
  <2> QED
    BY <1>2, <2>2, <2>3, <2>4
       DEF ControlInv, QuiescedStaysIdle, OpenGateHasRunningEngine, Inside
<1> QED
  BY <1>3, <1>4

(* What the control calls and the backend do to the gate.                   *)
LEMMA ControlKeepsControl ==
  ASSUME TypeOK, SlotInv, ControlInv, NEW c \in Controls, Control(c)
  PROVE  ControlInv'
<1>1. None \notin Controls /\ control \in [Controls -> [step : Steps, op : Operations]]
  BY GateAssumption DEF TypeOK
<1>2. /\ \A d \in Controls :
           /\ control[d].step \in Past <=> holder = d
           /\ holder = d => paused
           /\ control[d].step = "drained" \/ (control[d].step = "asked" /\ control[d].op = "quiesce")
                => Inside = {}
      /\ quiesced => paused /\ Inside = {}
      /\ ~paused => engine = "running"
  BY DEF ControlInv, ControlsAgree, QuiescedStaysIdle, OpenGateHasRunningEngine, Inside, Past
<1>3. Inside' = Inside
  BY ControlKeepsSlots DEF requestVars, Inside, InPhase
<1>4. SUFFICES
        /\ \A d \in Controls :
             /\ control'[d].step \in Past <=> holder' = d
             /\ holder' = d => paused'
             /\ control'[d].step = "drained" \/ (control'[d].step = "asked" /\ control'[d].op = "quiesce")
                  => Inside' = {}
        /\ quiesced' => paused' /\ Inside' = {}
        /\ ~paused' => engine' = "running"
  BY DEF ControlInv, ControlsAgree, QuiescedStaysIdle, OpenGateHasRunningEngine, Inside, Past
<1>5. holder \in {None, c} /\ \A d \in Controls \ {c} : control[d].step \notin Past
  <2>1. holder = None \/ control[c].step \in Past
    BY DEF Control, BeginFails, Begin, Drained, DrainFails, Unacknowledged,
           QuiesceAcknowledged, ResumeAcknowledged, Past
  <2> QED
    BY <1>1, <1>2, <2>1
<1>6. ASSUME NEW step \in Steps, Ask(c, step)
      PROVE  /\ control'[c] = [control[c] EXCEPT !.step = step] /\ control'[c].step = step
             /\ control'[c].op = control[c].op
             /\ \A d \in Controls \ {c} : control'[d] = control[d]
  BY <1>1, <1>6 DEF Ask
<1>7. /\ "done" \in Steps /\ "asked" \in Steps /\ "done" \notin Past /\ "asked" \in Past
      /\ "drained" \in Past /\ "draining" \in Past
  BY DEF Steps, Past
<1>8. CASE GivesUp(c)
  <2>1. /\ paused' = TRUE /\ holder' = None /\ quiesced' = quiesced /\ Ask(c, "done")
    BY <1>8 DEF GivesUp
  <2>2. control'[c].step = "done" /\ \A d \in Controls \ {c} : control'[d] = control[d]
    BY <1>6, <1>7, <2>1
  <2>3. \A d \in Controls : control'[d].step \notin Past /\ holder' # d
    BY <1>1, <1>5, <1>7, <2>1, <2>2
  <2> QED
    BY <1>2, <1>3, <2>1, <2>3 DEF Past
<1>9. ASSUME NEW op \in Operations, Begin(c, op)
      PROVE  /\ \A d \in Controls :
                  /\ control'[d].step \in Past <=> holder' = d
                  /\ holder' = d => paused'
                  /\ control'[d].step = "drained" \/ (control'[d].step = "asked" /\ control'[d].op = "quiesce")
                       => Inside' = {}
             /\ quiesced' => paused' /\ Inside' = {}
             /\ ~paused' => engine' = "running"
  <2>1. /\ holder' = c /\ paused' = TRUE /\ quiesced' = quiesced
        /\ control'[c] = [op |-> op, step |-> IF op = "resume" THEN "asked"
                                              ELSE IF idle THEN "drained" ELSE "draining"]
        /\ \A d \in Controls \ {c} : control'[d] = control[d]
    BY <1>1, <1>9 DEF Begin
  <2>2. control'[c].step \in Past
    BY <1>7, <2>1
  <2>3. control'[c].step = "drained" \/ (control'[c].step = "asked" /\ control'[c].op = "quiesce")
          => Inside = {}
    <3>1. idle => Inside = {}
      BY IdleIsEmpty DEF SlotInv, CountsAreExact
    <3> QED
      BY <2>1, <3>1
  <2> QED
    BY <1>2, <1>3, <1>5, <2>1, <2>2, <2>3 DEF Past
<1>10. CASE Drained(c)
  <2>1. /\ control[c].step = "drained" /\ paused' = TRUE /\ holder' = holder
        /\ quiesced' = quiesced /\ Ask(c, "asked")
    BY <1>10 DEF Drained
  <2>2. /\ control'[c].step = "asked" /\ \A d \in Controls \ {c} : control'[d] = control[d]
    BY <1>6, <1>7, <2>1
  <2>3. holder = c /\ Inside = {}
    BY <1>2, <1>7, <2>1
  <2> QED
    BY <1>2, <1>3, <1>5, <1>7, <2>1, <2>2, <2>3
<1>11. CASE QuiesceAcknowledged(c)
  <2>1. /\ control[c].step = "asked" /\ control[c].op = "quiesce" /\ paused
        /\ paused' = paused /\ holder' = None /\ Ask(c, "done")
    BY <1>11 DEF QuiesceAcknowledged
  <2>2. control'[c].step = "done" /\ \A d \in Controls \ {c} : control'[d] = control[d]
    BY <1>6, <1>7, <2>1
  <2>3. \A d \in Controls : control'[d].step \notin Past /\ holder' # d
    BY <1>1, <1>5, <1>7, <2>1, <2>2
  <2> QED
    BY <1>2, <1>3, <2>1, <2>3 DEF Past
<1>12. CASE ResumeAcknowledged(c)
  <2>1. engine' = "running" /\ quiesced' = FALSE /\ holder' = None /\ Ask(c, "done")
    BY <1>12 DEF ResumeAcknowledged
  <2>2. control'[c].step = "done" /\ \A d \in Controls \ {c} : control'[d] = control[d]
    BY <1>6, <1>7, <2>1
  <2>3. \A d \in Controls : control'[d].step \notin Past /\ holder' # d
    BY <1>1, <1>5, <1>7, <2>1, <2>2
  <2> QED
    BY <2>1, <2>3 DEF Past
<1> QED
  BY <1>8, <1>9, <1>10, <1>11, <1>12
     DEF Control, BeginFails, DrainFails, Unacknowledged

LEMMA BackendKeepsControl ==
  ASSUME TypeOK, SlotInv, ControlInv, BackendCloses \/ \E role \in Roles : RoleObserved(role)
  PROVE  ControlInv'
<1>1. UNCHANGED phase /\ (paused' = TRUE \/ paused' = paused)
      /\ engine' = engine /\ holder' = holder /\ control' = control /\ quiesced' = quiesced
  BY DEF BackendCloses, RoleObserved, requestVars
<1> QED
  BY <1>1 DEF ControlInv, ControlsAgree, QuiescedStaysIdle, OpenGateHasRunningEngine, InPhase, TypeOK

-----------------------------------------------------------------------------
(* The inductive invariant. *)

LEMMA InitHolds == Init => IInv
<1> SUFFICES ASSUME Init PROVE IInv
  OBVIOUS
<1>1. /\ \A role \in Roles : Slots(role) \in Nat \ {0}
      /\ None \notin Controls
  BY RoleType, GateAssumption
<1>2. TypeOK
  <2>1. phase \in [Requests -> Phases] /\ free \in [Roles -> Nat]
    BY <1>1 DEF Init, Phases
  <2>2. <<>> \in Seq(Requests)
    OBVIOUS
  <2>3. line \in [Roles -> Seq(Requests)]
    BY <2>2 DEF Init
  <2>4. control \in [Controls -> [step : Steps, op : Operations]]
    BY DEF Init, Steps, Operations
  <2> QED
    BY <2>1, <2>3, <2>4 DEF Init, TypeOK
<1>3. LinesAgree
  <2>1. \A role \in Roles : line[role] = <<>> /\ DOMAIN line[role] = {}
    BY DEF Init
  <2>2. \A r \in Requests : phase[r] \notin Waiters
    BY DEF Init, Waiters
  <2> QED
    BY <2>1, <2>2 DEF LinesAgree
<1>5. ASSUME NEW ph \in SUBSET (Phases \ {"new"}), NEW set \in SUBSET Requests
      PROVE  InPhase(ph, set) = {}
  BY DEF InPhase, Init
<1>6. /\ Generations \in SUBSET Requests
      /\ \A role : {r \in Requests : Role(r) = role} \in SUBSET Requests
      /\ {"queued", "woken"} \in SUBSET (Phases \ {"new"})
      /\ {"held", "inside"} \in SUBSET (Phases \ {"new"}) /\ {"inside"} \in SUBSET (Phases \ {"new"})
      /\ {"woken", "held", "inside"} \in SUBSET (Phases \ {"new"})
      /\ {"queued"} \in SUBSET (Phases \ {"new"})
  BY DEF Requests, Phases
<1>7. CountsAreExact
  BY <1>5, <1>6, FS_EmptySet DEF CountsAreExact, Init
<1>8. SlotsAreConserved
  <2>1. ASSUME NEW role \in Roles, NEW mine, mine = {r \in Requests : Role(r) = role}
        PROVE  /\ free[role] + Cardinality(InPhase({"woken", "held", "inside"}, mine)) = Slots(role)
               /\ InPhase({"queued"}, mine) = {}
    <3>1. InPhase({"woken", "held", "inside"}, mine) = {} /\ InPhase({"queued"}, mine) = {}
      BY <1>5, <1>6, <2>1
    <3>2. free[role] = Slots(role) /\ Slots(role) \in Nat
      BY <1>1 DEF Init
    <3> QED
      BY <3>1, <3>2, FS_EmptySet
  <2> QED
    BY <2>1 DEF SlotsAreConserved
<1>9. ControlInv
  BY <1>1 DEF Init, ControlInv, ControlsAgree, QuiescedStaysIdle, OpenGateHasRunningEngine
<1> QED
  BY <1>2, <1>3, <1>7, <1>8, <1>9 DEF IInv, SlotInv

LEMMA NextKeeps == IInv /\ [Next]_vars => IInv'
<1> SUFFICES ASSUME IInv, [Next]_vars PROVE IInv'
  OBVIOUS
<1>1. TypeOK /\ SlotInv /\ ControlInv
  BY DEF IInv
<1>2. CASE UNCHANGED vars
  <2>1. TypeOK'
    BY <1>1, <1>2 DEF TypeOK, vars, requestVars, controlVars
  <2>2. SlotInv'
    BY <1>1, <1>2 DEF SlotInv, LinesAgree, CountsAreExact, SlotsAreConserved, InPhase,
                      vars, requestVars, controlVars
  <2>3. ControlInv'
    BY <1>1, <1>2 DEF ControlInv, ControlsAgree, QuiescedStaysIdle, OpenGateHasRunningEngine,
                      InPhase, vars, requestVars, controlVars
  <2> QED
    BY <2>1, <2>2, <2>3 DEF IInv
<1>3. ASSUME NEW r \in Requests, Step(r) PROVE IInv'
  BY <1>1, <1>3, StepKeepsSlots, StepKeepsControl DEF IInv
<1>4. ASSUME NEW c \in Controls, Control(c) PROVE IInv'
  BY <1>1, <1>4, ControlKeepsSlots, ControlKeepsControl DEF IInv
<1>5. CASE BackendCloses \/ \E role \in Roles : RoleObserved(role)
  BY <1>1, <1>5, ControlKeepsSlots, BackendKeepsControl DEF IInv
<1> QED
  BY <1>2, <1>3, <1>4, <1>5 DEF Next

(* The whole invariant holds in every state the gate reaches: the lines     *)
(* hold the waiters, the counts and slots are exact, the calls exclude one  *)
(* another.                                                                 *)
THEOREM GateInvariant == Spec => []IInv
  BY InitHolds, NextKeeps, PTL DEF Spec

(* The state stays within its types.                                        *)
THEOREM GateTypeCorrect == Spec => []TypeOK
<1>1. IInv => TypeOK
  BY DEF IInv
<1> QED
  BY <1>1, GateInvariant, PTL

(* What the throttle and the drain read is always exact, whatever is        *)
(* cancelled while it waits.                                                *)
THEOREM GateCountsExactly == Spec => []CountsAreExact
<1>1. IInv => CountsAreExact
  BY DEF IInv, SlotInv
<1> QED
  BY <1>1, GateInvariant, PTL

(* No slot of a role is lost or given twice, and none stays free while a    *)
(* request sleeps that nobody is about to wake.                             *)
THEOREM GateConservesSlots == Spec => []SlotsAreConserved
<1>1. IInv => SlotsAreConserved
  BY DEF IInv, SlotInv
<1> QED
  BY <1>1, GateInvariant, PTL

(* From a quiesce's acknowledgement to a resume's, no generation request is *)
(* at the engine.                                                           *)
THEOREM GateStaysIdle == Spec => []QuiescedStaysIdle
<1>1. IInv => QuiescedStaysIdle
  BY DEF IInv, ControlInv
<1> QED
  BY <1>1, GateInvariant, PTL

(* The gate is open only on an engine that was last told to run.            *)
THEOREM GateOpensOnRunningEngine == Spec => []OpenGateHasRunningEngine
<1>1. IInv => OpenGateHasRunningEngine
  BY DEF IInv, ControlInv
<1> QED
  BY <1>1, GateInvariant, PTL

-----------------------------------------------------------------------------
(* The gate implements Ingress. *)

\* The state of Ingress, seen through the gate.
Door == IF paused THEN "closed" ELSE "open"

LEMMA InitMaps == Init => Gate!InitIngress
  BY DEF Init, Gate!InitIngress, InPhase, Requests

(* A request's step enters the engine, leaves it, or shows nothing: Wake    *)
(* and the moves of the waiters are not seen.                               *)
LEMMA StepMaps ==
  ASSUME IInv, NEW r \in Requests, Step(r)
  PROVE  [Gate!NextIngress]_<<Door, Inside, quiesced>>
<1>1. phase \in [Requests -> Phases] /\ Generations \subseteq Requests
  BY DEF IInv, TypeOK, Requests
<1>2. Door' = Door /\ quiesced' = quiesced
  BY DEF Step, Refuse, Take, Queue, Acquire, CancelWaiting, Forward, TurnAway, Leave,
         Leaving, controlVars, Door
<1>3. CASE Forward(r) /\ r \in Generations
  <2>1. ~paused /\ phase[r] = "held" /\ phase' = [phase EXCEPT ![r] = "inside"]
    BY <1>3 DEF Forward, IsReady, Role
  <2>2. r \notin Inside /\ Inside' = Inside \cup {r}
    BY <1>1, <1>3, <2>1 DEF Inside, InPhase
  <2>3. Gate!Enter(r)
    BY <1>2, <2>1, <2>2 DEF Gate!Enter, Door, Inside
  <2> QED
    BY <1>3, <2>3 DEF Gate!NextIngress
<1>4. CASE ~(Forward(r) /\ r \in Generations)
  <2>1. \A q \in Requests \ {r} : phase'[q] = "inside" <=> phase[q] = "inside"
    <3>1. ASSUME NEW p \in {"held", "done"}, NEW role, NEW slots,
                 Wake(role, [phase EXCEPT ![r] = p], slots)
          PROVE  \A q \in Requests \ {r} : phase'[q] = "inside" <=> phase[q] = "inside"
      BY <1>1, <3>1 DEF Wake, Asleep
    <3>2. CASE Acquire(r)
      BY <3>1, <3>2 DEF Acquire
    <3>3. CASE CancelWaiting(r)
      BY <1>1, <3>1, <3>3 DEF CancelWaiting, GiveBackSlot
    <3>4. CASE TurnAway(r) \/ Leave(r)
      BY <3>1, <3>4 DEF TurnAway, Leave, Leaving, GiveBackSlot
    <3>5. CASE Refuse(r) \/ Take(r) \/ Queue(r) \/ Forward(r)
      BY <1>1, <3>5 DEF Refuse, Take, Queue, Forward
    <3> QED
      BY <3>2, <3>3, <3>4, <3>5 DEF Step
  <2>2. phase'[r] = "inside" => phase[r] = "inside" \/ r \notin Generations
    <3>1. CASE Forward(r)
      BY <1>4, <3>1
    <3>2. CASE ~Forward(r)
      BY <3>2, OnlyForwardSends DEF IInv
    <3> QED
      BY <3>1, <3>2
  <2>3. Inside' = Inside \/ (r \in Inside /\ Inside' = Inside \ {r})
    BY <1>1, <2>1, <2>2 DEF Inside, InPhase
  <2>4. CASE r \in Inside /\ Inside' = Inside \ {r}
    <3>1. r \in Generations
      BY <2>4 DEF Inside, InPhase
    <3>2. Gate!Go(r)
      BY <1>2, <2>4 DEF Gate!Go, Door, Inside
    <3> QED
      BY <3>1, <3>2 DEF Gate!NextIngress
  <2> QED
    BY <1>2, <2>3, <2>4
<1> QED
  BY <1>3, <1>4

(* A control call closes the gate, acknowledges, or shows nothing.          *)
LEMMA ControlMaps ==
  ASSUME IInv,
         \/ \E c \in Controls : Control(c)
         \/ BackendCloses \/ \E role \in Roles : RoleObserved(role)
  PROVE  [Gate!NextIngress]_<<Door, Inside, quiesced>>
<1>1. Inside' = Inside
  BY ControlKeepsSlots DEF IInv, requestVars, Inside, InPhase
<1>2. CASE paused' = TRUE /\ quiesced' = quiesced
  BY <1>1, <1>2 DEF Gate!NextIngress, Gate!Close, Door, Inside
<1>3. CASE paused' = paused /\ quiesced' = quiesced
  BY <1>1, <1>3 DEF Door
<1>4. ASSUME NEW c \in Controls, QuiesceAcknowledged(c)
      PROVE  Gate!AcknowledgeQuiesce
  <2>1. paused /\ paused' = paused /\ quiesced' = TRUE
        /\ control[c].step = "asked" /\ control[c].op = "quiesce"
    BY <1>4 DEF QuiesceAcknowledged
  <2>2. Inside = {}
    BY <2>1 DEF IInv, ControlInv, ControlsAgree, Inside
  <2> QED
    BY <1>1, <2>1, <2>2 DEF Gate!AcknowledgeQuiesce, Inside
<1>5. ASSUME NEW c \in Controls, ResumeAcknowledged(c)
      PROVE  Gate!AcknowledgeResume
  BY <1>1, <1>5 DEF ResumeAcknowledged, Gate!AcknowledgeResume, Inside
<1>6. ASSUME NEW c \in Controls, Control(c),
             ~QuiesceAcknowledged(c), ~ResumeAcknowledged(c)
      PROVE  (paused' = TRUE \/ paused' = paused) /\ quiesced' = quiesced
  BY <1>6 DEF Control, BeginFails, GivesUp, Begin, Drained, DrainFails, Unacknowledged
<1>7. CASE BackendCloses \/ \E role \in Roles : RoleObserved(role)
  BY <1>2, <1>3, <1>7 DEF BackendCloses, RoleObserved
<1> QED
  BY <1>2, <1>3, <1>4, <1>5, <1>6, <1>7 DEF Gate!NextIngress

(* The admission, its semaphores and the control calls implement Ingress:   *)
(* behind the machinery, requests enter only an open gate, and a quiesce is *)
(* acknowledged only when everyone has left.                                *)
THEOREM GateImplementsIngress == Spec => ImplementsIngress
<1>1. Init => Gate!InitIngress
  BY InitMaps
<1>2. IInv /\ [Next]_vars => [Gate!NextIngress]_<<Door, Inside, quiesced>>
  <2> SUFFICES ASSUME IInv, [Next]_vars
               PROVE  [Gate!NextIngress]_<<Door, Inside, quiesced>>
    OBVIOUS
  <2>1. CASE UNCHANGED vars
    BY <2>1 DEF vars, requestVars, controlVars, Door, Inside, InPhase
  <2> QED
    BY <2>1, StepMaps, ControlMaps DEF Next
<1>3. <<Door, Inside, quiesced>> = Gate!ivars
  BY DEF Gate!ivars, Door, Inside
<1>4. IInv /\ [Next]_vars => [Gate!NextIngress]_(Gate!ivars)
  BY <1>2, <1>3 DEF Door, Inside, Gate!ivars, InPhase
<1> QED
  BY <1>1, <1>4, GateInvariant, PTL DEF Spec, ImplementsIngress, Gate!IngressSpec

=============================================================================
