------------------------ MODULE WorkerEvidenceProofs ------------------------
(***************************************************************************)
(* Proofs about WorkerEvidence, for any devices, entrypoints, loads and    *)
(* changes from outside: an observation that is accepted is true, and the  *)
(* instrument can always be removed.                                       *)
(*                                                                         *)
(* The argument follows what a worker goes by when it answers.  A stamp it *)
(* remembers is of files that were as reviewed; an execution it remembers  *)
(* is one of the load under way or the last; the model it vouches for was  *)
(* built from the configuration it keeps; and the API process takes of the *)
(* answers the one of each rank, on its device, for the plan.              *)
(***************************************************************************)
EXTENDS WorkerEvidence, TLAPS

-----------------------------------------------------------------------------
(* The inductive invariant. *)

\* A stamp that a process remembers, and still finds, is of reviewed content.
FilesInv == \A p \in Processes : cache[p] = disk.stamp => disk.good

\* What a worker keeps of its load and of its kernels is true of the model that
\* it serves.
Served(self) ==
  /\ self.executed # None => self.ran
  /\ self.loading # None => self.observed = 0
  /\ self.model # 0 /\ self.model = self.observed => self.born = self.snapshot

ServedInv == \A w \in Ranks : Served(worker[w])

\* WrappersAreRemovable, of one worker.
Wrapped(self) ==
  \A n \in Entrypoints :
    self.entry[n] \notin {0, Foreign} => self.entry[n] = self.kernel /\ self.executed = None

\* An answer is its worker's, and true of the plan and the placement; none is
\* awaited by an observation that was concluded.
AnswersInv ==
  /\ facts # None => verdict = "none"
  /\ \A w \in Ranks :
       answers[w] # None =>
         /\ answers[w].rank = w
         /\ answers[w].ready /\ answers[w].config = Planned /\ answers[w].device = Placement[w]
              => answers[w].truth

IInv ==
  TypeOK /\ FilesInv /\ ServedInv /\ WrappersAreRemovable /\ AnswersInv /\ AcceptedIsTrue

\* The type of a worker's state.
Worker == [
  config : Configs, snapshot : Configs \cup {None}, model : Nat, observed : Nat,
  kernel : Nat, executed : Entrypoints \cup {None}, genuine : BOOLEAN,
  entry : [Entrypoints -> Callables], loading : Configs \cup {None},
  ran : BOOLEAN, born : Configs \cup {None}]

-----------------------------------------------------------------------------
(* The state of one worker. *)

(* A worker that becomes of its type leaves the others as they are.          *)
LEMMA OneBecomes ==
  ASSUME worker \in [Ranks -> Worker], NEW w \in Ranks, NEW self \in Worker, Becomes(w, self)
  PROVE  /\ worker' \in [Ranks -> Worker] /\ worker'[w] = self
         /\ \A v \in Ranks \ {w} : worker'[v] = worker[v]
  BY DEF Becomes

(* Removing an invocation's wrappers leaves none of them.                    *)
LEMMA RestoredEntries ==
  ASSUME worker \in [Ranks -> Worker], NEW w \in Ranks
  PROVE  /\ Restored(w) \in [Entrypoints -> Callables]
         /\ \A n \in Entrypoints :
              Restored(w)[n] \in {0, worker[w].entry[n]}
                /\ (worker[w].kernel # 0 => Restored(w)[n] # worker[w].kernel)
  BY DEF Worker, Restored, Callables

(* A step of a worker keeps its state within its type, and what the worker   *)
(* remembers true.                                                           *)
LEMMA WorkerBecomes ==
  ASSUME worker \in [Ranks -> Worker], NEW w \in Ranks, Served(worker[w]), Wrapped(worker[w]),
         \/ LoadBegins(w) \/ LoadRefused(w) \/ LoadFails(w) \/ LoadEnds(w) \/ Disturbed(w)
         \/ \E n \in Entrypoints, how \in Kinds : Called(w, n, how)
  PROVE  \E self \in Worker : Becomes(w, self) /\ Served(self) /\ Wrapped(self)
<1> USE EvidenceAssumption
<1>0. /\ worker[w] \in Worker /\ Restored(w) \in [Entrypoints -> Callables]
      /\ \A n \in Entrypoints :
           Restored(w)[n] \in {0, worker[w].entry[n]}
             /\ (worker[w].kernel # 0 => Restored(w)[n] # worker[w].kernel)
  BY RestoredEntries
<1>1. CASE LoadBegins(w)
  <2> DEFINE self == [worker[w] EXCEPT
                      !.observed = 0, !.kernel = @ + 1, !.executed = None,
                      !.entry = [n \in Entrypoints |-> worker[w].kernel + 1],
                      !.loading = worker[w].config, !.ran = FALSE]
  <2>1. Becomes(w, self)
    BY <1>1 DEF LoadBegins
  <2>2. worker[w].loading = None
    BY <1>1 DEF LoadBegins
  <2>3. [n \in Entrypoints |-> worker[w].kernel + 1] \in [Entrypoints -> Callables]
    BY <1>0 DEF Worker, Callables
  <2>4. self \in Worker
    <3> DEFINE entry == [n \in Entrypoints |-> worker[w].kernel + 1]
               next  == worker[w].kernel + 1
    <3>1. next \in Nat /\ entry \in [Entrypoints -> Callables]
      BY <1>0, <2>3 DEF Worker
    <3> HIDE DEF entry, next
    <3>2. [worker[w] EXCEPT
             !.observed = 0, !.kernel = next, !.executed = None, !.entry = entry,
             !.loading = worker[w].config, !.ran = FALSE] \in Worker
      BY ONLY <1>0, <3>1 DEF Worker
    <3> QED BY <3>2 DEF entry, next
  <2>5. Served(self)
    BY <1>0, <2>2 DEF Served, Worker
  <2>6. Wrapped(self)
    BY <1>0, <2>2 DEF Wrapped, Worker, Callables
  <2> QED BY <2>1, <2>4, <2>5, <2>6
<1>2. CASE LoadRefused(w)
  <2> DEFINE self == [worker[w] EXCEPT !.observed = 0, !.entry = Restored(w)]
  <2>1. Becomes(w, self)
    BY <1>2 DEF LoadRefused
  <2>2. self \in Worker
    BY <1>0 DEF Worker, Callables
  <2>3. Served(self)
    BY <1>0 DEF Served, Worker
  <2>4. Wrapped(self)
    BY <1>0 DEF Wrapped, Worker, Callables
  <2> QED BY <2>1, <2>2, <2>3, <2>4
<1>3. CASE LoadFails(w)
  <2>1. PICK model \in {0, worker[w].model} :
          Becomes(w, [worker[w] EXCEPT !.loading = None, !.model = model, !.entry = Restored(w)])
    BY <1>3 DEF LoadFails
  <2> DEFINE self == [worker[w] EXCEPT !.loading = None, !.model = model, !.entry = Restored(w)]
  <2>2. worker[w].loading # None
    BY <1>3 DEF LoadFails
  <2>3. model \in Nat
    BY <1>0 DEF Worker
  <2>4. self \in Worker
    BY <1>0, <2>3 DEF Worker
  <2>5. Served(self)
    BY <1>0, <2>2 DEF Served, Worker
  <2>6. Wrapped(self)
    BY <1>0, <2>2 DEF Wrapped, Worker, Callables
  <2> QED BY <2>1, <2>4, <2>5, <2>6
<1>4. CASE LoadEnds(w)
  <2>1. PICK sound \in BOOLEAN :
          Becomes(w, [worker[w] EXCEPT
            !.loading = None, !.model = worker[w].kernel, !.born = worker[w].loading,
            !.snapshot = IF sound THEN worker[w].loading ELSE @,
            !.observed = IF sound THEN worker[w].kernel ELSE @])
    BY <1>4 DEF LoadEnds
  <2> DEFINE self == [worker[w] EXCEPT
                      !.loading = None, !.model = worker[w].kernel, !.born = worker[w].loading,
                      !.snapshot = IF sound THEN worker[w].loading ELSE @,
                      !.observed = IF sound THEN worker[w].kernel ELSE @]
  <2>2. worker[w].loading # None
    BY <1>4 DEF LoadEnds
  <2>3. self \in Worker
    BY <1>0 DEF Worker, Callables
  <2>4. Served(self)
    BY <1>0, <2>2 DEF Served, Worker
  <2>5. Wrapped(self)
    BY <1>0, <2>2 DEF Wrapped, Worker, Callables
  <2> QED BY <2>1, <2>3, <2>4, <2>5
<1>5. CASE \E n \in Entrypoints, how \in Kinds : Called(w, n, how)
  <2>1. PICK n \in Entrypoints :
          Becomes(w, [worker[w] EXCEPT !.ran = TRUE, !.executed = n, !.entry = Restored(w)])
    BY <1>5 DEF Called
  <2> DEFINE self == [worker[w] EXCEPT !.ran = TRUE, !.executed = n, !.entry = Restored(w)]
  <2>2. self \in Worker
    BY <1>0 DEF Worker, Callables
  <2>3. Served(self)
    BY <1>0 DEF Served, Worker
  <2>4. Wrapped(self)
    BY <1>0 DEF Wrapped, Worker, Callables
  <2> QED BY <2>1, <2>2, <2>3, <2>4
<1>6. CASE Disturbed(w)
  <2>1. CASE \E n \in Entrypoints : Becomes(w, [worker[w] EXCEPT !.entry[n] = Foreign])
    <3>1. PICK n \in Entrypoints : Becomes(w, [worker[w] EXCEPT !.entry[n] = Foreign])
      BY <2>1
    <3> DEFINE self == [worker[w] EXCEPT !.entry[n] = Foreign]
    <3>2. self \in Worker /\ Served(self)
      BY <1>0 DEF Worker, Callables, Served
    <3>3. Wrapped(self)
      BY <1>0 DEF Worker, Wrapped
    <3> QED BY <3>1, <3>2, <3>3
  <2>2. CASE \E c \in Configs : Becomes(w, [worker[w] EXCEPT !.config = c])
    <3>1. PICK c \in Configs : Becomes(w, [worker[w] EXCEPT !.config = c])
      BY <2>2
    <3> DEFINE self == [worker[w] EXCEPT !.config = c]
    <3>2. self \in Worker /\ Served(self) /\ Wrapped(self)
      BY <1>0 DEF Worker, Served, Wrapped
    <3> QED BY <3>1, <3>2
  <2>3. CASE Becomes(w, [worker[w] EXCEPT !.model = 0, !.born = None])
    <3> DEFINE self == [worker[w] EXCEPT !.model = 0, !.born = None]
    <3>1. self \in Worker /\ Served(self) /\ Wrapped(self)
      BY <1>0 DEF Worker, Served, Wrapped
    <3> QED BY <2>3, <3>1
  <2>4. CASE Becomes(w, [worker[w] EXCEPT !.genuine = FALSE])
    <3> DEFINE self == [worker[w] EXCEPT !.genuine = FALSE]
    <3>1. self \in Worker /\ Served(self) /\ Wrapped(self)
      BY <1>0 DEF Worker, Served, Wrapped
    <3> QED BY <2>4, <3>1
  <2> QED BY <1>6, <2>1, <2>2, <2>3, <2>4 DEF Disturbed
<1> QED BY <1>1, <1>2, <1>3, <1>4, <1>5, <1>6

(* Of all workers.                                                           *)
LEMMA WorkersBecome ==
  ASSUME IInv, NEW w \in Ranks,
         \/ LoadBegins(w) \/ LoadRefused(w) \/ LoadFails(w) \/ LoadEnds(w) \/ Disturbed(w)
         \/ \E n \in Entrypoints, how \in Kinds : Called(w, n, how)
  PROVE  worker' \in [Ranks -> Worker] /\ ServedInv' /\ WrappersAreRemovable'
<1>1. /\ worker \in [Ranks -> Worker]
      /\ \A v \in Ranks : Served(worker[v]) /\ Wrapped(worker[v])
  BY DEF IInv, TypeOK, Worker, ServedInv, WrappersAreRemovable, Wrapped
<1>2. PICK self \in Worker : Becomes(w, self) /\ Served(self) /\ Wrapped(self)
  BY <1>1, WorkerBecomes
<1>3. /\ worker' \in [Ranks -> Worker] /\ worker'[w] = self
      /\ \A v \in Ranks \ {w} : worker'[v] = worker[v]
  BY <1>1, <1>2, OneBecomes
<1>4. \A v \in Ranks : Served(worker'[v]) /\ Wrapped(worker'[v])
  BY <1>1, <1>2, <1>3
<1> QED BY <1>3, <1>4 DEF ServedInv, WrappersAreRemovable, Served, Wrapped

-----------------------------------------------------------------------------
(* Each part is kept by every action, given the invariant before it. *)

(* A worker that changes, of an unchanged disk, keeps the types.            *)
LEMMA TypesStay ==
  ASSUME TypeOK, worker' \in [Ranks -> Worker], UNCHANGED <<disk, observing>>,
         cache' \in [Processes -> 0..disk.stamp], changes' = changes
  PROVE  TypeOK'
<1>1. UNCHANGED <<bound, disk, changes, applied, facts, answers, verdict>>
  BY DEF observing
<1>2. cache' \in [Processes -> 0..disk'.stamp]
  BY <1>1
<1>3. worker' \in [Ranks -> [
       config : Configs, snapshot : Configs \cup {None}, model : Nat, observed : Nat,
       kernel : Nat, executed : Entrypoints \cup {None}, genuine : BOOLEAN,
       entry : [Entrypoints -> Callables], loading : Configs \cup {None},
       ran : BOOLEAN, born : Configs \cup {None}]]
  BY DEF Worker
<1> QED
  BY ONLY TypeOK, <1>1, <1>2, <1>3 DEF TypeOK

(* Every step keeps the types of the evidence.                               *)
LEMMA TypeStep == IInv /\ Next => TypeOK'
<1> SUFFICES ASSUME IInv, Next PROVE TypeOK'
  OBVIOUS
<1>0. TypeOK
  BY DEF IInv
<1> USE EvidenceAssumption DEF observing, Ranks, Processes, IInv, TypeOK, Callables
<1>1. ASSUME NEW w \in Ranks, LoadBegins(w) PROVE TypeOK'
  <2>1. worker' \in [Ranks -> Worker]
    BY ONLY IInv, <1>1, WorkersBecome
  <2>2. UNCHANGED <<disk, observing>> /\ cache' \in [Processes -> 0..disk.stamp]
    BY <1>1 DEF LoadBegins, Remember, Extension, Verified
  <2>3. changes' = changes
    BY <1>1 DEF LoadBegins
  <2> QED BY ONLY <1>0, <2>1, <2>2, <2>3, TypesStay
<1>2. ASSUME NEW w \in Ranks, LoadRefused(w) PROVE TypeOK'
  <2>1. worker' \in [Ranks -> Worker]
    BY ONLY IInv, <1>2, WorkersBecome
  <2>2. UNCHANGED <<disk, observing>> /\ cache' \in [Processes -> 0..disk.stamp]
    BY <1>2 DEF LoadRefused
  <2>3. changes' = changes
    BY <1>2 DEF LoadRefused
  <2> QED BY ONLY <1>0, <2>1, <2>2, <2>3, TypesStay
<1>3. ASSUME NEW w \in Ranks, LoadFails(w) PROVE TypeOK'
  <2>1. worker' \in [Ranks -> Worker]
    BY ONLY IInv, <1>3, WorkersBecome
  <2>2. UNCHANGED <<disk, observing>> /\ cache' \in [Processes -> 0..disk.stamp]
    BY <1>3 DEF LoadFails
  <2>3. changes' = changes
    BY <1>3 DEF LoadFails
  <2> QED BY ONLY <1>0, <2>1, <2>2, <2>3, TypesStay
<1>4. ASSUME NEW w \in Ranks, LoadEnds(w) PROVE TypeOK'
  <2>1. worker' \in [Ranks -> Worker]
    BY ONLY IInv, <1>4, WorkersBecome
  <2>2. UNCHANGED <<disk, observing>> /\ cache' \in [Processes -> 0..disk.stamp]
    BY <1>4 DEF LoadEnds
  <2>3. changes' = changes
    BY <1>4 DEF LoadEnds
  <2> QED BY ONLY <1>0, <2>1, <2>2, <2>3, TypesStay
<1>5. ASSUME NEW w \in Ranks, NEW n \in Entrypoints, NEW how \in Kinds, Called(w, n,
    how) PROVE TypeOK'
  <2>1. worker' \in [Ranks -> Worker]
    BY ONLY IInv, <1>5, WorkersBecome
  <2>2. UNCHANGED <<disk, observing>> /\ cache' \in [Processes -> 0..disk.stamp]
    BY <1>5 DEF Called, Remember, Extension, Verified
  <2>3. changes' = changes
    BY <1>5 DEF Called
  <2> QED BY ONLY <1>0, <2>1, <2>2, <2>3, TypesStay
<1>6. ASSUME NEW w \in Ranks, Disturbed(w) PROVE TypeOK'
  <2>1. worker' \in [Ranks -> Worker]
    BY ONLY IInv, <1>6, WorkersBecome
  <2>2. disk' = disk /\ UNCHANGED observing /\ cache' \in [Processes -> 0..disk.stamp]
    BY <1>6 DEF Disturbed
  <2>3. changes' \in 0..MaxChanges /\ changes' >= changes
    BY <1>6 DEF Disturbed, Changed
  <2>4. disk' \in [good : BOOLEAN, stamp : 1..(changes' + 1)]
    BY <2>2, <2>3
  <2>5. /\ bound' \in Bindings /\ applied' \in Configs /\ facts' \in {None, Planned}
        /\ verdict' \in {"none", "accepted", "refused"}
    BY <2>2
  <2>6. answers' \in [Ranks -> {None} \cup [
          ready : BOOLEAN, rank : Ranks, device : {bound'[v] : v \in Ranks},
          config : Configs, truth : BOOLEAN]]
    BY <2>2
  <2>7. cache' \in [Processes -> 0..disk'.stamp]
    BY ONLY <2>2
  <2>8. worker' \in [Ranks -> [
       config : Configs, snapshot : Configs \cup {None}, model : Nat, observed : Nat,
       kernel : Nat, executed : Entrypoints \cup {None}, genuine : BOOLEAN,
       entry : [Entrypoints -> Callables], loading : Configs \cup {None},
       ran : BOOLEAN, born : Configs \cup {None}]]
    BY ONLY <2>1 DEF Worker
  <2> QED BY ONLY <2>3, <2>4, <2>5, <2>6, <2>7, <2>8 DEF TypeOK
<1>7. ASSUME NEW w \in Ranks, Answer(w) PROVE TypeOK'
  <2> DEFINE row == [ready |-> Vouches(w), rank |-> w, device |-> bound[w],
                     config |-> worker[w].config, truth |-> Truth(w)]
  <2>1. UNCHANGED <<worker, bound, changes, disk, applied, facts, verdict>>
    BY ONLY <1>7 DEF Answer
  <2>2. answers' = [answers EXCEPT ![w] = row]
    BY ONLY <1>7 DEF Answer
  <2>3. worker[w].config \in Configs
    BY ONLY <1>0, <1>7 DEF TypeOK
  <2>4. Vouches(w) \in BOOLEAN /\ Truth(w) \in BOOLEAN
    BY ONLY DEF Vouches, Truth
  <2>5. row \in [ready : BOOLEAN, rank : Ranks, device : {bound[v] : v \in Ranks},
                 config : Configs, truth : BOOLEAN]
    BY ONLY <1>7, <2>3, <2>4
  <2>6. answers' \in [Ranks -> {None} \cup [
          ready : BOOLEAN, rank : Ranks, device : {bound'[v] : v \in Ranks},
          config : Configs, truth : BOOLEAN]]
    <3> HIDE DEF row
    <3> QED BY ONLY <1>0, <2>1, <2>2, <2>5 DEF TypeOK
  <2>7. w \in Processes
    BY <1>7
  <2>8. cache \in [Processes -> 0..disk.stamp] /\ disk.stamp \in 0..disk.stamp
    BY ONLY <1>0 DEF TypeOK
  <2>9. cache' \in [Processes -> 0..disk'.stamp]
    <3>1. CASE Vouches(w)
      BY ONLY <1>7, <2>1, <2>7, <2>8, <3>1 DEF Answer
    <3>2. CASE ~Vouches(w)
      BY ONLY <1>7, <2>1, <2>8, <3>2 DEF Answer
    <3> QED BY ONLY <3>1, <3>2
  <2> QED BY ONLY <1>0, <2>1, <2>6, <2>9 DEF TypeOK
<1>8. CASE FileChanges
  <2>1. UNCHANGED <<worker, bound, observing, cache>> /\ changes' = changes + 1
        /\ changes < MaxChanges
    BY ONLY <1>8 DEF FileChanges, Changed
  <2>2. changes \in 0..MaxChanges /\ disk \in [good : BOOLEAN, stamp : 1..(changes + 1)]
        /\ cache \in [Processes -> 0..disk.stamp]
    BY ONLY <1>0 DEF TypeOK
  <2>3. changes' \in 0..MaxChanges
    BY <2>1, <2>2
  <2>4. disk' \in [good : BOOLEAN, stamp : 1..(changes' + 1)] /\ disk'.stamp >= disk.stamp
    BY ONLY <1>8, <2>1, <2>2 DEF FileChanges, Changed
  <2>5. cache' \in [Processes -> 0..disk'.stamp]
    BY ONLY <2>1, <2>2, <2>4
  <2> QED BY ONLY <1>0, <2>1, <2>3, <2>4, <2>5 DEF TypeOK, observing
<1>9. CASE ConfigurationChanges
  BY <1>9 DEF ConfigurationChanges, Changed
<1>10. CASE Ask
  BY <1>10 DEF Ask, Verified, Remember
<1>11. CASE Conclude
  <2>1. /\ facts' = None /\ verdict' \in {"accepted", "refused"}
        /\ UNCHANGED <<worker, bound, changes, disk, cache, applied, answers>>
    BY <1>11 DEF Conclude
  <2> QED BY <2>1
<1>12. CASE Unavailable
  <2>1. facts' = None /\ verdict' = "refused"
        /\ UNCHANGED <<worker, bound, changes, disk, cache, applied, answers>>
    BY <1>12 DEF Unavailable
  <2> QED BY <2>1
<1> QED BY <1>1, <1>2, <1>3, <1>4, <1>5, <1>6, <1>7, <1>8, <1>9, <1>10, <1>11, <1>12 DEF
    Next, WorkerStep

(* Every step keeps what is remembered of the installed files true.          *)
LEMMA FilesStep == IInv /\ Next => FilesInv'
<1> SUFFICES ASSUME IInv, Next PROVE FilesInv'
  OBVIOUS
<1> USE EvidenceAssumption DEF observing, Ranks, Processes, IInv, TypeOK, FilesInv
<1>1. ASSUME NEW w \in Ranks, LoadBegins(w) PROVE FilesInv'
  BY <1>1 DEF LoadBegins, Extension, Verified, Native, Restored, Remember
<1>2. ASSUME NEW w \in Ranks, LoadRefused(w) PROVE FilesInv'
  BY <1>2 DEF LoadRefused, Restored
<1>3. ASSUME NEW w \in Ranks, LoadFails(w) PROVE FilesInv'
  BY <1>3 DEF LoadFails, Restored
<1>4. ASSUME NEW w \in Ranks, LoadEnds(w) PROVE FilesInv'
  BY <1>4 DEF LoadEnds, Verified
<1>5. ASSUME NEW w \in Ranks, NEW n \in Entrypoints, NEW how \in Kinds, Called(w, n,
    how) PROVE FilesInv'
  BY <1>5 DEF Called, Instrumented, Extension, Verified, Restored, Remember
<1>6. ASSUME NEW w \in Ranks, Disturbed(w) PROVE FilesInv'
  BY <1>6 DEF Disturbed, Changed
<1>7. ASSUME NEW w \in Ranks, Answer(w) PROVE FilesInv'
  BY <1>7 DEF Answer, Vouches, Evidence, Extension, Verified, Truth
<1>8. CASE FileChanges
  <2>1. disk'.stamp = disk.stamp + 1 /\ cache' = cache
    BY <1>8 DEF FileChanges
  <2>2. \A p \in Processes : cache[p] \in 0..disk.stamp
    OBVIOUS
  <2>3. disk.stamp \in Nat
    OBVIOUS
  <2>4. \A p \in Processes : cache[p] # disk.stamp + 1
    BY <2>2, <2>3
  <2> QED BY <2>1, <2>4
<1>9. CASE ConfigurationChanges
  BY <1>9 DEF ConfigurationChanges, Changed
<1>10. CASE Ask
  BY <1>10 DEF Ask, Verified, Remember
<1>11. CASE Conclude
  BY <1>11 DEF Conclude, Corroborated, Validated
<1>12. CASE Unavailable
  BY <1>12 DEF Unavailable
<1> QED BY <1>1, <1>2, <1>3, <1>4, <1>5, <1>6, <1>7, <1>8, <1>9, <1>10, <1>11, <1>12 DEF
    Next, WorkerStep

(* Every step keeps what a worker remembers of its load and kernels true.    *)
LEMMA ServedStep == IInv /\ Next => ServedInv'
<1> SUFFICES ASSUME IInv, Next PROVE ServedInv'
  OBVIOUS
<1> USE DEF IInv, observing, ServedInv, Served
<1>1. ASSUME NEW w \in Ranks, LoadBegins(w) PROVE ServedInv'
  BY <1>1, WorkersBecome
<1>2. ASSUME NEW w \in Ranks, LoadRefused(w) PROVE ServedInv'
  BY <1>2, WorkersBecome
<1>3. ASSUME NEW w \in Ranks, LoadFails(w) PROVE ServedInv'
  BY <1>3, WorkersBecome
<1>4. ASSUME NEW w \in Ranks, LoadEnds(w) PROVE ServedInv'
  BY <1>4, WorkersBecome
<1>5. ASSUME NEW w \in Ranks, NEW n \in Entrypoints, NEW how \in Kinds, Called(w, n,
    how) PROVE ServedInv'
  BY <1>5, WorkersBecome
<1>6. ASSUME NEW w \in Ranks, Disturbed(w) PROVE ServedInv'
  BY <1>6, WorkersBecome
<1>7. ASSUME NEW w \in Ranks, Answer(w) PROVE ServedInv'
  BY <1>7 DEF Answer, Vouches, Evidence, Extension, Verified, Truth
<1>8. CASE FileChanges
  BY <1>8 DEF FileChanges, Changed
<1>9. CASE ConfigurationChanges
  BY <1>9 DEF ConfigurationChanges, Changed
<1>10. CASE Ask
  BY <1>10 DEF Ask, Verified, Remember
<1>11. CASE Conclude
  BY <1>11 DEF Conclude, Corroborated, Validated
<1>12. CASE Unavailable
  BY <1>12 DEF Unavailable
<1> QED BY <1>1, <1>2, <1>3, <1>4, <1>5, <1>6, <1>7, <1>8, <1>9, <1>10, <1>11, <1>12 DEF
    Next, WorkerStep

(* Every step leaves no wrapper but the current invocation's.                *)
LEMMA WrappersStep == IInv /\ Next => WrappersAreRemovable'
<1> SUFFICES ASSUME IInv, Next PROVE WrappersAreRemovable'
  OBVIOUS
<1> USE DEF IInv, observing, WrappersAreRemovable
<1>1. ASSUME NEW w \in Ranks, LoadBegins(w) PROVE WrappersAreRemovable'
  BY <1>1, WorkersBecome
<1>2. ASSUME NEW w \in Ranks, LoadRefused(w) PROVE WrappersAreRemovable'
  BY <1>2, WorkersBecome
<1>3. ASSUME NEW w \in Ranks, LoadFails(w) PROVE WrappersAreRemovable'
  BY <1>3, WorkersBecome
<1>4. ASSUME NEW w \in Ranks, LoadEnds(w) PROVE WrappersAreRemovable'
  BY <1>4, WorkersBecome
<1>5. ASSUME NEW w \in Ranks, NEW n \in Entrypoints, NEW how \in Kinds, Called(w, n,
    how) PROVE WrappersAreRemovable'
  BY <1>5, WorkersBecome
<1>6. ASSUME NEW w \in Ranks, Disturbed(w) PROVE WrappersAreRemovable'
  BY <1>6, WorkersBecome
<1>7. ASSUME NEW w \in Ranks, Answer(w) PROVE WrappersAreRemovable'
  BY <1>7 DEF Answer, Vouches, Evidence, Extension, Verified, Truth
<1>8. CASE FileChanges
  BY <1>8 DEF FileChanges, Changed
<1>9. CASE ConfigurationChanges
  BY <1>9 DEF ConfigurationChanges, Changed
<1>10. CASE Ask
  BY <1>10 DEF Ask, Verified, Remember
<1>11. CASE Conclude
  BY <1>11 DEF Conclude, Corroborated, Validated
<1>12. CASE Unavailable
  BY <1>12 DEF Unavailable
<1> QED BY <1>1, <1>2, <1>3, <1>4, <1>5, <1>6, <1>7, <1>8, <1>9, <1>10, <1>11, <1>12 DEF
    Next, WorkerStep

(* Every step keeps the answers true.                                        *)
LEMMA AnswersStep == IInv /\ Next => AnswersInv'
<1> SUFFICES ASSUME IInv, Next PROVE AnswersInv'
  OBVIOUS
<1> USE EvidenceAssumption DEF observing, Ranks, Processes, IInv, TypeOK, AnswersInv,
    FilesInv, ServedInv, Served
<1>1. ASSUME NEW w \in Ranks, LoadBegins(w) PROVE AnswersInv'
  BY <1>1 DEF LoadBegins, Extension, Verified, Native, Restored, Remember
<1>2. ASSUME NEW w \in Ranks, LoadRefused(w) PROVE AnswersInv'
  BY <1>2 DEF LoadRefused, Restored
<1>3. ASSUME NEW w \in Ranks, LoadFails(w) PROVE AnswersInv'
  BY <1>3 DEF LoadFails, Restored
<1>4. ASSUME NEW w \in Ranks, LoadEnds(w) PROVE AnswersInv'
  BY <1>4 DEF LoadEnds, Verified
<1>5. ASSUME NEW w \in Ranks, NEW n \in Entrypoints, NEW how \in Kinds, Called(w, n,
    how) PROVE AnswersInv'
  BY <1>5 DEF Called, Instrumented, Extension, Verified, Restored, Remember
<1>6. ASSUME NEW w \in Ranks, Disturbed(w) PROVE AnswersInv'
  BY <1>6 DEF Disturbed, Changed
<1>7. ASSUME NEW w \in Ranks, Answer(w) PROVE AnswersInv'
  <2>1. answers' = [answers EXCEPT ![w] =
          [ready |-> Vouches(w), rank |-> w, device |-> bound[w],
           config |-> worker[w].config, truth |-> Truth(w)]]
        /\ UNCHANGED <<facts, verdict>>
    BY <1>7 DEF Answer
  <2>2. Vouches(w) /\ worker[w].config = Planned /\ bound[w] = Placement[w] => Truth(w)
    <3>1. Verified(w) => disk.good
      BY DEF Verified
    <3>2. Vouches(w) => worker[w].ran /\ worker[w].born = worker[w].config /\ disk.good
      BY <3>1 DEF Vouches, Evidence
    <3> QED BY <3>2 DEF Truth
  <2>3. answers'[w].rank = w /\ answers'[w].ready = Vouches(w)
        /\ answers'[w].config = worker[w].config /\ answers'[w].device = bound[w]
        /\ answers'[w].truth = Truth(w)
    BY <2>1
  <2>4. \A v \in Ranks \ {w} : answers'[v] = answers[v]
    BY <2>1
  <2>5. UNCHANGED <<facts, verdict>>
    BY <2>1
  <2>6. AnswersInv
    BY DEF IInv
  <2> QED BY ONLY <1>7, <2>2, <2>3, <2>4, <2>5, <2>6 DEF AnswersInv
<1>8. CASE FileChanges
  BY <1>8 DEF FileChanges, Changed
<1>9. CASE ConfigurationChanges
  BY <1>9 DEF ConfigurationChanges, Changed
<1>10. CASE Ask
  BY <1>10 DEF Ask, Verified, Remember
<1>11. CASE Conclude
  BY <1>11 DEF Conclude, Corroborated, Validated
<1>12. CASE Unavailable
  BY <1>12 DEF Unavailable
<1> QED BY <1>1, <1>2, <1>3, <1>4, <1>5, <1>6, <1>7, <1>8, <1>9, <1>10, <1>11, <1>12 DEF
    Next, WorkerStep

(* Every step keeps an accepted observation true.                            *)
LEMMA AcceptedStep == IInv /\ Next => AcceptedIsTrue'
<1> SUFFICES ASSUME IInv, Next PROVE AcceptedIsTrue'
  OBVIOUS
<1> USE EvidenceAssumption DEF observing, Ranks, Processes, IInv, TypeOK,
    AcceptedIsTrue, AnswersInv
<1>1. ASSUME NEW w \in Ranks, LoadBegins(w) PROVE AcceptedIsTrue'
  BY <1>1 DEF LoadBegins, Extension, Verified, Native, Restored, Remember
<1>2. ASSUME NEW w \in Ranks, LoadRefused(w) PROVE AcceptedIsTrue'
  BY <1>2 DEF LoadRefused, Restored
<1>3. ASSUME NEW w \in Ranks, LoadFails(w) PROVE AcceptedIsTrue'
  BY <1>3 DEF LoadFails, Restored
<1>4. ASSUME NEW w \in Ranks, LoadEnds(w) PROVE AcceptedIsTrue'
  BY <1>4 DEF LoadEnds, Verified
<1>5. ASSUME NEW w \in Ranks, NEW n \in Entrypoints, NEW how \in Kinds, Called(w, n,
    how) PROVE AcceptedIsTrue'
  BY <1>5 DEF Called, Instrumented, Extension, Verified, Restored, Remember
<1>6. ASSUME NEW w \in Ranks, Disturbed(w) PROVE AcceptedIsTrue'
  BY <1>6 DEF Disturbed, Changed
<1>7. ASSUME NEW w \in Ranks, Answer(w) PROVE AcceptedIsTrue'
  BY <1>7 DEF Answer, Vouches, Evidence, Extension, Verified, Truth
<1>8. CASE FileChanges
  BY <1>8 DEF FileChanges, Changed
<1>9. CASE ConfigurationChanges
  BY <1>9 DEF ConfigurationChanges, Changed
<1>10. CASE Ask
  BY <1>10 DEF Ask, Verified, Remember
<1>11. CASE Conclude
  <2> SUFFICES ASSUME verdict' = "accepted", NEW w \in Ranks
               PROVE  answers'[w] # None /\ answers'[w].truth
    OBVIOUS
  <2>1. facts = Planned /\ answers' = answers /\ \A v \in Ranks : answers[v] # None
    BY <1>11 DEF Conclude
  <2>2. PICK gathered \in [Ranks -> Ranks] :
          LET rows == [i \in Ranks |-> answers[gathered[i]]]
          IN \A i \in Ranks :
               rows[i].ready /\ rows[i].rank = i /\ rows[i].config = facts
                 /\ rows[i].device = Placement[i]
    BY <1>11 DEF Conclude, Corroborated
  <2>3. gathered[w] = w
    BY <2>1, <2>2
  <2> QED BY <2>1, <2>2, <2>3
<1>12. CASE Unavailable
  BY <1>12 DEF Unavailable
<1> QED BY <1>1, <1>2, <1>3, <1>4, <1>5, <1>6, <1>7, <1>8, <1>9, <1>10, <1>11, <1>12 DEF
    Next, WorkerStep

(* The initial states satisfy the invariant.                                 *)
LEMMA InitInvariant == Init => IInv
<1> SUFFICES ASSUME Init PROVE IInv
  OBVIOUS
<1> USE EvidenceAssumption DEF Init, NewWorker, Ranks, Processes
<1>1. TypeOK
  BY DEF TypeOK, Callables
<1>2. FilesInv /\ ServedInv
  BY DEF FilesInv, ServedInv, Served
<1>3. WrappersAreRemovable /\ AnswersInv /\ AcceptedIsTrue
  BY DEF WrappersAreRemovable, AnswersInv, AcceptedIsTrue
<1> QED BY <1>1, <1>2, <1>3 DEF IInv

(* Every step, a stuttering one too, keeps it.                               *)
LEMMA StepInvariant == IInv /\ [Next]_vars => IInv'
<1> SUFFICES ASSUME IInv, [Next]_vars PROVE IInv'
  OBVIOUS
<1>1. CASE Next
  BY <1>1, TypeStep, FilesStep, ServedStep, WrappersStep, AnswersStep, AcceptedStep DEF IInv
<1>2. CASE UNCHANGED vars
  BY <1>2 DEF vars, IInv, TypeOK, FilesInv, ServedInv, WrappersAreRemovable, AnswersInv,
     AcceptedIsTrue
<1> QED BY <1>1, <1>2

-----------------------------------------------------------------------------
(* The invariant holds in every behaviour.                                   *)
THEOREM EvidenceInvariant == Spec => []IInv
<1> QED BY InitInvariant, StepInvariant, PTL DEF Spec

(* The evidence keeps its types.                                             *)
THEOREM EvidenceTypeCorrect == Spec => []TypeOK
<1>1. IInv => TypeOK
  BY DEF IInv
<1> QED BY <1>1, EvidenceInvariant, PTL

(* An observation is accepted only if every rank, when it answered, served   *)
(* the planned model on its device, with reviewed files, and had run a       *)
(* native kernel since its load began.                                       *)
THEOREM AcceptedObservationsAreTrue == Spec => []AcceptedIsTrue
<1>1. IInv => AcceptedIsTrue
  BY DEF IInv
<1> QED BY <1>1, EvidenceInvariant, PTL

(* A wrapper that is left is the current invocation's, which has no evidence *)
(* yet.                                                                      *)
THEOREM InstrumentIsRemovable == Spec => []WrappersAreRemovable
<1>1. IInv => WrappersAreRemovable
  BY DEF IInv
<1> QED BY <1>1, EvidenceInvariant, PTL
=============================================================================
