------------------------ MODULE TeamDeliveriesProofs -------------------------
(***************************************************************************)
(* Proofs about the deliveries of a team room, for any number of           *)
(* deliveries, threads, managers and restarts.                             *)
(***************************************************************************)
EXTENDS TeamDeliveries, WellFoundedInduction, TLAPS

Stages == {"off", "preparing", "polling"}
RowStates == {"none", "queued", "running"} \cup Final

\* What holds of the rows st, the calls p and the deliveries g given, also halfway
\* through a step, before pump: a row runs while its call does; rows are posted in
\* order; what is behind a delivery that runs or was given is over; and only a
\* call that polls, or a row that is over, has had its instructions given.
Core(st, p, g) ==
  /\ st \in [Deliveries -> RowStates]
  /\ p \in [Deliveries -> Stages]
  /\ g \in [Deliveries -> Nat]
  /\ \A d \in Deliveries : st[d] = "running" <=> p[d] # "off"
  /\ \A d, e \in Deliveries : d < e /\ st[d] = "none" => st[e] = "none"
  /\ \A d, e \in Deliveries :
       d < e /\ ThreadOf[d] = ThreadOf[e] /\ (st[e] = "running" \/ g[e] > 0) => st[d] \in Final
  /\ \A d \in Deliveries :
       g[d] <= 1 /\ (g[d] > 0 => p[d] = "polling" \/ st[d] \in Final)

\* The threads: one that is interrupted and will not be recovered was stopped.
ThreadInv ==
  /\ thread \in [Threads -> {"idle", "running", "completed", "error", "interrupted"}]
  /\ recovery \in [Threads -> {"none", "pending", "claimed"}]
  /\ stopped \in [Threads -> {"no", "user", "halt", "interrupt"}]
  /\ halted \in BOOLEAN /\ halting \subseteq Threads
  /\ \A t \in Threads : thread[t] = "interrupted" /\ recovery[t] = "none" => stopped[t] # "no"

\* What holds of the reviews n, the exhausted rows ex and the excused failures exc when
\* the rows are st: a failed row stays failed, so its request and what its error says
\* do as well.
Reviewed(st, n, ex, exc) ==
  /\ n \in [Deliveries -> {0, 1}]
  /\ ex \subseteq SameBackend
  /\ \A d \in Deliveries : n[d] = 1 => st[d] = "failed" /\ d \in Managed \ ex
  /\ \A d \in ex : st[d] = "failed"
  /\ \A d \in Managed \ ex : st[d] = "failed" => n[d] = 1 \/ d \in exc

ReviewInv == Reviewed(status, reviews, exhausted, excused)

IInv == Core(status, pc, given) /\ ThreadInv /\ ReviewInv /\ NothingStranded

------------------------------------------------------------------------------
\* pump

\* What one call of pump does: it changes queued rows only, and none under a halt;
\* it cancels what a stop has abandoned and claims the first of a thread that has
\* nothing running.
LEMMA PumpSteps ==
  ASSUME NEW st \in [Deliveries -> RowStates], NEW p \in [Deliveries -> Stages],
         NEW th, NEW rec, NEW h \in BOOLEAN, Pump(st, p, th, rec, h)
  PROVE  /\ status' \in [Deliveries -> RowStates]
         /\ pc' \in [Deliveries -> Stages]
         /\ \A d \in Deliveries : status'[d] # st[d] =>
              st[d] = "queued" /\ ~h /\ status'[d] \in {"cancelled", "running"}
         /\ \A d \in Deliveries : st[d] = "queued" /\ status'[d] = "cancelled" =>
              AbandonedByStop(ThreadOf[d], th, rec)
         /\ \A d \in Deliveries : st[d] = "queued" /\ status'[d] = "running" =>
              ~ThreadBusy(d, st) /\ First(d, st, p) /\ pc'[d] = "preparing"
         /\ \A d \in Deliveries : ~(st[d] = "queued" /\ status'[d] = "running") => pc'[d] = p[d]
         /\ \A d \in Deliveries : status'[d] = "queued" /\ ~h =>
              /\ ~AbandonedByStop(ThreadOf[d], th, rec)
              /\ ThreadBusy(d, st) \/ p[d] # "off" \/ ~First(d, st, p)
<1>1. \A d \in Deliveries : status'[d] = Pumped(d, st, p, th, rec, h)
  BY DEF Pump
<1>2. \A d \in Deliveries : pc'[d] = IF st[d] = "queued" /\ status'[d] = "running"
                                     THEN "preparing" ELSE p[d]
  BY <1>1 DEF Pump
<1>3. \A d \in Deliveries : Pumped(d, st, p, th, rec, h) \in RowStates
  BY DEF Pumped, RowStates, Final
<1>4. status' \in [Deliveries -> RowStates] /\ pc' \in [Deliveries -> Stages]
  BY <1>3 DEF Pump, Stages
<1> QED BY <1>1, <1>2, <1>4 DEF Pumped

\* pump keeps Core: a claim finds every earlier delivery of the thread over.
LEMMA PumpKeepsCore ==
  ASSUME NEW st, NEW p, NEW g, Core(st, p, g),
         NEW th, NEW rec, NEW h \in BOOLEAN, Pump(st, p, th, rec, h)
  PROVE  Core(status', pc', g)
<1>1. st \in [Deliveries -> RowStates] /\ p \in [Deliveries -> Stages] /\ g \in [Deliveries -> Nat]
  BY DEF Core
<1> DEFINE Claimed(d) == st[d] = "queued" /\ status'[d] = "running"
<1>2. \A d \in Deliveries : Claimed(d) => \A e \in Deliveries :
        e < d /\ ThreadOf[e] = ThreadOf[d] => st[e] \in Final
  <2> SUFFICES ASSUME NEW d \in Deliveries, Claimed(d), NEW e \in Deliveries,
                      e < d, ThreadOf[e] = ThreadOf[d]
               PROVE  st[e] \in Final
    OBVIOUS
  <2>1. st[e] # "running"
    BY <1>1, PumpSteps DEF ThreadBusy
  <2>2. st[e] # "none"
    BY DEF Core
  <2>3. e \in 1..(d - 1)
    BY TeamAssumption DEF Deliveries
  <2>4. ~(st[e] = "queued" /\ p[e] = "off")
    BY <1>1, <2>3, PumpSteps DEF First
  <2>5. st[e] # "queued"
    BY <2>4 DEF Core
  <2> QED BY <1>1, <2>1, <2>2, <2>5 DEF RowStates
<1>3. \A d \in Deliveries : st[d] \in Final \cup {"none", "running"} => status'[d] = st[d]
  BY <1>1, PumpSteps DEF Final
<1>4. \A d \in Deliveries : status'[d] = "running" <=> pc'[d] # "off"
  BY <1>1, PumpSteps DEF Core
<1>5. \A d, e \in Deliveries : d < e /\ status'[d] = "none" => status'[e] = "none"
  BY <1>1, <1>3, PumpSteps DEF Core
<1>6. \A d, e \in Deliveries :
        d < e /\ ThreadOf[d] = ThreadOf[e] /\ (status'[e] = "running" \/ g[e] > 0)
        => status'[d] \in Final
  BY <1>1, <1>2, <1>3, PumpSteps DEF Core
<1>7. \A d \in Deliveries : g[d] <= 1 /\ (g[d] > 0 => pc'[d] = "polling" \/ status'[d] \in Final)
  BY <1>1, <1>3, PumpSteps DEF Core, Final
<1> QED BY <1>1, <1>4, <1>5, <1>6, <1>7, PumpSteps DEF Core

\* pump leaves nothing stranded: the first queued delivery of a thread is claimed, or
\* what keeps it back runs.
LEMMA PumpStrandsNothing ==
  ASSUME NEW st, NEW p, NEW g, Core(st, p, g),
         Pump(st, p, thread', recovery', halted'), halted' \in BOOLEAN
  PROVE  NothingStranded'
<1>1. st \in [Deliveries -> RowStates] /\ p \in [Deliveries -> Stages]
  BY DEF Core
<1> SUFFICES ASSUME NEW d \in Deliveries, status'[d] = "queued", ~halted'
             PROVE  /\ ThreadBusy(d, status')
                    /\ ~(thread'[ThreadOf[d]] = "interrupted" /\ recovery'[ThreadOf[d]] = "none")
  BY DEF NothingStranded, ThreadBusy
<1>2. st[d] = "queued"
  BY <1>1, PumpSteps
<1>3. p[d] = "off"
  BY <1>1, <1>2 DEF Core
<1>4. ~AbandonedByStop(ThreadOf[d], thread', recovery')
  BY <1>1, PumpSteps
<1>5. ASSUME ThreadBusy(d, st) PROVE ThreadBusy(d, status')
  BY <1>1, <1>5, PumpSteps DEF ThreadBusy
<1>6. ASSUME ~ThreadBusy(d, st) PROVE ThreadBusy(d, status')
  <2> DEFINE Q == {e \in Deliveries : ThreadOf[e] = ThreadOf[d] /\ st[e] = "queued"}
  <2>1. Q \subseteq Nat /\ Q # {}
    BY <1>2, TeamAssumption DEF Deliveries
  <2>2. PICK e \in Q : \A f \in Q : ~(<<f, e>> \in OpToRel(<, Nat))
    BY <2>1, WFMin, NatLessThanWellFounded
  <2>3. \A f \in Q : ~(f < e)
    BY <2>1, <2>2 DEF OpToRel
  <2>4. First(e, st, p)
    <3> SUFFICES ASSUME NEW f \in 1..(e - 1), ThreadOf[f] = ThreadOf[e], st[f] = "queued"
                 PROVE  FALSE
      BY DEF First
    <3>1. f \in Deliveries /\ f < e
      BY TeamAssumption DEF Deliveries
    <3> QED BY <2>3, <3>1
  <2>5. ~ThreadBusy(e, st) /\ p[e] = "off"
    BY <1>1, <1>6 DEF ThreadBusy, Core
  <2>6. ~AbandonedByStop(ThreadOf[e], thread', recovery')
    BY <1>4
  <2>7. status'[e] = "running"
    BY <2>4, <2>5, <2>6 DEF Pump, Pumped
  <2> QED BY <2>7 DEF ThreadBusy
<1>7. ~(thread'[ThreadOf[d]] = "interrupted" /\ recovery'[ThreadOf[d]] = "none")
  BY <1>4 DEF AbandonedByStop
<1> QED BY <1>5, <1>6, <1>7

------------------------------------------------------------------------------
\* The actions

\* The step CancelledByStops is about.
CancelStep ==
  \A d \in Deliveries : status[d] = "queued" /\ status'[d] = "cancelled" =>
    stopped'[ThreadOf[d]] # "no" \/ recovery[ThreadOf[d]] = "claimed"

\* A step that ends with pump on the rows st and the calls p keeps the invariant if
\* these are in order and the threads are.
LEMMA PumpStep ==
  ASSUME NEW st, NEW p, Core(st, p, given'), ThreadInv',
         Pump(st, p, thread', recovery', halted'),
         Reviewed(st, reviews', exhausted', excused'),
         \A t \in Threads : recovery'[t] = "claimed" => recovery[t] = "claimed",
         \A d \in Deliveries : status[d] = "queued" => st[d] = "queued"
  PROVE  IInv' /\ CancelStep
<1>1. st \in [Deliveries -> RowStates] /\ p \in [Deliveries -> Stages] /\ halted' \in BOOLEAN
  BY DEF Core, ThreadInv
<1>2. Core(status', pc', given')
  BY <1>1, PumpKeepsCore
<1>3. NothingStranded'
  BY <1>1, PumpStrandsNothing
<1>4. ReviewInv'
  <2>1. \A d \in Deliveries : status'[d] = "failed" <=> st[d] = "failed"
    BY <1>1, PumpSteps
  <2> QED BY <2>1, TeamAssumption DEF ReviewInv, Reviewed
<1>5. CancelStep
  <2> SUFFICES ASSUME NEW d \in Deliveries, status[d] = "queued", status'[d] = "cancelled"
               PROVE  stopped'[ThreadOf[d]] # "no" \/ recovery[ThreadOf[d]] = "claimed"
    BY DEF CancelStep
  <2>1. AbandonedByStop(ThreadOf[d], thread', recovery') /\ ThreadOf[d] \in Threads
    BY <1>1, PumpSteps, TeamAssumption
  <2> QED BY <2>1 DEF AbandonedByStop, ThreadInv
<1> QED BY <1>2, <1>3, <1>4, <1>5 DEF IInv, Core

\* A step that settles the call of d with the row s and pumps.
LEMMA EndsStep ==
  ASSUME IInv, NEW d \in Deliveries, NEW s \in {"queued"} \cup Final, pc[d] # "off",
         Ends(d, s, thread'), ThreadInv', UNCHANGED <<recovery, halted, excused>>,
         given' = given \/ (s \in Final /\ given[d] = 0 /\ given' = [given EXCEPT ![d] = @ + 1]),
         s = "queued" => pc[d] = "preparing",
         IF s = "failed"
         THEN /\ exhausted' \in {exhausted, exhausted \cup ({d} \cap SameBackend)}
              /\ reviews' = [reviews EXCEPT ![d] = Escalated(d, @, exhausted')]
         ELSE UNCHANGED <<exhausted, reviews>>
  PROVE  IInv' /\ CancelStep
<1> DEFINE st == [status EXCEPT ![d] = s]
           p == [pc EXCEPT ![d] = "off"]
<1>0. /\ status \in [Deliveries -> RowStates] /\ pc \in [Deliveries -> Stages]
      /\ given \in [Deliveries -> Nat] /\ status[d] = "running"
  BY DEF IInv, Core
<1>1. given' \in [Deliveries -> Nat] /\ \A e \in Deliveries \ {d} : given'[e] = given[e]
  BY <1>0
<1>2. /\ st \in [Deliveries -> RowStates] /\ p \in [Deliveries -> Stages]
      /\ st[d] = s /\ p[d] = "off" /\ s # "running" /\ s # "none" /\ s \in RowStates
      /\ \A e \in Deliveries \ {d} : st[e] = status[e] /\ p[e] = pc[e]
  BY <1>0 DEF RowStates, Stages, Final
<1>3. given'[d] <= 1 /\ (given'[d] > 0 => s \in Final)
  BY <1>0 DEF IInv, Core, Final, Stages
<1>4. \A e \in Deliveries : st[e] = "running" <=> p[e] # "off"
  BY <1>2 DEF IInv, Core
<1>5. \A e, f \in Deliveries : e < f /\ st[e] = "none" => st[f] = "none"
  BY <1>0, <1>2 DEF IInv, Core
<1>6. \A e, f \in Deliveries :
        e < f /\ ThreadOf[e] = ThreadOf[f] /\ (st[f] = "running" \/ given'[f] > 0) => st[e] \in Final
  <2> SUFFICES ASSUME NEW e \in Deliveries, NEW f \in Deliveries, e < f,
                      ThreadOf[e] = ThreadOf[f], st[f] = "running" \/ given'[f] > 0
               PROVE  st[e] \in Final
    OBVIOUS
  <2>1. status[f] = "running" \/ given[f] > 0
    BY <1>0, <1>1, <1>2
  <2>2. status[e] \in Final
    BY <2>1 DEF IInv, Core
  <2> QED BY <1>0, <1>2, <2>2 DEF Final
<1>7. \A e \in Deliveries :
        given'[e] <= 1 /\ (given'[e] > 0 => p[e] = "polling" \/ st[e] \in Final)
  BY <1>1, <1>2, <1>3 DEF IInv, Core
<1>8. Core(st, p, given')
  BY <1>1, <1>2, <1>4, <1>5, <1>6, <1>7 DEF Core
<1>9. Reviewed(st, reviews', exhausted', excused')
  <2>1. /\ reviews \in [Deliveries -> {0, 1}] /\ exhausted \subseteq SameBackend
        /\ SameBackend \subseteq Managed /\ Managed \subseteq Deliveries
        /\ reviews[d] = 0 /\ d \notin exhausted
    BY <1>0, TeamAssumption DEF IInv, ReviewInv, Reviewed
  <2>2. CASE s = "failed"
    <3>1. /\ exhausted' \subseteq SameBackend
          /\ \A e \in Deliveries \ {d} :
               reviews'[e] = reviews[e] /\ (e \in exhausted' <=> e \in exhausted)
          /\ reviews' \in [Deliveries -> {0, 1}]
          /\ reviews'[d] = IF d \in Managed \ exhausted' THEN 1 ELSE 0
      BY <2>1, <2>2 DEF Escalated
    <3> QED BY <1>2, <2>1, <2>2, <3>1 DEF IInv, ReviewInv, Reviewed
  <2>3. CASE s # "failed"
    BY <1>0, <1>2, <2>1, <2>3 DEF IInv, ReviewInv, Reviewed
  <2> QED BY <2>2, <2>3
<1>10. Pump(st, p, thread', recovery', halted')
  BY DEF Ends
<1>11. \A e \in Deliveries : status[e] = "queued" => st[e] = "queued"
  BY <1>0, <1>2
<1> HIDE DEF st, p
<1> QED BY <1>8, <1>9, <1>10, <1>11, PumpStep

\* Whatever leaves the deliveries alone and changes threads only: no delivery is
\* stranded as long as no thread is left interrupted for good but by /interrupt.
LEMMA ThreadStep ==
  ASSUME IInv, ThreadInv', UNCHANGED <<status, pc, given, escalation, excused>>,
         halted => halted',
         \A t \in Threads : ~halted' /\ thread'[t] = "interrupted" /\ recovery'[t] = "none"
                            => \/ stopped'[t] = "interrupt"
                               \/ /\ thread[t] = "interrupted" /\ recovery[t] = "none"
                                  /\ stopped'[t] = stopped[t]
  PROVE  IInv' /\ CancelStep
<1>1. Core(status', pc', given')
  BY DEF IInv
<1>2. NothingStranded'
  BY TeamAssumption DEF IInv, NothingStranded, ThreadBusy, ThreadInv
<1>3. ReviewInv'
  BY DEF IInv, ReviewInv, escalation
<1> QED BY <1>1, <1>2, <1>3 DEF IInv, CancelStep

\* A delivery is posted behind all others and has not been given to anybody.
LEMMA PostStep ==
  ASSUME IInv, NEW d \in Deliveries, Post(d)
  PROVE  IInv' /\ CancelStep
<1> DEFINE st == [status EXCEPT ![d] = "queued"]
<1>1. /\ status \in [Deliveries -> RowStates] /\ pc \in [Deliveries -> Stages]
      /\ given \in [Deliveries -> Nat] /\ status[d] = "none"
  BY DEF IInv, Core, Post
<1>2. /\ st \in [Deliveries -> RowStates] /\ st[d] = "queued"
      /\ \A e \in Deliveries \ {d} : st[e] = status[e]
  BY <1>1 DEF RowStates
<1>3. \A e \in Deliveries : e < d => status[e] # "none"
  BY TeamAssumption DEF Post, Deliveries
<1>4. \A e \in Deliveries : e > d => status[e] = "none"
  BY <1>1, TeamAssumption DEF IInv, Core, Deliveries
<1>5. \A e, f \in Deliveries : e < f /\ st[e] = "none" => st[f] = "none"
  BY <1>1, <1>2, <1>3, <1>4, TeamAssumption DEF IInv, Core, Deliveries
<1>6. given[d] = 0 /\ pc[d] = "off"
  BY <1>1 DEF IInv, Core, Final
<1>7. \A e, f \in Deliveries :
        e < f /\ ThreadOf[e] = ThreadOf[f] /\ (st[f] = "running" \/ given[f] > 0) => st[e] \in Final
  <2> SUFFICES ASSUME NEW e \in Deliveries, NEW f \in Deliveries, e < f,
                      ThreadOf[e] = ThreadOf[f], st[f] = "running" \/ given[f] > 0
               PROVE  st[e] \in Final
    OBVIOUS
  <2>1. f # d /\ (status[f] = "running" \/ given[f] > 0)
    BY <1>2, <1>6
  <2>2. status[e] \in Final
    BY <2>1 DEF IInv, Core
  <2> QED BY <1>1, <1>2, <2>2 DEF Final
<1>8. \A e \in Deliveries : given[e] <= 1 /\ (given[e] > 0 => pc[e] = "polling" \/ st[e] \in Final)
  BY <1>2, <1>6 DEF IInv, Core
<1>9. \A e \in Deliveries : st[e] = "running" <=> pc[e] # "off"
  BY <1>2, <1>6 DEF IInv, Core
<1>10. Core(st, pc, given')
  BY <1>1, <1>2, <1>5, <1>7, <1>8, <1>9 DEF Core, Post
<1>11. ThreadInv'
  BY DEF Post, IInv, ThreadInv
<1>12. Pump(st, pc, thread', recovery', halted')
  BY DEF Post
<1>13. Reviewed(st, reviews', exhausted', excused')
  BY <1>1, <1>2, TeamAssumption DEF Post, IInv, ReviewInv, Reviewed, escalation
<1>14. /\ \A e \in Deliveries : status[e] = "queued" => st[e] = "queued"
       /\ \A t \in Threads : recovery'[t] = "claimed" => recovery[t] = "claimed"
  BY <1>2 DEF Post
<1> HIDE DEF st
<1> QED BY <1>10, <1>11, <1>12, <1>13, <1>14, PumpStep

\* The thread takes the message: the delivery is over, or polls for its turn.
LEMMA ThreadTakesStep ==
  ASSUME IInv, NEW d \in Deliveries, ThreadTakes(d)
  PROVE  IInv' /\ CancelStep
<1>1. /\ status \in [Deliveries -> RowStates] /\ pc \in [Deliveries -> Stages]
      /\ given \in [Deliveries -> Nat] /\ pc[d] = "preparing"
      /\ ThreadOf[d] \in Threads /\ UNCHANGED <<exhausted, reviews>>
  BY TeamAssumption DEF IInv, Core, ThreadTakes, escalation
<1>2. status[d] = "running"
  BY <1>1 DEF IInv, Core
<1>3. given[d] = 0 /\ given' = [given EXCEPT ![d] = @ + 1]
  BY <1>1, <1>2 DEF IInv, Core, Final, ThreadTakes
<1>4. CASE thread[ThreadOf[d]] = "running"
  <2>1. ThreadInv'
    BY <1>4 DEF IInv, ThreadInv, ThreadTakes
  <2>2. Ends(d, "delivered", thread') /\ "delivered" \in Final
    BY <1>4 DEF ThreadTakes, Final
  <2> QED BY <1>1, <1>3, <1>4, <2>1, <2>2, EndsStep DEF ThreadTakes
<1>5. CASE thread[ThreadOf[d]] # "running"
  <2>1. /\ thread' = [thread EXCEPT ![ThreadOf[d]] = "running"]
        /\ recovery' = [recovery EXCEPT ![ThreadOf[d]] = "none"]
        /\ stopped' = [stopped EXCEPT ![ThreadOf[d]] = "no"]
        /\ pc' = [pc EXCEPT ![d] = "polling"]
        /\ UNCHANGED <<status, halted, halting, exhausted, reviews, excused>>
    BY <1>5 DEF ThreadTakes, escalation
  <2>2. ThreadInv'
    BY <1>1, <2>1 DEF IInv, ThreadInv
  <2>3. Core(status', pc', given')
    <3>1. \A e, f \in Deliveries :
            e < f /\ ThreadOf[e] = ThreadOf[f] /\ (status'[f] = "running" \/ given'[f] > 0)
            => status'[e] \in Final
      BY <1>1, <1>2, <1>3, <2>1 DEF IInv, Core
    <3>2. \A e \in Deliveries :
            given'[e] <= 1 /\ (given'[e] > 0 => pc'[e] = "polling" \/ status'[e] \in Final)
      BY <1>1, <1>3, <2>1 DEF IInv, Core
    <3>3. pc' \in [Deliveries -> Stages] /\ given' \in [Deliveries -> Nat]
      BY <1>1, <1>3, <2>1 DEF Stages
    <3>4. \A e \in Deliveries : status'[e] = "running" <=> pc'[e] # "off"
      BY <1>1, <1>2, <2>1 DEF IInv, Core
    <3> QED BY <2>1, <3>1, <3>2, <3>3, <3>4 DEF IInv, Core
  <2>4. NothingStranded'
    BY <1>1, <2>1, TeamAssumption DEF IInv, ThreadInv, NothingStranded, ThreadBusy
  <2>5. ReviewInv' /\ CancelStep
    BY <2>1 DEF IInv, ReviewInv, CancelStep
  <2> QED BY <2>2, <2>3, <2>4, <2>5 DEF IInv
<1> QED BY <1>4, <1>5

\* The calls that end otherwise.
LEMMA CallEndsStep ==
  ASSUME IInv, NEW d \in Deliveries,
         \/ ThreadRefusesHalted(d) \/ Completes(d)
         \/ \E asked \in BOOLEAN, reason \in Reasons : Fails(d, asked, reason)
  PROVE  IInv' /\ CancelStep
<1>1. ThreadOf[d] \in Threads
  BY TeamAssumption
<1>2. CASE ThreadRefusesHalted(d)
  <2>1. ThreadInv'
    BY <1>2 DEF IInv, ThreadInv, ThreadRefusesHalted
  <2>2. Ends(d, "queued", thread') /\ pc[d] = "preparing"
    BY <1>2 DEF ThreadRefusesHalted
  <2> QED BY <1>1, <1>2, <2>1, <2>2, EndsStep DEF ThreadRefusesHalted, escalation
<1>3. CASE Completes(d)
  <2>1. ThreadInv'
    BY <1>3 DEF IInv, ThreadInv, Completes
  <2>2. Ends(d, "completed", thread') /\ pc[d] # "off" /\ "completed" \in Final
    BY <1>3 DEF Completes, Final
  <2> QED BY <1>1, <1>3, <2>1, <2>2, EndsStep DEF Completes, escalation
<1>4. ASSUME NEW asked \in BOOLEAN, NEW reason \in Reasons, Fails(d, asked, reason)
      PROVE  IInv' /\ CancelStep
  <2> DEFINE s == IF halted THEN "interrupted" ELSE IF reason = "blocked" THEN "blocked" ELSE "failed"
  <2>1. thread' = IF asked /\ thread[ThreadOf[d]] = "idle"
                  THEN [thread EXCEPT ![ThreadOf[d]] = "error"] ELSE thread
    BY <1>4 DEF Fails
  <2>2. ThreadInv'
    BY <1>1, <1>4, <2>1 DEF IInv, ThreadInv, Fails
  <2>3. Ends(d, s, thread') /\ pc[d] # "off" /\ s \in Final
    BY <1>4 DEF Fails, Final
  <2>4. IF s = "failed"
        THEN /\ exhausted' \in {exhausted, exhausted \cup ({d} \cap SameBackend)}
             /\ reviews' = [reviews EXCEPT ![d] = Escalated(d, @, exhausted')]
        ELSE UNCHANGED <<exhausted, reviews>>
    BY <1>4 DEF Fails
  <2>5. UNCHANGED <<recovery, halted, excused, given>>
    BY <1>4 DEF Fails
  <2> HIDE DEF s
  <2> QED BY <2>2, <2>3, <2>4, <2>5, EndsStep DEF Final
<1> QED BY <1>2, <1>3, <1>4

\* A stop of a thread, by its user or a halt, leaves none of its deliveries queued.
LEMMA MarkInterruptedStep ==
  ASSUME IInv, NEW t \in Threads, NEW by \in {"user", "halt"}, MarkInterrupted(t),
         stopped' = [stopped EXCEPT ![t] = by], halting' \subseteq Threads,
         UNCHANGED <<pc, escalation, halted, given, excused>>
  PROVE  IInv' /\ CancelStep
<1>1. /\ status \in [Deliveries -> RowStates]
      /\ thread' = [thread EXCEPT ![t] = "interrupted"]
      /\ recovery' = [recovery EXCEPT ![t] = "none"]
      /\ status' \in [Deliveries -> RowStates]
      /\ \A d \in Deliveries : status'[d] = IF ThreadOf[d] = t /\ status[d] = "queued"
                                            THEN "cancelled" ELSE status[d]
  BY DEF IInv, Core, MarkInterrupted, RowStates, Final
<1>2. ThreadInv'
  BY <1>1 DEF IInv, ThreadInv
<1>3. Core(status', pc', given')
  <2>1. /\ \A d \in Deliveries : status'[d] = "running" <=> pc'[d] # "off"
        /\ \A d, e \in Deliveries : d < e /\ status'[d] = "none" => status'[e] = "none"
    BY <1>1 DEF IInv, Core
  <2>2. \A d \in Deliveries : status[d] \in Final => status'[d] \in Final
    BY <1>1 DEF Final
  <2> QED BY <1>1, <2>1, <2>2 DEF IInv, Core
<1>4. NothingStranded'
  BY <1>1, TeamAssumption DEF IInv, ThreadInv, NothingStranded, ThreadBusy
<1>5. ReviewInv'
  <2>1. \A d \in Deliveries : status'[d] = "failed" <=> status[d] = "failed"
    BY <1>1
  <2> QED BY <2>1, TeamAssumption DEF IInv, ReviewInv, Reviewed, escalation
<1>6. CancelStep
  BY <1>1, TeamAssumption DEF CancelStep, IInv, ThreadInv
<1> QED BY <1>2, <1>3, <1>4, <1>5, <1>6 DEF IInv

\* Threads that run, end, are interrupted, recovered or halted.
LEMMA ThreadsStep ==
  ASSUME IInv, NEW t \in Threads,
         \/ \E st \in {"completed", "error"} : TurnEnds(t, st)
         \/ UserRuns(t) \/ Stop(t) \/ Interrupt(t) \/ RunsAgain(t) \/ RecoveryClaimed(t)
         \/ \E how \in {"stopped", "nosession", "refused"} : HaltStops(t, how)
         \/ \E ok \in BOOLEAN : Recovered(t, ok)
  PROVE  IInv' /\ CancelStep
<1>1. ASSUME NEW st \in {"completed", "error"}, TurnEnds(t, st) PROVE IInv' /\ CancelStep
  <2>1. ThreadInv'
    BY <1>1 DEF IInv, ThreadInv, TurnEnds
  <2> QED BY <1>1, <2>1, ThreadStep DEF TurnEnds, IInv, ThreadInv
<1>2. CASE UserRuns(t)
  <2>1. ThreadInv'
    BY <1>2 DEF IInv, ThreadInv, UserRuns
  <2> QED BY <1>2, <2>1, ThreadStep DEF UserRuns, IInv, ThreadInv
<1>3. CASE Stop(t)
  BY <1>3, MarkInterruptedStep DEF Stop, IInv, ThreadInv
<1>4. CASE RecoveryClaimed(t)
  <2>1. ThreadInv'
    BY <1>4 DEF IInv, ThreadInv, RecoveryClaimed
  <2> QED BY <1>4, <2>1, ThreadStep DEF RecoveryClaimed, IInv, ThreadInv
<1>5. ASSUME NEW how \in {"stopped", "nosession", "refused"}, HaltStops(t, how)
      PROVE  IInv' /\ CancelStep
  <2>1. CASE how = "stopped"
    <3>1. /\ MarkInterrupted(t) /\ stopped' = [stopped EXCEPT ![t] = "halt"]
          /\ halting' \subseteq Threads /\ UNCHANGED <<pc, escalation, halted, given, excused>>
      BY <1>5, <2>1 DEF HaltStops, IInv, ThreadInv
    <3> QED BY <3>1, MarkInterruptedStep
  <2>2. CASE how = "nosession"
    <3>1. /\ thread' = [thread EXCEPT ![t] = "error"] /\ recovery' = [recovery EXCEPT ![t] = "none"]
          /\ halting' = halting \ {t}
          /\ UNCHANGED <<status, stopped, pc, escalation, halted, given, excused>>
      BY <1>5, <2>2 DEF HaltStops
    <3>2. ThreadInv'
      BY <3>1 DEF IInv, ThreadInv
    <3> QED BY <3>1, <3>2, ThreadStep DEF IInv, ThreadInv
  <2>3. CASE how = "refused"
    <3>1. /\ halting' = halting \ {t}
          /\ UNCHANGED <<status, thread, recovery, stopped, pc, escalation, halted, given, excused>>
      BY <1>5, <2>3 DEF HaltStops
    <3>2. ThreadInv'
      BY <3>1 DEF IInv, ThreadInv
    <3> QED BY <3>1, <3>2, ThreadStep
  <2> QED BY <2>1, <2>2, <2>3
<1>6. ASSUME NEW ok \in BOOLEAN, Recovered(t, ok) PROVE IInv' /\ CancelStep
  <2>1. ThreadInv'
    BY <1>6 DEF IInv, ThreadInv, Recovered
  <2> QED BY <1>6, <2>1, ThreadStep DEF Recovered, IInv, ThreadInv
<1>7. CASE Interrupt(t)
  <2>1. ThreadInv'
    BY <1>7 DEF IInv, ThreadInv, Interrupt
  <2> QED BY <1>7, <2>1, ThreadStep DEF Interrupt, IInv, ThreadInv
<1>8. CASE RunsAgain(t)
  <2>1. ThreadInv'
    BY <1>8 DEF IInv, ThreadInv, RunsAgain
  <2> QED BY <1>8, <2>1, ThreadStep DEF RunsAgain, IInv, ThreadInv
<1> QED BY <1>1, <1>2, <1>3, <1>4, <1>5, <1>6, <1>7, <1>8

\* A halt only holds back; lifting it pumps.
LEMMA HaltStep ==
  ASSUME IInv, (\E blocked \in SUBSET Threads : Halt(blocked)) \/ Resume
  PROVE  IInv' /\ CancelStep
<1>1. ASSUME NEW blocked \in SUBSET Threads, Halt(blocked) PROVE IInv' /\ CancelStep
  <2>1. ThreadInv'
    BY <1>1 DEF IInv, ThreadInv, Halt
  <2> QED BY <1>1, <2>1, ThreadStep DEF Halt
<1>2. CASE Resume
  <2>1. ThreadInv'
    BY <1>2 DEF IInv, ThreadInv, Resume
  <2>2. Pump(status, pc, thread', recovery', halted') /\ Core(status, pc, given')
    BY <1>2 DEF Resume, IInv
  <2> QED BY <1>2, <2>1, <2>2, PumpStep DEF Resume, IInv, ReviewInv, escalation
<1> QED BY <1>1, <1>2

\* A restart surfaces what ran, queues the threads that ran for recovery, escalates
\* the failures it finds and pumps.
LEMMA CrashStep ==
  ASSUME IInv, NEW failed \in {{}} \cup {{d} : d \in Deliveries}, NEW ex \in SUBSET failed,
         Crash(failed, ex)
  PROVE  IInv' /\ CancelStep
<1> DEFINE died == {d \in failed : status[d] = "running" /\ pc[d] # "off" /\ ~halted}
           th == [t \in Threads |-> IF thread[t] = "running" THEN "interrupted" ELSE thread[t]]
           rec == [t \in Threads |->
                     IF thread[t] = "running" \/ recovery[t] = "claimed" THEN "pending" ELSE recovery[t]]
           st == [d \in Deliveries |-> IF d \in died THEN "failed" ELSE Surfaced(status[d])]
           p == [d \in Deliveries |-> "off"]
<1>1. /\ status \in [Deliveries -> RowStates] /\ given \in [Deliveries -> Nat]
      /\ reviews \in [Deliveries -> {0, 1}] /\ exhausted \subseteq SameBackend
      /\ SameBackend \subseteq Managed /\ Managed \subseteq Deliveries
  BY TeamAssumption DEF IInv, Core, ReviewInv, Reviewed
<1>2. /\ thread' = th /\ recovery' = rec
      /\ UNCHANGED <<halted, given>> /\ halting' = {}
      /\ stopped' = [t \in Threads |-> IF stopped[t] = "interrupt" THEN "user" ELSE stopped[t]]
      /\ Pump(st, p, thread', recovery', halted')
  BY DEF Crash
<1>3. ThreadInv'
  BY <1>2 DEF IInv, ThreadInv
<1>4. \A t \in Threads : recovery'[t] # "claimed"
  BY <1>2 DEF IInv, ThreadInv
<1>5. /\ st \in [Deliveries -> RowStates] /\ p \in [Deliveries -> Stages]
      /\ \A d \in Deliveries : status[d] = "running" => st[d] \in Final
      /\ \A d \in Deliveries : status[d] # "running" => st[d] = status[d]
  BY <1>1 DEF RowStates, Final, Stages, Surfaced
<1>6. Core(st, p, given')
  <2>1. \A d \in Deliveries : st[d] # "running" /\ (status[d] \in Final => st[d] \in Final)
    BY <1>1, <1>5 DEF Final
  <2>2. \A d, e \in Deliveries : d < e /\ st[d] = "none" => st[e] = "none"
    BY <1>1, <1>5 DEF IInv, Core, Final
  <2>3. \A d, e \in Deliveries :
          d < e /\ ThreadOf[d] = ThreadOf[e] /\ given[e] > 0 => st[d] \in Final
    BY <2>1 DEF IInv, Core
  <2>4. \A d \in Deliveries : given[d] <= 1 /\ (given[d] > 0 => st[d] \in Final)
    BY <1>1, <1>5, <2>1 DEF IInv, Core
  <2>5. \A d \in Deliveries : st[d] = "running" <=> p[d] # "off"
    BY <2>1
  <2> QED BY <1>1, <1>2, <1>5, <2>1, <2>2, <2>3, <2>4, <2>5 DEF Core
<1>7. /\ reviews' = [d \in Deliveries |->
           IF d \in Reconciled(st, th, rec) THEN Escalated(d, reviews[d], exhausted')
           ELSE reviews[d]]
      /\ excused' = excused \cup {d \in Managed : st[d] = "failed" /\ reviews[d] = 0
                                               /\ AbandonedByStop(ThreadOf[d], th, rec)}
      /\ ex \subseteq died \cap SameBackend /\ exhausted' = exhausted \cup ex
  BY DEF Crash
<1>8. /\ \A d \in ex : st[d] = "failed" /\ status[d] = "running"
      /\ \A d \in Deliveries : status[d] = "failed" => st[d] = "failed"
  BY <1>1, <1>5, <1>7
<1> HIDE DEF st, th, rec, p, died
<1>9. Reviewed(st, reviews', exhausted', excused')
  <2>1. \A d \in Deliveries : reviews[d] = 1 => d \notin exhausted'
    BY <1>1, <1>7, <1>8 DEF IInv, ReviewInv, Reviewed
  <2>2. \A d \in Deliveries :
          reviews'[d] = IF d \in Reconciled(st, th, rec) /\ d \notin exhausted' THEN 1
                        ELSE reviews[d]
    BY <1>1, <1>7 DEF Escalated, Reconciled
  <2>3. \A d \in Deliveries : reviews'[d] = 1 => st[d] = "failed" /\ d \in Managed \ exhausted'
    BY <1>1, <1>8, <2>1, <2>2 DEF IInv, ReviewInv, Reviewed, Reconciled
  <2>4. \A d \in Managed \ exhausted' : st[d] = "failed" => reviews'[d] = 1 \/ d \in excused'
    BY <1>1, <1>7, <2>2 DEF Reconciled
  <2>5. reviews' \in [Deliveries -> {0, 1}]
    BY <1>1, <1>7 DEF Escalated
  <2>6. exhausted' \subseteq SameBackend /\ \A d \in exhausted' : st[d] = "failed"
    BY <1>1, <1>7, <1>8 DEF IInv, ReviewInv, Reviewed
  <2> QED BY <2>3, <2>4, <2>5, <2>6 DEF Reviewed
<1>10. \A d \in Deliveries : status[d] = "queued" => st[d] = "queued"
  BY <1>5
<1> QED BY <1>2, <1>3, <1>4, <1>6, <1>9, <1>10, PumpStep

------------------------------------------------------------------------------
\* The theorems

\* An empty room.
LEMMA InitIInv == Init => IInv
<1> SUFFICES ASSUME Init PROVE IInv
  OBVIOUS
<1>1. Core(status, pc, given)
  BY DEF Init, Core, RowStates, Stages
<1>2. ThreadInv
  BY DEF Init, ThreadInv
<1>3. ReviewInv
  BY TeamAssumption DEF Init, ReviewInv, Reviewed
<1>4. NothingStranded
  BY DEF Init, NothingStranded
<1> QED BY <1>1, <1>2, <1>3, <1>4 DEF IInv

\* One step, of whichever action.
LEMMA NextStep == IInv /\ [Next]_vars => IInv' /\ (CancelStep \/ UNCHANGED vars)
<1> SUFFICES ASSUME IInv, [Next]_vars PROVE IInv' /\ (CancelStep \/ UNCHANGED vars)
  OBVIOUS
<1>1. CASE UNCHANGED vars
  BY <1>1 DEF vars, escalation, IInv, Core, ThreadInv, ReviewInv, NothingStranded, ThreadBusy
<1>2. CASE Next
  BY <1>2, PostStep, ThreadTakesStep, CallEndsStep, ThreadsStep, HaltStep, CrashStep DEF Next
<1> QED BY <1>1, <1>2

\* The inductive invariant holds throughout.
LEMMA IInvAlways == Spec => []IInv
  BY InitIInv, NextStep, PTL DEF Spec

\* Deliveries of a thread never run together, never overtake each other, and a row
\* runs exactly while its call does.
THEOREM DeliveriesSerialized == Spec => []Serialized
<1>1. IInv => Serialized
  <2> SUFFICES ASSUME IInv PROVE Serialized
    OBVIOUS
  <2>1. status \in [Deliveries -> RowStates]
    BY DEF IInv, Core
  <2> QED BY <2>1 DEF IInv, Core, Serialized, RowStates, Final
<1> QED BY <1>1, IInvAlways, PTL

\* No delivery is given to its thread twice, through any number of restarts.
THEOREM DeliveriesGivenOnce == Spec => []GivenOnce
<1>1. IInv => GivenOnce
  BY DEF IInv, Core, GivenOnce
<1> QED BY <1>1, IInvAlways, PTL

\* Without a halt nothing is queued that no end of a call will pump, and nothing is
\* queued behind a stopped thread, unless /interrupt stopped it.
THEOREM DeliveriesNotStranded == Spec => []NothingStranded
<1>1. IInv => NothingStranded
  BY DEF IInv
<1> QED BY <1>1, IInvAlways, PTL

\* Every failure with a manager is escalated exactly once, through any number of
\* restarts, but for those found behind a stopped thread and those of a backend that
\* is exhausted for the manager too.
THEOREM FailuresReachTheManager == Spec => []FailuresEscalatedOnce
<1>1. IInv => FailuresEscalatedOnce
  BY DEF IInv, ReviewInv, Reviewed, FailuresEscalatedOnce
<1> QED BY <1>1, IInvAlways, PTL

\* Only a stop or an interruption, or a recovery between its claim and its session,
\* cancels what is queued.
THEOREM OnlyStopsCancel == Spec => CancelledByStops
<1>1. IInv /\ [Next]_vars => [CancelStep]_vars
  BY NextStep DEF vars
<1> QED BY <1>1, IInvAlways, PTL DEF Spec, CancelledByStops, CancelStep
==============================================================================
