---------------------------- MODULE Experiments ----------------------------
(***************************************************************************)
(* Predeclared experiments (server/experiments.ts), the readings people    *)
(* file for them (server/snapshots.ts) and the decisions they end in       *)
(* (server/decisions.ts), over what deliveries and Work Orders promise:    *)
(* Deliveries implements DeliveryOutcome and WorkOrders OrderFate.  Orders *)
(* are the measure orders here.                                            *)
(*                                                                         *)
(* Each action is a handler.  On a Fragile delivery the process may die    *)
(* after any statement of a handler that books its readings.               *)
(***************************************************************************)
EXTENDS DeliveryOutcome, OrderFate, Naturals, FiniteSets, Functions

CONSTANTS
  Experiments,    \* the experiments rows that may be declared
  Points,         \* ids of experiment_observations
  experimentOf,   \* the experiment an observation point was declared with
  Fits,           \* points whose measure order createOrder accepts
  Metrics,        \* what can be read
  primaryMetric,  \* experiment -> the metric its rule is about
  sampleTarget,   \* experiment -> the deliveries it needs
  sameProject,    \* <<experiment, delivery>> pairs of one Connected Project
  Claims,         \* bound: the rungs people claim
  HandMade,       \* bound: the orders people may create themselves, each with
                  \* the points they may name for it
  Fragile,        \* deliveries on which a handler may be cut short
  Null

\* The evidence ladder, strongest first.
LADDER_RUNGS ==
  <<"controlled_experiment", "within_account_comparison", "pre_post_observation",
    "correlated_observation", "anecdote">>

Rungs == Range(LADDER_RUNGS)

ASSUME ExperimentsAssumption ==
  /\ Points \subseteq Nat
  /\ IsFiniteSet(Keys) /\ IsFiniteSet(Points) /\ IsFiniteSet(Metrics)
  /\ Claims \subseteq Rungs
  /\ IsFiniteSet(Orders) /\ HandMade \subseteq Orders \X (Points \cup {Null})
  /\ experimentOf \in [Points -> Experiments]
  /\ Fits \subseteq Points
  /\ primaryMetric \in [Experiments -> Metrics]
  /\ sampleTarget \in [Experiments -> Nat \ {0}]
  /\ sameProject \subseteq Experiments \X Keys
  /\ Null \notin Keys \cup Points \cup Orders \cup Experiments

VARIABLES
  status,     \* experiments.status
  enrolled,   \* experiment_deliveries
  asks,       \* per measure order, the point it was made for and the delivery
              \* its instruction names
  bookings,   \* observation_orders
  readings,   \* metric_snapshots
  decisions   \* decision_records

declared == <<status, enrolled>>
scheduled == <<fate, asks, bookings>>
vars == <<outcome, declared, scheduled, readings, decisions>>

-----------------------------------------------------------------------------
(* The tables *)

ExperimentStatuses == {"predeclared", "running", "stopped", "concluded"}

AskRow == [point : Points \cup {Null}, key : Keys \cup {Null}]

AsksNothing == [point |-> Null, key |-> Null]

BookingRow == [point : Points, key : Keys, order : Orders]

ReadingRow ==
  [source : {"operator_reading", "project_funnel"}, order : Orders \cup {Null},
   metric : Metrics, experiment : Experiments \cup {Null},
   point : Points \cup {Null}, key : Keys \cup {Null}]

ExperimentsTypeOK ==
  /\ outcome \in [Keys -> Outcomes]
  /\ fate \in [Orders -> Fates]
  /\ status \in [Experiments -> {"absent"} \cup ExperimentStatuses]
  /\ enrolled \subseteq sameProject
  /\ asks \in [Orders -> AskRow]
  /\ bookings \subseteq BookingRow
  /\ readings \subseteq ReadingRow
  /\ decisions \in [Experiments -> {Null} \cup [rung : Rungs, sample : Nat]]

ExperimentsInit ==
  /\ OutcomeInit
  /\ FateInit
  /\ status = [e \in Experiments |-> "absent"]
  /\ enrolled = {}
  /\ asks = [o \in Orders |-> AsksNothing]
  /\ bookings = {}
  /\ readings = {}
  /\ decisions = [e \in Experiments |-> Null]

\* The orders left to the scheduler.
ByHand == {h[1] : h \in HandMade}

Unused == {o \in Orders \ ByHand : fate[o] = "absent"}

VerifiedKeys == {k \in Keys : outcome[k] = "verified_posted"}

-----------------------------------------------------------------------------
(* Booking the readings of a delivery *)

Booked(k, p) == \E b \in bookings : b.key = k /\ b.point = p

\* Faulty variant of NotYetBooked: an order for the reading is not looked up.
NotYetBookedAssumed(k, p) == TRUE

NotYetBooked(k, p) == ~ Booked(k, p)

\* Faulty variant of TakesReadings: concluded experiments are watched on.
TakesReadingsAnyway(e) == status[e] # "absent"

TakesReadings(e) == status[e] \notin {"absent", "concluded"}

\* What scheduling has to book for these deliveries: every point, not booked
\* yet, of every experiment that watches them.
Outstanding(keys, watching) ==
  {a \in keys \X Points :
     /\ <<experimentOf[a[2]], a[1]>> \in watching
     /\ TakesReadings(experimentOf[a[2]])
     /\ NotYetBooked(a[1], a[2])}

\* The database promises no order of the deliveries of a sweep.
Turns(due) == LET keys == {a[1] : a \in due} IN Injection(keys, 1 .. Cardinality(keys))

\* Deliveries in turn, the points of each in the order of their ids.
Before(turn, a, b) == turn[a[1]] < turn[b[1]] \/ (a[1] = b[1] /\ a[2] < b[2])

\* createOrder throws on the first point whose order does not fit, and
\* nothing after it is reached.
Reached(due, turn) == {a \in due : \A b \in due : b[2] \notin Fits => Before(turn, a, b)}

Earlier(made, due, turn) == \A a \in made, b \in due : Before(turn, b, a) => b \in made

OrderOf(place, o) == CHOOSE a \in DOMAIN place : place[a] = o

\* The measure orders of "place" are inserted and approved, the readings of
\* "made" are booked as theirs; the last order may be further behind.
Book(place, made, last) ==
  /\ fate' = [o \in Orders |->
       IF o \notin Range(place) THEN fate[o]
       ELSE IF OrderOf(place, o) \in made THEN "open" ELSE last]
  /\ asks' = [o \in Orders |->
       IF o \notin Range(place) THEN asks[o]
       ELSE [point |-> OrderOf(place, o)[2], key |-> OrderOf(place, o)[1]]]
  /\ bookings' = bookings \cup {[point |-> a[2], key |-> a[1], order |-> place[a]] : a \in made}

\* Cut short, scheduling leaves off after any booking, or after the insertion
\* or approval of the order it was about to book.
scheduleCutShort(due, turn) ==
  \E made \in SUBSET Reached(due, turn), next \in Reached(due, turn) :
    /\ next \notin made
    /\ next[1] \in Fragile
    /\ Earlier(made, due, turn) /\ Earlier(made \cup {next}, due, turn)
    /\ \/ \E place \in Injection(made, Unused) : Book(place, made, "open")
       \/ \E place \in Injection(made \cup {next}, Unused), last \in {"draft", "open"} :
            Book(place, made, last)

schedule(due) ==
  \E turn \in Turns(due) :
    \/ \E place \in Injection(Reached(due, turn), Unused) :
         Book(place, Reached(due, turn), "open")
    \/ scheduleCutShort(due, turn)

\* Faulty variant of scheduleObservations: only a delivery that was not
\* verified before schedules, so one enrolled late does not.
scheduleObservationsOnce(k, watching) ==
  schedule(IF outcome[k] # outcome'[k] /\ outcome'[k] = "verified_posted"
             THEN Outstanding({k}, watching) ELSE {})

\* For a delivery that is verified, or is being verified in the same act.
scheduleObservations(k, watching) ==
  schedule(IF outcome'[k] = "verified_posted" THEN Outstanding({k}, watching) ELSE {})

-----------------------------------------------------------------------------
(* Experiments and deliveries *)

\* The row and its observation points go in in one transaction.
declareExperiment(e) ==
  /\ status[e] = "absent"
  /\ status' = [status EXCEPT ![e] = "predeclared"]
  /\ UNCHANGED <<outcome, enrolled, scheduled, readings, decisions>>

stopExperiment(e) ==
  /\ status[e] \in ExperimentStatuses \ {"concluded"}
  /\ status' = [status EXCEPT ![e] = "stopped"]
  /\ UNCHANGED <<outcome, enrolled, scheduled, readings, decisions>>

OwnProject(e, k) == <<e, k>> \in sameProject

enrollDelivery(e, k) ==
  /\ status[e] \in {"predeclared", "running"}
  /\ outcome[k] # "absent"
  /\ OwnProject(e, k)
  /\ enrolled' = enrolled \cup {<<e, k>>}
  /\ UNCHANGED outcome
  /\ \/ /\ status' = [status EXCEPT ![e] = "running"]
        /\ scheduleObservations(k, enrolled')
     \/ k \in Fragile /\ UNCHANGED <<status, scheduled>>
  /\ UNCHANGED <<readings, decisions>>

createTarget(k) ==
  /\ Open(k)
  /\ UNCHANGED <<declared, scheduled, readings, decisions>>

cancelDelivery(k) ==
  /\ Cancel(k)
  /\ UNCHANGED <<declared, scheduled, readings, decisions>>

\* Verification stands even when scheduling throws half-way.
verifyAndObserve(k) ==
  /\ Verify(k)
  /\ scheduleObservations(k, enrolled)
  /\ UNCHANGED <<declared, readings, decisions>>

\* The sweep over every verified delivery that is enrolled somewhere.
scheduleOutstandingObservations ==
  /\ schedule(Outstanding(VerifiedKeys, enrolled))
  /\ UNCHANGED <<outcome, declared, readings, decisions>>

-----------------------------------------------------------------------------
(* Measure orders by hand, and the readings orders are completed with *)

\* A draft may name a point in its request, but nothing books it.  An ad-hoc
\* reading that dies before its approval is such a draft without a point.
createByHand(o, p) ==
  /\ <<o, p>> \in HandMade
  /\ Become(o, "draft")
  /\ asks' = [asks EXCEPT ![o] = [point |-> p, key |-> Null]]
  /\ UNCHANGED <<outcome, declared, bookings, readings, decisions>>

measureAdHoc(o) ==
  /\ o \in ByHand /\ fate[o] = "absent"
  /\ Become(o, "open")
  /\ UNCHANGED <<outcome, declared, asks, bookings, readings, decisions>>

approveOrder(o) ==
  /\ fate[o] = "draft"
  /\ Become(o, "open")
  /\ UNCHANGED <<outcome, declared, asks, bookings, readings, decisions>>

\* The order failed or was cancelled.
dropOrder(o) ==
  /\ Become(o, "dropped")
  /\ UNCHANGED <<outcome, declared, asks, bookings, readings, decisions>>

\* Faulty variant of bookingsOf: the row is found by its point.
bookingsOfPoint(o) == {b \in bookings : b.point = asks[o].point}

bookingsOf(o) == {b \in bookings : b.order = o}

\* Where the readings of an order belong: the experiment and the delivery of
\* its booking, when the order has a point and a booking at all.
placementOf(o) ==
  IF asks[o].point = Null THEN {[experiment |-> Null, point |-> Null, key |-> Null]}
  ELSE IF bookingsOf(o) = {}
    THEN {[experiment |-> Null, point |-> asks[o].point, key |-> Null]}
    ELSE {[experiment |-> experimentOf[b.point], point |-> asks[o].point, key |-> b.key] :
            b \in bookingsOf(o)}

Reading(o, m, at) ==
  [source |-> "operator_reading", order |-> o, metric |-> m,
   experiment |-> at.experiment, point |-> at.point, key |-> at.key]

recordReadings(o, metrics) ==
  \E at \in placementOf(o) : readings' = readings \cup {Reading(o, m, at) : m \in metrics}

\* Faulty variant of completeMeasureOrder: no transaction holds the two
\* together, and the readings may be filed without the completion.
completeMeasureOrderApart(o, metrics) ==
  /\ fate[o] = "open"
  /\ recordReadings(o, metrics)
  /\ Become(o, "completed") \/ UNCHANGED fate
  /\ UNCHANGED <<outcome, declared, asks, bookings, decisions>>

\* Readings and completion in one transaction.  A person may read other
\* metrics than the order names, but at least one.
completeMeasureOrder(o, metrics) ==
  /\ Become(o, "completed")
  /\ recordReadings(o, metrics)
  /\ UNCHANGED <<outcome, declared, asks, bookings, decisions>>

FunnelReading(m) ==
  [source |-> "project_funnel", order |-> Null, metric |-> m,
   experiment |-> Null, point |-> Null, key |-> Null]

\* What the project answers is filed after the await, under nobody's order.
readProjectFunnel(metrics) ==
  /\ readings' = readings \cup {FunnelReading(m) : m \in metrics}
  /\ UNCHANGED <<outcome, declared, scheduled, decisions>>

-----------------------------------------------------------------------------
(* Decisions *)

delivered(e) == {k \in VerifiedKeys : <<e, k>> \in enrolled}

sampleMet(e) == Cardinality(delivered(e)) >= sampleTarget[e]

primaryReadings(e) ==
  {r \in readings : /\ r.experiment = e
                    /\ r.metric = primaryMetric[e]
                    /\ r.source = "operator_reading"}

\* Faulty variant of deliveriesRead: the readings are counted themselves.
readingsTaken(e) == {r \in primaryReadings(e) : r.point # Null}

deliveriesRead(e) == {r.key : r \in {s \in primaryReadings(e) : s.point # Null}}

highestRungAvailable(e) ==
  CASE primaryReadings(e) = {} -> "correlated_observation"
    [] primaryReadings(e) # {} /\ ~ sampleMet(e) -> "pre_post_observation"
    [] primaryReadings(e) # {} /\ sampleMet(e)
         /\ Cardinality(deliveriesRead(e)) < sampleTarget[e] -> "within_account_comparison"
    [] OTHER -> "controlled_experiment"

rungIsAbove(claimed, available) ==
  \E i, j \in DOMAIN LADDER_RUNGS :
    LADDER_RUNGS[i] = claimed /\ LADDER_RUNGS[j] = available /\ i < j

\* The record and the status in one transaction.
concludeWithDecision(e, rung) ==
  /\ status[e] # "absent"
  /\ decisions[e] = Null
  /\ sampleMet(e)
  /\ ~ rungIsAbove(rung, highestRungAvailable(e))
  /\ decisions' = [decisions EXCEPT ![e] =
       [rung |-> rung, sample |-> Cardinality(delivered(e))]]
  /\ status' = [status EXCEPT ![e] = "concluded"]
  /\ UNCHANGED <<outcome, enrolled, scheduled, readings>>

ExperimentStep(e) ==
  \/ declareExperiment(e) \/ stopExperiment(e)
  \/ \E k \in Keys : enrollDelivery(e, k)
  \/ \E rung \in Claims : concludeWithDecision(e, rung)

DeliveryStep(k) == createTarget(k) \/ cancelDelivery(k) \/ verifyAndObserve(k)

MeasureStep(o) ==
  \/ \E p \in Points \cup {Null} : createByHand(o, p)
  \/ measureAdHoc(o) \/ approveOrder(o) \/ dropOrder(o)
  \/ \E metrics \in (SUBSET Metrics) \ {{}} : completeMeasureOrder(o, metrics)

ExperimentsNext ==
  \/ \E e \in Experiments : ExperimentStep(e)
  \/ \E k \in Keys : DeliveryStep(k)
  \/ scheduleOutstandingObservations
  \/ \E o \in Orders : MeasureStep(o)
  \/ \E metrics \in (SUBSET Metrics) \ {{}} : readProjectFunnel(metrics)

ExperimentsSpec == ExperimentsInit /\ [][ExperimentsNext]_vars
-----------------------------------------------------------------------------
(* Properties *)

\* Scheduling "can be called again - on verification, on late enrolment, or
\* by the sweep - without ever booking a person twice for the same reading"
\* (experiments.ts:362-364): no two measure orders ask for one point of one
\* delivery, unless the process died between an order and its booking.
BookedOnce ==
  \A k \in Keys \ Fragile, p \in Points :
    Cardinality({o \in Orders : asks[o] = [point |-> p, key |-> k]}) <= 1

Watching(k) == {e \in Experiments : <<e, k>> \in enrolled}

PointsOf(e) == {p \in Points : experimentOf[p] = e}

\* A delivery verified under an experiment has its readings on the queue
\* (experiments.ts:449-452), whichever of verification and enrolment came
\* first and however many experiments watch it, as long as the order of
\* every point of theirs fits.
BookedWhenVerified ==
  \A e \in Experiments, k \in VerifiedKeys \ Fragile :
    /\ <<e, k>> \in enrolled /\ TakesReadings(e)
    /\ UNION {PointsOf(w) : w \in Watching(k)} \subseteq Fits
    => \A p \in PointsOf(e) : Booked(k, p)

\* A reading filed for a delivery was read for it (snapshots.ts:273-296): the
\* order it was filed with asks for just that point of just that delivery,
\* which was posted and which the point's experiment watches.
ReadingsArePlaced ==
  \A r \in readings : r.key # Null =>
    /\ r.order \in Orders
    /\ asks[r.order] = [point |-> r.point, key |-> r.key]
    /\ r.experiment = experimentOf[r.point]
    /\ <<r.experiment, r.key>> \in enrolled
    /\ outcome[r.key] \in {"verified_posted", "cancelled"}

\* "So the two happen together, in one database transaction, or neither
\* happens" (snapshots.ts:493-494): the completed measure orders are the ones
\* readings were filed with.
CompletedIsFiled ==
  \A o \in Orders :
    fate[o] = "completed" <=> \E r \in readings : r.order = o

\* A decision record "is what was believed at the time and is not revised"
\* (decisions.ts:285): after it the experiment stays concluded, takes on no
\* delivery and books no reading.
ConcludedIsFinal ==
  [][\A e \in Experiments : decisions[e] # Null =>
       /\ status'[e] = "concluded"
       /\ decisions'[e] = decisions[e]
       /\ \A k \in Keys : <<e, k>> \in enrolled' => <<e, k>> \in enrolled
       /\ \A b \in bookings' : experimentOf[b.point] = e => b \in bookings]_vars

\* Deliveries of the experiment with a completed order that read the primary
\* metric at a point the experiment declared.
ReadOnOwnPoint(e) ==
  {k \in Keys : \E b \in bookings, r \in readings :
     /\ b.key = k /\ b.point \in PointsOf(e) /\ fate[b.order] = "completed"
     /\ r.order = b.order /\ r.metric = primaryMetric[e]}

\* A conclusion claims no more than its evidence carries (decisions.ts:1-20):
\* as many deliveries as it needed went up under the experiment, and a
\* controlled one has a reading of its own on that many of them.
ConclusionIsBacked ==
  \A e \in Experiments : decisions[e] # Null =>
    /\ Cardinality({k \in Keys : /\ <<e, k>> \in enrolled
                                 /\ outcome[k] \in {"verified_posted", "cancelled"}})
         >= sampleTarget[e]
    /\ decisions[e].rung = "controlled_experiment"
         => Cardinality(ReadOnOwnPoint(e)) >= sampleTarget[e]
=============================================================================
