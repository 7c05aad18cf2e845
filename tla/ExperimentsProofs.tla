-------------------------- MODULE ExperimentsProofs --------------------------
(***************************************************************************)
(* Theorems about ExperimentsSpec: for any experiments, points, deliveries *)
(* and orders, with the process dying inside the handlers of any of the    *)
(* deliveries.                                                             *)
(***************************************************************************)
EXTENDS Experiments, FiniteSetTheorems, TLAPS

-----------------------------------------------------------------------------
(* What scheduling may do to the orders and the bookings *)

AskOf(a) == [point |-> a[2], key |-> a[1]]

ScheduleEffect(due) ==
  /\ fate' \in [Orders -> Fates]
  /\ asks' \in [Orders -> AskRow]
  /\ bookings \subseteq bookings'
  /\ \A o \in Orders :
       \/ fate'[o] = fate[o] /\ asks'[o] = asks[o]
       \/ /\ fate[o] = "absent"
          /\ fate'[o] \in {"draft", "open"}
          /\ \E a \in due :
               /\ asks'[o] = AskOf(a)
               /\ a[1] \in Fragile \/ \E b \in bookings' : b.order = o
  /\ \A b \in bookings' \ bookings :
       /\ b \in BookingRow
       /\ <<b.key, b.point>> \in due
       /\ fate[b.order] = "absent" /\ fate'[b.order] = "open"
       /\ asks'[b.order] = [point |-> b.point, key |-> b.key]
  /\ \A b, c \in bookings' \ bookings : b.key = c.key /\ b.point = c.point => b = c

\* Inserting the orders of "place" and booking "made" of them has that effect.
LEMMA BookEffect ==
  ASSUME ExperimentsTypeOK,
         NEW due \in SUBSET (Keys \X Points),
         NEW asked \in SUBSET due, NEW made \in SUBSET asked,
         NEW place \in Injection(asked, Unused), NEW last \in {"draft", "open"},
         \A a \in asked \ made : a[1] \in Fragile,
         Book(place, made, last)
  PROVE  ScheduleEffect(due)
PROOF
<1>1. /\ place \in [asked -> Unused]
      /\ \A a, b \in asked : place[a] = place[b] => a = b
  BY DEF Injection, IsInjective
<1>2. Range(place) = {place[a] : a \in asked}
  BY <1>1 DEF Range
<1>3. \A a \in asked : OrderOf(place, place[a]) = a
  BY <1>1 DEF OrderOf
<1>4. \A a \in asked :
        /\ place[a] \in Orders
        /\ fate[place[a]] = "absent"
        /\ a[1] \in Keys /\ a[2] \in Points /\ a = <<a[1], a[2]>>
  BY <1>1 DEF Unused
<1>5. \A a \in asked :
        /\ asks'[place[a]] = AskOf(a)
        /\ fate'[place[a]] = IF a \in made THEN "open" ELSE last
  BY <1>2, <1>3, <1>4 DEF Book, AskOf
<1>6. \A o \in Orders : (\A a \in asked : place[a] # o) =>
        fate'[o] = fate[o] /\ asks'[o] = asks[o]
  BY <1>2 DEF Book
<1>7. bookings' = bookings \cup {[point |-> a[2], key |-> a[1], order |-> place[a]] : a \in made}
  BY DEF Book
<1>8. fate' \in [Orders -> Fates] /\ asks' \in [Orders -> AskRow]
  <2>1. fate' = [o \in Orders |-> fate'[o]] /\ asks' = [o \in Orders |-> asks'[o]]
    BY DEF Book
  <2>2. ASSUME NEW o \in Orders
        PROVE  fate'[o] \in Fates /\ asks'[o] \in AskRow
    <3>1. CASE \A a \in asked : place[a] # o
      BY <1>6, <3>1 DEF ExperimentsTypeOK
    <3>2. CASE \E a \in asked : place[a] = o
      <4>1. PICK a \in asked : place[a] = o
        BY <3>2
      <4>2. fate'[o] \in {"open", last} /\ asks'[o] = AskOf(a)
        BY <1>5, <4>1
      <4>3. AskOf(a) \in AskRow
        BY <1>4 DEF AskOf, AskRow
      <4> QED
        BY <4>2, <4>3 DEF Fates
    <3> QED
      BY <3>1, <3>2
  <2> QED
    BY <2>1, <2>2
<1>9. \A b \in bookings' \ bookings : \E a \in made :
        b = [point |-> a[2], key |-> a[1], order |-> place[a]]
  BY <1>7
<1>10. ASSUME NEW a \in made
       PROVE  \E b \in bookings' : b.key = a[1] /\ b.point = a[2] /\ b.order = place[a]
  <2> DEFINE b == [point |-> a[2], key |-> a[1], order |-> place[a]]
  <2>1. b \in bookings'
    BY <1>7
  <2>2. b.key = a[1] /\ b.point = a[2] /\ b.order = place[a]
    OBVIOUS
  <2> QED
    BY <2>1, <2>2
<1>11. \A o \in Orders :
         \/ fate'[o] = fate[o] /\ asks'[o] = asks[o]
         \/ /\ fate[o] = "absent"
            /\ fate'[o] \in {"draft", "open"}
            /\ \E a \in due :
                 /\ asks'[o] = AskOf(a)
                 /\ a[1] \in Fragile \/ \E b \in bookings' : b.order = o
  BY <1>4, <1>5, <1>6, <1>10
<1>12. \A b \in bookings' \ bookings :
         /\ b \in BookingRow
         /\ <<b.key, b.point>> \in due
         /\ fate[b.order] = "absent" /\ fate'[b.order] = "open"
         /\ asks'[b.order] = [point |-> b.point, key |-> b.key]
  BY <1>4, <1>5, <1>9 DEF BookingRow, AskOf
<1>13. \A b, c \in bookings' \ bookings : b.key = c.key /\ b.point = c.point => b = c
  BY <1>4, <1>9
<1> QED
  BY <1>7, <1>8, <1>10, <1>11, <1>12, <1>13 DEF ScheduleEffect

\* Scheduling has the effect, and books everything when all orders fit and
\* nothing is cut short.
LEMMA Scheduling ==
  ASSUME ExperimentsTypeOK, NEW due \in SUBSET (Keys \X Points), schedule(due)
  PROVE  /\ ScheduleEffect(due)
         /\ (\A a \in due : a[1] \notin Fragile /\ a[2] \in Fits)
              => \A a \in due : \E b \in bookings' : b.key = a[1] /\ b.point = a[2]
PROOF
<1> PICK turn \in Turns(due) :
      \/ \E place \in Injection(Reached(due, turn), Unused) :
           Book(place, Reached(due, turn), "open")
      \/ scheduleCutShort(due, turn)
  BY DEF schedule
<1>1. Reached(due, turn) \subseteq due
  BY DEF Reached
<1>2. CASE \E place \in Injection(Reached(due, turn), Unused) : Book(place, Reached(due, turn), "open")
  <2>1. PICK whole \in SUBSET due : whole = Reached(due, turn)
    BY <1>1
  <2>2. /\ ScheduleEffect(due)
        /\ \A a \in whole : \E b \in bookings' : b.key = a[1] /\ b.point = a[2]
    <3>1. PICK place \in Injection(whole, Unused) : Book(place, whole, "open")
      BY <1>2, <2>1
    <3>2. whole \in SUBSET whole /\ \A a \in whole \ whole : a[1] \in Fragile
      OBVIOUS
    <3>3. ScheduleEffect(due)
      BY <3>1, <3>2, BookEffect
    <3>4. ASSUME NEW a \in whole
          PROVE  \E b \in bookings' : b.key = a[1] /\ b.point = a[2]
      <4> DEFINE b == [point |-> a[2], key |-> a[1], order |-> place[a]]
      <4>1. b \in bookings' /\ b.key = a[1] /\ b.point = a[2]
        BY <3>1 DEF Book
      <4> QED
        BY <4>1
    <3> QED
      BY <3>3, <3>4
  <2>3. (\A a \in due : a[2] \in Fits) => Reached(due, turn) = due
    BY DEF Reached
  <2> QED
    BY <2>1, <2>2, <2>3
<1>3. CASE scheduleCutShort(due, turn)
  <2>1. PICK made \in SUBSET Reached(due, turn), next \in Reached(due, turn) :
          /\ next[1] \in Fragile
          /\ \/ \E place \in Injection(made, Unused) : Book(place, made, "open")
             \/ \E place \in Injection(made \cup {next}, Unused), last \in {"draft", "open"} :
                  Book(place, made, last)
    BY <1>3 DEF scheduleCutShort
  <2>2. ScheduleEffect(due)
    <3>1. CASE \E place \in Injection(made, Unused) : Book(place, made, "open")
      <4>1. PICK place \in Injection(made, Unused) : Book(place, made, "open")
        BY <3>1
      <4>2. /\ made \in SUBSET due /\ made \in SUBSET made
            /\ \A a \in made \ made : a[1] \in Fragile
        BY <1>1, <2>1
      <4> QED
        BY <4>1, <4>2, BookEffect
    <3>2. CASE \E place \in Injection(made \cup {next}, Unused), last \in {"draft", "open"} :
                 Book(place, made, last)
      <4> DEFINE asked == made \cup {next}
      <4>1. /\ asked \in SUBSET due /\ made \in SUBSET asked
            /\ \A a \in asked \ made : a[1] \in Fragile
        BY <1>1, <2>1
      <4>2. \E place \in Injection(asked, Unused), last \in {"draft", "open"} :
              Book(place, made, last)
        BY <3>2
      <4> HIDE DEF asked
      <4>3. PICK place \in Injection(asked, Unused), last \in {"draft", "open"} :
              Book(place, made, last)
        BY <4>2
      <4> QED
        BY <4>1, <4>3, BookEffect
    <3> QED
      BY <2>1, <3>1, <3>2
  <2>3. \E a \in due : a[1] \in Fragile
    BY <1>1, <2>1
  <2> QED
    BY <2>2, <2>3
<1> QED
  BY <1>2, <1>3

\* A handler that schedules nothing has the effect of scheduling nothing.
LEMMA NothingScheduled ==
  ASSUME ExperimentsTypeOK, UNCHANGED scheduled
  PROVE  ScheduleEffect({})
BY DEF ExperimentsTypeOK, ScheduleEffect, scheduled

-----------------------------------------------------------------------------
(* The inductive invariant *)

\* A booked reading is of a delivery that was posted under the experiment,
\* and its order was approved and asks for it.
BookingsAreOrders ==
  \A b \in bookings :
    /\ asks[b.order] = [point |-> b.point, key |-> b.key]
    /\ fate[b.order] \notin {"absent", "draft"}
    /\ <<experimentOf[b.point], b.key>> \in enrolled
    /\ outcome[b.key] \in {"verified_posted", "cancelled"}

BookingsAreUnique ==
  \A b, c \in bookings : b.key = c.key /\ b.point = c.point => b = c

AskedIsBooked ==
  \A o \in Orders : asks[o].key \in Keys \ Fragile => \E b \in bookings : b.order = o

AbsentAsksNothing == \A o \in Orders : fate[o] = "absent" => asks[o] = AsksNothing

ReadingsAreBooked ==
  \A r \in readings : r.key # Null \/ r.experiment # Null =>
    \E b \in bookings :
      /\ b.order = r.order /\ b.key = r.key /\ b.point = r.point
      /\ r.experiment = experimentOf[b.point]

OrdersInv ==
  /\ BookingsAreOrders
  /\ BookingsAreUnique
  /\ AskedIsBooked
  /\ AbsentAsksNothing
  /\ ReadingsAreBooked
  /\ CompletedIsFiled

EnrolledAreDeclared == \A x \in enrolled : status[x[1]] # "absent"

DecidedAreConcluded == \A e \in Experiments : decisions[e] # Null => status[e] = "concluded"

ExperimentsInv ==
  /\ ExperimentsTypeOK
  /\ OrdersInv
  /\ EnrolledAreDeclared
  /\ DecidedAreConcluded

-----------------------------------------------------------------------------
(* The two kinds of steps *)

\* What is scheduled is due to a posted delivery under an open experiment.
IsDue(due) ==
  \A a \in due :
    /\ <<experimentOf[a[2]], a[1]>> \in enrolled'
    /\ outcome'[a[1]] = "verified_posted"
    /\ TakesReadings(experimentOf[a[2]])
    /\ NotYetBooked(a[1], a[2])

\* Steps of experiments and deliveries, and the sweep.
SchedulingStep ==
  /\ \E due \in SUBSET (Keys \X Points) : ScheduleEffect(due) /\ IsDue(due)
  /\ enrolled \subseteq enrolled'
  /\ \A k \in Keys : outcome[k] \in {"verified_posted", "cancelled"}
                       => outcome'[k] \in {"verified_posted", "cancelled"}
  /\ readings' = readings

\* What a handler that watches one delivery schedules for it.
LEMMA OneDelivery ==
  ASSUME ExperimentsTypeOK, NEW k \in Keys, outcome' \in [Keys -> Outcomes],
         NEW watching, watching = enrolled',
         scheduleObservations(k, watching)
  PROVE  \E due \in SUBSET (Keys \X Points) : ScheduleEffect(due) /\ IsDue(due)
PROOF
<1> DEFINE due == IF outcome'[k] = "verified_posted" THEN Outstanding({k}, watching) ELSE {}
<1>1. due \in SUBSET (Keys \X Points)
  BY DEF Outstanding
<1>2. \A a \in due :
        /\ <<experimentOf[a[2]], a[1]>> \in enrolled'
        /\ outcome'[a[1]] = "verified_posted"
        /\ TakesReadings(experimentOf[a[2]])
        /\ NotYetBooked(a[1], a[2])
  BY DEF Outstanding
<1>3. schedule(due)
  BY DEF scheduleObservations
<1> HIDE DEF due
<1>4. ScheduleEffect(due)
  BY <1>1, <1>3, Scheduling
<1>5. IsDue(due)
  BY <1>2 DEF IsDue
<1> QED
  BY <1>1, <1>4, <1>5

LEMMA NothingDue ==
  ASSUME ExperimentsTypeOK, UNCHANGED scheduled
  PROVE  \E due \in SUBSET (Keys \X Points) : ScheduleEffect(due) /\ IsDue(due)
<1>1. ScheduleEffect({})
  BY NothingScheduled
<1>2. IsDue({}) /\ {} \in SUBSET (Keys \X Points)
  BY DEF IsDue
<1> QED
  BY <1>1, <1>2

\* Experiments, deliveries and the sweep never touch an order that exists,
\* and book only what is due.
LEMMA ExperimentsSchedule ==
  ASSUME ExperimentsTypeOK,
         \/ \E e \in Experiments : ExperimentStep(e)
         \/ \E k \in Keys : DeliveryStep(k)
         \/ scheduleOutstandingObservations
  PROVE  SchedulingStep
PROOF
<1>1. ASSUME NEW e \in Experiments, declareExperiment(e) \/ stopExperiment(e)
      PROVE  SchedulingStep
  <2>1. UNCHANGED <<outcome, enrolled, readings>> /\ UNCHANGED scheduled
    BY <1>1 DEF declareExperiment, stopExperiment
  <2> QED
    BY <2>1, NothingDue DEF SchedulingStep
<1>2. ASSUME NEW e \in Experiments, NEW rung \in Claims, concludeWithDecision(e, rung)
      PROVE  SchedulingStep
  <2>1. UNCHANGED <<outcome, enrolled, readings>> /\ UNCHANGED scheduled
    BY <1>2 DEF concludeWithDecision
  <2> QED
    BY <2>1, NothingDue DEF SchedulingStep
<1>3. ASSUME NEW e \in Experiments, NEW k \in Keys, enrollDelivery(e, k)
      PROVE  SchedulingStep
  <2>1. /\ enrolled \subseteq enrolled' /\ outcome' = outcome /\ readings' = readings
        /\ scheduleObservations(k, enrolled') \/ UNCHANGED scheduled
    BY <1>3 DEF enrollDelivery
  <2>2. outcome' \in [Keys -> Outcomes]
    BY <2>1 DEF ExperimentsTypeOK
  <2>3. \E due \in SUBSET (Keys \X Points) : ScheduleEffect(due) /\ IsDue(due)
    BY <2>1, <2>2, OneDelivery, NothingDue
  <2> QED
    BY <2>1, <2>3 DEF SchedulingStep
<1>4. ASSUME NEW k \in Keys, createTarget(k) \/ cancelDelivery(k)
      PROVE  SchedulingStep
  <2>1. /\ UNCHANGED <<enrolled, readings>> /\ UNCHANGED scheduled
        /\ \/ Open(k)
           \/ Cancel(k)
    BY <1>4 DEF createTarget, cancelDelivery, declared
  <2>2. \A j \in Keys : outcome[j] \in {"verified_posted", "cancelled"}
                          => outcome'[j] \in {"verified_posted", "cancelled"}
    BY <2>1 DEF Open, Cancel, BecomeFrom, ExperimentsTypeOK
  <2> QED
    BY <2>1, <2>2, NothingDue DEF SchedulingStep
<1>5. ASSUME NEW k \in Keys, verifyAndObserve(k)
      PROVE  SchedulingStep
  <2>1. /\ UNCHANGED <<enrolled, readings>>
        /\ Verify(k)
        /\ scheduleObservations(k, enrolled)
    BY <1>5 DEF verifyAndObserve, declared
  <2>2. /\ outcome' \in [Keys -> Outcomes]
        /\ \A j \in Keys : outcome[j] \in {"verified_posted", "cancelled"}
                          => outcome'[j] \in {"verified_posted", "cancelled"}
    BY <2>1 DEF Verify, BecomeFrom, ExperimentsTypeOK, Outcomes
  <2>3. \E due \in SUBSET (Keys \X Points) : ScheduleEffect(due) /\ IsDue(due)
    BY <2>1, <2>2, OneDelivery
  <2> QED
    BY <2>1, <2>2, <2>3 DEF SchedulingStep
<1>6. ASSUME scheduleOutstandingObservations
      PROVE  SchedulingStep
  <2> DEFINE due == Outstanding(VerifiedKeys, enrolled)
  <2>1. /\ UNCHANGED <<outcome, enrolled, readings>>
        /\ schedule(due)
    BY <1>6 DEF scheduleOutstandingObservations, declared
  <2>2. due \in SUBSET (Keys \X Points)
    BY DEF Outstanding, VerifiedKeys
  <2>3. IsDue(due)
    BY <2>1 DEF Outstanding, VerifiedKeys, IsDue
  <2> HIDE DEF due
  <2>4. ScheduleEffect(due)
    BY <2>1, <2>2, Scheduling
  <2> QED
    BY <2>1, <2>2, <2>3, <2>4 DEF SchedulingStep
<1> QED
  BY <1>1, <1>2, <1>3, <1>4, <1>5, <1>6 DEF ExperimentStep, DeliveryStep

-----------------------------------------------------------------------------
(* Orders, bookings and readings *)

LEMMA SchedulingKeepsOrders ==
  ASSUME ExperimentsTypeOK, OrdersInv, SchedulingStep
  PROVE  OrdersInv'
PROOF
<1>1. PICK due \in SUBSET (Keys \X Points) : ScheduleEffect(due) /\ IsDue(due)
  BY DEF SchedulingStep
<1>2. /\ bookings \subseteq bookings'
      /\ \A b \in bookings :
           b \in BookingRow /\ fate'[b.order] = fate[b.order] /\ asks'[b.order] = asks[b.order]
  <2>1. bookings \subseteq bookings'
    BY <1>1 DEF ScheduleEffect
  <2>2. \A o \in Orders : fate[o] # "absent" => fate'[o] = fate[o] /\ asks'[o] = asks[o]
    BY <1>1 DEF ScheduleEffect
  <2>3. \A b \in bookings : b \in BookingRow /\ b.order \in Orders /\ fate[b.order] # "absent"
    BY DEF OrdersInv, BookingsAreOrders, ExperimentsTypeOK, BookingRow
  <2> QED
    BY <2>1, <2>2, <2>3
<1>3. \A b \in bookings' \ bookings :
        /\ b \in BookingRow
        /\ <<b.key, b.point>> \in due
        /\ fate'[b.order] = "open"
        /\ asks'[b.order] = [point |-> b.point, key |-> b.key]
        /\ <<experimentOf[b.point], b.key>> \in enrolled'
        /\ outcome'[b.key] = "verified_posted"
        /\ ~ Booked(b.key, b.point)
  <2> TAKE b \in bookings' \ bookings
  <2>1. /\ b \in BookingRow
        /\ <<b.key, b.point>> \in due
        /\ fate'[b.order] = "open"
        /\ asks'[b.order] = [point |-> b.point, key |-> b.key]
    BY <1>1 DEF ScheduleEffect
  <2>2. \A a \in due :
          /\ <<experimentOf[a[2]], a[1]>> \in enrolled'
          /\ outcome'[a[1]] = "verified_posted"
          /\ ~ Booked(a[1], a[2])
    BY <1>1 DEF IsDue, NotYetBooked
  <2> QED
    BY <2>1, <2>2
<1>4. BookingsAreOrders'
  <2> SUFFICES ASSUME NEW b \in bookings'
               PROVE  /\ asks'[b.order] = [point |-> b.point, key |-> b.key]
                      /\ fate'[b.order] \notin {"absent", "draft"}
                      /\ <<experimentOf[b.point], b.key>> \in enrolled'
                      /\ outcome'[b.key] \in {"verified_posted", "cancelled"}
    BY DEF BookingsAreOrders
  <2>1. CASE b \in bookings
    BY <1>2, <2>1 DEF OrdersInv, BookingsAreOrders, SchedulingStep, BookingRow
  <2>2. CASE b \notin bookings
    BY <1>3, <2>2
  <2> QED
    BY <2>1, <2>2
<1>5. BookingsAreUnique'
  <2> SUFFICES ASSUME NEW b \in bookings', NEW c \in bookings', b.key = c.key, b.point = c.point
               PROVE  b = c
    BY DEF BookingsAreUnique
  <2>1. CASE b \in bookings /\ c \in bookings
    BY <2>1 DEF OrdersInv, BookingsAreUnique
  <2>2. CASE b \notin bookings /\ c \notin bookings
    BY <1>1, <2>2 DEF ScheduleEffect
  <2>3. CASE b \in bookings /\ c \notin bookings
    <3>1. ~ Booked(c.key, c.point)
      BY <1>3, <2>3
    <3>2. ~ (b \in bookings /\ b.key = c.key /\ b.point = c.point)
      BY <3>1 DEF Booked
    <3> QED
      BY <2>3, <3>2
  <2>4. CASE b \notin bookings /\ c \in bookings
    <3>1. ~ Booked(b.key, b.point)
      BY <1>3, <2>4
    <3>2. ~ (c \in bookings /\ c.key = b.key /\ c.point = b.point)
      BY <3>1 DEF Booked
    <3> QED
      BY <2>4, <3>2
  <2> QED
    BY <2>1, <2>2, <2>3, <2>4
<1>6. \A o \in Orders :
        \/ fate'[o] = fate[o] /\ asks'[o] = asks[o]
        \/ /\ fate[o] = "absent"
           /\ fate'[o] \in {"draft", "open"}
           /\ asks'[o].key \in Fragile \/ \E b \in bookings' : b.order = o
  BY <1>1 DEF ScheduleEffect, AskOf
<1>7. AskedIsBooked'
  BY <1>2, <1>6 DEF OrdersInv, AskedIsBooked
<1>8. AbsentAsksNothing'
  BY <1>6 DEF OrdersInv, AbsentAsksNothing
<1>9. ReadingsAreBooked'
  BY <1>2 DEF OrdersInv, ReadingsAreBooked, SchedulingStep
<1>10. CompletedIsFiled'
  BY <1>6 DEF OrdersInv, CompletedIsFiled, SchedulingStep
<1> QED
  BY <1>4, <1>5, <1>7, <1>8, <1>9, <1>10 DEF OrdersInv

\* An order that moves on is one that exists, unless it is created.
LEMMA BecomeEffect ==
  ASSUME ExperimentsTypeOK, NEW o \in Orders, NEW to, Become(o, to)
  PROVE  /\ fate' \in [Orders -> Fates]
         /\ fate'[o] = to
         /\ to \in MayBecome(fate[o])
         /\ to \in {"draft", "open", "completed", "dropped"}
         /\ fate[o] \in {"absent", "draft", "open"}
         /\ fate[o] # "absent" => to # "draft"
         /\ to \in {"completed", "dropped"} => fate[o] # "absent"
         /\ to = "completed" => fate[o] = "open"
         /\ \A q \in Orders \ {o} : fate'[q] = fate[q]
BY DEF ExperimentsTypeOK, Become, MayBecome, Fates

\* Orders made, approved or dropped by hand, and the readings of the project.
LEMMA HandKeepsOrders ==
  ASSUME ExperimentsTypeOK, OrdersInv, NEW o \in Orders,
         NEW p \in Points \cup {Null},
         \/ createByHand(o, p)
         \/ measureAdHoc(o) \/ approveOrder(o) \/ dropOrder(o)
  PROVE  OrdersInv'
PROOF
<1>1. /\ fate[o] \in {"absent", "draft", "open"}
      /\ fate'[o] \in {"draft", "open", "dropped"}
      /\ fate[o] # "absent" => fate'[o] # "draft" /\ asks'[o] = asks[o]
      /\ asks'[o].key = Null \/ asks'[o] = asks[o]
      /\ \A q \in Orders \ {o} : fate'[q] = fate[q] /\ asks'[q] = asks[q]
  <2>1. CASE createByHand(o, p)
    <3>1. /\ Become(o, "draft")
          /\ asks' = [asks EXCEPT ![o] = [point |-> p, key |-> Null]]
      BY <2>1 DEF createByHand
    <3>2. /\ fate'[o] = "draft" /\ fate[o] = "absent"
          /\ \A q \in Orders \ {o} : fate'[q] = fate[q]
      <4>1. "draft" \in MayBecome(fate[o])
        BY <3>1, BecomeEffect
      <4>2. fate[o] = "absent"
        BY <3>1, <4>1, BecomeEffect
      <4> QED
        BY <3>1, <4>2, BecomeEffect
    <3>3. asks'[o].key = Null /\ \A q \in Orders \ {o} : asks'[q] = asks[q]
      BY <3>1 DEF ExperimentsTypeOK
    <3> QED
      BY <3>2, <3>3
  <2>2. CASE measureAdHoc(o) \/ approveOrder(o) \/ dropOrder(o)
    <3>1. PICK to \in {"open", "dropped"} : Become(o, to)
      BY <2>2 DEF measureAdHoc, approveOrder, dropOrder
    <3>2. asks' = asks
      BY <2>2 DEF measureAdHoc, approveOrder, dropOrder
    <3> QED
      BY <3>1, <3>2, BecomeEffect
  <2> QED
    BY <2>1, <2>2
<1>2. UNCHANGED <<outcome, enrolled, bookings, readings>>
  BY DEF createByHand, measureAdHoc, approveOrder, dropOrder, declared
<1>3. \A b \in bookings : b.order \in Orders
  BY DEF ExperimentsTypeOK, BookingRow
<1>4. BookingsAreOrders'
  <2> USE DEF BookingsAreOrders
  <2> TAKE b \in bookings'
  <2>1. b \in bookings /\ b.order \in Orders
    BY <1>2, <1>3
  <2>2. /\ asks[b.order] = [point |-> b.point, key |-> b.key]
        /\ fate[b.order] \notin {"absent", "draft"}
        /\ <<experimentOf[b.point], b.key>> \in enrolled
        /\ outcome[b.key] \in {"verified_posted", "cancelled"}
    BY <2>1 DEF OrdersInv, BookingsAreOrders
  <2>3. asks'[b.order] = asks[b.order] /\ fate'[b.order] \notin {"absent", "draft"}
    BY <1>1, <2>1, <2>2
  <2> QED
    BY <1>2, <2>2, <2>3
<1>5. BookingsAreUnique' /\ ReadingsAreBooked'
  BY <1>2 DEF OrdersInv, BookingsAreUnique, ReadingsAreBooked
<1>6. AskedIsBooked'
  BY <1>1, <1>2, ExperimentsAssumption DEF OrdersInv, AskedIsBooked
<1>7. AbsentAsksNothing'
  BY <1>1 DEF OrdersInv, AbsentAsksNothing
<1>8. CompletedIsFiled'
  BY <1>1, <1>2 DEF OrdersInv, CompletedIsFiled
<1> QED
  BY <1>4, <1>5, <1>6, <1>7, <1>8 DEF OrdersInv

LEMMA CompletingKeepsOrders ==
  ASSUME ExperimentsTypeOK, OrdersInv, NEW o \in Orders,
         NEW metrics \in (SUBSET Metrics) \ {{}}, completeMeasureOrder(o, metrics)
  PROVE  OrdersInv' /\ readings' \subseteq ReadingRow
PROOF
<1>1. /\ Become(o, "completed")
      /\ UNCHANGED <<outcome, enrolled, asks, bookings>>
  BY DEF completeMeasureOrder, declared
<1>2. /\ fate[o] = "open" /\ fate'[o] = "completed"
      /\ \A q \in Orders \ {o} : fate'[q] = fate[q]
  BY <1>1, BecomeEffect
<1>3. PICK at \in placementOf(o) :
        readings' = readings \cup {Reading(o, m, at) : m \in metrics}
  BY DEF completeMeasureOrder, recordReadings
<1>4. /\ at.experiment \in Experiments \cup {Null}
      /\ at.point \in Points \cup {Null}
      /\ at.key \in Keys \cup {Null}
      /\ at.key # Null \/ at.experiment # Null =>
           \E b \in bookings :
             /\ b.order = o /\ b.key = at.key /\ b.point = at.point
             /\ at.experiment = experimentOf[b.point]
  <2>1. asks[o] \in AskRow
    BY DEF ExperimentsTypeOK
  <2>2. CASE asks[o].point = Null \/ bookingsOf(o) = {}
    <3>1. at = [experiment |-> Null, point |-> asks[o].point, key |-> Null]
      BY <2>2 DEF placementOf
    <3> QED
      BY <2>1, <3>1 DEF AskRow
  <2>3. CASE asks[o].point # Null /\ bookingsOf(o) # {}
    <3>1. PICK b \in bookingsOf(o) :
            at = [experiment |-> experimentOf[b.point], point |-> asks[o].point, key |-> b.key]
      BY <2>3 DEF placementOf
    <3>2. b \in bookings /\ b.order = o /\ b \in BookingRow
      BY <3>1 DEF bookingsOf, ExperimentsTypeOK
    <3>3. asks[o].point = b.point
      <4>1. asks[b.order] = [point |-> b.point, key |-> b.key]
        BY <3>2 DEF OrdersInv, BookingsAreOrders
      <4> QED
        BY <3>2, <4>1
    <3>4. experimentOf[b.point] \in Experiments
      BY <3>2, ExperimentsAssumption DEF BookingRow
    <3> QED
      BY <3>1, <3>2, <3>3, <3>4 DEF BookingRow
  <2> QED
    BY <2>2, <2>3
<1>5. \A r \in readings' \ readings : \E m \in metrics : r = Reading(o, m, at)
  BY <1>3
<1>6. \A m \in metrics :
        /\ Reading(o, m, at) \in readings'
        /\ Reading(o, m, at) \in ReadingRow
        /\ Reading(o, m, at).order = o
        /\ Reading(o, m, at).key = at.key
        /\ Reading(o, m, at).point = at.point
        /\ Reading(o, m, at).experiment = at.experiment
  BY <1>3, <1>4 DEF Reading, ReadingRow
<1>7. readings' \subseteq ReadingRow
  BY <1>5, <1>6 DEF ExperimentsTypeOK
<1>8. BookingsAreOrders' /\ BookingsAreUnique' /\ AskedIsBooked' /\ AbsentAsksNothing'
  <2>1. \A b \in bookings : b.order \in Orders
    BY DEF ExperimentsTypeOK, BookingRow
  <2>2. BookingsAreOrders'
    BY <1>1, <1>2, <2>1 DEF OrdersInv, BookingsAreOrders
  <2>3. BookingsAreUnique' /\ AskedIsBooked'
    BY <1>1 DEF OrdersInv, BookingsAreUnique, AskedIsBooked
  <2>4. AbsentAsksNothing'
    BY <1>1, <1>2 DEF OrdersInv, AbsentAsksNothing
  <2> QED
    BY <2>2, <2>3, <2>4
<1>9. ReadingsAreBooked'
  <2> SUFFICES ASSUME NEW r \in readings', r.key # Null \/ r.experiment # Null
               PROVE  \E b \in bookings :
                        /\ b.order = r.order /\ b.key = r.key /\ b.point = r.point
                        /\ r.experiment = experimentOf[b.point]
    BY <1>1 DEF ReadingsAreBooked
  <2>1. CASE r \in readings
    BY <2>1 DEF OrdersInv, ReadingsAreBooked
  <2>2. CASE r \notin readings
    <3>1. PICK m \in metrics : r = Reading(o, m, at)
      BY <1>5, <2>2
    <3>2. r.order = o /\ r.key = at.key /\ r.point = at.point /\ r.experiment = at.experiment
      BY <1>6, <3>1
    <3> QED
      BY <1>4, <3>2
  <2> QED
    BY <2>1, <2>2
<1>10. CompletedIsFiled'
  <2>1. \E m \in Metrics : m \in metrics
    <3>1. metrics # {} /\ metrics \subseteq Metrics
      OBVIOUS
    <3> QED
      BY <3>1
  <2>2. \E r \in readings' : r.order = o
    BY <1>6, <2>1
  <2>3. readings \subseteq readings' /\ \A r \in readings' \ readings : r.order = o
    BY <1>3, <1>5, <1>6
  <2> QED
    BY <1>2, <2>2, <2>3 DEF OrdersInv, CompletedIsFiled
<1> QED
  BY <1>7, <1>8, <1>9, <1>10 DEF OrdersInv

LEMMA FunnelKeepsOrders ==
  ASSUME ExperimentsTypeOK, OrdersInv,
         NEW metrics \in (SUBSET Metrics) \ {{}}, readProjectFunnel(metrics)
  PROVE  OrdersInv' /\ readings' \subseteq ReadingRow
PROOF
<1>1. /\ UNCHANGED <<outcome, enrolled, fate, asks, bookings>>
      /\ readings' = readings \cup {FunnelReading(m) : m \in metrics}
  BY DEF readProjectFunnel, declared, scheduled
<1>2. \A m \in metrics :
        /\ FunnelReading(m) \in ReadingRow
        /\ FunnelReading(m).order = Null
        /\ FunnelReading(m).key = Null
        /\ FunnelReading(m).experiment = Null
  BY DEF FunnelReading, ReadingRow
<1>3. /\ readings \subseteq readings'
      /\ \A r \in readings' \ readings :
           /\ r \in ReadingRow
           /\ r.order = Null /\ r.key = Null /\ r.experiment = Null
  BY <1>1, <1>2
<1>4. readings' \subseteq ReadingRow
  BY <1>3 DEF ExperimentsTypeOK
<1>5. BookingsAreOrders' /\ BookingsAreUnique' /\ AskedIsBooked' /\ AbsentAsksNothing'
  BY <1>1 DEF OrdersInv, BookingsAreOrders, BookingsAreUnique, AskedIsBooked, AbsentAsksNothing
<1>6. ReadingsAreBooked'
  BY <1>1, <1>3 DEF OrdersInv, ReadingsAreBooked
<1>7. CompletedIsFiled'
  BY <1>1, <1>3, ExperimentsAssumption DEF OrdersInv, CompletedIsFiled
<1> QED
  BY <1>4, <1>5, <1>6, <1>7 DEF OrdersInv

-----------------------------------------------------------------------------
(* Every step preserves the invariant *)

LEMMA InitExperimentsInv == ExperimentsInit => ExperimentsInv
PROOF
<1> SUFFICES ASSUME ExperimentsInit
             PROVE  ExperimentsInv
  OBVIOUS
<1>1. ExperimentsTypeOK
  BY DEF ExperimentsInit, ExperimentsTypeOK, OutcomeInit, FateInit, Outcomes, Fates,
         AskRow, AsksNothing
<1>2. OrdersInv
  BY ExperimentsAssumption
     DEF ExperimentsInit, FateInit, OrdersInv, BookingsAreOrders, BookingsAreUnique,
         AskedIsBooked, AbsentAsksNothing, ReadingsAreBooked, CompletedIsFiled, AsksNothing
<1>3. EnrolledAreDeclared /\ DecidedAreConcluded
  BY DEF ExperimentsInit, EnrolledAreDeclared, DecidedAreConcluded
<1> QED
  BY <1>1, <1>2, <1>3 DEF ExperimentsInv

\* The rest of the types and of the invariant is of the experiments.
ExperimentsPart ==
  /\ outcome \in [Keys -> Outcomes]
  /\ status \in [Experiments -> {"absent"} \cup ExperimentStatuses]
  /\ enrolled \subseteq sameProject
  /\ decisions \in [Experiments -> {Null} \cup [rung : Rungs, sample : Nat]]
  /\ EnrolledAreDeclared
  /\ DecidedAreConcluded

LEMMA DeliveredIsFinite ==
  ASSUME NEW e
  PROVE  Cardinality(delivered(e)) \in Nat
<1>1. delivered(e) \subseteq Keys
  BY DEF delivered, VerifiedKeys
<1> QED
  BY <1>1, ExperimentsAssumption, FS_Subset, FS_CardinalityType

LEMMA ExperimentStepKeepsPart ==
  ASSUME ExperimentsPart, NEW e \in Experiments, ExperimentStep(e)
  PROVE  ExperimentsPart'
PROOF
<1>1. CASE declareExperiment(e)
  BY <1>1 DEF declareExperiment, ExperimentsPart, EnrolledAreDeclared, DecidedAreConcluded,
              ExperimentStatuses
<1>2. CASE stopExperiment(e)
  BY <1>2 DEF stopExperiment, ExperimentsPart, EnrolledAreDeclared, DecidedAreConcluded,
              ExperimentStatuses
<1>3. ASSUME NEW k \in Keys, enrollDelivery(e, k)
      PROVE  ExperimentsPart'
  <2>1. /\ status[e] \in {"predeclared", "running"}
        /\ <<e, k>> \in sameProject
        /\ enrolled' = enrolled \cup {<<e, k>>}
        /\ outcome' = outcome /\ decisions' = decisions
        /\ status' = [status EXCEPT ![e] = "running"] \/ status' = status
    BY <1>3 DEF enrollDelivery, OwnProject
  <2>2. /\ status'[e] \in {"predeclared", "running"}
        /\ \A x \in Experiments \ {e} : status'[x] = status[x]
        /\ status' \in [Experiments -> {"absent"} \cup ExperimentStatuses]
    BY <2>1 DEF ExperimentsPart, ExperimentStatuses
  <2>3. enrolled' \subseteq sameProject /\ \A x \in sameProject : x[1] \in Experiments
    BY <2>1, ExperimentsAssumption DEF ExperimentsPart
  <2>4. EnrolledAreDeclared'
    BY <2>1, <2>2, <2>3 DEF ExperimentsPart, EnrolledAreDeclared
  <2>5. DecidedAreConcluded'
    BY <2>1, <2>2 DEF ExperimentsPart, DecidedAreConcluded
  <2> QED
    BY <2>1, <2>2, <2>3, <2>4, <2>5 DEF ExperimentsPart
<1>4. ASSUME NEW rung \in Claims, concludeWithDecision(e, rung)
      PROVE  ExperimentsPart'
  <2>1. /\ decisions' = [decisions EXCEPT ![e] =
             [rung |-> rung, sample |-> Cardinality(delivered(e))]]
        /\ status' = [status EXCEPT ![e] = "concluded"]
        /\ UNCHANGED <<outcome, enrolled>>
    BY <1>4 DEF concludeWithDecision
  <2>2. [rung |-> rung, sample |-> Cardinality(delivered(e))] \in [rung : Rungs, sample : Nat]
    BY DeliveredIsFinite, ExperimentsAssumption
  <2>3. decisions' \in [Experiments -> {Null} \cup [rung : Rungs, sample : Nat]]
    BY <2>1, <2>2 DEF ExperimentsPart
  <2>4. status' \in [Experiments -> {"absent"} \cup ExperimentStatuses]
    BY <2>1 DEF ExperimentsPart, ExperimentStatuses
  <2>5. EnrolledAreDeclared' /\ DecidedAreConcluded'
    BY <2>1 DEF ExperimentsPart, EnrolledAreDeclared, DecidedAreConcluded
  <2> QED
    BY <2>1, <2>3, <2>4, <2>5 DEF ExperimentsPart
<1> QED
  BY <1>1, <1>2, <1>3, <1>4 DEF ExperimentStep

LEMMA DeliveryStepKeepsPart ==
  ASSUME ExperimentsPart, NEW k \in Keys, DeliveryStep(k)
  PROVE  ExperimentsPart'
PROOF
<1>1. UNCHANGED <<declared, decisions>> /\ (Open(k) \/ Cancel(k) \/ Verify(k))
  BY DEF DeliveryStep, createTarget, cancelDelivery, verifyAndObserve
<1>2. outcome' \in [Keys -> Outcomes]
  BY <1>1 DEF Open, Cancel, Verify, BecomeFrom, ExperimentsPart, Outcomes
<1> QED
  BY <1>1, <1>2 DEF ExperimentsPart, EnrolledAreDeclared, DecidedAreConcluded, declared

LEMMA NextExperimentsInv == ExperimentsInv /\ [ExperimentsNext]_vars => ExperimentsInv'
PROOF
<1> SUFFICES ASSUME ExperimentsInv, [ExperimentsNext]_vars
             PROVE  ExperimentsInv'
  OBVIOUS
<1>1. ExperimentsTypeOK /\ OrdersInv /\ ExperimentsPart
  BY DEF ExperimentsInv, ExperimentsPart, ExperimentsTypeOK
<1>2. ASSUME \/ \E e \in Experiments : ExperimentStep(e)
             \/ \E k \in Keys : DeliveryStep(k)
             \/ scheduleOutstandingObservations
      PROVE  ExperimentsInv'
  <2>1. SchedulingStep
    BY <1>1, <1>2, ExperimentsSchedule
  <2>2. OrdersInv'
    BY <1>1, <2>1, SchedulingKeepsOrders
  <2>3. ExperimentsPart'
    <3>1. CASE scheduleOutstandingObservations
      BY <1>1, <3>1 DEF scheduleOutstandingObservations, declared, ExperimentsPart,
                        EnrolledAreDeclared, DecidedAreConcluded
    <3> QED
      BY <1>1, <1>2, <3>1, ExperimentStepKeepsPart, DeliveryStepKeepsPart
  <2>4. /\ fate' \in [Orders -> Fates] /\ asks' \in [Orders -> AskRow]
        /\ bookings' \subseteq BookingRow
        /\ readings' \subseteq ReadingRow
    BY <1>1, <2>1 DEF SchedulingStep, ScheduleEffect, ExperimentsTypeOK
  <2> QED
    BY <2>2, <2>3, <2>4 DEF ExperimentsInv, ExperimentsPart, ExperimentsTypeOK
<1>3. ASSUME NEW o \in Orders, MeasureStep(o)
      PROVE  ExperimentsInv'
  <2>1. /\ UNCHANGED <<outcome, status, enrolled, bookings, decisions>>
        /\ OrdersInv'
        /\ readings' \subseteq ReadingRow
        /\ fate' \in [Orders -> Fates]
        /\ asks' \in [Orders -> AskRow]
    <3>1. ASSUME NEW p \in Points \cup {Null},
                 \/ createByHand(o, p)
                 \/ measureAdHoc(o) \/ approveOrder(o) \/ dropOrder(o)
          PROVE  <2>1
      <4>1. UNCHANGED <<outcome, status, enrolled, bookings, decisions, readings>>
        BY <3>1 DEF createByHand, measureAdHoc, approveOrder, dropOrder, declared
      <4>2. OrdersInv'
        BY <1>1, <3>1, HandKeepsOrders
      <4>3. \E to : Become(o, to)
        BY <3>1 DEF createByHand, measureAdHoc, approveOrder, dropOrder
      <4>4. asks' \in [Orders -> AskRow]
        <5>1. CASE createByHand(o, p)
          <6>1. [point |-> p, key |-> Null] \in AskRow
            BY DEF AskRow
          <6> QED
            BY <1>1, <5>1, <6>1 DEF createByHand, ExperimentsTypeOK
        <5>2. CASE measureAdHoc(o) \/ approveOrder(o) \/ dropOrder(o)
          BY <1>1, <5>2 DEF measureAdHoc, approveOrder, dropOrder, ExperimentsTypeOK
        <5> QED
          BY <3>1, <5>1, <5>2
      <4> QED
        BY <1>1, <4>1, <4>2, <4>3, <4>4, BecomeEffect DEF ExperimentsTypeOK
    <3>2. ASSUME NEW metrics \in (SUBSET Metrics) \ {{}}, completeMeasureOrder(o, metrics)
          PROVE  <2>1
      <4>1. /\ UNCHANGED <<outcome, status, enrolled, bookings, decisions, asks>>
            /\ Become(o, "completed")
        BY <3>2 DEF completeMeasureOrder, declared
      <4> QED
        BY <1>1, <3>2, <4>1, BecomeEffect, CompletingKeepsOrders DEF ExperimentsTypeOK
    <3> QED
      BY <1>3, <3>1, <3>2 DEF MeasureStep
  <2> QED
    BY <1>1, <2>1 DEF ExperimentsInv, ExperimentsPart, ExperimentsTypeOK,
                      EnrolledAreDeclared, DecidedAreConcluded
<1>4. ASSUME NEW metrics \in (SUBSET Metrics) \ {{}}, readProjectFunnel(metrics)
      PROVE  ExperimentsInv'
  <2>1. UNCHANGED <<outcome, status, enrolled, fate, asks, bookings, decisions>>
    BY <1>4 DEF readProjectFunnel, declared, scheduled
  <2>2. OrdersInv' /\ readings' \subseteq ReadingRow
    BY <1>1, <1>4, FunnelKeepsOrders
  <2> QED
    BY <1>1, <2>1, <2>2 DEF ExperimentsInv, ExperimentsPart, ExperimentsTypeOK,
                            EnrolledAreDeclared, DecidedAreConcluded
<1>5. CASE UNCHANGED vars
  BY <1>5 DEF vars, declared, scheduled, ExperimentsInv, ExperimentsTypeOK, OrdersInv,
              BookingsAreOrders, BookingsAreUnique, AskedIsBooked, AbsentAsksNothing,
              ReadingsAreBooked, CompletedIsFiled, EnrolledAreDeclared, DecidedAreConcluded
<1> QED
  BY <1>2, <1>3, <1>4, <1>5 DEF ExperimentsNext

THEOREM ExperimentsInductive == ExperimentsSpec => []ExperimentsInv
<1>1. ExperimentsInit => ExperimentsInv
  BY InitExperimentsInv
<1>2. ExperimentsInv /\ [ExperimentsNext]_vars => ExperimentsInv'
  BY NextExperimentsInv
<1> QED
  BY <1>1, <1>2, PTL DEF ExperimentsSpec

-----------------------------------------------------------------------------
(* What follows from it *)

\* The rows of experiments.ts, snapshots.ts and decisions.ts keep their shape.
THEOREM ExperimentsTypeCorrect == ExperimentsSpec => []ExperimentsTypeOK
<1>1. ExperimentsInv => ExperimentsTypeOK
  BY DEF ExperimentsInv
<1> QED
  BY <1>1, ExperimentsInductive, PTL

LEMMA AtMostOne ==
  ASSUME NEW S, \A x, y \in S : x = y
  PROVE  Cardinality(S) <= 1
<1>1. CASE S = {}
  <2>1. Cardinality(S) = 0
    BY <1>1, FS_EmptySet
  <2> QED
    BY <2>1
<1>2. CASE S # {}
  <2>1. PICK x : x \in S
    BY <1>2
  <2>2. S = {x}
    BY <2>1
  <2>3. Cardinality(S) = 1
    BY <2>2, FS_Singleton
  <2> QED
    BY <2>3
<1> QED
  BY <1>1, <1>2

\* Nobody is asked twice for one reading (experiments.ts:362-364), whatever
\* verifies, enrols and sweeps, and in whatever order.
THEOREM NobodyIsAskedTwice == ExperimentsSpec => []BookedOnce
<1>1. ExperimentsInv => BookedOnce
  <2> SUFFICES ASSUME ExperimentsInv, NEW k \in Keys \ Fragile, NEW p \in Points
               PROVE  Cardinality({o \in Orders : asks[o] = [point |-> p, key |-> k]}) <= 1
    BY DEF BookedOnce
  <2> DEFINE asked == {o \in Orders : asks[o] = [point |-> p, key |-> k]}
  <2>1. ASSUME NEW o \in asked, NEW q \in asked
        PROVE  o = q
    <3>1. asks[o].key = k /\ asks[q].key = k
      OBVIOUS
    <3>2. PICK b \in bookings : b.order = o
      BY <3>1 DEF ExperimentsInv, OrdersInv, AskedIsBooked
    <3>3. PICK c \in bookings : c.order = q
      BY <3>1 DEF ExperimentsInv, OrdersInv, AskedIsBooked
    <3>4. /\ asks[o] = [point |-> b.point, key |-> b.key]
          /\ asks[q] = [point |-> c.point, key |-> c.key]
      BY <3>2, <3>3 DEF ExperimentsInv, OrdersInv, BookingsAreOrders
    <3>5. b.key = c.key /\ b.point = c.point
      <4>1. asks[o] = [point |-> p, key |-> k] /\ asks[q] = [point |-> p, key |-> k]
        OBVIOUS
      <4> QED
        BY <3>4, <4>1
    <3> QED
      BY <3>2, <3>3, <3>5 DEF ExperimentsInv, OrdersInv, BookingsAreUnique
  <2>2. \A o, q \in asked : o = q
    BY <2>1
  <2> HIDE DEF asked
  <2>3. Cardinality(asked) <= 1
    BY <2>2, AtMostOne
  <2> QED
    BY <2>3 DEF asked
<1> QED
  BY <1>1, ExperimentsInductive, PTL

\* No reading is filed for a delivery it was not read for (snapshots.ts:273).
THEOREM FiledWhereRead == ExperimentsSpec => []ReadingsArePlaced
<1>1. ExperimentsInv => ReadingsArePlaced
  <2> SUFFICES ASSUME ExperimentsInv, NEW r \in readings, r.key # Null
               PROVE  /\ r.order \in Orders
                      /\ asks[r.order] = [point |-> r.point, key |-> r.key]
                      /\ r.experiment = experimentOf[r.point]
                      /\ <<r.experiment, r.key>> \in enrolled
                      /\ outcome[r.key] \in {"verified_posted", "cancelled"}
    BY DEF ReadingsArePlaced
  <2>1. PICK b \in bookings :
          /\ b.order = r.order /\ b.key = r.key /\ b.point = r.point
          /\ r.experiment = experimentOf[b.point]
    BY DEF ExperimentsInv, OrdersInv, ReadingsAreBooked
  <2>2. /\ b.order \in Orders
        /\ asks[b.order] = [point |-> b.point, key |-> b.key]
        /\ <<experimentOf[b.point], b.key>> \in enrolled
        /\ outcome[b.key] \in {"verified_posted", "cancelled"}
    BY DEF ExperimentsInv, OrdersInv, BookingsAreOrders, ExperimentsTypeOK, BookingRow
  <2> QED
    BY <2>1, <2>2
<1> QED
  BY <1>1, ExperimentsInductive, PTL

\* Completing a measure order and filing its readings is one act
\* (snapshots.ts:493).
THEOREM CompletedWithReadings == ExperimentsSpec => []CompletedIsFiled
<1>1. ExperimentsInv => CompletedIsFiled
  BY DEF ExperimentsInv, OrdersInv
<1> QED
  BY <1>1, ExperimentsInductive, PTL

\* After a decision the experiment is over (decisions.ts:285): nothing
\* changes its status or its record, enrols under it or books for it.
THEOREM DecisionsAreFinal == ExperimentsSpec => ConcludedIsFinal
<1> DEFINE Final(e) == decisions[e] # Null =>
       /\ status'[e] = "concluded"
       /\ decisions'[e] = decisions[e]
       /\ \A k \in Keys : <<e, k>> \in enrolled' => <<e, k>> \in enrolled
       /\ \A b \in bookings' : experimentOf[b.point] = e => b \in bookings
<1>1. ExperimentsInv /\ [ExperimentsNext]_vars => [\A e \in Experiments : Final(e)]_vars
  <2> SUFFICES ASSUME ExperimentsInv, ExperimentsNext, NEW e \in Experiments, decisions[e] # Null
               PROVE  /\ status'[e] = "concluded"
                      /\ decisions'[e] = decisions[e]
                      /\ \A k \in Keys : <<e, k>> \in enrolled' => <<e, k>> \in enrolled
                      /\ \A b \in bookings' : experimentOf[b.point] = e => b \in bookings
    OBVIOUS
  <2>1. /\ status[e] = "concluded"
        /\ ExperimentsTypeOK
    BY DEF ExperimentsInv, DecidedAreConcluded
  <2>2. \A b \in bookings' : experimentOf[b.point] = e => b \in bookings
    <3>1. ASSUME \/ \E x \in Experiments : ExperimentStep(x)
                 \/ \E k \in Keys : DeliveryStep(k)
                 \/ scheduleOutstandingObservations
          PROVE  \A b \in bookings' : experimentOf[b.point] = e => b \in bookings
      <4>1. PICK due \in SUBSET (Keys \X Points) : ScheduleEffect(due) /\ IsDue(due)
        BY <2>1, <3>1, ExperimentsSchedule DEF SchedulingStep
      <4>2. \A a \in due : TakesReadings(experimentOf[a[2]])
        BY <4>1 DEF IsDue
      <4>3. \A b \in bookings' \ bookings : <<b.key, b.point>> \in due
        BY <4>1 DEF ScheduleEffect
      <4>4. ASSUME NEW b \in bookings', b \notin bookings
            PROVE  TakesReadings(experimentOf[b.point])
        <5>1. TakesReadings(experimentOf[<<b.key, b.point>>[2]])
          BY <4>2, <4>3, <4>4
        <5> QED
          BY <5>1
      <4> QED
        BY <2>1, <4>4 DEF TakesReadings
    <3>2. ASSUME \/ \E o \in Orders : MeasureStep(o)
                 \/ \E metrics \in (SUBSET Metrics) \ {{}} : readProjectFunnel(metrics)
          PROVE  bookings' = bookings
      BY <3>2 DEF MeasureStep, createByHand, measureAdHoc, approveOrder, dropOrder,
                  completeMeasureOrder, readProjectFunnel, scheduled
    <3> QED
      BY <3>1, <3>2 DEF ExperimentsNext
  <2>3. ASSUME NEW x \in Experiments, ExperimentStep(x)
        PROVE  /\ status'[e] = "concluded"
               /\ decisions'[e] = decisions[e]
               /\ \A k \in Keys : <<e, k>> \in enrolled' => <<e, k>> \in enrolled
    <3>1. CASE declareExperiment(x) \/ stopExperiment(x)
      BY <2>1, <3>1 DEF declareExperiment, stopExperiment, ExperimentsTypeOK, ExperimentStatuses
    <3>2. ASSUME NEW k \in Keys, enrollDelivery(x, k)
          PROVE  /\ status'[e] = status[e] /\ decisions' = decisions
                 /\ enrolled' = enrolled \cup {<<x, k>>} /\ x # e
      BY <2>1, <3>2 DEF enrollDelivery, ExperimentsTypeOK
    <3>3. ASSUME NEW rung \in Claims, concludeWithDecision(x, rung)
          PROVE  /\ status'[e] = status[e] /\ decisions'[e] = decisions[e]
                 /\ enrolled' = enrolled
      BY <2>1, <3>3 DEF concludeWithDecision, ExperimentsTypeOK
    <3> QED
      BY <2>1, <2>3, <3>1, <3>2, <3>3 DEF ExperimentStep
  <2>4. ASSUME \/ \E k \in Keys : DeliveryStep(k)
               \/ scheduleOutstandingObservations
               \/ \E o \in Orders : MeasureStep(o)
               \/ \E metrics \in (SUBSET Metrics) \ {{}} : readProjectFunnel(metrics)
        PROVE  UNCHANGED <<status, enrolled, decisions>>
    BY <2>4 DEF DeliveryStep, createTarget, cancelDelivery, verifyAndObserve,
                scheduleOutstandingObservations, MeasureStep, createByHand, measureAdHoc,
                approveOrder, dropOrder, completeMeasureOrder, readProjectFunnel, declared
  <2> QED
    BY <2>1, <2>2, <2>3, <2>4 DEF ExperimentsNext
<1>2. ExperimentsSpec => [][\A e \in Experiments : Final(e)]_vars
  BY <1>1, ExperimentsInductive, PTL DEF ExperimentsSpec
<1> QED
  BY <1>2 DEF ConcludedIsFinal

-----------------------------------------------------------------------------
(* A verified delivery has its readings on the queue *)

\* Enough for it: the delivery is not cut short and all its orders fit.
AllFit(k) == k \notin Fragile /\ UNION {PointsOf(w) : w \in Watching(k)} \subseteq Fits

LEMMA OneDeliveryIsBooked ==
  ASSUME ExperimentsTypeOK, NEW k \in Keys, k \notin Fragile,
         scheduleObservations(k, enrolled'), outcome'[k] = "verified_posted",
         enrolled' \subseteq sameProject, AllFit(k)',
         NEW e \in Experiments, <<e, k>> \in enrolled', TakesReadings(e),
         NEW p \in PointsOf(e)
  PROVE  Booked(k, p)'
PROOF
<1> DEFINE due == Outstanding({k}, enrolled')
<1>1. due \in SUBSET (Keys \X Points)
  BY DEF Outstanding
<1>2. \A a \in due : a[1] = k /\ a[2] \in Points /\ <<experimentOf[a[2]], k>> \in enrolled'
  BY DEF Outstanding
<1>3. \A w \in Experiments : <<w, k>> \in enrolled' => PointsOf(w) \subseteq Fits
  BY DEF AllFit, Watching, PointsOf
<1>4. \A a \in due : a[1] \notin Fragile /\ a[2] \in Fits
  BY <1>2, <1>3, ExperimentsAssumption DEF PointsOf
<1>5. p \in Points /\ experimentOf[p] = e
  BY DEF PointsOf
<1>6. ~ Booked(k, p) => <<k, p>> \in due
  BY <1>5 DEF Outstanding, NotYetBooked
<1>7. schedule(due)
  BY DEF scheduleObservations
<1> HIDE DEF due
<1>8. /\ bookings \subseteq bookings'
      /\ \A a \in due : \E b \in bookings' : b.key = a[1] /\ b.point = a[2]
  BY <1>1, <1>4, <1>7, Scheduling DEF ScheduleEffect
<1>9. CASE Booked(k, p)
  BY <1>8, <1>9 DEF Booked
<1>10. CASE ~ Booked(k, p)
  <2>1. <<k, p>> \in due
    BY <1>6, <1>10
  <2>2. \E b \in bookings' : b.key = <<k, p>>[1] /\ b.point = <<k, p>>[2]
    BY <1>8, <2>1
  <2> QED
    BY <2>2 DEF Booked
<1> QED
  BY <1>9, <1>10

LEMMA InitBooked == ExperimentsInit => BookedWhenVerified
BY DEF ExperimentsInit, BookedWhenVerified

LEMMA NextBooked ==
  ExperimentsInv /\ BookedWhenVerified /\ [ExperimentsNext]_vars => BookedWhenVerified'
PROOF
<1> SUFFICES ASSUME ExperimentsInv, BookedWhenVerified, [ExperimentsNext]_vars,
                    NEW e \in Experiments, NEW k \in Keys \ Fragile,
                    outcome'[k] = "verified_posted", <<e, k>> \in enrolled',
                    TakesReadings(e)', AllFit(k)', NEW p \in PointsOf(e)
             PROVE  Booked(k, p)'
  BY DEF BookedWhenVerified, AllFit, VerifiedKeys, PointsOf, TakesReadings, Booked
<1>1. ExperimentsTypeOK /\ ExperimentsInv'
  BY NextExperimentsInv DEF ExperimentsInv
<1>2. bookings \subseteq bookings'
  <2>1. CASE \/ \E x \in Experiments : ExperimentStep(x)
             \/ \E j \in Keys : DeliveryStep(j)
             \/ scheduleOutstandingObservations
    BY <1>1, <2>1, ExperimentsSchedule DEF SchedulingStep, ScheduleEffect
  <2>2. CASE \/ \E o \in Orders : MeasureStep(o)
             \/ \E metrics \in (SUBSET Metrics) \ {{}} : readProjectFunnel(metrics)
             \/ UNCHANGED vars
    BY <2>2 DEF MeasureStep, createByHand, measureAdHoc, approveOrder, dropOrder,
                completeMeasureOrder, readProjectFunnel, scheduled, vars
  <2> QED
    BY <2>1, <2>2 DEF ExperimentsNext
\* It was posted and watched before: its readings are booked already.
<1>3. ASSUME outcome[k] = "verified_posted", <<e, k>> \in enrolled, TakesReadings(e), AllFit(k)
      PROVE  Booked(k, p)'
  <2>1. Booked(k, p)
    BY <1>3 DEF BookedWhenVerified, AllFit, VerifiedKeys
  <2> QED
    BY <1>2, <2>1 DEF Booked
<1>4. ASSUME UNCHANGED <<outcome, status, enrolled>>
      PROVE  Booked(k, p)'
  BY <1>3, <1>4 DEF TakesReadings, AllFit, Watching
<1>5. ASSUME NEW x \in Experiments, ExperimentStep(x)
      PROVE  Booked(k, p)'
  <2>1. ASSUME declareExperiment(x) \/ stopExperiment(x) \/ \E rung \in Claims : concludeWithDecision(x, rung)
        PROVE  Booked(k, p)'
    <3>1. UNCHANGED <<outcome, enrolled>>
      BY <2>1 DEF declareExperiment, stopExperiment, concludeWithDecision
    <3>2. status[e] # "absent"
      BY <3>1 DEF ExperimentsInv, EnrolledAreDeclared
    <3>3. status'[e] # "concluded" => status[e] # "concluded"
      BY <1>1, <2>1 DEF declareExperiment, stopExperiment, concludeWithDecision,
                        ExperimentsTypeOK, ExperimentStatuses
    <3>4. TakesReadings(e)
      BY <3>2, <3>3 DEF TakesReadings
    <3>5. AllFit(k)
      BY <3>1 DEF AllFit, Watching
    <3> QED
      BY <1>3, <3>1, <3>4, <3>5
  <2>2. ASSUME NEW j \in Keys, enrollDelivery(x, j)
        PROVE  Booked(k, p)'
    <3>1. /\ status[x] \in {"predeclared", "running"}
          /\ enrolled' = enrolled \cup {<<x, j>>}
          /\ outcome' = outcome
          /\ \/ scheduleObservations(j, enrolled')
             \/ j \in Fragile
          /\ status' = [status EXCEPT ![x] = "running"] \/ status' = status
      BY <2>2 DEF enrollDelivery
    <3>2. TakesReadings(e)
      BY <1>1, <3>1 DEF TakesReadings, ExperimentsTypeOK
    <3>3. CASE j = k
      <4>1. enrolled' \subseteq sameProject
        BY <1>1 DEF ExperimentsInv, ExperimentsTypeOK
      <4> QED
        BY <1>1, <3>1, <3>2, <3>3, <4>1, OneDeliveryIsBooked
    <3>4. CASE j # k
      <4>1. \A w : <<w, k>> \in enrolled' <=> <<w, k>> \in enrolled
        BY <3>1, <3>4
      <4>2. AllFit(k)
        BY <4>1 DEF AllFit, Watching
      <4> QED
        BY <1>3, <3>1, <3>2, <4>1, <4>2
    <3> QED
      BY <3>3, <3>4
  <2> QED
    BY <1>5, <2>1, <2>2 DEF ExperimentStep
<1>6. ASSUME NEW j \in Keys, DeliveryStep(j)
      PROVE  Booked(k, p)'
  <2>1. UNCHANGED <<status, enrolled>>
    BY <1>6 DEF DeliveryStep, createTarget, cancelDelivery, verifyAndObserve, declared
  <2>2. TakesReadings(e) /\ AllFit(k)
    BY <2>1 DEF TakesReadings, AllFit, Watching
  <2>3. CASE outcome[k] = "verified_posted"
    BY <1>3, <2>1, <2>2, <2>3
  <2>4. CASE outcome[k] # "verified_posted"
    <3>1. j = k /\ verifyAndObserve(k)
      <4>1. Open(j) \/ Cancel(j) => outcome'[k] = outcome[k] \/ outcome'[k] \in {"open", "cancelled"}
        BY <1>1 DEF Open, Cancel, BecomeFrom, ExperimentsTypeOK
      <4>2. verifyAndObserve(j)
        BY <1>6, <2>4, <4>1 DEF DeliveryStep, createTarget, cancelDelivery
      <4>3. j # k => outcome'[k] = outcome[k]
        BY <1>1, <4>2 DEF verifyAndObserve, Verify, BecomeFrom, ExperimentsTypeOK
      <4> QED
        BY <2>4, <4>2, <4>3
    <3>2. scheduleObservations(k, enrolled')
      BY <2>1, <3>1 DEF verifyAndObserve
    <3>3. enrolled' \subseteq sameProject
      BY <1>1 DEF ExperimentsInv, ExperimentsTypeOK
    <3> QED
      BY <1>1, <2>2, <3>2, <3>3, OneDeliveryIsBooked
  <2> QED
    BY <2>3, <2>4
<1>7. CASE scheduleOutstandingObservations
  BY <1>4, <1>7 DEF scheduleOutstandingObservations, declared
<1>8. ASSUME \/ \E o \in Orders : MeasureStep(o)
             \/ \E metrics \in (SUBSET Metrics) \ {{}} : readProjectFunnel(metrics)
             \/ UNCHANGED vars
      PROVE  UNCHANGED <<outcome, status, enrolled>>
  BY <1>8 DEF MeasureStep, createByHand, measureAdHoc, approveOrder, dropOrder,
              completeMeasureOrder, readProjectFunnel, declared, vars
<1> QED
  BY <1>4, <1>5, <1>6, <1>7, <1>8 DEF ExperimentsNext

\* A delivery verified under an experiment has its readings on the queue
\* (experiments.ts:449-452) if every order of theirs fits the schema.
THEOREM VerifiedIsBooked == ExperimentsSpec => []BookedWhenVerified
<1>1. ExperimentsInit => BookedWhenVerified
  BY InitBooked
<1>2. ExperimentsInv /\ BookedWhenVerified /\ [ExperimentsNext]_vars => BookedWhenVerified'
  BY NextBooked
<1> QED
  BY <1>1, <1>2, ExperimentsInductive, PTL DEF ExperimentsSpec

-----------------------------------------------------------------------------
(* Conclusions are backed by evidence *)

PostedUnder(e) == {k \in Keys : /\ <<e, k>> \in enrolled
                                /\ outcome[k] \in {"verified_posted", "cancelled"}}

LEMMA KeySetsAreCounted ==
  ASSUME NEW S \in SUBSET Keys, NEW T \in SUBSET Keys, S \subseteq T
  PROVE  Cardinality(S) \in Nat /\ Cardinality(T) \in Nat /\ Cardinality(S) <= Cardinality(T)
<1>1. IsFiniteSet(S) /\ IsFiniteSet(T)
  BY ExperimentsAssumption, FS_Subset
<1> QED
  BY <1>1, FS_Subset, FS_CardinalityType

\* Deliveries that count for a sample, or as read, keep counting.
LEMMA EvidenceStays ==
  ASSUME ExperimentsInv, ExperimentsInv', [ExperimentsNext]_vars, NEW e \in Experiments
  PROVE  /\ PostedUnder(e) \subseteq PostedUnder(e)'
         /\ ReadOnOwnPoint(e) \subseteq ReadOnOwnPoint(e)'
PROOF
<1>1. ExperimentsTypeOK /\ OrdersInv /\ CompletedIsFiled /\ CompletedIsFiled'
  BY DEF ExperimentsInv, OrdersInv
<1>2. /\ enrolled \subseteq enrolled'
      /\ bookings \subseteq bookings'
      /\ readings \subseteq readings'
      /\ \A k \in Keys : outcome[k] \in {"verified_posted", "cancelled"}
                           => outcome'[k] \in {"verified_posted", "cancelled"}
  <2>1. CASE \/ \E x \in Experiments : ExperimentStep(x)
             \/ \E j \in Keys : DeliveryStep(j)
             \/ scheduleOutstandingObservations
    BY <1>1, <2>1, ExperimentsSchedule DEF SchedulingStep, ScheduleEffect
  <2>2. CASE \/ \E o \in Orders : MeasureStep(o)
             \/ \E metrics \in (SUBSET Metrics) \ {{}} : readProjectFunnel(metrics)
             \/ UNCHANGED vars
    <3>1. UNCHANGED <<outcome, enrolled, bookings>>
      BY <2>2 DEF MeasureStep, createByHand, measureAdHoc, approveOrder, dropOrder,
                  completeMeasureOrder, readProjectFunnel, scheduled, declared, vars
    <3>2. readings \subseteq readings'
      BY <2>2 DEF MeasureStep, createByHand, measureAdHoc, approveOrder, dropOrder,
                  completeMeasureOrder, recordReadings, readProjectFunnel, vars
    <3> QED
      BY <3>1, <3>2
  <2> QED
    BY <2>1, <2>2 DEF ExperimentsNext
<1>3. \A o \in Orders : fate[o] = "completed" => fate'[o] = "completed"
  BY <1>1, <1>2 DEF CompletedIsFiled
<1>4. PostedUnder(e) \subseteq PostedUnder(e)'
  BY <1>2 DEF PostedUnder
<1>5. \A b \in bookings : b.order \in Orders
  BY <1>1 DEF ExperimentsTypeOK, BookingRow
<1>6. ReadOnOwnPoint(e) \subseteq ReadOnOwnPoint(e)'
  BY <1>2, <1>3, <1>5 DEF ReadOnOwnPoint, PointsOf
<1> QED
  BY <1>4, <1>6

\* The readings the rung is chosen by are of orders of the experiment's own.
LEMMA ReadIsOwn ==
  ASSUME ExperimentsInv, NEW e \in Experiments
  PROVE  deliveriesRead(e) \subseteq ReadOnOwnPoint(e)
PROOF
<1> SUFFICES ASSUME NEW r \in primaryReadings(e), r.point # Null
             PROVE  r.key \in ReadOnOwnPoint(e)
  BY DEF deliveriesRead
<1>1. r \in readings /\ r.experiment = e /\ r.metric = primaryMetric[e]
  BY DEF primaryReadings
<1>2. e # Null
  BY ExperimentsAssumption
<1>3. PICK b \in bookings :
        /\ b.order = r.order /\ b.key = r.key /\ b.point = r.point
        /\ r.experiment = experimentOf[b.point]
  BY <1>1, <1>2 DEF ExperimentsInv, OrdersInv, ReadingsAreBooked
<1>4. b.key \in Keys /\ b.point \in Points /\ b.order \in Orders
  BY DEF ExperimentsInv, ExperimentsTypeOK, BookingRow
<1>5. fate[b.order] = "completed"
  BY <1>1, <1>3, <1>4 DEF ExperimentsInv, OrdersInv, CompletedIsFiled
<1> QED
  BY <1>1, <1>3, <1>4, <1>5 DEF ReadOnOwnPoint, PointsOf

\* Only its own rung is not above a controlled experiment's.
LEMMA ControlledIsTop ==
  ASSUME NEW e, ~ rungIsAbove("controlled_experiment", highestRungAvailable(e))
  PROVE  highestRungAvailable(e) = "controlled_experiment"
PROOF
<1>1. \A i \in 2 .. 5 : LADDER_RUNGS[i] # highestRungAvailable(e)
  BY DEF rungIsAbove, LADDER_RUNGS
<1>2. highestRungAvailable(e) \in
        {"correlated_observation", "pre_post_observation", "within_account_comparison",
         "controlled_experiment"}
  BY Zenon DEF highestRungAvailable
<1> QED
  BY <1>1, <1>2 DEF LADDER_RUNGS

\* No conclusion claims more than the evidence carries (decisions.ts:1-20).
THEOREM ConclusionsHold == ExperimentsSpec => []ConclusionIsBacked
<1>1. ExperimentsInit => ConclusionIsBacked
  BY DEF ExperimentsInit, ConclusionIsBacked
<1>2. ExperimentsInv /\ ConclusionIsBacked /\ [ExperimentsNext]_vars => ConclusionIsBacked'
  <2> SUFFICES ASSUME ExperimentsInv, ConclusionIsBacked, [ExperimentsNext]_vars,
                      NEW e \in Experiments, decisions'[e] # Null
               PROVE  /\ Cardinality(PostedUnder(e)') >= sampleTarget[e]
                      /\ decisions'[e].rung = "controlled_experiment"
                           => Cardinality(ReadOnOwnPoint(e)') >= sampleTarget[e]
    BY DEF ConclusionIsBacked, PostedUnder, ReadOnOwnPoint, PointsOf
  <2>1. ExperimentsInv' /\ ExperimentsTypeOK
    BY NextExperimentsInv DEF ExperimentsInv
  <2>2. /\ PostedUnder(e) \subseteq PostedUnder(e)'
        /\ ReadOnOwnPoint(e) \subseteq ReadOnOwnPoint(e)'
    BY <2>1, EvidenceStays
  <2>3. /\ PostedUnder(e) \subseteq Keys /\ PostedUnder(e)' \subseteq Keys
        /\ ReadOnOwnPoint(e) \subseteq Keys /\ ReadOnOwnPoint(e)' \subseteq Keys
    BY DEF PostedUnder, ReadOnOwnPoint
  <2>4. /\ Cardinality(PostedUnder(e)) \in Nat /\ Cardinality(PostedUnder(e)') \in Nat
        /\ Cardinality(PostedUnder(e)) <= Cardinality(PostedUnder(e)')
        /\ Cardinality(ReadOnOwnPoint(e)) \in Nat /\ Cardinality(ReadOnOwnPoint(e)') \in Nat
        /\ Cardinality(ReadOnOwnPoint(e)) <= Cardinality(ReadOnOwnPoint(e)')
    BY <2>2, <2>3, KeySetsAreCounted
  <2>5. sampleTarget[e] \in Nat
    BY ExperimentsAssumption
  <2>6. CASE decisions'[e] = decisions[e]
    <3>1. /\ Cardinality(PostedUnder(e)) >= sampleTarget[e]
          /\ decisions[e].rung = "controlled_experiment"
               => Cardinality(ReadOnOwnPoint(e)) >= sampleTarget[e]
      BY <2>6 DEF ConclusionIsBacked, PostedUnder
    <3> QED
      BY <2>4, <2>5, <2>6, <3>1
  <2>7. CASE decisions'[e] # decisions[e]
    <3>1. PICK rung \in Claims : concludeWithDecision(e, rung)
      <4>1. PICK x \in Experiments : ExperimentStep(x)
        BY <2>7 DEF ExperimentsNext, DeliveryStep, createTarget, cancelDelivery,
                    verifyAndObserve, scheduleOutstandingObservations, MeasureStep,
                    createByHand, measureAdHoc, approveOrder, dropOrder,
                    completeMeasureOrder, readProjectFunnel, vars
      <4>2. PICK rung \in Claims : concludeWithDecision(x, rung)
        BY <2>7, <4>1 DEF ExperimentStep, declareExperiment, stopExperiment, enrollDelivery
      <4>3. x = e
        BY <2>1, <2>7, <4>2 DEF concludeWithDecision, ExperimentsTypeOK
      <4> QED
        BY <4>2, <4>3
    <3>2. /\ sampleMet(e)
          /\ ~ rungIsAbove(rung, highestRungAvailable(e))
          /\ decisions'[e].rung = rung
      BY <2>1, <3>1 DEF concludeWithDecision, ExperimentsTypeOK
    <3>3. delivered(e) \subseteq PostedUnder(e)
      BY DEF delivered, VerifiedKeys, PostedUnder
    <3>4. /\ Cardinality(delivered(e)) \in Nat
          /\ Cardinality(delivered(e)) <= Cardinality(PostedUnder(e))
      BY <2>3, <3>3, KeySetsAreCounted
    <3>5. Cardinality(PostedUnder(e)') >= sampleTarget[e]
      BY <2>4, <2>5, <3>2, <3>4 DEF sampleMet
    <3>6. ASSUME rung = "controlled_experiment"
          PROVE  Cardinality(ReadOnOwnPoint(e)') >= sampleTarget[e]
      <4>1. highestRungAvailable(e) = "controlled_experiment"
        BY <3>2, <3>6, ControlledIsTop
      <4>2. ~ (Cardinality(deliveriesRead(e)) < sampleTarget[e])
        <5> SUFFICES ASSUME Cardinality(deliveriesRead(e)) < sampleTarget[e]
                     PROVE  FALSE
          OBVIOUS
        <5>1. highestRungAvailable(e) \in
                {"correlated_observation", "pre_post_observation", "within_account_comparison"}
          BY Zenon DEF highestRungAvailable
        <5> QED
          BY <4>1, <5>1
      <4>3. deliveriesRead(e) \subseteq ReadOnOwnPoint(e)
        BY ReadIsOwn
      <4>4. /\ Cardinality(deliveriesRead(e)) \in Nat
            /\ Cardinality(deliveriesRead(e)) <= Cardinality(ReadOnOwnPoint(e))
        BY <2>3, <4>3, KeySetsAreCounted
      <4> QED
        BY <2>4, <2>5, <4>2, <4>4
    <3> QED
      BY <3>2, <3>5, <3>6
  <2> QED
    BY <2>6, <2>7
<1> QED
  BY <1>1, <1>2, ExperimentsInductive, PTL DEF ExperimentsSpec
=============================================================================
