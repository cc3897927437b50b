---------------------------- MODULE CatalogProofs ----------------------------
(***************************************************************************)
(* OneCourierPerDelivery and RecipientsSnapshottedOnce for any number of   *)
(* events, couriers, attempts and generations.                             *)
(*                                                                         *)
(* A courier still within its lease either holds the row's claim or works  *)
(* on a row that has ended, and an ended row is never claimed again        *)
(* (Bound); so the row's next claim finds no other courier in time.  The   *)
(* numbers of claims grow with the row's attempts, which is how a          *)
(* settlement knows its own claim.                                         *)
(*                                                                         *)
(* Catalog reviews and keyed requests, for any number of operators,        *)
(* requests, selections and jobs.                                          *)
(*                                                                         *)
(* A review that stands completed is of what its operator saw, because     *)
(* every change of a selection raises the revision a completion names:     *)
(* while the revision of a request stands, the archive is as it was seen   *)
(* (AskOK).  Each change goes forward and keeps, reopens or completes each *)
(* archive's review (AppliedKeeps); everything else changes no review      *)
(* (GentleKeeps, TryKeeps).                                                *)
(***************************************************************************)
EXTENDS Notifications, CatalogReview, FiniteSetTheorems, TLAPS

--------------------------------------------------------------------------
(* The notifications.                                                      *)

DeliveryOutcomes == {"none", "queued", "retrying", "accepted", "failed", "expired"}
NoticeRows == [event : BOOLEAN, receipt : BOOLEAN, st : DeliveryOutcomes, gen : Nat, att : Nat, tok : Nat,
         leased : BOOLEAN, due : BOOLEAN, old : BOOLEAN, aged : BOOLEAN]
Progress == [pc : {"idle", "claimed", "pushing", "answered"}, ev : NoticeEvents \cup {0}, tok : Nat,
             answer : {"none", "accepted", "retry", "gone", "refused"}, inTime : BOOLEAN]

NotifyTyped ==
  /\ subscription \in [active : BOOLEAN, gen : Nat]
  /\ notice \in [NoticeEvents -> NoticeRows]
  /\ courier \in [Couriers -> Progress]
  /\ snapshots \in [NoticeEvents -> {0, 1}]

Queues(r) == r.st \in {"queued", "retrying"}
Known(r) == r.event \/ r.receipt

\* What was snapshotted is remembered, and only an event's row is queued.
Remembered == \A e \in NoticeEvents :
  /\ snapshots[e] = 1 => Known(notice[e])
  /\ Queues(notice[e]) => notice[e].event

\* How a courier that works is tied to its row.
BoundTo(p, r) ==
  /\ Known(r)
  /\ r.event => p.tok <= r.att
  /\ p.inTime /\ Queues(r) => p.tok = r.tok /\ r.leased
  /\ Queues(r) /\ p.tok = r.tok /\ r.leased => p.inTime
Bound == \A c \in Couriers : courier[c].pc # "idle" =>
  courier[c].ev \in NoticeEvents /\ BoundTo(courier[c], notice[courier[c].ev])

OneInTime == \A c, d \in Couriers :
  c # d /\ courier[c].pc # "idle" /\ courier[d].pc # "idle" /\ courier[c].ev = courier[d].ev =>
    ~(courier[c].inTime /\ courier[d].inTime)

NotifyInv == NotifyTyped /\ Remembered /\ Bound /\ OneInTime

--------------------------------------------------------------------------
(* Steps that free or end claims and start none.                           *)

\* A row keeps its event's memory, and its claim as long as it is queued.
Kept(r, s) ==
  /\ Known(r) => Known(s)
  /\ s.event => r.event /\ s.att = r.att
  /\ Queues(s) => Queues(r) /\ s.event = r.event /\ s.tok = r.tok /\ s.leased = r.leased

\* A courier that works after the step worked for the same claim before it.
SameWork(p, q) ==
  q.pc # "idle" => p.pc # "idle" /\ q.ev = p.ev /\ q.tok = p.tok /\ q.inTime = p.inTime

NoticesCalm == /\ \A e \in NoticeEvents : Kept(notice[e], notice'[e])
               /\ \A c \in Couriers : SameWork(courier[c], courier'[c])
               /\ snapshots' = snapshots

\* A calm step ties couriers to rows as they were.
LEMMA NoticesCalmKeeps ==
  ASSUME NotifyInv, NoticesCalm
  PROVE  (Remembered /\ Bound /\ OneInTime)'
<1> USE DEF NotifyInv
<1>1. Remembered'
  <2> SUFFICES ASSUME NEW e \in NoticeEvents
               PROVE  /\ snapshots'[e] = 1 => Known(notice'[e])
                      /\ Queues(notice'[e]) => notice'[e].event
    BY DEF Remembered
  <2>1. Kept(notice[e], notice'[e]) /\ snapshots'[e] = snapshots[e]
    BY DEF NoticesCalm
  <2>2. /\ snapshots[e] = 1 => Known(notice[e])
        /\ Queues(notice[e]) => notice[e].event
    BY DEF Remembered
  <2> QED BY <2>1, <2>2 DEF Kept
<1>2. Bound'
  <2> SUFFICES ASSUME NEW c \in Couriers, courier'[c].pc # "idle"
               PROVE  courier'[c].ev \in NoticeEvents /\ BoundTo(courier'[c], notice'[courier'[c].ev])
    BY DEF Bound
  <2>1. /\ courier[c].pc # "idle" /\ courier'[c].ev = courier[c].ev
        /\ courier'[c].tok = courier[c].tok /\ courier'[c].inTime = courier[c].inTime
    BY DEF NoticesCalm, SameWork
  <2>2. courier[c].ev \in NoticeEvents /\ BoundTo(courier[c], notice[courier[c].ev])
    BY <2>1 DEF Bound
  <2>3. Kept(notice[courier[c].ev], notice'[courier[c].ev])
    BY <2>2 DEF NoticesCalm
  <2> QED BY <2>1, <2>2, <2>3 DEF Kept, BoundTo
<1>3. OneInTime'
  BY DEF OneInTime, NoticesCalm, SameWork
<1> QED BY <1>1, <1>2, <1>3

\* Rows and couriers a step does not touch are kept.
LEMMA NoticesUntouched ==
  /\ \A e \in NoticeEvents : notice'[e] = notice[e] => Kept(notice[e], notice'[e])
  /\ \A c \in Couriers : courier'[c] = courier[c] => SameWork(courier[c], courier'[c])
BY DEF Kept, SameWork

\* A row that ends, or is closed if it was queued, stays a row of its event.
LEMMA ClosedKeeps ==
  ASSUME NEW STATE r, r \in NoticeRows, NEW st \in {"accepted", "failed", "expired"}
  PROVE  /\ Final(r, st) \in NoticeRows /\ Kept(r, Final(r, st))
         /\ Closed(r, st) \in NoticeRows /\ Kept(r, Closed(r, st))
<1>1. Final(r, st) \in NoticeRows
  BY DEF Final, NoticeRows, DeliveryOutcomes
<1>2. Kept(r, Final(r, st))
  BY DEF Final, Kept, Known, Queues, NoticeRows
<1>3. Closed(r, st) \in NoticeRows /\ Kept(r, Closed(r, st))
  BY <1>1, <1>2 DEF Closed, Kept
<1> QED BY <1>1, <1>2, <1>3

LEMMA RestIsIdle == AtRest \in Progress /\ AtRest.pc = "idle"
BY DEF AtRest, Progress

LEMMA NoNoticeIsRow == NoNotice \in NoticeRows
BY DEF NoNotice, NoticeRows, DeliveryOutcomes

--------------------------------------------------------------------------
(* The subscription, the clock, and the couriers' calm steps.              *)

LEMMA ClockKeeps ==
  ASSUME NotifyInv, NEW e \in NoticeEvents, RetryDue(e) \/ LifetimeEnds(e) \/ HistoryEnds(e)
  PROVE  NotifyInv'
<1> USE DEF NotifyInv, NotifyTyped
<1>1. notice[e] \in NoticeRows
  OBVIOUS
<1>2. PICK s \in {[notice[e] EXCEPT !.due = TRUE], [notice[e] EXCEPT !.old = TRUE],
                  [notice[e] EXCEPT !.aged = TRUE]} : notice' = [notice EXCEPT ![e] = s]
  BY DEF RetryDue, LifetimeEnds, HistoryEnds
<1>3. s \in NoticeRows /\ Kept(notice[e], s)
  BY <1>1, <1>2 DEF NoticeRows, Kept, Known, Queues
<1>4. NotifyTyped'
  BY <1>2, <1>3 DEF RetryDue, LifetimeEnds, HistoryEnds
<1>5. NoticesCalm
  BY <1>2, <1>3, NoticesUntouched DEF NoticesCalm, RetryDue, LifetimeEnds, HistoryEnds
<1> QED BY <1>4, <1>5, NoticesCalmKeeps

LEMMA RegisterKeeps ==
  ASSUME NotifyInv, Register
  PROVE  NotifyInv'
<1>1. NotifyTyped'
  BY DEF NotifyInv, NotifyTyped, Register
<1>2. NoticesCalm
  BY NoticesUntouched DEF Register, NoticesCalm
<1> QED BY <1>1, <1>2, NoticesCalmKeeps DEF NotifyInv

LEMMA DisableKeeps ==
  ASSUME NotifyInv, Disable
  PROVE  NotifyInv'
<1> USE DEF NotifyInv, NotifyTyped
<1>1. \A e \in NoticeEvents : notice'[e] = Closed(notice[e], "failed") /\ notice[e] \in NoticeRows
  BY DEF Disable
<1>2. \A e \in NoticeEvents : notice'[e] \in NoticeRows /\ Kept(notice[e], notice'[e])
  BY <1>1, ClosedKeeps
<1>3. NotifyTyped'
  BY <1>2 DEF Disable
<1>4. NoticesCalm
  BY <1>2, NoticesUntouched DEF Disable, NoticesCalm
<1> QED BY <1>3, <1>4, NoticesCalmKeeps

\* Maintenance ends a row nobody works on for, and leaves the receipt of an event it deletes.
LEMMA MaintainedKeeps ==
  ASSUME NEW STATE r, r \in NoticeRows
  PROVE  Maintained(r) \in NoticeRows /\ Kept(r, Maintained(r))
<1>1. /\ Final(r, "expired") \in NoticeRows /\ Kept(r, Final(r, "expired"))
      /\ Final(r, "failed") \in NoticeRows /\ Kept(r, Final(r, "failed"))
  BY ClosedKeeps
<1>2. [NoNotice EXCEPT !.receipt = RetainReceipt(r)] \in NoticeRows
  BY NoNoticeIsRow DEF NoticeRows, RetainReceipt
<1>3. Kept(r, [NoNotice EXCEPT !.receipt = RetainReceipt(r)])
  BY DEF NoNotice, RetainReceipt, Kept, Known, Queues
<1>4. Kept(r, r)
  BY DEF Kept
<1> QED BY <1>1, <1>2, <1>3, <1>4 DEF Maintained

LEMMA MaintainKeeps ==
  ASSUME NotifyInv, NEW c \in Couriers, Maintain(c)
  PROVE  NotifyInv'
<1> USE DEF NotifyInv, NotifyTyped
<1>1. ASSUME NEW e \in NoticeEvents PROVE notice'[e] \in NoticeRows /\ Kept(notice[e], notice'[e])
  <2>1. notice[e] \in NoticeRows /\ notice'[e] = Maintained(notice[e])
    BY DEF Maintain
  <2> QED BY <2>1, MaintainedKeeps
<1>2. NotifyTyped'
  BY <1>1 DEF Maintain
<1>3. NoticesCalm
  BY <1>1, NoticesUntouched DEF Maintain, NoticesCalm
<1> QED BY <1>2, <1>3, NoticesCalmKeeps

\* Dropping a claim, deciding to push it, pushing it: the claim stays the same.
LEMMA CourierKeeps ==
  ASSUME NotifyInv, NEW c \in Couriers, CheckDispatchable(c) \/ PushMessage(c) \/ CourierStops(c)
  PROVE  NotifyInv'
<1> USE DEF NotifyInv, NotifyTyped
<1>1. courier[c] \in Progress
  OBVIOUS
<1>2. UNCHANGED <<subscription, notice, snapshots>>
  BY DEF CheckDispatchable, PushMessage, CourierStops
<1>3. \E q \in Progress : SameWork(courier[c], q) /\ courier' = [courier EXCEPT ![c] = q]
  <2>1. SameWork(courier[c], AtRest)
    BY RestIsIdle DEF SameWork
  <2>2. \A at \in {"pushing", "answered"}, a \in {"none", "accepted", "retry", "gone", "refused"} :
          /\ [courier[c] EXCEPT !.pc = at, !.answer = a] \in Progress
          /\ courier[c].pc # "idle" => SameWork(courier[c], [courier[c] EXCEPT !.pc = at, !.answer = a])
    BY <1>1 DEF Progress, SameWork
  <2>3. CASE CourierStops(c)
    BY <2>1, <2>3, RestIsIdle DEF CourierStops
  <2>4. CASE PushMessage(c)
    BY <2>2, <2>4 DEF PushMessage
  <2>5. CASE CheckDispatchable(c)
    BY <2>1, <2>2, <2>5, RestIsIdle DEF CheckDispatchable
  <2> QED BY <2>3, <2>4, <2>5
<1>4. NotifyTyped'
  BY <1>2, <1>3
<1>5. NoticesCalm
  BY <1>2, <1>3, NoticesUntouched DEF NoticesCalm
<1> QED BY <1>4, <1>5, NoticesCalmKeeps

--------------------------------------------------------------------------
(* Recording, claiming, the end of a lease, settling.                      *)

\* A recorded event has no row yet, so nobody works on it.
LEMMA RecordEventKeeps ==
  ASSUME NotifyInv, NEW e \in NoticeEvents, RecordEvent(e)
  PROVE  NotifyInv'
<1> USE DEF NotifyInv, NotifyTyped
<1> DEFINE s == [NoNotice EXCEPT !.event = TRUE, !.receipt = TRUE, !.gen = subscription.gen,
                                 !.st = IF subscription.active THEN "queued" ELSE "none"]
<1>1. notice' = [notice EXCEPT ![e] = s] /\ UNCHANGED <<subscription, courier>>
  BY DEF RecordEvent
<1>2. s \in NoticeRows /\ s.event
  BY NoNoticeIsRow DEF NoticeRows, DeliveryOutcomes
<1>3. snapshots[e] = 0 /\ snapshots' = [snapshots EXCEPT ![e] = 1]
  <2>1. snapshots[e] = 0
    <3>1. ~Known(notice[e])
      BY DEF RecordEvent, Known
    <3> QED BY <3>1 DEF Remembered
  <2>2. snapshots' = [snapshots EXCEPT ![e] = snapshots[e] + 1]
    BY DEF RecordEvent
  <2> QED BY <2>1, <2>2
<1> HIDE DEF s
<1>4. NotifyTyped'
  BY <1>1, <1>2, <1>3
<1>5. Remembered'
  BY <1>1, <1>2, <1>3 DEF Remembered, Known, Queues
<1>6. Bound'
  <2> SUFFICES ASSUME NEW c \in Couriers, courier[c].pc # "idle"
               PROVE  courier[c].ev \in NoticeEvents /\ BoundTo(courier[c], notice'[courier[c].ev])
    BY <1>1 DEF Bound
  <2>1. courier[c].ev \in NoticeEvents /\ BoundTo(courier[c], notice[courier[c].ev])
    BY DEF Bound
  <2>2. courier[c].ev # e
    BY <2>1 DEF RecordEvent, BoundTo, Known
  <2> QED BY <1>1, <2>1, <2>2
<1>7. OneInTime'
  BY <1>1 DEF OneInTime
<1> QED BY <1>4, <1>5, <1>6, <1>7

\* What a claim makes of the row.
LEMMA ClaimedRow ==
  ASSUME NEW STATE r, r \in NoticeRows, NEW STATE s,
         s = [r EXCEPT !.tok = r.att + 1, !.leased = TRUE, !.att = r.att + 1]
  PROVE  s \in NoticeRows /\ s.event = r.event /\ s.tok = r.att + 1 /\ s.att = r.att + 1 /\ s.leased
<1>1. r.att + 1 \in Nat
  BY DEF NoticeRows
<1> QED BY <1>1 DEF NoticeRows

\* A claim finds no lease on its row, so no other courier in time, and its
\* number is above every earlier one.
LEMMA ClaimDeliveryKeeps ==
  ASSUME NotifyInv, NEW c \in Couriers, NEW e \in NoticeEvents, ClaimDelivery(c, e)
  PROVE  NotifyInv'
<1> USE DEF NotifyInv, NotifyTyped
<1> DEFINE r == notice[e]
           s == [r EXCEPT !.tok = r.att + 1, !.leased = TRUE, !.att = r.att + 1]
           q == [AtRest EXCEPT !.pc = "claimed", !.ev = e, !.tok = r.att + 1, !.inTime = TRUE]
<1>1. r \in NoticeRows /\ Queues(r) /\ r.event /\ ~r.leased
  BY DEF ClaimDelivery, Remembered, Pending, Queues
<1>2. notice' = [notice EXCEPT ![e] = s] /\ courier' = [courier EXCEPT ![c] = q]
  BY DEF ClaimDelivery
<1>3. s \in NoticeRows /\ Known(s) /\ s.event /\ s.tok = r.att + 1 /\ s.att = r.att + 1 /\ s.leased
  <2>1. s.event = r.event /\ s \in NoticeRows /\ s.tok = r.att + 1 /\ s.att = r.att + 1 /\ s.leased
    <3>1. s = [r EXCEPT !.tok = r.att + 1, !.leased = TRUE, !.att = r.att + 1] /\ r \in NoticeRows
      BY <1>1
    <3> HIDE DEF r, s
    <3> QED BY <3>1, ClaimedRow
  <2> HIDE DEF r, s
  <2> QED BY <1>1, <2>1 DEF Known
<1>4. r.att \in Nat /\ r.att + 1 \in Nat
  BY <1>1 DEF NoticeRows
<1>5. q \in Progress /\ q.tok = r.att + 1 /\ q.inTime /\ q.ev = e /\ q.pc # "idle"
  <2> HIDE DEF r
  <2> DEFINE n == r.att + 1
  <2>1. n \in Nat /\ q = [AtRest EXCEPT !.pc = "claimed", !.ev = e, !.tok = n, !.inTime = TRUE]
    BY <1>4
  <2> HIDE DEF q, n
  <2>2. q \in Progress /\ q.tok = n /\ q.inTime /\ q.ev = e /\ q.pc # "idle"
    BY <2>1 DEF AtRest, Progress
  <2> QED BY <2>2 DEF n
<1> HIDE DEF r, s, q
<1>6. UNCHANGED <<subscription, snapshots>>
  BY DEF ClaimDelivery
<1>7. NotifyTyped'
  BY <1>2, <1>3, <1>5, <1>6
<1>8. Remembered'
  BY <1>2, <1>3, <1>6 DEF Remembered
<1>9. \A d \in Couriers : d # c /\ courier[d].pc # "idle" /\ courier[d].ev = e =>
        ~courier[d].inTime /\ courier[d].tok <= r.att
  BY <1>1 DEF Bound, BoundTo, r
<1>10. Bound'
  <2> SUFFICES ASSUME NEW d \in Couriers, courier'[d].pc # "idle"
               PROVE  courier'[d].ev \in NoticeEvents /\ BoundTo(courier'[d], notice'[courier'[d].ev])
    BY DEF Bound
  <2>1. CASE d = c
    BY <2>1, <1>2, <1>3, <1>5, <1>4 DEF BoundTo
  <2>2. CASE d # c /\ courier[d].ev = e
    <3>1. courier'[d] = courier[d] /\ courier[d].tok \in Nat /\ notice'[e] = s
      BY <2>2, <1>2 DEF Progress
    <3>2. ~courier[d].inTime /\ courier[d].tok <= r.att
      BY <3>1, <2>2, <1>9
    <3> QED BY <3>1, <3>2, <2>2, <1>3, <1>4 DEF BoundTo
  <2>3. CASE d # c /\ courier[d].ev # e
    BY <2>3, <1>2 DEF Bound
  <2> QED BY <2>1, <2>2, <2>3
<1>11. OneInTime'
  BY <1>2, <1>5, <1>9 DEF OneInTime
<1> QED BY <1>7, <1>8, <1>10, <1>11

\* The end of a lease is the end of its holder's time.
LEMMA LeaseEndsKeeps ==
  ASSUME NotifyInv, NEW e \in NoticeEvents, NoticeLeaseEnds(e)
  PROVE  NotifyInv'
<1> USE DEF NotifyInv, NotifyTyped
<1> DEFINE s == [notice[e] EXCEPT !.leased = FALSE]
<1>1. notice[e] \in NoticeRows /\ notice' = [notice EXCEPT ![e] = s] /\ UNCHANGED <<subscription, snapshots>>
  BY DEF NoticeLeaseEnds
<1>2. s \in NoticeRows /\ (Known(s) <=> Known(notice[e])) /\ (Queues(s) <=> Queues(notice[e]))
      /\ ~s.leased /\ s.event = notice[e].event /\ s.att = notice[e].att /\ s.tok = notice[e].tok
  BY <1>1 DEF NoticeRows, Known, Queues
<1> HIDE DEF s
<1>3. \A c \in Couriers :
        courier'[c] = IF courier[c].ev = e /\ courier[c].tok = notice[e].tok
                      THEN [courier[c] EXCEPT !.inTime = FALSE] ELSE courier[c]
  BY DEF NoticeLeaseEnds
<1>4. \A c \in Couriers :
        /\ courier'[c] \in Progress
        /\ courier'[c].pc = courier[c].pc /\ courier'[c].ev = courier[c].ev /\ courier'[c].tok = courier[c].tok
        /\ courier'[c].inTime => courier[c].inTime
        /\ courier'[c].inTime => ~(courier[c].ev = e /\ courier[c].tok = notice[e].tok)
        /\ courier[c].ev # e => courier'[c] = courier[c]
  <2> SUFFICES ASSUME NEW c \in Couriers
               PROVE  LET p == courier[c]  q == courier'[c] IN
                      /\ q \in Progress /\ q.pc = p.pc /\ q.ev = p.ev /\ q.tok = p.tok
                      /\ q.inTime => p.inTime
                      /\ q.inTime => ~(p.ev = e /\ p.tok = notice[e].tok)
                      /\ p.ev # e => q = p
    OBVIOUS
  <2>1. courier[c] \in Progress
    OBVIOUS
  <2>2. CASE courier[c].ev = e /\ courier[c].tok = notice[e].tok
    <3>1. courier'[c] = [courier[c] EXCEPT !.inTime = FALSE]
      BY <2>2, <1>3
    <3>2. /\ courier'[c] \in Progress /\ ~courier'[c].inTime /\ courier'[c].pc = courier[c].pc
          /\ courier'[c].ev = courier[c].ev /\ courier'[c].tok = courier[c].tok
      BY <2>1, <3>1 DEF Progress
    <3> QED BY <2>2, <3>2
  <2>3. CASE ~(courier[c].ev = e /\ courier[c].tok = notice[e].tok)
    <3>1. courier'[c] = courier[c]
      BY <2>3, <1>3
    <3> QED BY <2>1, <2>3, <3>1
  <2> QED BY <2>2, <2>3
<1>5. NotifyTyped'
  <2>1. courier' \in [Couriers -> Progress]
    BY <1>4 DEF NoticeLeaseEnds
  <2> QED BY <1>1, <1>2, <2>1
<1>6. Remembered'
  BY <1>1, <1>2 DEF Remembered
<1>7. Bound'
  <2> SUFFICES ASSUME NEW c \in Couriers, courier'[c].pc # "idle"
               PROVE  courier'[c].ev \in NoticeEvents /\ BoundTo(courier'[c], notice'[courier'[c].ev])
    BY DEF Bound
  <2>1. courier[c].ev \in NoticeEvents /\ BoundTo(courier[c], notice[courier[c].ev])
    BY <1>4 DEF Bound
  <2>2. CASE courier[c].ev = e
    BY <2>1, <2>2, <1>1, <1>2, <1>4 DEF BoundTo
  <2>3. CASE courier[c].ev # e
    BY <2>1, <2>3, <1>1, <1>4
  <2> QED BY <2>2, <2>3
<1>8. OneInTime'
  BY <1>4 DEF OneInTime
<1> QED BY <1>5, <1>6, <1>7, <1>8

\* A settled row is queued again only without a claim.
LEMMA SettledRowKeeps ==
  ASSUME NEW STATE r, r \in NoticeRows, NEW answer \in {"none", "accepted", "retry", "gone", "refused"},
         NEW late \in BOOLEAN
  PROVE  /\ SettledRow(r, answer, late) \in NoticeRows
         /\ Known(r) => Known(SettledRow(r, answer, late))
         /\ SettledRow(r, answer, late).event = r.event /\ SettledRow(r, answer, late).att = r.att
         /\ ~SettledRow(r, answer, late).leased
<1>1. \A st \in DeliveryOutcomes : /\ Final(r, st) \in NoticeRows /\ ~Final(r, st).leased
                                   /\ Final(r, st).event = r.event /\ Final(r, st).att = r.att
                                   /\ Final(r, st).receipt = r.receipt
  BY DEF Final, NoticeRows
<1>2. \A st \in DeliveryOutcomes :
        LET s == [Final(r, st) EXCEPT !.due = FALSE] IN
        /\ s \in NoticeRows /\ ~s.leased /\ s.event = r.event /\ s.att = r.att /\ s.receipt = r.receipt
  BY <1>1 DEF NoticeRows
<1>3. {"expired", "accepted", "retrying", "failed"} \subseteq DeliveryOutcomes
  BY DEF DeliveryOutcomes
<1>4. \/ \E st \in DeliveryOutcomes : SettledRow(r, answer, late) = Final(r, st)
      \/ SettledRow(r, answer, late) = [Final(r, "retrying") EXCEPT !.due = FALSE]
  BY <1>3 DEF SettledRow
<1> QED BY <1>1, <1>2, <1>3, <1>4 DEF Known

\* Who settles holds the claim, so it alone was in time.
LEMMA SettleKeeps ==
  ASSUME NotifyInv, NEW c \in Couriers, SettleDelivery(c)
  PROVE  NotifyInv'
<1> USE DEF NotifyInv, NotifyTyped
<1> DEFINE p == courier[c]
           e == p.ev
<1>1. p.pc # "idle" /\ p \in Progress /\ e \in NoticeEvents /\ BoundTo(p, notice[e])
  BY DEF SettleDelivery, Bound
<1>2. courier' = [courier EXCEPT ![c] = AtRest] /\ snapshots' = snapshots
  BY DEF SettleDelivery
<1>3. \A d \in Couriers : SameWork(courier[d], courier'[d])
  BY <1>2, RestIsIdle DEF SameWork
<1>4. courier' \in [Couriers -> Progress]
  BY <1>2, RestIsIdle
<1>5. CASE ~HoldsClaim(c) /\ UNCHANGED <<subscription, notice>>
  <2>1. NotifyTyped' /\ NoticesCalm
    BY <1>2, <1>3, <1>4, <1>5, NoticesUntouched DEF NoticesCalm
  <2> QED BY <2>1, NoticesCalmKeeps
<1>6. CASE HoldsClaim(c)
  <2>1. Queues(notice[e]) /\ p.tok = notice[e].tok /\ notice[e].leased /\ p.inTime
    BY <1>1, <1>6 DEF HoldsClaim, Pending, Queues, BoundTo
  <2>2. \A d \in Couriers : courier'[d].pc # "idle" /\ courier'[d].ev = e =>
          d # c /\ courier'[d] = courier[d] /\ ~courier'[d].inTime
    BY <1>1, <1>2, <2>1, RestIsIdle DEF OneInTime
  <2>3. /\ subscription' \in [active : BOOLEAN, gen : Nat]
        /\ notice' \in [NoticeEvents -> NoticeRows]
        /\ \E late \in BOOLEAN : notice'[e] = SettledRow(notice[e], p.answer, late)
        /\ \A i \in NoticeEvents \ {e} : Kept(notice[i], notice'[i])
    <3>1. \A late \in BOOLEAN : SettledRow(notice[e], p.answer, late) \in NoticeRows
      <4>1. p.answer \in {"none", "accepted", "retry", "gone", "refused"}
        BY <1>1 DEF Progress
      <4> QED BY <1>1, <4>1, SettledRowKeeps
    <3>2. CASE p.answer # "gone"
      <4>1. PICK late \in BOOLEAN : notice' = [notice EXCEPT ![e] = SettledRow(notice[e], p.answer, late)]
        BY <1>6, <3>2 DEF SettleDelivery
      <4>2. subscription' = subscription
        BY <1>6, <3>2 DEF SettleDelivery
      <4> HIDE DEF e, p
      <4> QED BY <1>1, <3>1, <4>1, <4>2, NoticesUntouched
    <3>3. CASE p.answer = "gone"
      <4>1. notice' = [i \in NoticeEvents |->
               IF i = e THEN SettledRow(notice[e], "gone", FALSE)
               ELSE IF notice[i].gen = notice[e].gen THEN Closed(notice[i], "failed") ELSE notice[i]]
        BY <1>6, <3>3 DEF SettleDelivery
      <4>2. \A i \in NoticeEvents : notice[i] \in NoticeRows /\ Closed(notice[i], "failed") \in NoticeRows
                                    /\ Kept(notice[i], Closed(notice[i], "failed")) /\ Kept(notice[i], notice[i])
        BY ClosedKeeps DEF Kept
      <4>3. subscription' \in [active : BOOLEAN, gen : Nat]
        BY <1>6, <3>3 DEF SettleDelivery
      <4> HIDE DEF e, p
      <4>4. \A i \in NoticeEvents \ {e} : Kept(notice[i], notice'[i])
        BY <4>1, <4>2
      <4>5. notice' \in [NoticeEvents -> NoticeRows]
        BY <4>1, <4>2, <3>1, <3>3
      <4> QED BY <1>1, <3>3, <4>1, <4>3, <4>4, <4>5
    <3> QED BY <3>2, <3>3
  <2>4. NotifyTyped'
    BY <1>2, <1>4, <2>3
  <2>5. /\ Known(notice[e]) => Known(notice'[e])
        /\ notice'[e].event = notice[e].event /\ notice'[e].att = notice[e].att /\ ~notice'[e].leased
    <3>1. p.answer \in {"none", "accepted", "retry", "gone", "refused"} /\ notice[e] \in NoticeRows
      BY <1>1 DEF Progress
    <3>2. PICK late \in BOOLEAN : notice'[e] = SettledRow(notice[e], p.answer, late)
      BY <2>3
    <3> HIDE DEF e, p
    <3>3. /\ Known(notice[e]) => Known(SettledRow(notice[e], p.answer, late))
          /\ SettledRow(notice[e], p.answer, late).event = notice[e].event
          /\ SettledRow(notice[e], p.answer, late).att = notice[e].att
          /\ ~SettledRow(notice[e], p.answer, late).leased
      BY <3>1, SettledRowKeeps
    <3> QED BY <3>2, <3>3
  <2> HIDE DEF e, p
  <2>6. notice[e].event /\ Known(notice[e])
    BY <1>1, <2>1 DEF Remembered, Known
  <2>7. Remembered'
    BY <1>2, <2>3, <2>5, <2>6 DEF Remembered, Kept
  <2>8. Bound'
    <3> SUFFICES ASSUME NEW d \in Couriers, courier'[d].pc # "idle"
                 PROVE  courier'[d].ev \in NoticeEvents /\ BoundTo(courier'[d], notice'[courier'[d].ev])
      BY DEF Bound
    <3>1. courier'[d] = courier[d] /\ courier[d].pc # "idle"
      BY <1>2, RestIsIdle
    <3>2. courier[d].ev \in NoticeEvents /\ BoundTo(courier[d], notice[courier[d].ev])
      BY <3>1 DEF Bound
    <3>3. CASE courier[d].ev = e
      BY <3>1, <3>2, <3>3, <2>2, <2>5 DEF BoundTo
    <3>4. CASE courier[d].ev # e
      <4>1. Kept(notice[courier[d].ev], notice'[courier[d].ev])
        BY <3>2, <3>4, <2>3
      <4> QED BY <3>1, <3>2, <4>1 DEF BoundTo, Kept
    <3> QED BY <3>3, <3>4
  <2>9. OneInTime'
    BY <1>3 DEF OneInTime, SameWork
  <2> QED BY <2>4, <2>7, <2>8, <2>9
<1> QED BY <1>5, <1>6 DEF SettleDelivery

--------------------------------------------------------------------------
(* The theorems.                                                           *)

LEMMA NotifyInitInv == NotifyInit => NotifyInv
<1> SUFFICES ASSUME NotifyInit PROVE NotifyInv
  OBVIOUS
<1> USE NoNoticeIsRow, RestIsIdle
<1>1. PICK legacy \in SUBSET NoticeEvents :
        notice = [e \in NoticeEvents |-> IF e \notin legacy THEN NoNotice
                    ELSE [NoNotice EXCEPT !.event = TRUE, !.st = "queued", !.gen = 1]]
  BY DEF NotifyInit
<1>2. [NoNotice EXCEPT !.event = TRUE, !.st = "queued", !.gen = 1] \in NoticeRows
  BY DEF NoticeRows, DeliveryOutcomes
<1>3. notice \in [NoticeEvents -> NoticeRows]
  BY <1>1, <1>2
<1>4. NotifyTyped
  BY <1>3 DEF NotifyInit, NotifyTyped
<1>5. \A c \in Couriers : courier[c].pc = "idle"
  BY DEF NotifyInit
<1>6. Remembered
  BY <1>1 DEF NotifyInit, Remembered, Known, Queues, NoNotice
<1> QED BY <1>4, <1>5, <1>6 DEF NotifyInv, Bound, OneInTime

LEMMA StepKeepsInv == NotifyInv /\ [NotifyNext]_noticeVars => NotifyInv'
<1> SUFFICES ASSUME NotifyInv, [NotifyNext]_noticeVars PROVE NotifyInv'
  OBVIOUS
<1>1. ASSUME NEW e \in NoticeEvents, RecordEvent(e) PROVE NotifyInv'
  BY <1>1, RecordEventKeeps
<1>2. ASSUME NEW e \in NoticeEvents, NoticeLeaseEnds(e) PROVE NotifyInv'
  BY <1>2, LeaseEndsKeeps
<1>3. ASSUME NEW e \in NoticeEvents, RetryDue(e) \/ LifetimeEnds(e) \/ HistoryEnds(e) PROVE NotifyInv'
  BY <1>3, ClockKeeps
<1>4. CASE Register \/ Disable
  BY <1>4, RegisterKeeps, DisableKeeps
<1>5. ASSUME NEW c \in Couriers, NEW e \in NoticeEvents, ClaimDelivery(c, e) PROVE NotifyInv'
  BY <1>5, ClaimDeliveryKeeps
<1>6. ASSUME NEW c \in Couriers, CheckDispatchable(c) \/ PushMessage(c) \/ CourierStops(c) PROVE NotifyInv'
  BY <1>6, CourierKeeps
<1>7. ASSUME NEW c \in Couriers, SettleDelivery(c) PROVE NotifyInv'
  BY <1>7, SettleKeeps
<1>8. ASSUME NEW c \in Couriers, Maintain(c) PROVE NotifyInv'
  BY <1>8, MaintainKeeps
<1>9. CASE UNCHANGED noticeVars
  BY <1>9 DEF noticeVars, NotifyInv, NotifyTyped, Remembered, Bound, OneInTime
<1> QED BY <1>1, <1>2, <1>3, <1>4, <1>5, <1>6, <1>7, <1>8, <1>9 DEF NotifyNext, Dispatch

LEMMA NotifyInvariant == NotifySpec => []NotifyInv
BY NotifyInitInv, StepKeepsInv, PTL DEF NotifySpec

\* Two workers never push one delivery while both are within their leases,
\* for any number of workers and attempts (claim, settle).
THEOREM OneCourier == NotifySpec => []OneCourierPerDelivery
<1>1. NotifyInv => OneCourierPerDelivery
  BY DEF NotifyInv, OneInTime, OneCourierPerDelivery
<1> QED BY <1>1, NotifyInvariant, PTL

\* The recipients of an outcome are snapshotted once, however often it is
\* reported and whatever maintenance deletes (recordEvent, retainReceipt).
THEOREM SnapshottedOnce == NotifySpec => []RecipientsSnapshottedOnce
<1>1. NotifyInv => RecipientsSnapshottedOnce
  BY DEF NotifyInv, NotifyTyped, RecipientsSnapshottedOnce
<1> QED BY <1>1, NotifyInvariant, PTL

--------------------------------------------------------------------------
(* How often a delivery is pushed.  Every push spends a claim, and no two  *)
(* claims of a row have the same number: pushes and the claims that may    *)
(* still be pushed are together no more than the claims that were made.    *)

Sending(p, e) == p.pc \in {"claimed", "pushing"} /\ p.ev = e
Unsent(e) == {courier[c].tok : c \in {d \in Couriers : Sending(courier[d], e)}}

Within(e, n) ==
  /\ notice[e].event => n = notice[e].att
  /\ ~Known(notice[e]) => n = 0
  /\ Unsent(e) \subseteq 1..n
  /\ pushed[e] + Cardinality(Unsent(e)) <= n

Numbered(r) == r.att \in 0..MaxAttempts /\ r.tok \in 0..r.att /\ (r.leased => r.tok > 0)

OwnNumbers == \A c, d \in Couriers, e \in NoticeEvents :
  c # d /\ Sending(courier[c], e) /\ Sending(courier[d], e) => courier[c].tok # courier[d].tok

PushInv ==
  /\ subscription.gen \in 1..MaxGeneration
  /\ pushed \in [NoticeEvents -> Nat]
  /\ OwnNumbers
  /\ \A e \in NoticeEvents : Numbered(notice[e]) /\ \E n \in 0..MaxAttempts : Within(e, n)

\* The claims not yet pushed are finitely many.
LEMMA UnsentFinite ==
  ASSUME NEW e \in NoticeEvents, NEW n \in Nat, Within(e, n)
  PROVE  IsFiniteSet(Unsent(e)) /\ Cardinality(Unsent(e)) \in Nat
<1>1. IsFiniteSet(1..n)
  BY FS_Interval
<1>2. IsFiniteSet(Unsent(e))
  BY <1>1, FS_Subset DEF Within
<1> QED BY <1>2, FS_CardinalityType

\* What a step that claims and pushes nothing leaves of a row.
Lasts(r, s) == /\ Known(r) => Known(s)
               /\ s.event => r.event /\ s.att = r.att
               /\ Numbered(s)
StillSending == \A c \in Couriers, e \in NoticeEvents :
  Sending(courier'[c], e) => Sending(courier[c], e) /\ courier'[c].tok = courier[c].tok

\* Fewer claims may be pushed, and none was.
LEMMA FewerUnsent ==
  ASSUME NEW e \in NoticeEvents, NEW n \in 0..MaxAttempts, Within(e, n), PushInv,
         Lasts(notice[e], notice'[e]), StillSending, pushed'[e] = pushed[e]
  PROVE  Within(e, n)'
<1>0. n \in Nat /\ pushed[e] \in Nat
  BY NoticeBounds DEF PushInv
<1>1. Unsent(e)' \subseteq Unsent(e)
  BY DEF Unsent, StillSending
<1>2. Cardinality(Unsent(e)') <= Cardinality(Unsent(e)) /\ Cardinality(Unsent(e)') \in Nat
      /\ Cardinality(Unsent(e)) \in Nat
  BY <1>0, <1>1, UnsentFinite, FS_Subset, FS_CardinalityType
<1>3. pushed'[e] + Cardinality(Unsent(e)') <= n
  BY <1>0, <1>2 DEF Within
<1>4. /\ notice'[e].event => n = notice'[e].att
      /\ ~Known(notice'[e]) => n = 0
  BY DEF Within, Lasts
<1> QED BY <1>1, <1>3, <1>4 DEF Within

\* A step that claims and pushes nothing.
LEMMA SpendsNothing ==
  ASSUME PushInv, subscription'.gen \in 1..MaxGeneration, pushed' = pushed, StillSending,
         \A e \in NoticeEvents : Lasts(notice[e], notice'[e])
  PROVE  PushInv'
<1>1. OwnNumbers'
  BY DEF PushInv, OwnNumbers, StillSending
<1>2. ASSUME NEW e \in NoticeEvents PROVE Numbered(notice'[e]) /\ \E n \in 0..MaxAttempts : Within(e, n)'
  <2>1. PICK n \in 0..MaxAttempts : Within(e, n)
    BY DEF PushInv
  <2>2. Within(e, n)'
    BY <2>1, FewerUnsent
  <2> QED BY <2>2 DEF Lasts
<1> QED BY <1>1, <1>2 DEF PushInv

\* Every row a step may write, but that of a claim, lasts.
LEMMA WrittenRowsLast ==
  ASSUME NEW STATE r, r \in NoticeRows, Numbered(r)
  PROVE  /\ Lasts(r, r) /\ Lasts(r, Maintained(r))
         /\ \A st \in DeliveryOutcomes : Lasts(r, Final(r, st)) /\ Lasts(r, Closed(r, st))
         /\ \A answer, late : Lasts(r, SettledRow(r, answer, late))
         /\ Lasts(r, [r EXCEPT !.leased = FALSE]) /\ Lasts(r, [r EXCEPT !.due = TRUE])
         /\ Lasts(r, [r EXCEPT !.old = TRUE]) /\ Lasts(r, [r EXCEPT !.aged = TRUE])
<1>1. r.att \in Nat /\ 0 \in 0..r.att
  BY NoticeBounds DEF NoticeRows
<1>2. Lasts(r, r)
  BY DEF Lasts
<1>3. \A st \in DeliveryOutcomes : Lasts(r, Final(r, st)) /\ Lasts(r, [Final(r, st) EXCEPT !.due = FALSE])
  BY <1>1 DEF Final, Lasts, Known, Numbered, NoticeRows
<1>4. {"expired", "accepted", "retrying", "failed"} \subseteq DeliveryOutcomes
  BY DEF DeliveryOutcomes
<1>5. \A st \in DeliveryOutcomes : Lasts(r, Closed(r, st))
  BY <1>2, <1>3 DEF Closed
<1>6. \A answer, late : Lasts(r, SettledRow(r, answer, late))
  <2> SUFFICES ASSUME NEW answer, NEW late PROVE Lasts(r, SettledRow(r, answer, late))
    OBVIOUS
  <2>1. \/ \E st \in DeliveryOutcomes : SettledRow(r, answer, late) = Final(r, st)
        \/ SettledRow(r, answer, late) = [Final(r, "retrying") EXCEPT !.due = FALSE]
    BY <1>4 DEF SettledRow
  <2> QED BY <1>3, <1>4, <2>1
<1>7. Lasts(r, [NoNotice EXCEPT !.receipt = RetainReceipt(r)])
  BY NoticeBounds DEF Lasts, Known, Numbered, NoNotice, RetainReceipt
<1>8. Lasts(r, Maintained(r))
  BY <1>2, <1>3, <1>4, <1>7 DEF Maintained
<1>9. Lasts(r, [r EXCEPT !.leased = FALSE]) /\ Lasts(r, [r EXCEPT !.due = TRUE])
  BY <1>1 DEF Lasts, Known, Numbered, NoticeRows
<1>10. Lasts(r, [r EXCEPT !.old = TRUE]) /\ Lasts(r, [r EXCEPT !.aged = TRUE])
  BY <1>1 DEF Lasts, Known, Numbered, NoticeRows
<1> QED BY <1>2, <1>3, <1>5, <1>6, <1>8, <1>9, <1>10

\* The steps that neither record, claim nor push.
LEMMA OtherStepsSpendNothing ==
  ASSUME NotifyInv, PushInv,
         \/ \E e \in NoticeEvents : NoticeLeaseEnds(e) \/ RetryDue(e) \/ LifetimeEnds(e) \/ HistoryEnds(e)
         \/ Register \/ Disable
         \/ \E c \in Couriers : CheckDispatchable(c) \/ SettleDelivery(c) \/ CourierStops(c) \/ Maintain(c)
  PROVE  PushInv'
<1> USE DEF NotifyInv, NotifyTyped
<1>1. \A e \in NoticeEvents : notice[e] \in NoticeRows /\ Numbered(notice[e])
  BY DEF PushInv
<1>2. \A e \in NoticeEvents :
        LET r == notice[e] IN
        /\ Lasts(r, r) /\ Lasts(r, Maintained(r)) /\ Lasts(r, Closed(r, "failed"))
        /\ \A answer, late : Lasts(r, SettledRow(r, answer, late))
        /\ Lasts(r, [r EXCEPT !.leased = FALSE]) /\ Lasts(r, [r EXCEPT !.due = TRUE])
        /\ Lasts(r, [r EXCEPT !.old = TRUE]) /\ Lasts(r, [r EXCEPT !.aged = TRUE])
  BY <1>1, WrittenRowsLast DEF DeliveryOutcomes
<1>3. AtRest.pc = "idle" /\ \A c \in Couriers : courier[c] \in Progress
  BY RestIsIdle
<1>4. MaxGeneration \in Nat \ {0} /\ subscription.gen \in 1..MaxGeneration
  BY NoticeBounds DEF PushInv
<1>5. ASSUME NEW e \in NoticeEvents, NoticeLeaseEnds(e) PROVE PushInv'
  <2>1. StillSending
    BY <1>3, <1>5 DEF NoticeLeaseEnds, StillSending, Sending, Progress
  <2>2. \A i \in NoticeEvents : Lasts(notice[i], notice'[i])
    BY <1>2, <1>5 DEF NoticeLeaseEnds
  <2> QED BY <1>4, <1>5, <2>1, <2>2, SpendsNothing DEF NoticeLeaseEnds
<1>6. ASSUME NEW e \in NoticeEvents, RetryDue(e) \/ LifetimeEnds(e) \/ HistoryEnds(e) PROVE PushInv'
  <2>1. \A i \in NoticeEvents : Lasts(notice[i], notice'[i])
    BY <1>2, <1>6 DEF RetryDue, LifetimeEnds, HistoryEnds
  <2>2. UNCHANGED <<subscription, courier, pushed>>
    BY <1>6 DEF RetryDue, LifetimeEnds, HistoryEnds
  <2> QED BY <1>4, <2>1, <2>2, SpendsNothing DEF StillSending
<1>7. CASE Register
  <2>1. subscription'.gen \in 1..MaxGeneration
    BY <1>4, <1>7 DEF Register
  <2> QED BY <1>2, <1>7, <2>1, SpendsNothing DEF Register, StillSending
<1>8. CASE Disable
  <2>1. subscription'.gen \in 1..MaxGeneration
    BY <1>4, <1>8 DEF Disable
  <2>2. \A i \in NoticeEvents : Lasts(notice[i], notice'[i])
    BY <1>2, <1>8 DEF Disable
  <2> QED BY <1>8, <2>1, <2>2, SpendsNothing DEF Disable, StillSending
<1>9. ASSUME NEW c \in Couriers, CheckDispatchable(c) \/ CourierStops(c) PROVE PushInv'
  <2>0. \E q : /\ courier' = [courier EXCEPT ![c] = q]
               /\ \/ q.pc = "idle"
                  \/ courier[c].pc = "claimed" /\ q.ev = courier[c].ev /\ q.tok = courier[c].tok
    <3>1. CASE CourierStops(c)
      BY <1>3, <3>1 DEF CourierStops
    <3>2. CASE CheckDispatchable(c)
      <4>1. CASE courier' = [courier EXCEPT ![c] = AtRest]
        BY <1>3, <4>1
      <4>2. CASE courier' # [courier EXCEPT ![c] = AtRest]
        <5>1. PICK at \in {"pushing", "answered"} :
                courier' = [courier EXCEPT ![c] = [courier[c] EXCEPT !.pc = at,
                              !.answer = IF at = "answered" THEN "gone" ELSE "none"]]
          BY <3>2, <4>2 DEF CheckDispatchable
        <5>2. courier[c].pc = "claimed" /\ courier[c] \in Progress
          BY <1>3, <3>2 DEF CheckDispatchable
        <5> DEFINE q == [courier[c] EXCEPT !.pc = at, !.answer = IF at = "answered" THEN "gone" ELSE "none"]
        <5>3. q.ev = courier[c].ev /\ q.tok = courier[c].tok
          BY <5>2 DEF Progress
        <5> QED BY <5>1, <5>2, <5>3, ZenonT(60)
      <4> QED BY <4>1, <4>2
    <3> QED BY <1>9, <3>1, <3>2
  <2>1. StillSending
    BY <2>0 DEF StillSending, Sending
  <2>2. UNCHANGED <<subscription, notice, pushed>>
    BY <1>9 DEF CheckDispatchable, CourierStops
  <2> QED BY <1>2, <1>4, <2>1, <2>2, SpendsNothing
<1>10. ASSUME NEW c \in Couriers, SettleDelivery(c) PROVE PushInv'
  <2>1. courier' = [courier EXCEPT ![c] = AtRest] /\ pushed' = pushed
    BY <1>10 DEF SettleDelivery
  <2>2. StillSending
    BY <1>3, <2>1 DEF StillSending, Sending
  <2>3. subscription'.gen \in 1..MaxGeneration
    BY <1>4, <1>10 DEF SettleDelivery
  <2> DEFINE e == courier[c].ev
  <2>4. \A i \in NoticeEvents : Lasts(notice[i], notice'[i])
    <3>1. CASE HoldsClaim(c) /\ courier[c].answer # "gone"
      <4>1. PICK late \in BOOLEAN : notice' = [notice EXCEPT ![e] = SettledRow(notice[e], courier[c].answer, late)]
        BY <1>10, <3>1 DEF SettleDelivery
      <4> HIDE DEF e
      <4>2. \A i \in NoticeEvents : /\ Lasts(notice[i], notice[i])
                                    /\ Lasts(notice[i], SettledRow(notice[i], courier[c].answer, late))
        BY <1>2
      <4> QED BY <4>1, <4>2
    <3>2. CASE HoldsClaim(c) /\ courier[c].answer = "gone"
      <4>1. notice' = [i \in NoticeEvents |->
               IF i = e THEN SettledRow(notice[e], "gone", FALSE)
               ELSE IF notice[i].gen = notice[e].gen THEN Closed(notice[i], "failed") ELSE notice[i]]
        BY <1>10, <3>2 DEF SettleDelivery
      <4> HIDE DEF e
      <4> QED BY <1>2, <4>1
    <3>3. CASE ~HoldsClaim(c)
      BY <1>2, <1>10, <3>3 DEF SettleDelivery
    <3> QED BY <3>1, <3>2, <3>3
  <2> QED BY <2>1, <2>2, <2>3, <2>4, SpendsNothing
<1>11. ASSUME NEW c \in Couriers, Maintain(c) PROVE PushInv'
  <2>1. \A i \in NoticeEvents : Lasts(notice[i], notice'[i])
    BY <1>2, <1>11 DEF Maintain
  <2> QED BY <1>4, <1>11, <2>1, SpendsNothing DEF Maintain, StillSending
<1> QED BY <1>5, <1>6, <1>7, <1>8, <1>9, <1>10, <1>11

\* A recorded event was never claimed.
LEMMA RecordCounts ==
  ASSUME NotifyInv, PushInv, NEW e \in NoticeEvents, RecordEvent(e)
  PROVE  PushInv'
<1> USE DEF NotifyInv, NotifyTyped
<1> DEFINE s == [NoNotice EXCEPT !.event = TRUE, !.receipt = TRUE, !.gen = subscription.gen,
                                 !.st = IF subscription.active THEN "queued" ELSE "none"]
<1>1. notice' = [notice EXCEPT ![e] = s] /\ UNCHANGED <<subscription, courier, pushed>> /\ ~Known(notice[e])
  BY DEF RecordEvent, Known
<1>2. Numbered(s) /\ s.att = 0 /\ Known(s)
  BY NoticeBounds DEF NoNotice, Numbered, Known
<1> HIDE DEF s
<1>3. \A i \in NoticeEvents : Numbered(notice'[i])
  BY <1>1, <1>2 DEF PushInv
<1>4. \A i \in NoticeEvents : Unsent(i)' = Unsent(i)
  BY <1>1 DEF Unsent
<1>5. ASSUME NEW i \in NoticeEvents PROVE \E n \in 0..MaxAttempts : Within(i, n)'
  <2>1. PICK n \in 0..MaxAttempts : Within(i, n)
    BY DEF PushInv
  <2>2. CASE i # e
    <3>1. Within(i, n)'
      BY <1>1, <1>4, <2>1, <2>2 DEF Within
    <3> QED BY <3>1
  <2>3. CASE i = e
    <3>1. n = 0
      BY <1>1, <2>1, <2>3 DEF Within
    <3>2. notice'[i] = s
      BY <1>1, <2>3
    <3>3. Within(i, n)'
      BY <1>1, <1>2, <1>4, <2>1, <3>1, <3>2 DEF Within
    <3> QED BY <3>3
  <2> QED BY <2>2, <2>3
<1>6. OwnNumbers'
  BY <1>1 DEF PushInv, OwnNumbers
<1> QED BY <1>1, <1>3, <1>5, <1>6 DEF PushInv

\* A claim has a number no other claim of its row has, and is one that may be pushed.
LEMMA ClaimCounts ==
  ASSUME NotifyInv, PushInv, NEW c \in Couriers, NEW e \in NoticeEvents, ClaimDelivery(c, e)
  PROVE  PushInv'
<1> USE DEF NotifyInv, NotifyTyped
<1>0. PICK m : m = notice[e].att + 1
  OBVIOUS
<1> DEFINE s == [notice[e] EXCEPT !.tok = m, !.leased = TRUE, !.att = m]
           q == [AtRest EXCEPT !.pc = "claimed", !.ev = e, !.tok = m, !.inTime = TRUE]
<1>1. /\ notice' = [notice EXCEPT ![e] = s] /\ courier' = [courier EXCEPT ![c] = q]
      /\ UNCHANGED <<subscription, pushed>> /\ courier[c].pc = "idle"
  BY <1>0 DEF ClaimDelivery
<1>2. notice[e].event /\ notice[e].att \in 0..MaxAttempts /\ notice[e].att < MaxAttempts /\ notice[e] \in NoticeRows
  BY DEF ClaimDelivery, Remembered, Pending, Queues, PushInv, Numbered
<1>3. m \in 1..MaxAttempts /\ m \in Nat /\ m # 0 /\ m = notice[e].att + 1
  BY <1>0, <1>2, NoticeBounds
<1>4. Numbered(s) /\ Known(s) /\ s.event /\ s.att = m
  BY <1>2, <1>3, NoticeBounds DEF Numbered, Known, NoticeRows
<1>5. q.pc = "claimed" /\ q.ev = e /\ q.tok = m
  BY DEF AtRest
<1> HIDE DEF s, q
<1>6. \A i \in NoticeEvents : Numbered(notice'[i])
  BY <1>1, <1>4 DEF PushInv
<1>7. PICK n \in 0..MaxAttempts : Within(e, n)
  BY DEF PushInv
<1>8. n = notice[e].att /\ n \in Nat /\ m = n + 1 /\ m \in 0..MaxAttempts
  BY <1>2, <1>3, <1>7, NoticeBounds DEF Within
<1>9. \A d \in Couriers, i \in NoticeEvents :
        Sending(courier'[d], i) <=> (IF d = c THEN i = e ELSE Sending(courier[d], i))
  BY <1>1, <1>5 DEF Sending
<1>10. \A d \in Couriers : ~Sending(courier[c], e) /\ (Sending(courier[d], e) => courier[d].tok \in 1..n)
  BY <1>1, <1>7 DEF Within, Unsent, Sending
<1>11. OwnNumbers'
  <2> SUFFICES ASSUME NEW d \in Couriers, NEW f \in Couriers, NEW i \in NoticeEvents,
                      d # f, Sending(courier'[d], i), Sending(courier'[f], i)
               PROVE  courier'[d].tok # courier'[f].tok
    BY DEF OwnNumbers
  <2>1. CASE d # c /\ f # c
    BY <1>1, <1>9, <2>1 DEF PushInv, OwnNumbers
  <2>2. \A g \in Couriers : g # c /\ Sending(courier'[g], e) => courier'[g].tok # m
    <3>1. ASSUME NEW g \in Couriers, g # c, Sending(courier'[g], e) PROVE courier[g].tok \in 1..n
      BY <3>1, <1>9, <1>10
    <3> QED BY <3>1, <1>1, <1>8
  <2> QED BY <1>1, <1>5, <1>9, <2>1, <2>2
<1>12. Within(e, m)'
  <2>1. IsFiniteSet(Unsent(e)) /\ Cardinality(Unsent(e)) \in Nat
    BY <1>7, <1>8, UnsentFinite
  <2>2. Unsent(e)' = Unsent(e) \cup {m}
    BY <1>1, <1>5, <1>9, <1>10 DEF Unsent
  <2>3. Cardinality(Unsent(e)') <= Cardinality(Unsent(e)) + 1 /\ Cardinality(Unsent(e)') \in Nat
    <3> DEFINE S == Unsent(e)
    <3>1. IsFiniteSet(S) /\ Cardinality(S) \in Nat /\ Unsent(e)' = S \cup {m}
      BY <2>1, <2>2
    <3> HIDE DEF S
    <3>2. Cardinality(S \cup {m}) = Cardinality(S) \/ Cardinality(S \cup {m}) = Cardinality(S) + 1
      BY <3>1, FS_AddElement
    <3>3. Cardinality(S \cup {m}) <= Cardinality(S) + 1 /\ Cardinality(S \cup {m}) \in Nat
      BY <3>1, <3>2
    <3> QED BY <3>1, <3>3 DEF S
  <2>4. pushed[e] \in Nat /\ pushed[e] + Cardinality(Unsent(e)) <= n
    BY <1>7 DEF PushInv, Within
  <2>5. pushed'[e] + Cardinality(Unsent(e)') <= m
    BY <1>1, <1>8, <2>1, <2>3, <2>4
  <2>6. Unsent(e)' \subseteq 1..m
    BY <1>7, <1>8, <2>2 DEF Within
  <2>7. notice'[e] = s
    BY <1>1
  <2> QED BY <1>4, <2>5, <2>6, <2>7 DEF Within
<1>13. ASSUME NEW i \in NoticeEvents, i # e PROVE \E k \in 0..MaxAttempts : Within(i, k)'
  <2>1. PICK k \in 0..MaxAttempts : Within(i, k)
    BY DEF PushInv
  <2>2. Unsent(i)' = Unsent(i)
    BY <1>1, <1>9, <1>13 DEF Unsent, Sending
  <2>3. notice'[i] = notice[i]
    BY <1>1, <1>13
  <2>4. Within(i, k)'
    BY <1>1, <2>1, <2>2, <2>3 DEF Within
  <2> QED BY <2>4
<1>14. \A i \in NoticeEvents : \E k \in 0..MaxAttempts : Within(i, k)'
  BY <1>8, <1>12, <1>13
<1> QED BY <1>1, <1>6, <1>11, <1>14 DEF PushInv

\* A push spends its claim.
LEMMA PushCounts ==
  ASSUME NotifyInv, PushInv, NEW c \in Couriers, PushMessage(c)
  PROVE  PushInv'
<1> USE DEF NotifyInv, NotifyTyped
<1>0. PICK e, t : e = courier[c].ev /\ t = courier[c].tok
  OBVIOUS
<1>1. courier[c].pc = "pushing" /\ e \in NoticeEvents /\ courier[c] \in Progress
  BY <1>0 DEF PushMessage, Bound
<1>2. UNCHANGED <<subscription, notice>>
  BY DEF PushMessage
<1>3. PICK answer \in {"accepted", "retry", "gone", "refused"}, k \in {0, 1} :
        /\ pushed' = [pushed EXCEPT ![e] = @ + k]
        /\ courier' = [courier EXCEPT ![c] = [courier[c] EXCEPT !.pc = "answered", !.answer = answer]]
  BY <1>0 DEF PushMessage
<1>4. \A d \in Couriers : /\ d # c => courier'[d] = courier[d]
                          /\ courier'[c].pc = "answered"
  BY <1>1, <1>3 DEF Progress
<1>5. Sending(courier[c], e) /\ \A i : ~Sending(courier'[c], i)
  BY <1>0, <1>1, <1>4 DEF Sending
<1>6. OwnNumbers'
  BY <1>4, <1>5 DEF PushInv, OwnNumbers
<1>7. \A d \in Couriers : d # c /\ Sending(courier[d], e) => courier[d].tok # t
  BY <1>0, <1>1, <1>5 DEF PushInv, OwnNumbers
<1>8. Unsent(e)' = Unsent(e) \ {t} /\ t \in Unsent(e)
  BY <1>0, <1>4, <1>5, <1>7 DEF Unsent
<1>9. pushed \in [NoticeEvents -> Nat] /\ pushed'[e] = pushed[e] + k /\ pushed' \in [NoticeEvents -> Nat]
  BY <1>1, <1>3 DEF PushInv
<1>10. \E n \in 0..MaxAttempts : Within(e, n)'
  <2>1. PICK n \in 0..MaxAttempts : Within(e, n)
    BY <1>1 DEF PushInv
  <2>2. n \in Nat /\ IsFiniteSet(Unsent(e)) /\ Cardinality(Unsent(e)) \in Nat
    BY <1>1, <2>1, UnsentFinite, NoticeBounds
  <2>3. Cardinality(Unsent(e)') = Cardinality(Unsent(e)) - 1
    BY <1>8, <2>2, FS_RemoveElement
  <2>4. pushed'[e] + Cardinality(Unsent(e)') <= n
    <3>1. pushed[e] \in Nat /\ pushed[e] + Cardinality(Unsent(e)) <= n
      BY <1>1, <1>9, <2>1 DEF Within
    <3> QED BY <1>9, <2>2, <2>3, <3>1
  <2>5. Within(e, n)'
    BY <1>2, <1>8, <2>1, <2>4 DEF Within
  <2> QED BY <2>5
<1>11. ASSUME NEW i \in NoticeEvents, i # e PROVE \E n \in 0..MaxAttempts : Within(i, n)'
  <2>1. PICK n \in 0..MaxAttempts : Within(i, n)
    BY DEF PushInv
  <2>2. Unsent(i)' = Unsent(i)
    BY <1>0, <1>4, <1>5, <1>11 DEF Unsent, Sending
  <2>3. pushed'[i] = pushed[i]
    BY <1>1, <1>3, <1>11 DEF PushInv
  <2>4. Within(i, n)'
    BY <1>2, <2>1, <2>2, <2>3 DEF Within
  <2> QED BY <2>4
<1>12. \A i \in NoticeEvents : Numbered(notice'[i]) /\ \E n \in 0..MaxAttempts : Within(i, n)'
  BY <1>2, <1>10, <1>11 DEF PushInv
<1> QED BY <1>2, <1>6, <1>9, <1>12 DEF PushInv

LEMMA PushInit == NotifyInit => PushInv
<1> SUFFICES ASSUME NotifyInit PROVE PushInv
  OBVIOUS
<1>1. PICK legacy \in SUBSET NoticeEvents :
        notice = [e \in NoticeEvents |-> IF e \notin legacy THEN NoNotice
                    ELSE [NoNotice EXCEPT !.event = TRUE, !.st = "queued", !.gen = 1]]
  BY DEF NotifyInit
<1>2. \A e \in NoticeEvents : Numbered(notice[e]) /\ notice[e].att = 0
  BY <1>1, NoticeBounds DEF Numbered, NoNotice
<1>3. \A c \in Couriers : courier[c].pc = "idle"
  BY DEF NotifyInit, AtRest
<1>4. \A e \in NoticeEvents : Unsent(e) = {} /\ Cardinality(Unsent(e)) = 0
  BY <1>3, FS_EmptySet DEF Unsent, Sending
<1>5. \A e \in NoticeEvents : pushed[e] = 0
  BY DEF NotifyInit
<1>6. \A e \in NoticeEvents : Within(e, 0)
  BY <1>2, <1>4, <1>5 DEF Within
<1>7. OwnNumbers
  BY <1>3 DEF OwnNumbers, Sending
<1> QED BY <1>2, <1>6, <1>7, NoticeBounds DEF PushInv, NotifyInit

LEMMA StepKeepsPushes == NotifyInv /\ PushInv /\ [NotifyNext]_noticeVars => PushInv'
<1> SUFFICES ASSUME NotifyInv, PushInv, [NotifyNext]_noticeVars PROVE PushInv'
  OBVIOUS
<1>1. ASSUME NEW e \in NoticeEvents, RecordEvent(e) PROVE PushInv'
  BY <1>1, RecordCounts
<1>2. ASSUME NEW e \in NoticeEvents, NoticeLeaseEnds(e) \/ RetryDue(e) \/ LifetimeEnds(e) \/ HistoryEnds(e)
      PROVE  PushInv'
  BY <1>2, OtherStepsSpendNothing
<1>3. CASE Register \/ Disable
  BY <1>3, OtherStepsSpendNothing
<1>4. ASSUME NEW c \in Couriers, NEW e \in NoticeEvents, ClaimDelivery(c, e) PROVE PushInv'
  BY <1>4, ClaimCounts
<1>5. ASSUME NEW c \in Couriers, PushMessage(c) PROVE PushInv'
  BY <1>5, PushCounts
<1>6. ASSUME NEW c \in Couriers, CheckDispatchable(c) \/ SettleDelivery(c) \/ CourierStops(c) \/ Maintain(c)
      PROVE  PushInv'
  BY <1>6, OtherStepsSpendNothing
<1>7. CASE UNCHANGED noticeVars
  BY <1>7 DEF noticeVars, PushInv, OwnNumbers, Within, Unsent
<1> QED BY <1>1, <1>2, <1>3, <1>4, <1>5, <1>6, <1>7 DEF NotifyNext, Dispatch

\* The rows keep their types, and with them the one bound that is no row's
\* own: the push service accepts a delivery at most MaxAttempts times,
\* although a worker that lost its lease still pushes (claim, settle).
THEOREM NotifyTypeHolds == NotifySpec => []NotifyTypeOK
<1>1. NotifyInv /\ PushInv => NotifyTypeOK
  <2> SUFFICES ASSUME NotifyInv, PushInv PROVE NotifyTypeOK
    OBVIOUS
  <2>1. ASSUME NEW e \in NoticeEvents PROVE pushed[e] \in 0..MaxAttempts
    <3>1. PICK n \in 0..MaxAttempts : Within(e, n)
      BY DEF PushInv
    <3>2. pushed[e] \in Nat /\ n \in Nat /\ Cardinality(Unsent(e)) \in Nat
      BY <3>1, UnsentFinite, NoticeBounds DEF PushInv
    <3> QED BY <3>1, <3>2, NoticeBounds DEF Within
  <2> QED BY <2>1 DEF NotifyTypeOK, NotifyInv, NotifyTyped, PushInv, Numbered, NoticeRows, DeliveryOutcomes, Progress
<1> QED BY <1>1, NotifyInvariant, PushInit, StepKeepsPushes, PTL DEF NotifySpec

--------------------------------------------------------------------------
(* The catalog review.                                                     *)

SelectionStates == {"none", "active", "inactive", "gone"}
SelectionJobStates == {"none", "queued", "stopping", "ended"}
SelectionRows ==
  [at : DiscArchives, state : SelectionStates, unsafe : BOOLEAN, text : {0, 1},
   jobs : 0..MaxSelectionJobs, job : SelectionJobStates, heir : SelectionIds \cup {Absent}]
Outcomes == {"needs_review", "reviewed_with_selections", "archive_only"}
ReviewRows == [rev : Nat \ {0}, outcome : Outcomes, of : SUBSET (SelectionIds \X {0, 1})]
ReviewOps == {"none", "create", "update", "correct", "repair", "remove", "propose", "complete",
              "save", "accept"}
ReviewAsks ==
  [op : ReviewOps, at : DiscArchives, sel : SelectionIds \cup {Absent}, full : BOOLEAN, rev : Nat,
   src : Nat, view : SUBSET (SelectionIds \X {0, 1}),
   evidence : SUBSET (SelectionIds \X (0..MaxSelectionJobs) \X SelectionJobStates)]
Tries == [1..2 -> {"unsent", "sent", "validated", "over"}]
ReviewerRows ==
  [req : ReviewAsks, try : Tries, token : BOOLEAN,
   times : 0..1, struck : SUBSET SelectionIds]

ReviewTyped == /\ selections \in [SelectionIds -> SelectionRows]
               /\ review \in [DiscArchives -> ReviewRows]
               /\ reviewer \in [Reviewers -> ReviewerRows]

\* A vacant identifier says nothing yet, and only the source has unsafe selections.
RowsOK == \A s \in SelectionIds :
  /\ selections[s].state = "none" => selections[s] = NoSelection
  /\ selections[s].unsafe => selections[s].at = "source"

\* A request is about a selection of its archive, and while the revision it names
\* stands the archive is as the operator saw it.
AskOK(r) ==
  /\ r.op \in {"update", "correct", "repair", "remove"} =>
       r.sel \in SelectionIds /\ selections[r.sel].state # "none" /\ selections[r.sel].at = r.at
  /\ r.rev <= review[r.at].rev
  /\ r.op \in {"propose", "complete", "accept"} =>
       r.rev > 0 /\ (r.rev = review[r.at].rev => r.view = View(r.at))
  /\ r.op = "complete" /\ r.rev = review[r.at].rev =>
       IF r.full THEN Reviewable(r.at) ELSE Live(r.at) = {}
  /\ r.op \in {"save", "accept"} => r.at = "fresh"
AsksOK == \A o \in Reviewers : AskOK(reviewer[o].req)

\* ReviewedAsSeen, of one archive.
SeenOf(a) ==
  review[a].outcome # "needs_review" =>
    /\ review[a].of = {} <=> review[a].outcome = "archive_only"
    /\ \A s \in Live(a) : ~selections[s].unsafe
    /\ \/ View(a) = review[a].of
       \/ /\ a = "source" /\ Live(a) = {}
          /\ \A p \in review[a].of : selections[p[1]].heir # Absent
AllSeen == \A a \in DiscArchives : SeenOf(a)

ReviewInv == ReviewTyped /\ RowsOK /\ AsksOK /\ AllSeen /\ AppliedOnceAsShown

-----------------------------------------------------------------------------
(* What a step leaves of one archive, and of the requests.                  *)

SelectionsKept(a) == \A s \in SelectionIds :
  /\ s \in Live(a)' <=> s \in Live(a)
  /\ s \in Live(a) => selections'[s].text = selections[s].text /\ selections'[s].unsafe = selections[s].unsafe
HeirsKept == \A s \in SelectionIds : selections[s].heir # Absent => selections'[s].heir # Absent

\* A later revision, or the same one of the same selections.
Onward(a) == review'[a].rev > review[a].rev \/ (review'[a].rev = review[a].rev /\ SelectionsKept(a))
Forward ==
  /\ \A a \in DiscArchives : Onward(a)
  /\ \A s \in SelectionIds : selections[s].state # "none" =>
       selections'[s].state # "none" /\ selections'[s].at = selections[s].at
LEMMA ReviewInitKeeps == ReviewInit => ReviewInv
<1> SUFFICES ASSUME ReviewInit PROVE ReviewInv
  OBVIOUS
<1>0. /\ reviewer = [o \in Reviewers |-> AtEase] /\ reviewRequests = 0
  BY DEF ReviewInit
<1>1. PICK bad \in BOOLEAN, done \in BOOLEAN :
        /\ bad => ~done
        /\ selections = [s \in SelectionIds |->
             IF s = 1 THEN [NoSelection EXCEPT !.state = "active", !.unsafe = bad] ELSE NoSelection]
        /\ review = [a \in DiscArchives |->
             IF a = "source" /\ done
             THEN [rev |-> 1, outcome |-> "reviewed_with_selections", of |-> {<<1, 0>>}]
             ELSE [rev |-> 1, outcome |-> "needs_review", of |-> {}]]
  BY DEF ReviewInit
<1>1a. 1 \in SelectionIds /\ 0 \notin SelectionIds
  BY ReviewAssumption DEF SelectionIds
<1>2. NoSelection \in SelectionRows /\ [NoSelection EXCEPT !.state = "active", !.unsafe = bad] \in SelectionRows
  <2>1. NoSelection \in SelectionRows
    BY ReviewAssumption DEF NoSelection, SelectionRows, SelectionStates, SelectionJobStates, Absent, DiscArchives
  <2> QED BY <2>1 DEF SelectionRows, SelectionStates
<1>3. /\ [rev |-> 1, outcome |-> "needs_review", of |-> {}] \in ReviewRows
      /\ [rev |-> 1, outcome |-> "reviewed_with_selections", of |-> {<<1, 0>>}] \in ReviewRows
  BY <1>1a DEF ReviewRows, Outcomes
<1>4. <<"over", "over">> \in Tries
  BY DEF Tries
<1>5. NoRequest \in ReviewAsks /\ AtEase \in ReviewerRows
  <2>1. NoRequest \in ReviewAsks
    BY DEF NoRequest, ReviewAsks, ReviewOps, Absent, DiscArchives
  <2> QED BY <1>4, <2>1 DEF AtEase, ReviewerRows
<1>6. ReviewTyped
  BY <1>0, <1>1, <1>2, <1>3, <1>5 DEF ReviewTyped
<1>7. RowsOK
  BY <1>1 DEF RowsOK, NoSelection
<1>8. \A o \in Reviewers : reviewer[o].req = NoRequest /\ reviewer[o].times = 0
  BY <1>0 DEF AtEase
<1>8a. review["source"].rev = 1 /\ review["fresh"].rev = 1
  BY <1>1 DEF DiscArchives
<1>9. AsksOK
  <2>1. AskOK(NoRequest)
    BY <1>8a DEF AskOK, NoRequest
  <2> QED BY <1>8, <2>1 DEF AsksOK
<1>10. AppliedOnceAsShown
  <2>1. \A o \in Reviewers : reviewer[o].times <= 1 /\ reviewer[o].times # 1
    <3>1. 0 <= 1 /\ 0 # 1
      OBVIOUS
    <3> QED BY <1>8, <3>1
  <2> QED BY <2>1 DEF AppliedOnceAsShown
<1>11. AllSeen
  <2>1. SeenOf("fresh")
    BY <1>1 DEF SeenOf, DiscArchives
  <2>2. ~done => SeenOf("source")
    BY <1>1 DEF SeenOf, DiscArchives
  <2>3. done => Live("source") = {1} /\ selections[1].text = 0 /\ ~selections[1].unsafe
    BY <1>1, <1>1a DEF Live, NoSelection
  <2>4. done => View("source") = {<<1, 0>>}
    <3>1. done => View("source") = {<<s, selections[s].text>> : s \in {1}}
      BY <2>3 DEF View
    <3> QED BY <3>1, <2>3
  <2>5. done => review["source"].of = {<<1, 0>>} /\ review["source"].outcome = "reviewed_with_selections"
    BY <1>1 DEF DiscArchives
  <2>6. done => SeenOf("source")
    BY <2>3, <2>4, <2>5 DEF SeenOf
  <2> QED BY <2>1, <2>2, <2>6 DEF AllSeen, DiscArchives
<1> QED BY <1>6, <1>7, <1>9, <1>10, <1>11 DEF ReviewInv

LEMMA RowsKeptView == ASSUME NEW a \in DiscArchives, SelectionsKept(a) PROVE Live(a)' = Live(a) /\ View(a)' = View(a)
<1>1. Live(a)' = Live(a)
  BY DEF SelectionsKept, Live
<1>2. \A s \in Live(a) : selections'[s].text = selections[s].text
  BY DEF SelectionsKept, Live
<1> QED BY <1>1, <1>2 DEF View

\* A request stands, or is of an earlier revision.
LEMMA AskStays ==
  ASSUME ReviewTyped, ReviewTyped', Forward, NEW r \in ReviewAsks, AskOK(r)
  PROVE  AskOK(r)'
<1> DEFINE a == r.at
<1>1. a \in DiscArchives /\ r.rev \in Nat /\ review[a].rev \in Nat /\ review'[a].rev \in Nat
  BY DEF ReviewTyped, ReviewAsks, ReviewRows
<1>2. review'[a].rev >= review[a].rev
      /\ (review'[a].rev = review[a].rev => SelectionsKept(a))
  BY <1>1 DEF Forward, Onward
<1>3. r.rev = review'[a].rev => r.rev = review[a].rev /\ SelectionsKept(a)
  BY <1>1, <1>2 DEF AskOK
<1>4. r.rev <= review'[a].rev
  BY <1>1, <1>2 DEF AskOK
<1>5. r.rev = review'[a].rev => Live(a)' = Live(a) /\ View(a)' = View(a)
  BY <1>1, <1>3, RowsKeptView
<1>6. r.rev = review'[a].rev /\ Reviewable(a) => Reviewable(a)'
  BY <1>3, <1>5 DEF Reviewable, SelectionsKept, Live
<1>7. r.op \in {"update", "correct", "repair", "remove"} =>
        r.sel \in SelectionIds /\ selections'[r.sel].state # "none" /\ selections'[r.sel].at = r.at
  BY DEF AskOK, Forward
<1> QED BY <1>3, <1>4, <1>5, <1>6, <1>7 DEF AskOK

\* A review stays what it was while its selections do.
LEMMA SeenStays ==
  ASSUME ReviewTyped, NEW a \in DiscArchives, SeenOf(a), SelectionsKept(a), HeirsKept,
         review'[a].outcome = review[a].outcome, review'[a].of = review[a].of
  PROVE  SeenOf(a)'
<1>1. Live(a)' = Live(a) /\ View(a)' = View(a)
  BY RowsKeptView
<1>2. \A s \in Live(a) : s \in SelectionIds /\ selections'[s].unsafe = selections[s].unsafe
  BY DEF SelectionsKept, Live
<1>3. \A p \in review[a].of : p[1] \in SelectionIds
  BY DEF ReviewTyped, ReviewRows
<1> QED BY <1>1, <1>2, <1>3 DEF SeenOf, HeirsKept

\* An applied request: one try is over, the change recorded once.
LEMMA AppliedTypes ==
  ASSUME ReviewInv, NEW o \in Reviewers, NEW t \in 1..2, NEW cut \in SUBSET SelectionIds,
         Applied(o, t, cut), ~Recorded(o)
  PROVE  /\ reviewer' \in [Reviewers -> ReviewerRows]
         /\ \A v \in Reviewers : reviewer'[v].req = reviewer[v].req
         /\ \A v \in Reviewers \ {o} : reviewer'[v] = reviewer[v]
         /\ reviewer'[o].times = 1 /\ reviewer'[o].struck = cut
<1> DEFINE row == reviewer[o]
<1>1. row \in ReviewerRows /\ row.times = 0 /\ reviewer \in [Reviewers -> ReviewerRows]
  BY DEF ReviewInv, ReviewTyped, Recorded, ReviewerRows
<1>2. PICK tried \in Tries : tried = [row.try EXCEPT ![t] = "over"]
  <2>1. row.try \in Tries
    BY <1>1 DEF ReviewerRows
  <2> QED BY <2>1 DEF Tries
<1> DEFINE new == [row EXCEPT !.try = tried, !.token = FALSE, !.times = 1, !.struck = cut]
<1>3. new \in ReviewerRows /\ new.req = row.req /\ new.times = 1 /\ new.struck = cut
  <2>1. \A tr \in Tries :
          [row EXCEPT !.try = tr, !.token = FALSE, !.times = 1, !.struck = cut] \in ReviewerRows
    <3>1. 1 \in 0..1 /\ cut \in SUBSET SelectionIds
      OBVIOUS
    <3> QED BY <1>1, <3>1 DEF ReviewerRows
  <2>2. new.req = row.req /\ new.times = 1 /\ new.struck = cut
    BY <1>1 DEF ReviewerRows
  <2> QED BY <2>1, <2>2
<1>4. reviewer' = [reviewer EXCEPT ![o] = new]
  BY <1>1, <1>2 DEF Applied, ReviewerRows
<1> HIDE DEF new
<1> QED BY <1>1, <1>3, <1>4

\* Steps that neither apply nor ask: what is stored stays, one operator goes on.
LEMMA ReviewerSteps ==
  ASSUME ReviewInv, NEW o \in Reviewers, NEW row \in ReviewerRows,
         reviewer' = [reviewer EXCEPT ![o] = row], UNCHANGED <<review, selections>>,
         AskOK(row.req),
         row.times = 1 => row.req = reviewer[o].req /\ reviewer[o].times = 1 /\ row.struck = reviewer[o].struck
  PROVE  ReviewInv'
<1>1. ReviewTyped' /\ reviewer'[o] = row /\ \A v \in Reviewers \ {o} : reviewer'[v] = reviewer[v]
  BY DEF ReviewInv, ReviewTyped
<1>2. RowsOK' /\ AllSeen'
  BY DEF ReviewInv, RowsOK, AllSeen, SeenOf, View, Live
<1>3. AsksOK'
  BY <1>1 DEF ReviewInv, AsksOK, AskOK, View, Live, Reviewable
<1>4. AppliedOnceAsShown'
  <2> SUFFICES ASSUME NEW v \in Reviewers
               PROVE  /\ reviewer'[v].times <= 1
                      /\ reviewer'[v].times = 1 =>
                           reviewer'[v].struck = {e[1] : e \in {x \in reviewer'[v].req.evidence :
                             x[3] = "queued" /\ reviewer'[v].req.op \in {"correct", "accept"}}}
    BY DEF AppliedOnceAsShown
  <2>1. CASE v # o
    BY <1>1, <2>1 DEF ReviewInv, AppliedOnceAsShown
  <2>2. CASE v = o
    BY <1>1, <2>2 DEF ReviewInv, AppliedOnceAsShown, ReviewerRows
  <2> QED BY <2>1, <2>2
<1> QED BY <1>1, <1>2, <1>3, <1>4 DEF ReviewInv
\* What an applied change has to show: it goes forward, and each archive's review
\* is kept, reopened or completed as it ought.
LEMMA AppliedKeeps ==
  ASSUME ReviewInv, NEW o \in Reviewers, NEW t \in 1..2, NEW cut \in SUBSET SelectionIds,
         Applied(o, t, cut), ~Recorded(o),
         cut = {e[1] : e \in {x \in reviewer[o].req.evidence :
                  x[3] = "queued" /\ reviewer[o].req.op \in {"correct", "accept"}}},
         selections' \in [SelectionIds -> SelectionRows], review' \in [DiscArchives -> ReviewRows],
         RowsOK', Forward, AllSeen'
  PROVE  ReviewInv'
<1>1. /\ reviewer' \in [Reviewers -> ReviewerRows]
      /\ \A v \in Reviewers : reviewer'[v].req = reviewer[v].req
      /\ \A v \in Reviewers \ {o} : reviewer'[v] = reviewer[v]
      /\ reviewer'[o].times = 1 /\ reviewer'[o].struck = cut
  BY AppliedTypes
<1>2. ReviewTyped /\ ReviewTyped'
  BY <1>1 DEF ReviewInv, ReviewTyped
<1>3. AsksOK'
  <2> SUFFICES ASSUME NEW v \in Reviewers PROVE AskOK(reviewer[v].req)'
    BY <1>1 DEF AsksOK
  <2>1. PICK r : r = reviewer[v].req
    OBVIOUS
  <2>2. r \in ReviewAsks /\ AskOK(r) /\ reviewer'[v].req = r
    BY <1>1, <1>2, <2>1 DEF ReviewTyped, ReviewerRows, ReviewInv, AsksOK
  <2>3. AskOK(r)'
    BY <1>2, <2>2, AskStays
  <2> QED BY <2>2, <2>3 DEF AskOK, View, Live, Reviewable
<1>4. AppliedOnceAsShown'
  <2>1. \A v \in Reviewers \ {o} : reviewer'[v] = reviewer[v]
    BY <1>1
  <2>2. \A v \in Reviewers \ {o} :
          /\ reviewer'[v].times <= 1
          /\ reviewer'[v].times = 1 =>
               reviewer'[v].struck = {e[1] : e \in {x \in reviewer'[v].req.evidence :
                 x[3] = "queued" /\ reviewer'[v].req.op \in {"correct", "accept"}}}
    BY <2>1 DEF ReviewInv, AppliedOnceAsShown
  <2>3. /\ reviewer'[o].times <= 1
        /\ reviewer'[o].struck = {e[1] : e \in {x \in reviewer'[o].req.evidence :
             x[3] = "queued" /\ reviewer'[o].req.op \in {"correct", "accept"}}}
    BY <1>1
  <2> QED BY <2>2, <2>3 DEF AppliedOnceAsShown
<1> QED BY <1>2, <1>3, <1>4 DEF ReviewInv
\* An archive reopened under a new revision, or kept with its selections.
LEMMA ReopenedSeen ==
  ASSUME ReviewInv, NEW a \in DiscArchives, review' = Reopened(a),
         \A s \in SelectionIds : selections[s].heir # Absent => selections'[s].heir # Absent,
         \A b \in DiscArchives \ {a} : SelectionsKept(b)
  PROVE  /\ review' \in [DiscArchives -> ReviewRows] /\ AllSeen'
         /\ \A b \in DiscArchives : Onward(b)
<1>1. /\ review \in [DiscArchives -> ReviewRows] /\ review[a] \in ReviewRows
      /\ review[a].rev \in Nat /\ review[a].rev + 1 \in Nat \ {0}
  BY DEF ReviewInv, ReviewTyped, ReviewRows
<1> DEFINE row == [review[a] EXCEPT !.outcome = "needs_review", !.rev = review[a].rev + 1, !.of = {}]
<1>2. row \in ReviewRows /\ row.outcome = "needs_review" /\ row.rev = review[a].rev + 1
  BY <1>1 DEF ReviewRows, Outcomes
<1>3. review' = [review EXCEPT ![a] = row]
  BY <1>1 DEF Reopened, NextRevision, ReviewRows
<1> HIDE DEF row
<1>4. review' \in [DiscArchives -> ReviewRows] /\ review'[a] = row
      /\ \A b \in DiscArchives \ {a} : review'[b] = review[b]
  BY <1>1, <1>2, <1>3
<1>5. SeenOf(a)'
  BY <1>2, <1>4 DEF SeenOf
<1>6. \A b \in DiscArchives \ {a} : SeenOf(b)'
  BY <1>4, SeenStays DEF ReviewInv, HeirsKept, AllSeen
<1>7. \A b \in DiscArchives : Onward(b)
  BY <1>1, <1>2, <1>4 DEF Onward
<1> QED BY <1>4, <1>5, <1>6, <1>7 DEF AllSeen

LEMMA CompletedRows ==
  ASSUME ReviewInv, NEW a \in DiscArchives, NEW outcome \in Outcomes,
         NEW of \in SUBSET (SelectionIds \X {0, 1}), review' = Completed(a, outcome, of)
  PROVE  /\ review' \in [DiscArchives -> ReviewRows]
         /\ review'[a].rev = review[a].rev + 1 /\ review'[a].outcome = outcome /\ review'[a].of = of
         /\ \A b \in DiscArchives \ {a} : review'[b] = review[b]
<1>1. /\ review \in [DiscArchives -> ReviewRows] /\ review[a] \in ReviewRows
      /\ review[a].rev \in Nat /\ review[a].rev + 1 \in Nat \ {0}
  BY DEF ReviewInv, ReviewTyped, ReviewRows
<1> DEFINE row == [review[a] EXCEPT !.outcome = outcome, !.rev = review[a].rev + 1, !.of = of]
<1>2. row \in ReviewRows /\ row.outcome = outcome /\ row.rev = review[a].rev + 1 /\ row.of = of
  BY <1>1 DEF ReviewRows
<1>3. review' = [review EXCEPT ![a] = row]
  BY <1>1 DEF Completed, NextRevision, ReviewRows
<1> HIDE DEF row
<1> QED BY <1>1, <1>2, <1>3

\* What a change stops: the queued jobs of what its preview listed.
LEMMA StruckAsShown ==
  ASSUME ReviewInv, NEW o \in Reviewers, NEW t \in 1..2, NEW op, Reaches(o, t, op), op # "none"
  PROVE  {e[1] : e \in {x \in reviewer[o].req.evidence :
            x[3] = "queued" /\ reviewer[o].req.op \in {"correct", "accept"}}}
         = IF op = "correct" THEN {s \in {reviewer[o].req.sel} : selections[s].job = "queued"}
           ELSE IF op = "accept" THEN {s \in Live("source") : selections[s].job = "queued"} ELSE {}
<1> DEFINE r == reviewer[o].req
<1>1. r.op = op
  BY DEF Reaches
<1>2. CASE op \in {"correct", "accept"}
  <2>1. r.evidence = {<<s, selections[s].jobs, selections[s].job>> : s \in Concerned(r)}
    BY <1>1, <1>2 DEF Reaches, PreviewStands, Previewed, PreviewEvidence
  <2>2. Concerned(r) = IF op = "correct" THEN {r.sel} ELSE Live("source")
    BY <1>1, <1>2 DEF Concerned
  <2> HIDE DEF r
  <2>3. {e[1] : e \in {x \in r.evidence : x[3] = "queued" /\ r.op \in {"correct", "accept"}}}
        = {s \in Concerned(r) : selections[s].job = "queued"}
    <3> DEFINE shown == {x \in r.evidence : x[3] = "queued" /\ r.op \in {"correct", "accept"}}
               queued == {s \in Concerned(r) : selections[s].job = "queued"}
    <3>1. ASSUME NEW e \in shown PROVE e[1] \in queued
      BY <2>1
    <3>2. ASSUME NEW s \in queued PROVE \E e \in shown : e[1] = s
      <4>1. <<s, selections[s].jobs, selections[s].job>> \in shown
        BY <2>1, <1>1, <1>2
      <4> QED BY <4>1
    <3> HIDE DEF shown, queued
    <3>3. {e[1] : e \in shown} = queued
      BY <3>1, <3>2
    <3> QED BY <3>3 DEF shown, queued
  <2> QED BY <2>2, <2>3, <1>2 DEF r
<1>3. CASE op \notin {"correct", "accept"}
  BY <1>1, <1>3
<1> QED BY <1>2, <1>3

LEMMA NothingStruck ==
  ASSUME ReviewInv, NEW o \in Reviewers, NEW t \in 1..2,
         NEW op \in {"create", "update", "repair", "remove", "propose", "complete", "save"}, Reaches(o, t, op)
  PROVE  {} = {e[1] : e \in {x \in reviewer[o].req.evidence :
                x[3] = "queued" /\ reviewer[o].req.op \in {"correct", "accept"}}}
<1>1. reviewer[o].req.op = op /\ op \notin {"correct", "accept"}
  BY DEF Reaches
<1> QED BY <1>1
LEMMA VacantRow ==
  ASSUME ReviewInv, NEW s \in SelectionIds, s \in Vacant
  PROVE  selections[s] = NoSelection /\ s \notin Live("source") /\ s \notin Live("fresh")
BY DEF ReviewInv, RowsOK, Vacant, Live, NoSelection

LEMMA SelectionType ==
  ASSUME ReviewInv, NEW s \in SelectionIds
  PROVE  selections \in [SelectionIds -> SelectionRows] /\ selections[s] \in SelectionRows
BY DEF ReviewInv, ReviewTyped

LEMMA ActiveRow ==
  ASSUME ReviewInv
  PROVE  [NoSelection EXCEPT !.state = "active"] \in SelectionRows
<1>1. NoSelection \in SelectionRows
  BY ReviewAssumption DEF NoSelection, SelectionRows, SelectionStates, SelectionJobStates, Absent, DiscArchives
<1> QED BY <1>1 DEF SelectionRows, SelectionStates

LEMMA CreateKeeps ==
  ASSUME ReviewInv, NEW o \in Reviewers, NEW t \in 1..2, Create(o, t)
  PROVE  ReviewInv'
<1>1. PICK new \in SelectionIds : new \in Vacant /\ selections' = [selections EXCEPT ![new].state = "active"]
  BY DEF Create, Vacant
<1>2. /\ selections[new] = NoSelection /\ new \notin Live("source") /\ new \notin Live("fresh")
      /\ selections \in [SelectionIds -> SelectionRows]
  BY <1>1, VacantRow, SelectionType
<1> DEFINE row == [NoSelection EXCEPT !.state = "active"]
<1>3. row \in SelectionRows /\ row.at = "source" /\ row.state = "active" /\ ~row.unsafe
  BY ActiveRow DEF NoSelection
<1>4. selections' = [selections EXCEPT ![new] = row]
  BY <1>1, <1>2
<1> HIDE DEF row
<1>5. selections' \in [SelectionIds -> SelectionRows] /\ selections'[new] = row
      /\ \A s \in SelectionIds \ {new} : selections'[s] = selections[s]
  BY <1>2, <1>3, <1>4
<1>6. RowsOK'
  BY <1>3, <1>5 DEF ReviewInv, RowsOK
<1>7. HeirsKept
  BY <1>2, <1>5 DEF HeirsKept, NoSelection, Absent
<1>8. SelectionsKept("fresh")
  BY <1>2, <1>3, <1>5 DEF SelectionsKept, Live
<1>9. review' = Reopened("source") /\ Applied(o, t, {}) /\ Reaches(o, t, "create") /\ ~Recorded(o)
  BY DEF Create, Reaches
<1>10. review' \in [DiscArchives -> ReviewRows] /\ AllSeen' /\ \A b \in DiscArchives : Onward(b)
  BY <1>7, <1>8, <1>9, ReopenedSeen DEF DiscArchives, HeirsKept
<1>11. Forward
  BY <1>2, <1>5, <1>10 DEF Forward, NoSelection
<1> QED BY <1>5, <1>6, <1>9, <1>10, <1>11, NothingStruck, AppliedKeeps

\* A change of one selection of the archive the request names.
LEMMA OneRowKeeps ==
  ASSUME ReviewInv, NEW o \in Reviewers, NEW t \in 1..2,
         NEW op \in {"update", "repair", "remove"}, Reaches(o, t, op), Applied(o, t, {}),
         NEW row \in SelectionRows, selections' = [selections EXCEPT ![reviewer[o].req.sel] = row],
         row.state # "none", row.at = reviewer[o].req.at,
         row.heir = selections[reviewer[o].req.sel].heir,
         row.unsafe => selections[reviewer[o].req.sel].unsafe,
         review' = Reopened(reviewer[o].req.at)
  PROVE  ReviewInv'
<1> DEFINE r == reviewer[o].req
           s == r.sel
<1>1. r.at \in DiscArchives /\ s \in SelectionIds /\ selections[s].state # "none" /\ selections[s].at = r.at
      /\ selections \in [SelectionIds -> SelectionRows]
  BY DEF ReviewInv, ReviewTyped, AsksOK, AskOK, Reaches, ReviewAsks, ReviewerRows
<1>2. selections' \in [SelectionIds -> SelectionRows] /\ selections'[s] = row
      /\ \A v \in SelectionIds \ {s} : selections'[v] = selections[v]
  BY <1>1
<1> HIDE DEF s
<1>3. RowsOK'
  BY <1>1, <1>2 DEF ReviewInv, RowsOK, s
<1>4. \A v \in SelectionIds : selections[v].heir # Absent => selections'[v].heir # Absent
  BY <1>1, <1>2 DEF s
<1>5. \A b \in DiscArchives \ {r.at} : SelectionsKept(b)
  BY <1>1, <1>2 DEF SelectionsKept, Live
<1>6. review' \in [DiscArchives -> ReviewRows] /\ AllSeen' /\ \A b \in DiscArchives : Onward(b)
  BY <1>1, <1>4, <1>5, ReopenedSeen
<1>7. Forward
  BY <1>1, <1>2, <1>6 DEF Forward
<1>8. ~Recorded(o) BY DEF Reaches
<1> QED BY <1>2, <1>3, <1>6, <1>7, <1>8, NothingStruck, AppliedKeeps

LEMMA AskedSelection ==
  ASSUME ReviewInv, NEW o \in Reviewers,
         reviewer[o].req.op \in {"update", "correct", "repair", "remove"}
  PROVE  /\ reviewer[o].req.at \in DiscArchives /\ reviewer[o].req.sel \in SelectionIds
         /\ selections \in [SelectionIds -> SelectionRows]
         /\ selections[reviewer[o].req.sel] \in SelectionRows
         /\ selections[reviewer[o].req.sel].state # "none"
         /\ selections[reviewer[o].req.sel].at = reviewer[o].req.at
BY DEF ReviewInv, ReviewTyped, AsksOK, AskOK, ReviewAsks, ReviewerRows

LEMMA UpdateKeeps ==
  ASSUME ReviewInv, NEW o \in Reviewers, NEW t \in 1..2, Update(o, t)
  PROVE  ReviewInv'
<1> DEFINE s == reviewer[o].req.sel
           row == [selections[s] EXCEPT !.text = 1 - selections[s].text]
<1>1. Reaches(o, t, "update") /\ reviewer[o].req.op = "update"
  BY DEF Update, Reaches
<1>2. s \in SelectionIds /\ selections[s] \in SelectionRows /\ selections[s].state # "none"
      /\ selections[s].at = reviewer[o].req.at /\ selections \in [SelectionIds -> SelectionRows]
      /\ selections[s].text \in {0, 1}
  BY <1>1, AskedSelection DEF SelectionRows
<1>3. 1 - selections[s].text \in {0, 1}
  BY <1>2
<1>4. row \in SelectionRows /\ row.state = selections[s].state /\ row.at = selections[s].at
      /\ row.heir = selections[s].heir /\ row.unsafe = selections[s].unsafe
  BY <1>2, <1>3 DEF SelectionRows
<1>5. selections' = [selections EXCEPT ![s] = row]
  BY <1>2 DEF Update, SelectionRows
<1>6. Applied(o, t, {}) /\ review' = Reopened(reviewer[o].req.at)
  BY DEF Update
<1> HIDE DEF row
<1> QED BY <1>1, <1>2, <1>4, <1>5, <1>6, OneRowKeeps

LEMMA RemoveKeeps ==
  ASSUME ReviewInv, NEW o \in Reviewers, NEW t \in 1..2, RemoveUnused(o, t)
  PROVE  ReviewInv'
<1> DEFINE s == reviewer[o].req.sel
           st == IF HasJobs(s) \/ HasSupersession(s) THEN "inactive" ELSE "gone"
           row == [selections[s] EXCEPT !.state = st]
<1>1. Reaches(o, t, "remove") /\ reviewer[o].req.op = "remove"
  BY DEF RemoveUnused, Reaches
<1>2. s \in SelectionIds /\ selections[s] \in SelectionRows /\ selections[s].state # "none"
      /\ selections[s].at = reviewer[o].req.at /\ selections \in [SelectionIds -> SelectionRows]
  BY <1>1, AskedSelection
<1>3. st \in {"inactive", "gone"}
  OBVIOUS
<1>5. selections' = [selections EXCEPT ![s] = row]
  BY <1>2 DEF RemoveUnused, SelectionRows
<1> HIDE DEF st
<1>4. row \in SelectionRows /\ row.state = st /\ row.at = selections[s].at
      /\ row.heir = selections[s].heir /\ row.unsafe = selections[s].unsafe
  BY <1>2, <1>3 DEF SelectionRows, SelectionStates
<1>6. Applied(o, t, {}) /\ review' = Reopened(reviewer[o].req.at)
  BY DEF RemoveUnused
<1> HIDE DEF row
<1>7. row.state # "none" BY <1>3, <1>4
<1> QED BY <1>1, <1>2, <1>4, <1>5, <1>6, <1>7, OneRowKeeps
\* A new selection of the source archive in the place of one.
LEMMA TwoRowsKeep ==
  ASSUME ReviewInv, NEW o \in Reviewers, NEW t \in 1..2,
         NEW op \in {"correct", "repair"}, Reaches(o, t, op),
         NEW cut, Applied(o, t, cut),
         cut = IF op = "correct" THEN {s \in {reviewer[o].req.sel} : selections[s].job = "queued"} ELSE {},
         NEW row \in SelectionRows, NEW new \in Vacant, NEW fresh \in SelectionRows,
         selections' = [selections EXCEPT ![reviewer[o].req.sel] = row, ![new] = fresh],
         reviewer[o].req.at = "source",
         row.state = "inactive", row.at = "source",
         selections[reviewer[o].req.sel].heir # Absent => row.heir # Absent,
         fresh.at = "source", fresh.state = "active", ~fresh.unsafe,
         review' = Reopened("source")
  PROVE  ReviewInv'
<1> DEFINE s == reviewer[o].req.sel
<1>1. s \in SelectionIds /\ selections[s].state # "none" /\ selections[s].at = "source"
      /\ selections \in [SelectionIds -> SelectionRows] /\ reviewer[o].req.op = op
  BY AskedSelection DEF Reaches
<1>2. new \in SelectionIds /\ selections[new] = NoSelection
      /\ selections[new].state = "none" /\ selections[new].heir = Absent /\ new # s
  BY <1>1, VacantRow DEF Vacant, NoSelection
<1> HIDE DEF s
<1>3. selections' \in [SelectionIds -> SelectionRows] /\ selections'[s] = row /\ selections'[new] = fresh
      /\ \A v \in SelectionIds \ {s, new} : selections'[v] = selections[v]
  BY <1>1, <1>2 DEF s
<1>4. RowsOK'
  BY <1>1, <1>2, <1>3 DEF ReviewInv, RowsOK, s
<1>5. \A v \in SelectionIds : selections[v].heir # Absent => selections'[v].heir # Absent
  BY <1>1, <1>2, <1>3 DEF s
<1>6. SelectionsKept("fresh")
  BY <1>1, <1>2, <1>3 DEF SelectionsKept, Live, NoSelection
<1>7. review' \in [DiscArchives -> ReviewRows] /\ AllSeen' /\ \A b \in DiscArchives : Onward(b)
  BY <1>5, <1>6, ReopenedSeen DEF DiscArchives
<1>8. Forward
  BY <1>1, <1>2, <1>3, <1>7 DEF Forward
<1>9. ~Recorded(o) /\ cut \in SUBSET SelectionIds
  BY <1>1 DEF Reaches, s
<1>10. cut = {e[1] : e \in {x \in reviewer[o].req.evidence :
                x[3] = "queued" /\ reviewer[o].req.op \in {"correct", "accept"}}}
  BY StruckAsShown
<1> QED BY <1>3, <1>4, <1>7, <1>8, <1>9, <1>10, AppliedKeeps

LEMMA CorrectKeeps ==
  ASSUME ReviewInv, NEW o \in Reviewers, NEW t \in 1..2, Correct(o, t)
  PROVE  ReviewInv'
<1> DEFINE s == reviewer[o].req.sel
           cut == {v \in {s} : selections[v].job = "queued"}
<1>1. PICK new \in Vacant :
        selections' = [selections EXCEPT
          ![s] = Retired(@, new),
          ![new] = [NoSelection EXCEPT !.state = "active", !.text = 1 - selections[s].text]]
  BY DEF Correct
<1>2. Reaches(o, t, "correct") /\ reviewer[o].req.op = "correct" /\ reviewer[o].req.at = "source"
      /\ review' = Reopened("source") /\ Applied(o, t, cut)
  BY DEF Correct, Reaches, Legal
<1>3. s \in SelectionIds /\ selections[s] \in SelectionRows /\ selections[s].at = "source"
      /\ selections \in [SelectionIds -> SelectionRows] /\ selections[s].text \in {0, 1}
      /\ selections[s].job \in SelectionJobStates
  BY <1>2, AskedSelection DEF SelectionRows
<1> DEFINE jb == IF selections[s].job = "queued" THEN "stopping" ELSE selections[s].job
           row == [selections[s] EXCEPT !.job = jb, !.state = "inactive", !.heir = new]
           text == 1 - selections[s].text
           fresh == [NoSelection EXCEPT !.state = "active", !.text = text]
<1>4. Retired(selections[s], new) = row
  BY <1>3 DEF Retired, Stopped, SelectionRows
<1>5. jb \in SelectionJobStates /\ text \in {0, 1} /\ new \in SelectionIds /\ new # Absent
  BY <1>3 DEF SelectionJobStates, Vacant, SelectionIds, Absent
<1>6. selections' = [selections EXCEPT ![s] = row, ![new] = fresh]
  BY <1>1, <1>3, <1>4
<1> HIDE DEF jb, text
<1>7. row \in SelectionRows /\ row.state = "inactive" /\ row.at = "source" /\ row.heir = new
  BY <1>3, <1>5 DEF SelectionRows, SelectionStates
<1>8. fresh \in SelectionRows /\ fresh.at = "source" /\ fresh.state = "active" /\ ~fresh.unsafe
  <2>1. NoSelection \in SelectionRows
    BY ReviewAssumption DEF NoSelection, SelectionRows, SelectionStates, SelectionJobStates, Absent, DiscArchives
  <2>2. fresh \in SelectionRows
    BY <2>1, <1>5 DEF SelectionRows, SelectionStates
  <2> QED BY <2>2 DEF NoSelection
<1> HIDE DEF row, fresh
<1>9. new \in Vacant OBVIOUS
<1> QED BY <1>2, <1>5, <1>6, <1>7, <1>8, <1>9, TwoRowsKeep

LEMMA RepairKeeps ==
  ASSUME ReviewInv, NEW o \in Reviewers, NEW t \in 1..2, Repair(o, t)
  PROVE  ReviewInv'
<1> DEFINE s == reviewer[o].req.sel
<1>1. Reaches(o, t, "repair") /\ reviewer[o].req.op = "repair" /\ selections[s].unsafe
      /\ review' = Reopened(reviewer[o].req.at) /\ Applied(o, t, {})
  BY DEF Repair, Reaches, Legal
<1>2. s \in SelectionIds /\ selections[s] \in SelectionRows /\ selections[s].state # "none"
      /\ selections[s].at = reviewer[o].req.at /\ selections \in [SelectionIds -> SelectionRows]
      /\ selections[s].text \in {0, 1}
  BY <1>1, AskedSelection DEF SelectionRows
<1>3. selections[s].at = "source"
  BY <1>1, <1>2 DEF ReviewInv, RowsOK
<1>4. ASSUME NEW new \in Vacant,
             selections' = [selections EXCEPT ![s].state = "inactive", ![new].state = "active"]
      PROVE  ReviewInv'
  <2> DEFINE row == [selections[s] EXCEPT !.state = "inactive"]
             fresh == [NoSelection EXCEPT !.state = "active"]
  <2>1. new \in SelectionIds /\ selections[new] = NoSelection /\ new # s
    BY <1>2, VacantRow DEF Vacant, NoSelection
  <2>2. selections' = [selections EXCEPT ![s] = row, ![new] = fresh]
    BY <1>4, <1>2, <2>1
  <2>3. row \in SelectionRows /\ row.state = "inactive" /\ row.at = "source" /\ row.heir = selections[s].heir
    BY <1>2, <1>3 DEF SelectionRows, SelectionStates
  <2>4. fresh \in SelectionRows /\ fresh.at = "source" /\ fresh.state = "active" /\ ~fresh.unsafe
    BY ActiveRow DEF NoSelection
  <2> HIDE DEF row, fresh
  <2> QED BY <1>1, <1>2, <1>3, <2>2, <2>3, <2>4, TwoRowsKeep, ZenonT(60)
<1>5. ASSUME selections' = [selections EXCEPT ![s].unsafe = FALSE, ![s].text = 1 - @]
      PROVE  ReviewInv'
  <2> DEFINE row == [selections[s] EXCEPT !.unsafe = FALSE, !.text = 1 - selections[s].text]
  <2>1. 1 - selections[s].text \in {0, 1}
    BY <1>2
  <2>2. row \in SelectionRows /\ row.state = selections[s].state /\ row.at = selections[s].at
        /\ row.heir = selections[s].heir /\ row.unsafe = FALSE
    BY <1>2, <2>1 DEF SelectionRows
  <2>3. selections' = [selections EXCEPT ![s] = row]
    BY <1>5, <1>2 DEF SelectionRows
  <2> HIDE DEF row
  <2> QED BY <1>1, <1>2, <2>2, <2>3, OneRowKeeps
<1> QED BY <1>4, <1>5 DEF Repair
LEMMA AskedReview ==
  ASSUME ReviewInv, NEW o \in Reviewers
  PROVE  /\ reviewer[o].req \in ReviewAsks /\ AskOK(reviewer[o].req)
         /\ reviewer[o].req.at \in DiscArchives /\ reviewer[o].req.rev \in Nat
         /\ reviewer[o].req.view \in SUBSET (SelectionIds \X {0, 1})
         /\ review \in [DiscArchives -> ReviewRows]
BY DEF ReviewInv, ReviewTyped, AsksOK, ReviewAsks, ReviewerRows

\* The revision a review was asked for stands: the archive is as it was seen.
LEMMA SeenStands ==
  ASSUME ReviewInv, NEW o \in Reviewers, NEW t \in 1..2, NEW op \in {"propose", "complete", "accept"},
         Reaches(o, t, op)
  PROVE  /\ reviewer[o].req.op = op /\ reviewer[o].req.view = View(reviewer[o].req.at)
         /\ reviewer[o].req.rev = review[reviewer[o].req.at].rev
         /\ op = "complete" => IF reviewer[o].req.full THEN Reviewable(reviewer[o].req.at)
                               ELSE Live(reviewer[o].req.at) = {}
<1>1. RevisionStands(reviewer[o].req) /\ reviewer[o].req.op = op
  BY DEF Reaches, Legal
<1> QED BY <1>1, AskedReview DEF RevisionStands, AskOK

LEMMA ProposeKeeps ==
  ASSUME ReviewInv, NEW o \in Reviewers, NEW t \in 1..2, Propose(o, t)
  PROVE  ReviewInv'
<1> DEFINE r == reviewer[o].req
           row == [NoSelection EXCEPT !.state = "active"]
<1>1. PICK new \in Vacant :
        /\ selections' = [selections EXCEPT ![new].state = "active"]
        /\ review' = IF r.full THEN Completed(r.at, "reviewed_with_selections", r.view \cup {<<new, 0>>})
                     ELSE Reopened(r.at)
  BY DEF Propose
<1>2. Reaches(o, t, "propose") /\ Applied(o, t, {}) /\ ~Recorded(o) /\ r.op = "propose" /\ r.at = "source"
      /\ (r.full => \A s \in Live(r.at) : ~selections[s].unsafe)
  BY DEF Propose, Reaches, Legal
<1>3. r.view = View("source") /\ r.view \in SUBSET (SelectionIds \X {0, 1})
  BY <1>2, SeenStands, AskedReview
<1>4. /\ new \in SelectionIds /\ selections[new] = NoSelection /\ new \notin Live("source")
      /\ new \notin Live("fresh") /\ selections \in [SelectionIds -> SelectionRows]
  BY VacantRow, SelectionType DEF Vacant
<1>5. row \in SelectionRows /\ row.at = "source" /\ row.state = "active" /\ row.unsafe = FALSE /\ row.text = 0
  BY ActiveRow DEF NoSelection
<1>6. selections' = [selections EXCEPT ![new] = row]
  BY <1>1, <1>4
<1> HIDE DEF row, r
<1>7. selections' \in [SelectionIds -> SelectionRows] /\ selections'[new] = row
      /\ \A s \in SelectionIds \ {new} : selections'[s] = selections[s]
  BY <1>4, <1>5, <1>6
<1>8. RowsOK' /\ HeirsKept /\ SelectionsKept("fresh")
  <2>1. RowsOK'
    BY <1>5, <1>7 DEF ReviewInv, RowsOK
  <2>2. HeirsKept
    BY <1>4, <1>7 DEF HeirsKept, NoSelection, Absent
  <2>3. SelectionsKept("fresh")
    BY <1>4, <1>5, <1>7 DEF SelectionsKept, Live
  <2> QED BY <2>1, <2>2, <2>3
<1>9. review' \in [DiscArchives -> ReviewRows] /\ AllSeen' /\ \A b \in DiscArchives : Onward(b)
  <2>1. CASE ~r.full
    BY <1>1, <1>2, <1>8, <2>1, ReopenedSeen DEF DiscArchives, HeirsKept
  <2>2. CASE r.full
    <3> DEFINE seen == r.view \cup {<<new, 0>>}
    <3>1. seen \in SUBSET (SelectionIds \X {0, 1}) /\ seen # {}
      <4>1. <<new, 0>> \in SelectionIds \X {0, 1} /\ <<new, 0>> \in seen
        BY <1>4
      <4> QED BY <1>3, <4>1
    <3>2. review' = Completed("source", "reviewed_with_selections", seen)
      BY <1>1, <1>2, <2>2
    <3>3. /\ Live("source")' = Live("source") \cup {new}
          /\ \A s \in Live("source") : selections'[s] = selections[s]
      BY <1>4, <1>5, <1>7 DEF Live
    <3>4. View("source")' = seen
      <4>1. \A s \in Live("source") : selections'[s].text = selections[s].text
        BY <3>3
      <4>2. selections'[new].text = 0
        BY <1>5, <1>7
      <4> QED BY <1>3, <3>3, <4>1, <4>2 DEF View
    <3> HIDE DEF seen
    <3>5. /\ review' \in [DiscArchives -> ReviewRows] /\ "source" \in DiscArchives
          /\ review'["source"].rev = review["source"].rev + 1
          /\ review'["source"].outcome = "reviewed_with_selections" /\ review'["source"].of = seen
          /\ \A b \in DiscArchives \ {"source"} : review'[b] = review[b]
      BY <3>1, <3>2, CompletedRows DEF DiscArchives, Outcomes
    <3>6. \A s \in Live("source")' : ~selections'[s].unsafe
      BY <1>2, <1>5, <1>7, <2>2, <3>3
    <3>7. SeenOf("source")'
      BY <3>1, <3>4, <3>5, <3>6 DEF SeenOf
    <3>8. SeenOf("fresh")'
      BY <1>8, <3>5, SeenStays DEF ReviewInv, AllSeen, DiscArchives
    <3>9. review["source"].rev \in Nat
      BY DEF ReviewInv, ReviewTyped, ReviewRows, DiscArchives
    <3> QED BY <1>8, <3>5, <3>7, <3>8, <3>9 DEF AllSeen, Onward, DiscArchives
  <2> QED BY <2>1, <2>2
<1>10. Forward
  BY <1>4, <1>7, <1>9 DEF Forward, NoSelection
<1> QED BY <1>2, <1>7, <1>8, <1>9, <1>10, NothingStruck, AppliedKeeps

LEMMA CompleteKeeps ==
  ASSUME ReviewInv, NEW o \in Reviewers, NEW t \in 1..2, Complete(o, t)
  PROVE  ReviewInv'
<1> DEFINE r == reviewer[o].req
           outcome == IF r.full THEN "reviewed_with_selections" ELSE "archive_only"
<1>1. Reaches(o, t, "complete") /\ Applied(o, t, {}) /\ ~Recorded(o) /\ selections' = selections
      /\ review' = Completed(r.at, outcome, r.view)
  BY DEF Complete, Reaches
<1>2. /\ r.at \in DiscArchives /\ r.view = View(r.at) /\ r.view \in SUBSET (SelectionIds \X {0, 1})
      /\ IF r.full THEN Reviewable(r.at) ELSE Live(r.at) = {}
  BY <1>1, SeenStands, AskedReview
<1>3. outcome \in Outcomes /\ (outcome = "archive_only" <=> ~r.full) /\ outcome # "needs_review"
  BY DEF Outcomes
<1> HIDE DEF outcome
<1>a. PICK a \in DiscArchives : a = r.at
  BY <1>2
<1>4. /\ review' \in [DiscArchives -> ReviewRows]
      /\ review'[r.at].rev = review[r.at].rev + 1
      /\ review'[r.at].outcome = outcome /\ review'[r.at].of = r.view
      /\ \A b \in DiscArchives \ {r.at} : review'[b] = review[b]
  BY <1>1, <1>2, <1>3, CompletedRows
<1>5. \A b \in DiscArchives : SelectionsKept(b) /\ Live(b)' = Live(b) /\ View(b)' = View(b)
  BY <1>1 DEF SelectionsKept, Live, View
<1>6. HeirsKept /\ RowsOK' /\ selections' \in [SelectionIds -> SelectionRows]
  BY <1>1 DEF HeirsKept, ReviewInv, RowsOK, ReviewTyped
<1>7. SeenOf(a)'
  <2>1. r.view = {} <=> Live(r.at) = {}
    BY <1>2, ZenonT(60) DEF View
  <2>2. \A s \in Live(r.at) : ~selections[s].unsafe
    BY <1>2 DEF Reviewable
  <2>3. review'[r.at].of = {} <=> outcome = "archive_only"
    BY <1>2, <1>3, <1>4, <2>1 DEF Reviewable
  <2> HIDE DEF r
  <2> QED BY <1>1, <1>2, <1>3, <1>4, <1>5, <1>a, <2>2, <2>3 DEF SeenOf
<1>8. AllSeen'
  BY <1>4, <1>5, <1>6, <1>7, <1>a, SeenStays DEF ReviewInv, AllSeen
<1>9. Forward
  <2>1. review[r.at].rev \in Nat
    BY <1>2 DEF ReviewInv, ReviewTyped, ReviewRows
  <2> QED BY <1>1, <1>4, <1>5, <2>1 DEF Forward, Onward
<1> QED BY <1>1, <1>4, <1>6, <1>8, <1>9, NothingStruck, AppliedKeeps

LEMMA SaveKeeps ==
  ASSUME ReviewInv, NEW o \in Reviewers, NEW t \in 1..2, SaveProposal(o, t)
  PROVE  ReviewInv'
<1>1. Reaches(o, t, "save") /\ Applied(o, t, {}) /\ ~Recorded(o) /\ selections' = selections
      /\ review' = [review EXCEPT !["fresh"].rev = review["fresh"].rev + 1]
  BY DEF SaveProposal, Reaches, NextRevision
<1> DEFINE row == [review["fresh"] EXCEPT !.rev = review["fresh"].rev + 1]
<1>2. review \in [DiscArchives -> ReviewRows] /\ "fresh" \in DiscArchives /\ review["fresh"] \in ReviewRows
      /\ review["fresh"].rev \in Nat /\ review["fresh"].rev + 1 \in Nat
  BY DEF ReviewInv, ReviewTyped, ReviewRows, DiscArchives
<1>3. row \in ReviewRows /\ row.outcome = review["fresh"].outcome /\ row.of = review["fresh"].of
      /\ row.rev = review["fresh"].rev + 1
  BY <1>2 DEF ReviewRows
<1>4. review' = [review EXCEPT !["fresh"] = row]
  BY <1>1, <1>2
<1> HIDE DEF row
<1>5. review' \in [DiscArchives -> ReviewRows] /\ review'["fresh"] = row
      /\ \A b \in DiscArchives \ {"fresh"} : review'[b] = review[b]
  BY <1>2, <1>3, <1>4
<1>6. \A b \in DiscArchives : SelectionsKept(b)
  BY <1>1 DEF SelectionsKept, Live
<1>7. HeirsKept /\ RowsOK' /\ selections' \in [SelectionIds -> SelectionRows]
  BY <1>1 DEF HeirsKept, ReviewInv, RowsOK, ReviewTyped
<1>8. AllSeen'
  BY <1>3, <1>5, <1>6, <1>7, SeenStays DEF ReviewInv, AllSeen
<1>9. Forward
  BY <1>1, <1>2, <1>3, <1>5, <1>6 DEF Forward, Onward
<1> QED BY <1>1, <1>5, <1>7, <1>8, <1>9, NothingStruck, AppliedKeeps
LEMMA AcceptKeeps ==
  ASSUME ReviewInv, NEW o \in Reviewers, NEW t \in 1..2, AcceptRearchive(o, t)
  PROVE  ReviewInv'
<1> DEFINE r == reviewer[o].req
           old == Live("source")
<1>0. old = Live("source")
  OBVIOUS
<1>1. PICK heirOf \in [old -> Vacant] :
        /\ \A p, q \in old : heirOf[p] = heirOf[q] => p = q
        /\ selections' = [s \in SelectionIds |->
             IF s \in old THEN Retired(selections[s], heirOf[s])
             ELSE IF \E p \in old : heirOf[p] = s
             THEN [NoSelection EXCEPT !.at = "fresh", !.state = "active",
                     !.text = selections[CHOOSE p \in old : heirOf[p] = s].text]
             ELSE selections[s]]
        /\ review' = [review EXCEPT
             !["source"].rev = NextRevision(@),
             !["fresh"] = [rev |-> NextRevision(@.rev), outcome |-> "reviewed_with_selections",
                           of |-> r.view \cup {<<heirOf[s], selections[s].text>> : s \in old}]]
  BY DEF AcceptRearchive
<1>2. /\ Reaches(o, t, "accept") /\ ~Recorded(o) /\ r.op = "accept"
      /\ old # {} /\ review["source"].outcome = "reviewed_with_selections"
  BY <1>0 DEF AcceptRearchive, Reaches, Legal, ProposalReady
<1>3. PICK cut : cut = {s \in old : selections[s].job = "queued"}
  OBVIOUS
<1>3a. Applied(o, t, cut) /\ cut \in SUBSET SelectionIds
  BY <1>3 DEF AcceptRearchive, Live
<1> HIDE DEF old
<1>4. r.at = "fresh" /\ r.view = View("fresh") /\ r.view \in SUBSET (SelectionIds \X {0, 1})
  BY <1>2, SeenStands, AskedReview DEF AskOK
<1> DEFINE heirs == {s \in SelectionIds : \E p \in old : heirOf[p] = s}
           from(s) == CHOOSE p \in old : heirOf[p] = s
           seen == r.view \cup {<<heirOf[s], selections[s].text>> : s \in old}
           kept(s) == IF selections[s].job = "queued" THEN "stopping" ELSE selections[s].job
           gone(s) == [selections[s] EXCEPT !.job = kept(s), !.state = "inactive", !.heir = heirOf[s]]
           come(s) == [NoSelection EXCEPT !.at = "fresh", !.state = "active", !.text = selections[from(s)].text]
<1>5. /\ \A s \in old : s \in SelectionIds /\ selections[s].state = "active" /\ selections[s].at = "source"
      /\ \A s \in heirs : selections[s] = NoSelection /\ selections[s].state = "none" /\ s \notin old
                          /\ s \notin Live("fresh") /\ from(s) \in old /\ heirOf[from(s)] = s
      /\ \A s \in old : heirOf[s] \in heirs /\ from(heirOf[s]) = s /\ heirOf[s] # Absent
                        /\ heirOf[s] \in SelectionIds
      /\ selections \in [SelectionIds -> SelectionRows] /\ NoSelection \in SelectionRows
  <2>1. /\ \A s \in old : s \in SelectionIds /\ selections[s].state = "active" /\ selections[s].at = "source"
        /\ selections \in [SelectionIds -> SelectionRows]
    BY <1>0 DEF Live, ReviewInv, ReviewTyped
  <2>2. \A s \in heirs : s \in Vacant
    BY <1>1
  <2>3. \A s \in heirs : selections[s] = NoSelection /\ selections[s].state = "none" /\ s \notin Live("fresh")
                         /\ s \notin Live("source")
    BY <2>2, VacantRow DEF Vacant
  <2>4. ASSUME NEW s \in heirs PROVE from(s) \in old /\ heirOf[from(s)] = s
    <3>1. \E p \in old : heirOf[p] = s
      OBVIOUS
    <3> QED BY <3>1
  <2>5. ASSUME NEW s \in old
        PROVE  heirOf[s] \in heirs /\ heirOf[s] # Absent /\ heirOf[s] \in SelectionIds
    <3>1. heirOf[s] \in Vacant
      BY <1>1
    <3>2. heirOf[s] \in SelectionIds /\ heirOf[s] # 0
      BY <3>1 DEF Vacant, SelectionIds
    <3> QED BY <3>2 DEF Absent
  <2>6. ASSUME NEW s \in old PROVE from(heirOf[s]) = s
    <3>1. from(heirOf[s]) \in old /\ heirOf[from(heirOf[s])] = heirOf[s]
      BY <2>4, <2>5
    <3> HIDE DEF from
    <3> QED BY <1>1, <3>1
  <2>7. NoSelection \in SelectionRows
    BY ReviewAssumption DEF NoSelection, SelectionRows, SelectionStates, SelectionJobStates, Absent, DiscArchives
  <2> HIDE DEF from, heirs
  <2> QED BY <1>0, <2>1, <2>3, <2>4, <2>5, <2>6, <2>7
<1>6. \A s \in old : Retired(selections[s], heirOf[s]) = gone(s)
  BY <1>5 DEF Retired, Stopped, SelectionRows
<1>7. \A s \in SelectionIds :
        selections'[s] = IF s \in old THEN gone(s) ELSE IF s \in heirs THEN come(s) ELSE selections[s]
  BY <1>1, <1>6
<1>8. \A s \in old : gone(s) \in SelectionRows /\ gone(s).state = "inactive" /\ gone(s).at = "source"
                     /\ gone(s).heir = heirOf[s]
  <2> SUFFICES ASSUME NEW s \in old
               PROVE  gone(s) \in SelectionRows /\ gone(s).state = "inactive" /\ gone(s).at = "source"
                      /\ gone(s).heir = heirOf[s]
    OBVIOUS
  <2>1. selections[s] \in SelectionRows /\ selections[s].at = "source" /\ heirOf[s] \in SelectionIds
    BY <1>5
  <2>2. kept(s) \in SelectionJobStates
    BY <2>1 DEF SelectionRows, SelectionJobStates
  <2> HIDE DEF kept
  <2> QED BY <2>1, <2>2 DEF SelectionRows, SelectionStates
<1>9. \A s \in heirs : come(s) \in SelectionRows /\ come(s).state = "active" /\ come(s).at = "fresh"
                       /\ come(s).unsafe = FALSE /\ come(s).text = selections[from(s)].text
                       /\ come(s).heir = Absent
  <2> SUFFICES ASSUME NEW s \in heirs
               PROVE  come(s) \in SelectionRows /\ come(s).state = "active" /\ come(s).at = "fresh"
                      /\ come(s).unsafe = FALSE /\ come(s).text = selections[from(s)].text
                      /\ come(s).heir = Absent
    OBVIOUS
  <2>1. from(s) \in SelectionIds
    BY <1>5
  <2> HIDE DEF from
  <2>2. selections[from(s)].text \in {0, 1}
    BY <2>1, <1>5 DEF SelectionRows
  <2>3. come(s) \in SelectionRows
    BY <2>2, <1>5 DEF SelectionRows, SelectionStates, DiscArchives
  <2> QED BY <2>3 DEF NoSelection
<1> HIDE DEF gone, come, kept
<1>10. selections' \in [SelectionIds -> SelectionRows]
  <2>1. selections' = [s \in SelectionIds |-> selections'[s]]
    BY <1>1
  <2>2. \A s \in SelectionIds : selections'[s] \in SelectionRows
    BY <1>5, <1>7, <1>8, <1>9
  <2> QED BY <2>1, <2>2
<1> HIDE DEF from, heirs
<1>11. RowsOK'
  BY <1>5, <1>7, <1>8, <1>9 DEF ReviewInv, RowsOK
<1>12. /\ Live("source")' = {}
       /\ Live("fresh")' = Live("fresh") \cup heirs
       /\ \A s \in Live("fresh") : selections'[s] = selections[s]
  <2>1. \A s \in Live("fresh") : s \notin old /\ s \notin heirs /\ s \in SelectionIds
    BY <1>5 DEF Live
  <2>2. \A s \in Live("fresh") : selections'[s] = selections[s]
    BY <1>7, <2>1
  <2>3. heirs \subseteq SelectionIds
    BY DEF heirs
  <2>4. \A s \in heirs : selections'[s].state = "active" /\ selections'[s].at = "fresh"
    BY <1>5, <1>7, <1>9, <2>3
  <2>5. Live("fresh")' = Live("fresh") \cup heirs
    BY <1>7, <1>8, <2>2, <2>3, <2>4 DEF Live
  <2>6. Live("source")' = {}
    BY <1>0, <1>7, <1>8, <1>9 DEF Live
  <2> QED BY <2>2, <2>5, <2>6
<1>13. HeirsKept
  BY <1>5, <1>7, <1>8 DEF HeirsKept, NoSelection
<1>14. seen \in SUBSET (SelectionIds \X {0, 1}) /\ seen # {} /\ View("fresh")' = seen
  <2>1. \A s \in old : selections[s].text \in {0, 1}
    BY <1>5 DEF SelectionRows
  <2>2. \A s \in old : <<heirOf[s], selections[s].text>> \in SelectionIds \X {0, 1}
    BY <1>5, <2>1
  <2>3. seen \in SUBSET (SelectionIds \X {0, 1}) /\ seen # {}
    <3>1. {<<heirOf[s], selections[s].text>> : s \in old} \in SUBSET (SelectionIds \X {0, 1})
      BY <2>2
    <3>2. {<<heirOf[s], selections[s].text>> : s \in old} # {}
      BY <1>2
    <3> QED BY <1>4, <3>1, <3>2
  <2>4. {<<s, selections'[s].text>> : s \in heirs} = {<<heirOf[s], selections[s].text>> : s \in old}
    <3>1. \A s \in heirs : selections'[s].text = selections[from(s)].text
      <4>1. heirs \subseteq SelectionIds
        BY DEF heirs
      <4> QED BY <1>5, <1>7, <1>9, <4>1
    <3>2. ASSUME NEW s \in heirs PROVE \E p \in old : <<s, selections'[s].text>> = <<heirOf[p], selections[p].text>>
      BY <1>5, <3>1
    <3>3. ASSUME NEW p \in old PROVE \E s \in heirs : <<s, selections'[s].text>> = <<heirOf[p], selections[p].text>>
      <4>1. heirOf[p] \in heirs /\ from(heirOf[p]) = p
        BY <1>5
      <4> QED BY <3>1, <4>1
    <3> QED BY <3>2, <3>3
  <2>5. {<<s, selections'[s].text>> : s \in Live("fresh")} = View("fresh")
    BY <1>12 DEF View
  <2>6. View("fresh")' = {<<s, selections'[s].text>> : s \in Live("fresh") \cup heirs}
    BY <1>12 DEF View
  <2>7. {<<s, selections'[s].text>> : s \in Live("fresh") \cup heirs}
        = {<<s, selections'[s].text>> : s \in Live("fresh")} \cup {<<s, selections'[s].text>> : s \in heirs}
    OBVIOUS
  <2> QED BY <1>4, <2>3, <2>4, <2>5, <2>6, <2>7
<1>15. /\ review' \in [DiscArchives -> ReviewRows]
       /\ review'["source"].rev = review["source"].rev + 1
       /\ review'["fresh"].rev = review["fresh"].rev + 1
       /\ review'["source"].outcome = review["source"].outcome /\ review'["source"].of = review["source"].of
       /\ review'["fresh"].outcome = "reviewed_with_selections" /\ review'["fresh"].of = seen
       /\ review["source"].rev \in Nat /\ review["fresh"].rev \in Nat
  <2> HIDE DEF r
  <2>0. PICK all : all = seen
    OBVIOUS
  <2>1. /\ review \in [DiscArchives -> ReviewRows]
        /\ \A a \in DiscArchives : review[a] \in ReviewRows /\ review[a].rev \in Nat /\ review[a].rev + 1 \in Nat
    BY DEF ReviewInv, ReviewTyped, ReviewRows
  <2> DEFINE src == [review["source"] EXCEPT !.rev = review["source"].rev + 1]
             new == [rev |-> review["fresh"].rev + 1, outcome |-> "reviewed_with_selections", of |-> all]
  <2>2. src \in ReviewRows /\ src.rev = review["source"].rev + 1
        /\ src.outcome = review["source"].outcome /\ src.of = review["source"].of
    BY <2>1 DEF ReviewRows, DiscArchives
  <2>3. all \in SUBSET (SelectionIds \X {0, 1})
    BY <1>14, <2>0
  <2>4. new \in ReviewRows
    BY <2>1, <2>3 DEF ReviewRows, DiscArchives, Outcomes
  <2>5. review' = [review EXCEPT !["source"] = src, !["fresh"] = new]
    BY <1>1, <2>0, <2>1 DEF NextRevision, DiscArchives
  <2> HIDE DEF src
  <2> QED BY <2>0, <2>1, <2>2, <2>4, <2>5 DEF DiscArchives
<1>16. SeenOf("source")'
  <2>1. SeenOf("source") /\ Live("source") # {} /\ \A p \in review["source"].of : p[1] \in SelectionIds
    BY <1>0, <1>2 DEF ReviewInv, ReviewTyped, ReviewRows, AllSeen, DiscArchives
  <2>2. View("source") = review["source"].of
    BY <1>2, <2>1 DEF SeenOf
  <2>3. \A p \in review["source"].of : p[1] \in old
    BY <1>0, <2>2 DEF View
  <2>4. \A p \in review["source"].of : selections'[p[1]].heir # Absent
    BY <1>5, <1>7, <1>8, <2>1, <2>3
  <2> QED BY <1>2, <1>12, <1>15, <2>1, <2>4 DEF SeenOf
<1>17. SeenOf("fresh")'
  <2>1. \A s \in Live("fresh")' : ~selections'[s].unsafe
    <3>1. Live("fresh")' \subseteq SelectionIds /\ \A s \in Live("fresh")' : selections'[s].at = "fresh"
      BY DEF Live
    <3> QED BY <1>11, <3>1 DEF RowsOK
  <2> QED BY <1>14, <1>15, <2>1 DEF SeenOf
<1>18. AllSeen'
  BY <1>16, <1>17 DEF AllSeen, DiscArchives
<1>19. Forward
  <2>1. \A a \in DiscArchives : Onward(a)
    BY <1>15 DEF Onward, DiscArchives
  <2>2. \A s \in SelectionIds : selections[s].state # "none" =>
          selections'[s].state # "none" /\ selections'[s].at = selections[s].at
    BY <1>5, <1>7, <1>8
  <2> QED BY <2>1, <2>2 DEF Forward
<1>20. cut = {e[1] : e \in {x \in reviewer[o].req.evidence :
                x[3] = "queued" /\ reviewer[o].req.op \in {"correct", "accept"}}}
  BY <1>0, <1>2, <1>3, StruckAsShown
<1>21. review' \in [DiscArchives -> ReviewRows]
  BY <1>15
<1> QED BY <1>2, <1>3a, <1>10, <1>11, <1>18, <1>19, <1>20, <1>21, AppliedKeeps
LEMMA TriesTyped ==
  ASSUME ReviewInv, NEW o \in Reviewers, NEW t \in 1..2, NEW st \in {"unsent", "sent", "validated", "over"}
  PROVE  [reviewer[o] EXCEPT !.try = [reviewer[o].try EXCEPT ![t] = st]] \in ReviewerRows
<1>1. reviewer[o] \in ReviewerRows /\ reviewer[o].try \in Tries
  BY DEF ReviewInv, ReviewTyped, ReviewerRows
<1>2. PICK tried \in Tries : tried = [reviewer[o].try EXCEPT ![t] = st]
  BY <1>1 DEF Tries
<1>3. [reviewer[o] EXCEPT !.try = tried] \in ReviewerRows
  BY <1>1 DEF ReviewerRows
<1> QED BY <1>2, <1>3

LEMMA AtEaseRow ==
  ASSUME ReviewInv
  PROVE  AtEase \in ReviewerRows /\ AskOK(AtEase.req) /\ AtEase.times = 0
<1>1. <<"over", "over">> \in Tries
  BY DEF Tries
<1>2. NoRequest \in ReviewAsks
  BY DEF NoRequest, ReviewAsks, ReviewOps, Absent, DiscArchives
<1>3. AtEase \in ReviewerRows
  BY <1>1, <1>2 DEF AtEase, ReviewerRows
<1>4. review["source"].rev \in Nat
  BY DEF ReviewInv, ReviewTyped, ReviewRows, DiscArchives
<1> QED BY <1>3, <1>4 DEF AtEase, NoRequest, AskOK

\* A try that is answered, sent again or validated changes no review.
LEMMA TryKeeps ==
  ASSUME ReviewInv, NEW o \in Reviewers, UNCHANGED <<review, selections>>,
         \/ reviewer' = [reviewer EXCEPT ![o] = AtEase]
         \/ \E t \in 1..2, st \in {"unsent", "sent", "validated", "over"} :
              reviewer' = [reviewer EXCEPT ![o].try[t] = st]
  PROVE  ReviewInv'
<1>1. reviewer \in [Reviewers -> ReviewerRows] /\ reviewer[o] \in ReviewerRows /\ AskOK(reviewer[o].req)
  BY DEF ReviewInv, ReviewTyped, AsksOK
<1>2. CASE reviewer' = [reviewer EXCEPT ![o] = AtEase]
  <2>1. PICK row : row = AtEase
    OBVIOUS
  <2>2. AtEase.times = 0 /\ AtEase \in ReviewerRows /\ AskOK(AtEase.req)
    BY AtEaseRow
  <2>3. row \in ReviewerRows /\ AskOK(row.req) /\ row.times # 1
    BY <2>1, <2>2
  <2> QED BY <1>2, <2>1, <2>3, ReviewerSteps
<1>3. ASSUME NEW t \in 1..2, NEW st \in {"unsent", "sent", "validated", "over"},
             reviewer' = [reviewer EXCEPT ![o].try[t] = st]
      PROVE  ReviewInv'
  <2> DEFINE row == [reviewer[o] EXCEPT !.try = [reviewer[o].try EXCEPT ![t] = st]]
  <2>1. row \in ReviewerRows
    BY TriesTyped
  <2>2. row.req = reviewer[o].req /\ row.times = reviewer[o].times /\ row.struck = reviewer[o].struck
    BY <1>1 DEF ReviewerRows
  <2>3. reviewer' = [reviewer EXCEPT ![o] = row]
    BY <1>1, <1>3 DEF ReviewerRows
  <2> HIDE DEF row
  <2> QED BY <1>1, <2>1, <2>2, <2>3, ReviewerSteps
<1> QED BY <1>2, <1>3

LEMMA GentleKeeps ==
  ASSUME ReviewInv, NEW o \in Reviewers,
         \/ AskAgain(o) \/ Rested(o)
         \/ \E t \in 1..2 : ValidateOutsideWriter(o, t) \/ Replays(o, t) \/ Refuses(o, t)
  PROVE  ReviewInv'
<1>1. CASE AskAgain(o)
  <2>1. 2 \in 1..2 /\ reviewer' = [reviewer EXCEPT ![o].try[2] = "sent"] /\ UNCHANGED <<review, selections>>
    BY <1>1 DEF AskAgain
  <2> QED BY <2>1, TryKeeps
<1>2. CASE Rested(o)
  BY <1>2, TryKeeps DEF Rested
<1>3. ASSUME NEW t \in 1..2, ValidateOutsideWriter(o, t) PROVE ReviewInv'
  BY <1>3, TryKeeps DEF ValidateOutsideWriter
<1>4. ASSUME NEW t \in 1..2, Answered(o, t), UNCHANGED <<review, selections>> PROVE ReviewInv'
  <2>1. reviewer' = [reviewer EXCEPT ![o] = AtEase] \/ reviewer' = [reviewer EXCEPT ![o].try[t] = "over"]
    BY <1>4 DEF Answered
  <2> QED BY <1>4, <2>1, TryKeeps
<1>5. ASSUME NEW t \in 1..2, Replays(o, t) \/ Refuses(o, t) PROVE ReviewInv'
  BY <1>4, <1>5 DEF Replays, Refuses
<1> QED BY <1>1, <1>2, <1>3, <1>5

LEMMA AskKeeps ==
  ASSUME ReviewInv, NEW o \in Reviewers, Ask(o)
  PROVE  ReviewInv'
<1>1. PICK op \in {"create", "update", "correct", "repair", "remove", "propose", "complete", "save", "accept"},
           a \in DiscArchives, s \in SelectionIds \cup {Absent}, full \in BOOLEAN, blind \in BOOLEAN :
       LET plain == [NoRequest EXCEPT
                       !.op = op, !.at = a, !.sel = s, !.full = full,
                       !.rev = IF blind THEN 0 ELSE review[a].rev,
                       !.src = IF op \in {"save", "accept"} THEN review["source"].rev ELSE 0,
                       !.view = IF op \in {"propose", "complete", "accept"} THEN View(a) ELSE {}]
           r == [plain EXCEPT !.evidence = PreviewEvidence(plain)]
       IN /\ op \in {"update", "correct", "repair", "remove"} <=> s # Absent
          /\ s # Absent => selections[s].at = a
          /\ full => op \in {"propose", "complete"}
          /\ blind => op \in {"create", "update"}
          /\ op = "complete" => Validates(r)
          /\ op \in {"save", "accept"} => a = "fresh"
          /\ Legal(r)
          /\ reviewer' = [reviewer EXCEPT ![o] =
               [AtEase EXCEPT !.req = r, !.try = <<"sent", "unsent">>, !.token = Previewed(r)]]
  BY DEF Ask
<1> DEFINE rev == IF blind THEN 0 ELSE review[a].rev
           src == IF op \in {"save", "accept"} THEN review["source"].rev ELSE 0
           view == IF op \in {"propose", "complete", "accept"} THEN View(a) ELSE {}
           plain == [NoRequest EXCEPT !.op = op, !.at = a, !.sel = s, !.full = full, !.rev = rev,
                                      !.src = src, !.view = view]
           r == [plain EXCEPT !.evidence = PreviewEvidence(plain)]
<1>2. /\ op \in {"update", "correct", "repair", "remove"} <=> s # Absent
      /\ s # Absent => selections[s].at = a
      /\ full => op \in {"propose", "complete"}
      /\ blind => op \in {"create", "update"}
      /\ op = "complete" => Validates(r)
      /\ op \in {"save", "accept"} => a = "fresh"
      /\ Legal(r)
      /\ reviewer' = [reviewer EXCEPT ![o] =
           [AtEase EXCEPT !.req = r, !.try = <<"sent", "unsent">>, !.token = Previewed(r)]]
      /\ UNCHANGED <<review, selections>>
  BY <1>1 DEF Ask
<1>3. /\ rev \in Nat /\ src \in Nat /\ rev <= review[a].rev /\ review[a].rev \in Nat
      /\ (~blind => rev = review[a].rev)
  BY DEF ReviewInv, ReviewTyped, ReviewRows, DiscArchives
<1>4. view \in SUBSET (SelectionIds \X {0, 1})
      /\ (op \in {"propose", "complete", "accept"} => view = View(a))
  <2>1. \A v \in Live(a) : v \in SelectionIds /\ selections[v].text \in {0, 1}
    BY DEF Live, ReviewInv, ReviewTyped, SelectionRows
  <2>2. View(a) \in SUBSET (SelectionIds \X {0, 1})
    BY <2>1 DEF View
  <2> QED BY <2>2
<1>5. op \in ReviewOps /\ NoRequest \in ReviewAsks /\ s \in SelectionIds \cup {Absent}
  BY DEF NoRequest, ReviewAsks, ReviewOps, Absent, DiscArchives
<1> HIDE DEF rev, src, view
<1>6. plain \in ReviewAsks /\ plain.op = op /\ plain.at = a /\ plain.sel = s
  BY <1>3, <1>4, <1>5 DEF ReviewAsks
<1>7. PreviewEvidence(plain) \in SUBSET (SelectionIds \X (0..MaxSelectionJobs) \X SelectionJobStates)
  <2>1. \A v \in SelectionIds : selections[v].jobs \in 0..MaxSelectionJobs /\ selections[v].job \in SelectionJobStates
    BY DEF ReviewInv, ReviewTyped, SelectionRows
  <2>2. Concerned(plain) \subseteq SelectionIds
    BY <1>2, <1>5, <1>6 DEF Concerned, Live
  <2> HIDE DEF plain
  <2> QED BY <2>1, <2>2 DEF PreviewEvidence
<1>8. r \in ReviewAsks /\ r.op = op /\ r.at = a /\ r.sel = s /\ r.full = full /\ r.rev = rev /\ r.view = view
  <2>1. plain.full = full /\ plain.rev = rev /\ plain.view = view
    BY DEF NoRequest
  <2> HIDE DEF plain
  <2>2. PICK ev : ev = PreviewEvidence(plain)
    OBVIOUS
  <2>3. [plain EXCEPT !.evidence = ev] \in ReviewAsks
    BY <1>6, <1>7, <2>2 DEF ReviewAsks
  <2> QED BY <1>6, <2>1, <2>2, <2>3 DEF ReviewAsks
<1> HIDE DEF r
<1>9. AskOK(r)
  <2>1. op \in {"update", "correct", "repair", "remove"} =>
          s \in SelectionIds /\ selections[s].state # "none" /\ selections[s].at = a
    BY <1>2, <1>5, <1>8 DEF Legal, Active
  <2>2. op \in {"propose", "complete", "accept"} => rev > 0 /\ view = View(a)
    <3>1. op \in {"propose", "complete", "accept"} => rev = review[a].rev
      BY <1>2, <1>3
    <3>2. review[a].rev > 0
      BY DEF ReviewInv, ReviewTyped, ReviewRows
    <3> QED BY <3>1, <3>2, <1>4
  <2>3. op = "complete" => IF full THEN Reviewable(a) ELSE Live(a) = {}
    BY <1>2, <1>8 DEF Validates
  <2> QED BY <1>2, <1>3, <1>8, <2>1, <2>2, <2>3 DEF AskOK
<1> DEFINE row == [AtEase EXCEPT !.req = r, !.try = <<"sent", "unsent">>, !.token = Previewed(r)]
<1>10. row \in ReviewerRows /\ row.req = r /\ row.times = 0
  <2>1. <<"sent", "unsent">> \in Tries /\ Previewed(r) \in BOOLEAN
    BY DEF Tries, Previewed
  <2>2. \A tr \in Tries, b \in BOOLEAN : [AtEase EXCEPT !.req = r, !.try = tr, !.token = b] \in ReviewerRows
    BY <1>8, AtEaseRow DEF ReviewerRows
  <2>3. row \in ReviewerRows
    BY <2>1, <2>2
  <2> QED BY <2>3 DEF AtEase
<1>11. reviewer' = [reviewer EXCEPT ![o] = row]
  BY <1>2
<1> HIDE DEF row
<1>12. row.times # 1
  BY <1>10
<1> QED BY <1>2, <1>9, <1>10, <1>11, <1>12, ReviewerSteps
\* The Encode Jobs of a selection come and go beside the reviews.
LEMMA SelectionJobsKeep ==
  ASSUME ReviewInv, NEW s \in SelectionIds, QueueSelection(s) \/ JobEnds(s)
  PROVE  ReviewInv'
<1>1. /\ selections \in [SelectionIds -> SelectionRows] /\ selections[s] \in SelectionRows
      /\ UNCHANGED <<review, reviewer>>
      /\ selections[s].jobs \in 0..MaxSelectionJobs
  BY DEF ReviewInv, ReviewTyped, QueueSelection, JobEnds, SelectionRows
<1>2. PICK row \in SelectionRows :
        /\ selections' = [selections EXCEPT ![s] = row]
        /\ row.at = selections[s].at /\ row.state = selections[s].state
        /\ row.unsafe = selections[s].unsafe /\ row.text = selections[s].text
        /\ row.heir = selections[s].heir
  <2>1. CASE QueueSelection(s)
    <3> DEFINE row == [selections[s] EXCEPT !.jobs = selections[s].jobs + 1, !.job = "queued"]
    <3>1. selections[s].jobs + 1 \in 0..MaxSelectionJobs
      BY <1>1, <2>1, ReviewAssumption DEF QueueSelection
    <3>2. row \in SelectionRows /\ row.at = selections[s].at /\ row.state = selections[s].state
          /\ row.unsafe = selections[s].unsafe /\ row.text = selections[s].text /\ row.heir = selections[s].heir
      BY <1>1, <3>1 DEF SelectionRows, SelectionJobStates
    <3>3. selections' = [selections EXCEPT ![s] = row]
      BY <1>1, <2>1 DEF QueueSelection, SelectionRows
    <3> HIDE DEF row
    <3> QED BY <3>2, <3>3
  <2>2. CASE JobEnds(s)
    <3> DEFINE row == [selections[s] EXCEPT !.job = "ended"]
    <3>2. row \in SelectionRows /\ row.at = selections[s].at /\ row.state = selections[s].state
          /\ row.unsafe = selections[s].unsafe /\ row.text = selections[s].text /\ row.heir = selections[s].heir
      BY <1>1 DEF SelectionRows, SelectionJobStates
    <3>3. selections' = [selections EXCEPT ![s] = row]
      BY <1>1, <2>2 DEF JobEnds, SelectionRows
    <3> HIDE DEF row
    <3> QED BY <3>2, <3>3
  <2> QED BY <2>1, <2>2
<1>3. selections' \in [SelectionIds -> SelectionRows] /\ selections'[s] = row
      /\ \A v \in SelectionIds \ {s} : selections'[v] = selections[v]
  BY <1>1, <1>2
<1>4. \A a \in DiscArchives : SelectionsKept(a)
  BY <1>2, <1>3 DEF SelectionsKept, Live
<1>5. HeirsKept
  BY <1>2, <1>3 DEF HeirsKept
<1>6. selections[s].state # "none"
  <2>1. NoSelection.job = "none" /\ NoSelection.state = "none"
    BY DEF NoSelection
  <2> QED BY <2>1 DEF QueueSelection, JobEnds, Active, Working, ReviewInv, RowsOK
<1>7. RowsOK'
  BY <1>2, <1>3, <1>6 DEF ReviewInv, RowsOK
<1>8. AllSeen'
  BY <1>1, <1>4, <1>5, SeenStays DEF ReviewInv, AllSeen
<1>9. ReviewTyped'
  BY <1>1, <1>3 DEF ReviewInv, ReviewTyped
<1>10. Forward
  BY <1>1, <1>2, <1>3, <1>4 DEF Forward, Onward
<1>11. AsksOK'
  <2> SUFFICES ASSUME NEW v \in Reviewers PROVE AskOK(reviewer[v].req)'
    BY DEF AsksOK
  <2>1. PICK r : r = reviewer[v].req
    OBVIOUS
  <2>2. r \in ReviewAsks /\ AskOK(r) /\ reviewer'[v].req = r
    BY <1>1, <2>1 DEF ReviewTyped, ReviewerRows, ReviewInv, AsksOK
  <2>3. AskOK(r)'
    BY <1>9, <1>10, <2>2, AskStays DEF ReviewInv
  <2> QED BY <2>2, <2>3 DEF AskOK, View, Live, Reviewable
<1>12. AppliedOnceAsShown'
  BY <1>1 DEF ReviewInv, AppliedOnceAsShown
<1> QED BY <1>7, <1>8, <1>9, <1>11, <1>12 DEF ReviewInv

LEMMA HandleKeeps ==
  ASSUME ReviewInv, NEW o \in Reviewers, NEW t \in 1..2, Handle(o, t)
  PROVE  ReviewInv'
BY GentleKeeps, CreateKeeps, UpdateKeeps, CorrectKeeps, RepairKeeps, RemoveKeeps, ProposeKeeps,
   CompleteKeeps, SaveKeeps, AcceptKeeps DEF Handle

LEMMA ReviewNextKeeps == ReviewInv /\ ReviewNext => ReviewInv'
BY AskKeeps, GentleKeeps, HandleKeeps, SelectionJobsKeep DEF ReviewNext

LEMMA ReviewStutterKeeps == ReviewInv /\ UNCHANGED reviewVars => ReviewInv'
<1> SUFFICES ASSUME ReviewInv, UNCHANGED reviewVars PROVE ReviewInv'
  OBVIOUS
<1>1. UNCHANGED <<review, selections, reviewer>>
  BY DEF reviewVars
<1>2. ReviewTyped' /\ RowsOK'
  BY <1>1 DEF ReviewInv, ReviewTyped, RowsOK
<1>3. AsksOK' /\ AllSeen'
  BY <1>1 DEF ReviewInv, AsksOK, AskOK, AllSeen, SeenOf, View, Live, Reviewable
<1>4. AppliedOnceAsShown'
  BY <1>1 DEF ReviewInv, AppliedOnceAsShown
<1> QED BY <1>2, <1>3, <1>4 DEF ReviewInv

LEMMA ReviewInvariant == ReviewSpec => []ReviewInv
BY ReviewInitKeeps, ReviewNextKeeps, ReviewStutterKeeps, PTL DEF ReviewSpec

\* A review that stands completed is of exactly what its operator had on the screen,
\* for any number of operators, requests, retries and selections.
THEOREM ReviewedAsSeenHolds == ReviewSpec => []ReviewedAsSeen
<1>1. ReviewInv => ReviewedAsSeen
  BY DEF ReviewInv, AllSeen, SeenOf, ReviewedAsSeen
<1> QED BY <1>1, ReviewInvariant, PTL

\* A change sent twice under one key is applied once, and stops what was previewed.
THEOREM AppliedOnceAsShownHolds == ReviewSpec => []AppliedOnceAsShown
<1>1. ReviewInv => AppliedOnceAsShown
  BY DEF ReviewInv
<1> QED BY <1>1, ReviewInvariant, PTL

\* Selections, reviews and tries keep their types: the revision a request names is
\* a number, and no selection has more jobs than were queued for it.
THEOREM ReviewTypeHolds == ReviewSpec => []ReviewTypeOK
<1>1. ReviewInv => ReviewTypeOK
  <2> SUFFICES ASSUME ReviewInv PROVE ReviewTypeOK
    OBVIOUS
  <2>1. \A a \in DiscArchives : review[a] \in ReviewRows
    BY DEF ReviewInv, ReviewTyped
  <2>2. \A s \in SelectionIds : selections[s] \in SelectionRows
    BY DEF ReviewInv, ReviewTyped
  <2>3. \A o \in Reviewers : reviewer[o].try \in Tries
    BY DEF ReviewInv, ReviewTyped, ReviewerRows
  <2> QED BY <2>1, <2>2, <2>3 DEF ReviewTypeOK, ReviewRows, SelectionRows, Tries, Outcomes, SelectionStates, SelectionJobStates
<1> QED BY <1>1, ReviewInvariant, PTL
==============================================================================
