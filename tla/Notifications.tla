---------------------------- MODULE Notifications ----------------------------
(***************************************************************************)
(* Browser notifications of one subscription: the event an outcome records *)
(* in its own transaction, the delivery row its recipients snapshot makes, *)
(* and the notification workers that claim a delivery under a lease, push  *)
(* it, and settle what the push service answered.  Between any two of      *)
(* these steps the browser may be opted out and in again, a lease or the   *)
(* message's lifetime may end, a response may be lost, a worker may stop.  *)
(***************************************************************************)
EXTENDS Integers, FiniteSets

CONSTANTS NoticeEvents, Couriers, MaxAttempts, MaxGeneration
ASSUME NoticeBounds == MaxAttempts \in Nat /\ MaxGeneration \in Nat \ {0}

VARIABLES subscription,  \* the subscription row: opted in, and its generation
          notice,        \* per source event: its event, receipt and delivery rows
          courier,       \* each worker's claim and its progress
          pushed,        \* history: messages the push service accepted
          snapshots      \* history: how often recipients were snapshotted

noticeVars == <<subscription, notice, courier, pushed, snapshots>>

NoNotice == [event |-> FALSE, receipt |-> FALSE, st |-> "none", gen |-> 0, att |-> 0,
             tok |-> 0, leased |-> FALSE, due |-> TRUE, old |-> FALSE, aged |-> FALSE]
AtRest == [pc |-> "idle", ev |-> 0, tok |-> 0, answer |-> "none", inTime |-> FALSE]

\* An event may be one of a release that kept no receipts.
NotifyInit ==
  /\ subscription = [active |-> TRUE, gen |-> 1]
  /\ \E legacy \in SUBSET NoticeEvents :
       notice = [e \in NoticeEvents |-> IF e \notin legacy THEN NoNotice
                   ELSE [NoNotice EXCEPT !.event = TRUE, !.st = "queued", !.gen = 1]]
  /\ courier = [c \in Couriers |-> AtRest]
  /\ pushed = [e \in NoticeEvents |-> 0]
  /\ snapshots = [e \in NoticeEvents |-> IF notice[e].event THEN 1 ELSE 0]

Pending(e) == notice[e].st \in {"queued", "retrying"}
Final(r, st) == [r EXCEPT !.st = st, !.tok = 0, !.leased = FALSE, !.due = TRUE]
Closed(r, st) == IF r.st \in {"queued", "retrying"} THEN Final(r, st) ELSE r

\* recordEvent, in the transaction of the outcome: the receipt or the event
\* row of an earlier report answers for it.
RecordEvent(e) ==
  /\ ~notice[e].receipt /\ ~notice[e].event /\ snapshots[e] < 2
  /\ notice' = [notice EXCEPT ![e] =
       [NoNotice EXCEPT !.event = TRUE, !.receipt = TRUE, !.gen = subscription.gen,
                        !.st = IF subscription.active THEN "queued" ELSE "none"]]
  /\ snapshots' = [snapshots EXCEPT ![e] = @ + 1]
  /\ UNCHANGED <<subscription, courier, pushed>>

Register ==
  /\ ~subscription.active /\ subscription.gen < MaxGeneration
  /\ subscription' = [active |-> TRUE, gen |-> subscription.gen + 1]
  /\ UNCHANGED <<notice, courier, pushed, snapshots>>

Disable ==
  /\ subscription.active
  /\ subscription' = [subscription EXCEPT !.active = FALSE]
  /\ notice' = [e \in NoticeEvents |-> Closed(notice[e], "failed")]
  /\ UNCHANGED <<courier, pushed, snapshots>>

Current(r) == subscription.active /\ r.gen = subscription.gen /\ ~r.old

ClaimDelivery(c, e) ==
  LET r == notice[e] IN
  /\ courier[c].pc = "idle"
  /\ Pending(e) /\ Current(r) /\ r.att < MaxAttempts /\ r.due /\ ~r.leased
  /\ notice' = [notice EXCEPT ![e].tok = r.att + 1, ![e].leased = TRUE, ![e].att = r.att + 1]
  /\ courier' = [courier EXCEPT ![c] =
       [AtRest EXCEPT !.pc = "claimed", !.ev = e, !.tok = r.att + 1, !.inTime = TRUE]]
  /\ UNCHANGED <<subscription, pushed, snapshots>>

\* (mutant) a settlement looks at the delivery, and not at whose claim it is
HoldsAnyClaim(c) == LET r == notice[courier[c].ev] IN Pending(courier[c].ev) /\ r.leased

HoldsClaim(c) == LET r == notice[courier[c].ev] IN
  Pending(courier[c].ev) /\ r.tok = courier[c].tok /\ r.leased

\* The last look before the network: a claim that cannot be dispatched is
\* dropped, an endpoint past its own expiry is settled without a push.
CheckDispatchable(c) ==
  LET p == courier[c] IN
  /\ p.pc = "claimed"
  /\ \/ /\ HoldsClaim(c) /\ Current(notice[p.ev])
        /\ \E at \in {"pushing", "answered"} :
             courier' = [courier EXCEPT ![c] =
               [p EXCEPT !.pc = at, !.answer = IF at = "answered" THEN "gone" ELSE "none"]]
     \/ /\ ~(HoldsClaim(c) /\ Current(notice[p.ev]))
        /\ courier' = [courier EXCEPT ![c] = AtRest]
  /\ UNCHANGED <<subscription, notice, pushed, snapshots>>

\* The push service accepts the message or not; its answer may be lost, and
\* a deadline or a temporary refusal asks for another attempt.
PushMessage(c) ==
  LET p == courier[c] IN
  /\ p.pc = "pushing"
  /\ \E accepted \in BOOLEAN, answer \in {"accepted", "retry", "gone", "refused"} :
       /\ answer = "accepted" => accepted
       /\ accepted => answer \in {"accepted", "retry"}
       /\ pushed' = [pushed EXCEPT ![p.ev] = @ + (IF accepted THEN 1 ELSE 0)]
       /\ courier' = [courier EXCEPT ![c] = [p EXCEPT !.pc = "answered", !.answer = answer]]
  /\ UNCHANGED <<subscription, notice, snapshots>>

SettledRow(r, answer, late) ==
  CASE r.old \/ late -> Final(r, "expired")
    [] ~(r.old \/ late) /\ answer = "accepted" -> Final(r, "accepted")
    [] ~(r.old \/ late) /\ answer = "retry" /\ r.att < MaxAttempts ->
         [Final(r, "retrying") EXCEPT !.due = FALSE]
    [] OTHER -> Final(r, "failed")

\* settle: an endpoint that is gone closes its generation, and no later one.
SettleDelivery(c) ==
  LET p == courier[c]  e == p.ev  r == notice[e] IN
  /\ p.pc = "answered"
  /\ courier' = [courier EXCEPT ![c] = AtRest]
  /\ \/ /\ HoldsClaim(c) /\ p.answer # "gone"
        /\ \E late \in IF p.answer = "retry" THEN BOOLEAN ELSE {FALSE} :
             notice' = [notice EXCEPT ![e] = SettledRow(r, p.answer, late)]
        /\ UNCHANGED subscription
     \/ /\ HoldsClaim(c) /\ p.answer = "gone"
        /\ subscription' = IF subscription.gen = r.gen
                           THEN [subscription EXCEPT !.active = FALSE] ELSE subscription
        /\ notice' = [i \in NoticeEvents |->
             IF i = e THEN SettledRow(r, "gone", FALSE)
             ELSE IF notice[i].gen = r.gen THEN Closed(notice[i], "failed") ELSE notice[i]]
     \/ ~HoldsClaim(c) /\ UNCHANGED <<subscription, notice>>
  /\ UNCHANGED <<pushed, snapshots>>

\* A shutdown or a crash keeps the claim until its lease ends.
CourierStops(c) ==
  /\ courier[c].pc # "idle"
  /\ courier' = [courier EXCEPT ![c] = AtRest]
  /\ UNCHANGED <<subscription, notice, pushed, snapshots>>

\* (mutant) history is deleted as if every event had its receipt
KeepsOwnReceipt(r) == r.receipt

RetainReceipt(r) == TRUE

\* (mutant) a claim that was never settled is left to its worker
UnleasedOnly(r) == r.tok = 0

Overdue(r) == ~r.leased

Maintained(r) ==
  LET ends == r.st \in {"queued", "retrying"} /\ Overdue(r) /\ (r.old \/ r.att = MaxAttempts)
      gone == ~ends /\ r.event /\ r.aged /\ r.st \notin {"queued", "retrying"} IN
  IF ends THEN Final(r, IF r.old THEN "expired" ELSE "failed")
  ELSE IF gone THEN [NoNotice EXCEPT !.receipt = RetainReceipt(r)] ELSE r

Maintain(c) ==
  /\ courier[c].pc = "idle"
  /\ notice' = [e \in NoticeEvents |-> Maintained(notice[e])]
  /\ UNCHANGED <<subscription, courier, pushed, snapshots>>

-----------------------------------------------------------------------------
(* The clock: leases of 30 seconds, retries, a lifetime of a day, a week   *)
(* of history.                                                             *)

NoticeLeaseEnds(e) ==
  /\ notice[e].leased
  /\ notice' = [notice EXCEPT ![e].leased = FALSE]
  /\ courier' = [c \in Couriers |-> IF courier[c].ev = e /\ courier[c].tok = notice[e].tok
                                    THEN [courier[c] EXCEPT !.inTime = FALSE] ELSE courier[c]]
  /\ UNCHANGED <<subscription, pushed, snapshots>>

RetryDue(e) ==
  /\ ~notice[e].due /\ notice' = [notice EXCEPT ![e].due = TRUE]
  /\ UNCHANGED <<subscription, courier, pushed, snapshots>>

LifetimeEnds(e) ==
  /\ notice[e].event /\ ~notice[e].old /\ notice' = [notice EXCEPT ![e].old = TRUE]
  /\ UNCHANGED <<subscription, courier, pushed, snapshots>>

HistoryEnds(e) ==
  /\ notice[e].old /\ ~notice[e].aged /\ ~Pending(e)
  /\ notice' = [notice EXCEPT ![e].aged = TRUE]
  /\ UNCHANGED <<subscription, courier, pushed, snapshots>>

Dispatch(c) == \/ \E e \in NoticeEvents : ClaimDelivery(c, e)
               \/ CheckDispatchable(c) \/ PushMessage(c) \/ SettleDelivery(c)

NotifyNext ==
  \/ \E e \in NoticeEvents : \/ RecordEvent(e) \/ NoticeLeaseEnds(e) \/ RetryDue(e)
                             \/ LifetimeEnds(e) \/ HistoryEnds(e)
  \/ Register \/ Disable
  \/ \E c \in Couriers : Dispatch(c) \/ CourierStops(c) \/ Maintain(c)

NotifySpec == NotifyInit /\ [][NotifyNext]_noticeVars

-----------------------------------------------------------------------------
(* Properties.                                                             *)

NotifyTypeOK ==
  /\ subscription \in [active : BOOLEAN, gen : 1..MaxGeneration]
  /\ \A e \in NoticeEvents :
       /\ notice[e].st \in {"none", "queued", "retrying", "accepted", "failed", "expired"}
       /\ notice[e].att \in 0..MaxAttempts /\ notice[e].tok \in 0..notice[e].att
       /\ notice[e].leased => notice[e].tok > 0
       /\ pushed[e] \in 0..MaxAttempts
  /\ \A c \in Couriers : courier[c].pc \in {"idle", "claimed", "pushing", "answered"}

\* Two workers never push one delivery while both are within their leases:
\* a worker whose answer comes late, after its lease was given to another,
\* settles nothing and frees nothing (claim, settle).
OneCourierPerDelivery ==
  \A c, d \in Couriers :
    c # d /\ courier[c].pc = "pushing" /\ courier[d].pc = "pushing"
      /\ courier[c].ev = courier[d].ev => ~(courier[c].inTime /\ courier[d].inTime)

\* An outcome reported again, however late and whatever maintenance deleted
\* in between, never reaches the browsers a second time: its recipients were
\* snapshotted once (recordEvent, retainReceipt).
RecipientsSnapshottedOnce == \A e \in NoticeEvents : snapshots[e] <= 1

\* Opted out, failed, crashed or answered late, a delivery ends: nothing stays
\* queued for ever (maintain).
DeliverySettles == \A e \in NoticeEvents : Pending(e) ~> ~Pending(e)
=============================================================================
