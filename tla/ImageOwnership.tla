----------------------------- MODULE ImageOwnership -----------------------------
(***************************************************************************)
(* Ownership of one archive image among processes: the admission queue,    *)
(* which orders contenders by tickets that are locked files, the registry  *)
(* entry and identity records that make the image's lock file known, the   *)
(* kernel flock on that file, which is the authority and which a helper    *)
(* child inherits, and the writer's claim record with its heartbeat.  A    *)
(* process publishes the image first, writes it, reads it or previews it;  *)
(* every file operation is a step of its own between which it may stop.    *)
(* Bound: MaxImageStops stops, failed heartbeats and stalled heartbeats.   *)
(***************************************************************************)
EXTENDS Integers, Sequences, FiniteSets

CONSTANTS ImageUsers, MaxImageStops

VARIABLES namespace,    \* the ownership directory and its identity records
          registration, \* 0 none, 1 registry line, 2 lock file, 3 and 4 identities
          registryLock, \* who holds the registry's flock
          tickets,      \* queue.json
          flock,        \* the image lock: exclusive owner, shared owners, helper
          writerClaim,  \* the claim record on disk
          user, imageStops

ownershipVars == <<namespace, registration, registryLock, tickets, flock, writerClaim,
                   user, imageStops>>

NoUser == "nobody"
ASSUME OwnershipNames == NoUser \notin ImageUsers
ASSUME OwnershipBounds == MaxImageStops \in Nat
UnclaimedImage == [by |-> NoUser, live |-> FALSE]
AwayUser == [pc |-> "away", kind |-> "none", claims |-> FALSE, beat |-> FALSE, retain |-> FALSE]
Established == 4

OwnershipInit ==
  /\ namespace = "absent" /\ registration = 0 /\ registryLock = NoUser
  /\ tickets = <<>> /\ flock = [ex |-> NoUser, sh |-> {}, helper |-> "none"]
  /\ writerClaim = UnclaimedImage
  /\ user = [p \in ImageUsers |-> AwayUser] /\ imageStops = 0

Publishes(p) == user[p].kind = "publisher"
Previews(p) == user[p].kind = "preview"
Writes(p) == user[p].kind \in {"publisher", "writer"}
Goes(p, pc) == user' = [user EXCEPT ![p].pc = pc]
Leaves(p) == user' = [user EXCEPT ![p] = AwayUser]
NamespaceKept == UNCHANGED <<namespace, registration, registryLock>>

(* ----------------------------- the namespace ---------------------------- *)
\* withLock: a publication may create the directory, everyone else must find it.
RequestOwnership(p) ==
  /\ user[p].pc = "away"
  /\ \E k \in {"publisher", "writer", "reader", "preview"} :
       /\ k # "publisher" => namespace = "ready"
       /\ namespace' = IF namespace = "absent" THEN "making" ELSE namespace
       /\ user' = [user EXCEPT ![p] = [AwayUser EXCEPT !.kind = k,
                     !.pc = CASE namespace = "absent" -> "making"
                              [] namespace = "making" -> "awaiting"
                              [] OTHER -> "entering"]]
  /\ UNCHANGED <<registration, registryLock, tickets, flock, writerClaim, imageStops>>
NamespaceMade(p) ==
  /\ user[p].pc = "making" /\ namespace' = "ready" /\ Goes(p, "entering")
  /\ UNCHANGED <<registration, registryLock, tickets, flock, writerClaim, imageStops>>
\* Another publication waits for both records until its deadline.
NamespaceAwaited(p) ==
  /\ user[p].pc = "awaiting"
  /\ \/ namespace = "ready" /\ Goes(p, "entering")
     \/ namespace # "ready" /\ Leaves(p)
  /\ NamespaceKept /\ UNCHANGED <<tickets, flock, writerClaim, imageStops>>

(* ----------------------------- the admission ---------------------------- *)
\* mutant: a dead ticket keeps its place
AllTickets == tickets
\* The queue's tickets at the places S, in the order they stand in.
Place(S, n) == CHOOSE i \in S : Cardinality({j \in S : j <= i}) = n
TicketsAt(S) == [n \in 1..Cardinality(S) |-> tickets[Place(S, n)]]
\* editQueue drops every ticket whose lock nobody holds, under the guard.
LiveAt == {i \in DOMAIN tickets : tickets[i].live}
LiveTickets == TicketsAt(LiveAt)
Ticket(p) == [by |-> p, preview |-> Previews(p), live |-> TRUE,
              waiting |-> \E i \in DOMAIN LiveTickets :
                            LiveTickets[i].preview \/ LiveTickets[i].waiting]
\* mutant: a preview waits only for what was waiting when it came
PassesUnlessWaiting(p, queue) ==
  \E i \in DOMAIN queue : queue[i].by = p /\ (i = 1 \/ ~queue[i].waiting)
Admits(p, queue) ==
  \E i \in DOMAIN queue :
    queue[i].by = p /\ (i = 1 \/ (~queue[i].preview /\ ~queue[i].waiting))
EntersQueue(p, queue) ==
  /\ tickets' = queue
  /\ Goes(p, IF Admits(p, queue) THEN "admitted" ELSE "queued")
  /\ NamespaceKept /\ UNCHANGED <<flock, writerClaim, imageStops>>
\* The first edit registers the ticket; while it waits, an edit every 50 ms
\* looks again; a request may also be cancelled while it waits.
TakeTicket(p) == user[p].pc = "entering" /\ EntersQueue(p, Append(LiveTickets, Ticket(p)))
CheckQueue(p) ==
  /\ user[p].pc = "queued" /\ (LiveTickets # tickets \/ Admits(p, LiveTickets))
  /\ EntersQueue(p, LiveTickets)
CancelWait(p) ==
  /\ user[p].pc = "queued" /\ Goes(p, "leaving")
  /\ NamespaceKept /\ UNCHANGED <<tickets, flock, writerClaim, imageStops>>
ReturnTicket(p) ==
  /\ user[p].pc = "leaving" /\ Leaves(p)
  /\ tickets' = TicketsAt({i \in LiveAt : tickets[i].by # p})
  /\ NamespaceKept /\ UNCHANGED <<flock, writerClaim, imageStops>>

(* -------------------------- the registered lock ------------------------- *)
\* prepareArchiveLock: an established image is checked under the registry lock;
\* only a publication registers one, and a half-made registration is refused.
PrepareLock(p) ==
  /\ user[p].pc = "admitted"
  /\ \/ /\ registryLock = NoUser /\ registration = 0 /\ Publishes(p)
        /\ registryLock' = p /\ Goes(p, "registering")
     \/ /\ registryLock = NoUser /\ registration = Established
        /\ Goes(p, "prepared") /\ UNCHANGED registryLock
     \/ /\ registryLock # NoUser \/ registration \in 1..(Established - 1)
                                 \/ (registration = 0 /\ ~Publishes(p))
        /\ Goes(p, "leaving") /\ UNCHANGED registryLock
  /\ UNCHANGED <<namespace, registration, tickets, flock, writerClaim, imageStops>>
RegisterImage(p) ==
  /\ user[p].pc = "registering" /\ registration' = registration + 1
  /\ IF registration' = Established THEN Goes(p, "prepared") /\ registryLock' = NoUser
     ELSE UNCHANGED <<user, registryLock>>
  /\ UNCHANGED <<namespace, tickets, flock, writerClaim, imageStops>>

(* ---------------------------- the kernel lock --------------------------- *)
\* A preview takes an exclusive interval; a conflict is refused, not waited for.
LocksExclusively(p) == Writes(p) \/ Previews(p)
Lockable(p) ==
  /\ flock.ex = NoUser
  /\ IF LocksExclusively(p) THEN flock.sh = {} /\ flock.helper = "none"
     ELSE flock.helper # "exclusive"
LockImage(p) ==
  /\ user[p].pc = "prepared"
  /\ IF ~Lockable(p) THEN Goes(p, "leaving") /\ UNCHANGED flock
     ELSE /\ Goes(p, "locked")
          /\ flock' = IF LocksExclusively(p) THEN [flock EXCEPT !.ex = p]
                      ELSE [flock EXCEPT !.sh = @ \cup {p}]
  /\ NamespaceKept /\ UNCHANGED <<tickets, writerClaim, imageStops>>
\* A claim whose lease has not ended blocks every mode, whoever left it; it is
\* kept by the one who finds it.
ClaimImage(p) ==
  /\ user[p].pc = "locked"
  /\ \/ /\ writerClaim.live /\ UNCHANGED writerClaim
        /\ user' = [user EXCEPT ![p].pc = "unlocking"]
     \/ /\ ~writerClaim.live
        /\ writerClaim' = IF Writes(p) THEN [by |-> p, live |-> TRUE] ELSE writerClaim
        /\ user' = [user EXCEPT ![p].pc = "working", ![p].claims = Writes(p)]
  /\ NamespaceKept /\ UNCHANGED <<tickets, flock, imageStops>>
\* The heartbeat's write is asynchronous: it may land after the task has ended.
HeartbeatStarts(p) ==
  /\ user[p].pc = "working" /\ user[p].claims /\ ~user[p].beat /\ ~user[p].retain
  /\ user' = [user EXCEPT ![p].beat = TRUE]
  /\ NamespaceKept /\ UNCHANGED <<tickets, flock, writerClaim, imageStops>>
HeartbeatLands(p) ==
  /\ user[p].beat /\ user' = [user EXCEPT ![p].beat = FALSE]
  /\ writerClaim' = [by |-> p, live |-> TRUE]
  /\ NamespaceKept /\ UNCHANGED <<tickets, flock, imageStops>>
HeartbeatFails(p) ==
  /\ user[p].beat /\ imageStops < MaxImageStops /\ imageStops' = imageStops + 1
  /\ user' = [user EXCEPT ![p].beat = FALSE, ![p].retain = TRUE]
  /\ NamespaceKept /\ UNCHANGED <<tickets, flock, writerClaim>>
TaskEnds(p) ==
  /\ user[p].pc = "working" /\ Goes(p, "finishing")
  /\ NamespaceKept /\ UNCHANGED <<tickets, flock, writerClaim, imageStops>>
\* mutant: the last heartbeat is not waited for
BeatForgotten(p) == TRUE
BeatSettled(p) == ~user[p].beat
\* finally: an own claim is unlinked unless ownership failed.
DropClaim(p) ==
  /\ user[p].pc = "finishing" /\ BeatSettled(p) /\ Goes(p, "unlocking")
  /\ writerClaim' = IF user[p].claims /\ ~user[p].retain /\ writerClaim.by = p
                    THEN UnclaimedImage ELSE writerClaim
  /\ NamespaceKept /\ UNCHANGED <<tickets, flock, imageStops>>
Unlocked(p) == [flock EXCEPT !.ex = IF @ = p THEN NoUser ELSE @, !.sh = @ \ {p}]
UnlockImage(p) ==
  /\ user[p].pc = "unlocking" /\ Goes(p, "leaving") /\ flock' = Unlocked(p)
  /\ NamespaceKept /\ UNCHANGED <<tickets, writerClaim, imageStops>>

(* --------------------------- stops and leases --------------------------- *)
\* The process stops: its ticket's lock and its locks go, unless a helper that
\* inherited the image's descriptor is still at work.
StopUser(p) ==
  /\ user[p].pc # "away" /\ imageStops < MaxImageStops /\ imageStops' = imageStops + 1
  /\ Leaves(p)
  /\ tickets' = [i \in DOMAIN tickets |->
                   IF tickets[i].by = p THEN [tickets[i] EXCEPT !.live = FALSE] ELSE tickets[i]]
  /\ registryLock' = IF registryLock = p THEN NoUser ELSE registryLock
  /\ \/ flock' = Unlocked(p)
     \/ /\ user[p].pc = "working" /\ flock.helper = "none"
        /\ flock' = [Unlocked(p) EXCEPT !.helper =
                       IF flock.ex = p THEN "exclusive" ELSE "shared"]
  /\ UNCHANGED <<namespace, registration, writerClaim>>
HelperEnds ==
  /\ flock.helper # "none" /\ flock' = [flock EXCEPT !.helper = "none"]
  /\ NamespaceKept /\ UNCHANGED <<tickets, writerClaim, user, imageStops>>
\* The lease of a claim nobody renews ends; a stalled heartbeat loses it too.
Renewed == \E p \in ImageUsers : user[p].claims /\ ~user[p].retain
ClaimLeaseEnds ==
  /\ writerClaim.live /\ (Renewed => imageStops < MaxImageStops)
  /\ writerClaim' = [writerClaim EXCEPT !.live = FALSE]
  /\ imageStops' = IF Renewed THEN imageStops + 1 ELSE imageStops
  /\ NamespaceKept /\ UNCHANGED <<tickets, flock, user>>

UserStep(p) ==
  \/ NamespaceMade(p) \/ NamespaceAwaited(p) \/ TakeTicket(p) \/ CheckQueue(p)
  \/ ReturnTicket(p) \/ PrepareLock(p) \/ RegisterImage(p) \/ LockImage(p) \/ ClaimImage(p)
  \/ TaskEnds(p) \/ DropClaim(p) \/ UnlockImage(p)
OwnershipNext ==
  \/ \E p \in ImageUsers : \/ RequestOwnership(p) \/ UserStep(p) \/ CancelWait(p)
                           \/ HeartbeatStarts(p) \/ HeartbeatLands(p) \/ HeartbeatFails(p)
                           \/ StopUser(p)
  \/ HelperEnds \/ ClaimLeaseEnds

OwnershipSpec == OwnershipInit /\ [][OwnershipNext]_ownershipVars
(* ------------------------------ properties ------------------------------ *)
\* TypeOK: what the files and the processes may hold.
OwnershipTypeOK ==
  /\ namespace \in {"absent", "making", "ready"} /\ registration \in 0..Established
  /\ registryLock \in ImageUsers \cup {NoUser} /\ imageStops \in 0..MaxImageStops
  /\ \A i \in DOMAIN tickets : tickets[i].by \in ImageUsers
  /\ flock.ex \in ImageUsers \cup {NoUser} /\ flock.sh \subseteq ImageUsers
  /\ flock.helper \in {"none", "exclusive", "shared"}
  /\ writerClaim.by \in ImageUsers \cup {NoUser}
  /\ \A p \in ImageUsers : user[p].pc \in
       {"away", "making", "awaiting", "entering", "queued", "admitted", "registering",
        "prepared", "locked", "working", "finishing", "unlocking", "leaving"}

\* A preview, which takes the image exclusively, is never admitted beside another
\* request, so ordinary archive work is not refused because somebody previews.
PastAdmission(p) == user[p].pc \notin {"away", "making", "awaiting", "entering", "queued", "leaving"}
PreviewAdmittedAlone ==
  \A p, q \in ImageUsers : Previews(p) /\ PastAdmission(p) /\ PastAdmission(q) => p = q

\* While a writer's task runs the claim on disk is its own, so an inspection and
\* every later request see who writes, whoever claimed or stopped before.
WriterIsNamed ==
  \A p \in ImageUsers :
    user[p].pc = "working" /\ user[p].claims => writerClaim.by = p

\* Every request that waits for admission gets it or gives up, whoever stopped
\* with a ticket in the queue.
TicketsAreServed == \A p \in ImageUsers : user[p].pc = "queued" ~> user[p].pc # "queued"
==============================================================================
