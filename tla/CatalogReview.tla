---------------------------- MODULE CatalogReview ----------------------------
(***************************************************************************)
(* The Catalog Review of two archives of one disc, and the operators who   *)
(* change it at the same time from the web and from the command line: the  *)
(* "source" archive, and the "fresh" generation archived again later,      *)
(* which takes the source's Disc Selections over when its Re-archive       *)
(* Acceptance is applied.                                                  *)
(*                                                                         *)
(* An operator asks for a change after a preview computed from one         *)
(* snapshot, and sends it under a mutation key; when the answer does not   *)
(* come the same request is sent again, possibly while the first is still  *)
(* being handled, so a request has two tries.  All handlers are single     *)
(* immediate transactions except the completion of a review, which         *)
(* validates the selections outside the writer and commits afterwards.     *)
(* A revision is the archive's updatedAt.                                  *)
(***************************************************************************)
EXTENDS Integers

CONSTANTS Reviewers, MaxSelections, MaxReviewRequests, MaxSelectionJobs

VARIABLES review,       \* revision, outcome and (history) what the review was of
          selections,   \* the disc_selections rows, with their Encode Jobs
          proposal,     \* the saved Re-archive Mapping Proposal of "fresh"
          reviewer,     \* each operator's request, its two tries, its preview
                        \* decision and its mutation_invocations row
          reviewRequests

reviewVars == <<review, selections, proposal, reviewer, reviewRequests>>

\* At least the selection the reviews begin with.
ASSUME ReviewAssumption == MaxSelections \in Nat \ {0} /\ MaxSelectionJobs \in Nat

DiscArchives == {"source", "fresh"}
SelectionIds == 1..MaxSelections
Absent == 0
NoSelection == [at |-> "source", state |-> "none", unsafe |-> FALSE, text |-> 0,
                jobs |-> 0, job |-> "none", heir |-> Absent]
NoProposal == [rev |-> 0, src |-> 0]
NoRequest == [op |-> "none", at |-> "source", sel |-> Absent, full |-> FALSE, rev |-> 0,
              src |-> 0, view |-> {}, evidence |-> {}]
AtEase == [req |-> NoRequest, try |-> <<"over", "over">>, token |-> FALSE,
           times |-> 0, struck |-> {}]

\* One selection, which may be an unsafe legacy one; a safe one may have
\* been reviewed before.
ReviewInit ==
  /\ \E bad, done \in BOOLEAN :
       /\ bad => ~done
       /\ selections = [s \in SelectionIds |->
            IF s = 1 THEN [NoSelection EXCEPT !.state = "active", !.unsafe = bad] ELSE NoSelection]
       /\ review = [a \in DiscArchives |->
            IF a = "source" /\ done
            THEN [rev |-> 1, outcome |-> "reviewed_with_selections", of |-> {<<1, 0>>}]
            ELSE [rev |-> 1, outcome |-> "needs_review", of |-> {}]]
  /\ proposal = NoProposal
  /\ reviewer = [o \in Reviewers |-> AtEase]
  /\ reviewRequests = 0

-----------------------------------------------------------------------------
(* What the handlers read.                                                 *)

Live(a) == {s \in SelectionIds : selections[s].state = "active" /\ selections[s].at = a}
View(a) == {<<s, selections[s].text>> : s \in Live(a)}
Vacant == {s \in SelectionIds : selections[s].state = "none"}
\* Identifiers are opaque: the lowest one stands for a new one.
Unused(new) == new \in Vacant /\ \A v \in Vacant : new <= v
Active(s) == selections[s].state = "active"
HasJobs(s) == selections[s].jobs > 0
Working(s) == selections[s].job \in {"queued", "stopping"}
HasSupersession(s) ==
  selections[s].heir # Absent \/ \E p \in SelectionIds : selections[p].heir = s

\* The jobs a preview lists: those of the selection, or of every selection
\* the acceptance retires.
Concerned(r) ==
  CASE r.op \in {"correct", "repair", "remove"} -> {r.sel}
    [] r.op = "accept" -> Live("source")
    [] OTHER -> {}
PreviewEvidence(r) == {<<s, selections[s].jobs, selections[s].job>> : s \in Concerned(r)}
Previewed(r) == r.op \in {"correct", "repair", "remove", "complete", "accept"}

Reviewable(a) == Live(a) # {} /\ \A s \in Live(a) : ~selections[s].unsafe
\* A fresh generation is completed by its acceptance only.
CompletionArchive(a) == a = "source" \/ review[a].outcome # "needs_review"

RevisionStands(r) == r.rev = 0 \/ r.rev = review[r.at].rev
SourceStands(r) == r.src = review["source"].rev
Validates(r) == /\ RevisionStands(r) /\ CompletionArchive(r.at)
                /\ IF r.full THEN Reviewable(r.at) ELSE Live(r.at) = {}

ProposalReady == /\ proposal = [rev |-> review["fresh"].rev, src |-> review["source"].rev]
                 /\ Live("source") # {}

\* The conditions of each handler's transaction, its key and preview aside.
Legal(r) ==
  /\ RevisionStands(r)
  /\ \/ /\ r.op = "create"
        /\ r.at = "source"
     \/ /\ r.op = "update"
        /\ Active(r.sel) /\ ~selections[r.sel].unsafe
        /\ ~HasJobs(r.sel) /\ ~HasSupersession(r.sel)
     \/ /\ r.op = "correct"
        /\ Active(r.sel) /\ ~selections[r.sel].unsafe
        /\ HasJobs(r.sel) \/ HasSupersession(r.sel)
        /\ r.at = "source"
     \/ /\ r.op = "repair"
        /\ Active(r.sel) /\ selections[r.sel].unsafe
        /\ ~Working(r.sel) /\ ~HasSupersession(r.sel)
     \/ /\ r.op = "remove"
        /\ Active(r.sel)
        /\ HasJobs(r.sel) => selections[r.sel].unsafe
     \/ /\ r.op = "propose"
        /\ r.at = "source"
        /\ r.full => /\ review[r.at].outcome = "needs_review"
                     /\ \A s \in Live(r.at) : ~selections[s].unsafe
     \/ /\ r.op = "complete"
        /\ review[r.at].outcome = "needs_review"
     \/ /\ r.op = "save"
        /\ SourceStands(r) /\ Live("source") # {}
        /\ review["fresh"].outcome = "needs_review"
     \/ /\ r.op = "accept"
        /\ SourceStands(r) /\ ProposalReady
        /\ review["source"].outcome = "reviewed_with_selections"
        /\ review["fresh"].outcome = "needs_review"

\* (mutant) the key's row is looked for before the transaction only
NeverRecorded(o) == FALSE
\* The mutation key has its row: the recorded outcome is the answer.
Recorded(o) == reviewer[o].times > 0
\* (mutant) the preview is checked for being there, not for what it showed
TokenThere(o) == Previewed(reviewer[o].req) => reviewer[o].token
PreviewStands(o) ==
  Previewed(reviewer[o].req) =>
    reviewer[o].token /\ PreviewEvidence(reviewer[o].req) = reviewer[o].req.evidence

\* (mutant) the wall clock stands still within a millisecond
ClockOnly(rev) == rev
NextRevision(rev) == rev + 1
Reopened(a) == [review EXCEPT ![a].outcome = "needs_review", ![a].rev = NextRevision(@), ![a].of = {}]
Completed(a, outcome, of) ==
  [review EXCEPT ![a].outcome = outcome, ![a].rev = NextRevision(@), ![a].of = of]

-----------------------------------------------------------------------------
(* An operator's request.                                                  *)

Over(o) == reviewer[o].try = <<"over", "over">>

\* The request is made from one snapshot: the revision, the selections on
\* the screen, and for a consequential change the preview decision that is
\* recorded.  A selection can be added or edited without any revision.
Ask(o) ==
  /\ Over(o) /\ reviewRequests < MaxReviewRequests
  /\ \E op \in {"create", "update", "correct", "repair", "remove", "propose", "complete", "save", "accept"},
        a \in DiscArchives, s \in SelectionIds \cup {Absent}, full \in BOOLEAN, blind \in BOOLEAN :
       LET plain == [NoRequest EXCEPT
                       !.op = op, !.at = a, !.sel = s, !.full = full,
                       !.rev = IF blind THEN 0 ELSE review[a].rev,
                       !.src = IF op \in {"save", "accept"} THEN review["source"].rev ELSE 0,
                       !.view = IF op \in {"propose", "complete", "accept"} THEN View(a) ELSE {}]
           r == [plain EXCEPT !.evidence = PreviewEvidence(plain)]
       IN /\ op \in {"update", "correct", "repair", "remove"} <=> s # Absent
          /\ s # Absent => selections[s].at = a
          /\ full => op \in {"propose", "complete"}
          /\ blind => op \in {"create", "update"}
          /\ op = "complete" => Validates(r)
          /\ op \in {"save", "accept"} => a = "fresh"
          /\ Legal(r)
          /\ reviewer' = [reviewer EXCEPT ![o] =
               [AtEase EXCEPT !.req = r, !.try = <<"sent", "unsent">>, !.token = Previewed(r)]]
  /\ reviewRequests' = reviewRequests + 1
  /\ UNCHANGED <<review, selections, proposal>>

\* No answer came: the same request is sent again, under the same key.
AskAgain(o) ==
  /\ reviewer[o].try[2] = "unsent"
  /\ reviewer' = [reviewer EXCEPT ![o].try[2] = "sent"]
  /\ UNCHANGED <<review, selections, proposal, reviewRequests>>

\* The operator has the answer of the first try.
Rested(o) ==
  /\ reviewer[o].try = <<"over", "unsent">>
  /\ reviewer' = [reviewer EXCEPT ![o] = AtEase]
  /\ UNCHANGED <<review, selections, proposal, reviewRequests>>

-----------------------------------------------------------------------------
(* The handlers.                                                           *)

Answered(o, t) ==
  reviewer' = [reviewer EXCEPT ![o] =
    IF @.try[3 - t] = "over" THEN AtEase ELSE [@ EXCEPT !.try[t] = "over"]]
\* The preview decision is deleted and the invocation recorded.
Applied(o, t, cut) ==
  reviewer' = [reviewer EXCEPT ![o].try[t] = "over", ![o].token = FALSE,
                               ![o].times = @ + 1, ![o].struck = cut]

Handling(o, t) == reviewer[o].try[t] = IF reviewer[o].req.op = "complete" THEN "validated" ELSE "sent"
Reaches(o, t, op) == /\ reviewer[o].req.op = op /\ Handling(o, t)
                  /\ ~Recorded(o) /\ Legal(reviewer[o].req) /\ PreviewStands(o)
                  /\ UNCHANGED reviewRequests

\* The completed selections are validated outside the writer.
ValidateOutsideWriter(o, t) ==
  /\ reviewer[o].req.op = "complete" /\ reviewer[o].try[t] = "sent"
  /\ ~Recorded(o) /\ Validates(reviewer[o].req)
  /\ reviewer' = [reviewer EXCEPT ![o].try[t] = "validated"]
  /\ UNCHANGED <<review, selections, proposal, reviewRequests>>

Replays(o, t) ==
  /\ reviewer[o].try[t] \in {"sent", "validated"} /\ Recorded(o)
  /\ Answered(o, t)
  /\ UNCHANGED <<review, selections, proposal, reviewRequests>>

Refuses(o, t) ==
  /\ ~Recorded(o)
  /\ \/ Handling(o, t) /\ ~(Legal(reviewer[o].req) /\ PreviewStands(o))
     \/ /\ reviewer[o].req.op = "complete" /\ reviewer[o].try[t] = "sent"
        /\ ~Validates(reviewer[o].req)
  /\ Answered(o, t)
  /\ UNCHANGED <<review, selections, proposal, reviewRequests>>

\* Requests a stop of the jobs of a retired selection.
Stopped(sel) == [sel EXCEPT !.job = IF @ = "queued" THEN "stopping" ELSE @]
Retired(sel, heir) == [Stopped(sel) EXCEPT !.state = "inactive", !.heir = heir]

Create(o, t) ==
  /\ Reaches(o, t, "create")
  /\ \E new \in Vacant :
       Unused(new) /\ selections' = [selections EXCEPT ![new].state = "active"]
  /\ review' = Reopened("source") /\ UNCHANGED proposal
  /\ Applied(o, t, {})

Update(o, t) ==
  LET r == reviewer[o].req
  IN /\ Reaches(o, t, "update")
     /\ selections' = [selections EXCEPT ![r.sel].text = 1 - @]
     /\ review' = Reopened(r.at) /\ UNCHANGED proposal
     /\ Applied(o, t, {})

Correct(o, t) ==
  LET r == reviewer[o].req
  IN /\ Reaches(o, t, "correct")
     /\ \E new \in Vacant :
          /\ Unused(new)
          /\ selections' = [selections EXCEPT
               ![r.sel] = Retired(@, new),
               ![new] = [NoSelection EXCEPT !.state = "active", !.text = 1 - selections[r.sel].text]]
     /\ review' = Reopened(r.at) /\ UNCHANGED proposal
     /\ Applied(o, t, {s \in {r.sel} : selections[s].job = "queued"})

\* In place, or by a new row when the selection has Encode Job history.
Repair(o, t) ==
  LET r == reviewer[o].req
  IN /\ Reaches(o, t, "repair")
     /\ \/ /\ HasJobs(r.sel)
           /\ \E new \in Vacant :
                /\ Unused(new)
                /\ selections' = [selections EXCEPT ![r.sel].state = "inactive", ![new].state = "active"]
        \/ /\ ~HasJobs(r.sel)
           /\ selections' = [selections EXCEPT ![r.sel].unsafe = FALSE, ![r.sel].text = 1 - @]
     /\ review' = Reopened(r.at) /\ UNCHANGED proposal
     /\ Applied(o, t, {})

\* Kept as history when a job or a supersession refers to it.
RemoveUnused(o, t) ==
  LET r == reviewer[o].req
  IN /\ Reaches(o, t, "remove")
     /\ selections' = [selections EXCEPT ![r.sel].state =
          IF HasJobs(r.sel) \/ HasSupersession(r.sel) THEN "inactive" ELSE "gone"]
     /\ review' = Reopened(r.at) /\ UNCHANGED proposal
     /\ Applied(o, t, {})

\* An assisted mapping adds a selection and completes or reopens the review.
Propose(o, t) ==
  LET r == reviewer[o].req
  IN /\ Reaches(o, t, "propose")
     /\ \E new \in Vacant :
          /\ Unused(new)
          /\ selections' = [selections EXCEPT ![new].state = "active"]
          /\ review' = IF r.full
                       THEN Completed(r.at, "reviewed_with_selections", r.view \cup {<<new, 0>>})
                       ELSE Reopened(r.at)
     /\ UNCHANGED proposal
     /\ Applied(o, t, {})

Complete(o, t) ==
  LET r == reviewer[o].req
  IN /\ Reaches(o, t, "complete")
     /\ review' = Completed(r.at, IF r.full THEN "reviewed_with_selections" ELSE "archive_only", r.view)
     /\ UNCHANGED <<selections, proposal>>
     /\ Applied(o, t, {})

SaveProposal(o, t) ==
  /\ Reaches(o, t, "save")
  /\ review' = [review EXCEPT !["fresh"].rev = NextRevision(@)]
  /\ proposal' = [rev |-> review'["fresh"].rev, src |-> review["source"].rev]
  /\ UNCHANGED selections
  /\ Applied(o, t, {})

\* Every source selection gets an heir in the fresh archive and is retired;
\* the source keeps its outcome, the fresh archive is reviewed: with what an
\* earlier acceptance left in it, which its review lists beside the proposal.
AcceptRearchive(o, t) ==
  LET r == reviewer[o].req  old == Live("source")
  IN /\ Reaches(o, t, "accept")
     /\ \E heirOf \in [old -> Vacant] :
          /\ \A p, q \in old : heirOf[p] = heirOf[q] => p = q
          /\ selections' = [s \in SelectionIds |->
               IF s \in old THEN Retired(selections[s], heirOf[s])
               ELSE IF \E p \in old : heirOf[p] = s
               THEN [NoSelection EXCEPT !.at = "fresh", !.state = "active",
                       !.text = selections[CHOOSE p \in old : heirOf[p] = s].text]
               ELSE selections[s]]
          /\ review' = [review EXCEPT
               !["source"].rev = NextRevision(@),
               !["fresh"] = [rev |-> NextRevision(@.rev), outcome |-> "reviewed_with_selections",
                             of |-> r.view \cup {<<heirOf[s], selections[s].text>> : s \in old}]]
     /\ UNCHANGED proposal
     /\ Applied(o, t, {s \in old : selections[s].job = "queued"})

-----------------------------------------------------------------------------
(* The Encode Jobs of a selection, as far as the review reads them.        *)

QueueSelection(s) ==
  /\ Active(s) /\ ~selections[s].unsafe /\ ~Working(s)
  /\ review[selections[s].at].outcome = "reviewed_with_selections"
  /\ selections[s].jobs < MaxSelectionJobs
  /\ selections' = [selections EXCEPT ![s].jobs = @ + 1, ![s].job = "queued"]
  /\ UNCHANGED <<review, proposal, reviewer, reviewRequests>>

JobEnds(s) ==
  /\ Working(s)
  /\ selections' = [selections EXCEPT ![s].job = "ended"]
  /\ UNCHANGED <<review, proposal, reviewer, reviewRequests>>

Handle(o, t) ==
  \/ ValidateOutsideWriter(o, t) \/ Replays(o, t) \/ Refuses(o, t)
  \/ Create(o, t) \/ Update(o, t) \/ Correct(o, t) \/ Repair(o, t) \/ RemoveUnused(o, t)
  \/ Propose(o, t) \/ Complete(o, t) \/ SaveProposal(o, t) \/ AcceptRearchive(o, t)

ReviewNext ==
  \/ \E o \in Reviewers : Ask(o) \/ AskAgain(o) \/ Rested(o) \/ \E t \in 1..2 : Handle(o, t)
  \/ \E s \in SelectionIds : QueueSelection(s) \/ JobEnds(s)

ReviewSpec == ReviewInit /\ [][ReviewNext]_reviewVars

-----------------------------------------------------------------------------
(* Type invariant.                                                         *)
ReviewTypeOK ==
  /\ \A a \in DiscArchives :
       /\ review[a].rev \in Nat
       /\ review[a].outcome \in {"needs_review", "reviewed_with_selections", "archive_only"}
  /\ \A s \in SelectionIds :
       /\ selections[s].state \in {"none", "active", "inactive", "gone"}
       /\ selections[s].job \in {"none", "queued", "stopping", "ended"}
       /\ selections[s].jobs \in 0..MaxSelectionJobs
       /\ selections[s].heir \in SelectionIds \cup {Absent}
  /\ \A o \in Reviewers :
       \A t \in 1..2 : reviewer[o].try[t] \in {"unsent", "sent", "validated", "over"}

(* A review that stands completed is a review of exactly the selections    *)
(* the operator who completed it had on the screen, at least one and none  *)
(* unsafe unless the outcome is archive only - whatever other operators    *)
(* created, changed, corrected or removed between the preview, the         *)
(* validation outside the writer and the commit.  The exception is a       *)
(* source archive whose selections all moved to the fresh generation.      *)
ReviewedAsSeen ==
  \A a \in DiscArchives : review[a].outcome # "needs_review" =>
    /\ review[a].of = {} <=> review[a].outcome = "archive_only"
    /\ \A s \in Live(a) : ~selections[s].unsafe
    /\ \/ View(a) = review[a].of
       \/ /\ a = "source" /\ Live(a) = {}
          /\ \A p \in review[a].of : selections[p[1]].heir # Absent

(* A change sent twice under one mutation key is applied at most once, and *)
(* when it is applied it stops exactly the Encode Jobs its preview listed: *)
(* jobs queued or ended since the preview make the change refused, never   *)
(* applied to something the operator did not see.                          *)
AppliedOnceAsShown ==
  \A o \in Reviewers :
    /\ reviewer[o].times <= 1
    /\ reviewer[o].times = 1 =>
         reviewer[o].struck = {e[1] : e \in {x \in reviewer[o].req.evidence :
           x[3] = "queued" /\ reviewer[o].req.op \in {"correct", "accept"}}}
=============================================================================
