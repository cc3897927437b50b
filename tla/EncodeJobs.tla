----------------------------- MODULE EncodeJobs -----------------------------
(***************************************************************************)
(* The Encode Jobs of one output path: the queue rows the data access      *)
(* package keeps, the encode workers that claim them, write a partial      *)
(* file, publish it over the library's file, and the reconciliation that   *)
(* every poll of every worker runs over rows other executions left.        *)
(*                                                                         *)
(* All jobs name the same output path and belong to one archive, so every  *)
(* hazard of that path is here: a requeued job that replaces its own       *)
(* output, a corrected job that replaces its predecessor's, a cancelled    *)
(* job whose publication is half done.  A file is known by its inode: the  *)
(* claim token whose encoder wrote it, Original (in the library before any *)
(* of these claims) or Foreign (installed by another program).             *)
(***************************************************************************)
EXTENDS Integers, FiniteSets

CONSTANTS EncodeIds, EncodeWorkers,
          MaxEncodeClaims, MaxEncodeFaults, MaxForeign, MaxEncodeRequests

VARIABLES encodeJob,    \* the encode_jobs row of each job
          outputFile,   \* the names in the output directory and their inodes
          encoder,      \* claim token -> the process whose HandBrake writes it
          publisher,    \* each worker's program counter and locals
          outputLock,   \* holder of the flock of the mutation lock file
          catalogOpen,  \* the archive's catalog review is open
          keptOutputs,  \* history: inodes that were ever the accepted output
          encodeUsed    \* whose claim each token is, and the bounds: claims,
                        \* faults, foreign files and requests so far

encodeVars == <<encodeJob, outputFile, encoder, publisher, outputLock,
                catalogOpen, keptOutputs, encodeUsed>>

NoFile == 0
Claims == 1..MaxEncodeClaims
Original == MaxEncodeClaims + 1
Foreign == MaxEncodeClaims + 2
Inodes == 1..Foreign
Off == "off"
Nobody == "nobody"
Unfenced == "unfenced"

ASSUME EncodeConstants ==
  /\ MaxEncodeClaims \in Nat
  /\ EncodeWorkers \cap {Nobody, Off, Unfenced, "orphan", "mutation"} = {}

Row == [st |-> "absent", tok |-> 0, live |-> TRUE, res |-> FALSE, rep |-> FALSE,
        ident |-> NoFile, clean |-> 0, fence |-> Unfenced, pub |-> FALSE,
        pcp |-> FALSE, pred |-> 0, active |-> TRUE]
Idle == [pc |-> "idle", job |-> 0, tok |-> 0, base |-> NoFile, pend |-> FALSE,
         fence |-> Unfenced, put |-> FALSE, can |-> FALSE, bad |-> FALSE,
         keep |-> FALSE, seen |-> NoFile, was |-> Row]

\* One job is queued: a new one, or a completed one that was requeued to
\* replace its own output.
EncodeInit ==
  /\ \E first \in EncodeIds, old \in BOOLEAN :
       /\ encodeJob = [j \in EncodeIds |->
            IF j # first THEN Row
            ELSE [Row EXCEPT !.st = "queued", !.res = TRUE, !.rep = old]]
       /\ outputFile = [final |-> IF old THEN Original ELSE NoFile,
                        part |-> [t \in Claims |-> NoFile], prior |-> [t \in Claims |-> NoFile],
                        repl |-> [t \in Claims |-> NoFile], quar |-> [t \in Claims |-> NoFile],
                        aside |-> {}]
       /\ keptOutputs = IF old THEN {Original} ELSE {}
  /\ encoder = [t \in Claims |-> Off]
  /\ publisher = [w \in EncodeWorkers |-> Idle]
  /\ outputLock = Nobody
  /\ catalogOpen = FALSE
  /\ encodeUsed = [claims |-> 0, faults |-> 0, foreign |-> 0, asked |-> 0, of |-> [t \in Claims |-> 0]]

-----------------------------------------------------------------------------
(* Conditions of the rows and of the directory.                            *)

Releasable(r) == r.st \notin {"queued", "running"}
ReservationCheck(j, st) == encodeJob[j].res \/ st \notin {"queued", "running"}
Settled(r) == /\ r.st \in {"completed", "failed", "cancelled"} /\ r.clean = 0
              /\ r.fence = Unfenced /\ ~r.pub /\ ~r.pcp
\* (mutant) only a job at work keeps its path
PathIdle(j) == \A k \in EncodeIds \ {j} : encodeJob[k].st \notin {"queued", "running"}

PathFree(j) == \A k \in EncodeIds \ {j} : ~encodeJob[k].res
Replaced(j) == \E k \in EncodeIds : encodeJob[k].pred = j
ReplacementReserves(j) == \E k \in EncodeIds : encodeJob[k].pred = j /\ encodeJob[k].res
AttemptHolds(j, t) == encodeJob[j].st = "running" /\ encodeJob[j].tok = t /\ encodeJob[j].live
PublicationMatches(t) == outputFile.final = t /\ outputFile.part[t] = t

Aside(f, i) == [f EXCEPT !.aside = @ \cup ({i} \ {NoFile})]

Merge(old, new) == [f \in DOMAIN old |-> IF f \in DOMAIN new THEN new[f] ELSE old[f]]
UpdateRow(j, r) == encodeJob' = [encodeJob EXCEPT ![j] = Merge(@, r)]
Step(w, r) == publisher' = [publisher EXCEPT ![w] = Merge(@, r)]
Return(w) == /\ publisher' = [publisher EXCEPT ![w] = Idle]
             /\ outputLock' = IF outputLock = w THEN Nobody ELSE outputLock
Fault == /\ encodeUsed.faults < MaxEncodeFaults
         /\ encodeUsed' = [encodeUsed EXCEPT !.faults = @ + 1]

Asked == /\ encodeUsed.asked < MaxEncodeRequests
         /\ encodeUsed' = [encodeUsed EXCEPT !.asked = @ + 1]

-----------------------------------------------------------------------------
(* Requests of the operator and of the catalog.                            *)

CancelledRow(r) ==
  [r EXCEPT !.st = IF r.st = "running" THEN "cancellation_requested" ELSE "cancelled",
            !.res = IF r.st = "running" THEN TRUE ELSE r.rep \/ r.pred # 0]

EnqueueEncode(j) ==
  /\ Asked
  /\ encodeJob[j].st = "absent" /\ ~catalogOpen
  /\ PathFree(j)
  /\ UpdateRow(j, [st |-> "queued", res |-> TRUE])
  /\ UNCHANGED <<outputFile, encoder, publisher, outputLock, catalogOpen, keptOutputs>>

RequestEncodeCancellation(j) ==
  /\ Asked
  /\ encodeJob[j].st \in {"queued", "running"}
  /\ encodeJob' = [encodeJob EXCEPT ![j] = CancelledRow(@)]
  /\ UNCHANGED <<outputFile, encoder, publisher, outputLock, catalogOpen, keptOutputs>>

\* Requeueing keeps the job's own path; only a completed job, or one whose
\* replacement authority survived its failure, may replace the file there.
RequeueEncode(j) ==
  LET r == encodeJob[j] IN
  /\ Asked
  /\ r.st \in {"failed", "completed", "cancelled"}
  /\ r.clean = 0 /\ r.fence = Unfenced /\ ~r.pub
  /\ r.active /\ ~catalogOpen /\ PathFree(j)
  /\ UpdateRow(j, [st |-> "queued", res |-> TRUE, tok |-> 0, live |-> TRUE,
                   rep |-> r.st = "completed" \/ r.rep,
                   ident |-> IF r.st # "completed" /\ r.rep THEN r.ident ELSE NoFile])
  /\ UNCHANGED <<outputFile, encoder, publisher, outputLock, catalogOpen, keptOutputs>>

SupersedeSelection(j) ==
  LET r == encodeJob[j] IN
  /\ Asked
  /\ r.st # "absent" /\ r.active
  /\ encodeJob' = [encodeJob EXCEPT ![j] =
       [(IF r.st \in {"queued", "running"} THEN CancelledRow(r) ELSE r) EXCEPT !.active = FALSE]]
  /\ catalogOpen' = TRUE
  /\ UNCHANGED <<outputFile, encoder, publisher, outputLock, keptOutputs>>

\* releaseCorrectedFailedReservations: a failed job of a corrected selection
\* gives its path back once nothing of it is left on disk.
Released(r) == IF /\ r.st = "failed" /\ Settled(r) /\ ~r.rep /\ ~r.active
               THEN [r EXCEPT !.res = FALSE] ELSE r

CompleteReview ==
  /\ catalogOpen /\ catalogOpen' = FALSE
  /\ encodeJob' = [j \in EncodeIds |-> Released(encodeJob[j])]
  /\ UNCHANGED <<outputFile, encoder, publisher, outputLock, keptOutputs, encodeUsed>>

\* The table's check refuses to take the path from a predecessor that an
\* undone completion has put back to running.
CompleteReviewWithReplacement(j, k) ==
  LET p == encodeJob[j] IN
  /\ Asked
  /\ catalogOpen /\ catalogOpen' = FALSE
  /\ j # k /\ p.st # "absent" /\ Releasable(p) /\ ~p.active /\ ~Replaced(j)
  /\ encodeJob[k].st = "absent" /\ PathFree(j)
  /\ encodeJob' = [i \in EncodeIds |->
       CASE i = k -> [Row EXCEPT !.st = "queued", !.res = TRUE, !.pred = j,
                                 !.rep = p.st = "completed" \/ p.rep]
         [] i = j -> [Released(p) EXCEPT !.res = FALSE]
         [] OTHER -> Released(encodeJob[i])]
  /\ UNCHANGED <<outputFile, encoder, publisher, outputLock, keptOutputs>>

-----------------------------------------------------------------------------
(* One execution of a claim.                                               *)

ClaimEncode(w, j) ==
  LET r == encodeJob[j]  t == encodeUsed.claims + 1 IN
  /\ publisher[w].pc = "idle" /\ t \in Claims
  /\ r.st = "queued" /\ r.clean = 0 /\ r.fence = Unfenced
  /\ r.active /\ ~catalogOpen
  /\ r.pred # 0 => Settled(encodeJob[r.pred])
  /\ UpdateRow(j, [st |-> "running", tok |-> t, live |-> TRUE,
       rep |-> r.rep \/ (r.pred # 0 /\ (encodeJob[r.pred].st = "completed" \/ encodeJob[r.pred].rep))])
  /\ Step(w, [pc |-> "claimed", job |-> j, tok |-> t])
  /\ encodeUsed' = [encodeUsed EXCEPT !.claims = t, !.of[t] = j]
  /\ UNCHANGED <<outputFile, encoder, outputLock, catalogOpen, keptOutputs>>

Runs(w, at) == publisher[w].pc = at

\* The mutation lock, the checks of the file in place, the identity of the
\* file to be replaced, and the start of HandBrake.
PrepareEncode(w) ==
  LET p == publisher[w]  j == p.job  r == encodeJob[j]  here == outputFile.final IN
  /\ Runs(w, "claimed")
  /\ \/ /\ \/ outputLock # Nobody
           \/ here # NoFile /\ ~r.rep
           \/ here # NoFile /\ r.ident \notin {NoFile, here}
           \/ ~AttemptHolds(j, p.tok)
        /\ outputLock' = IF outputLock = Nobody THEN w ELSE outputLock
        /\ Step(w, [pc |-> "failing"])
        /\ UNCHANGED <<encodeJob, outputFile, encoder>>
     \/ /\ outputLock = Nobody /\ AttemptHolds(j, p.tok)
        /\ here # NoFile => r.rep /\ r.ident \in {NoFile, here}
        /\ outputLock' = w
        /\ UpdateRow(j, [ident |-> IF here = NoFile THEN r.ident ELSE here])
        /\ Step(w, [pc |-> "encoding", base |-> here])
        /\ outputFile' = [outputFile EXCEPT !.part[p.tok] = p.tok]
        /\ encoder' = [encoder EXCEPT ![p.tok] = w]
  /\ UNCHANGED <<catalogOpen, keptOutputs, encodeUsed>>

EncodeFinishes(w) ==
  /\ Runs(w, "encoding")
  /\ encoder' = [encoder EXCEPT ![publisher[w].tok] = Off]
  /\ Step(w, [pc |-> "validating"])
  /\ UNCHANGED <<encodeJob, outputFile, outputLock, catalogOpen, keptOutputs, encodeUsed>>

\* A command error, a timeout, a lost lease or a cancellation the heartbeat
\* saw: the claim is aborted while the encoder may still be running.
EncodeAborts(w) ==
  /\ Runs(w, "encoding")
  /\ Step(w, [pc |-> "failing"])
  /\ UNCHANGED <<encodeJob, outputFile, encoder, outputLock, catalogOpen, keptOutputs, encodeUsed>>

EncoderCloses(t) ==
  /\ encoder[t] # Off /\ ~\E w \in EncodeWorkers : Runs(w, "encoding") /\ publisher[w].tok = t
  /\ encoder' = [encoder EXCEPT ![t] = Off]
  /\ UNCHANGED <<encodeJob, outputFile, publisher, outputLock, catalogOpen, keptOutputs, encodeUsed>>

FailedRow(r, keep) == [r EXCEPT !.st = "failed", !.rep = keep /\ @,
                                !.ident = IF keep THEN @ ELSE NoFile]

\* retainValidationFailedOutput: the partial stays where it is, as an artifact.
RetainFailedOutput(w) ==
  LET p == publisher[w] IN
  /\ Runs(w, "validating")
  /\ AttemptHolds(p.job, p.tok) /\ outputFile.part[p.tok] = p.tok
  /\ encodeJob' = [encodeJob EXCEPT ![p.job] =
                     FailedRow(@, p.base # NoFile /\ outputFile.final = p.base)]
  /\ keptOutputs' = keptOutputs \cup {p.tok}
  /\ Return(w)
  /\ UNCHANGED <<outputFile, encoder, catalogOpen, encodeUsed>>

RegisterPublication(w) ==
  LET p == publisher[w] IN
  /\ Runs(w, "validating")
  /\ \/ /\ AttemptHolds(p.job, p.tok)
        /\ UpdateRow(p.job, [clean |-> p.tok, fence |-> Unfenced, pub |-> TRUE])
        /\ Step(w, [pc |-> "registered", pend |-> TRUE])
     \/ /\ ~AttemptHolds(p.job, p.tok)
        /\ Step(w, [pc |-> "failing"]) /\ UNCHANGED encodeJob
  /\ UNCHANGED <<outputFile, encoder, outputLock, catalogOpen, keptOutputs, encodeUsed>>

BeginPublication(w) ==
  LET p == publisher[w]  r == encodeJob[p.job]
      ok == /\ AttemptHolds(p.job, p.tok) /\ r.pub /\ r.clean = p.tok /\ r.fence = Unfenced
            /\ p.base # NoFile => outputFile.final = p.base IN
  /\ Runs(w, "registered")
  /\ \/ /\ ok
        /\ UpdateRow(p.job, [fence |-> "mutation"])
        /\ Step(w, [pc |-> "fenced", fence |-> "mutation"])
     \/ /\ ~ok /\ Step(w, [pc |-> "failing"]) /\ UNCHANGED encodeJob
  /\ UNCHANGED <<outputFile, encoder, outputLock, catalogOpen, keptOutputs, encodeUsed>>

\* (mutant) the file in place gets no second name before the exchange
StageWithoutPrior(t, base) == [outputFile EXCEPT !.repl[t] = t]

StageReplacement(t, base) == [outputFile EXCEPT !.prior[t] = base, !.repl[t] = t]

\* With no file in place the partial is linked there; otherwise the file in
\* place and the partial each get a second name before the exchange.
StagePublication(w) ==
  LET p == publisher[w]  t == p.tok IN
  /\ Runs(w, "fenced")
  /\ \/ /\ p.base = NoFile /\ outputFile.final = NoFile
        /\ outputFile' = [outputFile EXCEPT !.final = t]
        /\ Step(w, [pc |-> "published", put |-> TRUE])
     \/ /\ p.base # NoFile /\ outputFile.final = p.base
        /\ outputFile' = StageReplacement(t, p.base)
        /\ Step(w, [pc |-> "staged"])
     \/ /\ outputFile.final # p.base
        /\ Step(w, [pc |-> "failing"]) /\ UNCHANGED outputFile
  /\ UNCHANGED <<encodeJob, encoder, outputLock, catalogOpen, keptOutputs, encodeUsed>>

ExchangeOutput(w) ==
  LET t == publisher[w].tok IN
  /\ Runs(w, "staged")
  /\ outputFile' = [outputFile EXCEPT !.final = t, !.repl[t] = outputFile.final]
  /\ Step(w, [pc |-> "exchanged"])
  /\ UNCHANGED <<encodeJob, encoder, outputLock, catalogOpen, keptOutputs, encodeUsed>>

\* Where the exchange is not supported: a rename, after a last look.
RenameOutput(w) ==
  LET p == publisher[w] IN
  /\ Runs(w, "staged")
  /\ \/ /\ outputFile.final = p.base
        /\ outputFile' = [outputFile EXCEPT !.final = p.tok, !.repl[p.tok] = NoFile]
        /\ Step(w, [pc |-> "published", put |-> TRUE]) /\ UNCHANGED outputLock
     \/ /\ outputFile.final # p.base
        /\ Return(w) /\ UNCHANGED outputFile
  /\ UNCHANGED <<encodeJob, encoder, catalogOpen, keptOutputs, encodeUsed>>

\* The displaced file is looked at: one that is not the expected file is
\* exchanged back into its place.
InspectExchange(w) ==
  LET p == publisher[w]  t == p.tok IN
  /\ Runs(w, "exchanged")
  /\ \/ /\ outputFile.repl[t] = p.base /\ outputFile.final = t
        /\ outputFile' = [outputFile EXCEPT !.repl[t] = NoFile]
        /\ Step(w, [pc |-> "published", put |-> TRUE]) /\ UNCHANGED outputLock
     \/ /\ outputFile.repl[t] # p.base /\ outputFile.final = t
        /\ outputFile' = [outputFile EXCEPT !.final = outputFile.repl[t], !.repl[t] = t]
        /\ Step(w, [pc |-> "failing"]) /\ UNCHANGED outputLock
     \/ /\ outputFile.final # t
        /\ Return(w) /\ UNCHANGED outputFile
  /\ UNCHANGED <<encodeJob, encoder, catalogOpen, keptOutputs, encodeUsed>>

-----------------------------------------------------------------------------
(* Completion of a published output, by its own execution or by another.   *)

\* (mutant) the status and the pending publication are not looked at again
OwnsPublicationByFence(j, t, fence, sts) ==
  encodeJob[j].clean = t /\ encodeJob[j].fence = fence

OwnsPublication(j, t, fence, sts) ==
  LET r == encodeJob[j] IN r.st \in sts /\ r.pub /\ r.clean = t /\ r.fence = fence

CompletePublished(w) ==
  LET p == publisher[w] IN
  /\ Runs(w, "published")
  /\ \/ /\ PublicationMatches(p.tok)
        /\ OwnsPublication(p.job, p.tok, p.fence, {"running"}) /\ encodeJob[p.job].tok = p.tok
        /\ UpdateRow(p.job, [st |-> "completed", pcp |-> TRUE, live |-> TRUE])
        /\ Step(w, [pc |-> "completing", was |-> [Row EXCEPT !.st = "failed"]])
        /\ UNCHANGED outputLock
     \/ /\ PublicationMatches(p.tok)
        /\ ~(OwnsPublication(p.job, p.tok, p.fence, {"running"}) /\ encodeJob[p.job].tok = p.tok)
        /\ Step(w, [pc |-> "failing"]) /\ UNCHANGED <<encodeJob, outputLock>>
     \/ ~PublicationMatches(p.tok) /\ Return(w) /\ UNCHANGED encodeJob
  /\ UNCHANGED <<outputFile, encoder, catalogOpen, keptOutputs, encodeUsed>>

FinalRow(r) == [r EXCEPT !.rep = FALSE, !.ident = NoFile, !.pcp = FALSE]

\* The second look and the final transaction.  What was changed between the
\* two is undone: to failed by the execution itself, to the row as it was
\* by a reconciliation ("was") - unless a correction took the reservation in
\* between and the table's check refuses a running row without it.
FinalizePublished(w) ==
  LET p == publisher[w]  j == p.job
      owned == OwnsPublication(j, p.tok, p.fence, {"completed"}) /\ encodeJob[j].pcp IN
  /\ Runs(w, "completing")
  /\ \/ /\ PublicationMatches(p.tok) /\ owned
        /\ encodeJob' = [encodeJob EXCEPT ![j] = FinalRow(@)]
        /\ keptOutputs' = keptOutputs \cup {p.tok}
        /\ Step(w, [pc |-> "discarding"]) /\ UNCHANGED outputLock
     \/ /\ ~PublicationMatches(p.tok) /\ owned /\ ReservationCheck(j, p.was.st)
        /\ UpdateRow(j, [st |-> p.was.st, pcp |-> p.was.pcp])
        /\ Return(w) /\ UNCHANGED keptOutputs
     \/ /\ ~owned \/ (~PublicationMatches(p.tok) /\ ~ReservationCheck(j, p.was.st))
        /\ Return(w) /\ UNCHANGED <<encodeJob, keptOutputs>>
  /\ UNCHANGED <<outputFile, encoder, catalogOpen, encodeUsed>>

DiscardPartial(w) ==
  /\ Runs(w, "discarding")
  /\ outputFile' = [outputFile EXCEPT !.part[publisher[w].tok] = NoFile]
  /\ Step(w, [pc |-> "cleaning"])
  /\ UNCHANGED <<encodeJob, encoder, outputLock, catalogOpen, keptOutputs, encodeUsed>>

CleanedRow(r) ==
  [r EXCEPT !.st = IF r.pcp THEN "failed" ELSE @, !.clean = 0, !.fence = Unfenced,
            !.pub = FALSE, !.pcp = FALSE,
            !.res = @ /\ ~(r.st = "failed" /\ ~r.rep /\ ~r.active /\ ~catalogOpen)]

\* completePartialCleanup, by whoever holds the row's cleanup provenance.
CompleteCleanup(w) ==
  LET p == publisher[w]  r == encodeJob[p.job] IN
  /\ Runs(w, "cleaning")
  /\ encodeJob' = IF r.clean = p.tok /\ r.fence = p.fence
                  THEN [encodeJob EXCEPT ![p.job] = CleanedRow(@)] ELSE encodeJob
  /\ IF p.can THEN Step(w, [pc |-> "cancelling", pend |-> FALSE]) /\ UNCHANGED outputLock
     ELSE Return(w)
  /\ UNCHANGED <<outputFile, encoder, catalogOpen, keptOutputs, encodeUsed>>

-----------------------------------------------------------------------------
(* The failure path of an execution.                                       *)

\* A cancellation is noticed only under a live lease, and waits for HandBrake.
NoticeCancellation(w) ==
  LET p == publisher[w]  r == encodeJob[p.job]
      asked == r.st = "cancellation_requested" /\ r.tok = p.tok /\ r.live IN
  /\ Runs(w, "failing")
  /\ asked => encoder[p.tok] = Off
  /\ Step(w, [pc |-> IF p.put THEN "revoking" ELSE "unstaging", can |-> asked])
  /\ UNCHANGED <<encodeJob, outputFile, encoder, outputLock, catalogOpen, keptOutputs, encodeUsed>>

RevokePublication(w) ==
  LET p == publisher[w]  r == encodeJob[p.job]
      ok == /\ OwnsPublication(p.job, p.tok, p.fence, {"running", "cancellation_requested"})
            /\ r.tok = p.tok /\ r.live IN
  /\ Runs(w, "revoking")
  /\ \/ /\ ok /\ UpdateRow(p.job, [pub |-> FALSE])
        /\ Step(w, [pc |-> "rollback"]) /\ UNCHANGED outputLock
     \/ ~ok /\ Return(w) /\ UNCHANGED encodeJob
  /\ UNCHANGED <<outputFile, encoder, catalogOpen, keptOutputs, encodeUsed>>

RollbackOutput(w) ==
  LET p == publisher[w]  t == p.tok IN
  /\ Runs(w, "rollback")
  /\ \/ /\ outputFile.final = t /\ outputFile.quar[t] = NoFile
        /\ outputFile' = [outputFile EXCEPT !.final = NoFile, !.quar[t] = t]
        /\ Step(w, [pc |-> "restoring"])
     \/ /\ outputFile.final # t \/ outputFile.quar[t] # NoFile
        /\ Step(w, [pc |-> "restoring", bad |-> outputFile.final = t]) /\ UNCHANGED outputFile
  /\ UNCHANGED <<encodeJob, encoder, outputLock, catalogOpen, keptOutputs, encodeUsed>>

RestorePrior(w) ==
  LET p == publisher[w]  had == outputFile.prior[p.tok] IN
  /\ Runs(w, "restoring")
  /\ \/ /\ had # NoFile /\ outputFile.final = NoFile
        /\ outputFile' = [outputFile EXCEPT !.final = had]
        /\ Step(w, [pc |-> "settling", keep |-> TRUE])
     \/ /\ had = NoFile \/ outputFile.final # NoFile
        /\ Step(w, [pc |-> "settling", bad |-> p.bad \/ had # NoFile]) /\ UNCHANGED outputFile
  /\ UNCHANGED <<encodeJob, encoder, outputLock, catalogOpen, keptOutputs, encodeUsed>>

\* Nothing was published: the staged link is dropped, or moved aside when it
\* is not the worker's.
UnstageOutput(w) ==
  LET p == publisher[w]  t == p.tok  link == outputFile.repl[t] IN
  /\ Runs(w, "unstaging")
  /\ outputFile' = [(IF link = t THEN outputFile ELSE Aside(outputFile, link))
                      EXCEPT !.repl[t] = NoFile]
  /\ Step(w, [pc |-> "settling", keep |-> p.base # NoFile /\ outputFile.final = p.base])
  /\ UNCHANGED <<encodeJob, encoder, outputLock, catalogOpen, keptOutputs, encodeUsed>>

\* The partial of an unregistered attempt is moved aside, or registered for
\* cleanup while its encoder still writes.
SettlePartial(w) ==
  LET p == publisher[w]  t == p.tok
      after == IF p.can THEN (IF p.pend /\ ~p.bad THEN "quarantining" ELSE "cancelling")
               ELSE "reporting" IN
  /\ Runs(w, "settling")
  /\ \/ /\ ~p.pend /\ encoder[t] = w /\ AttemptHolds(p.job, t)
        /\ UpdateRow(p.job, [clean |-> t, fence |-> Unfenced, pub |-> FALSE])
        /\ Step(w, [pc |-> after, pend |-> TRUE]) /\ UNCHANGED outputFile
     \/ /\ ~p.pend /\ encoder[t] = w /\ ~AttemptHolds(p.job, t)
        /\ Step(w, [pc |-> after, bad |-> TRUE]) /\ UNCHANGED <<encodeJob, outputFile>>
     \/ /\ ~p.pend /\ encoder[t] # w
        /\ outputFile' = [Aside(outputFile, outputFile.part[t]) EXCEPT !.part[t] = NoFile]
        /\ Step(w, [pc |-> after]) /\ UNCHANGED encodeJob
     \/ /\ p.pend /\ Step(w, [pc |-> after]) /\ UNCHANGED <<encodeJob, outputFile>>
  /\ UNCHANGED <<encoder, outputLock, catalogOpen, keptOutputs, encodeUsed>>

ReportFailure(w) ==
  LET p == publisher[w] IN
  /\ Runs(w, "reporting")
  /\ encodeJob' = IF AttemptHolds(p.job, p.tok)
                  THEN [encodeJob EXCEPT ![p.job] = FailedRow(@, p.keep)] ELSE encodeJob
  /\ IF p.pend /\ encoder[p.tok] # w
     THEN Step(w, [pc |-> "quarantining"]) /\ UNCHANGED outputLock ELSE Return(w)
  /\ UNCHANGED <<outputFile, encoder, catalogOpen, keptOutputs, encodeUsed>>

QuarantinePartial(w) ==
  LET t == publisher[w].tok IN
  /\ Runs(w, "quarantining")
  /\ \/ /\ encoder[t] # w
        /\ outputFile' = [Aside(outputFile, outputFile.part[t]) EXCEPT !.part[t] = NoFile]
        /\ Step(w, [pc |-> "cleaning"]) /\ UNCHANGED outputLock
     \/ encoder[t] = w /\ Return(w) /\ UNCHANGED outputFile
  /\ UNCHANGED <<encodeJob, encoder, catalogOpen, keptOutputs, encodeUsed>>

ReleasedByCancel(j, r) == IF ReplacementReserves(j) THEN FALSE ELSE r.rep
\* The unique index refuses a cancelled row that would take its path back from
\* a job its own replacement handed it on to.
CancelTransactionHolds(j, r) == ReleasedByCancel(j, r) => PathFree(j)

CompleteCancellation(w) ==
  LET p == publisher[w]  r == encodeJob[p.job]
      ok == /\ r.st = "cancellation_requested" /\ r.tok = p.tok /\ ~r.pub /\ ~r.pcp
            /\ IF p.bad THEN r.live ELSE r.clean = 0 /\ r.fence = Unfenced
            /\ CancelTransactionHolds(p.job, r) IN
  /\ Runs(w, "cancelling")
  /\ encodeJob' = IF ok THEN [encodeJob EXCEPT ![p.job] =
                      [r EXCEPT !.st = "cancelled", !.res = ReleasedByCancel(p.job, r), !.tok = 0,
                                !.clean = IF p.bad THEN p.tok ELSE 0, !.fence = Unfenced]]
                  ELSE encodeJob
  /\ Return(w)
  /\ UNCHANGED <<outputFile, encoder, catalogOpen, keptOutputs, encodeUsed>>

-----------------------------------------------------------------------------
(* Reconciliation: five passes over the rows other executions left.        *)

\* Pass 1 takes no mutation lock: a publication that can be seen is completed.
ReconcileActive(w, j) ==
  LET r == encodeJob[j] IN
  /\ publisher[w].pc = "idle"
  /\ r.st = "running" /\ r.clean # 0 /\ r.fence # Unfenced /\ r.pub
  /\ outputFile.repl[r.clean] = NoFile /\ PublicationMatches(r.clean)
  /\ UpdateRow(j, [st |-> "completed", pcp |-> TRUE, live |-> TRUE])
  /\ Step(w, [pc |-> "completing", job |-> j, tok |-> r.clean, fence |-> r.fence, was |-> r])
  /\ UNCHANGED <<outputFile, encoder, outputLock, catalogOpen, keptOutputs, encodeUsed>>

\* (mutant) only rows that are still running with a live lease are looked for
NeverAbandoned(r) == FALSE

AbandonedMutation(r) == r.st = "running" /\ r.clean # 0 /\ r.fence # Unfenced /\ ~r.live

RecoverAbandonedMutation(w, j) ==
  LET r == encodeJob[j] IN
  /\ publisher[w].pc = "idle" /\ outputLock = Nobody
  /\ AbandonedMutation(r)
  /\ UpdateRow(j, [st |-> "failed", fence |-> Unfenced, live |-> TRUE])
  /\ UNCHANGED <<outputFile, encoder, publisher, outputLock, catalogOpen, keptOutputs, encodeUsed>>

Expired(r) == r.st = "running" /\ r.fence = Unfenced /\ ~r.live

RecoverExpiredClaims(w) ==
  /\ publisher[w].pc = "idle" /\ \E j \in EncodeIds : Expired(encodeJob[j])
  /\ encodeJob' = [j \in EncodeIds |-> LET r == encodeJob[j] IN
       IF Expired(r) THEN [r EXCEPT !.st = "failed", !.clean = r.tok, !.live = TRUE] ELSE r]
  /\ UNCHANGED <<outputFile, encoder, publisher, outputLock, catalogOpen, keptOutputs, encodeUsed>>

\* (mutant) the encoder is taken to have died with its worker
RequireInactiveAssumed(t) == TRUE

RequireInactive(t) == encoder[t] = Off

RecoverCancellation(w, j) ==
  LET r == encodeJob[j] IN
  /\ publisher[w].pc = "idle" /\ outputLock = Nobody
  /\ r.st = "cancellation_requested" /\ ~r.live /\ RequireInactive(r.tok)
  /\ CancelTransactionHolds(j, r)
  /\ UpdateRow(j, [st |-> "cancelled", res |-> ReleasedByCancel(j, r), clean |-> r.tok,
                   fence |-> Unfenced, pub |-> FALSE, pcp |-> FALSE, tok |-> 0, live |-> TRUE])
  /\ UNCHANGED <<outputFile, encoder, publisher, outputLock, catalogOpen, keptOutputs, encodeUsed>>

\* Pass 5 lists the row and looks at the final, partial, prior and staged
\* files before it holds the mutation lock; the row and the final file it
\* saw are what it decides with.
ListPendingCleanup(w, j) ==
  LET r == encodeJob[j] IN
  /\ publisher[w].pc = "idle"
  /\ r.st \in {"failed", "completed", "cancelled"} /\ r.clean # 0
  /\ Step(w, [pc |-> "listed", job |-> j, tok |-> r.clean, fence |-> r.fence, was |-> r,
              seen |-> outputFile.final, base |-> outputFile.prior[r.clean],
              keep |-> outputFile.part[r.clean] # NoFile,
              put |-> outputFile.repl[r.clean] \notin
                        {NoFile, outputFile.part[r.clean], outputFile.prior[r.clean]}])
  /\ UNCHANGED <<encodeJob, outputFile, encoder, outputLock, catalogOpen, keptOutputs, encodeUsed>>

LockPendingCleanup(w) ==
  LET p == publisher[w]  t == p.tok  q == outputFile.quar[t] IN
  /\ Runs(w, "listed")
  /\ \/ outputLock # Nobody /\ Return(w) /\ UNCHANGED outputFile
     \/ /\ outputLock = Nobody /\ q \in {NoFile, outputFile.final, outputFile.part[t]}
        /\ outputFile' = [outputFile EXCEPT !.quar[t] = NoFile]
        /\ outputLock' = w /\ Step(w, [pc |-> "deciding"])
     \/ /\ outputLock = Nobody /\ q \notin {NoFile, outputFile.final, outputFile.part[t]}
        /\ outputFile.final = NoFile
        /\ outputFile' = [outputFile EXCEPT !.quar[t] = NoFile, !.final = q]
        /\ outputLock' = w /\ Step(w, [pc |-> "deciding", seen |-> q])
     \/ /\ outputLock = Nobody /\ q \notin {NoFile, outputFile.final, outputFile.part[t]}
        /\ outputFile.final # NoFile /\ Return(w) /\ UNCHANGED outputFile
  /\ UNCHANGED <<encodeJob, encoder, catalogOpen, keptOutputs, encodeUsed>>

SawMatch(p) == p.keep /\ p.seen = p.tok
CleanedLink(t) == LET link == outputFile.repl[t] IN
  [(IF link \in {t, outputFile.prior[t]} THEN outputFile ELSE Aside(outputFile, link))
     EXCEPT !.repl[t] = NoFile]

\* A foreign file displaced by the exchange is exchanged back.
ReturnDisplaced(w) ==
  LET p == publisher[w]  t == p.tok
      ok == /\ OwnsPublication(p.job, t, p.fence, {"failed", "completed"})
            /\ outputFile.final = p.seen IN
  /\ Runs(w, "deciding") /\ SawMatch(p) /\ p.put
  /\ \/ /\ ok
        /\ outputFile' = [outputFile EXCEPT !.final = outputFile.repl[t], !.repl[t] = NoFile]
        /\ UpdateRow(p.job, [fence |-> IF p.fence = Unfenced THEN w ELSE p.fence, live |-> TRUE])
        /\ Step(w, [pc |-> "quarantining", fence |-> IF p.fence = Unfenced THEN w ELSE p.fence])
        /\ UNCHANGED outputLock
     \/ ~ok /\ Return(w) /\ UNCHANGED <<encodeJob, outputFile>>
  /\ UNCHANGED <<encoder, catalogOpen, keptOutputs, encodeUsed>>

\* completePublishedPartial: a publication a crash left is completed.
ReplayPublication(w) ==
  LET p == publisher[w]  t == p.tok
      ok == OwnsPublication(p.job, t, p.fence, {"failed", "completed"}) /\ PublicationMatches(t)
      lease == IF p.fence = Unfenced THEN w ELSE p.fence IN
  /\ Runs(w, "deciding") /\ SawMatch(p) /\ ~p.put /\ p.was.pub
  /\ outputFile' = CleanedLink(t)
  /\ \/ /\ ok
        /\ UpdateRow(p.job, [st |-> "completed", pcp |-> TRUE, fence |-> lease, live |-> TRUE])
        /\ Step(w, [pc |-> "completing", fence |-> lease, was |-> encodeJob[p.job]])
        /\ UNCHANGED outputLock
     \/ ~ok /\ Return(w) /\ UNCHANGED encodeJob
  /\ UNCHANGED <<encoder, catalogOpen, keptOutputs, encodeUsed>>

\* A published file whose publication was revoked is taken back.
WithdrawOutput(w) ==
  LET p == publisher[w]  t == p.tok  r == encodeJob[p.job]
      ok == /\ r.st \in {"failed", "completed", "cancelled"} /\ r.clean = t /\ ~r.pub
            /\ r.fence = Unfenced \/ ~r.live
            /\ outputFile.final = p.seen /\ outputFile.quar[t] = NoFile IN
  /\ Runs(w, "deciding") /\ SawMatch(p) /\ ~p.put /\ ~p.was.pub
  /\ \/ /\ ok
        /\ outputFile' = [CleanedLink(t) EXCEPT !.final = NoFile, !.quar[t] = p.seen]
        /\ UpdateRow(p.job, [fence |-> w, live |-> TRUE])
        /\ Step(w, [pc |-> "returning", fence |-> w]) /\ UNCHANGED outputLock
     \/ ~ok /\ Return(w) /\ outputFile' = CleanedLink(t) /\ UNCHANGED encodeJob
  /\ UNCHANGED <<encoder, catalogOpen, keptOutputs, encodeUsed>>

ReturnPrior(w) ==
  LET p == publisher[w]  had == outputFile.prior[p.tok] IN
  /\ Runs(w, "returning")
  /\ \/ /\ had # NoFile /\ outputFile.final = NoFile
        /\ outputFile' = [outputFile EXCEPT !.final = had]
        /\ Step(w, [pc |-> "discarding"]) /\ UNCHANGED outputLock
     \/ had = NoFile /\ Step(w, [pc |-> "discarding"]) /\ UNCHANGED <<outputFile, outputLock>>
     \/ had # NoFile /\ outputFile.final # NoFile /\ Return(w) /\ UNCHANGED outputFile
  /\ UNCHANGED <<encodeJob, encoder, catalogOpen, keptOutputs, encodeUsed>>

\* Nothing of this claim is published: the prior file is put back if its
\* place is empty, and the partial is moved aside.
DropPartial(w) ==
  LET p == publisher[w]  t == p.tok  lost == p.seen = NoFile /\ p.base # NoFile IN
  /\ Runs(w, "deciding") /\ ~SawMatch(p)
  /\ \/ /\ lost => outputFile.final = NoFile
        /\ outputFile' = IF lost THEN [CleanedLink(t) EXCEPT !.final = p.base] ELSE CleanedLink(t)
        /\ Step(w, [pc |-> "quarantining"]) /\ UNCHANGED outputLock
     \/ /\ lost /\ outputFile.final # NoFile
        /\ Return(w) /\ outputFile' = CleanedLink(t)
  /\ UNCHANGED <<encodeJob, encoder, catalogOpen, keptOutputs, encodeUsed>>

-----------------------------------------------------------------------------
(* What the environment may do.                                            *)

Alive(t) == t # 0 /\ \E w \in EncodeWorkers : publisher[w].tok = t

\* The lease ends: free once its holder is gone, a fault while it still runs
\* (a paused process, a stalled disk).
LeaseExpires(j) ==
  LET r == encodeJob[j] IN
  /\ r.live /\ (r.st \in {"running", "cancellation_requested"} \/ r.fence # Unfenced)
  /\ IF Alive(r.tok) \/ (r.clean # 0 /\ Alive(r.clean)) THEN Fault ELSE UNCHANGED encodeUsed
  /\ UpdateRow(j, [live |-> FALSE])
  /\ UNCHANGED <<outputFile, encoder, publisher, outputLock, catalogOpen, keptOutputs>>

\* An I/O error or a shutdown in the publication phase.
PublicationInterrupted(w) ==
  /\ publisher[w].pc \in {"registered", "fenced", "published"}
  /\ Fault /\ Step(w, [pc |-> "failing"])
  /\ UNCHANGED <<encodeJob, outputFile, encoder, outputLock, catalogOpen, keptOutputs>>

EncodeWorkerCrashes(w) ==
  /\ publisher[w].pc # "idle"
  /\ Fault /\ Return(w)
  /\ encoder' = [t \in Claims |-> IF encoder[t] = w THEN "orphan" ELSE encoder[t]]
  /\ UNCHANGED <<encodeJob, outputFile, catalogOpen, keptOutputs>>

ForeignOutput ==
  /\ encodeUsed.foreign < MaxForeign /\ encodeUsed.asked < MaxEncodeRequests
  /\ outputFile.final # Foreign
  /\ outputFile' = [outputFile EXCEPT !.final = Foreign]
  /\ keptOutputs' = (keptOutputs \ {outputFile.final}) \cup {Foreign}
  /\ encodeUsed' = [encodeUsed EXCEPT !.foreign = @ + 1, !.asked = @ + 1]
  /\ UNCHANGED <<encodeJob, encoder, publisher, outputLock, catalogOpen>>

EncodeWork(w) ==
  \/ PrepareEncode(w) \/ EncodeFinishes(w) \/ RegisterPublication(w) \/ BeginPublication(w)
  \/ StagePublication(w) \/ ExchangeOutput(w) \/ InspectExchange(w) \/ CompletePublished(w)
  \/ FinalizePublished(w) \/ DiscardPartial(w) \/ CompleteCleanup(w) \/ NoticeCancellation(w)
  \/ RevokePublication(w) \/ RollbackOutput(w) \/ RestorePrior(w) \/ UnstageOutput(w)
  \/ SettlePartial(w) \/ ReportFailure(w) \/ QuarantinePartial(w) \/ CompleteCancellation(w)
  \/ LockPendingCleanup(w) \/ ReturnDisplaced(w) \/ ReplayPublication(w) \/ WithdrawOutput(w)
  \/ ReturnPrior(w) \/ DropPartial(w)

EncodeReconcile(w) ==
  \/ RecoverExpiredClaims(w)
  \/ \E j \in EncodeIds : \/ ReconcileActive(w, j) \/ RecoverAbandonedMutation(w, j)
                          \/ RecoverCancellation(w, j) \/ ListPendingCleanup(w, j)

EncodeNext ==
  \/ \E j \in EncodeIds : \/ EnqueueEncode(j) \/ RequestEncodeCancellation(j) \/ RequeueEncode(j)
                          \/ SupersedeSelection(j) \/ LeaseExpires(j)
  \/ CompleteReview \/ \E j, k \in EncodeIds : CompleteReviewWithReplacement(j, k)
  \/ \E w \in EncodeWorkers : \/ EncodeWork(w) \/ EncodeReconcile(w)
                              \/ EncodeAborts(w) \/ RetainFailedOutput(w) \/ RenameOutput(w)
                              \/ PublicationInterrupted(w) \/ EncodeWorkerCrashes(w)
                              \/ \E j \in EncodeIds : ClaimEncode(w, j)
  \/ \E t \in Claims : EncoderCloses(t)
  \/ ForeignOutput

EncodeSpec == EncodeInit /\ [][EncodeNext]_encodeVars

-----------------------------------------------------------------------------
(* Properties.                                                             *)

EncodeTypeOK ==
  /\ \A j \in EncodeIds :
       /\ encodeJob[j].st \in {"absent", "queued", "running", "cancellation_requested",
                              "completed", "failed", "cancelled"}
       /\ encodeJob[j].tok \in Claims \cup {0} /\ encodeJob[j].clean \in Claims \cup {0}
       /\ encodeJob[j].ident \in Inodes \cup {NoFile} /\ encodeJob[j].pred \in EncodeIds \cup {0}
  /\ outputFile.final \in Inodes \cup {NoFile} /\ outputFile.aside \subseteq Inodes
  /\ outputLock \in EncodeWorkers \cup {Nobody} /\ keptOutputs \subseteq Inodes
  /\ encoder \in [Claims -> EncodeWorkers \cup {Off, "orphan"}]

Linked(i) == \/ outputFile.final = i \/ i \in outputFile.aside
             \/ \E t \in Claims : i \in {outputFile.part[t], outputFile.prior[t],
                                       outputFile.repl[t], outputFile.quar[t]}

\* Publication, rollback and recovery, crashed at any step and run by two
\* workers at once, never remove the last name of a file that was the
\* accepted output, of one another program put there, or of a retained
\* artifact (publishReplacementAtMutationBoundary, reconcilePendingPublications).
OutputsSurvive == \A i \in keptOutputs : Linked(i)

\* A finished job that still owns the path has its own output there: no late
\* publisher, rollback or recovery of an older attempt, of this job or of
\* its predecessor, displaces it (unless another program did).
CompletedInPlace ==
  encodeUsed.foreign = 0 =>
    \A j \in EncodeIds : LET r == encodeJob[j] IN
      r.st = "completed" /\ ~r.pcp /\ r.res =>
        outputFile.final \in Claims /\ encodeUsed.of[outputFile.final] = j

\* The rows satisfy the table's unique index on the reserved path and its
\* checks: cancelling, correcting, requeueing and recovering interleave
\* without two rows owning the path or a row losing what its state needs.
EncodeRowsLegal ==
  /\ \A j, k \in EncodeIds : encodeJob[j].res /\ encodeJob[k].res => j = k
  /\ \A j \in EncodeIds : LET r == encodeJob[j] IN
       /\ ReservationCheck(j, r.st)
       /\ r.ident # NoFile => r.rep
       /\ r.pub \/ r.fence # Unfenced => r.clean # 0
       /\ r.pcp => r.pub

\* A cancelled job's encoder is closed before its row says cancelled, on the
\* worker's own path and on the recovery of a dead worker's claim: the path
\* may be reserved by another job from then on.
CancelClosesEncoder ==
  [][\A j \in EncodeIds :
       encodeJob[j].st = "cancellation_requested" /\ encodeJob'[j].st = "cancelled"
         => encoder[encodeJob[j].tok] = Off]_encodeVars


\* The one end no later poll gets past: the worker died after a rollback put
\* the prior file back and its partial was moved aside, and before the cleanup
\* was acknowledged.  The quarantined copy then matches neither file.
Stranded(j) == LET t == encodeJob[j].clean IN
  /\ t # 0 /\ outputFile.quar[t] = t /\ outputFile.part[t] = NoFile
  /\ outputFile.final \notin {NoFile, t}

\* Whatever crashed, every claim reaches a terminal row with nothing left to
\* clean up: a half published output is completed or taken back (or stranded
\* in the window above, which needs a second look by a person).
EncodeSettles ==
  \A j \in EncodeIds :
    (encodeJob[j].st \in {"running", "cancellation_requested"} \/ encodeJob[j].clean # 0)
      ~> \/ encodeJob[j].st \notin {"running", "cancellation_requested"} /\ encodeJob[j].clean = 0
         \/ Stranded(j)
=============================================================================
