---------------------------- MODULE EncodeProofs ----------------------------
(***************************************************************************)
(* Of the Encode Jobs, for any jobs, workers, claims and budgets: their    *)
(* rows satisfy the table's constraints, a cancelled job's encoder is      *)
(* closed before its row says cancelled, and a finished job's output stays *)
(* in its place.                                                           *)
(*                                                                         *)
(* A claim's token names one job for good, so every row can be followed by *)
(* itself (RowSound, Own); an action changes one row, and either keeps it  *)
(* sound and takes neither token nor path (Keeps), or takes the path while *)
(* it is free, or is the claim, whose token is new.  A worker in the       *)
(* middle of an execution knows what its claim is and which of its steps   *)
(* need the mutation lock (Knows), and no two execute one claim            *)
(* (OneWorker): whoever settles a cancellation is the one that saw the     *)
(* encoder close.                                                          *)
(*                                                                         *)
(* For the files (Inv2, last part): a claim that has not got the lock has  *)
(* written nothing (UnusedClaims); the worker that stages knows what every *)
(* name of its claim is (Staging) and that no row claims the path          *)
(* (NoneInPlace); a row whose publication is being taken back stays as it  *)
(* is (Revoked).                                                           *)
(* A step of a worker only touches the names of its own claim (Touch), and *)
(* changes a row in a way that matters in six places only (Calm, Bold).    *)
(***************************************************************************)
EXTENDS EncodeJobs, TLAPS

EncodeStates == {"absent", "queued", "running", "cancellation_requested",
                 "completed", "failed", "cancelled"}
Files == Inodes \cup {NoFile}
EncodeFences == EncodeWorkers \cup {Unfenced, "mutation"}
EncodeRows == [st : EncodeStates, tok : Claims \cup {0}, live : BOOLEAN, res : BOOLEAN,
               rep : BOOLEAN, ident : Files, clean : Claims \cup {0}, fence : EncodeFences,
               pub : BOOLEAN, pcp : BOOLEAN, pred : EncodeIds \cup {0}, active : BOOLEAN]
Early == {"claimed", "encoding", "validating", "registered"}
Pre == {"fenced", "staged", "exchanged"}
Executing == Early \cup Pre \cup {"published", "failing", "revoking", "rollback",
               "restoring", "unstaging", "settling", "reporting", "cancelling"}
Steps == Executing \cup {"idle", "completing", "discarding", "cleaning", "quarantining",
               "listed", "deciding", "returning"}
Publishers == [pc : Steps, job : EncodeIds \cup {0}, tok : Claims \cup {0}, base : Files,
               pend : BOOLEAN, fence : EncodeFences, put : BOOLEAN, can : BOOLEAN,
               bad : BOOLEAN, keep : BOOLEAN, seen : Files, was : EncodeRows]
Outputs == [final : Files, part : [Claims -> Files], prior : [Claims -> Files],
            repl : [Claims -> Files], quar : [Claims -> Files], aside : SUBSET Inodes]
Used == [claims : 0..MaxEncodeClaims, faults : Nat, foreign : Nat, asked : Nat,
         of : [Claims -> EncodeIds \cup {0}]]

Typed ==
  /\ encodeJob \in [EncodeIds -> EncodeRows]
  /\ outputFile \in Outputs
  /\ encoder \in [Claims -> EncodeWorkers \cup {Off, "orphan"}]
  /\ publisher \in [EncodeWorkers -> Publishers]
  /\ outputLock \in EncodeWorkers \cup {Nobody}
  /\ catalogOpen \in BOOLEAN
  /\ keptOutputs \subseteq Inodes
  /\ encodeUsed \in Used

-----------------------------------------------------------------------------
(* The inductive invariant.                                                *)

Open == {"running", "cancellation_requested"}

\* What one row by itself obeys.
RowSound(r) ==
  /\ r \in EncodeRows
  /\ r.st \in {"queued", "running"} => r.res
  /\ r.ident # NoFile => r.rep
  /\ r.pub \/ r.fence # Unfenced => r.clean # 0
  /\ r.pcp => r.pub /\ r.st = "completed"
  /\ r.st \in Open => r.tok # 0
  /\ r.st \in {"absent", "queued"} => r.tok = 0 /\ r.clean = 0 /\ r.fence = Unfenced
  /\ r.clean # 0 /\ r.st # "cancelled" => r.tok = r.clean
  /\ r.st = "completed" /\ r.clean # 0 => r.pub

\* The claims a row names are its job's.
Own(j, r, used) ==
  /\ r.tok <= used.claims /\ r.clean <= used.claims
  /\ r.tok # 0 => used.of[r.tok] = j
  /\ r.clean # 0 => used.of[r.clean] = j

\* A change of a row keeps it sound, and takes neither a token nor the path.
Keeps(r, q) == /\ RowSound(q)
               /\ q.tok \in {0, r.tok} /\ q.clean \in {0, r.clean, r.tok}
               /\ q.res => r.res

Rows == /\ encodeJob \in [EncodeIds -> EncodeRows]
        /\ \A j \in EncodeIds : RowSound(encodeJob[j]) /\ Own(j, encodeJob[j], encodeUsed)
        /\ \A j, k \in EncodeIds : encodeJob[j].res /\ encodeJob[k].res => j = k

KeepsUsed == encodeUsed'.claims = encodeUsed.claims /\ encodeUsed'.of = encodeUsed.of

Pc(w) == publisher[w].pc
Tok(w) == publisher[w].tok
Completing(w) == Pc(w) = "completing"

\* At work on its own claim; the others clean up after somebody.
WorksOnClaim(w) == Pc(w) \in Executing \/ publisher[w].can

\* The steps taken with the mutation lock held.
Holding == {"encoding", "validating", "registered", "fenced", "staged", "exchanged",
            "published", "revoking", "rollback", "restoring", "deciding", "returning"}

\* What one worker knows of its claim.
Knows(w) == LET p == publisher[w] IN
  /\ p.tok <= encodeUsed.claims
  /\ p.pc = "idle" => p = Idle /\ outputLock # w
  /\ p.pc # "idle" => p.tok # 0 /\ p.job \in EncodeIds /\ encodeUsed.of[p.tok] = p.job
  /\ p.pc = "completing" =>
       /\ p.was.st \in {"running", "failed", "completed"}
       /\ p.was.pcp => p.was.st = "completed"
       /\ outputLock = w \/ p.was.st = "running"
  /\ p.can => /\ p.pc \in {"revoking", "rollback", "restoring", "unstaging", "settling",
                           "quarantining", "cleaning", "cancelling"}
              /\ encoder[p.tok] = Off
  /\ p.pc = "cancelling" => p.can
  /\ p.pc \in Early \cup Pre => ~p.put
  /\ p.pc \in Pre => p.fence = "mutation"
  /\ p.pc \in {"published", "revoking", "rollback", "restoring"} => p.put
  /\ p.pc \in {"published", "failing", "revoking", "rollback", "restoring"} /\ p.put
       => p.fence = "mutation" /\ outputLock = w
  /\ p.pc \in Holding => outputLock = w

OneWorker == \A w, v \in EncodeWorkers :
  WorksOnClaim(w) /\ WorksOnClaim(v) /\ Tok(w) = Tok(v) => w = v

Inv1 == Typed /\ Rows /\ (\A w \in EncodeWorkers : Knows(w)) /\ OneWorker

-----------------------------------------------------------------------------
LEMMA RowsKept ==
  ASSUME Rows, KeepsUsed, encodeJob' \in [EncodeIds -> EncodeRows], encodeUsed \in Used,
         \A j \in EncodeIds : encodeJob'[j] = encodeJob[j] \/ Keeps(encodeJob[j], encodeJob'[j])
  PROVE  Rows'
<1>1. ASSUME NEW j \in EncodeIds PROVE RowSound(encodeJob'[j]) /\ Own(j, encodeJob'[j], encodeUsed')
  <2>1. RowSound(encodeJob[j]) /\ Own(j, encodeJob[j], encodeUsed)
    BY DEF Rows
  <2>2. encodeUsed.claims \in Nat
    BY EncodeConstants DEF Used
  <2>. QED
    BY <2>1, <2>2 DEF Keeps, Own, KeepsUsed
<1>2. \A j \in EncodeIds : encodeJob'[j].res => encodeJob[j].res
  BY DEF Keeps
<1>. QED
  BY <1>1, <1>2 DEF Rows

LEMMA RowChanged ==
  ASSUME Rows, KeepsUsed, encodeUsed \in Used, NEW j \in EncodeIds, NEW q,
         encodeJob' = [encodeJob EXCEPT ![j] = q], Keeps(encodeJob[j], q)
  PROVE  Rows'
<1>1. encodeJob' \in [EncodeIds -> EncodeRows]
  BY DEF Rows, Keeps, RowSound
<1>. QED
  BY <1>1, RowsKept DEF Rows

LEMMA RowTaken ==
  ASSUME Rows, encodeUsed \in Used, KeepsUsed, NEW j \in EncodeIds, NEW q, PathFree(j),
         encodeJob' = [encodeJob EXCEPT ![j] = q], RowSound(q), 
         q.tok \in {0, encodeJob[j].tok}, q.clean \in {0, encodeJob[j].clean, encodeJob[j].tok}
  PROVE  Rows'
<1>1. encodeJob' \in [EncodeIds -> EncodeRows]
  BY DEF Rows, RowSound
<1>2. encodeUsed.claims \in Nat
  BY EncodeConstants DEF Used
<1>3. Own(j, q, encodeUsed')
  BY <1>2 DEF Rows, Own, KeepsUsed
<1>4. \A k \in EncodeIds \ {j} : Own(k, encodeJob[k], encodeUsed') /\ ~encodeJob'[k].res
  BY DEF Rows, Own, KeepsUsed, PathFree
<1>. QED
  BY <1>1, <1>3, <1>4 DEF Rows

\* Each change an action makes to a row.
LEMMA CancelledKeeps ==
  ASSUME NEW r, RowSound(r), r.st \in {"queued", "running"}
  PROVE  Keeps(r, CancelledRow(r))
  BY DEF RowSound, CancelledRow, EncodeRows, EncodeStates, Open, Keeps

LEMMA SupersededKeeps ==
  ASSUME NEW r, RowSound(r)
  PROVE  Keeps(r, [(IF r.st \in {"queued", "running"} THEN CancelledRow(r) ELSE r)
                     EXCEPT !.active = FALSE])
<1>1. ASSUME NEW q, RowSound(q), Keeps(r, q) PROVE Keeps(r, [q EXCEPT !.active = FALSE])
  <2> DEFINE s == [q EXCEPT !.active = FALSE]
  <2>1. /\ q \in EncodeRows /\ s \in EncodeRows
        /\ s.st = q.st /\ s.tok = q.tok /\ s.live = q.live /\ s.res = q.res /\ s.rep = q.rep
        /\ s.ident = q.ident /\ s.clean = q.clean /\ s.fence = q.fence /\ s.pub = q.pub
        /\ s.pcp = q.pcp
    BY <1>1 DEF RowSound, EncodeRows
  <2>2. RowSound(s)
    <3> HIDE DEF s
    <3>. QED
      BY <1>1, <2>1 DEF RowSound
  <2>. QED
    BY <1>1, <2>1, <2>2 DEF Keeps
<1>2. Keeps(r, r)
  BY DEF RowSound, Keeps, EncodeRows
<1>3. CASE r.st \in {"queued", "running"}
  <2>1. RowSound(CancelledRow(r)) /\ Keeps(r, CancelledRow(r))
    BY <1>3, CancelledKeeps DEF Keeps
  <2>. QED
    BY <1>1, <1>3, <2>1
<1>4. CASE r.st \notin {"queued", "running"}
  BY <1>1, <1>2, <1>4
<1>. QED
  BY <1>3, <1>4

LEMMA ReleasedKeeps ==
  ASSUME NEW r, RowSound(r)
  PROVE  Keeps(r, Released(r))
<1>1. CASE Released(r) = r
  BY <1>1 DEF RowSound, Keeps, EncodeRows
<1>2. CASE r.st = "failed" /\ Released(r) = [r EXCEPT !.res = FALSE]
  BY <1>2 DEF RowSound, EncodeRows, EncodeStates, Open, Keeps
<1>. QED
  BY <1>1, <1>2 DEF Released

LEMMA RequeuedSound ==
  ASSUME NEW r, RowSound(r), r.clean = 0, r.fence = Unfenced, ~r.pub, NEW b \in BOOLEAN, NEW i \in Files,
         i # NoFile => b
  PROVE  LET q == Merge(r, [st |-> "queued", res |-> TRUE, tok |-> 0, live |-> TRUE, rep |-> b, ident |-> i])
         IN  RowSound(q) /\ q.tok = 0 /\ q.clean = 0
  BY DEF RowSound, Merge, EncodeRows, EncodeStates, Open

LEMMA EnqueuedSound ==
  ASSUME NEW r, RowSound(r), r.st = "absent"
  PROVE  LET q == Merge(r, [st |-> "queued", res |-> TRUE])
         IN  RowSound(q) /\ q.tok = 0 /\ q.clean = 0
  BY DEF RowSound, Merge, EncodeRows, EncodeStates, Open

LEMMA LeaseKeeps ==
  ASSUME NEW r, RowSound(r)
  PROVE  Keeps(r, Merge(r, [live |-> FALSE]))
  BY DEF RowSound, Merge, EncodeRows, Keeps

LEMMA IdentKeeps ==
  ASSUME NEW r, RowSound(r), NEW i \in Files, i # NoFile => r.rep
  PROVE  Keeps(r, Merge(r, [ident |-> i]))
  BY DEF RowSound, Merge, EncodeRows, Keeps

LEMMA FailedKeeps ==
  ASSUME NEW r, RowSound(r), r.st = "running", NEW keep \in BOOLEAN
  PROVE  Keeps(r, FailedRow(r, keep))
  BY DEF RowSound, FailedRow, EncodeRows, EncodeStates, Open, Keeps, Files

LEMMA RegisteredKeeps ==
  ASSUME NEW r, RowSound(r), r.st = "running", NEW b \in BOOLEAN
  PROVE  Keeps(r, Merge(r, [clean |-> r.tok, fence |-> Unfenced, pub |-> b]))
  BY DEF RowSound, Merge, EncodeRows, EncodeStates, Open, EncodeFences, Keeps

LEMMA FencedKeeps ==
  ASSUME NEW r, RowSound(r), r.clean # 0, NEW f \in EncodeFences
  PROVE  Keeps(r, Merge(r, [fence |-> f])) /\ Keeps(r, Merge(r, [fence |-> f, live |-> TRUE]))
<1>1. Keeps(r, Merge(r, [fence |-> f]))
  <2> DEFINE q == Merge(r, [fence |-> f])
  <2>1. /\ q \in EncodeRows /\ q.tok = r.tok /\ q.clean = r.clean /\ q.st = r.st /\ q.fence = f
        /\ q.pub = r.pub /\ q.pcp = r.pcp /\ q.ident = r.ident /\ q.rep = r.rep /\ q.res = r.res
    BY DEF RowSound, Merge, EncodeRows
  <2>. HIDE DEF q
  <2>2. Keeps(r, q)
    BY <2>1 DEF RowSound, Keeps
  <2>. QED
    BY <2>2 DEF q
<1>2. Keeps(r, Merge(r, [fence |-> f, live |-> TRUE]))
  <2> DEFINE q == Merge(r, [fence |-> f, live |-> TRUE])
  <2>1. /\ q \in EncodeRows /\ q.tok = r.tok /\ q.clean = r.clean /\ q.st = r.st /\ q.fence = f
        /\ q.pub = r.pub /\ q.pcp = r.pcp /\ q.ident = r.ident /\ q.rep = r.rep /\ q.res = r.res
    BY DEF RowSound, Merge, EncodeRows
  <2>. HIDE DEF q
  <2>2. Keeps(r, q)
    BY <2>1 DEF RowSound, Keeps
  <2>. QED
    BY <2>2 DEF q
<1>. QED
  BY <1>1, <1>2

LEMMA CompletedKeeps ==
  ASSUME NEW r, RowSound(r), r.st \in {"running", "failed", "completed"}, r.pub, NEW f \in EncodeFences
  PROVE  /\ Keeps(r, Merge(r, [st |-> "completed", pcp |-> TRUE, live |-> TRUE]))
         /\ Keeps(r, Merge(r, [st |-> "completed", pcp |-> TRUE, fence |-> f, live |-> TRUE]))
<1>1. Keeps(r, Merge(r, [st |-> "completed", pcp |-> TRUE, live |-> TRUE]))
  BY ZenonT(60) DEF RowSound, Merge, EncodeRows, EncodeStates, Open, EncodeFences, Keeps
<1>2. Keeps(r, Merge(r, [st |-> "completed", pcp |-> TRUE, fence |-> f, live |-> TRUE]))
  BY DEF RowSound, Merge, EncodeRows, EncodeStates, Open, EncodeFences, Keeps
<1>. QED
  BY <1>1, <1>2

LEMMA FinalKeeps ==
  ASSUME NEW r, RowSound(r), r.st = "completed"
  PROVE  Keeps(r, FinalRow(r))
  BY DEF RowSound, FinalRow, EncodeRows, EncodeStates, Open, Keeps, Files

LEMMA UndoneKeeps ==
  ASSUME NEW r, RowSound(r), r.st = "completed", r.pcp, NEW st \in {"running", "failed", "completed"},
         NEW b \in BOOLEAN, b => st = "completed", st = "running" => r.res
  PROVE  Keeps(r, Merge(r, [st |-> st, pcp |-> b]))
  BY DEF RowSound, Merge, EncodeRows, EncodeStates, Open, Keeps

LEMMA CleanedKeeps ==
  ASSUME NEW r, RowSound(r), catalogOpen \in BOOLEAN
  PROVE  Keeps(r, CleanedRow(r))
<1> DEFINE b == r.res /\ ~(r.st = "failed" /\ ~r.rep /\ ~r.active /\ ~catalogOpen)
           st == IF r.pcp THEN "failed" ELSE r.st
           q == [r EXCEPT !.st = st, !.clean = 0, !.fence = Unfenced, !.pub = FALSE, !.pcp = FALSE, !.res = b]
<1>1. CleanedRow(r) = q
  BY DEF CleanedRow
<1>2. b \in BOOLEAN /\ (b => r.res) /\ (r.st \in {"queued", "running"} /\ r.res => b)
      /\ st \in EncodeStates
      /\ (st = r.st \/ (st = "failed" /\ r.st = "completed"))
  BY DEF RowSound, EncodeRows, EncodeStates
<1>. HIDE DEF b, st
<1>3. /\ q \in EncodeRows /\ q.tok = r.tok /\ q.clean = 0 /\ q.st = st /\ q.fence = Unfenced
      /\ ~q.pub /\ ~q.pcp /\ q.ident = r.ident /\ q.rep = r.rep /\ q.res = b
  BY <1>2 DEF RowSound, EncodeRows, EncodeFences
<1>. HIDE DEF q
<1>4. Keeps(r, q)
  BY <1>2, <1>3 DEF RowSound, Keeps, Open
<1>. QED
  BY <1>1, <1>4

LEMMA RevokedKeeps ==
  ASSUME NEW r, RowSound(r), r.st \in Open
  PROVE  Keeps(r, Merge(r, [pub |-> FALSE]))
  BY DEF RowSound, Merge, EncodeRows, EncodeStates, Open, Keeps

Withdrawn(r, b, c) ==
  [r EXCEPT !.st = "cancelled", !.res = b, !.tok = 0, !.clean = c, !.fence = Unfenced]

LEMMA CancelledSound ==
  ASSUME NEW r, RowSound(r), r.st = "cancellation_requested", ~r.pub, ~r.pcp, NEW b \in BOOLEAN,
         NEW c \in {0, r.tok}
  PROVE  LET q == Withdrawn(r, b, c) IN RowSound(q) /\ q.tok = 0 /\ q.clean = c /\ q.res = b
  BY DEF Withdrawn, RowSound, EncodeRows, EncodeStates, Open, EncodeFences

LEMMA RecoveredSound ==
  ASSUME NEW r, RowSound(r), r.st = "cancellation_requested", NEW b \in BOOLEAN
  PROVE  LET q == Merge(r, [st |-> "cancelled", res |-> b, clean |-> r.tok, fence |-> Unfenced,
                            pub |-> FALSE, pcp |-> FALSE, tok |-> 0, live |-> TRUE])
         IN  RowSound(q) /\ q.tok = 0 /\ q.clean = r.tok /\ q.res = b
  BY DEF RowSound, Merge, EncodeRows, EncodeStates, Open, EncodeFences

LEMMA ExpiredKeeps ==
  ASSUME NEW r, RowSound(r), r.st = "running"
  PROVE  /\ Keeps(r, Merge(r, [st |-> "failed", fence |-> Unfenced, live |-> TRUE]))
         /\ Keeps(r, [r EXCEPT !.st = "failed", !.clean = r.tok, !.live = TRUE])
  BY DEF RowSound, Merge, EncodeRows, EncodeStates, Open, EncodeFences, Keeps

LEMMA ClaimedSound ==
  ASSUME NEW r, RowSound(r), r.st = "queued", NEW t \in Claims, NEW b \in BOOLEAN, r.rep => b
  PROVE  LET q == Merge(r, [st |-> "running", tok |-> t, live |-> TRUE, rep |-> b])
         IN  RowSound(q) /\ q.tok = t /\ q.clean = 0 /\ q.res
<1> DEFINE q == Merge(r, [st |-> "running", tok |-> t, live |-> TRUE, rep |-> b])
<1>1. t # 0
  BY EncodeConstants DEF Claims
<1>2. /\ q \in EncodeRows /\ q.tok = t /\ q.clean = r.clean /\ q.st = "running" /\ q.fence = r.fence
      /\ q.pub = r.pub /\ q.pcp = r.pcp /\ q.ident = r.ident /\ q.rep = b /\ q.res = r.res
  BY DEF RowSound, Merge, EncodeRows, EncodeStates
<1>. HIDE DEF q
<1>3. RowSound(q) /\ q.tok = t /\ q.clean = 0 /\ q.res
  BY <1>1, <1>2 DEF RowSound, Open, EncodeRows
<1>. QED
  BY <1>3 DEF q

LEMMA ReplacementSound ==
  ASSUME NEW j \in EncodeIds, NEW b \in BOOLEAN
  PROVE  LET q == [Row EXCEPT !.st = "queued", !.res = TRUE, !.pred = j, !.rep = b]
         IN  RowSound(q) /\ q.tok = 0 /\ q.clean = 0
  BY DEF RowSound, Row, EncodeRows, EncodeStates, Open, Files, EncodeFences

LEMMA SupplantedKeeps ==
  ASSUME NEW r, RowSound(r), Releasable(r)
  PROVE  LET q == [Released(r) EXCEPT !.res = FALSE] IN Keeps(r, q) /\ ~q.res
<1>1. Released(r) = r \/ Released(r) = [r EXCEPT !.res = FALSE]
  BY DEF Released
<1>2. [[r EXCEPT !.res = FALSE] EXCEPT !.res = FALSE] = [r EXCEPT !.res = FALSE]
  BY DEF RowSound, EncodeRows
<1>3. Keeps(r, [r EXCEPT !.res = FALSE]) /\ ~[r EXCEPT !.res = FALSE].res
  BY DEF RowSound, EncodeRows, EncodeStates, Open, Keeps, Releasable
<1>. QED
  BY <1>1, <1>2, <1>3

LEMMA RowsOfRequests ==
  ASSUME Rows, encodeUsed \in Used, NEW j \in EncodeIds,
         \/ EnqueueEncode(j) \/ RequestEncodeCancellation(j) \/ RequeueEncode(j)
         \/ SupersedeSelection(j) \/ LeaseExpires(j)
  PROVE  Rows'
<1> DEFINE r == encodeJob[j]
<1>1. RowSound(r)
  BY DEF Rows
<1>2. KeepsUsed
  BY DEF KeepsUsed, EnqueueEncode, RequestEncodeCancellation, RequeueEncode, SupersedeSelection,
         LeaseExpires, Asked, Fault, Used
<1>3. CASE EnqueueEncode(j)
  BY <1>1, <1>2, <1>3, EnqueuedSound, RowTaken DEF EnqueueEncode, UpdateRow
<1>4. CASE RequestEncodeCancellation(j)
  BY <1>1, <1>2, <1>4, CancelledKeeps, RowChanged DEF RequestEncodeCancellation
<1>5. CASE RequeueEncode(j)
  <2> DEFINE b == r.st = "completed" \/ r.rep
             i == IF r.st # "completed" /\ r.rep THEN r.ident ELSE NoFile
             q == Merge(r, [st |-> "queued", res |-> TRUE, tok |-> 0, live |-> TRUE, rep |-> b, ident |-> i])
  <2>1. b \in BOOLEAN /\ i \in Files /\ (i # NoFile => b)
    BY <1>1 DEF RowSound, EncodeRows, Files
  <2>2. r.clean = 0 /\ r.fence = Unfenced /\ ~r.pub /\ PathFree(j) /\ encodeJob' = [encodeJob EXCEPT ![j] = q]
    BY <1>5 DEF RequeueEncode, UpdateRow
  <2> HIDE DEF b, i
  <2>3. RowSound(q) /\ q.tok = 0 /\ q.clean = 0
    BY <1>1, <2>1, <2>2, RequeuedSound
  <2>. QED
    BY <1>2, <2>2, <2>3, RowTaken
<1>6. CASE SupersedeSelection(j)
  BY <1>1, <1>2, <1>6, SupersededKeeps, RowChanged DEF SupersedeSelection
<1>7. CASE LeaseExpires(j)
  BY <1>1, <1>2, <1>7, LeaseKeeps, RowChanged DEF LeaseExpires, UpdateRow
<1>. QED
  BY <1>3, <1>4, <1>5, <1>6, <1>7

Fits(r) ==
  /\ "pc" \in DOMAIN r => r["pc"] \in Steps
  /\ "job" \in DOMAIN r => r["job"] \in EncodeIds \cup {0}
  /\ "tok" \in DOMAIN r => r["tok"] \in Claims \cup {0}
  /\ "base" \in DOMAIN r => r["base"] \in Files
  /\ "pend" \in DOMAIN r => r["pend"] \in BOOLEAN
  /\ "fence" \in DOMAIN r => r["fence"] \in EncodeFences
  /\ "put" \in DOMAIN r => r["put"] \in BOOLEAN
  /\ "can" \in DOMAIN r => r["can"] \in BOOLEAN
  /\ "bad" \in DOMAIN r => r["bad"] \in BOOLEAN
  /\ "keep" \in DOMAIN r => r["keep"] \in BOOLEAN
  /\ "seen" \in DOMAIN r => r["seen"] \in Files
  /\ "was" \in DOMAIN r => r["was"] \in EncodeRows

LEMMA StepFits ==
  ASSUME publisher \in [EncodeWorkers -> Publishers], NEW w \in EncodeWorkers, NEW r,
         Step(w, r), Fits(r)
  PROVE  publisher' \in [EncodeWorkers -> Publishers]
<1>1. ASSUME NEW p \in Publishers PROVE Merge(p, r) \in Publishers
  BY DEF Merge, Publishers, Fits
<1>. QED
  BY <1>1 DEF Step

LEMMA Blank ==
  /\ Row \in EncodeRows /\ Idle \in Publishers
  /\ NoFile \in Files /\ Claims \subseteq Files /\ Claims \subseteq Inodes
  /\ Foreign \in Inodes /\ Foreign \in Files /\ Foreign \notin Claims /\ NoFile \notin Claims
  /\ NoFile \notin Inodes
<1>1. MaxEncodeClaims \in Nat
  BY EncodeConstants
<1>2. /\ NoFile \in Files /\ Claims \subseteq Files /\ Claims \subseteq Inodes
      /\ Foreign \in Inodes /\ Foreign \in Files /\ Foreign \notin Claims
      /\ NoFile \notin Claims /\ NoFile \notin Inodes
  BY <1>1 DEF NoFile, Files, Claims, Inodes, Foreign
<1>3. Row \in EncodeRows
  BY <1>2 DEF Row, EncodeRows, EncodeStates, EncodeFences
<1>. QED
  BY <1>2, <1>3 DEF Idle, Publishers, Steps, EncodeFences

LEMMA AtWork ==
  ASSUME Typed, NEW w \in EncodeWorkers, Knows(w), Pc(w) # "idle"
  PROVE  /\ publisher[w] \in Publishers /\ publisher[w].tok \in Claims
         /\ publisher[w].job \in EncodeIds /\ encodeJob[publisher[w].job] \in EncodeRows
  BY DEF Typed, Knows, Publishers, Pc

(* Every change of a worker fits its type.                                 *)
LEMMA StepsFit ==
  /\ \A x \in Steps : Fits([pc |-> x])
  /\ \A x \in Steps, b \in BOOLEAN :
       /\ Fits([pc |-> x, pend |-> b]) /\ Fits([pc |-> x, put |-> b])
       /\ Fits([pc |-> x, can |-> b]) /\ Fits([pc |-> x, bad |-> b])
       /\ Fits([pc |-> x, keep |-> b])
  /\ \A x \in Steps, f \in EncodeFences : Fits([pc |-> x, fence |-> f])
  /\ \A x \in Steps, i \in Files : Fits([pc |-> x, base |-> i]) /\ Fits([pc |-> x, seen |-> i])
  /\ \A x \in Steps, r \in EncodeRows : Fits([pc |-> x, was |-> r])
  /\ \A x \in Steps, f \in EncodeFences, r \in EncodeRows :
       Fits([pc |-> x, fence |-> f, was |-> r])
  /\ \A x \in Steps, j \in EncodeIds, t \in Claims : Fits([pc |-> x, job |-> j, tok |-> t])
  /\ \A x \in Steps, j \in EncodeIds, t \in Claims, f \in EncodeFences, r \in EncodeRows :
       /\ Fits([pc |-> x, job |-> j, tok |-> t, fence |-> f, was |-> r])
       /\ \A i, k \in Files, b, c \in BOOLEAN :
            Fits([pc |-> x, job |-> j, tok |-> t, fence |-> f, was |-> r,
                  seen |-> i, base |-> k, keep |-> b, put |-> c])
  BY DEF Fits

LEMMA KnownSteps ==
  /\ {"encoding", "validating", "failing", "registered", "fenced", "staged", "exchanged",
      "published", "completing", "discarding", "cleaning", "cancelling", "claimed",
      "revoking", "unstaging", "rollback", "restoring", "settling", "quarantining",
      "reporting", "listed", "deciding", "returning", "idle"} \subseteq Steps
  /\ EncodeWorkers \subseteq EncodeFences /\ {Unfenced, "mutation"} \subseteq EncodeFences
  BY DEF Steps, Executing, Early, Pre, EncodeFences

LEMMA ReturnFits ==
  ASSUME Typed, NEW w \in EncodeWorkers, Return(w)
  PROVE  /\ publisher' \in [EncodeWorkers -> Publishers]
         /\ outputLock' \in EncodeWorkers \cup {Nobody}
  BY Blank DEF Typed, Return

LEMMA WorkersTyped1 ==
  ASSUME Typed, NEW w \in EncodeWorkers, Knows(w),
         \/ PrepareEncode(w) \/ EncodeFinishes(w) \/ EncodeAborts(w) \/ RetainFailedOutput(w)
         \/ RegisterPublication(w) \/ BeginPublication(w) \/ StagePublication(w)
         \/ ExchangeOutput(w) \/ RenameOutput(w) \/ InspectExchange(w)
         \/ DiscardPartial(w) \/ CompleteCleanup(w)
         \/ PublicationInterrupted(w) \/ EncodeWorkerCrashes(w)
  PROVE  publisher' \in [EncodeWorkers -> Publishers]
<1>1. publisher \in [EncodeWorkers -> Publishers] /\ outputFile.final \in Files
  BY DEF Typed, Outputs
<1> USE <1>1, StepsFit, KnownSteps, StepFits, ReturnFits
<1>2. CASE PrepareEncode(w)
  BY <1>2 DEF PrepareEncode
<1>3. CASE EncodeFinishes(w) \/ EncodeAborts(w) \/ RetainFailedOutput(w) \/ RegisterPublication(w)
  BY <1>3 DEF EncodeFinishes, EncodeAborts, RetainFailedOutput, RegisterPublication
<1>4. CASE BeginPublication(w) \/ StagePublication(w) \/ ExchangeOutput(w)
  BY <1>4 DEF BeginPublication, StagePublication, ExchangeOutput
<1>5. CASE RenameOutput(w) \/ InspectExchange(w) \/ DiscardPartial(w)
  BY <1>5 DEF RenameOutput, InspectExchange, DiscardPartial
<1>6. CASE CompleteCleanup(w) \/ PublicationInterrupted(w) \/ EncodeWorkerCrashes(w)
  BY <1>6 DEF CompleteCleanup, PublicationInterrupted, EncodeWorkerCrashes
<1>. QED
  BY <1>2, <1>3, <1>4, <1>5, <1>6

LEMMA WorkersTyped2 ==
  ASSUME Typed, NEW w \in EncodeWorkers, Knows(w),
         \/ NoticeCancellation(w) \/ RevokePublication(w) \/ RollbackOutput(w)
         \/ RestorePrior(w) \/ UnstageOutput(w) \/ SettlePartial(w) \/ ReportFailure(w)
         \/ QuarantinePartial(w) \/ CompleteCancellation(w)
         \/ CompletePublished(w) \/ FinalizePublished(w)
  PROVE  publisher' \in [EncodeWorkers -> Publishers]
<1>1. publisher \in [EncodeWorkers -> Publishers] /\ outputFile.final \in Files
  BY DEF Typed, Outputs
<1> USE <1>1, StepsFit, KnownSteps, StepFits, ReturnFits
<1>2. CASE NoticeCancellation(w)
  BY <1>2 DEF NoticeCancellation
<1>3. CASE RevokePublication(w) \/ RollbackOutput(w)
  BY <1>3 DEF RevokePublication, RollbackOutput
<1>4. CASE RestorePrior(w)
  <2>1. publisher[w].bad \in BOOLEAN
    BY DEF Publishers
  <2>. QED
    BY <1>4, <2>1 DEF RestorePrior
<1>5. CASE UnstageOutput(w)
  BY <1>5 DEF UnstageOutput
<1>6. CASE SettlePartial(w)
  BY <1>6 DEF SettlePartial
<1>7. CASE ReportFailure(w) \/ QuarantinePartial(w) \/ CompleteCancellation(w)
  BY <1>7 DEF ReportFailure, QuarantinePartial, CompleteCancellation
<1>8. CASE CompletePublished(w)
  <2>1. [Row EXCEPT !.st = "failed"] \in EncodeRows
    BY Blank DEF EncodeRows, EncodeStates
  <2>. QED
    BY <1>8, <2>1 DEF CompletePublished
<1>9. CASE FinalizePublished(w)
  BY <1>9 DEF FinalizePublished
<1>. QED
  BY <1>2, <1>3, <1>4, <1>5, <1>6, <1>7, <1>8, <1>9

LEMMA WorkersTyped3 ==
  ASSUME Typed, NEW w \in EncodeWorkers, Knows(w), NEW j \in EncodeIds,
         \/ ReconcileActive(w, j) \/ ListPendingCleanup(w, j) \/ LockPendingCleanup(w)
         \/ ReturnDisplaced(w) \/ ReplayPublication(w) \/ WithdrawOutput(w)
         \/ ReturnPrior(w) \/ DropPartial(w) \/ ClaimEncode(w, j)
  PROVE  publisher' \in [EncodeWorkers -> Publishers]
<1>1. /\ publisher \in [EncodeWorkers -> Publishers] /\ outputFile.final \in Files
      /\ encodeJob[j] \in EncodeRows
  BY DEF Typed, Outputs
<1> USE <1>1, StepsFit, KnownSteps, StepFits, ReturnFits
<1>2. CASE ReconcileActive(w, j)
  <2>1. encodeJob[j].clean \in Claims /\ encodeJob[j].fence \in EncodeFences
    BY <1>2 DEF ReconcileActive, EncodeRows
  <2>. QED
    BY <1>2, <2>1 DEF ReconcileActive
<1>3. CASE ListPendingCleanup(w, j)
  <2>1. encodeJob[j].clean \in Claims /\ encodeJob[j].fence \in EncodeFences
    BY <1>3 DEF ListPendingCleanup, EncodeRows
  <2>2. outputFile.prior[encodeJob[j].clean] \in Files
    BY <2>1 DEF Typed, Outputs
  <2> DEFINE r == encodeJob[j]
             Listed(keep, put) ==
               [pc |-> "listed", job |-> j, tok |-> r.clean, fence |-> r.fence, was |-> r,
                seen |-> outputFile.final, base |-> outputFile.prior[r.clean],
                keep |-> keep, put |-> put]
  <2>3. \A keep, put \in BOOLEAN : Fits(Listed(keep, put))
    BY <2>1, <2>2 DEF Fits
  <2> DEFINE keeps == outputFile.part[r.clean] # NoFile
             puts == outputFile.repl[r.clean] \notin
                       {NoFile, outputFile.part[r.clean], outputFile.prior[r.clean]}
  <2>4. keeps \in BOOLEAN /\ puts \in BOOLEAN
    OBVIOUS
  <2>5. Step(w, Listed(keeps, puts))
    BY <1>3 DEF ListPendingCleanup
  <2> HIDE DEF keeps, puts
  <2>. QED
    BY <2>3, <2>4, <2>5
<1>4. CASE LockPendingCleanup(w)
  <2>1. outputFile.quar[publisher[w].tok] \in Files
    BY <1>4, AtWork DEF LockPendingCleanup, Runs, Pc, Typed, Outputs
  <2>. QED
    BY <1>4, <2>1 DEF LockPendingCleanup
<1>5. CASE ReturnDisplaced(w) \/ WithdrawOutput(w) \/ ReplayPublication(w)
  <2>1. /\ publisher[w].job \in EncodeIds /\ encodeJob[publisher[w].job] \in EncodeRows
        /\ publisher[w].fence \in EncodeFences
    BY <1>5, AtWork DEF ReturnDisplaced, WithdrawOutput, ReplayPublication, Runs, Pc, Publishers
  <2>2. (IF publisher[w].fence = Unfenced THEN w ELSE publisher[w].fence) \in EncodeFences
    BY <2>1
  <2>3. CASE ReturnDisplaced(w)
    BY <2>2, <2>3 DEF ReturnDisplaced
  <2>4. CASE WithdrawOutput(w)
    BY <2>4 DEF WithdrawOutput
  <2>5. CASE ReplayPublication(w)
    BY <2>1, <2>2, <2>5 DEF ReplayPublication
  <2>. QED
    BY <1>5, <2>3, <2>4, <2>5
<1>6. CASE ReturnPrior(w) \/ DropPartial(w)
  BY <1>6 DEF ReturnPrior, DropPartial
<1>7. CASE ClaimEncode(w, j)
  BY <1>7 DEF ClaimEncode
<1>. QED
  BY <1>2, <1>3, <1>4, <1>5, <1>6, <1>7

LEMMA RowsOfReview ==
  ASSUME Inv1, CompleteReview \/ \E j, k \in EncodeIds : CompleteReviewWithReplacement(j, k)
  PROVE  Rows'
<1>1. Rows /\ encodeUsed \in Used /\ \A j \in EncodeIds : RowSound(encodeJob[j])
  BY DEF Inv1, Rows, Typed
<1>2. CASE CompleteReview
  <2>1. KeepsUsed /\ \A j \in EncodeIds : encodeJob'[j] = Released(encodeJob[j])
    BY <1>2 DEF CompleteReview, KeepsUsed
  <2>2. \A j \in EncodeIds : Keeps(encodeJob[j], encodeJob'[j])
    BY <1>1, <2>1, ReleasedKeeps
  <2>3. encodeJob' \in [EncodeIds -> EncodeRows]
    BY <1>2, <2>2 DEF CompleteReview, Keeps, RowSound
  <2>. QED
    BY <1>1, <2>1, <2>2, <2>3, RowsKept
<1>3. ASSUME NEW j \in EncodeIds, NEW k \in EncodeIds, CompleteReviewWithReplacement(j, k)
      PROVE  Rows'
  <2> DEFINE p == encodeJob[j]
             b == p.st = "completed" \/ p.rep
             n == [Row EXCEPT !.st = "queued", !.res = TRUE, !.pred = j, !.rep = b]
             gone == [Released(p) EXCEPT !.res = FALSE]
  <2>0. Asked /\ j # k /\ Releasable(p) /\ encodeJob[k].st = "absent" /\ PathFree(j)
    BY <1>3 DEF CompleteReviewWithReplacement
  <2>1. KeepsUsed /\ j # k /\ Releasable(p) /\ encodeJob[k].st = "absent" /\ PathFree(j)
    BY <1>1, <2>0 DEF KeepsUsed, Asked, Used
  <2>2. b \in BOOLEAN
    OBVIOUS
  <2>3. encodeJob' = [i \in EncodeIds |-> CASE i = k -> n
                                           [] i = j -> gone
                                           [] OTHER -> Released(encodeJob[i])]
    BY <1>3 DEF CompleteReviewWithReplacement
  <2> HIDE DEF b
  <2>4. RowSound(n) /\ n.tok = 0 /\ n.clean = 0
    BY <2>2, ReplacementSound
  <2>5. Keeps(p, gone) /\ ~gone.res
    BY <1>1, <2>1, SupplantedKeeps
  <2>6. \A i \in EncodeIds : Keeps(encodeJob[i], Released(encodeJob[i]))
    BY <1>1, ReleasedKeeps
  <2> HIDE DEF n, gone
  <2>7. encodeJob'[k] = n /\ encodeJob'[j] = gone
        /\ \A i \in EncodeIds \ {j, k} : encodeJob'[i] = Released(encodeJob[i])
    BY <2>1, <2>3
  <2>8. \A i \in EncodeIds : RowSound(encodeJob'[i])
    BY <2>4, <2>5, <2>6, <2>7 DEF Keeps
  <2>9. encodeJob' \in [EncodeIds -> EncodeRows]
    <3>1. encodeJob' = [i \in EncodeIds |-> encodeJob'[i]]
      BY <2>3
    <3>. QED
      BY <2>8, <3>1 DEF RowSound
  <2>10. \A i \in EncodeIds : Own(i, encodeJob'[i], encodeUsed')
    <3>1. ASSUME NEW i \in EncodeIds \ {k} PROVE Own(i, encodeJob'[i], encodeUsed')
      <4>1. Keeps(encodeJob[i], encodeJob'[i]) /\ Own(i, encodeJob[i], encodeUsed)
        BY <1>1, <2>5, <2>6, <2>7 DEF Rows
      <4>. QED
        BY <4>1, <2>1, EncodeConstants, <1>1 DEF Keeps, Own, KeepsUsed, Used
    <3>2. Own(k, n, encodeUsed')
      BY <2>1, <2>4, EncodeConstants, <1>1 DEF Own, KeepsUsed, Used
    <3>. QED
      BY <2>7, <3>1, <3>2
  <2>11. \A i \in EncodeIds \ {k} : ~encodeJob'[i].res
    BY <2>1, <2>5, <2>6, <2>7 DEF PathFree, Keeps
  <2>. QED
    BY <2>8, <2>9, <2>10, <2>11 DEF Rows
<1>. QED
  BY <1>2, <1>3

LEMMA RowsOfClaim ==
  ASSUME Inv1, NEW w \in EncodeWorkers, NEW j \in EncodeIds, ClaimEncode(w, j)
  PROVE  Rows'
<1> DEFINE r == encodeJob[j]
           t == encodeUsed.claims + 1
           b == r.rep \/ (r.pred # 0 /\ (encodeJob[r.pred].st = "completed" \/ encodeJob[r.pred].rep))
           q == Merge(r, [st |-> "running", tok |-> t, live |-> TRUE, rep |-> b])
<1>1. RowSound(r) /\ Rows /\ encodeUsed \in Used /\ encodeJob \in [EncodeIds -> EncodeRows]
  BY DEF Inv1, Rows, Typed
<1>2. /\ t \in Claims /\ r.st = "queued" /\ encodeJob' = [encodeJob EXCEPT ![j] = q]
      /\ encodeUsed' = [encodeUsed EXCEPT !.claims = t, !.of[t] = j]
  BY DEF ClaimEncode, UpdateRow
<1>3. b \in BOOLEAN /\ (r.rep => b)
  BY <1>1 DEF RowSound, EncodeRows
<1> HIDE DEF b
<1>4. RowSound(q) /\ q.tok = t /\ q.clean = 0 /\ q.res
  BY <1>1, <1>2, <1>3, ClaimedSound
<1> HIDE DEF q
<1>5. encodeUsed.claims \in Nat /\ encodeUsed'.claims = t /\ encodeUsed'.of[t] = j
      /\ \A c \in Claims \ {t} : encodeUsed'.of[c] = encodeUsed.of[c]
  BY <1>1, <1>2, EncodeConstants DEF Used, Claims
<1>6. ASSUME NEW k \in EncodeIds \ {j} PROVE Own(k, encodeJob[k], encodeUsed')
  <2>1. Own(k, encodeJob[k], encodeUsed) /\ encodeJob[k].tok \in Claims \cup {0}
        /\ encodeJob[k].clean \in Claims \cup {0}
    BY <1>1 DEF Rows, EncodeRows
  <2>. QED
    BY <1>5, <2>1, EncodeConstants DEF Own, Claims
<1>7. Own(j, q, encodeUsed')
  BY <1>2, <1>4, <1>5, EncodeConstants DEF Own, Claims
<1>8. encodeJob' \in [EncodeIds -> EncodeRows] /\ encodeJob'[j] = q
      /\ \A k \in EncodeIds \ {j} : encodeJob'[k] = encodeJob[k]
  BY <1>1, <1>2, <1>4 DEF RowSound
<1>9. r.res
  BY <1>1, <1>2 DEF RowSound
<1>. QED
  BY <1>1, <1>4, <1>6, <1>7, <1>8, <1>9 DEF Rows

LEMMA RowsOfExecution ==
  ASSUME Inv1, NEW w \in EncodeWorkers,
         \/ PrepareEncode(w) \/ RetainFailedOutput(w) \/ RegisterPublication(w)
         \/ BeginPublication(w) \/ CompletePublished(w) \/ FinalizePublished(w)
         \/ CompleteCleanup(w) \/ RevokePublication(w) \/ SettlePartial(w) \/ ReportFailure(w)
  PROVE  Rows'
<1> DEFINE p == publisher[w]
           r == encodeJob[p.job]
<1>1. Rows /\ encodeUsed \in Used /\ Typed /\ Knows(w) /\ catalogOpen \in BOOLEAN
  BY DEF Inv1, Typed
<1>2. p.pc # "idle"
  BY DEF PrepareEncode, RetainFailedOutput, RegisterPublication, BeginPublication, CompletePublished,
         FinalizePublished, CompleteCleanup, RevokePublication, SettlePartial, ReportFailure, Runs
<1>3. p \in Publishers /\ p.tok \in Claims /\ p.job \in EncodeIds /\ RowSound(r) /\ p.tok # 0
  BY <1>1, <1>2, AtWork DEF Pc, Rows, Knows
<1>4. KeepsUsed
  BY DEF PrepareEncode, RetainFailedOutput, RegisterPublication, BeginPublication, CompletePublished,
         FinalizePublished, CompleteCleanup, RevokePublication, SettlePartial, ReportFailure, KeepsUsed
<1>5. encodeJob' = encodeJob => Rows'
  BY <1>1, <1>4 DEF Rows, KeepsUsed, Own
<1>6. ASSUME NEW q, Keeps(r, q), encodeJob' = [encodeJob EXCEPT ![p.job] = q] PROVE Rows'
  BY <1>1, <1>3, <1>4, <1>6, RowChanged
<1>7. CASE PrepareEncode(w)
  <2> DEFINE here == outputFile.final
             i == IF here = NoFile THEN r.ident ELSE here
  <2>1. i \in Files
    BY <1>1, <1>3 DEF Typed, Outputs, RowSound, EncodeRows
  <2>2. encodeJob' = encodeJob \/ (here # NoFile => r.rep)
    BY <1>7 DEF PrepareEncode
  <2>3. encodeJob' = encodeJob \/ encodeJob' = [encodeJob EXCEPT ![p.job] = Merge(r, [ident |-> i])]
    BY <1>7 DEF PrepareEncode, UpdateRow
  <2>4. (here # NoFile => r.rep) => (i # NoFile => r.rep)
    BY <1>3 DEF RowSound
  <2> HIDE DEF i
  <2>. QED
    BY <1>3, <1>5, <1>6, <2>1, <2>2, <2>3, <2>4, IdentKeeps
<1>8. CASE RetainFailedOutput(w) \/ ReportFailure(w)
  <2>1. \E keep \in BOOLEAN : \/ encodeJob' = encodeJob
                              \/ /\ r.st = "running"
                                 /\ encodeJob' = [encodeJob EXCEPT ![p.job] = FailedRow(r, keep)]
    <3>1. CASE RetainFailedOutput(w)
      <4> DEFINE keep == p.base # NoFile /\ outputFile.final = p.base
      <4>1. keep \in BOOLEAN
        OBVIOUS
      <4>. QED
        BY <3>1, <4>1 DEF RetainFailedOutput, AttemptHolds
    <3>2. CASE ReportFailure(w)
      <4>1. p.keep \in BOOLEAN
        BY <1>3 DEF Publishers
      <4>2. \/ encodeJob' = encodeJob
            \/ r.st = "running" /\ encodeJob' = [encodeJob EXCEPT ![p.job] = FailedRow(r, p.keep)]
        BY <3>2 DEF ReportFailure, AttemptHolds
      <4>. QED
        BY <4>1, <4>2
    <3>. QED
      BY <1>8, <3>1, <3>2
  <2>. QED
    BY <1>3, <1>5, <1>6, <2>1, FailedKeeps
<1>9. CASE RegisterPublication(w) \/ SettlePartial(w)
  <2> DEFINE q(b) == Merge(r, [clean |-> p.tok, fence |-> Unfenced, pub |-> b])
  <2>1. \/ encodeJob' = encodeJob
        \/ /\ r.st = "running" /\ r.tok = p.tok
           /\ \/ encodeJob' = [encodeJob EXCEPT ![p.job] = q(TRUE)]
              \/ encodeJob' = [encodeJob EXCEPT ![p.job] = q(FALSE)]
    BY <1>9 DEF RegisterPublication, SettlePartial, AttemptHolds, UpdateRow
  <2>. QED
    BY <1>3, <1>5, <1>6, <2>1, RegisteredKeeps
<1>10. CASE BeginPublication(w)
  <2>1. \/ encodeJob' = encodeJob
        \/ /\ r.clean = p.tok
           /\ encodeJob' = [encodeJob EXCEPT ![p.job] = Merge(r, [fence |-> "mutation"])]
    BY <1>10 DEF BeginPublication, UpdateRow
  <2>. QED
    BY <1>3, <1>5, <1>6, <2>1, FencedKeeps, KnownSteps
<1>11. CASE CompletePublished(w)
  <2>1. \/ encodeJob' = encodeJob
        \/ /\ r.st = "running"
           /\ r.pub
           /\ encodeJob' = [encodeJob EXCEPT ![p.job] = Merge(r, [st |-> "completed", pcp |-> TRUE, live |-> TRUE])]
    BY <1>11 DEF CompletePublished, UpdateRow, OwnsPublication
  <2>. QED
    BY <1>3, <1>5, <1>6, <2>1, CompletedKeeps, KnownSteps
<1>12. CASE FinalizePublished(w)
  <2>1. \/ encodeJob' = encodeJob
        \/ r.st = "completed" /\ encodeJob' = [encodeJob EXCEPT ![p.job] = FinalRow(r)]
        \/ /\ r.st = "completed" /\ r.pcp /\ ReservationCheck(p.job, p.was.st)
           /\ encodeJob' = [encodeJob EXCEPT ![p.job] = Merge(r, [st |-> p.was.st, pcp |-> p.was.pcp])]
    BY <1>12 DEF FinalizePublished, UpdateRow, OwnsPublication
  <2>2. p.was.st \in {"running", "failed", "completed"} /\ (p.was.pcp => p.was.st = "completed")
        /\ p.was.pcp \in BOOLEAN
    BY <1>1, <1>3, <1>12 DEF FinalizePublished, Runs, Knows, Publishers, EncodeRows
  <2>3. ReservationCheck(p.job, p.was.st) => (p.was.st = "running" => r.res)
    BY DEF ReservationCheck
  <2>. QED
    BY <1>3, <1>5, <1>6, <2>1, <2>2, <2>3, FinalKeeps, UndoneKeeps
<1>13. CASE CompleteCleanup(w)
  BY <1>1, <1>3, <1>5, <1>6, <1>13, CleanedKeeps DEF CompleteCleanup
<1>14. CASE RevokePublication(w)
  <2>1. \/ encodeJob' = encodeJob
        \/ /\ r.st \in Open
           /\ encodeJob' = [encodeJob EXCEPT ![p.job] = Merge(r, [pub |-> FALSE])]
    BY <1>14 DEF RevokePublication, UpdateRow, OwnsPublication, Open
  <2>. QED
    BY <1>3, <1>5, <1>6, <2>1, RevokedKeeps
<1>. QED
  BY <1>7, <1>8, <1>9, <1>10, <1>11, <1>12, <1>13, <1>14

LEMMA RowsOfReconciliation ==
  ASSUME Inv1, NEW w \in EncodeWorkers,
         \/ RecoverExpiredClaims(w) \/ ReturnDisplaced(w) \/ ReplayPublication(w) \/ WithdrawOutput(w)
         \/ \E j \in EncodeIds : ReconcileActive(w, j) \/ RecoverAbandonedMutation(w, j)
  PROVE  Rows'
<1>1. Rows /\ encodeUsed \in Used /\ Typed /\ Knows(w) /\ \A j \in EncodeIds : RowSound(encodeJob[j])
  BY DEF Inv1, Typed, Rows
<1>2. KeepsUsed
  BY DEF RecoverExpiredClaims, ReturnDisplaced, ReplayPublication, WithdrawOutput, ReconcileActive,
         RecoverAbandonedMutation, KeepsUsed
<1>3. encodeJob' = encodeJob => Rows'
  BY <1>1, <1>2 DEF Rows, KeepsUsed, Own
<1>4. ASSUME NEW j \in EncodeIds, NEW q, Keeps(encodeJob[j], q), encodeJob' = [encodeJob EXCEPT ![j] = q]
      PROVE  Rows'
  BY <1>1, <1>2, <1>4, RowChanged
<1>5. CASE RecoverExpiredClaims(w)
  <2>1. encodeJob' = [j \in EncodeIds |-> IF Expired(encodeJob[j])
            THEN [encodeJob[j] EXCEPT !.st = "failed", !.clean = encodeJob[j].tok, !.live = TRUE]
            ELSE encodeJob[j]]
    BY <1>5 DEF RecoverExpiredClaims
  <2>2. \A j \in EncodeIds : encodeJob'[j] = encodeJob[j] \/ Keeps(encodeJob[j], encodeJob'[j])
    BY <1>1, <2>1, ExpiredKeeps DEF Expired
  <2>3. \A j \in EncodeIds : encodeJob'[j] \in EncodeRows
    BY <1>1, <2>2 DEF Keeps, RowSound
  <2>4. encodeJob' \in [EncodeIds -> EncodeRows]
    BY <2>1, <2>3
  <2>. QED
    BY <1>1, <1>2, <2>2, <2>4, RowsKept
<1>6. CASE ReturnDisplaced(w) \/ ReplayPublication(w) \/ WithdrawOutput(w)
  <2> DEFINE p == publisher[w]
             r == encodeJob[p.job]
             f == IF p.fence = Unfenced THEN w ELSE p.fence
  <2>1. p \in Publishers /\ p.tok \in Claims /\ p.job \in EncodeIds /\ RowSound(r) /\ p.tok # 0
    BY <1>1, <1>6, AtWork DEF Pc, Knows, ReturnDisplaced, ReplayPublication, WithdrawOutput, Runs
  <2>2. f \in EncodeFences /\ w \in EncodeFences
    BY <2>1, KnownSteps DEF Publishers
  <2>3. CASE ReturnDisplaced(w)
    <3>1. \/ encodeJob' = encodeJob
          \/ /\ r.clean = p.tok
             /\ encodeJob' = [encodeJob EXCEPT ![p.job] = Merge(r, [fence |-> f, live |-> TRUE])]
      BY <2>3 DEF ReturnDisplaced, UpdateRow, OwnsPublication
    <3>2. r.clean # 0 => Keeps(r, Merge(r, [fence |-> f, live |-> TRUE]))
      BY <2>1, <2>2, FencedKeeps
    <3>. QED
      BY <1>3, <1>4, <2>1, <3>1, <3>2
  <2>4. CASE WithdrawOutput(w)
    <3>1. \/ encodeJob' = encodeJob
          \/ /\ r.clean = p.tok
             /\ encodeJob' = [encodeJob EXCEPT ![p.job] = Merge(r, [fence |-> w, live |-> TRUE])]
      BY <2>4 DEF WithdrawOutput, UpdateRow
    <3>2. r.clean # 0 => Keeps(r, Merge(r, [fence |-> w, live |-> TRUE]))
      BY <2>1, <2>2, FencedKeeps
    <3>. QED
      BY <1>3, <1>4, <2>1, <3>1, <3>2
  <2>5. CASE ReplayPublication(w)
    <3>1. \/ encodeJob' = encodeJob
          \/ /\ r.st \in {"failed", "completed"}
             /\ r.pub
             /\ encodeJob' = [encodeJob EXCEPT ![p.job] = Merge(r, [st |-> "completed", pcp |-> TRUE, fence |-> f, live |-> TRUE])]
      BY <2>5 DEF ReplayPublication, UpdateRow, OwnsPublication
    <3>. QED
      BY <1>3, <1>4, <2>1, <2>2, <3>1, CompletedKeeps
  <2>. QED
    BY <1>6, <2>3, <2>4, <2>5
<1>7. ASSUME NEW j \in EncodeIds, ReconcileActive(w, j) PROVE Rows'
  <2>1. encodeJob[j].st = "running" /\ encodeJob[j].pub
        /\ encodeJob' = [encodeJob EXCEPT ![j] = Merge(encodeJob[j], [st |-> "completed", pcp |-> TRUE, live |-> TRUE])]
    BY <1>7 DEF ReconcileActive, UpdateRow
  <2>. QED
    BY <1>1, <1>4, <2>1, CompletedKeeps, KnownSteps
<1>8. ASSUME NEW j \in EncodeIds, RecoverAbandonedMutation(w, j) PROVE Rows'
  <2>1. encodeJob[j].st = "running"
        /\ encodeJob' = [encodeJob EXCEPT ![j] = Merge(encodeJob[j], [st |-> "failed", fence |-> Unfenced, live |-> TRUE])]
    BY <1>8 DEF RecoverAbandonedMutation, UpdateRow, AbandonedMutation
  <2>. QED
    BY <1>1, <1>4, <2>1, ExpiredKeeps
<1>. QED
  BY <1>5, <1>6, <1>7, <1>8

LEMMA RowsOfCancellation ==
  ASSUME Inv1, NEW w \in EncodeWorkers,
         CompleteCancellation(w) \/ \E j \in EncodeIds : RecoverCancellation(w, j)
  PROVE  Rows'
<1>1. Rows /\ encodeUsed \in Used /\ Typed /\ Knows(w) /\ \A j \in EncodeIds : RowSound(encodeJob[j])
  BY DEF Inv1, Typed, Rows
<1>2. KeepsUsed
  BY DEF CompleteCancellation, RecoverCancellation, KeepsUsed
<1>3. encodeJob' = encodeJob => Rows'
  BY <1>1, <1>2 DEF Rows, KeepsUsed, Own
<1>4. ASSUME NEW j \in EncodeIds, NEW q, encodeJob' = [encodeJob EXCEPT ![j] = q], RowSound(q),
             q.res => PathFree(j), q.tok = 0, q.clean \in {0, encodeJob[j].tok}
      PROVE  Rows'
  <2>1. CASE q.res
    BY <1>1, <1>2, <1>4, <2>1, RowTaken
  <2>2. CASE ~q.res
    BY <1>1, <1>2, <1>4, <2>2, RowChanged DEF Keeps
  <2>. QED
    BY <2>1, <2>2
<1>5. ASSUME NEW j \in EncodeIds PROVE ReleasedByCancel(j, encodeJob[j]) \in BOOLEAN
  BY <1>1 DEF ReleasedByCancel, RowSound, EncodeRows
<1>6. ASSUME NEW j \in EncodeIds, RecoverCancellation(w, j) PROVE Rows'
  <2> DEFINE r == encodeJob[j]
             b == ReleasedByCancel(j, r)
             q == Merge(r, [st |-> "cancelled", res |-> b, clean |-> r.tok, fence |-> Unfenced,
                            pub |-> FALSE, pcp |-> FALSE, tok |-> 0, live |-> TRUE])
  <2>1. r.st = "cancellation_requested" /\ (b => PathFree(j)) /\ encodeJob' = [encodeJob EXCEPT ![j] = q]
    BY <1>6 DEF RecoverCancellation, UpdateRow, CancelTransactionHolds
  <2>2. b \in BOOLEAN
    BY <1>5
  <2> HIDE DEF b
  <2>3. RowSound(q) /\ q.tok = 0 /\ q.clean = r.tok /\ q.res = b
    BY <1>1, <2>1, <2>2, RecoveredSound
  <2> HIDE DEF q
  <2>. QED
    BY <1>4, <2>1, <2>3
<1>7. CASE CompleteCancellation(w)
  <2> DEFINE p == publisher[w]
             j == p.job
             r == encodeJob[j]
             b == ReleasedByCancel(j, r)
             c == IF p.bad THEN p.tok ELSE 0
             q == Withdrawn(r, b, c)
  <2>1. j \in EncodeIds
    BY <1>1, <1>7, AtWork DEF Pc, CompleteCancellation, Runs
  <2>2. \/ encodeJob' = encodeJob
        \/ /\ r.st = "cancellation_requested"
           /\ r.tok = p.tok
           /\ ~r.pub
           /\ ~r.pcp
           /\ (b => PathFree(j))
           /\ encodeJob' = [encodeJob EXCEPT ![j] = q]
    BY <1>7 DEF CompleteCancellation, CancelTransactionHolds, Withdrawn
  <2>3. b \in BOOLEAN /\ c \in {0, p.tok}
    BY <1>5, <2>1
  <2> HIDE DEF b, c
  <2>4. ASSUME r.st = "cancellation_requested", r.tok = p.tok, ~r.pub, ~r.pcp
        PROVE  RowSound(q) /\ q.tok = 0 /\ q.clean = c /\ q.res = b
    <3>1. RowSound(r) /\ c \in {0, r.tok}
      BY <1>1, <2>1, <2>3, <2>4
    <3>. QED
      BY <2>3, <2>4, <3>1, CancelledSound
  <2> HIDE DEF q
  <2>. QED
    BY <1>3, <1>4, <2>1, <2>2, <2>3, <2>4
<1>. QED
  BY <1>6, <1>7

(* The directory keeps its shape.                                          *)
LEMMA FileFits ==
  ASSUME NEW f \in Outputs, NEW i \in Files, NEW t \in Claims
  PROVE  /\ [f EXCEPT !.final = i] \in Outputs
         /\ [f EXCEPT !.part[t] = i] \in Outputs /\ [f EXCEPT !.prior[t] = i] \in Outputs
         /\ [f EXCEPT !.repl[t] = i] \in Outputs /\ [f EXCEPT !.quar[t] = i] \in Outputs
         /\ Aside(f, i) \in Outputs
<1>1. /\ [f EXCEPT !.final = i] \in Outputs
      /\ [f EXCEPT !.part[t] = i] \in Outputs /\ [f EXCEPT !.prior[t] = i] \in Outputs
      /\ [f EXCEPT !.repl[t] = i] \in Outputs /\ [f EXCEPT !.quar[t] = i] \in Outputs
  BY DEF Outputs
<1>2. Aside(f, i) \in Outputs
  BY DEF Outputs, Aside, Files
<1>. QED
  BY <1>1, <1>2

LEMMA LinkFits ==
  ASSUME outputFile \in Outputs, NEW t \in Claims
  PROVE  CleanedLink(t) \in Outputs
<1> DEFINE link == outputFile.repl[t]
           f == IF link \in {t, outputFile.prior[t]} THEN outputFile ELSE Aside(outputFile, link)
<1>1. link \in Files /\ NoFile \in Files
  BY Blank DEF Outputs
<1>2. f \in Outputs
  BY <1>1, FileFits
<1>3. CleanedLink(t) = [f EXCEPT !.repl[t] = NoFile]
  BY DEF CleanedLink
<1> HIDE DEF f
<1>4. [f EXCEPT !.repl[t] = NoFile] \in Outputs
  BY <1>1, <1>2, FileFits
<1>. QED
  BY <1>3, <1>4

LEMMA FilesTyped ==
  ASSUME Typed, NEW w \in EncodeWorkers, Knows(w),
         EncodeWork(w) \/ RenameOutput(w)
  PROVE  outputFile' \in Outputs
<1> DEFINE p == publisher[w]
           t == p.tok
           f == outputFile
<1>1. f \in Outputs /\ NoFile \in Files /\ Claims \subseteq Files
  BY Blank DEF Typed
<1>2. p.pc # "idle"
  <2>1. CASE RenameOutput(w)
    BY <2>1 DEF RenameOutput, Runs
  <2>2. CASE \/ PrepareEncode(w) \/ EncodeFinishes(w) \/ RegisterPublication(w) \/ BeginPublication(w)
             \/ StagePublication(w) \/ ExchangeOutput(w) \/ InspectExchange(w) \/ CompletePublished(w)
    BY <2>2 DEF PrepareEncode, EncodeFinishes, RegisterPublication, BeginPublication,
         StagePublication, ExchangeOutput, InspectExchange, CompletePublished, Runs
  <2>3. CASE \/ FinalizePublished(w) \/ DiscardPartial(w) \/ CompleteCleanup(w) \/ NoticeCancellation(w)
             \/ RevokePublication(w) \/ RollbackOutput(w) \/ RestorePrior(w) \/ UnstageOutput(w)
             \/ SettlePartial(w)
    BY <2>3, ZenonT(60) DEF FinalizePublished, DiscardPartial, CompleteCleanup, NoticeCancellation,
         RevokePublication, RollbackOutput, RestorePrior, UnstageOutput, SettlePartial, Runs
  <2>4. CASE \/ ReportFailure(w) \/ QuarantinePartial(w) \/ CompleteCancellation(w)
             \/ LockPendingCleanup(w) \/ ReturnDisplaced(w) \/ ReplayPublication(w) \/ WithdrawOutput(w)
             \/ ReturnPrior(w) \/ DropPartial(w)
    BY <2>4 DEF ReportFailure, QuarantinePartial, CompleteCancellation, LockPendingCleanup,
         ReturnDisplaced, ReplayPublication, WithdrawOutput, ReturnPrior, DropPartial, Runs
  <2>. QED
    BY <2>1, <2>2, <2>3, <2>4 DEF EncodeWork
<1>3. /\ p \in Publishers /\ t \in Claims /\ t \in Files /\ p.base \in Files /\ p.seen \in Files
  BY <1>1, <1>2, AtWork DEF Pc, Publishers
<1>4. /\ f.final \in Files /\ f.part[t] \in Files /\ f.prior[t] \in Files /\ f.repl[t] \in Files
      /\ f.quar[t] \in Files
  BY <1>1, <1>3 DEF Outputs
<1>5. CleanedLink(t) \in Outputs
  BY <1>1, <1>3, LinkFits
<1>6. CASE PrepareEncode(w)
  <2>1. [f EXCEPT !.part[t] = t] \in Outputs
    BY <1>1, <1>3, FileFits
  <2>. QED
    BY <1>1, <1>6, <2>1 DEF PrepareEncode
<1>7. CASE StagePublication(w)
  <2>1. [[f EXCEPT !.prior[t] = p.base] EXCEPT !.repl[t] = t] \in Outputs
    BY <1>1, <1>3, FileFits
  <2>. QED
    BY <1>1, <1>3, <1>7, <2>1, FileFits DEF StagePublication, StageReplacement
<1>8. CASE ExchangeOutput(w)
  <2>1. [[f EXCEPT !.final = t] EXCEPT !.repl[t] = f.final] \in Outputs
    BY <1>1, <1>3, <1>4, FileFits
  <2>. QED
    BY <1>8, <2>1 DEF ExchangeOutput
<1>9. CASE RenameOutput(w)
  <2>1. [[f EXCEPT !.final = t] EXCEPT !.repl[t] = NoFile] \in Outputs
    BY <1>1, <1>3, <1>4, FileFits
  <2>. QED
    BY <1>1, <1>9, <2>1 DEF RenameOutput
<1>10. CASE InspectExchange(w)
  <2>1. [[f EXCEPT !.final = f.repl[t]] EXCEPT !.repl[t] = t] \in Outputs
        /\ [f EXCEPT !.repl[t] = NoFile] \in Outputs
    BY <1>1, <1>3, <1>4, FileFits
  <2>. QED
    BY <1>1, <1>10, <2>1 DEF InspectExchange
<1>11. CASE RollbackOutput(w)
  <2>1. [[f EXCEPT !.final = NoFile] EXCEPT !.quar[t] = t] \in Outputs
    BY <1>1, <1>3, <1>4, FileFits
  <2>. QED
    BY <1>1, <1>11, <2>1 DEF RollbackOutput
<1>12. CASE RestorePrior(w) \/ ReturnPrior(w)
  <2>1. [f EXCEPT !.final = f.prior[t]] \in Outputs
    BY <1>1, <1>3, <1>4, FileFits
  <2>. QED
    BY <1>1, <1>12, <2>1 DEF RestorePrior, ReturnPrior
<1>13. CASE UnstageOutput(w)
  <2> DEFINE g == IF f.repl[t] = t THEN f ELSE Aside(f, f.repl[t])
  <2>1. g \in Outputs
    BY <1>1, <1>3, <1>4, FileFits
  <2>2. outputFile' = [g EXCEPT !.repl[t] = NoFile]
    BY <1>13 DEF UnstageOutput
  <2> HIDE DEF g
  <2>. QED
    BY <1>1, <1>3, <2>1, <2>2, FileFits, ZenonT(60)
<1>14. CASE SettlePartial(w) \/ QuarantinePartial(w)
  <2>1. [Aside(f, f.part[t]) EXCEPT !.part[t] = NoFile] \in Outputs
    BY <1>1, <1>3, <1>4, FileFits
  <2>. QED
    BY <1>1, <1>14, <2>1 DEF SettlePartial, QuarantinePartial
<1>15. CASE LockPendingCleanup(w)
  <2>1. [[f EXCEPT !.quar[t] = NoFile] EXCEPT !.final = f.quar[t]] \in Outputs
        /\ [f EXCEPT !.quar[t] = NoFile] \in Outputs
    BY <1>1, <1>3, <1>4, FileFits
  <2>. QED
    BY <1>1, <1>15, <2>1 DEF LockPendingCleanup
<1>16. CASE ReturnDisplaced(w)
  <2>1. [[f EXCEPT !.final = f.repl[t]] EXCEPT !.repl[t] = NoFile] \in Outputs
    BY <1>1, <1>3, <1>4, FileFits
  <2>. QED
    BY <1>1, <1>16, <2>1 DEF ReturnDisplaced
<1>17. CASE ReplayPublication(w)
  BY <1>5, <1>17 DEF ReplayPublication
<1>18. CASE WithdrawOutput(w)
  <2>1. [[CleanedLink(t) EXCEPT !.final = NoFile] EXCEPT !.quar[t] = p.seen] \in Outputs
    BY <1>1, <1>3, <1>5, FileFits
  <2>. QED
    BY <1>5, <1>18, <2>1 DEF WithdrawOutput
<1>19. CASE DropPartial(w)
  <2>1. [CleanedLink(t) EXCEPT !.final = p.base] \in Outputs
    BY <1>3, <1>5, FileFits
  <2>. QED
    BY <1>5, <1>19, <2>1 DEF DropPartial
<1>20. CASE DiscardPartial(w)
  BY <1>1, <1>3, <1>20, FileFits DEF DiscardPartial
<1>21. CASE \/ EncodeFinishes(w) \/ RegisterPublication(w) \/ BeginPublication(w) \/ CompletePublished(w)
            \/ FinalizePublished(w) \/ CompleteCleanup(w) \/ NoticeCancellation(w)
            \/ RevokePublication(w) \/ ReportFailure(w) \/ CompleteCancellation(w)
  BY <1>1, <1>21 DEF EncodeFinishes, RegisterPublication, BeginPublication, CompletePublished,
     FinalizePublished, CompleteCleanup, NoticeCancellation, RevokePublication, ReportFailure,
     CompleteCancellation
<1>. QED
  BY <1>6, <1>7, <1>8, <1>9, <1>10, <1>11, <1>12, <1>13, <1>14, <1>15, <1>16, <1>17, <1>18, <1>19,
     <1>20, <1>21 DEF EncodeWork

(* A step of one worker leaves the others what they know.                  *)
LEMMA Moved ==
  ASSUME publisher \in [EncodeWorkers -> Publishers], NEW w \in EncodeWorkers
  PROVE  /\ \A n : Step(w, n) => publisher'[w] = Merge(publisher[w], n)
         /\ Return(w) => publisher'[w] = Idle
         /\ (\E n : Step(w, n)) \/ Return(w)
              => \A v \in EncodeWorkers \ {w} : publisher'[v] = publisher[v]
  BY DEF Step, Return

LEMMA OthersKnow ==
  ASSUME Inv1, NEW w \in EncodeWorkers,
         \A v \in EncodeWorkers \ {w} : publisher'[v] = publisher[v],
         \A v \in EncodeWorkers \ {w} : outputLock = v <=> outputLock' = v,
         encodeUsed'.claims \in Nat, encodeUsed.claims <= encodeUsed'.claims,
         \A t \in Claims : t <= encodeUsed.claims => encodeUsed'.of[t] = encodeUsed.of[t],
         \A v \in EncodeWorkers \ {w} : publisher[v].can => encoder'[Tok(v)] = Off
  PROVE  \A v \in EncodeWorkers \ {w} : Knows(v)'
<1> TAKE v \in EncodeWorkers \ {w}
<1>1. Knows(v) /\ publisher[v] \in Publishers /\ publisher'[v] = publisher[v] /\ encodeUsed.claims \in Nat
  BY EncodeConstants DEF Inv1, Typed, Used
<1>2. publisher[v].tok \in Claims \cup {0} /\ (outputLock = v <=> outputLock' = v)
  BY <1>1 DEF Publishers
<1>3. publisher[v].tok <= encodeUsed'.claims
  BY <1>1, <1>2, EncodeConstants DEF Knows, Claims
<1>4. publisher[v].tok # 0 => encodeUsed'.of[publisher[v].tok] = encodeUsed.of[publisher[v].tok]
  BY <1>1, <1>2 DEF Knows
<1>. QED
  BY <1>1, <1>2, <1>3, <1>4 DEF Knows, Tok

LEMMA LockPasses ==
  ASSUME NEW w \in EncodeWorkers, outputLock' = outputLock \/ (outputLock = Nobody /\ outputLock' = w)
                                    \/ Return(w)
  PROVE  \A v \in EncodeWorkers \ {w} : outputLock = v <=> outputLock' = v
  BY EncodeConstants DEF Return

Follows(w) == Knows(w)' /\ (WorksOnClaim(w)' => WorksOnClaim(w) /\ Tok(w)' = Tok(w))

LEMMA ReturnFollows ==
  ASSUME Inv1, NEW w \in EncodeWorkers, Return(w), encodeUsed' \in Used
  PROVE  Follows(w)
<1>1. publisher'[w] = Idle /\ outputLock' # w
  BY EncodeConstants, Moved DEF Inv1, Typed, Return
<1>2. 0 <= encodeUsed'.claims
  BY EncodeConstants DEF Used
<1>. QED
  BY <1>1, <1>2 DEF Follows, Knows, Idle, WorksOnClaim, Executing, Early, Pre, Holding, Pc

LEMMA ExecutionFollows1 ==
  ASSUME Inv1, NEW w \in EncodeWorkers, encodeUsed' = encodeUsed,
         \/ EncodeFinishes(w) \/ EncodeAborts(w) \/ RegisterPublication(w)
         \/ BeginPublication(w) \/ StagePublication(w) \/ ExchangeOutput(w) \/ RenameOutput(w)
         \/ InspectExchange(w) \/ CompletePublished(w) \/ FinalizePublished(w) \/ DiscardPartial(w)
         \/ PublicationInterrupted(w)
  PROVE  Follows(w)
<1> DEFINE p == publisher[w]
<1>1. Knows(w) /\ p \in Publishers /\ publisher \in [EncodeWorkers -> Publishers] /\ encodeUsed \in Used
  BY DEF Inv1, Typed
<1>2. Return(w) => Follows(w)
  BY <1>1, ReturnFollows
<1>3. \A n : Step(w, n) => publisher'[w] = Merge(p, n)
  BY <1>1, Moved
<1> USE DEF Follows, Knows, WorksOnClaim, Executing, Early, Pre, Holding, Pc, Tok, Runs, Publishers
<1>4. CASE EncodeFinishes(w)
  <2>1. p.pc = "encoding" /\ publisher'[w] = Merge(p, [pc |-> "validating"]) /\ outputLock' = outputLock
    BY <1>3, <1>4 DEF EncodeFinishes
  <2>. QED
    BY <1>1, <2>1 DEF Merge
<1>5. CASE EncodeAborts(w) \/ PublicationInterrupted(w)
  <2>1. p.pc \in {"encoding", "registered", "fenced", "published"} /\ publisher'[w] = Merge(p, [pc |-> "failing"])
        /\ outputLock' = outputLock
    BY <1>3, <1>5 DEF EncodeAborts, PublicationInterrupted
  <2>. QED
    BY <1>1, <2>1 DEF Merge
<1>6. CASE RegisterPublication(w)
  <2>1. p.pc = "validating" /\ outputLock' = outputLock
        /\ (publisher'[w] = Merge(p, [pc |-> "registered", pend |-> TRUE]) \/ publisher'[w] = Merge(p, [pc |-> "failing"]))
    BY <1>3, <1>6 DEF RegisterPublication
  <2>. QED
    BY <1>1, <2>1 DEF Merge
<1>7. CASE BeginPublication(w)
  <2>1. p.pc = "registered" /\ outputLock' = outputLock
        /\ (publisher'[w] = Merge(p, [pc |-> "fenced", fence |-> "mutation"]) \/ publisher'[w] = Merge(p, [pc |-> "failing"]))
    BY <1>3, <1>7 DEF BeginPublication
  <2>. QED
    BY <1>1, <2>1 DEF Merge
<1>8. CASE StagePublication(w)
  <2>1. /\ p.pc = "fenced" /\ outputLock' = outputLock
        /\ \/ publisher'[w] = Merge(p, [pc |-> "published", put |-> TRUE])
           \/ publisher'[w] = Merge(p, [pc |-> "staged"]) \/ publisher'[w] = Merge(p, [pc |-> "failing"])
    BY <1>3, <1>8 DEF StagePublication
  <2>. QED
    BY <1>1, <2>1 DEF Merge
<1>9. CASE ExchangeOutput(w)
  <2>1. p.pc = "staged" /\ outputLock' = outputLock /\ publisher'[w] = Merge(p, [pc |-> "exchanged"])
    BY <1>3, <1>9 DEF ExchangeOutput
  <2>. QED
    BY <1>1, <2>1 DEF Merge
<1>10. CASE RenameOutput(w) \/ InspectExchange(w)
  <2>1. \/ Return(w)
        \/ /\ p.pc \in {"staged", "exchanged"} /\ outputLock' = outputLock
           /\ \/ publisher'[w] = Merge(p, [pc |-> "published", put |-> TRUE])
              \/ publisher'[w] = Merge(p, [pc |-> "failing"])
    BY <1>3, <1>10 DEF RenameOutput, InspectExchange
  <2>2. CASE publisher'[w] = Merge(p, [pc |-> "published", put |-> TRUE])
             /\ p.pc \in {"staged", "exchanged"} /\ outputLock' = outputLock
    BY <1>1, <2>2 DEF Merge
  <2>3. CASE publisher'[w] = Merge(p, [pc |-> "failing"])
             /\ p.pc \in {"staged", "exchanged"} /\ outputLock' = outputLock
    BY <1>1, <2>3 DEF Merge
  <2>. QED
    BY <1>2, <2>1, <2>2, <2>3
<1>11. CASE CompletePublished(w)
  <2>1. \/ Return(w)
        \/ /\ p.pc = "published" /\ outputLock' = outputLock
           /\ \/ publisher'[w] = Merge(p, [pc |-> "completing", was |-> [Row EXCEPT !.st = "failed"]])
              \/ publisher'[w] = Merge(p, [pc |-> "failing"])
    BY <1>3, <1>11 DEF CompletePublished
  <2>2. CASE publisher'[w] = Merge(p, [pc |-> "completing", was |-> [Row EXCEPT !.st = "failed"]])
             /\ p.pc = "published" /\ outputLock' = outputLock
    BY <1>1, <2>2 DEF Merge, Row
  <2>3. CASE publisher'[w] = Merge(p, [pc |-> "failing"]) /\ p.pc = "published" /\ outputLock' = outputLock
    BY <1>1, <2>3 DEF Merge
  <2>. QED
    BY <1>2, <2>1, <2>2, <2>3
<1>12. CASE FinalizePublished(w) \/ DiscardPartial(w)
  <2>1. \/ Return(w)
        \/ /\ p.pc \in {"completing", "discarding"} /\ outputLock' = outputLock
           /\ \/ publisher'[w] = Merge(p, [pc |-> "discarding"])
              \/ publisher'[w] = Merge(p, [pc |-> "cleaning"])
    BY <1>3, <1>12 DEF FinalizePublished, DiscardPartial
  <2>2. CASE publisher'[w] = Merge(p, [pc |-> "discarding"])
             /\ p.pc \in {"completing", "discarding"} /\ outputLock' = outputLock
    BY <1>1, <2>2 DEF Merge
  <2>3. CASE publisher'[w] = Merge(p, [pc |-> "cleaning"])
             /\ p.pc \in {"completing", "discarding"} /\ outputLock' = outputLock
    BY <1>1, <2>3 DEF Merge
  <2>. QED
    BY <1>2, <2>1, <2>2, <2>3
<1>. QED
  BY <1>4, <1>5, <1>6, <1>7, <1>8, <1>9, <1>10, <1>11, <1>12

LEMMA ExecutionFollows2 ==
  ASSUME Inv1, NEW w \in EncodeWorkers, encodeUsed' = encodeUsed,
         \/ CompleteCleanup(w) \/ NoticeCancellation(w) \/ RevokePublication(w) \/ RollbackOutput(w)
         \/ RestorePrior(w) \/ UnstageOutput(w) \/ SettlePartial(w) \/ ReportFailure(w)
         \/ QuarantinePartial(w) \/ CompleteCancellation(w) \/ RetainFailedOutput(w)
  PROVE  Follows(w)
<1> DEFINE p == publisher[w]
<1>1. Knows(w) /\ p \in Publishers /\ publisher \in [EncodeWorkers -> Publishers] /\ encodeUsed \in Used
  BY DEF Inv1, Typed
<1>2. Return(w) => Follows(w)
  BY <1>1, ReturnFollows
<1>3. \A n : Step(w, n) => publisher'[w] = Merge(p, n)
  BY <1>1, Moved
<1> USE DEF Follows, Knows, WorksOnClaim, Executing, Early, Pre, Holding, Pc, Tok, Runs, Publishers
<1>4. CASE CompleteCleanup(w)
  <2>1. \/ Return(w)
        \/ /\ p.pc = "cleaning" /\ p.can /\ outputLock' = outputLock /\ encoder' = encoder
           /\ publisher'[w] = Merge(p, [pc |-> "cancelling", pend |-> FALSE])
    BY <1>3, <1>4 DEF CompleteCleanup
  <2>2. CASE /\ p.pc = "cleaning" /\ p.can /\ outputLock' = outputLock /\ encoder' = encoder
             /\ publisher'[w] = Merge(p, [pc |-> "cancelling", pend |-> FALSE])
    BY <1>1, <2>2 DEF Merge
  <2>. QED
    BY <1>2, <2>1, <2>2
<1>5. CASE NoticeCancellation(w)
  <2> DEFINE r == encodeJob[p.job]
             asked == r.st = "cancellation_requested" /\ r.tok = p.tok /\ r.live
             to == IF p.put THEN "revoking" ELSE "unstaging"
  <2>1. /\ p.pc = "failing" /\ (asked => encoder[p.tok] = Off) /\ outputLock' = outputLock
        /\ encoder' = encoder /\ publisher'[w] = Merge(p, [pc |-> to, can |-> asked])
    BY <1>3, <1>5 DEF NoticeCancellation
  <2>2. asked \in BOOLEAN
    <3>1. r \in EncodeRows
      BY <1>1, <2>1, AtWork DEF Inv1
    <3>. QED
      BY <3>1 DEF EncodeRows
  <2>3. (to = "revoking" /\ p.put) \/ (to = "unstaging" /\ ~p.put)
    BY <1>1
  <2> HIDE DEF asked, to
  <2>. QED
    BY <1>1, <2>1, <2>2, <2>3 DEF Merge
<1>6. CASE RevokePublication(w)
  <2>1. \/ Return(w)
        \/ /\ p.pc = "revoking" /\ outputLock' = outputLock /\ encoder' = encoder
           /\ publisher'[w] = Merge(p, [pc |-> "rollback"])
    BY <1>3, <1>6 DEF RevokePublication
  <2>2. CASE /\ p.pc = "revoking" /\ outputLock' = outputLock /\ encoder' = encoder
             /\ publisher'[w] = Merge(p, [pc |-> "rollback"])
    BY <1>1, <2>2 DEF Merge
  <2>. QED
    BY <1>2, <2>1, <2>2
<1>7. CASE RollbackOutput(w)
  <2> DEFINE b == outputFile.final = p.tok
  <2>1. /\ p.pc = "rollback" /\ outputLock' = outputLock /\ encoder' = encoder
        /\ \/ publisher'[w] = Merge(p, [pc |-> "restoring"])
           \/ publisher'[w] = Merge(p, [pc |-> "restoring", bad |-> b])
    BY <1>3, <1>7 DEF RollbackOutput
  <2> HIDE DEF b
  <2>2. CASE publisher'[w] = Merge(p, [pc |-> "restoring"])
    BY <1>1, <2>1, <2>2 DEF Merge
  <2>3. CASE publisher'[w] = Merge(p, [pc |-> "restoring", bad |-> b])
    BY <1>1, <2>1, <2>3 DEF Merge
  <2>. QED
    BY <2>1, <2>2, <2>3
<1>8. CASE RestorePrior(w)
  <2> DEFINE b == p.bad \/ outputFile.prior[p.tok] # NoFile
  <2>1. /\ p.pc = "restoring" /\ outputLock' = outputLock /\ encoder' = encoder
        /\ \/ publisher'[w] = Merge(p, [pc |-> "settling", keep |-> TRUE])
           \/ publisher'[w] = Merge(p, [pc |-> "settling", bad |-> b])
    BY <1>3, <1>8 DEF RestorePrior
  <2> HIDE DEF b
  <2>2. CASE publisher'[w] = Merge(p, [pc |-> "settling", keep |-> TRUE])
    BY <1>1, <2>1, <2>2 DEF Merge
  <2>3. CASE publisher'[w] = Merge(p, [pc |-> "settling", bad |-> b])
    BY <1>1, <2>1, <2>3 DEF Merge
  <2>. QED
    BY <2>1, <2>2, <2>3
<1>9. CASE UnstageOutput(w)
  <2> DEFINE b == p.base # NoFile /\ outputFile.final = p.base
  <2>1. /\ p.pc = "unstaging" /\ outputLock' = outputLock /\ encoder' = encoder
        /\ publisher'[w] = Merge(p, [pc |-> "settling", keep |-> b])
    BY <1>3, <1>9 DEF UnstageOutput
  <2> HIDE DEF b
  <2>. QED
    BY <1>1, <2>1 DEF Merge
<1>10. CASE SettlePartial(w)
  <2> DEFINE to == IF p.can THEN (IF p.pend /\ ~p.bad THEN "quarantining" ELSE "cancelling") ELSE "reporting"
  <2>1. /\ p.pc = "settling" /\ outputLock' = outputLock /\ encoder' = encoder
        /\ \/ publisher'[w] = Merge(p, [pc |-> to]) \/ publisher'[w] = Merge(p, [pc |-> to, pend |-> TRUE])
           \/ publisher'[w] = Merge(p, [pc |-> to, bad |-> TRUE])
    BY <1>3, <1>10 DEF SettlePartial
  <2>2. (p.can /\ to \in {"quarantining", "cancelling"}) \/ (~p.can /\ to = "reporting")
    BY <1>1
  <2> HIDE DEF to
  <2>3. CASE publisher'[w] = Merge(p, [pc |-> to])
    BY <1>1, <2>1, <2>2, <2>3 DEF Merge
  <2>4. CASE publisher'[w] = Merge(p, [pc |-> to, pend |-> TRUE])
    BY <1>1, <2>1, <2>2, <2>4 DEF Merge
  <2>5. CASE publisher'[w] = Merge(p, [pc |-> to, bad |-> TRUE])
    BY <1>1, <2>1, <2>2, <2>5 DEF Merge
  <2>. QED
    BY <2>1, <2>3, <2>4, <2>5
<1>11. CASE ReportFailure(w) \/ QuarantinePartial(w)
  <2>1. \/ Return(w)
        \/ /\ p.pc \in {"reporting", "quarantining"} /\ outputLock' = outputLock /\ encoder' = encoder
           /\ \/ p.pc = "reporting" /\ publisher'[w] = Merge(p, [pc |-> "quarantining"])
              \/ p.pc = "quarantining" /\ publisher'[w] = Merge(p, [pc |-> "cleaning"])
    BY <1>3, <1>11 DEF ReportFailure, QuarantinePartial
  <2>2. CASE /\ p.pc = "reporting" /\ outputLock' = outputLock /\ encoder' = encoder
             /\ publisher'[w] = Merge(p, [pc |-> "quarantining"])
    BY <1>1, <2>2 DEF Merge
  <2>3. CASE /\ p.pc = "quarantining" /\ outputLock' = outputLock /\ encoder' = encoder
             /\ publisher'[w] = Merge(p, [pc |-> "cleaning"])
    BY <1>1, <2>3 DEF Merge
  <2>. QED
    BY <1>2, <2>1, <2>2, <2>3
<1>12. CASE CompleteCancellation(w) \/ RetainFailedOutput(w)
  BY <1>2, <1>12 DEF CompleteCancellation, RetainFailedOutput
<1>. QED
  BY <1>4, <1>5, <1>6, <1>7, <1>8, <1>9, <1>10, <1>11, <1>12

LEMMA ReconciliationFollows ==
  ASSUME Inv1, NEW w \in EncodeWorkers, encodeUsed' = encodeUsed,
         \/ LockPendingCleanup(w) \/ ReturnDisplaced(w) \/ ReplayPublication(w) \/ WithdrawOutput(w)
         \/ ReturnPrior(w) \/ DropPartial(w) \/ PrepareEncode(w)
  PROVE  Follows(w)
<1> DEFINE p == publisher[w]
<1>1. Knows(w) /\ p \in Publishers /\ publisher \in [EncodeWorkers -> Publishers] /\ encodeUsed \in Used
  BY DEF Inv1, Typed
<1>2. Return(w) => Follows(w)
  BY <1>1, ReturnFollows
<1>3. \A n : Step(w, n) => publisher'[w] = Merge(p, n)
  BY <1>1, Moved
<1> USE DEF Follows, Knows, WorksOnClaim, Executing, Early, Pre, Holding, Pc, Tok, Runs, Publishers
<1>4. CASE LockPendingCleanup(w)
  <2> DEFINE q == outputFile.quar[p.tok]
  <2>1. \/ Return(w)
        \/ /\ p.pc = "listed" /\ outputLock' = w
           /\ \/ publisher'[w] = Merge(p, [pc |-> "deciding"])
              \/ publisher'[w] = Merge(p, [pc |-> "deciding", seen |-> q])
    BY <1>3, <1>4 DEF LockPendingCleanup
  <2> HIDE DEF q
  <2>2. CASE p.pc = "listed" /\ outputLock' = w /\ publisher'[w] = Merge(p, [pc |-> "deciding"])
    BY <1>1, <2>2 DEF Merge
  <2>3. CASE p.pc = "listed" /\ outputLock' = w /\ publisher'[w] = Merge(p, [pc |-> "deciding", seen |-> q])
    BY <1>1, <2>3 DEF Merge
  <2>. QED
    BY <1>2, <2>1, <2>2, <2>3
<1>5. CASE ReturnDisplaced(w)
  <2> DEFINE f == IF p.fence = Unfenced THEN w ELSE p.fence
  <2>1. \/ Return(w)
        \/ /\ p.pc = "deciding" /\ outputLock' = outputLock /\ encoder' = encoder
           /\ publisher'[w] = Merge(p, [pc |-> "quarantining", fence |-> f])
    BY <1>3, <1>5 DEF ReturnDisplaced
  <2> HIDE DEF f
  <2>2. CASE p.pc = "deciding" /\ outputLock' = outputLock /\ encoder' = encoder
             /\ publisher'[w] = Merge(p, [pc |-> "quarantining", fence |-> f])
    BY <1>1, <2>2 DEF Merge
  <2>. QED
    BY <1>2, <2>1, <2>2
<1>6. CASE ReplayPublication(w)
  <2> DEFINE f == IF p.fence = Unfenced THEN w ELSE p.fence
             r == encodeJob[p.job]
  <2>1. \/ Return(w)
        \/ /\ p.pc = "deciding" /\ outputLock' = outputLock /\ encoder' = encoder
           /\ r.st \in {"failed", "completed"}
           /\ publisher'[w] = Merge(p, [pc |-> "completing", fence |-> f, was |-> r])
    BY <1>3, <1>6 DEF ReplayPublication, OwnsPublication
  <2>2. p.pc = "deciding" => RowSound(r)
    BY <1>1 DEF Inv1, Rows
  <2>3. RowSound(r) => (r.pcp => r.st = "completed")
    BY DEF RowSound
  <2> HIDE DEF f, r
  <2>4. CASE /\ p.pc = "deciding" /\ outputLock' = outputLock /\ encoder' = encoder
             /\ r.st \in {"failed", "completed"}
             /\ publisher'[w] = Merge(p, [pc |-> "completing", fence |-> f, was |-> r])
    BY <1>1, <2>2, <2>3, <2>4 DEF Merge
  <2>. QED
    BY <1>2, <2>1, <2>4
<1>7. CASE WithdrawOutput(w)
  <2>1. \/ Return(w)
        \/ /\ p.pc = "deciding" /\ outputLock' = outputLock /\ encoder' = encoder
           /\ publisher'[w] = Merge(p, [pc |-> "returning", fence |-> w])
    BY <1>3, <1>7 DEF WithdrawOutput
  <2>2. CASE p.pc = "deciding" /\ outputLock' = outputLock /\ encoder' = encoder
             /\ publisher'[w] = Merge(p, [pc |-> "returning", fence |-> w])
    BY <1>1, <2>2 DEF Merge
  <2>. QED
    BY <1>2, <2>1, <2>2
<1>8. CASE ReturnPrior(w) \/ DropPartial(w)
  <2>1. \/ Return(w)
        \/ /\ p.pc \in {"returning", "deciding"} /\ outputLock' = outputLock /\ encoder' = encoder
           /\ \/ publisher'[w] = Merge(p, [pc |-> "discarding"])
              \/ publisher'[w] = Merge(p, [pc |-> "quarantining"])
    BY <1>3, <1>8 DEF ReturnPrior, DropPartial
  <2>2. CASE p.pc \in {"returning", "deciding"} /\ outputLock' = outputLock /\ encoder' = encoder
             /\ publisher'[w] = Merge(p, [pc |-> "discarding"])
    BY <1>1, <2>2 DEF Merge
  <2>3. CASE p.pc \in {"returning", "deciding"} /\ outputLock' = outputLock /\ encoder' = encoder
             /\ publisher'[w] = Merge(p, [pc |-> "quarantining"])
    BY <1>1, <2>3 DEF Merge
  <2>. QED
    BY <1>2, <2>1, <2>2, <2>3
<1>9. CASE PrepareEncode(w)
  <2> DEFINE here == outputFile.final
  <2>1. /\ p.pc = "claimed"
        /\ \/ publisher'[w] = Merge(p, [pc |-> "failing"])
           \/ publisher'[w] = Merge(p, [pc |-> "encoding", base |-> here]) /\ outputLock' = w
    BY <1>3, <1>9 DEF PrepareEncode
  <2> HIDE DEF here
  <2>2. CASE publisher'[w] = Merge(p, [pc |-> "failing"])
    BY <1>1, <2>1, <2>2 DEF Merge
  <2>3. CASE publisher'[w] = Merge(p, [pc |-> "encoding", base |-> here]) /\ outputLock' = w
    BY <1>1, <2>1, <2>3 DEF Merge
  <2>. QED
    BY <2>1, <2>2, <2>3
<1>. QED
  BY <1>4, <1>5, <1>6, <1>7, <1>8, <1>9

LEMMA PollFollows ==
  ASSUME Inv1, NEW w \in EncodeWorkers, NEW j \in EncodeIds, encodeUsed' = encodeUsed,
         ReconcileActive(w, j) \/ ListPendingCleanup(w, j)
  PROVE  Follows(w)
<1> DEFINE p == publisher[w]
           r == encodeJob[j]
<1>1. /\ Knows(w) /\ p \in Publishers /\ publisher \in [EncodeWorkers -> Publishers]
      /\ encodeUsed \in Used /\ RowSound(r) /\ Own(j, r, encodeUsed)
  BY DEF Inv1, Typed, Rows
<1>2. \A n : Step(w, n) => publisher'[w] = Merge(p, n)
  BY <1>1, Moved
<1>3. /\ p = Idle /\ outputLock' = outputLock /\ r.clean # 0 /\ Idle \in Publishers
  BY <1>1, Blank DEF ReconcileActive, ListPendingCleanup, Knows
<1> USE DEF Follows, Knows, WorksOnClaim, Executing, Early, Pre, Holding, Pc, Tok, Publishers
<1>4. CASE ReconcileActive(w, j)
  <2>1. /\ publisher'[w] = Merge(p, [pc |-> "completing", job |-> j, tok |-> r.clean, fence |-> r.fence, was |-> r])
        /\ r.st = "running"
    BY <1>2, <1>4 DEF ReconcileActive
  <2>2. ~r.pcp
    BY <1>1, <2>1 DEF RowSound
  <2> HIDE DEF r
  <2>. QED
    BY <1>1, <1>3, <2>1, <2>2 DEF Merge, Own, Idle
<1>5. CASE ListPendingCleanup(w, j)
  <2> DEFINE a == outputFile.final
             b == outputFile.prior[r.clean]
             c == outputFile.part[r.clean] # NoFile
             d == outputFile.repl[r.clean] \notin {NoFile, outputFile.part[r.clean], outputFile.prior[r.clean]}
  <2>1. publisher'[w] = Merge(p, [pc |-> "listed", job |-> j, tok |-> r.clean, fence |-> r.fence, was |-> r,
                                  seen |-> a, base |-> b, keep |-> c, put |-> d])
    BY <1>2, <1>5 DEF ListPendingCleanup
  <2> HIDE DEF r, a, b, c, d
  <2>. QED
    BY <1>1, <1>3, <2>1 DEF Merge, Own, Idle
<1>. QED
  BY <1>4, <1>5

LEMMA Inv1Kept ==
  ASSUME Inv1, NEW w \in EncodeWorkers, Follows(w), Rows',
         publisher' \in [EncodeWorkers -> Publishers],
         \A v \in EncodeWorkers \ {w} : publisher'[v] = publisher[v],
         outputLock' = outputLock \/ (outputLock = Nobody /\ outputLock' = w) \/ Return(w),
         KeepsUsed, encodeUsed' \in Used,
         encoder' \in [Claims -> EncodeWorkers \cup {Off, "orphan"}],
         \A v \in EncodeWorkers \ {w} : publisher[v].can => encoder'[Tok(v)] = Off,
         outputFile' \in Outputs, catalogOpen' \in BOOLEAN, keptOutputs' \subseteq Inodes
  PROVE  Inv1'
<1>1. Typed /\ OneWorker /\ Knows(w)'
  BY DEF Inv1, Follows
<1>2. outputLock' \in EncodeWorkers \cup {Nobody}
  BY <1>1 DEF Typed, Return
<1>3. Typed'
  BY <1>2 DEF Typed, Rows
<1>4. encodeUsed'.claims = encodeUsed.claims /\ encodeUsed'.of = encodeUsed.of /\ encodeUsed.claims \in Nat
  BY <1>1, EncodeConstants DEF KeepsUsed, Typed, Used
<1>5. \A v \in EncodeWorkers \ {w} : Knows(v)'
  BY <1>4, LockPasses, OthersKnow
<1>6. OneWorker'
  <2>1. \A v \in EncodeWorkers : WorksOnClaim(v)' => WorksOnClaim(v) /\ Tok(v)' = Tok(v)
    BY DEF Follows, WorksOnClaim, Tok, Pc
  <2>. QED
    BY <1>1, <2>1 DEF OneWorker
<1>. QED
  BY <1>1, <1>3, <1>5, <1>6 DEF Inv1

LEMMA WorkFrame ==
  ASSUME NEW w \in EncodeWorkers, EncodeWork(w) \/ EncodeAborts(w) \/ RetainFailedOutput(w) \/ RenameOutput(w)
  PROVE  /\ encodeUsed' = encodeUsed /\ catalogOpen' = catalogOpen
         /\ (\E n : Step(w, n)) \/ Return(w)
         /\ \/ outputLock' = outputLock
            \/ outputLock = Nobody /\ outputLock' = w
            \/ Return(w)
         /\ keptOutputs' \in {keptOutputs, keptOutputs \cup {publisher[w].tok}}
         /\ publisher[w].pc # "idle"
<1> USE DEF Runs
<1>1. CASE PrepareEncode(w) \/ EncodeFinishes(w) \/ EncodeAborts(w) \/ RetainFailedOutput(w)
  BY <1>1 DEF PrepareEncode, EncodeFinishes, EncodeAborts, RetainFailedOutput
<1>2. CASE RegisterPublication(w) \/ BeginPublication(w) \/ StagePublication(w) \/ ExchangeOutput(w)
  BY <1>2 DEF RegisterPublication, BeginPublication, StagePublication, ExchangeOutput
<1>3. CASE RenameOutput(w) \/ InspectExchange(w) \/ CompletePublished(w)
  BY <1>3 DEF RenameOutput, InspectExchange, CompletePublished
<1>4. CASE FinalizePublished(w) \/ DiscardPartial(w) \/ CompleteCleanup(w)
  BY <1>4 DEF FinalizePublished, DiscardPartial, CompleteCleanup
<1>5. CASE NoticeCancellation(w) \/ RevokePublication(w) \/ RollbackOutput(w) \/ RestorePrior(w)
  BY <1>5 DEF NoticeCancellation, RevokePublication, RollbackOutput, RestorePrior
<1>6. CASE UnstageOutput(w) \/ SettlePartial(w) \/ ReportFailure(w)
  BY <1>6 DEF UnstageOutput, SettlePartial, ReportFailure
<1>7. CASE QuarantinePartial(w) \/ CompleteCancellation(w) \/ LockPendingCleanup(w) \/ ReturnDisplaced(w)
  BY <1>7 DEF QuarantinePartial, CompleteCancellation, LockPendingCleanup, ReturnDisplaced
<1>8. CASE ReplayPublication(w) \/ WithdrawOutput(w) \/ ReturnPrior(w) \/ DropPartial(w)
  BY <1>8 DEF ReplayPublication, WithdrawOutput, ReturnPrior, DropPartial
<1>. QED
  BY <1>1, <1>2, <1>3, <1>4, <1>5, <1>6, <1>7, <1>8 DEF EncodeWork

LEMMA EncoderKept ==
  ASSUME Inv1, NEW w \in EncodeWorkers, EncodeWork(w) \/ EncodeAborts(w) \/ RetainFailedOutput(w) \/ RenameOutput(w)
  PROVE  /\ encoder' \in [Claims -> EncodeWorkers \cup {Off, "orphan"}]
         /\ \A v \in EncodeWorkers \ {w} : publisher[v].can => encoder'[Tok(v)] = Off
<1>1. /\ Knows(w) /\ encoder \in [Claims -> EncodeWorkers \cup {Off, "orphan"}]
      /\ \A v \in EncodeWorkers : publisher[v].can => encoder[Tok(v)] = Off /\ WorksOnClaim(v)
  BY DEF Inv1, Typed, Knows, Tok, WorksOnClaim
<1>2. publisher[w].tok \in Claims
  BY <1>1, WorkFrame, AtWork DEF Inv1, Pc
<1>3. CASE encoder' = encoder
  BY <1>1, <1>3
<1>4. CASE PrepareEncode(w) /\ encoder' = [encoder EXCEPT ![publisher[w].tok] = w]
  <2>1. WorksOnClaim(w)
    BY <1>4 DEF PrepareEncode, Runs, WorksOnClaim, Executing, Early, Pc
  <2>2. \A v \in EncodeWorkers \ {w} : publisher[v].can => Tok(v) # publisher[w].tok
    BY <1>1, <2>1 DEF Inv1, OneWorker, Tok
  <2>. QED
    BY <1>1, <1>2, <1>4, <2>2
<1>5. CASE encoder' = [encoder EXCEPT ![publisher[w].tok] = Off]
  BY <1>1, <1>2, <1>5
<1>6. \/ encoder' = encoder
      \/ PrepareEncode(w) /\ encoder' = [encoder EXCEPT ![publisher[w].tok] = w]
      \/ encoder' = [encoder EXCEPT ![publisher[w].tok] = Off]
  <2>1. CASE PrepareEncode(w) \/ EncodeFinishes(w) \/ EncodeAborts(w) \/ RetainFailedOutput(w)
    BY <2>1 DEF PrepareEncode, EncodeFinishes, EncodeAborts, RetainFailedOutput
  <2>2. CASE RegisterPublication(w) \/ BeginPublication(w) \/ StagePublication(w) \/ ExchangeOutput(w)
    BY <2>2 DEF RegisterPublication, BeginPublication, StagePublication, ExchangeOutput
  <2>3. CASE RenameOutput(w) \/ InspectExchange(w) \/ CompletePublished(w)
    BY <2>3 DEF RenameOutput, InspectExchange, CompletePublished
  <2>4. CASE FinalizePublished(w) \/ DiscardPartial(w) \/ CompleteCleanup(w)
    BY <2>4 DEF FinalizePublished, DiscardPartial, CompleteCleanup
  <2>5. CASE NoticeCancellation(w) \/ RevokePublication(w) \/ RollbackOutput(w) \/ RestorePrior(w)
    BY <2>5 DEF NoticeCancellation, RevokePublication, RollbackOutput, RestorePrior
  <2>6. CASE UnstageOutput(w) \/ SettlePartial(w) \/ ReportFailure(w)
    BY <2>6 DEF UnstageOutput, SettlePartial, ReportFailure
  <2>7. CASE QuarantinePartial(w) \/ CompleteCancellation(w) \/ LockPendingCleanup(w) \/ ReturnDisplaced(w)
    BY <2>7 DEF QuarantinePartial, CompleteCancellation, LockPendingCleanup, ReturnDisplaced
  <2>8. CASE ReplayPublication(w) \/ WithdrawOutput(w) \/ ReturnPrior(w) \/ DropPartial(w)
    BY <2>8 DEF ReplayPublication, WithdrawOutput, ReturnPrior, DropPartial
  <2>. QED
    BY <2>1, <2>2, <2>3, <2>4, <2>5, <2>6, <2>7, <2>8 DEF EncodeWork
<1>. QED
  BY <1>3, <1>4, <1>5, <1>6

LEMMA RowsOfWork ==
  ASSUME Inv1, NEW w \in EncodeWorkers, EncodeWork(w) \/ EncodeAborts(w) \/ RetainFailedOutput(w) \/ RenameOutput(w)
  PROVE  Rows'
<1>1. encodeJob' = encodeJob => Rows'
  BY WorkFrame DEF Inv1, Rows
<1>2. CASE EncodeFinishes(w) \/ EncodeAborts(w) \/ StagePublication(w) \/ ExchangeOutput(w) \/ RenameOutput(w)
           \/ InspectExchange(w) \/ DiscardPartial(w)
  BY <1>1, <1>2 DEF EncodeFinishes, EncodeAborts, StagePublication, ExchangeOutput, RenameOutput,
                    InspectExchange, DiscardPartial
<1>3. CASE NoticeCancellation(w) \/ RollbackOutput(w) \/ RestorePrior(w) \/ UnstageOutput(w)
           \/ QuarantinePartial(w) \/ LockPendingCleanup(w) \/ ReturnPrior(w) \/ DropPartial(w)
  BY <1>1, <1>3 DEF NoticeCancellation, RollbackOutput, RestorePrior, UnstageOutput,
                    QuarantinePartial, LockPendingCleanup, ReturnPrior, DropPartial
<1>. QED
  BY <1>2, <1>3, RowsOfExecution, RowsOfReconciliation, RowsOfCancellation DEF EncodeWork

LEMMA WorkFollows ==
  ASSUME Inv1, NEW w \in EncodeWorkers, EncodeWork(w) \/ EncodeAborts(w) \/ RetainFailedOutput(w) \/ RenameOutput(w)
  PROVE  Follows(w) /\ publisher' \in [EncodeWorkers -> Publishers]
<1>1. encodeUsed' = encodeUsed /\ Typed /\ Knows(w)
  BY WorkFrame DEF Inv1
<1>2. publisher[w].job \in EncodeIds
  BY <1>1, WorkFrame, AtWork DEF Pc
<1>3. Follows(w)
  BY <1>1, ExecutionFollows1, ExecutionFollows2, ReconciliationFollows DEF EncodeWork
<1>4. publisher' \in [EncodeWorkers -> Publishers]
  BY <1>1, <1>2, WorkersTyped1, WorkersTyped2, WorkersTyped3 DEF EncodeWork
<1>. QED
  BY <1>3, <1>4

LEMMA WorkKeeps ==
  ASSUME Inv1, NEW w \in EncodeWorkers, EncodeWork(w) \/ EncodeAborts(w) \/ RetainFailedOutput(w) \/ RenameOutput(w)
  PROVE  Inv1'
<1>1. Typed /\ Knows(w) /\ publisher \in [EncodeWorkers -> Publishers] /\ encodeUsed \in Used
      /\ catalogOpen \in BOOLEAN /\ keptOutputs \subseteq Inodes /\ outputFile \in Outputs
  BY DEF Inv1, Typed
<1>2. \A v \in EncodeWorkers \ {w} : publisher'[v] = publisher[v]
  BY <1>1, WorkFrame, Moved
<1>3. outputFile' \in Outputs
  <2>1. CASE EncodeAborts(w) \/ RetainFailedOutput(w)
    BY <1>1, <2>1 DEF EncodeAborts, RetainFailedOutput
  <2>. QED
    BY <1>1, <2>1, FilesTyped
<1>4. keptOutputs' \subseteq Inodes
  <2>1. publisher[w].tok \in Inodes
    BY <1>1, WorkFrame, AtWork, Blank DEF Pc
  <2>. QED
    BY <1>1, <2>1, WorkFrame
<1>5. /\ encodeUsed' = encodeUsed /\ catalogOpen' = catalogOpen
      /\ outputLock' = outputLock \/ (outputLock = Nobody /\ outputLock' = w) \/ Return(w)
  BY WorkFrame
<1>6. KeepsUsed /\ encodeUsed' \in Used /\ catalogOpen' \in BOOLEAN
  BY <1>1, <1>5 DEF KeepsUsed
<1>7. Rows' /\ Follows(w) /\ publisher' \in [EncodeWorkers -> Publishers]
      /\ encoder' \in [Claims -> EncodeWorkers \cup {Off, "orphan"}]
      /\ \A v \in EncodeWorkers \ {w} : publisher[v].can => encoder'[Tok(v)] = Off
  BY RowsOfWork, WorkFollows, EncoderKept
<1>. QED
  BY <1>2, <1>3, <1>4, <1>5, <1>6, <1>7, Inv1Kept

\* The workers, their encoders and the lock are left alone.
LEMMA RestKeeps ==
  ASSUME Inv1, Rows', UNCHANGED <<publisher, encoder, outputLock>>, KeepsUsed, encodeUsed' \in Used,
         outputFile' \in Outputs, catalogOpen' \in BOOLEAN, keptOutputs' \subseteq Inodes
  PROVE  Inv1'
<1>1. Typed'
  BY DEF Inv1, Typed, Rows
<1>2. \A w \in EncodeWorkers : Knows(w)'
  BY DEF Inv1, Knows, KeepsUsed
<1>3. OneWorker'
  BY DEF Inv1, OneWorker, WorksOnClaim, Tok, Pc
<1>. QED
  BY <1>1, <1>2, <1>3 DEF Inv1

LEMMA RequestsKeep ==
  ASSUME Inv1,
         \/ \E j \in EncodeIds : \/ EnqueueEncode(j) \/ RequestEncodeCancellation(j) \/ RequeueEncode(j)
                                 \/ SupersedeSelection(j) \/ LeaseExpires(j)
         \/ CompleteReview
         \/ \E j, k \in EncodeIds : CompleteReviewWithReplacement(j, k)
  PROVE  Inv1'
<1>1. Rows /\ encodeUsed \in Used /\ outputFile \in Outputs /\ catalogOpen \in BOOLEAN /\ keptOutputs \subseteq Inodes
  BY DEF Inv1, Typed
<1>2. Rows'
  BY <1>1, RowsOfRequests, RowsOfReview
<1>3. UNCHANGED <<outputFile, publisher, encoder, outputLock, keptOutputs>> /\ catalogOpen' \in BOOLEAN
  BY <1>1 DEF EnqueueEncode, RequestEncodeCancellation, RequeueEncode, SupersedeSelection, LeaseExpires,
         CompleteReview, CompleteReviewWithReplacement
<1>4. Asked \/ Fault \/ encodeUsed' = encodeUsed
  BY DEF EnqueueEncode, RequestEncodeCancellation, RequeueEncode, SupersedeSelection, LeaseExpires,
         CompleteReview, CompleteReviewWithReplacement
<1>5. KeepsUsed /\ encodeUsed' \in Used
  BY <1>1, <1>4 DEF Asked, Fault, KeepsUsed, Used
<1>. QED
  BY <1>1, <1>2, <1>3, <1>5, RestKeeps

LEMMA ReconcileKeeps ==
  ASSUME Inv1, NEW w \in EncodeWorkers, EncodeReconcile(w)
  PROVE  Inv1'
<1>1. /\ Rows /\ encodeUsed \in Used /\ outputFile \in Outputs /\ catalogOpen \in BOOLEAN
      /\ keptOutputs \subseteq Inodes /\ Typed /\ Knows(w) /\ publisher \in [EncodeWorkers -> Publishers]
      /\ encoder \in [Claims -> EncodeWorkers \cup {Off, "orphan"}]
      /\ \A v \in EncodeWorkers : publisher[v].can => encoder[Tok(v)] = Off
  BY DEF Inv1, Typed, Knows, Tok
<1>2. UNCHANGED <<outputFile, encoder, outputLock, catalogOpen, keptOutputs, encodeUsed>>
  BY DEF EncodeReconcile, RecoverExpiredClaims, ReconcileActive, RecoverAbandonedMutation,
         RecoverCancellation, ListPendingCleanup
<1>3. KeepsUsed /\ encodeUsed' \in Used
  BY <1>1, <1>2 DEF KeepsUsed
<1>4. Rows'
  <2>1. ASSUME NEW j \in EncodeIds, ListPendingCleanup(w, j) PROVE Rows'
    BY <1>1, <1>2, <2>1 DEF ListPendingCleanup, Rows
  <2>. QED
    BY <2>1, RowsOfReconciliation, RowsOfCancellation DEF EncodeReconcile
<1>5. CASE \E j \in EncodeIds : ReconcileActive(w, j) \/ ListPendingCleanup(w, j)
  <2>1. PICK j \in EncodeIds : ReconcileActive(w, j) \/ ListPendingCleanup(w, j)
    BY <1>5
  <2>2. Follows(w) /\ publisher' \in [EncodeWorkers -> Publishers]
    BY <1>1, <1>2, <2>1, PollFollows, WorkersTyped3
  <2>3. \A v \in EncodeWorkers \ {w} : publisher'[v] = publisher[v]
    BY <1>1, <2>1, Moved DEF ReconcileActive, ListPendingCleanup
  <2>. QED
    BY <1>1, <1>2, <1>3, <1>4, <2>2, <2>3, Inv1Kept
<1>6. CASE publisher' = publisher
  BY <1>1, <1>2, <1>3, <1>4, <1>6, RestKeeps
<1>. QED
  BY <1>5, <1>6, ZenonT(60)
     DEF EncodeReconcile, RecoverExpiredClaims, RecoverAbandonedMutation, RecoverCancellation

LEMMA FaultsKeep ==
  ASSUME Inv1, NEW w \in EncodeWorkers, PublicationInterrupted(w) \/ EncodeWorkerCrashes(w)
  PROVE  Inv1'
<1>1. /\ Rows /\ encodeUsed \in Used /\ outputFile \in Outputs /\ catalogOpen \in BOOLEAN
      /\ keptOutputs \subseteq Inodes /\ Typed /\ Knows(w) /\ publisher \in [EncodeWorkers -> Publishers]
      /\ encoder \in [Claims -> EncodeWorkers \cup {Off, "orphan"}]
      /\ \A v \in EncodeWorkers : publisher[v].can => encoder[Tok(v)] = Off
      /\ \A v \in EncodeWorkers : publisher[v] \in Publishers /\ Knows(v)
  BY DEF Inv1, Typed, Knows, Tok
<1>2. /\ UNCHANGED <<encodeJob, outputFile, catalogOpen, keptOutputs>> /\ Fault
      /\ (\E n : Step(w, n)) \/ Return(w)
      /\ outputLock' = outputLock \/ Return(w)
  BY DEF PublicationInterrupted, EncodeWorkerCrashes
<1>3. KeepsUsed /\ encodeUsed' \in Used
  BY <1>1, <1>2 DEF KeepsUsed, Fault, Used
<1>4. Rows'
  BY <1>1, <1>2, <1>3 DEF Rows, KeepsUsed, Own
<1>5. \A v \in EncodeWorkers \ {w} : publisher'[v] = publisher[v]
  BY <1>1, <1>2, Moved
<1>6. publisher' \in [EncodeWorkers -> Publishers]
  BY <1>1, WorkersTyped1
<1>7. /\ encoder' \in [Claims -> EncodeWorkers \cup {Off, "orphan"}]
      /\ \A v \in EncodeWorkers \ {w} : publisher[v].can => encoder'[Tok(v)] = Off
  <2>1. CASE PublicationInterrupted(w)
    BY <1>1, <2>1 DEF PublicationInterrupted
  <2>2. CASE EncodeWorkerCrashes(w)
    <3>1. encoder' = [t \in Claims |-> IF encoder[t] = w THEN "orphan" ELSE encoder[t]]
      BY <2>2 DEF EncodeWorkerCrashes
    <3>2. \A v \in EncodeWorkers : publisher[v].can => Tok(v) \in Claims
      BY <1>1, AtWork DEF Knows, Tok, Pc
    <3>3. Off \notin EncodeWorkers
      BY EncodeConstants
    <3>. QED
      BY <1>1, <3>1, <3>2, <3>3
  <2>. QED
    BY <2>1, <2>2
<1>8. Follows(w)
  <2>1. CASE PublicationInterrupted(w)
    <3>1. /\ publisher[w].pc \in {"registered", "fenced", "published"} /\ outputLock' = outputLock
          /\ publisher'[w] = Merge(publisher[w], [pc |-> "failing"])
      BY <1>1, <2>1, Moved DEF PublicationInterrupted
    <3>. QED
      BY <1>1, <1>3, <3>1 DEF Merge, Follows, Knows, WorksOnClaim, Executing, Early, Pre, Holding, Pc, Tok,
                             Publishers, KeepsUsed
  <2>2. CASE EncodeWorkerCrashes(w)
    BY <1>3, <2>2, ReturnFollows DEF EncodeWorkerCrashes
  <2>. QED
    BY <2>1, <2>2
<1>. QED
  BY <1>1, <1>2, <1>3, <1>4, <1>5, <1>6, <1>7, <1>8, Inv1Kept

LEMMA ClaimKeeps ==
  ASSUME Inv1, NEW w \in EncodeWorkers, NEW j \in EncodeIds, ClaimEncode(w, j)
  PROVE  Inv1'
<1> DEFINE t == encodeUsed.claims + 1
           n == [pc |-> "claimed", job |-> j, tok |-> t]
<1>1. /\ Typed /\ Knows(w) /\ publisher \in [EncodeWorkers -> Publishers] /\ encodeUsed \in Used
      /\ encodeUsed.claims \in Nat /\ MaxEncodeClaims \in Nat
      /\ \A v \in EncodeWorkers : publisher[v].can => encoder[Tok(v)] = Off
      /\ \A v \in EncodeWorkers : publisher[v] \in Publishers /\ Tok(v) <= encodeUsed.claims
  BY EncodeConstants DEF Inv1, Typed, Knows, Tok, Used
<1>2. /\ t \in Claims /\ publisher[w].pc = "idle" /\ Step(w, n)
      /\ encodeUsed' = [encodeUsed EXCEPT !.claims = t, !.of[t] = j]
      /\ UNCHANGED <<outputFile, encoder, outputLock, catalogOpen, keptOutputs>>
  BY DEF ClaimEncode
<1>3. /\ encodeUsed' \in Used /\ encodeUsed'.claims = t /\ encodeUsed'.of[t] = j
      /\ \A c \in Claims : c <= encodeUsed.claims => encodeUsed'.of[c] = encodeUsed.of[c]
  <2>1. t \in 0..MaxEncodeClaims
    BY <1>1, <1>2 DEF Claims
  <2>2. \A c \in Claims : c <= encodeUsed.claims => c # t
    BY <1>1 DEF Claims
  <2> HIDE DEF t
  <2>. QED
    BY <1>1, <1>2, <2>1, <2>2 DEF Used
<1>4. /\ publisher'[w] = Merge(publisher[w], n)
      /\ \A v \in EncodeWorkers \ {w} : publisher'[v] = publisher[v]
  BY <1>1, <1>2, Moved
<1>5. publisher' \in [EncodeWorkers -> Publishers]
  BY <1>1, WorkersTyped3
<1>6. Rows'
  BY RowsOfClaim
<1>7. Typed'
  BY <1>1, <1>2, <1>3, <1>5, <1>6 DEF Typed, Rows
<1>8. \A v \in EncodeWorkers \ {w} : Knows(v)'
  BY <1>1, <1>2, <1>3, <1>4, OthersKnow
<1>9. publisher[w] = Idle /\ Idle \in Publishers
  BY <1>1, <1>2, Blank DEF Knows
<1>10. Knows(w)' /\ Tok(w)' = t
  <2>1. t # 0 /\ t <= t
    BY <1>1
  <2> HIDE DEF t
  <2>. QED
    BY <1>2, <1>3, <1>4, <1>9, <2>1 DEF Knows, Merge, Idle, Tok, Early, Pre, Holding
<1>11. OneWorker'
  <2>1. \A v \in EncodeWorkers \ {w} : (WorksOnClaim(v)' <=> WorksOnClaim(v)) /\ Tok(v)' = Tok(v) /\ Tok(v)' # t
    <3>1. \A v \in EncodeWorkers \ {w} : Tok(v) # t
      BY <1>1 DEF Tok, Publishers, Claims
    <3>. QED
      BY <1>4, <3>1 DEF WorksOnClaim, Tok, Pc
  <2>. QED
    BY <1>10, <2>1 DEF Inv1, OneWorker
<1>. QED
  BY <1>6, <1>7, <1>8, <1>10, <1>11 DEF Inv1

LEMMA OutsideKeeps ==
  ASSUME Inv1, ForeignOutput \/ \E t \in Claims : EncoderCloses(t)
  PROVE  Inv1'
<1>1. /\ Rows /\ encodeUsed \in Used /\ outputFile \in Outputs /\ catalogOpen \in BOOLEAN
      /\ keptOutputs \subseteq Inodes /\ Typed
      /\ encoder \in [Claims -> EncodeWorkers \cup {Off, "orphan"}]
  BY DEF Inv1, Typed
<1>2. CASE ForeignOutput
  <2>1. outputFile' \in Outputs
    <3>1. [outputFile EXCEPT !.final = Foreign] \in Outputs
      BY <1>1, Blank DEF Outputs
    <3>. QED
      BY <1>2, <3>1 DEF ForeignOutput
  <2>2. /\ keptOutputs' = (keptOutputs \ {outputFile.final}) \cup {Foreign}
        /\ encodeUsed' = [encodeUsed EXCEPT !.foreign = @ + 1, !.asked = @ + 1]
        /\ UNCHANGED <<encodeJob, encoder, publisher, outputLock, catalogOpen>>
    BY <1>2 DEF ForeignOutput
  <2>4. keptOutputs' \subseteq Inodes
    BY <1>1, <2>2, Blank
  <2>5. KeepsUsed /\ encodeUsed' \in Used
    <3>1. encodeUsed.foreign + 1 \in Nat /\ encodeUsed.asked + 1 \in Nat
      BY <1>1 DEF Used
    <3> DEFINE more == encodeUsed.foreign + 1
               again == encodeUsed.asked + 1
    <3>2. encodeUsed' = [encodeUsed EXCEPT !.foreign = more, !.asked = again]
      BY <1>1, <2>2 DEF Used
    <3> HIDE DEF more, again
    <3>. QED
      BY <1>1, <3>1, <3>2 DEF KeepsUsed, Used, more, again
  <2>3. Rows'
    BY <1>1, <2>2, <2>5 DEF Rows, KeepsUsed, Own
  <2>. QED
    BY <1>1, <2>1, <2>2, <2>3, <2>4, <2>5, RestKeeps
<1>3. ASSUME NEW t \in Claims, EncoderCloses(t) PROVE Inv1'
  <2>1. encoder' = [encoder EXCEPT ![t] = Off]
        /\ UNCHANGED <<encodeJob, outputFile, publisher, outputLock, catalogOpen, keptOutputs, encodeUsed>>
    BY <1>3 DEF EncoderCloses
  <2>2. Typed' /\ Rows'
    BY <1>1, <2>1 DEF Typed, Rows
  <2>3. \A w \in EncodeWorkers : Knows(w)'
    <3> TAKE w \in EncodeWorkers
    <3>1. Knows(w) /\ (publisher[w].can => encoder'[publisher[w].tok] = Off)
      BY <1>1, <2>1, AtWork DEF Inv1, Knows, Pc
    <3>. QED
      BY <2>1, <3>1 DEF Knows
  <2>4. OneWorker'
    BY <2>1 DEF Inv1, OneWorker, WorksOnClaim, Tok, Pc
  <2>. QED
    BY <2>2, <2>3, <2>4 DEF Inv1
<1>. QED
  BY <1>2, <1>3

LEMMA Inv1Init == EncodeInit => Inv1
<1> SUFFICES ASSUME EncodeInit PROVE Inv1
  OBVIOUS
<1>1. PICK first \in EncodeIds, old \in BOOLEAN :
       /\ encodeJob = [j \in EncodeIds |->
            IF j # first THEN Row
            ELSE [Row EXCEPT !.st = "queued", !.res = TRUE, !.rep = old]]
       /\ outputFile = [final |-> IF old THEN Original ELSE NoFile,
                        part |-> [t \in Claims |-> NoFile], prior |-> [t \in Claims |-> NoFile],
                        repl |-> [t \in Claims |-> NoFile], quar |-> [t \in Claims |-> NoFile],
                        aside |-> {}]
       /\ keptOutputs = IF old THEN {Original} ELSE {}
  BY DEF EncodeInit
<1>2. Original \in Inodes /\ MaxEncodeClaims \in Nat
  BY EncodeConstants DEF Original, Inodes, Foreign
<1>3. RowSound(Row) /\ ~Row.res /\ Row.tok = 0 /\ Row.clean = 0
  BY Blank DEF RowSound, Row, Open
<1>4. LET q == [Row EXCEPT !.st = "queued", !.res = TRUE, !.rep = old]
      IN  RowSound(q) /\ q.res /\ q.tok = 0 /\ q.clean = 0
  BY Blank DEF RowSound, Row, EncodeRows, EncodeStates, Open
<1>5. encodeUsed = [claims |-> 0, faults |-> 0, foreign |-> 0, asked |-> 0, of |-> [t \in Claims |-> 0]]
      /\ encodeUsed \in Used
  BY <1>2 DEF EncodeInit, Used
<1>6. Rows
  <2>1. \A j \in EncodeIds : RowSound(encodeJob[j]) /\ encodeJob[j].tok = 0 /\ encodeJob[j].clean = 0
    BY <1>1, <1>3, <1>4
  <2>2. encodeJob \in [EncodeIds -> EncodeRows]
    <3>1. encodeJob = [j \in EncodeIds |-> encodeJob[j]]
      BY <1>1
    <3>. QED
      BY <2>1, <3>1 DEF RowSound
  <2>3. \A j \in EncodeIds \ {first} : ~encodeJob[j].res
    BY <1>1, <1>3
  <2>4. \A j \in EncodeIds : Own(j, encodeJob[j], encodeUsed)
    BY <1>5, <2>1 DEF Own
  <2>. QED
    BY <2>1, <2>2, <2>3, <2>4 DEF Rows
<1>7. outputFile \in Outputs /\ keptOutputs \subseteq Inodes
  BY <1>1, <1>2, Blank DEF Outputs, Files
<1>8. /\ encoder \in [Claims -> EncodeWorkers \cup {Off, "orphan"}] /\ publisher \in [EncodeWorkers -> Publishers]
      /\ publisher = [w \in EncodeWorkers |-> Idle] /\ outputLock = Nobody /\ catalogOpen \in BOOLEAN
  BY Blank DEF EncodeInit
<1>9. Typed
  BY <1>5, <1>6, <1>7, <1>8 DEF Typed, Rows
<1>10. \A w \in EncodeWorkers : Knows(w) /\ ~WorksOnClaim(w)
  BY <1>5, <1>8, EncodeConstants DEF Knows, WorksOnClaim, Idle, Pc, Executing, Early, Pre, Holding
<1>. QED
  BY <1>6, <1>9, <1>10 DEF Inv1, OneWorker

\* Every reachable state is typed, and its rows, workers and lock are as
\* claims, publications, cancellations and reconciliations expect them.
THEOREM EncodeRowsAreSound == EncodeSpec => []Inv1
<1>1. Inv1 /\ [EncodeNext]_encodeVars => Inv1'
  <2> SUFFICES ASSUME Inv1, [EncodeNext]_encodeVars PROVE Inv1'
    OBVIOUS
  <2>1. CASE UNCHANGED encodeVars
    BY <2>1 DEF encodeVars, Inv1, Typed, Rows, Knows, OneWorker, WorksOnClaim, Tok, Pc
  <2>2. CASE EncodeNext
    BY <2>2, WorkKeeps, RequestsKeep, ReconcileKeeps, FaultsKeep, ClaimKeeps, OutsideKeeps DEF EncodeNext
  <2>. QED
    BY <2>1, <2>2
<1>. QED
  BY <1>1, Inv1Init, PTL DEF EncodeSpec

\* The rows satisfy the table's unique index on the reserved path and its
\* checks (job-queue.ts), whatever operators, workers and reconciliations do.
THEOREM RowsStayLegal == EncodeSpec => [](EncodeTypeOK /\ EncodeRowsLegal)
<1>1. Inv1 => EncodeRowsLegal
  BY DEF Inv1, Rows, RowSound, EncodeRowsLegal, ReservationCheck
<1>2. Inv1 => EncodeTypeOK
  <2> SUFFICES ASSUME Inv1 PROVE EncodeTypeOK
    OBVIOUS
  <2>1. \A j \in EncodeIds : encodeJob[j] \in EncodeRows
    BY DEF Inv1, Typed
  <2>. QED
    BY <2>1 DEF Inv1, Typed, EncodeTypeOK, EncodeRows, EncodeStates, Files, Outputs
<1>. QED
  BY <1>1, <1>2, EncodeRowsAreSound, PTL

\* No step but the two that settle a cancellation calls a row cancelled.
Spared(j) == encodeJob[j].st = "cancellation_requested" => encodeJob'[j].st # "cancelled"

LEMMA SparedByWork ==
  ASSUME Inv1, NEW w \in EncodeWorkers, NEW j \in EncodeIds,
         EncodeWork(w) \/ EncodeAborts(w) \/ RetainFailedOutput(w) \/ RenameOutput(w),
         ~CompleteCancellation(w)
  PROVE  Spared(j)
<1> DEFINE k == publisher[w].job
           r == encodeJob[k]
<1>1. /\ Typed /\ Knows(w) /\ encodeJob \in [EncodeIds -> EncodeRows] /\ k \in EncodeIds
      /\ r \in EncodeRows /\ encodeJob[j] \in EncodeRows
  BY WorkFrame, AtWork DEF Inv1, Typed, Pc
<1>2. encodeJob' = encodeJob => Spared(j)
  BY DEF Spared
<1>3. ASSUME NEW q, encodeJob' = [encodeJob EXCEPT ![k] = q], q.st # "cancelled" \/ q.st = r.st
      PROVE  Spared(j)
  BY <1>1, <1>3 DEF Spared
<1>4. ASSUME NEW n, encodeJob' = [encodeJob EXCEPT ![k] = Merge(r, n)], "st" \notin DOMAIN n
      PROVE  Spared(j)
  <2>1. Merge(r, n).st = r.st
    BY <1>1, <1>4 DEF Merge, EncodeRows
  <2>. QED
    BY <1>3, <1>4, <2>1
<1>5. ASSUME NEW n, encodeJob' = [encodeJob EXCEPT ![k] = Merge(r, n)], "st" \in DOMAIN n, n["st"] # "cancelled"
      PROVE  Spared(j)
  <2>1. Merge(r, n).st = n["st"]
    BY <1>1, <1>5 DEF Merge, EncodeRows
  <2>. QED
    BY <1>3, <1>5, <2>1
<1>6. CASE EncodeFinishes(w) \/ EncodeAborts(w) \/ StagePublication(w) \/ ExchangeOutput(w) \/ RenameOutput(w)
           \/ InspectExchange(w) \/ DiscardPartial(w)
  BY <1>2, <1>6 DEF EncodeFinishes, EncodeAborts, StagePublication, ExchangeOutput, RenameOutput,
                    InspectExchange, DiscardPartial
<1>7. CASE NoticeCancellation(w) \/ RollbackOutput(w) \/ RestorePrior(w) \/ UnstageOutput(w)
           \/ QuarantinePartial(w) \/ LockPendingCleanup(w) \/ ReturnPrior(w) \/ DropPartial(w)
  BY <1>2, <1>7 DEF NoticeCancellation, RollbackOutput, RestorePrior, UnstageOutput,
                    QuarantinePartial, LockPendingCleanup, ReturnPrior, DropPartial
<1>8. CASE PrepareEncode(w)
  <2>1. encodeJob' = encodeJob
        \/ \E i \in {r.ident, outputFile.final} : encodeJob' = [encodeJob EXCEPT ![k] = Merge(r, [ident |-> i])]
    BY <1>8 DEF PrepareEncode, UpdateRow
  <2>. QED
    BY <1>2, <1>4, <2>1
<1>9. CASE RegisterPublication(w) \/ BeginPublication(w) \/ RevokePublication(w) \/ SettlePartial(w)
  <2>1. \/ encodeJob' = encodeJob
        \/ encodeJob' = [encodeJob EXCEPT ![k] = Merge(r, [clean |-> publisher[w].tok, fence |-> Unfenced, pub |-> TRUE])]
        \/ encodeJob' = [encodeJob EXCEPT ![k] = Merge(r, [clean |-> publisher[w].tok, fence |-> Unfenced, pub |-> FALSE])]
        \/ encodeJob' = [encodeJob EXCEPT ![k] = Merge(r, [fence |-> "mutation"])]
        \/ encodeJob' = [encodeJob EXCEPT ![k] = Merge(r, [pub |-> FALSE])]
    BY <1>9 DEF RegisterPublication, BeginPublication, RevokePublication, SettlePartial, UpdateRow
  <2>. QED
    BY <1>2, <1>4, <2>1
<1>10. CASE CompletePublished(w) \/ ReplayPublication(w)
  <2> DEFINE f == IF publisher[w].fence = Unfenced THEN w ELSE publisher[w].fence
  <2>1. \/ encodeJob' = encodeJob
        \/ encodeJob' = [encodeJob EXCEPT ![k] = Merge(r, [st |-> "completed", pcp |-> TRUE, live |-> TRUE])]
        \/ encodeJob' = [encodeJob EXCEPT ![k] = Merge(r, [st |-> "completed", pcp |-> TRUE, fence |-> f, live |-> TRUE])]
    BY <1>10 DEF CompletePublished, ReplayPublication, UpdateRow
  <2> HIDE DEF f
  <2>. QED
    BY <1>2, <1>5, <2>1
<1>11. CASE FinalizePublished(w)
  <2>1. publisher[w].was.st # "cancelled"
    BY <1>1, <1>11 DEF FinalizePublished, Runs, Knows
  <2>2. \/ encodeJob' = encodeJob
        \/ encodeJob' = [encodeJob EXCEPT ![k] = FinalRow(r)]
        \/ encodeJob' = [encodeJob EXCEPT ![k] = Merge(r, [st |-> publisher[w].was.st, pcp |-> publisher[w].was.pcp])]
    BY <1>11 DEF FinalizePublished, UpdateRow
  <2>3. FinalRow(r).st = r.st
    BY <1>1 DEF FinalRow, EncodeRows
  <2>. QED
    BY <1>2, <1>3, <1>5, <2>1, <2>2, <2>3
<1>12. CASE CompleteCleanup(w)
  <2>1. CleanedRow(r).st \in {r.st, "failed"}
    BY <1>1 DEF CleanedRow, EncodeRows
  <2>. QED
    BY <1>2, <1>3, <1>12, <2>1 DEF CompleteCleanup
<1>13. CASE RetainFailedOutput(w) \/ ReportFailure(w)
  <2> DEFINE kept == publisher[w].base # NoFile /\ outputFile.final = publisher[w].base
  <2>1. \A keep : FailedRow(r, keep).st = "failed"
    BY <1>1 DEF FailedRow, EncodeRows
  <2>2. \/ encodeJob' = encodeJob
        \/ encodeJob' = [encodeJob EXCEPT ![k] = FailedRow(r, kept)]
        \/ encodeJob' = [encodeJob EXCEPT ![k] = FailedRow(r, publisher[w].keep)]
    BY <1>13 DEF RetainFailedOutput, ReportFailure
  <2> HIDE DEF kept
  <2>. QED
    BY <1>2, <1>3, <2>1, <2>2
<1>14. CASE ReturnDisplaced(w) \/ WithdrawOutput(w)
  <2> DEFINE f == IF publisher[w].fence = Unfenced THEN w ELSE publisher[w].fence
  <2>1. \/ encodeJob' = encodeJob
        \/ encodeJob' = [encodeJob EXCEPT ![k] = Merge(r, [fence |-> f, live |-> TRUE])]
        \/ encodeJob' = [encodeJob EXCEPT ![k] = Merge(r, [fence |-> w, live |-> TRUE])]
    BY <1>14 DEF ReturnDisplaced, WithdrawOutput, UpdateRow
  <2> HIDE DEF f
  <2>. QED
    BY <1>2, <1>4, <2>1
<1>. QED
  BY <1>6, <1>7, <1>8, <1>9, <1>10, <1>11, <1>12, <1>13, <1>14 DEF EncodeWork

LEMMA SparedByOthers ==
  ASSUME Inv1, NEW j \in EncodeIds,
         \/ \E i \in EncodeIds : \/ EnqueueEncode(i) \/ RequestEncodeCancellation(i) \/ RequeueEncode(i)
                                 \/ SupersedeSelection(i) \/ LeaseExpires(i)
         \/ CompleteReview \/ \E i, k \in EncodeIds : CompleteReviewWithReplacement(i, k)
         \/ \E w \in EncodeWorkers : \/ PublicationInterrupted(w) \/ EncodeWorkerCrashes(w)
                                     \/ RecoverExpiredClaims(w)
                                     \/ \E i \in EncodeIds : \/ ClaimEncode(w, i) \/ ReconcileActive(w, i)
                                                             \/ RecoverAbandonedMutation(w, i)
                                                             \/ ListPendingCleanup(w, i)
         \/ \E t \in Claims : EncoderCloses(t)
         \/ ForeignOutput
  PROVE  Spared(j)
<1>1. encodeJob \in [EncodeIds -> EncodeRows] /\ \A i \in EncodeIds : encodeJob[i] \in EncodeRows
  BY DEF Inv1, Typed
<1>2. encodeJob' = encodeJob => Spared(j)
  BY DEF Spared
<1>3. ASSUME NEW i \in EncodeIds, encodeJob[i].st # "cancellation_requested",
             \A k \in EncodeIds \ {i} : encodeJob'[k].st = encodeJob[k].st
      PROVE  Spared(j)
  BY <1>3 DEF Spared
<1>4. ASSUME NEW i \in EncodeIds,
             EnqueueEncode(i) \/ RequestEncodeCancellation(i) \/ RequeueEncode(i)
             \/ \E w \in EncodeWorkers : ClaimEncode(w, i) \/ ReconcileActive(w, i) \/ RecoverAbandonedMutation(w, i)
      PROVE  Spared(j)
  <2>1. /\ encodeJob[i].st # "cancellation_requested"
        /\ \E q : encodeJob' = [encodeJob EXCEPT ![i] = q]
    BY <1>4 DEF EnqueueEncode, RequestEncodeCancellation, RequeueEncode, ClaimEncode, ReconcileActive,
                RecoverAbandonedMutation, AbandonedMutation, UpdateRow
  <2>. QED
    BY <1>1, <1>3, <2>1
<1>5. ASSUME NEW i \in EncodeIds, SupersedeSelection(i) \/ LeaseExpires(i) PROVE Spared(j)
  <2>1. CASE LeaseExpires(i)
    <3>1. encodeJob' = [encodeJob EXCEPT ![i] = Merge(encodeJob[i], [live |-> FALSE])]
      BY <2>1 DEF LeaseExpires, UpdateRow
    <3>2. Merge(encodeJob[i], [live |-> FALSE]).st = encodeJob[i].st
      BY <1>1 DEF Merge, EncodeRows
    <3>. QED
      BY <1>1, <3>1, <3>2 DEF Spared
  <2>2. CASE SupersedeSelection(i) /\ encodeJob[i].st \in {"queued", "running"}
    <3>1. \E q : encodeJob' = [encodeJob EXCEPT ![i] = q]
      BY <2>2 DEF SupersedeSelection
    <3>. QED
      BY <1>1, <1>3, <2>2, <3>1
  <2>3. CASE SupersedeSelection(i) /\ encodeJob[i].st \notin {"queued", "running"}
    <3>1. encodeJob' = [encodeJob EXCEPT ![i] = [encodeJob[i] EXCEPT !.active = FALSE]]
      BY <2>3 DEF SupersedeSelection
    <3>2. [encodeJob[i] EXCEPT !.active = FALSE].st = encodeJob[i].st
      BY <1>1 DEF EncodeRows
    <3>. QED
      BY <1>1, <3>1, <3>2 DEF Spared
  <2>. QED
    BY <1>5, <2>1, <2>2, <2>3
<1>6. \A i \in EncodeIds : Released(encodeJob[i]).st = encodeJob[i].st
  BY <1>1 DEF Released, EncodeRows
<1>7. CASE CompleteReview
  BY <1>6, <1>7 DEF CompleteReview, Spared
<1>8. ASSUME NEW i \in EncodeIds, NEW k \in EncodeIds, CompleteReviewWithReplacement(i, k) PROVE Spared(j)
  <2> DEFINE p == encodeJob[i]
             n == [Row EXCEPT !.st = "queued", !.res = TRUE, !.pred = i, !.rep = p.st = "completed" \/ p.rep]
             gone == [Released(p) EXCEPT !.res = FALSE]
  <2>1. /\ i # k /\ encodeJob[k].st = "absent"
        /\ encodeJob' = [x \in EncodeIds |-> CASE x = k -> n [] x = i -> gone [] OTHER -> Released(encodeJob[x])]
    BY <1>8 DEF CompleteReviewWithReplacement
  <2>2. gone.st = p.st
    BY <1>1 DEF Released, EncodeRows
  <2> HIDE DEF n, gone
  <2>3. \A x \in EncodeIds \ {k} : encodeJob'[x].st = encodeJob[x].st
    BY <1>6, <2>1, <2>2
  <2>. QED
    BY <1>3, <2>1, <2>3
<1>9. ASSUME NEW w \in EncodeWorkers, RecoverExpiredClaims(w) PROVE Spared(j)
  <2>1. encodeJob'[j] = encodeJob[j]
        \/ encodeJob'[j] = [encodeJob[j] EXCEPT !.st = "failed", !.clean = encodeJob[j].tok, !.live = TRUE]
    BY <1>9, ZenonT(60) DEF RecoverExpiredClaims
  <2>. QED
    BY <1>1, <2>1 DEF Spared, EncodeRows
<1>10. CASE \/ \E w \in EncodeWorkers : \/ PublicationInterrupted(w) \/ EncodeWorkerCrashes(w)
                                       \/ \E i \in EncodeIds : ListPendingCleanup(w, i)
            \/ \E t \in Claims : EncoderCloses(t)
            \/ ForeignOutput
  BY <1>2, <1>10 DEF PublicationInterrupted, EncodeWorkerCrashes, ListPendingCleanup, EncoderCloses, ForeignOutput
<1>. QED
  BY <1>4, <1>5, <1>7, <1>8, <1>9, <1>10

\* A cancelled job's encoder is closed before its row says cancelled: the
\* worker that settles its own cancellation saw it close and no other
\* execution has that claim; a recovery requires the group to be inactive.
THEOREM CancellationWaits == EncodeSpec => CancelClosesEncoder
<1> DEFINE Closes == \A j \in EncodeIds :
       encodeJob[j].st = "cancellation_requested" /\ encodeJob'[j].st = "cancelled"
         => encoder[encodeJob[j].tok] = Off
<1>1. ASSUME Inv1, NEW j \in EncodeIds, EncodeNext, ~Spared(j)
      PROVE  encoder[encodeJob[j].tok] = Off
  <2>1. encodeJob \in [EncodeIds -> EncodeRows] /\ \A w \in EncodeWorkers : Knows(w)
    BY <1>1 DEF Inv1, Typed
  <2>2. ASSUME NEW w \in EncodeWorkers, CompleteCancellation(w) PROVE encoder[encodeJob[j].tok] = Off
    <3>1. encodeJob'[j] # encodeJob[j]
      BY <1>1 DEF Spared
    <3>2. /\ publisher[w].pc = "cancelling" /\ j = publisher[w].job
          /\ encodeJob[j].tok = publisher[w].tok
      BY <2>1, <2>2, <3>1 DEF CompleteCancellation, Runs
    <3>. QED
      BY <2>1, <3>2 DEF Knows
  <2>3. ASSUME NEW w \in EncodeWorkers, NEW i \in EncodeIds, RecoverCancellation(w, i)
        PROVE  encoder[encodeJob[j].tok] = Off
    <3>1. encodeJob'[j] # encodeJob[j]
      BY <1>1 DEF Spared
    <3>2. i = j
      BY <2>1, <2>3, <3>1 DEF RecoverCancellation, UpdateRow
    <3>. QED
      BY <2>3, <3>2 DEF RecoverCancellation, RequireInactive
  <2>. QED
    BY <1>1, <2>2, <2>3, SparedByWork, SparedByOthers DEF EncodeNext, EncodeReconcile
<1>2. Inv1 /\ [EncodeNext]_encodeVars => Closes
  <2> SUFFICES ASSUME Inv1, [EncodeNext]_encodeVars, NEW j \in EncodeIds, ~Spared(j)
               PROVE  encoder[encodeJob[j].tok] = Off
    BY DEF Spared
  <2>1. CASE UNCHANGED encodeVars
    BY <2>1 DEF Spared, encodeVars
  <2>. QED
    BY <1>1, <2>1
<1>. QED
  BY <1>2, EncodeRowsAreSound, PTL DEF EncodeSpec, CancelClosesEncoder

-----------------------------------------------------------------------------
(* The files: what the invariant of the output directory says.             *)

Lister(w) == Pc(w) \in {"listed", "deciding"}
InHand == {"encoding", "validating", "registered", "fenced", "staged", "exchanged"}
Past == {"published", "revoking", "rollback", "restoring", "settling", "reporting", "quarantining",
         "completing", "discarding", "cleaning", "cancelling", "returning"}

\* A file no name and no worker's memory of the directory holds.
Nameless(f, i) ==
  /\ f.final # i /\ i \notin f.aside
  /\ \A t \in Claims : f.part[t] # i /\ f.prior[t] # i /\ f.repl[t] # i /\ f.quar[t] # i
Nowhere(i) ==
  /\ Nameless(outputFile, i)
  /\ \A v \in EncodeWorkers : publisher[v].base # i /\ publisher[v].seen # i
NoNames(t) == /\ outputFile.part[t] = NoFile /\ outputFile.prior[t] = NoFile
              /\ outputFile.repl[t] = NoFile /\ outputFile.quar[t] = NoFile

\* A claim still to come, or one whose worker has not got the lock.
Unwritten(t) ==
  \/ t > encodeUsed.claims
  \/ \E w \in EncodeWorkers : Tok(w) = t /\ WorksOnClaim(w) /\ (Pc(w) = "claimed" \/ outputLock # w)
UnusedClaims == \A t \in Claims : Unwritten(t) => Nowhere(t) /\ NoNames(t)

\* No other program's file is met before there is one.
Alone == encodeUsed.foreign = 0 =>
           Nowhere(Foreign) /\ \A w \in EncodeWorkers : Lister(w) => ~publisher[w].put

Links == \A t \in Claims :
  /\ outputFile.repl[t] \in {NoFile, t, outputFile.prior[t], Foreign}
  /\ outputFile.repl[t] = t => outputFile.part[t] = t

\* What a worker that encodes or stages finds in the directory.
Staging(w) == LET p == publisher[w]  t == p.tok IN p.pc \in InHand =>
  /\ outputFile.part[t] = t /\ outputFile.quar[t] = NoFile /\ p.base # t
  /\ p.pc \in {"encoding", "validating", "registered", "fenced"} =>
       outputFile.prior[t] = NoFile /\ outputFile.repl[t] = NoFile /\ outputFile.final # t
  /\ p.pc \in {"staged", "exchanged"} => outputFile.prior[t] = p.base /\ p.base # NoFile
  /\ p.pc = "staged" => outputFile.repl[t] = t /\ outputFile.final \in {p.base, Foreign}
  /\ p.pc = "exchanged" => outputFile.repl[t] \in {p.base, Foreign} /\ outputFile.final \in {t, Foreign}
  /\ \A v \in EncodeWorkers \ {w} : Tok(v) = t => Pc(v) = "listed"

AtClaim(w) == LET p == publisher[w] IN p.pc = "claimed" =>
  \A v \in EncodeWorkers \ {w} : (Tok(v) = p.tok) =>
     /\ Pc(v) # "completing"
     /\ encodeJob[p.job].tok = p.tok => encodeJob[p.job].st \notin Open

Unlinked(w) == LET p == publisher[w] IN
  p.pc \in Past \/ (p.pc = "failing" /\ p.put) => outputFile.repl[p.tok] = NoFile

\* While a worker encodes or stages, no row claims the path by its file, and
\* only its own row may be under a mutation fence.
NoneInPlace(w) == Pc(w) \in InHand =>
  \A j \in EncodeIds : /\ encodeJob[j].st = "completed" => ~encodeJob[j].res
                       /\ (encodeJob[j].st = "running" /\ encodeJob[j].fence # Unfenced
                            => encodeJob[j].clean = Tok(w))

LockedInPlace(w) ==
  Pc(w) = "completing" /\ publisher[w].was.st # "running" =>
    outputFile.final = Tok(w) \/ encodeUsed.foreign # 0

\* A revoked publication stays revoked until its worker has put the file
\* back: nobody else may settle, recover or clean up that row.
Recalled(r, t) == r.tok = t /\ r.clean = t /\ ~r.pub /\ r.st \in Open /\ r.fence # Unfenced
Revoked(w) == Pc(w) \in {"rollback", "restoring"} => Recalled(encodeJob[publisher[w].job], Tok(w))

\* A reconciliation that finalized without the lock: the claim is over for
\* the worker that still has it.
Finished(v) == LET p == publisher[v] IN
  p.pc \in {"quarantining", "discarding", "cleaning"} /\ ~WorksOnClaim(v) /\ outputLock # v =>
    \A w \in EncodeWorkers : (WorksOnClaim(w) /\ Tok(w) = p.tok) =>
      (encodeJob[p.job].tok = p.tok => encodeJob[p.job].st \notin Open /\ ~encodeJob[p.job].pcp)

Inv2 == /\ Inv1 /\ UnusedClaims /\ Alone /\ Links
        /\ \A w \in EncodeWorkers :
             /\ Staging(w) /\ AtClaim(w) /\ Unlinked(w) /\ NoneInPlace(w)
             /\ LockedInPlace(w) /\ Revoked(w) /\ Finished(w)
        /\ CompletedInPlace

-----------------------------------------------------------------------------
(* What any step of one worker does to its own record, and from where.     *)

WorkerStep(w) ==
  \/ EncodeWork(w) \/ EncodeReconcile(w) \/ EncodeAborts(w) \/ RetainFailedOutput(w)
  \/ RenameOutput(w) \/ PublicationInterrupted(w) \/ EncodeWorkerCrashes(w)
  \/ \E j \in EncodeIds : ClaimEncode(w, j)

Edges ==
  ({"idle"} \X {"claimed", "listed", "completing"})
  \cup ((Early \cup Pre \cup {"published"}) \X {"failing"})
  \cup (Pre \X {"published"})
  \cup ({"settling", "cleaning"} \X {"cancelling"})
  \cup ({"settling", "reporting", "deciding"} \X {"quarantining"})
  \cup {<<"claimed", "encoding">>, <<"encoding", "validating">>, <<"validating", "registered">>,
        <<"registered", "fenced">>, <<"fenced", "staged">>, <<"staged", "exchanged">>,
        <<"failing", "revoking">>, <<"failing", "unstaging">>, <<"revoking", "rollback">>,
        <<"rollback", "restoring">>, <<"restoring", "settling">>, <<"unstaging", "settling">>,
        <<"settling", "reporting">>, <<"published", "completing">>, <<"deciding", "completing">>,
        <<"completing", "discarding">>, <<"returning", "discarding">>, <<"discarding", "cleaning">>,
        <<"quarantining", "cleaning">>, <<"listed", "deciding">>, <<"deciding", "returning">>}

\* One step of a worker that does not return.
Turn(p, q) ==
  /\ <<p.pc, q.pc>> \in Edges
  /\ p.pc # "idle" => /\ q.tok = p.tok /\ q.job = p.job
                      /\ q.base = p.base \/ (q.pc = "encoding" /\ q.base = outputFile.final)
                      /\ q.seen = p.seen \/ (q.pc = "deciding" /\ q.seen = outputFile.quar[p.tok])
                      /\ q.pc \notin {"published"} => q.put = p.put
                      /\ q.pc # "completing" => q.was = p.was
  /\ q.pc \in {"revoking"} => p.put
  /\ q.pc \in {"unstaging"} => ~p.put

LEMMA RunsAt ==
  ASSUME NEW w \in EncodeWorkers
  PROVE  /\ PrepareEncode(w) => Pc(w) = "claimed"
         /\ EncodeFinishes(w) => Pc(w) = "encoding"
         /\ EncodeAborts(w) => Pc(w) = "encoding"
         /\ RegisterPublication(w) => Pc(w) = "validating"
         /\ RetainFailedOutput(w) => Pc(w) = "validating"
         /\ BeginPublication(w) => Pc(w) = "registered"
         /\ StagePublication(w) => Pc(w) = "fenced"
         /\ ExchangeOutput(w) => Pc(w) = "staged"
         /\ RenameOutput(w) => Pc(w) = "staged"
         /\ InspectExchange(w) => Pc(w) = "exchanged"
         /\ CompletePublished(w) => Pc(w) = "published"
         /\ FinalizePublished(w) => Pc(w) = "completing"
         /\ DiscardPartial(w) => Pc(w) = "discarding"
         /\ CompleteCleanup(w) => Pc(w) = "cleaning"
         /\ NoticeCancellation(w) => Pc(w) = "failing"
         /\ RevokePublication(w) => Pc(w) = "revoking"
         /\ RollbackOutput(w) => Pc(w) = "rollback"
         /\ RestorePrior(w) => Pc(w) = "restoring"
         /\ UnstageOutput(w) => Pc(w) = "unstaging"
         /\ SettlePartial(w) => Pc(w) = "settling"
         /\ ReportFailure(w) => Pc(w) = "reporting"
         /\ QuarantinePartial(w) => Pc(w) = "quarantining"
         /\ CompleteCancellation(w) => Pc(w) = "cancelling"
         /\ LockPendingCleanup(w) => Pc(w) = "listed"
         /\ ReturnDisplaced(w) => Pc(w) = "deciding"
         /\ ReplayPublication(w) => Pc(w) = "deciding"
         /\ WithdrawOutput(w) => Pc(w) = "deciding"
         /\ DropPartial(w) => Pc(w) = "deciding"
         /\ ReturnPrior(w) => Pc(w) = "returning"
         /\ PublicationInterrupted(w) => Pc(w) \in {"registered", "fenced", "published"}
         /\ EncodeWorkerCrashes(w) => Pc(w) # "idle"
         /\ EncodeReconcile(w) => Pc(w) = "idle"
         /\ \A j \in EncodeIds : ClaimEncode(w, j) => Pc(w) = "idle"
  BY DEF Pc, Runs, PrepareEncode, EncodeFinishes, EncodeAborts, RegisterPublication, RetainFailedOutput,
         BeginPublication, StagePublication, ExchangeOutput, RenameOutput, InspectExchange, CompletePublished,
         FinalizePublished, DiscardPartial, CompleteCleanup, NoticeCancellation, RevokePublication,
         RollbackOutput, RestorePrior, UnstageOutput, SettlePartial, ReportFailure, QuarantinePartial,
         CompleteCancellation, LockPendingCleanup, ReturnDisplaced, ReplayPublication, WithdrawOutput,
         DropPartial, ReturnPrior, PublicationInterrupted, EncodeWorkerCrashes, EncodeReconcile,
         RecoverExpiredClaims, ReconcileActive, RecoverAbandonedMutation, RecoverCancellation,
         ListPendingCleanup, ClaimEncode

LEMMA ExecutionTurns ==
  ASSUME Typed, NEW w \in EncodeWorkers,
         \/ PrepareEncode(w) \/ EncodeFinishes(w) \/ EncodeAborts(w) \/ RegisterPublication(w)
         \/ RetainFailedOutput(w) \/ BeginPublication(w) \/ StagePublication(w) \/ ExchangeOutput(w)
         \/ RenameOutput(w) \/ InspectExchange(w) \/ CompletePublished(w) \/ FinalizePublished(w)
         \/ DiscardPartial(w) \/ PublicationInterrupted(w) \/ EncodeWorkerCrashes(w)
  PROVE  Return(w) \/ Turn(publisher[w], publisher'[w])
<1> DEFINE p == publisher[w]
           q == publisher'[w]
<1>1. p \in Publishers /\ publisher \in [EncodeWorkers -> Publishers]
  BY DEF Typed
<1>2. \A n : Step(w, n) => q = Merge(p, n)
  BY <1>1, Moved
<1>3. ASSUME NEW x, q = Merge(p, [pc |-> x]), <<p.pc, x>> \in Edges,
             x \notin {"revoking", "unstaging", "completing", "published", "encoding", "deciding"}
      PROVE  Turn(p, q)
  BY <1>1, <1>3 DEF Merge, Publishers, Turn
<1>4. ASSUME q = Merge(p, [pc |-> "published", put |-> TRUE]), p.pc \in Pre
      PROVE  Turn(p, q)
  BY <1>1, <1>4 DEF Merge, Publishers, Turn, Edges, Pre
<1>5. CASE PrepareEncode(w)
  <2>1. /\ p.pc = "claimed"
        /\ q = Merge(p, [pc |-> "failing"]) \/ q = Merge(p, [pc |-> "encoding", base |-> outputFile.final])
    BY <1>2, <1>5 DEF PrepareEncode, Runs
  <2>2. CASE q = Merge(p, [pc |-> "encoding", base |-> outputFile.final])
    BY <1>1, <2>1, <2>2 DEF Merge, Publishers, Turn, Edges
  <2>. QED
    BY <1>3, <2>1, <2>2 DEF Edges, Early
<1>6. CASE EncodeFinishes(w) \/ EncodeAborts(w)
  <2>1. /\ p.pc = "encoding"
        /\ q = Merge(p, [pc |-> "failing"]) \/ q = Merge(p, [pc |-> "validating"])
    BY <1>2, <1>6 DEF EncodeFinishes, EncodeAborts, Runs
  <2>. QED
    BY <1>3, <2>1 DEF Edges, Early
<1>7. CASE RegisterPublication(w)
  <2>1. /\ p.pc = "validating"
        /\ q = Merge(p, [pc |-> "failing"]) \/ q = Merge(p, [pc |-> "registered", pend |-> TRUE])
    BY <1>2, <1>7 DEF RegisterPublication, Runs
  <2>2. CASE q = Merge(p, [pc |-> "registered", pend |-> TRUE])
    BY <1>1, <2>1, <2>2 DEF Merge, Publishers, Turn, Edges
  <2>. QED
    BY <1>3, <2>1, <2>2 DEF Edges, Early
<1>8. CASE BeginPublication(w)
  <2>1. /\ p.pc = "registered"
        /\ q = Merge(p, [pc |-> "failing"]) \/ q = Merge(p, [pc |-> "fenced", fence |-> "mutation"])
    BY <1>2, <1>8 DEF BeginPublication, Runs
  <2>2. CASE q = Merge(p, [pc |-> "fenced", fence |-> "mutation"])
    BY <1>1, <2>1, <2>2 DEF Merge, Publishers, Turn, Edges
  <2>. QED
    BY <1>3, <2>1, <2>2 DEF Edges, Early
<1>9. CASE StagePublication(w)
  <2>1. /\ p.pc = "fenced"
        /\ \/ q = Merge(p, [pc |-> "failing"]) \/ q = Merge(p, [pc |-> "staged"])
           \/ q = Merge(p, [pc |-> "published", put |-> TRUE])
    BY <1>2, <1>9 DEF StagePublication, Runs
  <2>. QED
    BY <1>3, <1>4, <2>1 DEF Edges, Pre
<1>10. CASE ExchangeOutput(w)
  <2>1. p.pc = "staged" /\ q = Merge(p, [pc |-> "exchanged"])
    BY <1>2, <1>10 DEF ExchangeOutput, Runs
  <2>. QED
    BY <1>3, <2>1 DEF Edges, Pre
<1>11. CASE RenameOutput(w) \/ InspectExchange(w)
  <2>1. /\ p.pc \in {"staged", "exchanged"}
        /\ \/ q = Merge(p, [pc |-> "failing"]) \/ Return(w)
           \/ q = Merge(p, [pc |-> "published", put |-> TRUE])
    BY <1>2, <1>11 DEF RenameOutput, InspectExchange, Runs
  <2>. QED
    BY <1>3, <1>4, <2>1 DEF Edges, Pre
<1>12. CASE CompletePublished(w)
  <2>1. /\ p.pc = "published"
        /\ \/ q = Merge(p, [pc |-> "failing"]) \/ Return(w)
           \/ q = Merge(p, [pc |-> "completing", was |-> [Row EXCEPT !.st = "failed"]])
    BY <1>2, <1>12 DEF CompletePublished, Runs
  <2>2. CASE q = Merge(p, [pc |-> "completing", was |-> [Row EXCEPT !.st = "failed"]])
    <3> DEFINE r == [Row EXCEPT !.st = "failed"]
    <3>1. q = Merge(p, [pc |-> "completing", was |-> r])
      BY <2>2
    <3> HIDE DEF r
    <3>. QED
      BY <1>1, <2>1, <3>1 DEF Merge, Publishers, Turn, Edges
  <2>. QED
    BY <1>3, <2>1, <2>2 DEF Edges
<1>13. CASE FinalizePublished(w) \/ DiscardPartial(w)
  <2>1. \/ p.pc = "completing" /\ (Return(w) \/ q = Merge(p, [pc |-> "discarding"]))
        \/ p.pc = "discarding" /\ q = Merge(p, [pc |-> "cleaning"])
    BY <1>2, <1>13 DEF FinalizePublished, DiscardPartial, Runs
  <2>. QED
    BY <1>3, <2>1 DEF Edges
<1>14. CASE PublicationInterrupted(w)
  <2>1. p.pc \in {"registered", "fenced", "published"} /\ q = Merge(p, [pc |-> "failing"])
    BY <1>2, <1>14 DEF PublicationInterrupted
  <2>. QED
    BY <1>3, <2>1 DEF Edges, Early, Pre
<1>. QED
  BY <1>5, <1>6, <1>7, <1>8, <1>9, <1>10, <1>11, <1>12, <1>13, <1>14 DEF RetainFailedOutput, EncodeWorkerCrashes

LEMMA FailureTurns ==
  ASSUME Typed, NEW w \in EncodeWorkers,
         \/ CompleteCleanup(w) \/ NoticeCancellation(w) \/ RevokePublication(w) \/ RollbackOutput(w)
         \/ RestorePrior(w) \/ UnstageOutput(w) \/ SettlePartial(w) \/ ReportFailure(w)
         \/ QuarantinePartial(w) \/ CompleteCancellation(w)
  PROVE  Return(w) \/ Turn(publisher[w], publisher'[w])
<1> DEFINE p == publisher[w]
           q == publisher'[w]
<1>1. p \in Publishers /\ publisher \in [EncodeWorkers -> Publishers]
  BY DEF Typed
<1>2. \A n : Step(w, n) => q = Merge(p, n)
  BY <1>1, Moved
<1>3. ASSUME NEW x, <<p.pc, x>> \in Edges, x = "revoking" => p.put, x = "unstaging" => ~p.put,
             x \notin {"completing", "published", "encoding", "deciding"}
      PROVE  /\ q = Merge(p, [pc |-> x]) => Turn(p, q)
             /\ \A b : /\ q = Merge(p, [pc |-> x, pend |-> b]) => Turn(p, q)
                       /\ q = Merge(p, [pc |-> x, can |-> b]) => Turn(p, q)
                       /\ q = Merge(p, [pc |-> x, bad |-> b]) => Turn(p, q)
                       /\ q = Merge(p, [pc |-> x, keep |-> b]) => Turn(p, q)
  <2>1. ASSUME q.pc = x, q.tok = p.tok, q.job = p.job, q.base = p.base, q.seen = p.seen, q.put = p.put, q.was = p.was
        PROVE  Turn(p, q)
    BY <1>3, <2>1 DEF Turn
  <2>. QED
    BY <1>1, <2>1 DEF Merge, Publishers
<1>4. CASE CompleteCleanup(w)
  <2>1. p.pc = "cleaning" /\ (Return(w) \/ q = Merge(p, [pc |-> "cancelling", pend |-> FALSE]))
    BY <1>2, <1>4 DEF CompleteCleanup, Runs
  <2>. QED
    BY <1>3, <2>1 DEF Edges
<1>5. CASE NoticeCancellation(w)
  <2> DEFINE b == encodeJob[p.job].st = "cancellation_requested" /\ encodeJob[p.job].tok = p.tok /\ encodeJob[p.job].live
             to == IF p.put THEN "revoking" ELSE "unstaging"
  <2>1. p.pc = "failing" /\ q = Merge(p, [pc |-> to, can |-> b])
    BY <1>2, <1>5 DEF NoticeCancellation, Runs
  <2>2. (p.put /\ to = "revoking") \/ (~p.put /\ to = "unstaging")
    BY <1>1 DEF Publishers
  <2> HIDE DEF b, to
  <2>. QED
    BY <1>3, <2>1, <2>2 DEF Edges
<1>6. CASE RevokePublication(w)
  <2>1. p.pc = "revoking" /\ (Return(w) \/ q = Merge(p, [pc |-> "rollback"]))
    BY <1>2, <1>6 DEF RevokePublication, Runs
  <2>. QED
    BY <1>3, <2>1 DEF Edges
<1>7. CASE RollbackOutput(w)
  <2> DEFINE b == outputFile.final = p.tok
  <2>1. p.pc = "rollback" /\ (q = Merge(p, [pc |-> "restoring"]) \/ q = Merge(p, [pc |-> "restoring", bad |-> b]))
    BY <1>2, <1>7 DEF RollbackOutput, Runs
  <2> HIDE DEF b
  <2>. QED
    BY <1>3, <2>1 DEF Edges
<1>8. CASE RestorePrior(w)
  <2> DEFINE b == p.bad \/ outputFile.prior[p.tok] # NoFile
  <2>1. p.pc = "restoring" /\ (q = Merge(p, [pc |-> "settling", keep |-> TRUE]) \/ q = Merge(p, [pc |-> "settling", bad |-> b]))
    BY <1>2, <1>8 DEF RestorePrior, Runs
  <2> HIDE DEF b
  <2>. QED
    BY <1>3, <2>1 DEF Edges
<1>9. CASE UnstageOutput(w)
  <2> DEFINE b == p.base # NoFile /\ outputFile.final = p.base
  <2>1. p.pc = "unstaging" /\ q = Merge(p, [pc |-> "settling", keep |-> b])
    BY <1>2, <1>9 DEF UnstageOutput, Runs
  <2> HIDE DEF b
  <2>. QED
    BY <1>3, <2>1 DEF Edges
<1>10. CASE SettlePartial(w)
  <2> DEFINE to == IF p.can THEN (IF p.pend /\ ~p.bad THEN "quarantining" ELSE "cancelling") ELSE "reporting"
  <2>1. /\ p.pc = "settling" /\ to \in {"quarantining", "cancelling", "reporting"}
        /\ \/ q = Merge(p, [pc |-> to]) \/ q = Merge(p, [pc |-> to, pend |-> TRUE])
           \/ q = Merge(p, [pc |-> to, bad |-> TRUE])
    BY <1>2, <1>10 DEF SettlePartial, Runs
  <2> HIDE DEF to
  <2>. QED
    BY <1>3, <2>1 DEF Edges
<1>11. CASE ReportFailure(w) \/ QuarantinePartial(w)
  <2>1. \/ p.pc = "reporting" /\ (Return(w) \/ q = Merge(p, [pc |-> "quarantining"]))
        \/ p.pc = "quarantining" /\ (Return(w) \/ q = Merge(p, [pc |-> "cleaning"]))
    BY <1>2, <1>11 DEF ReportFailure, QuarantinePartial, Runs
  <2>. QED
    BY <1>3, <2>1 DEF Edges
<1>. QED
  BY <1>4, <1>5, <1>6, <1>7, <1>8, <1>9, <1>10, <1>11 DEF CompleteCancellation

LEMMA ReconciliationTurns ==
  ASSUME Typed, NEW w \in EncodeWorkers,
         \/ LockPendingCleanup(w) \/ ReturnDisplaced(w) \/ ReplayPublication(w) \/ WithdrawOutput(w)
         \/ ReturnPrior(w) \/ DropPartial(w)
         \/ \E j \in EncodeIds : ReconcileActive(w, j) \/ ListPendingCleanup(w, j) \/ ClaimEncode(w, j)
  PROVE  Return(w) \/ Turn(publisher[w], publisher'[w])
<1> DEFINE p == publisher[w]
           q == publisher'[w]
           t == p.tok
<1>1. p \in Publishers /\ publisher \in [EncodeWorkers -> Publishers] /\ outputFile \in Outputs
  BY DEF Typed
<1>2. \A n : Step(w, n) => q = Merge(p, n)
  BY <1>1, Moved
<1>3. ASSUME NEW x, <<p.pc, x>> \in Edges,
             x \notin {"published", "encoding", "deciding", "revoking", "unstaging"}
      PROVE  /\ x # "completing" /\ q = Merge(p, [pc |-> x]) => Turn(p, q)
             /\ \A f : x # "completing" /\ q = Merge(p, [pc |-> x, fence |-> f]) => Turn(p, q)
             /\ \A f, s : q = Merge(p, [pc |-> x, fence |-> f, was |-> s]) => Turn(p, q) \/ x # "completing"
  <2>1. ASSUME q.pc = x, q.tok = p.tok, q.job = p.job, q.base = p.base, q.seen = p.seen, q.put = p.put,
               x = "completing" \/ q.was = p.was
        PROVE  Turn(p, q)
    BY <1>3, <2>1 DEF Turn
  <2>2. x # "completing" /\ q = Merge(p, [pc |-> x]) => Turn(p, q)
    BY <1>1, <2>1 DEF Merge, Publishers
  <2>3. ASSUME NEW f, x # "completing", q = Merge(p, [pc |-> x, fence |-> f]) PROVE Turn(p, q)
    BY <1>1, <2>1, <2>3 DEF Merge, Publishers
  <2>4. ASSUME NEW f, NEW s, x = "completing", q = Merge(p, [pc |-> x, fence |-> f, was |-> s]) PROVE Turn(p, q)
    <3>1. q.pc = x /\ q.tok = p.tok /\ q.job = p.job /\ q.base = p.base /\ q.seen = p.seen /\ q.put = p.put
      BY <1>1, <2>4 DEF Merge, Publishers
    <3>. QED
      BY <2>1, <2>4, <3>1
  <2>. QED
    BY <2>2, <2>3, <2>4
<1>4. CASE LockPendingCleanup(w)
  <2>1. /\ p.pc = "listed"
        /\ \/ Return(w) \/ q = Merge(p, [pc |-> "deciding"])
           \/ q = Merge(p, [pc |-> "deciding", seen |-> outputFile.quar[t]])
    BY <1>2, <1>4 DEF LockPendingCleanup, Runs
  <2> DEFINE s == outputFile.quar[t]
  <2> HIDE DEF s
  <2>2. CASE q = Merge(p, [pc |-> "deciding"])
    BY <1>1, <2>1, <2>2 DEF Merge, Publishers, Turn, Edges
  <2>3. CASE q = Merge(p, [pc |-> "deciding", seen |-> s])
    BY <1>1, <2>1, <2>3 DEF Merge, Publishers, Turn, Edges, s
  <2>. QED
    BY <2>1, <2>2, <2>3 DEF s
<1>5. CASE ReturnDisplaced(w)
  <2> DEFINE f == IF p.fence = Unfenced THEN w ELSE p.fence
  <2>1. p.pc = "deciding" /\ (Return(w) \/ q = Merge(p, [pc |-> "quarantining", fence |-> f]))
    BY <1>2, <1>5 DEF ReturnDisplaced, Runs
  <2> HIDE DEF f
  <2>. QED
    BY <1>3, <2>1 DEF Edges
<1>6. CASE ReplayPublication(w)
  <2> DEFINE f == IF p.fence = Unfenced THEN w ELSE p.fence
             s == encodeJob[p.job]
  <2>1. p.pc = "deciding" /\ (Return(w) \/ q = Merge(p, [pc |-> "completing", fence |-> f, was |-> s]))
    BY <1>2, <1>6 DEF ReplayPublication, Runs
  <2> HIDE DEF f, s
  <2>. QED
    BY <1>3, <2>1 DEF Edges
<1>7. CASE WithdrawOutput(w) \/ DropPartial(w)
  <2>1. /\ p.pc = "deciding"
        /\ Return(w) \/ q = Merge(p, [pc |-> "returning", fence |-> w]) \/ q = Merge(p, [pc |-> "quarantining"])
    BY <1>2, <1>7 DEF WithdrawOutput, DropPartial, Runs
  <2>. QED
    BY <1>3, <2>1 DEF Edges
<1>8. CASE ReturnPrior(w)
  <2>1. p.pc = "returning" /\ (Return(w) \/ q = Merge(p, [pc |-> "discarding"]))
    BY <1>2, <1>8 DEF ReturnPrior, Runs
  <2>. QED
    BY <1>3, <2>1 DEF Edges
<1>9. ASSUME NEW j \in EncodeIds, ReconcileActive(w, j) PROVE Turn(p, q)
  <2> DEFINE r == encodeJob[j]
             c == r.clean
             f == r.fence
  <2>1. p.pc = "idle" /\ q = Merge(p, [pc |-> "completing", job |-> j, tok |-> c, fence |-> f, was |-> r])
    BY <1>2, <1>9 DEF ReconcileActive
  <2> HIDE DEF c, f, r
  <2>2. q.pc = "completing"
    BY <1>1, <2>1 DEF Merge, Publishers
  <2>. QED
    BY <2>1, <2>2 DEF Turn, Edges
<1>10. ASSUME NEW j \in EncodeIds, ListPendingCleanup(w, j) PROVE Turn(p, q)
  <2>1. p.pc = "idle" /\ \E n : q = Merge(p, n) /\ n["pc"] = "listed" /\ "pc" \in DOMAIN n
    BY <1>2, <1>10 DEF ListPendingCleanup
  <2>2. q.pc = "listed"
    BY <1>1, <2>1 DEF Merge, Publishers
  <2>. QED
    BY <2>1, <2>2 DEF Turn, Edges
<1>11. ASSUME NEW j \in EncodeIds, ClaimEncode(w, j) PROVE Turn(p, q)
  <2> DEFINE c == encodeUsed.claims + 1
  <2>1. p.pc = "idle" /\ q = Merge(p, [pc |-> "claimed", job |-> j, tok |-> c])
    BY <1>2, <1>11 DEF ClaimEncode
  <2> HIDE DEF c
  <2>2. q.pc = "claimed"
    BY <1>1, <2>1 DEF Merge, Publishers
  <2>. QED
    BY <2>1, <2>2 DEF Turn, Edges
<1>. QED
  BY <1>4, <1>5, <1>6, <1>7, <1>8, <1>9, <1>10, <1>11

\* Every step of a worker: its record turns, it returns, or it recovers rows
\* between two polls.
LEMMA WorkerTurns ==
  ASSUME Typed, NEW w \in EncodeWorkers, WorkerStep(w)
  PROVE  /\ publisher' = publisher \/ Return(w) \/ Turn(publisher[w], publisher'[w])
         /\ \A v \in EncodeWorkers \ {w} : publisher'[v] = publisher[v]
         /\ Return(w) => publisher'[w] = Idle
<1>1. publisher' = publisher \/ Return(w) \/ Turn(publisher[w], publisher'[w])
  <2>1. CASE EncodeReconcile(w)
    BY <2>1, ReconciliationTurns DEF EncodeReconcile, RecoverExpiredClaims, RecoverAbandonedMutation, RecoverCancellation
  <2>2. CASE EncodeWork(w)
    BY <2>2, ExecutionTurns, FailureTurns, ReconciliationTurns DEF EncodeWork
  <2>. QED
    BY <2>1, <2>2, ExecutionTurns, ReconciliationTurns DEF WorkerStep
<1>2. publisher' = publisher \/ (\E n : Step(w, n)) \/ Return(w)
  <2>1. CASE EncodeWork(w) \/ EncodeAborts(w) \/ RetainFailedOutput(w) \/ RenameOutput(w)
    BY <2>1, WorkFrame
  <2>2. CASE EncodeReconcile(w)
    BY <2>2 DEF EncodeReconcile, RecoverExpiredClaims, RecoverAbandonedMutation, RecoverCancellation,
                ReconcileActive, ListPendingCleanup
  <2>. QED
    BY <2>1, <2>2, ZenonT(60) DEF WorkerStep, PublicationInterrupted, EncodeWorkerCrashes, ClaimEncode
<1>. QED
  BY <1>1, <1>2, Moved DEF Typed

-----------------------------------------------------------------------------
(* What a step does to the directory: it touches the names of one claim,   *)
(* and only gives names to files that had one, or to its claim's own file. *)

Names(f, s) == <<f.part[s], f.prior[s], f.repl[s], f.quar[s]>>
Touch(g, t, new) ==
  /\ g \in Outputs
  /\ \A s \in Claims \ {t} : Names(g, s) = Names(outputFile, s)
  /\ \A i \in Inodes \ new : Nowhere(i) => Nameless(g, i)
Present(x, new) == x \in Files /\ (x = NoFile \/ x \in new \/ ~Nowhere(x))

LEMMA AbsentStays ==
  ASSUME NEW g \in Outputs, NEW i \in Inodes, Nameless(g, i), NEW t \in Claims, NEW x \in Files, x # i
  PROVE  /\ Nameless([g EXCEPT !.final = x], i)
         /\ Nameless([g EXCEPT !.part[t] = x], i) /\ Nameless([g EXCEPT !.prior[t] = x], i)
         /\ Nameless([g EXCEPT !.repl[t] = x], i) /\ Nameless([g EXCEPT !.quar[t] = x], i)
         /\ Nameless(Aside(g, x), i)
<1>1. Nameless([g EXCEPT !.final = x], i)
  BY DEF Nameless, Outputs
<1>2. Nameless([g EXCEPT !.part[t] = x], i) /\ Nameless([g EXCEPT !.prior[t] = x], i)
  BY DEF Nameless, Outputs
<1>3. Nameless([g EXCEPT !.repl[t] = x], i) /\ Nameless([g EXCEPT !.quar[t] = x], i)
  BY DEF Nameless, Outputs
<1>4. Nameless(Aside(g, x), i)
  BY DEF Nameless, Outputs, Aside
<1>. QED
  BY <1>1, <1>2, <1>3, <1>4

LEMMA NamesStay ==
  ASSUME NEW g \in Outputs, NEW s \in Claims, NEW x \in Files, NEW t \in Claims, s # t
  PROVE  /\ Names([g EXCEPT !.final = x], s) = Names(g, s)
         /\ Names([g EXCEPT !.part[t] = x], s) = Names(g, s)
         /\ Names([g EXCEPT !.prior[t] = x], s) = Names(g, s)
         /\ Names([g EXCEPT !.repl[t] = x], s) = Names(g, s)
         /\ Names([g EXCEPT !.quar[t] = x], s) = Names(g, s)
         /\ Names(Aside(g, x), s) = Names(g, s)
  BY DEF Names, Outputs, Aside

LEMMA TouchMore ==
  ASSUME NEW t \in Claims, NEW new, NEW g, Touch(g, t, new), NEW x, Present(x, new)
  PROVE  /\ Touch([g EXCEPT !.final = x], t, new)
         /\ Touch([g EXCEPT !.part[t] = x], t, new) /\ Touch([g EXCEPT !.prior[t] = x], t, new)
         /\ Touch([g EXCEPT !.repl[t] = x], t, new) /\ Touch([g EXCEPT !.quar[t] = x], t, new)
         /\ Touch(Aside(g, x), t, new)
<1>1. g \in Outputs /\ x \in Files
  BY DEF Touch, Present
<1>2. \A i \in Inodes \ new : Nowhere(i) => x # i
  BY Blank DEF Present
<1>3. \A i \in Inodes \ new : Nowhere(i) =>
         /\ Nameless([g EXCEPT !.final = x], i)
         /\ Nameless([g EXCEPT !.part[t] = x], i) /\ Nameless([g EXCEPT !.prior[t] = x], i)
         /\ Nameless([g EXCEPT !.repl[t] = x], i) /\ Nameless([g EXCEPT !.quar[t] = x], i)
         /\ Nameless(Aside(g, x), i)
  BY <1>1, <1>2, AbsentStays DEF Touch
<1>4. \A s \in Claims \ {t} :
         /\ Names([g EXCEPT !.final = x], s) = Names(outputFile, s)
         /\ Names([g EXCEPT !.part[t] = x], s) = Names(outputFile, s)
         /\ Names([g EXCEPT !.prior[t] = x], s) = Names(outputFile, s)
         /\ Names([g EXCEPT !.repl[t] = x], s) = Names(outputFile, s)
         /\ Names([g EXCEPT !.quar[t] = x], s) = Names(outputFile, s)
         /\ Names(Aside(g, x), s) = Names(outputFile, s)
  BY <1>1, NamesStay, ZenonT(60) DEF Touch
<1>5. /\ [g EXCEPT !.final = x] \in Outputs /\ [g EXCEPT !.part[t] = x] \in Outputs
      /\ [g EXCEPT !.prior[t] = x] \in Outputs /\ [g EXCEPT !.repl[t] = x] \in Outputs
      /\ [g EXCEPT !.quar[t] = x] \in Outputs /\ Aside(g, x) \in Outputs
  BY <1>1, FileFits
<1>. QED
  BY <1>3, <1>4, <1>5 DEF Touch

LEMMA TouchNone ==
  ASSUME outputFile \in Outputs, NEW t, NEW new
  PROVE  Touch(outputFile, t, new)
  BY DEF Touch, Nowhere

LEMMA AllPresent ==
  ASSUME Typed, NEW new, NEW t \in Claims, NEW w \in EncodeWorkers
  PROVE  /\ Present(NoFile, new) /\ Present(outputFile.final, new)
         /\ Present(outputFile.part[t], new) /\ Present(outputFile.prior[t], new)
         /\ Present(outputFile.repl[t], new) /\ Present(outputFile.quar[t], new)
         /\ Present(publisher[w].base, new) /\ Present(publisher[w].seen, new)
         /\ t \in new => Present(t, new)
<1>1. outputFile \in Outputs /\ publisher[w] \in Publishers
  BY DEF Typed
<1>. QED
  BY <1>1, Blank DEF Present, Nowhere, Nameless, Outputs, Publishers

Newly(w) == IF Pc(w) \in InHand \cup {"claimed"} THEN {Tok(w)} ELSE {}

LEMMA LinkTouches ==
  ASSUME Typed, NEW t \in Claims, NEW w \in EncodeWorkers, NEW new
  PROVE  Touch(CleanedLink(t), t, new)
<1> DEFINE f == outputFile
           g == IF f.repl[t] \in {t, f.prior[t]} THEN f ELSE Aside(f, f.repl[t])
<1>1. Touch(g, t, new)
  BY AllPresent, TouchNone, TouchMore DEF Typed
<1>2. CleanedLink(t) = [g EXCEPT !.repl[t] = NoFile]
  BY DEF CleanedLink
<1>3. Present(NoFile, new)
  BY AllPresent
<1>. HIDE DEF g
<1>4. Touch([g EXCEPT !.repl[t] = NoFile], t, new)
  BY <1>1, <1>3, TouchMore
<1>. QED
  BY <1>2, <1>4

LEMMA FilesTouched ==
  ASSUME Typed, NEW w \in EncodeWorkers, Knows(w), WorkerStep(w)
  PROVE  Touch(outputFile', Tok(w), Newly(w))
<1> DEFINE p == publisher[w]
           t == p.tok
           f == outputFile
           new == Newly(w)
<1>1. f \in Outputs /\ Touch(f, t, new)
  BY TouchNone DEF Typed
<1>2. CASE p.pc = "idle"
  BY <1>1, <1>2, RunsAt DEF WorkerStep, EncodeReconcile, EncodeWork, Pc, Tok, ClaimEncode, RecoverExpiredClaims,
     ReconcileActive, RecoverAbandonedMutation, RecoverCancellation, ListPendingCleanup
<1>3. ASSUME p.pc # "idle" PROVE t \in Claims
  BY <1>3, AtWork DEF Pc
<1> SUFFICES ASSUME p.pc # "idle" PROVE Touch(outputFile', t, new)
  BY <1>2 DEF Tok
<1>4. /\ t \in Claims /\ Present(NoFile, new) /\ Present(f.final, new) /\ Present(f.part[t], new)
      /\ Present(f.prior[t], new) /\ Present(f.repl[t], new) /\ Present(f.quar[t], new)
      /\ Present(p.base, new) /\ Present(p.seen, new)
      /\ p.pc \in InHand \cup {"claimed"} => Present(t, new)
  BY <1>3, AllPresent DEF Newly, Pc, Tok
<1>5. Touch(CleanedLink(t), t, new)
  BY <1>4, LinkTouches
<1>. HIDE DEF new
<1>6. CASE PrepareEncode(w)
  <2>1. Present(t, new)
    BY <1>4, <1>6, RunsAt DEF Pc
  <2>2. Touch([f EXCEPT !.part[t] = t], t, new)
    BY <1>1, <1>4, <2>1, TouchMore
  <2>. QED
    BY <1>1, <1>6, <2>2 DEF PrepareEncode
<1>7. CASE StagePublication(w)
  <2>1. Present(t, new)
    BY <1>4, <1>7, RunsAt DEF Pc, InHand
  <2>2. Touch([f EXCEPT !.prior[t] = p.base], t, new)
    BY <1>1, <1>4, <2>1, TouchMore
  <2>3. Touch([[f EXCEPT !.prior[t] = p.base] EXCEPT !.repl[t] = t], t, new)
    BY <1>4, <2>1, <2>2, TouchMore
  <2>4. Touch([f EXCEPT !.final = t], t, new)
    BY <1>1, <1>4, <2>1, TouchMore
  <2>. QED
    BY <1>1, <1>7, <2>3, <2>4 DEF StagePublication, StageReplacement
<1>8. CASE ExchangeOutput(w) \/ RenameOutput(w)
  <2>1. Present(t, new)
    BY <1>4, <1>8, RunsAt DEF Pc, InHand
  <2>2. Touch([f EXCEPT !.final = t], t, new)
    BY <1>1, <1>4, <2>1, TouchMore
  <2>3. /\ Touch([[f EXCEPT !.final = t] EXCEPT !.repl[t] = f.final], t, new)
        /\ Touch([[f EXCEPT !.final = t] EXCEPT !.repl[t] = NoFile], t, new)
    BY <1>4, <2>2, TouchMore
  <2>. QED
    BY <1>1, <1>8, <2>3 DEF ExchangeOutput, RenameOutput
<1>9. CASE InspectExchange(w)
  <2>1. Present(t, new)
    BY <1>4, <1>9, RunsAt DEF Pc, InHand
  <2>2. Touch([f EXCEPT !.final = f.repl[t]], t, new) /\ Touch([f EXCEPT !.repl[t] = NoFile], t, new)
    BY <1>1, <1>4, <2>1, TouchMore
  <2>3. Touch([[f EXCEPT !.final = f.repl[t]] EXCEPT !.repl[t] = t], t, new)
    BY <1>4, <2>1, <2>2, TouchMore
  <2>. QED
    BY <1>1, <1>9, <2>2, <2>3 DEF InspectExchange
<1>10. CASE RollbackOutput(w)
  <2>1. CASE f.final = t
    <3>1. Touch([f EXCEPT !.final = NoFile], t, new) /\ Present(t, new)
      BY <1>1, <1>4, <2>1, TouchMore
    <3>2. Touch([[f EXCEPT !.final = NoFile] EXCEPT !.quar[t] = t], t, new)
      BY <1>4, <3>1, TouchMore
    <3>. QED
      BY <1>1, <1>10, <3>2 DEF RollbackOutput
  <2>. QED
    BY <1>1, <1>10, <2>1 DEF RollbackOutput
<1>11. CASE RestorePrior(w) \/ ReturnPrior(w)
  <2>1. Touch([f EXCEPT !.final = f.prior[t]], t, new)
    BY <1>1, <1>4, TouchMore
  <2>. QED
    BY <1>1, <1>11, <2>1 DEF RestorePrior, ReturnPrior
<1>12. CASE UnstageOutput(w)
  <2> DEFINE g == IF f.repl[t] = t THEN f ELSE Aside(f, f.repl[t])
  <2>1. Touch(g, t, new)
    BY <1>1, <1>4, TouchMore, ZenonT(60)
  <2>2. outputFile' = [g EXCEPT !.repl[t] = NoFile]
    BY <1>12 DEF UnstageOutput
  <2> HIDE DEF g
  <2>. QED
    BY <1>4, <2>1, <2>2, TouchMore
<1>13. CASE SettlePartial(w) \/ QuarantinePartial(w)
  <2>1. Touch(Aside(f, f.part[t]), t, new)
    BY <1>1, <1>4, TouchMore
  <2>2. Touch([Aside(f, f.part[t]) EXCEPT !.part[t] = NoFile], t, new)
    BY <1>4, <2>1, TouchMore
  <2>. QED
    BY <1>1, <1>13, <2>2 DEF SettlePartial, QuarantinePartial
<1>14. CASE LockPendingCleanup(w)
  <2>1. Touch([f EXCEPT !.quar[t] = NoFile], t, new)
    BY <1>1, <1>4, TouchMore
  <2>2. Touch([[f EXCEPT !.quar[t] = NoFile] EXCEPT !.final = f.quar[t]], t, new)
    BY <1>4, <2>1, TouchMore
  <2>. QED
    BY <1>1, <1>14, <2>1, <2>2 DEF LockPendingCleanup
<1>15. CASE ReturnDisplaced(w)
  <2>1. Touch([f EXCEPT !.final = f.repl[t]], t, new)
    BY <1>1, <1>4, TouchMore
  <2>2. Touch([[f EXCEPT !.final = f.repl[t]] EXCEPT !.repl[t] = NoFile], t, new)
    BY <1>4, <2>1, TouchMore
  <2>. QED
    BY <1>1, <1>15, <2>2 DEF ReturnDisplaced
<1>16. CASE ReplayPublication(w)
  BY <1>5, <1>16 DEF ReplayPublication
<1>17. CASE WithdrawOutput(w)
  <2>1. Touch([CleanedLink(t) EXCEPT !.final = NoFile], t, new)
    BY <1>4, <1>5, TouchMore
  <2>2. Touch([[CleanedLink(t) EXCEPT !.final = NoFile] EXCEPT !.quar[t] = p.seen], t, new)
    BY <1>4, <2>1, TouchMore
  <2>. QED
    BY <1>5, <1>17, <2>2 DEF WithdrawOutput
<1>18. CASE DropPartial(w)
  <2>1. Touch([CleanedLink(t) EXCEPT !.final = p.base], t, new)
    BY <1>4, <1>5, TouchMore
  <2>. QED
    BY <1>5, <1>18, <2>1 DEF DropPartial
<1>19. CASE DiscardPartial(w)
  <2>1. Touch([f EXCEPT !.part[t] = NoFile], t, new)
    BY <1>1, <1>4, TouchMore
  <2>. QED
    BY <1>19, <2>1 DEF DiscardPartial
<1>20. CASE \/ EncodeFinishes(w) \/ RegisterPublication(w) \/ BeginPublication(w) \/ CompletePublished(w)
            \/ FinalizePublished(w) \/ CompleteCleanup(w) \/ NoticeCancellation(w)
            \/ RevokePublication(w) \/ ReportFailure(w) \/ CompleteCancellation(w)
            \/ EncodeAborts(w) \/ RetainFailedOutput(w) \/ PublicationInterrupted(w) \/ EncodeWorkerCrashes(w)
  BY <1>1, <1>20 DEF EncodeFinishes, RegisterPublication, BeginPublication, CompletePublished,
     FinalizePublished, CompleteCleanup, NoticeCancellation, RevokePublication, ReportFailure,
     CompleteCancellation, EncodeAborts, RetainFailedOutput, PublicationInterrupted, EncodeWorkerCrashes
<1>21. ~EncodeReconcile(w) /\ \A j \in EncodeIds : ~ClaimEncode(w, j)
  BY RunsAt DEF Pc
<1>. QED
  BY <1>6, <1>7, <1>8, <1>9, <1>10, <1>11, <1>12, <1>13, <1>14, <1>15, <1>16, <1>17, <1>18, <1>19,
     <1>20, <1>21 DEF EncodeWork, WorkerStep

\* Which steps move the file at the output path.
LEMMA FinalMoves ==
  ASSUME NEW w \in EncodeWorkers, WorkerStep(w), outputFile \in Outputs, Pc(w) # "idle" => Tok(w) \in Claims,
         outputFile'.final # outputFile.final
  PROVE  \/ StagePublication(w) \/ ExchangeOutput(w) \/ RenameOutput(w) \/ InspectExchange(w)
         \/ RollbackOutput(w) /\ outputFile.final = Tok(w)
         \/ Pc(w) \in {"restoring", "returning", "deciding"} /\ outputFile.final = NoFile
         \/ Pc(w) = "listed" /\ outputFile.final = NoFile /\ outputLock = Nobody
         \/ ReturnDisplaced(w)
         \/ WithdrawOutput(w) /\ outputFile.final = Tok(w)
            /\ encodeJob[publisher[w].job].clean = Tok(w) /\ ~encodeJob[publisher[w].job].pub
<1> DEFINE t == Tok(w)
           f == outputFile
<1>1. Pc(w) # "idle" => CleanedLink(t).final = f.final /\ Aside(f, f.part[t]).final = f.final
                        /\ Aside(f, f.repl[t]).final = f.final
  BY DEF CleanedLink, Aside, Outputs
<1>2. CASE \/ PrepareEncode(w) \/ DiscardPartial(w) \/ LockPendingCleanup(w) \/ RollbackOutput(w)
           \/ RestorePrior(w) \/ ReturnPrior(w)
  BY <1>2, RunsAt, ZenonT(60)
     DEF PrepareEncode, DiscardPartial, LockPendingCleanup, RollbackOutput, RestorePrior, ReturnPrior,
     Outputs, Tok, Pc
<1>3. CASE UnstageOutput(w)
  <2> DEFINE g == IF f.repl[t] = t THEN f ELSE Aside(f, f.repl[t])
  <2>1. outputFile' = [g EXCEPT !.repl[t] = NoFile] /\ Pc(w) # "idle"
    BY <1>3, RunsAt DEF UnstageOutput, Tok
  <2>2. g.final = f.final /\ g \in Outputs
    <3>1. Aside(f, f.repl[t]) \in Outputs
      BY <2>1, FileFits, ZenonT(60) DEF Outputs
    <3>. QED
      BY <1>1, <2>1, <3>1
  <2> HIDE DEF g
  <2>3. [g EXCEPT !.repl[t] = NoFile].final = g.final
    BY <2>2 DEF Outputs
  <2>. QED
    BY <2>1, <2>2, <2>3
<1>4. CASE SettlePartial(w) \/ QuarantinePartial(w)
  <2>1. Pc(w) # "idle" /\ (outputFile' = f \/ outputFile' = [Aside(f, f.part[t]) EXCEPT !.part[t] = NoFile])
    BY <1>4, RunsAt DEF SettlePartial, QuarantinePartial, Tok
  <2>. QED
    BY <2>1 DEF Aside, Outputs
<1>5. CASE ReplayPublication(w)
  BY <1>1, <1>5, RunsAt DEF ReplayPublication, Tok
<1>6. CASE WithdrawOutput(w)
  <2>1. Pc(w) = "deciding" /\ outputFile.final = publisher[w].seen /\ publisher[w].seen = t
        /\ encodeJob[publisher[w].job].clean = t /\ ~encodeJob[publisher[w].job].pub
    BY <1>1, <1>6, RunsAt DEF WithdrawOutput, Tok, SawMatch
  <2>. QED
    BY <1>6, <2>1
<1>7. CASE DropPartial(w)
  <2>1. Pc(w) = "deciding" /\ CleanedLink(t) \in Outputs
    BY <1>7, RunsAt, LinkFits
  <2>. QED
    BY <1>1, <1>7, <2>1 DEF DropPartial, Tok
<1>8. CASE \/ EncodeFinishes(w) \/ RegisterPublication(w) \/ BeginPublication(w) \/ CompletePublished(w)
           \/ FinalizePublished(w) \/ CompleteCleanup(w) \/ NoticeCancellation(w)
           \/ RevokePublication(w) \/ ReportFailure(w) \/ CompleteCancellation(w)
           \/ EncodeAborts(w) \/ RetainFailedOutput(w) \/ PublicationInterrupted(w) \/ EncodeWorkerCrashes(w)
  BY <1>8 DEF EncodeFinishes, RegisterPublication, BeginPublication, CompletePublished,
     FinalizePublished, CompleteCleanup, NoticeCancellation, RevokePublication, ReportFailure,
     CompleteCancellation, EncodeAborts, RetainFailedOutput, PublicationInterrupted, EncodeWorkerCrashes
<1>9. CASE EncodeReconcile(w) \/ \E j \in EncodeIds : ClaimEncode(w, j)
  BY <1>9 DEF ClaimEncode, EncodeReconcile, RecoverExpiredClaims, ReconcileActive,
     RecoverAbandonedMutation, RecoverCancellation, ListPendingCleanup
<1>. QED
  BY <1>2, <1>3, <1>4, <1>5, <1>6, <1>7, <1>8, <1>9 DEF EncodeWork, WorkerStep

\* What becomes of the names of the claim a worker has.
LEMMA OwnNames ==
  ASSUME NEW w \in EncodeWorkers, WorkerStep(w), outputFile \in Outputs, Tok(w) \in Claims
  PROVE  LET t == Tok(w)  f == outputFile  g == outputFile' IN
         /\ \/ g.part[t] = f.part[t]
            \/ Pc(w) = "claimed" /\ g.part[t] = t
            \/ Pc(w) \in {"discarding", "settling", "quarantining"} /\ g.part[t] = NoFile
         /\ g.prior[t] = f.prior[t] \/ Pc(w) = "fenced"
         /\ g.repl[t] \in {f.repl[t], NoFile} \/ Pc(w) \in {"fenced", "staged", "exchanged"}
         /\ \/ g.quar[t] \in {f.quar[t], NoFile}
            \/ Pc(w) = "rollback" /\ f.final = t
            \/ Pc(w) = "deciding" /\ publisher[w].seen = t
<1> DEFINE t == Tok(w)
           f == outputFile
           link == CleanedLink(t)
<1>1. /\ link \in Outputs /\ link.part = f.part /\ link.prior = f.prior /\ link.quar = f.quar
      /\ link.repl[t] = NoFile
  <2> DEFINE g == IF f.repl[t] \in {t, f.prior[t]} THEN f ELSE Aside(f, f.repl[t])
  <2>1. Aside(f, f.repl[t]) \in Outputs
    BY FileFits, ZenonT(60) DEF Outputs
  <2>2. g \in Outputs /\ g.part = f.part /\ g.prior = f.prior /\ g.quar = f.quar
    BY <2>1 DEF Aside, Outputs
  <2>3. link = [g EXCEPT !.repl[t] = NoFile] /\ link \in Outputs
    BY LinkFits DEF CleanedLink
  <2> HIDE DEF g, link
  <2>. QED
    BY <2>2, <2>3 DEF Outputs
<1>2. CASE \/ PrepareEncode(w) \/ DiscardPartial(w) \/ LockPendingCleanup(w)
           \/ StagePublication(w) \/ ExchangeOutput(w) \/ RenameOutput(w) \/ InspectExchange(w)
  BY <1>2, RunsAt, ZenonT(60) DEF PrepareEncode, DiscardPartial, LockPendingCleanup, 
     StagePublication, StageReplacement, ExchangeOutput, RenameOutput, InspectExchange, Outputs, Tok
<1>3. CASE UnstageOutput(w)
  <2> DEFINE g == IF f.repl[t] = t THEN f ELSE Aside(f, f.repl[t])
  <2>1. outputFile' = [g EXCEPT !.repl[t] = NoFile]
    BY <1>3 DEF UnstageOutput, Tok
  <2>2. g \in Outputs /\ g.part = f.part /\ g.prior = f.prior /\ g.quar = f.quar
    <3>1. Aside(f, f.repl[t]) \in Outputs
      BY FileFits DEF Outputs
    <3>. QED
      BY <3>1 DEF Aside, Outputs
  <2> HIDE DEF g
  <2>. QED
    BY <2>1, <2>2 DEF Outputs
<1>4. CASE SettlePartial(w) \/ QuarantinePartial(w)
  <2>1. Pc(w) \in {"settling", "quarantining"}
        /\ (outputFile' = f \/ outputFile' = [Aside(f, f.part[t]) EXCEPT !.part[t] = NoFile])
    BY <1>4, RunsAt DEF SettlePartial, QuarantinePartial, Tok
  <2>. QED
    BY <2>1 DEF Aside, Outputs
<1>5. CASE RollbackOutput(w) \/ RestorePrior(w) \/ ReturnPrior(w) \/ ReturnDisplaced(w)
  BY <1>5, RunsAt, ZenonT(60) DEF RollbackOutput, RestorePrior, ReturnPrior, ReturnDisplaced, Outputs, Tok
<1>6. CASE ReplayPublication(w)
  BY <1>1, <1>6 DEF ReplayPublication, Tok
<1>7. CASE WithdrawOutput(w)
  <2>1. Pc(w) = "deciding" /\ publisher[w].seen = t
        /\ (outputFile' = link \/ outputFile' = [link EXCEPT !.final = NoFile, !.quar[t] = publisher[w].seen])
    BY <1>7, RunsAt DEF WithdrawOutput, Tok, SawMatch
  <2>. HIDE DEF link
  <2>. QED
    BY <1>1, <2>1 DEF Outputs
<1>8. CASE DropPartial(w)
  <2>1. outputFile' = link \/ outputFile' = [link EXCEPT !.final = publisher[w].base]
    BY <1>8 DEF DropPartial, Tok
  <2>. HIDE DEF link
  <2>. QED
    BY <1>1, <2>1 DEF Outputs
<1>9. CASE \/ EncodeFinishes(w) \/ RegisterPublication(w) \/ BeginPublication(w) \/ CompletePublished(w)
           \/ FinalizePublished(w) \/ CompleteCleanup(w) \/ NoticeCancellation(w)
           \/ RevokePublication(w) \/ ReportFailure(w) \/ CompleteCancellation(w)
           \/ EncodeAborts(w) \/ RetainFailedOutput(w) \/ PublicationInterrupted(w) \/ EncodeWorkerCrashes(w)
  BY <1>9 DEF EncodeFinishes, RegisterPublication, BeginPublication, CompletePublished,
     FinalizePublished, CompleteCleanup, NoticeCancellation, RevokePublication, ReportFailure,
     CompleteCancellation, EncodeAborts, RetainFailedOutput, PublicationInterrupted, EncodeWorkerCrashes
<1>10. CASE EncodeReconcile(w) \/ \E j \in EncodeIds : ClaimEncode(w, j)
  BY <1>10 DEF ClaimEncode, EncodeReconcile, RecoverExpiredClaims, ReconcileActive,
     RecoverAbandonedMutation, RecoverCancellation, ListPendingCleanup
<1>. QED
  BY <1>2, <1>3, <1>4, <1>5, <1>6, <1>7, <1>8, <1>9, <1>10 DEF EncodeWork, WorkerStep

-----------------------------------------------------------------------------
(* What a step does to a row.                                              *)

\* The row takes no claim, is not opened, completed or put under a mutation
\* fence, and does not take its path.
Calm(r, q) ==
  /\ q.tok # 0 => q.tok = r.tok
  /\ q.st \in Open => r.st \in Open
  /\ q.pcp => r.pcp
  /\ q.st = "completed" => r.st = "completed" /\ (r.pcp => q.pcp) /\ (q.res => r.res)
  /\ q.st = "running" /\ q.fence # Unfenced => r.st = "running" /\ r.fence # Unfenced /\ q.clean = r.clean

LEMMA CalmRows ==
  ASSUME NEW r \in EncodeRows
  PROVE  /\ Calm(r, r)
         /\ r.st \in {"queued", "running"} => Calm(r, CancelledRow(r))
         /\ Calm(r, [(IF r.st \in {"queued", "running"} THEN CancelledRow(r) ELSE r) EXCEPT !.active = FALSE])
         /\ Calm(r, Released(r))
         /\ Calm(r, [Released(r) EXCEPT !.res = FALSE])
         /\ Calm(r, Merge(r, [live |-> FALSE]))
         /\ \A i : Calm(r, Merge(r, [ident |-> i]))
         /\ \A b : Calm(r, FailedRow(r, b))
         /\ Calm(r, Merge(r, [pub |-> FALSE]))
         /\ Calm(r, CleanedRow(r))
         /\ Calm(r, Merge(r, [st |-> "failed", fence |-> Unfenced, live |-> TRUE]))
         /\ Calm(r, [r EXCEPT !.st = "failed", !.clean = r.tok, !.live = TRUE])
<1>1. Calm(r, r) /\ (r.st \in {"queued", "running"} => Calm(r, CancelledRow(r)))
  BY DEF Calm, EncodeRows, CancelledRow, Open
<1>2. ASSUME NEW q \in EncodeRows, Calm(r, q) PROVE Calm(r, [q EXCEPT !.active = FALSE])
  BY <1>2 DEF Calm, EncodeRows
<1>3. r.st \in {"queued", "running"} => CancelledRow(r) \in EncodeRows
  BY DEF EncodeRows, CancelledRow, EncodeStates
<1>4. Calm(r, [(IF r.st \in {"queued", "running"} THEN CancelledRow(r) ELSE r) EXCEPT !.active = FALSE])
  <2>1. CASE r.st \in {"queued", "running"}
    BY <1>1, <1>2, <1>3, <2>1
  <2>2. CASE r.st \notin {"queued", "running"}
    BY <1>1, <1>2, <2>2
  <2>. QED
    BY <2>1, <2>2
<1>5. Calm(r, Released(r)) /\ Calm(r, [Released(r) EXCEPT !.res = FALSE])
  BY DEF Calm, EncodeRows, Released, Open
<1>6. Calm(r, Merge(r, [live |-> FALSE])) /\ Calm(r, Merge(r, [pub |-> FALSE]))
  BY DEF Calm, EncodeRows, Merge, Open
<1>7. ASSUME NEW i PROVE Calm(r, Merge(r, [ident |-> i]))
  BY DEF Calm, EncodeRows, Merge, Open
<1>8. ASSUME NEW b PROVE Calm(r, FailedRow(r, b))
  BY DEF Calm, EncodeRows, FailedRow, Open
<1>9. Calm(r, CleanedRow(r))
  <2> DEFINE b == r.res /\ ~(r.st = "failed" /\ ~r.rep /\ ~r.active /\ ~catalogOpen)
  <2>1. b => r.res
    OBVIOUS
  <2>2. CleanedRow(r) = [r EXCEPT !.st = IF r.pcp THEN "failed" ELSE r.st, !.clean = 0, !.fence = Unfenced,
                                  !.pub = FALSE, !.pcp = FALSE, !.res = b]
    BY DEF CleanedRow
  <2> HIDE DEF b
  <2>. QED
    BY <2>1, <2>2 DEF Calm, EncodeRows, Open
<1>10. /\ Calm(r, Merge(r, [st |-> "failed", fence |-> Unfenced, live |-> TRUE]))
       /\ Calm(r, [r EXCEPT !.st = "failed", !.clean = r.tok, !.live = TRUE])
  BY DEF Calm, EncodeRows, Merge, Open
<1>. QED
  BY <1>1, <1>4, <1>5, <1>6, <1>7, <1>8, <1>9, <1>10

LEMMA CalmMoves ==
  ASSUME NEW r \in EncodeRows, NEW t, NEW b
  PROVE  /\ r.st = "running" => Calm(r, Merge(r, [clean |-> t, fence |-> Unfenced, pub |-> b]))
         /\ r.st \in {"absent", "failed", "completed", "cancelled"} =>
              /\ \A f : Calm(r, Merge(r, [fence |-> f, live |-> TRUE]))
              /\ \A i : Calm(r, Merge(r, [st |-> "queued", res |-> TRUE, tok |-> 0, live |-> TRUE,
                                          rep |-> b, ident |-> i]))
         /\ r.st = "absent" => Calm(r, Merge(r, [st |-> "queued", res |-> TRUE]))
         /\ r.st = "cancellation_requested" =>
              /\ Calm(r, [r EXCEPT !.st = "cancelled", !.res = b, !.tok = 0, !.clean = t, !.fence = Unfenced])
              /\ Calm(r, Merge(r, [st |-> "cancelled", res |-> b, clean |-> r.tok, fence |-> Unfenced,
                                   pub |-> FALSE, pcp |-> FALSE, tok |-> 0, live |-> TRUE]))
<1>1. r.st = "running" => Calm(r, Merge(r, [clean |-> t, fence |-> Unfenced, pub |-> b]))
  BY DEF Calm, EncodeRows, Merge, Open
<1>2. ASSUME r.st \in {"absent", "failed", "completed", "cancelled"}, NEW f
      PROVE  Calm(r, Merge(r, [fence |-> f, live |-> TRUE]))
  BY <1>2 DEF Calm, EncodeRows, Merge, Open
<1>3. ASSUME r.st \in {"absent", "failed", "completed", "cancelled"}, NEW i
      PROVE  Calm(r, Merge(r, [st |-> "queued", res |-> TRUE, tok |-> 0, live |-> TRUE, rep |-> b, ident |-> i]))
  <2> DEFINE q == Merge(r, [st |-> "queued", res |-> TRUE, tok |-> 0, live |-> TRUE, rep |-> b, ident |-> i])
  <2>1. q.st = "queued" /\ q.tok = 0 /\ q.pcp = r.pcp
    BY DEF EncodeRows, Merge
  <2> HIDE DEF q
  <2>2. Calm(r, q)
    BY <2>1 DEF Calm, Open
  <2>. QED
    BY <2>2 DEF q
<1>4. r.st = "absent" => Calm(r, Merge(r, [st |-> "queued", res |-> TRUE]))
  BY DEF Calm, EncodeRows, Merge, Open
<1>5. Calm(r, [r EXCEPT !.st = "cancelled", !.res = b, !.tok = 0, !.clean = t, !.fence = Unfenced])
  BY DEF Calm, EncodeRows, Open
<1>6. Calm(r, Merge(r, [st |-> "cancelled", res |-> b, clean |-> r.tok, fence |-> Unfenced,
                        pub |-> FALSE, pcp |-> FALSE, tok |-> 0, live |-> TRUE]))
  <2> DEFINE c == r.tok
             q == Merge(r, [st |-> "cancelled", res |-> b, clean |-> c, fence |-> Unfenced,
                            pub |-> FALSE, pcp |-> FALSE, tok |-> 0, live |-> TRUE])
  <2> HIDE DEF c
  <2>1. q.st = "cancelled" /\ q.tok = 0 /\ ~q.pcp
    BY DEF EncodeRows, Merge
  <2> HIDE DEF q
  <2>2. Calm(r, q)
    BY <2>1 DEF Calm, Open
  <2>. QED
    BY <2>2 DEF q, c
<1>. QED
  BY <1>1, <1>2, <1>3, <1>4, <1>5, <1>6

\* The steps of a worker that change a row in no such way.
Bold(w, k) ==
  \/ /\ k = publisher[w].job
     /\ \/ BeginPublication(w) \/ CompletePublished(w) \/ FinalizePublished(w) \/ ReplayPublication(w)
  \/ ReconcileActive(w, k) \/ ClaimEncode(w, k)

LEMMA WorkRowsCalm ==
  ASSUME Inv1, NEW w \in EncodeWorkers, NEW k \in EncodeIds,
         EncodeWork(w) \/ EncodeAborts(w) \/ RetainFailedOutput(w) \/ RenameOutput(w)
  PROVE  Calm(encodeJob[k], encodeJob'[k]) \/ Bold(w, k)
<1> DEFINE p == publisher[w]
           j == p.job
           t == p.tok
           r == encodeJob[j]
<1>1. /\ \A i \in EncodeIds : encodeJob[i] \in EncodeRows /\ Calm(encodeJob[i], encodeJob[i])
      /\ encodeJob \in [EncodeIds -> EncodeRows] /\ p.pc # "idle" /\ j \in EncodeIds /\ Knows(w)
  BY WorkFrame, AtWork, CalmRows DEF Inv1, Typed, Pc
<1>2. r \in EncodeRows
  BY <1>1
<1>3. ASSUME NEW q, Calm(r, q), encodeJob' = [encodeJob EXCEPT ![j] = q]
      PROVE  Calm(encodeJob[k], encodeJob'[k])
  BY <1>1, <1>3
<1>4. encodeJob' = encodeJob => Calm(encodeJob[k], encodeJob'[k])
  BY <1>1
<1>5. CASE PrepareEncode(w)
  <2>1. encodeJob' = encodeJob \/ \E i : UpdateRow(j, [ident |-> i])
    BY <1>5 DEF PrepareEncode
  <2>. QED
    BY <1>2, <1>3, <1>4, <2>1, CalmRows DEF UpdateRow
<1>6. CASE RetainFailedOutput(w) \/ ReportFailure(w)
  <2>1. encodeJob' = encodeJob \/ \E b : encodeJob' = [encodeJob EXCEPT ![j] = FailedRow(r, b)]
    BY <1>6 DEF RetainFailedOutput, ReportFailure
  <2>. QED
    BY <1>2, <1>3, <1>4, <2>1, CalmRows
<1>7. CASE RegisterPublication(w) \/ SettlePartial(w)
  <2>1. \/ encodeJob' = encodeJob
        \/ r.st = "running" /\ \E b : UpdateRow(j, [clean |-> t, fence |-> Unfenced, pub |-> b])
    BY <1>7 DEF RegisterPublication, SettlePartial, AttemptHolds
  <2>. QED
    BY <1>2, <1>3, <1>4, <2>1, CalmMoves DEF UpdateRow
<1>8. CASE RevokePublication(w)
  <2>1. encodeJob' = encodeJob \/ UpdateRow(j, [pub |-> FALSE])
    BY <1>8 DEF RevokePublication
  <2>. QED
    BY <1>2, <1>3, <1>4, <2>1, CalmRows DEF UpdateRow
<1>9. CASE CompleteCleanup(w)
  <2>1. encodeJob' = encodeJob \/ encodeJob' = [encodeJob EXCEPT ![j] = CleanedRow(r)]
    BY <1>9 DEF CompleteCleanup
  <2>. QED
    BY <1>2, <1>3, <1>4, <2>1, CalmRows
<1>10. CASE CompleteCancellation(w)
  <2>1. \/ encodeJob' = encodeJob
        \/ r.st = "cancellation_requested" /\ \E b, c : encodeJob' = [encodeJob EXCEPT ![j] =
             [r EXCEPT !.st = "cancelled", !.res = b, !.tok = 0, !.clean = c, !.fence = Unfenced]]
    BY <1>10 DEF CompleteCancellation
  <2>. QED
    BY <1>2, <1>3, <1>4, <2>1, CalmMoves
<1>11. CASE ReturnDisplaced(w) \/ WithdrawOutput(w)
  <2>1. \/ encodeJob' = encodeJob
        \/ r.st \in {"failed", "completed", "cancelled"} /\ \E f : UpdateRow(j, [fence |-> f, live |-> TRUE])
    BY <1>11 DEF ReturnDisplaced, WithdrawOutput, OwnsPublication
  <2>. QED
    BY <1>2, <1>3, <1>4, <2>1, CalmMoves DEF UpdateRow
<1>12. CASE \/ BeginPublication(w) \/ CompletePublished(w) \/ FinalizePublished(w) \/ ReplayPublication(w)
  <2>1. encodeJob' = encodeJob \/ \E q : encodeJob' = [encodeJob EXCEPT ![j] = q]
    BY <1>12 DEF BeginPublication, CompletePublished, FinalizePublished, ReplayPublication, UpdateRow
  <2>. QED
    BY <1>1, <1>4, <1>12, <2>1 DEF Bold
<1>13. CASE EncodeFinishes(w) \/ EncodeAborts(w) \/ StagePublication(w) \/ ExchangeOutput(w) \/ RenameOutput(w)
           \/ InspectExchange(w) \/ DiscardPartial(w)
  BY <1>4, <1>13 DEF EncodeFinishes, EncodeAborts, StagePublication, ExchangeOutput, RenameOutput,
                    InspectExchange, DiscardPartial
<1>14. CASE NoticeCancellation(w) \/ RollbackOutput(w) \/ RestorePrior(w) \/ UnstageOutput(w)
           \/ QuarantinePartial(w) \/ LockPendingCleanup(w) \/ ReturnPrior(w) \/ DropPartial(w)
  BY <1>4, <1>14 DEF NoticeCancellation, RollbackOutput, RestorePrior, UnstageOutput,
                    QuarantinePartial, LockPendingCleanup, ReturnPrior, DropPartial
<1>. QED
  BY <1>5, <1>6, <1>7, <1>8, <1>9, <1>10, <1>11, <1>12, <1>13, <1>14 DEF EncodeWork

LEMMA RowsCalm ==
  ASSUME Inv1, NEW w \in EncodeWorkers, NEW k \in EncodeIds, WorkerStep(w)
  PROVE  Calm(encodeJob[k], encodeJob'[k]) \/ Bold(w, k)
<1>1. /\ \A i \in EncodeIds : encodeJob[i] \in EncodeRows /\ Calm(encodeJob[i], encodeJob[i])
      /\ encodeJob \in [EncodeIds -> EncodeRows]
  BY CalmRows DEF Inv1, Typed
<1>2. ASSUME NEW j \in EncodeIds, NEW q, Calm(encodeJob[j], q), encodeJob' = [encodeJob EXCEPT ![j] = q]
      PROVE  Calm(encodeJob[k], encodeJob'[k])
  BY <1>1, <1>2
<1>3. CASE PublicationInterrupted(w) \/ EncodeWorkerCrashes(w)
           \/ \E j \in EncodeIds : ListPendingCleanup(w, j)
  BY <1>1, <1>3 DEF PublicationInterrupted, EncodeWorkerCrashes, ListPendingCleanup
<1>4. ASSUME NEW j \in EncodeIds, ClaimEncode(w, j) \/ ReconcileActive(w, j)
      PROVE  Calm(encodeJob[k], encodeJob'[k]) \/ Bold(w, k)
  <2>1. \E q : encodeJob' = [encodeJob EXCEPT ![j] = q]
    BY <1>4 DEF ClaimEncode, ReconcileActive, UpdateRow
  <2>. QED
    BY <1>1, <1>4, <2>1 DEF Bold
<1>5. ASSUME NEW j \in EncodeIds, RecoverAbandonedMutation(w, j) PROVE Calm(encodeJob[k], encodeJob'[k])
  BY <1>1, <1>2, <1>5, CalmRows DEF RecoverAbandonedMutation, UpdateRow
<1>6. ASSUME NEW j \in EncodeIds, RecoverCancellation(w, j) PROVE Calm(encodeJob[k], encodeJob'[k])
  <2>1. /\ encodeJob[j].st = "cancellation_requested"
        /\ \E b : UpdateRow(j, [st |-> "cancelled", res |-> b, clean |-> encodeJob[j].tok,
                   fence |-> Unfenced, pub |-> FALSE, pcp |-> FALSE, tok |-> 0, live |-> TRUE])
    BY <1>6 DEF RecoverCancellation
  <2>. QED
    BY <1>1, <1>2, <2>1, CalmMoves DEF UpdateRow
<1>7. CASE RecoverExpiredClaims(w)
  <2>1. LET r == encodeJob[k] IN
        encodeJob'[k] = IF Expired(r) THEN [r EXCEPT !.st = "failed", !.clean = r.tok, !.live = TRUE] ELSE r
    BY <1>7 DEF RecoverExpiredClaims
  <2>. QED
    BY <1>1, <2>1, CalmRows
<1>8. CASE EncodeReconcile(w)
  BY <1>3, <1>4, <1>5, <1>6, <1>7, <1>8 DEF EncodeReconcile
<1>. QED
  BY <1>3, <1>4, <1>8, WorkRowsCalm DEF WorkerStep

\* Requests, corrections and leases are calm.
Request ==
  \/ \E j \in EncodeIds : \/ EnqueueEncode(j) \/ RequestEncodeCancellation(j) \/ RequeueEncode(j)
                          \/ SupersedeSelection(j) \/ LeaseExpires(j)
  \/ CompleteReview
  \/ \E j, k \in EncodeIds : CompleteReviewWithReplacement(j, k)

LEMMA RequestsCalm ==
  ASSUME Inv1, Request, NEW k \in EncodeIds
  PROVE  Calm(encodeJob[k], encodeJob'[k])
<1>1. /\ \A i \in EncodeIds : encodeJob[i] \in EncodeRows /\ Calm(encodeJob[i], encodeJob[i])
      /\ encodeJob \in [EncodeIds -> EncodeRows]
  BY CalmRows DEF Inv1, Typed
<1>2. ASSUME NEW j \in EncodeIds, NEW q, Calm(encodeJob[j], q), encodeJob' = [encodeJob EXCEPT ![j] = q]
      PROVE  Calm(encodeJob[k], encodeJob'[k])
  BY <1>1, <1>2
<1>3. ASSUME NEW j \in EncodeIds, EnqueueEncode(j) \/ RequestEncodeCancellation(j) \/ LeaseExpires(j)
      PROVE  Calm(encodeJob[k], encodeJob'[k])
  <2>1. CASE EnqueueEncode(j)
    BY <1>1, <1>2, <2>1, CalmMoves DEF EnqueueEncode, UpdateRow
  <2>2. CASE RequestEncodeCancellation(j)
    BY <1>1, <1>2, <2>2, CalmRows DEF RequestEncodeCancellation
  <2>3. CASE LeaseExpires(j)
    BY <1>1, <1>2, <2>3, CalmRows DEF LeaseExpires, UpdateRow
  <2>. QED
    BY <1>3, <2>1, <2>2, <2>3
<1>4. ASSUME NEW j \in EncodeIds, RequeueEncode(j) PROVE Calm(encodeJob[k], encodeJob'[k])
  <2>1. /\ encodeJob[j].st \in {"absent", "failed", "completed", "cancelled"}
        /\ \E b, i : UpdateRow(j, [st |-> "queued", res |-> TRUE, tok |-> 0, live |-> TRUE, rep |-> b, ident |-> i])
    BY <1>4 DEF RequeueEncode
  <2>. QED
    BY <1>1, <1>2, <2>1, CalmMoves DEF UpdateRow
<1>5. ASSUME NEW j \in EncodeIds, SupersedeSelection(j) PROVE Calm(encodeJob[k], encodeJob'[k])
  BY <1>1, <1>2, <1>5, CalmRows DEF SupersedeSelection
<1>6. CASE CompleteReview
  BY <1>1, <1>6, CalmRows DEF CompleteReview
<1>7. ASSUME NEW j \in EncodeIds, NEW i \in EncodeIds, CompleteReviewWithReplacement(j, i)
      PROVE  Calm(encodeJob[k], encodeJob'[k])
  <2> DEFINE b == encodeJob[j].st = "completed" \/ encodeJob[j].rep
             q == [Row EXCEPT !.st = "queued", !.res = TRUE, !.pred = j, !.rep = b]
  <2>1. encodeJob'[k] \in {q, Released(encodeJob[k]), [Released(encodeJob[k]) EXCEPT !.res = FALSE]}
    BY <1>7 DEF CompleteReviewWithReplacement
  <2>2. q.st = "queued" /\ q.tok = 0 /\ ~q.pcp
    BY DEF Row
  <2> HIDE DEF q
  <2>3. Calm(encodeJob[k], q)
    BY <2>2 DEF Calm, Open
  <2>. QED
    BY <1>1, <2>1, <2>3, CalmRows
<1>. QED
  BY <1>3, <1>4, <1>5, <1>6, <1>7 DEF Request

\* A step that only changes rows, or nothing this invariant speaks of.
Quiet == /\ UNCHANGED <<outputFile, publisher, outputLock>> /\ KeepsUsed
         /\ encodeUsed'.foreign = encodeUsed.foreign
         /\ \A k \in EncodeIds : Calm(encodeJob[k], encodeJob'[k])

LEMMA RequestQuiet ==
  ASSUME Inv1, Request
  PROVE  Quiet
<1>1. encodeUsed \in Used /\ UNCHANGED <<outputFile, publisher, outputLock>>
  BY DEF Inv1, Typed, Request, EnqueueEncode, RequestEncodeCancellation, RequeueEncode, SupersedeSelection,
         LeaseExpires, CompleteReview, CompleteReviewWithReplacement
<1>2. Asked \/ Fault \/ encodeUsed' = encodeUsed
  BY DEF Request, EnqueueEncode, RequestEncodeCancellation, RequeueEncode, SupersedeSelection, LeaseExpires,
         CompleteReview, CompleteReviewWithReplacement
<1>3. KeepsUsed /\ encodeUsed'.foreign = encodeUsed.foreign
  BY <1>1, <1>2 DEF Asked, Fault, KeepsUsed, Used
<1>. QED
  BY <1>1, <1>3, RequestsCalm DEF Quiet


LEMMA RecalledRows ==
  ASSUME NEW r \in EncodeRows, NEW t, Recalled(r, t)
  PROVE  /\ r.st = "running" => Recalled(CancelledRow(r), t)
         /\ Recalled([(IF r.st \in {"queued", "running"} THEN CancelledRow(r) ELSE r) EXCEPT !.active = FALSE], t)
         /\ Recalled(Released(r), t) /\ Recalled([Released(r) EXCEPT !.res = FALSE], t)
         /\ Recalled(Merge(r, [live |-> FALSE]), t)
<1>1. r.st = "running" => Recalled(CancelledRow(r), t)
  BY DEF Recalled, EncodeRows, CancelledRow, Open
<1>2. ASSUME NEW q \in EncodeRows, Recalled(q, t) PROVE Recalled([q EXCEPT !.active = FALSE], t)
  BY <1>2 DEF Recalled, EncodeRows
<1>3. r.st \in {"queued", "running"} => CancelledRow(r) \in EncodeRows
  BY DEF EncodeRows, CancelledRow, EncodeStates
<1>4. Recalled([(IF r.st \in {"queued", "running"} THEN CancelledRow(r) ELSE r) EXCEPT !.active = FALSE], t)
  <2>1. CASE r.st \in {"queued", "running"}
    BY <1>1, <1>2, <1>3, <2>1 DEF Recalled, Open
  <2>2. CASE r.st \notin {"queued", "running"}
    BY <1>2, <2>2
  <2>. QED
    BY <2>1, <2>2
<1>5. Released(r) = r
  BY DEF Released, Recalled, Open
<1>6. Recalled([r EXCEPT !.res = FALSE], t) /\ Recalled(Merge(r, [live |-> FALSE]), t)
  BY DEF Recalled, EncodeRows, Merge
<1>. QED
  BY <1>1, <1>4, <1>5, <1>6

LEMMA RequestsRecall ==
  ASSUME Inv1, Request, NEW k \in EncodeIds, NEW t, Recalled(encodeJob[k], t)
  PROVE  Recalled(encodeJob'[k], t)
<1>1. /\ encodeJob[k] \in EncodeRows /\ encodeJob \in [EncodeIds -> EncodeRows]
      /\ encodeJob[k].st \in Open
  BY DEF Inv1, Typed, Recalled
<1>2. ASSUME NEW j \in EncodeIds, NEW q, j = k => Recalled(q, t), encodeJob' = [encodeJob EXCEPT ![j] = q]
      PROVE  Recalled(encodeJob'[k], t)
  BY <1>1, <1>2
<1>3. ASSUME NEW j \in EncodeIds, EnqueueEncode(j) PROVE Recalled(encodeJob'[k], t)
  BY <1>1, <1>3 DEF EnqueueEncode, UpdateRow, Open
<1>4. ASSUME NEW j \in EncodeIds, RequestEncodeCancellation(j) PROVE Recalled(encodeJob'[k], t)
  BY <1>1, <1>2, <1>4, RecalledRows DEF RequestEncodeCancellation, Open
<1>5. ASSUME NEW j \in EncodeIds, RequeueEncode(j) PROVE Recalled(encodeJob'[k], t)
  BY <1>1, <1>5 DEF RequeueEncode, UpdateRow, Open
<1>6. ASSUME NEW j \in EncodeIds, SupersedeSelection(j) PROVE Recalled(encodeJob'[k], t)
  BY <1>1, <1>2, <1>6, RecalledRows DEF SupersedeSelection
<1>7. ASSUME NEW j \in EncodeIds, LeaseExpires(j) PROVE Recalled(encodeJob'[k], t)
  BY <1>1, <1>2, <1>7, RecalledRows DEF LeaseExpires, UpdateRow
<1>8. CASE CompleteReview
  BY <1>1, <1>8, RecalledRows DEF CompleteReview
<1>9. ASSUME NEW j \in EncodeIds, NEW i \in EncodeIds, CompleteReviewWithReplacement(j, i)
      PROVE  Recalled(encodeJob'[k], t)
  <2>1. k # i
    BY <1>1, <1>9 DEF CompleteReviewWithReplacement, Open
  <2>2. encodeJob'[k] \in {Released(encodeJob[k]), [Released(encodeJob[k]) EXCEPT !.res = FALSE]}
    BY <1>9, <2>1 DEF CompleteReviewWithReplacement
  <2>. QED
    BY <1>1, <2>2, RecalledRows
<1>. QED
  BY <1>3, <1>4, <1>5, <1>6, <1>7, <1>8, <1>9 DEF Request

LEMMA QuietKeeps ==
  ASSUME Inv2, Inv1', Quiet, \A w \in EncodeWorkers : Revoked(w)'
  PROVE  Inv2'
<1>1. /\ encodeJob \in [EncodeIds -> EncodeRows] /\ publisher' = publisher /\ outputFile' = outputFile
      /\ outputLock' = outputLock /\ encodeUsed'.claims = encodeUsed.claims
      /\ encodeUsed'.of = encodeUsed.of /\ encodeUsed'.foreign = encodeUsed.foreign
  BY DEF Inv2, Inv1, Typed, Quiet, KeepsUsed
<1>2. UnusedClaims' /\ Alone' /\ Links'
  BY <1>1 DEF Inv2, UnusedClaims, Unwritten, Nowhere, Nameless, NoNames, Alone, Links, Lister, WorksOnClaim, Tok, Pc
<1>3. ASSUME NEW w \in EncodeWorkers
      PROVE  Staging(w)' /\ AtClaim(w)' /\ Unlinked(w)' /\ NoneInPlace(w)' /\ LockedInPlace(w)' /\ Finished(w)'
  <2>1. Staging(w) /\ AtClaim(w) /\ Unlinked(w) /\ NoneInPlace(w) /\ LockedInPlace(w) /\ Finished(w)
    BY DEF Inv2
  <2>2. \A j \in EncodeIds : Calm(encodeJob[j], encodeJob'[j])
    BY DEF Quiet
  <2>3. \A v \in EncodeWorkers : Pc(v) # "idle" =>
          publisher[v].job \in EncodeIds /\ publisher[v].tok \in Claims /\ Tok(v) # 0
    BY AtWork, Blank DEF Inv2, Inv1, NoFile, Tok
  <2>4. Staging(w)' /\ Unlinked(w)' /\ LockedInPlace(w)'
    BY <1>1, <2>1 DEF Staging, Unlinked, LockedInPlace, Tok, Pc
  <2>5. AtClaim(w)'
    BY <1>1, <2>1, <2>2, <2>3 DEF AtClaim, Tok, Pc, Calm
  <2>6. NoneInPlace(w)'
    BY <1>1, <2>1, <2>2 DEF NoneInPlace, Tok, Pc, Calm
  <2>7. Finished(w)'
    BY <1>1, <2>1, <2>2, <2>3 DEF Finished, WorksOnClaim, Tok, Pc, Calm
  <2>. QED
    BY <2>4, <2>5, <2>6, <2>7
<1>4. CompletedInPlace'
  BY <1>1 DEF Inv2, CompletedInPlace, Quiet, Calm
<1>. QED
  BY <1>2, <1>3, <1>4 DEF Inv2

LEMMA WorkerFrame ==
  ASSUME Inv1, NEW w \in EncodeWorkers, WorkerStep(w)
  PROVE  /\ encodeUsed'.foreign = encodeUsed.foreign
         /\ KeepsUsed \/ \E j \in EncodeIds : ClaimEncode(w, j)
         /\ \/ outputLock' = outputLock
            \/ outputLock = Nobody /\ outputLock' = w
            \/ Return(w)
         /\ \A v \in EncodeWorkers \ {w} : outputLock = v <=> outputLock' = v
<1>1. encodeUsed \in Used
  BY DEF Inv1, Typed
<1>2. CASE EncodeWork(w) \/ EncodeAborts(w) \/ RetainFailedOutput(w) \/ RenameOutput(w)
  BY <1>2, WorkFrame, LockPasses DEF KeepsUsed
<1>3. CASE EncodeReconcile(w)
  BY <1>3 DEF EncodeReconcile, RecoverExpiredClaims, ReconcileActive, RecoverAbandonedMutation,
              RecoverCancellation, ListPendingCleanup, KeepsUsed
<1>4. CASE PublicationInterrupted(w) \/ EncodeWorkerCrashes(w)
  <2>1. outputLock' = outputLock \/ Return(w)
    BY <1>4 DEF PublicationInterrupted, EncodeWorkerCrashes
  <2>2. Fault
    BY <1>4 DEF PublicationInterrupted, EncodeWorkerCrashes
  <2>. QED
    BY <1>1, <2>1, <2>2, LockPasses DEF Fault, KeepsUsed, Used
<1>5. CASE \E j \in EncodeIds : ClaimEncode(w, j)
  <2>1. outputLock' = outputLock
    BY <1>5 DEF ClaimEncode
  <2>2. PICK j \in EncodeIds : encodeUsed' = [encodeUsed EXCEPT !.claims = encodeUsed.claims + 1,
                                                           !.of[encodeUsed.claims + 1] = j]
    BY <1>5 DEF ClaimEncode
  <2>3. encodeUsed'.foreign = encodeUsed.foreign
    BY <1>1, <2>2 DEF Used
  <2>. QED
    BY <1>5, <2>1, <2>3
<1>. QED
  BY <1>2, <1>3, <1>4, <1>5 DEF WorkerStep

\* What another worker does with a row whose publication is revoked.
LEMMA OthersRecall ==
  ASSUME Inv2, NEW w \in EncodeWorkers, NEW v \in EncodeWorkers \ {w}, WorkerStep(v),
         Pc(w) \in {"rollback", "restoring"}
  PROVE  Recalled(encodeJob'[publisher[w].job], Tok(w))
<1> DEFINE k == publisher[w].job
           t == Tok(w)
           p == publisher[v]
           j == p.job
<1>1. /\ Typed /\ encodeJob \in [EncodeIds -> EncodeRows] /\ k \in EncodeIds /\ encodeJob[k] \in EncodeRows
      /\ Recalled(encodeJob[k], t) /\ outputLock = w /\ WorksOnClaim(w) /\ encodeUsed.of[t] = k
  BY AtWork DEF Inv2, Inv1, Typed, Revoked, Knows, WorksOnClaim, Executing, Holding, Pc, Tok
<1>2. ASSUME encodeJob' = encodeJob \/ \E i, q : i # k /\ encodeJob' = [encodeJob EXCEPT ![i] = q]
      PROVE  Recalled(encodeJob'[k], t)
  BY <1>1, <1>2
<1>3. Tok(v) = t => ~WorksOnClaim(v)
  BY <1>1 DEF Inv2, Inv1, OneWorker
<1>4. Pc(v) # "idle" /\ Tok(v) = t => j = k
  BY <1>1 DEF Inv2, Inv1, Knows, Pc, Tok
<1>5. ASSUME Pc(v) \in Executing, j = k PROVE encodeJob[j].tok # p.tok
  BY <1>1, <1>3, <1>5 DEF WorksOnClaim, Recalled, Tok
<1>6. CASE PrepareEncode(v) \/ RetainFailedOutput(v) \/ RegisterPublication(v) \/ BeginPublication(v)
           \/ CompletePublished(v) \/ RevokePublication(v) \/ SettlePartial(v) \/ ReportFailure(v)
  <2>1. Pc(v) \in Executing
    BY <1>6, RunsAt DEF Executing, Early, Pre
  <2>2. encodeJob' = encodeJob \/ (encodeJob[j].tok = p.tok /\ \E q : encodeJob' = [encodeJob EXCEPT ![j] = q])
    BY <1>6 DEF PrepareEncode, RetainFailedOutput, RegisterPublication, BeginPublication, CompletePublished,
                RevokePublication, SettlePartial, ReportFailure, AttemptHolds, UpdateRow
  <2>. QED
    BY <1>2, <1>5, <2>1, <2>2
<1>7. CASE CompleteCancellation(v)
  <2>1. Pc(v) \in Executing
    BY <1>7, RunsAt DEF Executing, Early, Pre
  <2>2. encodeJob' = encodeJob \/ (encodeJob[j].tok = p.tok /\ \E q : encodeJob' = [encodeJob EXCEPT ![j] = q])
    BY <1>7 DEF CompleteCancellation
  <2>. QED
    BY <1>2, <1>5, <2>1, <2>2
<1>8. CASE CompleteCleanup(v)
  <2>1. Pc(v) = "cleaning"
    BY <1>8, RunsAt
  <2>2. encodeJob' = encodeJob \/ (encodeJob[j].clean = p.tok /\ \E q : encodeJob' = [encodeJob EXCEPT ![j] = q])
    BY <1>8 DEF CompleteCleanup
  <2>3. ASSUME j = k, encodeJob[j].clean = p.tok PROVE FALSE
    <3>1. Tok(v) = t /\ ~WorksOnClaim(v) /\ outputLock # v
      BY <1>1, <1>3, <2>3 DEF Recalled, Tok
    <3>2. encodeJob[k].st \notin Open
      BY <1>1, <2>1, <2>3, <3>1 DEF Inv2, Finished, Recalled, Tok, Pc
    <3>. QED
      BY <1>1, <3>2 DEF Recalled
  <2>. QED
    BY <1>2, <2>2, <2>3
<1>9. CASE ReturnDisplaced(v) \/ ReplayPublication(v) \/ WithdrawOutput(v) \/ FinalizePublished(v)
  <2>1. encodeJob' = encodeJob \/ (encodeJob[j].st \in {"failed", "completed", "cancelled"}
                                    /\ \E q : encodeJob' = [encodeJob EXCEPT ![j] = q])
    BY <1>9 DEF ReturnDisplaced, ReplayPublication, WithdrawOutput, FinalizePublished, OwnsPublication, UpdateRow
  <2>2. encodeJob[k].st \notin {"failed", "completed", "cancelled"}
    BY <1>1 DEF Recalled, Open
  <2>. QED
    BY <1>2, <2>1, <2>2
<1>10. CASE \/ EncodeFinishes(v) \/ EncodeAborts(v) \/ StagePublication(v) \/ ExchangeOutput(v) \/ RenameOutput(v)
            \/ InspectExchange(v) \/ DiscardPartial(v) \/ NoticeCancellation(v) \/ RollbackOutput(v)
            \/ RestorePrior(v) \/ UnstageOutput(v)
  BY <1>2, <1>10 DEF EncodeFinishes, EncodeAborts, StagePublication, ExchangeOutput, RenameOutput,
     InspectExchange, DiscardPartial, NoticeCancellation, RollbackOutput, RestorePrior, UnstageOutput
<1>11. CASE \/ QuarantinePartial(v) \/ LockPendingCleanup(v) \/ ReturnPrior(v) \/ DropPartial(v)
            \/ PublicationInterrupted(v) \/ EncodeWorkerCrashes(v)
            \/ \E i \in EncodeIds : ListPendingCleanup(v, i)
  BY <1>2, <1>11 DEF QuarantinePartial, LockPendingCleanup, ReturnPrior, DropPartial,
     PublicationInterrupted, EncodeWorkerCrashes, ListPendingCleanup
<1>12. ASSUME NEW i \in EncodeIds,
              ReconcileActive(v, i) \/ RecoverAbandonedMutation(v, i) \/ RecoverCancellation(v, i) \/ ClaimEncode(v, i)
       PROVE  Recalled(encodeJob'[k], t)
  <2>1. \E q : encodeJob' = [encodeJob EXCEPT ![i] = q]
    BY <1>12 DEF ReconcileActive, RecoverAbandonedMutation, RecoverCancellation, ClaimEncode, UpdateRow
  <2>2. outputLock # Nobody
    BY <1>1, EncodeConstants
  <2>3. encodeJob[i].pub \/ encodeJob[i].st = "queued"
    BY <1>12, <2>2 DEF ReconcileActive, RecoverAbandonedMutation, RecoverCancellation, ClaimEncode
  <2>4. i # k
    BY <1>1, <2>3 DEF Recalled, Open
  <2>. QED
    BY <1>2, <2>1, <2>4
<1>13. CASE RecoverExpiredClaims(v)
  BY <1>1, <1>13 DEF RecoverExpiredClaims, Expired, Recalled
<1>14. CASE EncodeReconcile(v)
  BY <1>11, <1>12, <1>13, <1>14 DEF EncodeReconcile
<1>. QED
  BY <1>6, <1>7, <1>8, <1>9, <1>10, <1>11, <1>12, <1>14 DEF WorkerStep, EncodeWork

\* A worker at work moves on or returns.
LEMMA StepOfBusy ==
  ASSUME Typed, NEW w \in EncodeWorkers, WorkerStep(w), Pc(w) # "idle"
  PROVE  (Return(w) /\ publisher'[w] = Idle) \/ Turn(publisher[w], publisher'[w])
<1>1. ~EncodeReconcile(w) /\ \A j \in EncodeIds : ~ClaimEncode(w, j)
  BY RunsAt
<1>2. Return(w) \/ Turn(publisher[w], publisher'[w])
  BY <1>1, ExecutionTurns, FailureTurns, ReconciliationTurns DEF WorkerStep, EncodeWork
<1>. QED
  BY <1>2, WorkerTurns

\* What an idle worker takes up.
LEMMA Polls ==
  ASSUME Inv1, NEW w \in EncodeWorkers, WorkerStep(w), Pc(w) = "idle"
  PROVE  /\ outputFile' = outputFile /\ outputLock' = outputLock
         /\ \/ publisher' = publisher
            \/ \E j \in EncodeIds :
                 LET c == encodeJob[j].clean  q == publisher'[w] IN
                 /\ \/ /\ ClaimEncode(w, j) /\ q.pc = "claimed" /\ q.tok = encodeUsed.claims + 1
                       /\ q.base = NoFile /\ q.seen = NoFile
                    \/ /\ ReconcileActive(w, j) /\ q.pc = "completing" /\ q.tok = c /\ q.base = NoFile
                       /\ q.seen = NoFile /\ q.was = encodeJob[j]
                    \/ /\ ListPendingCleanup(w, j) /\ q.pc = "listed" /\ q.tok = c
                       /\ q.base = outputFile.prior[c] /\ q.seen = outputFile.final
                       /\ q.put <=> outputFile.repl[c] \notin {NoFile, outputFile.part[c], outputFile.prior[c]}
                 /\ q.job = j
<1> DEFINE p == publisher[w]
           q == publisher'[w]
<1>1. /\ p = Idle /\ Idle \in Publishers /\ publisher \in [EncodeWorkers -> Publishers]
      /\ outputFile \in Outputs
  BY Blank DEF Inv1, Typed, Knows, Pc
<1>2. \A n : Step(w, n) => q = Merge(Idle, n)
  BY <1>1, Moved
<1>3. EncodeReconcile(w) \/ \E j \in EncodeIds : ClaimEncode(w, j)
  BY RunsAt DEF WorkerStep, EncodeWork
<1>4. outputFile' = outputFile /\ outputLock' = outputLock
  BY <1>3 DEF EncodeReconcile, RecoverExpiredClaims, ReconcileActive, RecoverAbandonedMutation,
              RecoverCancellation, ListPendingCleanup, ClaimEncode
<1>5. ASSUME NEW j \in EncodeIds, ClaimEncode(w, j)
      PROVE  /\ q.pc = "claimed" /\ q.tok = encodeUsed.claims + 1
             /\ q.base = NoFile /\ q.seen = NoFile /\ q.job = j
  <2> DEFINE c == encodeUsed.claims + 1
  <2>1. q = Merge(Idle, [pc |-> "claimed", job |-> j, tok |-> c])
    BY <1>2, <1>5 DEF ClaimEncode
  <2> HIDE DEF c
  <2>. QED
    BY <1>1, <2>1 DEF Merge, Publishers, Idle, c
<1>6. ASSUME NEW j \in EncodeIds, ReconcileActive(w, j)
      PROVE  /\ q.pc = "completing" /\ q.tok = encodeJob[j].clean /\ q.base = NoFile
             /\ q.seen = NoFile /\ q.was = encodeJob[j] /\ q.job = j
  <2> DEFINE r == encodeJob[j]
             c == r.clean
             f == r.fence
  <2>1. q = Merge(Idle, [pc |-> "completing", job |-> j, tok |-> c, fence |-> f, was |-> r])
    BY <1>2, <1>6 DEF ReconcileActive
  <2> HIDE DEF c, f, r
  <2>. QED
    BY <1>1, <2>1 DEF Merge, Publishers, Idle, c, r
<1>7. ASSUME NEW j \in EncodeIds, ListPendingCleanup(w, j)
      PROVE  /\ q.pc = "listed" /\ q.tok = encodeJob[j].clean
             /\ q.base = outputFile.prior[encodeJob[j].clean] /\ q.seen = outputFile.final
             /\ q.put <=> outputFile.repl[encodeJob[j].clean] \notin
                             {NoFile, outputFile.part[encodeJob[j].clean], outputFile.prior[encodeJob[j].clean]}
             /\ q.job = j
  <2> DEFINE r == encodeJob[j]
             t == r.clean
             f == r.fence
             a == outputFile.final
             b == outputFile.prior[t]
             c == outputFile.part[t] # NoFile
             d == outputFile.repl[t] \notin {NoFile, outputFile.part[t], outputFile.prior[t]}
  <2>1. q = Merge(Idle, [pc |-> "listed", job |-> j, tok |-> t, fence |-> f, was |-> r,
                         seen |-> a, base |-> b, keep |-> c, put |-> d])
    BY <1>2, <1>7 DEF ListPendingCleanup
  <2> HIDE DEF a, b, c, d, f, r, t
  <2>2. q.pc = "listed" /\ q.tok = t /\ q.base = b /\ q.seen = a /\ q.put = d /\ q.job = j
    BY <1>1, <2>1 DEF Merge, Publishers, Idle
  <2>. QED
    BY <2>2 DEF a, b, c, d, r, t
<1>8. \/ publisher' = publisher
      \/ \E j \in EncodeIds : ReconcileActive(w, j) \/ ListPendingCleanup(w, j) \/ ClaimEncode(w, j)
  BY <1>3 DEF EncodeReconcile, RecoverExpiredClaims, RecoverAbandonedMutation, RecoverCancellation
<1>. QED
  BY <1>4, <1>5, <1>6, <1>7, <1>8

LEMMA StillWorking ==
  ASSUME Inv1, NEW w \in EncodeWorkers, WorkerStep(w), Pc(w) # "idle"
  PROVE  WorksOnClaim(w)' => WorksOnClaim(w) /\ Tok(w)' = Tok(w)
<1>1. CASE EncodeWork(w) \/ EncodeAborts(w) \/ RetainFailedOutput(w) \/ RenameOutput(w)
  BY <1>1, WorkFollows DEF Follows
<1>2. CASE PublicationInterrupted(w)
  <2>1. WorksOnClaim(w) /\ Typed
    BY <1>2 DEF Inv1, PublicationInterrupted, WorksOnClaim, Executing, Early, Pre, Pc
  <2>2. publisher'[w] = Merge(publisher[w], [pc |-> "failing"]) /\ publisher[w] \in Publishers
    BY <1>2, <2>1, Moved DEF Typed, PublicationInterrupted
  <2>. QED
    BY <2>1, <2>2 DEF Merge, Publishers, Tok
<1>3. CASE EncodeWorkerCrashes(w)
  <2>1. publisher'[w] = Idle
    BY <1>3, Moved DEF Inv1, Typed, EncodeWorkerCrashes
  <2>. QED
    BY <2>1 DEF WorksOnClaim, Idle, Executing, Early, Pre, Pc
<1>. QED
  BY <1>1, <1>2, <1>3, RunsAt DEF WorkerStep

LEMMA RevokedKept ==
  ASSUME Inv2, NEW w \in EncodeWorkers, WorkerStep(w)
  PROVE  \A v \in EncodeWorkers : Revoked(v)'
<1>1. /\ Typed /\ \A v \in EncodeWorkers \ {w} : publisher'[v] = publisher[v]
      /\ encodeJob \in [EncodeIds -> EncodeRows] /\ publisher \in [EncodeWorkers -> Publishers] /\ Knows(w) /\ Revoked(w)
  BY WorkerTurns DEF Inv2, Inv1, Typed
<1>2. ASSUME NEW v \in EncodeWorkers \ {w} PROVE Revoked(v)'
  BY <1>1, OthersRecall DEF Revoked, Pc, Tok
<1>3. Revoked(w)'
  <2> DEFINE p == publisher[w]
             q == publisher'[w]
             j == p.job
             r == encodeJob[j]
  <2> SUFFICES ASSUME q.pc \in {"rollback", "restoring"} PROVE Recalled(encodeJob'[q.job], q.tok)
    BY DEF Revoked, Pc, Tok
  <2>1. Idle.pc = "idle"
    BY DEF Idle
  <2>2. ~(Pc(w) = "idle")
    BY <1>1, <2>1, Polls DEF Inv2, Pc
  <2>3. CASE Turn(p, q)
    <3>1. p.pc = "revoking" \/ p.pc = "rollback"
      BY <2>3 DEF Turn, Edges, Early, Pre
    <3>2. q.tok = p.tok /\ q.job = j /\ j \in EncodeIds /\ r \in EncodeRows
      BY <1>1, <2>3, <3>1, AtWork DEF Turn, Pc
    <3>3. CASE p.pc = "revoking"
      <4>1. RevokePublication(w) \/ EncodeWorkerCrashes(w)
        BY <3>3, RunsAt DEF WorkerStep, EncodeWork, Pc
      <4>2. ~Return(w)
        BY <1>1, <2>1, Moved
      <4>3. /\ r.pub /\ r.clean = p.tok /\ r.fence = p.fence /\ r.st \in Open /\ r.tok = p.tok
            /\ UpdateRow(j, [pub |-> FALSE])
        BY <4>1, <4>2 DEF RevokePublication, EncodeWorkerCrashes, OwnsPublication, Open
      <4>4. p.fence = "mutation"
        BY <1>1, <3>3 DEF Knows
      <4>5. encodeJob'[j] = Merge(r, [pub |-> FALSE])
        BY <1>1, <3>2, <4>3 DEF UpdateRow
      <4>. QED
        BY <3>2, <4>3, <4>4, <4>5 DEF Merge, EncodeRows, Recalled, Unfenced
    <3>4. CASE p.pc = "rollback"
      <4>1. RollbackOutput(w) \/ EncodeWorkerCrashes(w)
        BY <3>4, RunsAt DEF WorkerStep, EncodeWork, Pc
      <4>2. encodeJob' = encodeJob
        BY <4>1 DEF RollbackOutput, EncodeWorkerCrashes
      <4>. QED
        BY <1>1, <3>2, <3>4, <4>2 DEF Revoked, Pc, Tok
    <3>. QED
      BY <3>1, <3>3, <3>4
  <2>. QED
    BY <1>1, <2>1, <2>2, <2>3, StepOfBusy
<1>. QED
  BY <1>2, <1>3

\* The claim gets the lock and its partial, or nothing.
LEMMA Prepares ==
  ASSUME Inv1, NEW w \in EncodeWorkers, WorkerStep(w), Pc(w) = "claimed"
  PROVE  /\ \/ outputFile' = outputFile /\ Pc(w)' # "encoding"
            \/ /\ PrepareEncode(w) /\ outputLock = Nobody /\ outputLock' = w /\ Pc(w)' = "encoding"
               /\ AttemptHolds(publisher[w].job, Tok(w))
               /\ outputFile' = [outputFile EXCEPT !.part[Tok(w)] = Tok(w)]
               /\ publisher'[w].base = outputFile.final
               /\ outputFile.final # NoFile => encodeJob[publisher[w].job].rep
         /\ Pc(w)' # "claimed"
<1>1. publisher \in [EncodeWorkers -> Publishers] /\ publisher[w] \in Publishers
  BY DEF Inv1, Typed
<1>2. PrepareEncode(w) \/ EncodeWorkerCrashes(w)
  BY RunsAt DEF WorkerStep, EncodeWork
<1>3. CASE EncodeWorkerCrashes(w)
  <2>1. publisher'[w] = Idle
    BY <1>1, <1>3, Moved DEF EncodeWorkerCrashes
  <2>. QED
    BY <1>3, <2>1 DEF EncodeWorkerCrashes, Idle, Pc
<1>4. CASE PrepareEncode(w)
  <2>1. \/ outputFile' = outputFile /\ Step(w, [pc |-> "failing"])
        \/ /\ outputLock = Nobody /\ outputLock' = w /\ AttemptHolds(publisher[w].job, Tok(w))
           /\ Step(w, [pc |-> "encoding", base |-> outputFile.final])
           /\ outputFile' = [outputFile EXCEPT !.part[Tok(w)] = Tok(w)]
           /\ outputFile.final # NoFile => encodeJob[publisher[w].job].rep
    BY <1>4 DEF PrepareEncode, Tok
  <2>2. ASSUME Step(w, [pc |-> "encoding", base |-> outputFile.final])
        PROVE  Pc(w)' = "encoding" /\ publisher'[w].base = outputFile.final
    <3> DEFINE b == outputFile.final
    <3>1. publisher'[w] = Merge(publisher[w], [pc |-> "encoding", base |-> b])
      BY <1>1, <2>2, Moved
    <3> HIDE DEF b
    <3>2. publisher'[w].pc = "encoding" /\ publisher'[w].base = b
      BY <1>1, <3>1 DEF Merge, Publishers
    <3>. QED
      BY <3>2 DEF b, Pc
  <2>3. ASSUME Step(w, [pc |-> "failing"]) PROVE Pc(w)' = "failing"
    <3>1. publisher'[w] = Merge(publisher[w], [pc |-> "failing"])
      BY <1>1, <2>3, Moved
    <3>. QED
      BY <1>1, <3>1 DEF Merge, Publishers, Pc
  <2>. QED
    BY <1>4, <2>1, <2>2, <2>3
<1>. QED
  BY <1>2, <1>3, <1>4

\* The locks and workers with which a step of w leaves a claim unwritten.
LEMMA StillUnwritten ==
  ASSUME Inv1, Inv1', NEW w \in EncodeWorkers, WorkerStep(w), NEW t \in Claims, Unwritten(t)'
  PROVE  /\ Unwritten(t)
         /\ Tok(w) = t /\ Pc(w) # "idle" => Pc(w) \notin InHand
         /\ Tok(w) = t /\ Pc(w) = "claimed" => outputFile' = outputFile
<1>1. /\ encodeUsed.claims \in Nat /\ encodeUsed'.claims \in Nat /\ Knows(w) /\ Knows(w)' /\ Typed /\ OneWorker
      /\ publisher[w] \in Publishers /\ (Pc(w) # "idle" => Tok(w) \in Claims)
  BY EncodeConstants, AtWork DEF Inv1, Typed, Used, Tok
<1>2. \A v \in EncodeWorkers \ {w} : publisher'[v] = publisher[v] /\ (outputLock = v <=> outputLock' = v)
  BY <1>1, WorkerTurns, WorkerFrame
<1>3. \/ encodeUsed'.claims = encodeUsed.claims
      \/ Pc(w) = "idle" /\ encodeUsed'.claims = encodeUsed.claims + 1
  <2>1. KeepsUsed \/ \E j \in EncodeIds : ClaimEncode(w, j)
    BY WorkerFrame
  <2>2. ASSUME NEW j \in EncodeIds, ClaimEncode(w, j)
        PROVE  Pc(w) = "idle" /\ encodeUsed'.claims = encodeUsed.claims + 1
    <3> DEFINE c == encodeUsed.claims + 1
    <3>1. encodeUsed' = [encodeUsed EXCEPT !.claims = c, !.of[c] = j] /\ encodeUsed \in Used /\ Pc(w) = "idle"
      BY <2>2 DEF ClaimEncode, Inv1, Typed, Pc
    <3> HIDE DEF c
    <3>2. encodeUsed'.claims = c
      BY <3>1 DEF Used
    <3>. QED
      BY <3>1, <3>2 DEF c
  <2>. QED
    BY <2>1, <2>2 DEF KeepsUsed
<1>4. t > encodeUsed'.claims \/ \E v \in EncodeWorkers :
        /\ Tok(v)' = t /\ WorksOnClaim(v)' /\ (Pc(v)' = "claimed" \/ outputLock' # v)
  BY DEF Unwritten
<1>5. ASSUME NEW v \in EncodeWorkers \ {w}, Tok(v)' = t, WorksOnClaim(v)', Pc(v)' = "claimed" \/ outputLock' # v
      PROVE  Tok(v) = t /\ WorksOnClaim(v) /\ (Pc(v) = "claimed" \/ outputLock # v)
  BY <1>2, <1>5 DEF Tok, WorksOnClaim, Pc
<1>6. CASE Pc(w) = "idle"
  <2>1. ~WorksOnClaim(w) /\ publisher[w] = Idle
    BY <1>1, <1>6 DEF Knows, WorksOnClaim, Idle, Executing, Early, Pre, Pc
  <2>2. ASSUME Tok(w)' = t, WorksOnClaim(w)' PROVE t > encodeUsed.claims
    <3>1. publisher' # publisher
      BY <2>1, <2>2 DEF WorksOnClaim, Pc
    <3>2. Pc(w)' = "claimed" => Tok(w)' = encodeUsed.claims + 1
      BY <1>6, <3>1, Polls DEF Pc, Tok
    <3>3. Pc(w)' \in {"claimed", "completing", "listed"}
      BY <1>6, <3>1, Polls DEF Pc
    <3>4. Pc(w)' = "claimed"
      BY <1>1, <2>2, <3>3 DEF WorksOnClaim, Executing, Early, Pre, Knows, Pc
    <3>. QED
      BY <1>1, <2>2, <3>2, <3>4
  <2>3. t > encodeUsed'.claims => t > encodeUsed.claims
    BY <1>1, <1>3 DEF Claims
  <2>. QED
    BY <1>4, <1>5, <1>6, <2>2, <2>3 DEF Unwritten
<1>7. CASE Pc(w) # "idle"
  <2>1. encodeUsed'.claims = encodeUsed.claims /\ Tok(w) <= encodeUsed.claims
    BY <1>1, <1>3, <1>7 DEF Knows, Tok
  <2>2. (Return(w) /\ publisher'[w] = Idle) \/ Turn(publisher[w], publisher'[w])
    BY <1>1, <1>7, StepOfBusy
  <2>3. ~(Idle.pc \in Executing) /\ ~Idle.can
    BY DEF Idle, Executing, Early, Pre
  <2>4. ASSUME WorksOnClaim(w)', Tok(w)' = t, Pc(w)' = "claimed" \/ outputLock' # w
        PROVE  Tok(w) = t /\ WorksOnClaim(w) /\ (Pc(w) = "claimed" \/ outputLock # w)
    <3>1. WorksOnClaim(w) /\ Tok(w) = t
      BY <1>7, <2>4, StillWorking DEF Tok
    <3>2. ~Return(w) /\ Turn(publisher[w], publisher'[w])
      BY <1>1, <2>2, <2>3, <2>4, WorkerTurns DEF WorksOnClaim, Pc
    <3>3. outputLock = w => outputLock' = w
      BY <3>2, WorkerFrame, EncodeConstants
    <3>4. Pc(w)' # "claimed"
      BY <1>7, <3>2 DEF Turn, Edges, Early, Pre, Pc
    <3>. QED
      BY <2>4, <3>1, <3>3, <3>4
  <2>5. Unwritten(t)
    BY <1>4, <1>5, <2>1, <2>4 DEF Unwritten
  <2>6. ASSUME Tok(w) = t, Pc(w) \in InHand \cup {"claimed"}
        PROVE  Pc(w) = "claimed" /\ outputFile' = outputFile
    <3>1. WorksOnClaim(w) /\ ~(t > encodeUsed'.claims)
      BY <1>1, <2>1, <2>6 DEF WorksOnClaim, InHand, Executing, Early, Pre, Claims
    <3>2. WorksOnClaim(w)' /\ Tok(w)' = t /\ (Pc(w)' = "claimed" \/ outputLock' # w)
      <4>1. \A v \in EncodeWorkers \ {w} : ~(Tok(v) = t /\ WorksOnClaim(v))
        BY <1>1, <2>6, <3>1 DEF OneWorker
      <4>. QED
        BY <1>4, <1>5, <3>1, <4>1
    <3>3. Pc(w) = "claimed" \/ outputLock # w
      BY <2>4, <3>2
    <3>4. Pc(w) = "claimed"
      BY <1>1, <2>6, <3>3 DEF Knows, InHand, Holding, Pc
    <3>. QED
      BY <3>2, <3>4, Prepares
  <2>. QED
    BY <2>5, <2>6 DEF InHand
<1>. QED
  BY <1>6, <1>7

\* What a worker remembers of the directory is or was there.
LEMMA Remembers ==
  ASSUME Inv1, NEW w \in EncodeWorkers, WorkerStep(w), NEW i \in Inodes, Nowhere(i)
  PROVE  \A v \in EncodeWorkers : publisher'[v].base # i /\ publisher'[v].seen # i
<1>1. /\ Typed /\ \A v \in EncodeWorkers \ {w} : publisher'[v] = publisher[v]
  BY WorkerTurns DEF Inv1
<1>2. i # NoFile /\ i # outputFile.final
      /\ \A t \in Claims : i # outputFile.prior[t] /\ i # outputFile.quar[t]
  BY Blank DEF Nowhere, Nameless
<1>3. publisher'[w].base # i /\ publisher'[w].seen # i
  <2>1. CASE Pc(w) = "idle"
    <3>1. \A j \in EncodeIds : \A x : ListPendingCleanup(x, j) => encodeJob[j].clean \in Claims
      BY <1>1, Blank DEF ListPendingCleanup, Typed, EncodeRows, NoFile
    <3>. QED
      BY <1>2, <2>1, <3>1, Polls DEF Nowhere
  <2>2. CASE Pc(w) # "idle"
    <3>1. Tok(w) \in Claims
      BY <1>1, <2>2, AtWork DEF Inv1, Tok
    <3>2. publisher'[w] = Idle \/ Turn(publisher[w], publisher'[w])
      BY <1>1, <2>2, StepOfBusy
    <3>. QED
      BY <1>2, <2>2, <3>1, <3>2 DEF Turn, Nowhere, Idle, Tok, Pc
  <2>. QED
    BY <2>1, <2>2
<1>. QED
  BY <1>1, <1>3 DEF Nowhere

LEMMA UnusedKept ==
  ASSUME Inv2, Inv1', NEW w \in EncodeWorkers, WorkerStep(w)
  PROVE  UnusedClaims'
<1> SUFFICES ASSUME NEW t \in Claims, Unwritten(t)' PROVE Nowhere(t)' /\ NoNames(t)'
  BY DEF UnusedClaims
<1>1. /\ Unwritten(t)
      /\ Tok(w) = t /\ Pc(w) # "idle" => Pc(w) \notin InHand
      /\ Tok(w) = t /\ Pc(w) = "claimed" => outputFile' = outputFile
  BY StillUnwritten DEF Inv2
<1>2. Inv1 /\ Typed /\ Knows(w) /\ Nowhere(t) /\ NoNames(t) /\ t \in Inodes
  BY <1>1, Blank DEF Inv2, Inv1, UnusedClaims
<1>3. \A v \in EncodeWorkers : publisher'[v].base # t /\ publisher'[v].seen # t
  BY <1>2, Remembers
<1>4. CASE Pc(w) = "idle"
  BY <1>2, <1>3, <1>4, Polls DEF Nowhere, NoNames, Nameless
<1>5. CASE Pc(w) # "idle"
  <2>1. Tok(w) \in Claims /\ Touch(outputFile', Tok(w), Newly(w)) /\ outputFile \in Outputs
    BY <1>2, <1>5, AtWork, FilesTouched DEF Tok, Typed
  <2>2. Nameless(outputFile', t)
    <3>1. CASE t \notin Newly(w)
      BY <1>2, <2>1, <3>1 DEF Touch
    <3>2. CASE outputFile' = outputFile
      BY <1>2, <3>2 DEF Nowhere
    <3>. QED
      BY <1>1, <1>5, <3>1, <3>2 DEF Newly
  <2>3. CASE t # Tok(w)
    BY <1>2, <1>3, <2>1, <2>2, <2>3 DEF Touch, Names, Nowhere, NoNames
  <2>4. CASE t = Tok(w)
    <3>1. CASE Pc(w) = "claimed"
      BY <1>1, <1>2, <1>3, <2>4, <3>1 DEF Nowhere, NoNames, Nameless
    <3>2. CASE Pc(w) # "claimed"
      <4>1. Pc(w) \notin {"fenced", "staged", "exchanged"}
        BY <1>1, <1>5, <2>4 DEF InHand
      <4>2. outputFile.final # t /\ publisher[w].seen # t
        BY <1>2 DEF Nowhere, Nameless
      <4>3. NoNames(t)'
        BY <1>2, <2>1, <2>4, <3>2, <4>1, <4>2, OwnNames DEF NoNames
      <4>. QED
        BY <1>3, <2>2, <4>3 DEF Nowhere, Nameless
    <3>. QED
      BY <3>1, <3>2
  <2>. QED
    BY <2>3, <2>4
<1>. QED
  BY <1>4, <1>5

\* How a worker at work goes on without another record than its next step.
LEMMA PcGoes ==
  ASSUME publisher \in [EncodeWorkers -> Publishers], NEW w \in EncodeWorkers
  PROVE  /\ \A x : Step(w, [pc |-> x]) => Pc(w)' = x
         /\ \A x, b : Step(w, [pc |-> x, put |-> b]) => Pc(w)' = x
         /\ Return(w) => Pc(w)' = "idle"
<1>1. publisher[w] \in Publishers
  OBVIOUS
<1>2. ASSUME NEW x, Step(w, [pc |-> x]) PROVE Pc(w)' = x
  <2>1. publisher'[w] = Merge(publisher[w], [pc |-> x])
    BY <1>2, Moved
  <2>. QED
    BY <1>1, <2>1 DEF Merge, Publishers, Pc
<1>3. ASSUME NEW x, NEW b, Step(w, [pc |-> x, put |-> b]) PROVE Pc(w)' = x
  <2>1. publisher'[w] = Merge(publisher[w], [pc |-> x, put |-> b])
    BY <1>3, Moved
  <2>. QED
    BY <1>1, <2>1 DEF Merge, Publishers, Pc
<1>4. Return(w) => Pc(w)' = "idle"
  BY Moved DEF Idle, Pc
<1>. QED
  BY <1>2, <1>3, <1>4

\* The steps that publish, and what they leave.
LEMMA PublicationMoves ==
  ASSUME Inv1, NEW w \in EncodeWorkers, WorkerStep(w)
  PROVE  LET t == Tok(w)  f == outputFile  base == publisher[w].base  to == Pc(w)' IN
         /\ Pc(w) = "fenced" =>
              \/ outputFile' = f /\ to \in {"failing", "idle"}
              \/ f.final = base /\ outputFile' = [f EXCEPT !.final = t] /\ to = "published"
              \/ base # NoFile /\ f.final = base /\ outputFile' = StageReplacement(t, base) /\ to = "staged"
         /\ Pc(w) = "staged" =>
              \/ outputFile' = f /\ to = "idle"
              \/ outputFile' = [f EXCEPT !.final = t, !.repl[t] = f.final] /\ to = "exchanged"
              \/ outputFile' = [f EXCEPT !.final = t, !.repl[t] = NoFile] /\ to = "published"
         /\ Pc(w) = "exchanged" =>
              \/ outputFile' = f /\ to = "idle"
              \/ outputFile' = [f EXCEPT !.repl[t] = NoFile] /\ to = "published"
              \/ outputFile' = [f EXCEPT !.final = f.repl[t], !.repl[t] = t] /\ to = "failing"
<1>1. publisher \in [EncodeWorkers -> Publishers]
  BY DEF Inv1, Typed
<1>2. EncodeWorkerCrashes(w) => outputFile' = outputFile /\ Pc(w)' = "idle"
  BY <1>1, PcGoes DEF EncodeWorkerCrashes
<1>3. PublicationInterrupted(w) => outputFile' = outputFile /\ Pc(w)' = "failing"
  BY <1>1, PcGoes DEF PublicationInterrupted
<1>4. ASSUME Pc(w) = "fenced"
      PROVE  LET t == Tok(w)  f == outputFile  base == publisher[w].base  to == Pc(w)' IN
              \/ outputFile' = f /\ to \in {"failing", "idle"}
              \/ f.final = base /\ outputFile' = [f EXCEPT !.final = t] /\ to = "published"
              \/ base # NoFile /\ f.final = base /\ outputFile' = StageReplacement(t, base) /\ to = "staged"
  <2>1. StagePublication(w) \/ PublicationInterrupted(w) \/ EncodeWorkerCrashes(w)
    BY <1>4, RunsAt DEF WorkerStep, EncodeWork
  <2>. QED
    BY <1>1, <1>2, <1>3, <2>1, PcGoes DEF StagePublication, Tok
<1>5. ASSUME Pc(w) = "staged"
      PROVE  LET t == Tok(w)  f == outputFile  to == Pc(w)' IN
              \/ outputFile' = f /\ to = "idle"
              \/ outputFile' = [f EXCEPT !.final = t, !.repl[t] = f.final] /\ to = "exchanged"
              \/ outputFile' = [f EXCEPT !.final = t, !.repl[t] = NoFile] /\ to = "published"
  <2>1. ExchangeOutput(w) \/ RenameOutput(w) \/ EncodeWorkerCrashes(w)
    BY <1>5, RunsAt DEF WorkerStep, EncodeWork
  <2>. QED
    BY <1>1, <1>2, <2>1, PcGoes DEF ExchangeOutput, RenameOutput, Tok
<1>6. ASSUME Pc(w) = "exchanged"
      PROVE  LET t == Tok(w)  f == outputFile  to == Pc(w)' IN
              \/ outputFile' = f /\ to = "idle"
              \/ outputFile' = [f EXCEPT !.repl[t] = NoFile] /\ to = "published"
              \/ outputFile' = [f EXCEPT !.final = f.repl[t], !.repl[t] = t] /\ to = "failing"
  <2>1. InspectExchange(w) \/ EncodeWorkerCrashes(w)
    BY <1>6, RunsAt DEF WorkerStep, EncodeWork
  <2>. QED
    BY <1>1, <1>2, <2>1, PcGoes DEF InspectExchange, Tok
<1>. QED
  BY <1>4, <1>5, <1>6

LEMMA AloneKept ==
  ASSUME Inv2, NEW w \in EncodeWorkers, WorkerStep(w)
  PROVE  Alone'
<1> SUFFICES ASSUME encodeUsed'.foreign = 0
             PROVE  Nowhere(Foreign)' /\ \A v \in EncodeWorkers : Lister(v)' => ~publisher'[v].put
  BY DEF Alone
<1>1. /\ Inv1 /\ Typed /\ Knows(w) /\ Nowhere(Foreign) /\ \A v \in EncodeWorkers : Lister(v) => ~publisher[v].put
      /\ \A v \in EncodeWorkers \ {w} : publisher'[v] = publisher[v]
  BY WorkerFrame, WorkerTurns DEF Inv2, Inv1, Alone
<1>2. \A v \in EncodeWorkers : publisher'[v].base # Foreign /\ publisher'[v].seen # Foreign
  BY <1>1, Blank, Remembers
<1>3. CASE Pc(w) = "idle"
  <2>1. Nowhere(Foreign)'
    BY <1>1, <1>2, <1>3, Polls DEF Nowhere, Nameless
  <2>2. ASSUME NEW j \in EncodeIds, ListPendingCleanup(w, j)
        PROVE  LET c == encodeJob[j].clean IN
               outputFile.repl[c] \in {NoFile, outputFile.part[c], outputFile.prior[c]}
    <3>1. encodeJob[j].clean \in Claims
      BY <1>1, <2>2, Blank DEF ListPendingCleanup, Typed, EncodeRows, NoFile
    <3>. QED
      BY <1>1, <3>1 DEF Inv2, Links, Nowhere, Nameless
  <2>3. Lister(w)' => ~publisher'[w].put
    BY <1>1, <1>3, <2>2, Polls DEF Lister, Pc
  <2>. QED
    BY <1>1, <2>1, <2>3 DEF Lister, Pc
<1>4. CASE Pc(w) # "idle"
  <2>1. Tok(w) \in Claims /\ Touch(outputFile', Tok(w), Newly(w))
    BY <1>1, <1>4, AtWork, FilesTouched DEF Tok
  <2>2. Foreign \in Inodes \ Newly(w)
    BY <2>1, Blank DEF Newly
  <2>3. Nameless(outputFile', Foreign)
    BY <1>1, <2>1, <2>2 DEF Touch
  <2>4. publisher'[w] = Idle \/ Turn(publisher[w], publisher'[w])
    BY <1>1, <1>4, StepOfBusy
  <2>5. Lister(w)' => ~publisher'[w].put
    BY <1>1, <1>4, <2>4 DEF Lister, Turn, Edges, Idle, Early, Pre, Pc
  <2>. QED
    BY <1>1, <1>2, <2>3, <2>5 DEF Nowhere, Nameless, Lister, Pc
<1>. QED
  BY <1>3, <1>4

LEMMA LinksKept ==
  ASSUME Inv2, NEW w \in EncodeWorkers, WorkerStep(w)
  PROVE  Links'
<1> DEFINE f == outputFile
           g == outputFile'
           p == publisher[w]
<1> SUFFICES ASSUME NEW t \in Claims
             PROVE  g.repl[t] \in {NoFile, t, g.prior[t], Foreign} /\ (g.repl[t] = t => g.part[t] = t)
  BY DEF Links
<1>1. /\ Inv1 /\ Typed /\ Knows(w) /\ Staging(w) /\ Unlinked(w) /\ f \in Outputs
      /\ f.repl[t] \in {NoFile, t, f.prior[t], Foreign} /\ (f.repl[t] = t => f.part[t] = t)
      /\ NoFile # t
  BY Blank DEF Inv2, Inv1, Links, Typed
<1>2. CASE Pc(w) = "idle"
  BY <1>1, <1>2, Polls
<1>3. CASE Pc(w) # "idle" /\ t # Tok(w)
  BY <1>1, <1>3, FilesTouched DEF Touch, Names
<1>4. CASE Pc(w) # "idle" /\ t = Tok(w) /\ Pc(w) \notin Pre
  <2>1. /\ \/ g.part[t] = f.part[t]
           \/ g.part[t] = t
           \/ Pc(w) \in {"discarding", "settling", "quarantining"}
        /\ g.prior[t] = f.prior[t] /\ g.repl[t] \in {f.repl[t], NoFile}
    BY <1>1, <1>4, OwnNames DEF Pre
  <2>2. Pc(w) \in {"discarding", "settling", "quarantining"} => f.repl[t] = NoFile
    BY <1>1, <1>4 DEF Unlinked, Past, Pc, Tok
  <2>. QED
    BY <1>1, <2>1, <2>2
<1>5. CASE t = Tok(w) /\ Pc(w) = "fenced"
  <2>1. f.repl[t] = NoFile /\ f.part[t] = t
    BY <1>1, <1>5 DEF Staging, InHand, Pc, Tok
  <2>2. \/ g = f \/ g = [f EXCEPT !.final = t]
        \/ g = [f EXCEPT !.prior[t] = p.base, !.repl[t] = t]
    BY <1>1, <1>5, PublicationMoves DEF StageReplacement
  <2>3. g.part = f.part /\ g.repl[t] \in {f.repl[t], t}
    BY <1>1, <2>2 DEF Outputs
  <2>. QED
    BY <2>1, <2>3
<1>6. CASE t = Tok(w) /\ Pc(w) = "staged"
  <2>1. f.part[t] = t /\ f.final \in {f.prior[t], Foreign}
    BY <1>1, <1>6 DEF Staging, InHand, Pc, Tok
  <2>. QED
    BY <1>1, <1>6, <2>1, PublicationMoves, ZenonT(60) DEF Outputs
<1>7. CASE t = Tok(w) /\ Pc(w) = "exchanged"
  <2>1. f.part[t] = t
    BY <1>1, <1>7 DEF Staging, InHand, Pc, Tok
  <2>. QED
    BY <1>1, <1>7, <2>1, PublicationMoves DEF Outputs
<1>. QED
  BY <1>2, <1>3, <1>4, <1>5, <1>6, <1>7 DEF Pre

\* While a worker has the mutation lock, no other moves the output.
LEMMA FinalKept ==
  ASSUME Inv1, NEW w \in EncodeWorkers, WorkerStep(w), NEW v \in EncodeWorkers \ {w}, outputLock = v
  PROVE  outputFile'.final = outputFile.final
<1>1. /\ Typed /\ Knows(w) /\ outputFile \in Outputs /\ outputLock # Nobody /\ outputLock # w
  BY EncodeConstants DEF Inv1, Typed
<1>2. Pc(w) \notin Holding
  BY <1>1 DEF Knows, Pc
<1>3. Pc(w) # "idle" => Tok(w) \in Claims
  BY <1>1, AtWork DEF Tok
<1>. QED
  BY <1>1, <1>2, <1>3, FinalMoves, RunsAt DEF Holding

\* A worker that finds the lock taken goes back to its polls.
LEMMA ListedWaits ==
  ASSUME Inv1, NEW w \in EncodeWorkers, WorkerStep(w), Pc(w) = "listed"
  PROVE  /\ outputLock # Nobody => outputFile' = outputFile /\ publisher'[w] = Idle
         /\ publisher'[w] = Idle \/ outputLock' = w
<1>1. LockPendingCleanup(w) \/ EncodeWorkerCrashes(w)
  BY RunsAt DEF WorkerStep, EncodeWork
<1>2. Return(w) => publisher'[w] = Idle
  BY Moved DEF Inv1, Typed
<1>. QED
  BY <1>1, <1>2 DEF LockPendingCleanup, EncodeWorkerCrashes

\* Nothing is published under the token of a worker that stages.
LEMMA StagedElsewhere ==
  ASSUME Typed, NEW v \in EncodeWorkers, Staging(v), Pc(v) \in InHand, Tok(v) \in Claims
  PROVE  ~(outputFile.repl[Tok(v)] = NoFile /\ outputFile.final = Tok(v))
<1>1. Tok(v) # NoFile /\ Foreign # NoFile
  BY Blank
<1>. QED
  BY <1>1 DEF Staging, InHand, Tok, Pc

LEMMA StagingOfOthers ==
  ASSUME Inv2, NEW w \in EncodeWorkers, WorkerStep(w), NEW v \in EncodeWorkers \ {w}
  PROVE  Staging(v)'
<1> DEFINE t == Tok(v)
           f == outputFile
           g == outputFile'
<1>1. /\ Inv1 /\ Typed /\ Knows(w) /\ Knows(v) /\ Staging(v)
      /\ \A u \in EncodeWorkers \ {w} : publisher'[u] = publisher[u]
  BY WorkerTurns DEF Inv2, Inv1
<1> SUFFICES ASSUME Pc(v) \in InHand PROVE Staging(v)'
  BY <1>1 DEF Staging, Pc
<1>2. /\ t \in Claims /\ t <= encodeUsed.claims /\ outputLock = v /\ outputLock # Nobody
      /\ \A u \in EncodeWorkers \ {v} : Tok(u) = t => Pc(u) = "listed"
      /\ ~(f.repl[t] = NoFile /\ f.final = t)
  <2>1. t \in Claims
    BY <1>1, AtWork DEF InHand, Pc, Tok
  <2>. QED
    BY <1>1, <2>1, StagedElsewhere, EncodeConstants DEF Knows, Staging, InHand, Holding, Pc, Tok
<1>3. g.final = f.final
  BY <1>1, <1>2, FinalKept
<1>4. Pc(w) # "idle" /\ Tok(w) = t => Pc(w) = "listed" /\ g = f /\ publisher'[w] = Idle
  BY <1>1, <1>2, ListedWaits
<1>5. Names(g, t) = Names(f, t)
  <2>1. CASE Pc(w) = "idle"
    BY <1>1, <2>1, Polls
  <2>2. CASE Pc(w) # "idle" /\ Tok(w) = t
    BY <1>4, <2>2
  <2>3. CASE Pc(w) # "idle" /\ Tok(w) # t
    BY <1>1, <1>2, <2>3, FilesTouched DEF Touch
  <2>. QED
    BY <2>1, <2>2, <2>3
<1>6. ASSUME Tok(w)' = t PROVE Pc(w)' = "listed"
  <2>1. CASE Pc(w) = "idle"
    <3>1. Tok(w) # t /\ encodeUsed.claims \in Nat
      BY <1>1, <1>2, <2>1, Blank, EncodeConstants DEF Knows, Idle, Tok, Pc, NoFile, Typed, Used
    <3>2. publisher' # publisher
      BY <1>6, <3>1 DEF Tok
    <3>3. Tok(w)' # encodeUsed.claims + 1
      BY <1>2, <1>6, <3>1 DEF Claims
    <3>4. PICK j \in EncodeIds :
            LET c == encodeJob[j].clean  q == publisher'[w] IN
                 \/ ClaimEncode(w, j) /\ q.tok = encodeUsed.claims + 1
                 \/ ReconcileActive(w, j) /\ q.tok = c
                 \/ q.pc = "listed"
      BY <1>1, <2>1, <3>2, Polls
    <3>5. ~(ReconcileActive(w, j) /\ encodeJob[j].clean = t)
      BY <1>2 DEF ReconcileActive, PublicationMatches
    <3>. QED
      BY <1>6, <3>3, <3>4, <3>5 DEF Tok, Pc
  <2>2. CASE Pc(w) # "idle"
    <3>1. publisher'[w] = Idle \/ Turn(publisher[w], publisher'[w])
      BY <1>1, <2>2, StepOfBusy
    <3>2. Idle.tok # t
      BY <1>2, Blank DEF Idle, NoFile
    <3>. QED
      BY <1>4, <1>6, <2>2, <3>1, <3>2 DEF Turn, Tok, Pc
  <2>. QED
    BY <2>1, <2>2
<1>7. \A u \in EncodeWorkers \ {v} : Tok(u)' = t => Pc(u)' = "listed"
  BY <1>1, <1>2, <1>6 DEF Tok, Pc
<1>8. /\ publisher'[v] = publisher[v] /\ g.part[t] = f.part[t] /\ g.prior[t] = f.prior[t]
      /\ g.repl[t] = f.repl[t] /\ g.quar[t] = f.quar[t]
  BY <1>1, <1>5 DEF Names
<1>. QED
  BY <1>1, <1>3, <1>7, <1>8 DEF Staging, Tok, Pc

\* Encoding, validating and registering leave the directory alone.
LEMMA EarlySteps ==
  ASSUME NEW w \in EncodeWorkers, WorkerStep(w), Pc(w) \in {"encoding", "validating", "registered"}
  PROVE  outputFile' = outputFile
<1>1. \/ EncodeFinishes(w) \/ EncodeAborts(w) \/ RegisterPublication(w) \/ RetainFailedOutput(w)
      \/ BeginPublication(w) \/ PublicationInterrupted(w) \/ EncodeWorkerCrashes(w)
  BY RunsAt DEF WorkerStep, EncodeWork
<1>. QED
  BY <1>1 DEF EncodeFinishes, EncodeAborts, RegisterPublication, RetainFailedOutput, BeginPublication,
              PublicationInterrupted, EncodeWorkerCrashes

\* Whoever has the token of a claim about to be encoded has only listed it.
LEMMA PreparedAlone ==
  ASSUME Inv2, NEW w \in EncodeWorkers, Pc(w) = "claimed", outputLock = Nobody,
         AttemptHolds(publisher[w].job, Tok(w)), NEW v \in EncodeWorkers \ {w}, Tok(v) = Tok(w)
  PROVE  Pc(v) = "listed"
<1>1. /\ Typed /\ Knows(w) /\ Knows(v) /\ AtClaim(w) /\ Finished(v) /\ OneWorker /\ outputLock # v
      /\ publisher[v] \in Publishers /\ WorksOnClaim(w)
  BY EncodeConstants DEF Inv2, Inv1, Typed, WorksOnClaim, Executing, Early
<1>2. ~WorksOnClaim(v)
  BY <1>1 DEF OneWorker
<1>3. Pc(v) # "idle" /\ publisher[v].job = publisher[w].job
  BY <1>1, AtWork, Blank DEF Knows, Idle, Tok, Pc, NoFile
<1>4. Pc(v) # "completing"
  BY <1>1 DEF AtClaim, Tok, Pc
<1>5. Pc(v) \notin {"quarantining", "discarding", "cleaning"}
  BY <1>1, <1>2, <1>3 DEF Finished, AttemptHolds, Open, Tok, Pc
<1>6. Pc(v) \notin {"deciding", "returning"}
  BY <1>1 DEF Knows, Holding, Pc
<1>. QED
  BY <1>1, <1>2, <1>3, <1>4, <1>5, <1>6 DEF Publishers, Steps, WorksOnClaim, Pc

LEMMA StagingOfWorker ==
  ASSUME Inv2, NEW w \in EncodeWorkers, WorkerStep(w)
  PROVE  Staging(w)'
<1> DEFINE t == Tok(w)
           f == outputFile
           g == outputFile'
           p == publisher[w]
           q == publisher'[w]
<1>1. /\ Inv1 /\ Typed /\ Knows(w) /\ Staging(w) /\ f \in Outputs
      /\ \A u \in EncodeWorkers \ {w} : publisher'[u] = publisher[u]
  BY WorkerTurns DEF Inv2, Inv1, Typed
<1> SUFFICES ASSUME q.pc \in InHand PROVE Staging(w)'
  BY DEF Staging
<1>2. Pc(w) # "idle"
  BY <1>1, Polls DEF InHand, Pc
<1>3. t \in Claims /\ Turn(p, q) /\ t # NoFile
  BY <1>1, <1>2, AtWork, StepOfBusy, Blank DEF Idle, InHand, Tok
<1>4. /\ q.tok = t /\ (q.pc # "encoding" => q.base = p.base)
      /\ <<p.pc, q.pc>> \in {<<"claimed", "encoding">>, <<"encoding", "validating">>, <<"validating", "registered">>,
                             <<"registered", "fenced">>, <<"fenced", "staged">>, <<"staged", "exchanged">>}
  BY <1>2, <1>3 DEF Turn, Edges, InHand, Early, Pre, Pc, Tok
<1>5. CASE p.pc = "claimed"
  <2>1. /\ outputLock = Nobody /\ AttemptHolds(p.job, t) /\ g = [f EXCEPT !.part[t] = t]
        /\ q.base = f.final /\ q.pc = "encoding"
    BY <1>1, <1>4, <1>5, Prepares DEF Pc
  <2>2. Nowhere(t) /\ NoNames(t)
    <3>1. Unwritten(t)
      BY <1>5 DEF Unwritten, WorksOnClaim, Executing, Early, Pc
    <3>. QED
      BY <1>3, <3>1 DEF Inv2, UnusedClaims
  <2>3. \A u \in EncodeWorkers \ {w} : Tok(u) = t => Pc(u) = "listed"
    BY <1>5, <2>1, PreparedAlone DEF Pc
  <2>4. /\ g.part[t] = t /\ g.prior[t] = NoFile /\ g.repl[t] = NoFile /\ g.quar[t] = NoFile
        /\ g.final = f.final /\ f.final # t
    BY <1>1, <1>3, <2>1, <2>2 DEF NoNames, Nowhere, Nameless, Outputs
  <2>. QED
    BY <1>1, <1>4, <2>1, <2>3, <2>4 DEF Staging, Tok, Pc
<1>6. CASE p.pc # "claimed"
  <2>1. /\ q.base = p.base /\ f.part[t] = t /\ f.quar[t] = NoFile /\ p.base # t
        /\ \A u \in EncodeWorkers \ {w} : Tok(u) = t => Pc(u) = "listed"
    BY <1>1, <1>4, <1>6 DEF Staging, InHand, Tok, Pc
  <2>2. \A u \in EncodeWorkers \ {w} : Tok(u)' = t => Pc(u)' = "listed"
    BY <1>1, <2>1 DEF Tok, Pc
  <2>3. CASE p.pc \in {"encoding", "validating", "registered"}
    <3>1. g = f /\ q.pc \in {"validating", "registered", "fenced"}
      BY <1>4, <2>3, EarlySteps DEF Pc
    <3>2. f.prior[t] = NoFile /\ f.repl[t] = NoFile /\ f.final # t
      BY <1>1, <2>3 DEF Staging, InHand, Tok, Pc
    <3>. QED
      BY <1>4, <2>1, <2>2, <3>1, <3>2 DEF Staging, Tok, Pc
  <2>4. CASE p.pc = "fenced"
    <3>1. q.pc = "staged"
      BY <1>4, <2>4
    <3>2. p.base # NoFile /\ f.final = p.base /\ g = StageReplacement(t, p.base)
      BY <1>1, <2>4, <3>1, PublicationMoves DEF Pc
    <3>3. g.part[t] = t /\ g.prior[t] = p.base /\ g.repl[t] = t /\ g.quar[t] = NoFile /\ g.final = p.base
      BY <1>1, <1>3, <2>1, <3>2 DEF StageReplacement, Outputs
    <3>. QED
      BY <1>4, <2>1, <2>2, <3>1, <3>2, <3>3 DEF Staging, Tok, Pc
  <2>5. CASE p.pc = "staged"
    <3>1. q.pc = "exchanged"
      BY <1>4, <2>5
    <3>2. g = [f EXCEPT !.final = t, !.repl[t] = f.final]
      BY <1>1, <2>5, <3>1, PublicationMoves DEF Pc
    <3>3. f.final \in {p.base, Foreign} /\ f.prior[t] = p.base /\ p.base # NoFile
      BY <1>1, <2>5 DEF Staging, InHand, Tok, Pc
    <3>4. g.part[t] = t /\ g.prior[t] = p.base /\ g.repl[t] = f.final /\ g.quar[t] = NoFile /\ g.final = t
      BY <1>1, <1>3, <2>1, <3>2, <3>3 DEF Outputs
    <3>. QED
      BY <1>4, <2>1, <2>2, <3>1, <3>3, <3>4 DEF Staging, Tok, Pc
  <2>. QED
    BY <1>4, <1>6, <2>3, <2>4, <2>5
<1>. QED
  BY <1>5, <1>6

\* What the steps that are not calm do to the row.
Fences(w, r, q) ==
  Pc(w) = "registered" /\ r.tok = Tok(w) /\ r.clean = Tok(w) /\ r.st = "running" /\ q.st = "running" /\ q.pcp = r.pcp
Completes(w, r, q) ==
  /\ q.st = "completed" /\ q.pcp /\ r.clean # 0 /\ PublicationMatches(r.clean)
  /\ \/ Pc(w) = "published" /\ r.st = "running"
     \/ Pc(w) = "deciding" /\ r.clean = Tok(w) /\ r.st \in {"failed", "completed"}
     \/ Pc(w) = "idle" /\ r.st = "running" /\ r.fence # Unfenced /\ outputFile.repl[r.clean] = NoFile
Finalizes(w, r, q) ==
  /\ Pc(w) = "completing" /\ r.st = "completed" /\ r.pcp /\ r.clean = Tok(w)
  /\ q.st = "completed" /\ ~q.pcp /\ PublicationMatches(Tok(w))
Undoes(w, r, q) ==
  /\ Pc(w) = "completing" /\ r.st = "completed" /\ r.pcp /\ r.clean = Tok(w)
  /\ q.st = publisher[w].was.st /\ q.pcp = publisher[w].was.pcp
  /\ q.st \in {"queued", "running"} => r.res
Claimed(w, r, q) ==
  /\ Pc(w) = "idle" /\ r.st = "queued" /\ r.fence = Unfenced
  /\ q.tok = encodeUsed.claims + 1 /\ q.st = "running" /\ q.fence = Unfenced

LEMMA BoldRows ==
  ASSUME Inv1, NEW w \in EncodeWorkers, NEW k \in EncodeIds, Bold(w, k)
  PROVE  LET r == encodeJob[k]  q == encodeJob'[k] IN
         \/ q = r
         \/ Claimed(w, r, q)
         \/ /\ q.res = r.res /\ q.tok = r.tok /\ q.clean = r.clean
            /\ Fences(w, r, q) \/ Completes(w, r, q) \/ Finalizes(w, r, q) \/ Undoes(w, r, q)
<1> DEFINE p == publisher[w]
           r == encodeJob[k]
           q == encodeJob'[k]
           t == p.tok
<1>1. /\ encodeJob \in [EncodeIds -> EncodeRows] /\ r \in EncodeRows /\ p \in Publishers /\ Knows(w)
      /\ Pc(w) # "idle" => Tok(w) \in Claims
  BY AtWork DEF Inv1, Typed, Tok
<1>2. \A n : UpdateRow(k, n) => q = Merge(r, n)
  BY <1>1 DEF UpdateRow
<1>3. CASE k = p.job /\ BeginPublication(w)
  <2>1. \/ q = r
        \/ q = Merge(r, [fence |-> "mutation"]) /\ r.st = "running" /\ r.tok = t /\ r.clean = t
    BY <1>2, <1>3 DEF BeginPublication, AttemptHolds
  <2>2. Pc(w) = "registered"
    BY <1>3, RunsAt
  <2>. QED
    BY <1>1, <2>1, <2>2 DEF Merge, EncodeRows, Fences, Tok
<1>4. CASE k = p.job /\ CompletePublished(w)
  <2>1. \/ q = r
        \/ /\ q = Merge(r, [st |-> "completed", pcp |-> TRUE, live |-> TRUE]) /\ r.st = "running" /\ r.clean = t
           /\ PublicationMatches(t)
    BY <1>2, <1>4 DEF CompletePublished, OwnsPublication
  <2>2. Pc(w) = "published"
    BY <1>4, RunsAt
  <2>. QED
    BY <1>1, <2>1, <2>2, Blank DEF Merge, EncodeRows, Completes, Tok, NoFile
<1>5. CASE k = p.job /\ FinalizePublished(w)
  <2>1. Pc(w) = "completing"
    BY <1>5, RunsAt
  <2>2. \/ q = r
        \/ q = FinalRow(r) /\ r.st = "completed" /\ r.pcp /\ r.clean = t /\ PublicationMatches(t)
        \/ /\ UpdateRow(k, [st |-> p.was.st, pcp |-> p.was.pcp]) /\ ReservationCheck(k, p.was.st)
           /\ r.st = "completed" /\ r.pcp /\ r.clean = t
    BY <1>1, <1>5 DEF FinalizePublished, OwnsPublication
  <2>3. CASE q = FinalRow(r) /\ r.st = "completed" /\ r.pcp /\ r.clean = t /\ PublicationMatches(t)
    BY <1>1, <2>1, <2>3 DEF FinalRow, EncodeRows, Finalizes, Tok
  <2>4. CASE /\ UpdateRow(k, [st |-> p.was.st, pcp |-> p.was.pcp]) /\ ReservationCheck(k, p.was.st)
             /\ r.st = "completed" /\ r.pcp /\ r.clean = t
    <3> DEFINE s == p.was.st
               b == p.was.pcp
    <3>1. q = Merge(r, [st |-> s, pcp |-> b]) /\ (s \in {"queued", "running"} => r.res)
      BY <1>2, <2>4 DEF ReservationCheck
    <3> HIDE DEF s, b
    <3>2. q.st = s /\ q.pcp = b /\ q.res = r.res /\ q.tok = r.tok /\ q.clean = r.clean
      BY <1>1, <3>1 DEF Merge, EncodeRows
    <3>. QED
      BY <1>1, <2>1, <2>4, <3>1, <3>2 DEF Undoes, Tok, s, b
  <2>. QED
    BY <2>2, <2>3, <2>4
<1>6. CASE k = p.job /\ ReplayPublication(w)
  <2> DEFINE lease == IF p.fence = Unfenced THEN w ELSE p.fence
  <2>1. \/ q = r
        \/ /\ q = Merge(r, [st |-> "completed", pcp |-> TRUE, fence |-> lease, live |-> TRUE])
           /\ r.st \in {"failed", "completed"} /\ r.clean = t /\ PublicationMatches(t)
    BY <1>2, <1>6 DEF ReplayPublication, OwnsPublication
  <2>2. Pc(w) = "deciding"
    BY <1>6, RunsAt
  <2> HIDE DEF lease
  <2>. QED
    BY <1>1, <2>1, <2>2, Blank DEF Merge, EncodeRows, Completes, Tok, NoFile
<1>7. CASE ReconcileActive(w, k)
  <2>1. /\ q = Merge(r, [st |-> "completed", pcp |-> TRUE, live |-> TRUE]) /\ r.st = "running" /\ r.clean # 0
        /\ PublicationMatches(r.clean) /\ Pc(w) = "idle" /\ r.fence # Unfenced /\ outputFile.repl[r.clean] = NoFile
    BY <1>2, <1>7 DEF ReconcileActive, Pc
  <2>. QED
    BY <1>1, <2>1 DEF Merge, EncodeRows, Completes
<1>8. CASE ClaimEncode(w, k)
  <2> DEFINE c == encodeUsed.claims + 1
             b == r.rep \/ (r.pred # 0 /\ (encodeJob[r.pred].st = "completed" \/ encodeJob[r.pred].rep))
  <2>1. q = Merge(r, [st |-> "running", tok |-> c, live |-> TRUE, rep |-> b]) /\ r.fence = Unfenced /\ Pc(w) = "idle"
        /\ r.st = "queued"
    BY <1>2, <1>8 DEF ClaimEncode, Pc
  <2> HIDE DEF c, b
  <2>2. q.tok = c /\ q.st = "running" /\ q.fence = Unfenced
    BY <1>1, <2>1 DEF Merge, EncodeRows
  <2>. QED
    BY <2>1, <2>2 DEF Claimed, c
<1>. QED
  BY <1>3, <1>4, <1>5, <1>6, <1>7, <1>8 DEF Bold

\* What a worker that decides over a pending cleanup does: which decision
\* leads where, and that all of them drop the staged link.
LEMMA Decides ==
  ASSUME Typed, NEW w \in EncodeWorkers
  PROVE  /\ ReturnDisplaced(w) => Pc(w)' \in {"quarantining", "idle"}
         /\ WithdrawOutput(w) => Pc(w)' \in {"returning", "idle"}
         /\ DropPartial(w) => Pc(w)' \in {"quarantining", "idle"}
         /\ EncodeWorkerCrashes(w) => Pc(w)' = "idle"
         /\ ReplayPublication(w) => Pc(w)' = "idle" \/ PublicationMatches(Tok(w))
<1>1. publisher[w] \in Publishers /\ publisher \in [EncodeWorkers -> Publishers]
  BY DEF Typed
<1>2. ASSUME NEW x, NEW f, Step(w, [pc |-> x, fence |-> f]) PROVE Pc(w)' = x
  <2>1. publisher'[w] = Merge(publisher[w], [pc |-> x, fence |-> f])
    BY <1>1, <1>2, Moved
  <2>. QED
    BY <1>1, <2>1 DEF Merge, Publishers, Pc
<1>3. ReturnDisplaced(w) => Pc(w)' \in {"quarantining", "idle"}
  BY <1>1, <1>2, PcGoes DEF ReturnDisplaced
<1>4. WithdrawOutput(w) => Pc(w)' \in {"returning", "idle"}
  BY <1>1, <1>2, PcGoes DEF WithdrawOutput
<1>5. DropPartial(w) => Pc(w)' \in {"quarantining", "idle"}
  BY <1>1, PcGoes DEF DropPartial
<1>6. ReplayPublication(w) => Pc(w)' = "idle" \/ PublicationMatches(Tok(w))
  BY <1>1, PcGoes DEF ReplayPublication, Tok
<1>. QED
  BY <1>1, <1>3, <1>4, <1>5, <1>6, PcGoes DEF EncodeWorkerCrashes

\* The row of a claimed job that another worker has the token of is not
\* opened or completed by anybody else.
LEMMA AtClaimKept ==
  ASSUME Inv2, Inv1', NEW w \in EncodeWorkers, WorkerStep(w), NEW v \in EncodeWorkers
  PROVE  AtClaim(v)'
<1> DEFINE t == Tok(v)
           k == publisher[v].job
           r == encodeJob[k]
           q == encodeJob'[k]
<1>1. /\ Inv1 /\ Typed /\ Knows(w) /\ Knows(v) /\ AtClaim(v) /\ OneWorker /\ encodeUsed.claims \in Nat
      /\ \A u \in EncodeWorkers : publisher[u] \in Publishers /\ Knows(u)
      /\ \A u \in EncodeWorkers \ {w} : publisher'[u] = publisher[u]
      /\ encodeJob \in [EncodeIds -> EncodeRows]
  BY WorkerTurns, EncodeConstants DEF Inv2, Inv1, Typed, Used
<1> SUFFICES ASSUME Pc(v)' = "claimed" PROVE AtClaim(v)'
  BY DEF AtClaim, Pc
<1>2. CASE v = w
  <2>1. Pc(w) = "idle"
    <3> SUFFICES ASSUME Pc(w) # "idle" PROVE FALSE
      OBVIOUS
    <3>1. publisher'[w] = Idle \/ Turn(publisher[w], publisher'[w])
      BY <1>1, StepOfBusy
    <3>. QED
      BY <1>2, <3>1 DEF Idle, Turn, Edges, Early, Pre, Pc
  <2>2. Tok(w)' = encodeUsed.claims + 1
    BY <1>1, <1>2, <2>1, Polls DEF Pc, Tok
  <2>3. \A u \in EncodeWorkers \ {w} : Tok(u)' # encodeUsed.claims + 1
    BY <1>1 DEF Knows, Publishers, Tok, Claims
  <2>. QED
    BY <1>2, <2>2, <2>3 DEF AtClaim, Tok
<1>3. CASE v # w
  <2>1. /\ publisher'[v] = publisher[v] /\ Pc(v) = "claimed" /\ t \in Claims /\ k \in EncodeIds
        /\ t <= encodeUsed.claims /\ WorksOnClaim(v) /\ Nowhere(t) /\ encodeUsed.of[t] = k
    <3>1. publisher'[v] = publisher[v] /\ Pc(v) = "claimed"
      BY <1>1, <1>3 DEF Pc
    <3>2. t \in Claims /\ k \in EncodeIds /\ WorksOnClaim(v) /\ t <= encodeUsed.claims /\ encodeUsed.of[t] = k
      BY <1>1, <3>1, AtWork DEF WorksOnClaim, Executing, Early, Knows, Pc, Tok
    <3>3. Nowhere(t)
      BY <3>1, <3>2 DEF Inv2, UnusedClaims, Unwritten
    <3>. QED
      BY <3>1, <3>2, <3>3
  <2>2. ~PublicationMatches(t)
    BY <2>1 DEF PublicationMatches, Nowhere, Nameless
  <2>3. Tok(w) = t => ~WorksOnClaim(w)
    BY <1>1, <1>3, <2>1 DEF OneWorker
  \* The row, when somebody else already had the token.
  <2>4. ASSUME r.tok = t => r.st \notin Open, q.tok = t, q.st \in Open,
               Tok(w) = t => Pc(w) # "completing"
        PROVE  FALSE
    <3>1. ~Calm(r, q)
      BY <2>1, <2>4, Blank DEF Calm, NoFile
    <3>2. Bold(w, k) /\ q # r
      BY <1>1, <2>1, <2>4, <3>1, RowsCalm
    <3>3. \/ Claimed(w, r, q)
          \/ /\ q.tok = r.tok
             /\ Fences(w, r, q) \/ Completes(w, r, q) \/ Finalizes(w, r, q) \/ Undoes(w, r, q)
      BY <1>1, <2>1, <3>2, BoldRows
    <3>4. ~Claimed(w, r, q)
      BY <1>1, <2>1, <2>4 DEF Claimed, Claims
    <3>5. ~Fences(w, r, q)
      BY <2>4, <3>3, <3>4 DEF Fences, Open
    <3>6. ~Completes(w, r, q) /\ ~Finalizes(w, r, q)
      BY <2>4 DEF Completes, Finalizes, Open
    <3>7. Undoes(w, r, q)
      BY <3>3, <3>4, <3>5, <3>6
    <3>8. Tok(w) = t
      <4>1. RowSound(r)
        BY <1>1, <2>1 DEF Inv1, Rows
      <4>2. Pc(w) = "completing" /\ r.st = "completed" /\ r.clean = Tok(w) /\ q.tok = r.tok
        BY <3>3, <3>4, <3>7 DEF Undoes
      <4>3. Tok(w) # 0
        BY <1>1, <4>2 DEF Knows, Pc, Tok
      <4>. QED
        BY <2>4, <4>1, <4>2, <4>3 DEF RowSound
    <3>. QED
      BY <2>4, <3>7, <3>8 DEF Undoes
  <2>5. ASSUME NEW u \in EncodeWorkers \ {v}, Tok(u)' = t
        PROVE  Pc(u)' # "completing" /\ (q.tok = t => q.st \notin Open)
    <3>1. CASE u # w
      <4>1. Tok(u) = t /\ Pc(u)' = Pc(u)
        BY <1>1, <2>5, <3>1 DEF Tok, Pc
      <4>2. Pc(u) # "completing" /\ (r.tok = t => r.st \notin Open)
        BY <1>1, <2>1, <4>1 DEF AtClaim, Pc, Tok
      <4>3. Tok(w) = t => Pc(w) # "completing"
        BY <1>1, <1>3, <2>1 DEF AtClaim, Pc, Tok
      <4>. QED
        BY <2>4, <4>1, <4>2, <4>3
    <3>2. CASE u = w /\ Pc(w) # "idle"
      <4>1. Turn(publisher[w], publisher'[w]) /\ Tok(w) = t
        <5>1. Idle.tok # t
          BY <2>1, Blank DEF Idle, NoFile
        <5>. QED
          BY <1>1, <2>5, <3>2, <5>1, StepOfBusy DEF Turn, Tok, Pc
      <4>2. Pc(w) # "completing" /\ (r.tok = t => r.st \notin Open)
        BY <1>1, <1>3, <2>1, <4>1 DEF AtClaim, Pc, Tok
      <4>3. Pc(w)' # "completing"
        <5> SUFFICES ASSUME Pc(w)' = "completing" PROVE FALSE
          OBVIOUS
        <5>1. Pc(w) \in {"published", "deciding"}
          BY <3>2, <4>1 DEF Turn, Edges, Early, Pre, Pc
        <5>2. Pc(w) = "deciding"
          BY <2>3, <4>1, <5>1 DEF WorksOnClaim, Executing
        <5>3. ReplayPublication(w)
          <6>1. ReplayPublication(w) \/ ReturnDisplaced(w) \/ WithdrawOutput(w) \/ DropPartial(w) \/ EncodeWorkerCrashes(w)
            BY <5>2, RunsAt DEF WorkerStep, EncodeWork
          <6>2. ReturnDisplaced(w) \/ WithdrawOutput(w) \/ DropPartial(w) \/ EncodeWorkerCrashes(w)
                  => Pc(w)' # "completing"
            BY <1>1, Decides
          <6>. QED
            BY <6>1, <6>2
        <5>4. Return(w) => Pc(w)' = "idle"
          BY <1>1, Moved DEF Idle, Typed, Pc
        <5>5. PublicationMatches(t)
          BY <4>1, <5>3, <5>4 DEF ReplayPublication, Tok
        <5>. QED
          BY <2>2, <5>5
      <4>. QED
        BY <2>4, <3>2, <4>2, <4>3
    <3>3. CASE u = w /\ Pc(w) = "idle"
      <4>1. Tok(w) # t
        BY <1>1, <2>1, <3>3, Blank DEF Knows, Idle, Tok, Pc, NoFile
      <4>2. Tok(w)' # encodeUsed.claims + 1 /\ publisher' # publisher
        BY <1>1, <2>1, <2>5, <3>3, <4>1 DEF Tok, Claims
      <4>3. PICK j \in EncodeIds :
              LET c == encodeJob[j].clean  n == publisher'[w] IN
              \/ ClaimEncode(w, j) /\ n.tok = encodeUsed.claims + 1
              \/ ReconcileActive(w, j) /\ n.tok = c
              \/ ListPendingCleanup(w, j) /\ n.pc = "listed" /\ n.tok = c
        BY <1>1, <3>3, <4>2, Polls
      <4>4. ListPendingCleanup(w, j) /\ Pc(w)' = "listed" /\ encodeJob[j].clean = t
        BY <2>2, <2>5, <3>3, <4>2, <4>3 DEF ReconcileActive, Tok, Pc
      <4>5. j = k /\ encodeJob' = encodeJob
        <5>1. Own(j, encodeJob[j], encodeUsed) /\ encodeJob[j].clean # 0
          BY <4>4 DEF ListPendingCleanup, Inv2, Inv1, Rows
        <5>. QED
          BY <2>1, <4>4, <5>1 DEF Own, ListPendingCleanup
      <4>. QED
        BY <3>3, <4>4, <4>5 DEF ListPendingCleanup, Open
    <3>. QED
      BY <3>1, <3>2, <3>3
  <2>. QED
    BY <1>1, <2>1, <2>5 DEF AtClaim, Tok, Pc
<1>. QED
  BY <1>2, <1>3

\* A staged link is gone when its worker goes on.
LEMMA LinkDropped ==
  ASSUME Typed, NEW w \in EncodeWorkers, Knows(w), WorkerStep(w), Pc(w) \in {"unstaging", "deciding"}
  PROVE  Pc(w)' = "idle" \/ outputFile'.repl[Tok(w)] = NoFile
<1> DEFINE t == Tok(w)
           f == outputFile
           link == CleanedLink(t)
<1>1. publisher \in [EncodeWorkers -> Publishers] /\ f \in Outputs /\ t \in Claims
  BY AtWork DEF Typed, Tok
<1>2. CASE UnstageOutput(w)
  <2> DEFINE g == IF f.repl[t] = t THEN f ELSE Aside(f, f.repl[t])
  <2>1. outputFile' = [g EXCEPT !.repl[t] = NoFile]
    BY <1>2 DEF UnstageOutput, Tok
  <2>2. g \in Outputs
    BY <1>1, FileFits DEF Outputs
  <2> HIDE DEF g
  <2>. QED
    BY <1>1, <2>1, <2>2 DEF Outputs
<1>3. link \in Outputs /\ link.repl[t] = NoFile
  <2> DEFINE g == IF f.repl[t] \in {t, f.prior[t]} THEN f ELSE Aside(f, f.repl[t])
  <2>1. g \in Outputs
    BY <1>1, FileFits DEF Outputs
  <2>2. link = [g EXCEPT !.repl[t] = NoFile] /\ link \in Outputs
    BY <1>1, LinkFits DEF CleanedLink
  <2> HIDE DEF g, link
  <2>. QED
    BY <1>1, <2>1, <2>2 DEF Outputs
<1>. HIDE DEF link
<1>5. CASE ReturnDisplaced(w)
  <2>1. outputFile' = [f EXCEPT !.final = f.repl[t], !.repl[t] = NoFile] \/ Return(w)
    BY <1>5 DEF ReturnDisplaced, Tok
  <2>2. [f EXCEPT !.final = f.repl[t], !.repl[t] = NoFile].repl[t] = NoFile
    BY <1>1 DEF Outputs
  <2>. QED
    BY <1>1, <2>1, <2>2, PcGoes
<1>6. CASE ReplayPublication(w)
  BY <1>3, <1>6 DEF ReplayPublication, Tok, link
<1>7. CASE WithdrawOutput(w)
  <2>1. outputFile' = link \/ outputFile' = [link EXCEPT !.final = NoFile, !.quar[t] = publisher[w].seen]
    BY <1>7 DEF WithdrawOutput, Tok, link
  <2>2. [link EXCEPT !.final = NoFile, !.quar[t] = publisher[w].seen].repl[t] = NoFile
    BY <1>1, <1>3 DEF Outputs
  <2>. QED
    BY <1>3, <2>1, <2>2
<1>8. CASE DropPartial(w)
  <2>1. outputFile' = link \/ outputFile' = [link EXCEPT !.final = publisher[w].base]
    BY <1>8 DEF DropPartial, Tok, link
  <2>2. [link EXCEPT !.final = publisher[w].base].repl[t] = NoFile
    BY <1>1, <1>3 DEF Outputs
  <2>. QED
    BY <1>3, <2>1, <2>2
<1>9. CASE EncodeWorkerCrashes(w)
  BY <1>1, <1>9, PcGoes DEF EncodeWorkerCrashes
<1>. QED
  BY <1>2, <1>5, <1>6, <1>7, <1>8, <1>9, RunsAt DEF WorkerStep, EncodeWork

LEMMA UnlinkedKept ==
  ASSUME Inv2, NEW w \in EncodeWorkers, WorkerStep(w), NEW v \in EncodeWorkers
  PROVE  Unlinked(v)'
<1> DEFINE f == outputFile
           g == outputFile'
           p == publisher[w]
           q == publisher'[w]
<1>1. /\ Inv1 /\ Typed /\ Knows(w) /\ Knows(v) /\ Unlinked(v) /\ Staging(w) /\ f \in Outputs
      /\ \A u \in EncodeWorkers \ {w} : publisher'[u] = publisher[u]
      /\ Pc(w) # "idle" => Tok(w) \in Claims
  BY WorkerTurns, AtWork DEF Inv2, Inv1, Typed, Tok
<1>2. CASE v # w
  <2> DEFINE t == Tok(v)
  <2> SUFFICES ASSUME Pc(v) \in Past \/ (Pc(v) = "failing" /\ publisher[v].put)
               PROVE  g.repl[t] = NoFile
    BY <1>1, <1>2 DEF Unlinked, Pc, Tok
  <2>1. f.repl[t] = NoFile /\ t \in Claims /\ Pc(v) # "listed"
    BY <1>1, AtWork DEF Unlinked, Past, Pc, Tok
  <2>2. CASE Pc(w) = "idle"
    BY <1>1, <2>1, <2>2, Polls
  <2>3. CASE Pc(w) # "idle" /\ Tok(w) # t
    BY <1>1, <2>1, <2>3, FilesTouched DEF Touch, Names
  <2>4. CASE Pc(w) # "idle" /\ Tok(w) = t
    <3>1. Pc(w) \notin Pre
      BY <1>1, <1>2, <2>1, <2>4 DEF Staging, InHand, Pre, Pc, Tok
    <3>. QED
      BY <1>1, <2>1, <2>4, <3>1, OwnNames DEF Pre
  <2>. QED
    BY <2>2, <2>3, <2>4
<1>3. CASE v = w
  <2> SUFFICES ASSUME q.pc \in Past \/ (q.pc = "failing" /\ q.put)
               PROVE  g.repl[q.tok] = NoFile
    BY <1>3 DEF Unlinked
  <2>1. CASE Pc(w) = "idle"
    <3>1. ~Idle.put /\ Idle.pc = "idle" /\ p = Idle
      BY <1>1, <2>1 DEF Idle, Knows, Pc
    <3>2. publisher' # publisher
      BY <3>1 DEF Past
    <3>. QED
      BY <1>1, <2>1, <3>2, Polls, ZenonT(60) DEF ReconcileActive, Past
  <2>2. CASE Pc(w) # "idle"
    <3>1. Turn(p, q) /\ q.tok = Tok(w) /\ Pc(w)' # "idle" /\ Tok(w) \in Claims
      BY <1>1, <2>2, StepOfBusy DEF Idle, Past, Turn, Pc, Tok
    <3>2. CASE Pc(w) \in {"unstaging", "deciding"}
      BY <1>1, <3>1, <3>2, LinkDropped
    <3>3. CASE Pc(w) \in Pre
      <4>1. q.pc # "failing"
        <5>1. p.put => q.pc # "failing"
          BY <1>1, <3>3 DEF Knows, Pc
        <5>. QED
          BY <2>2, <3>1, <3>3, <5>1 DEF Turn, Past, Pc
      <4>2. q.pc = "published"
        BY <3>1, <3>3, <4>1 DEF Turn, Edges, Past, Pre, Early, Pc
      <4>3. Pc(w) = "fenced" => f.repl[Tok(w)] = NoFile
        BY <1>1 DEF Staging, InHand, Pc, Tok
      <4>4. \/ g = [f EXCEPT !.final = Tok(w)] /\ f.repl[Tok(w)] = NoFile
            \/ g = [f EXCEPT !.final = Tok(w), !.repl[Tok(w)] = NoFile]
            \/ g = [f EXCEPT !.repl[Tok(w)] = NoFile]
        BY <1>1, <3>3, <4>2, <4>3, PublicationMoves DEF Pre, Pc
      <4>5. g.repl[Tok(w)] = NoFile
        <5> DEFINE t == Tok(w)
        <5> HIDE DEF t
        <5>1. /\ [f EXCEPT !.final = t].repl[t] = f.repl[t]
              /\ [f EXCEPT !.final = t, !.repl[t] = NoFile].repl[t] = NoFile
              /\ [f EXCEPT !.repl[t] = NoFile].repl[t] = NoFile
          BY <1>1, <3>1 DEF Outputs, t
        <5>. QED
          BY <4>4, <5>1 DEF t
      <4>. QED
        BY <3>1, <4>5
    <3>4. CASE Pc(w) \notin Pre \cup {"unstaging", "deciding"}
      <4>1. Pc(w) \in Past \/ (Pc(w) = "failing" /\ p.put)
        <5>1. Pc(w) \in Early => ~p.put
          BY <1>1 DEF Knows, Pc
        <5>. QED
          BY <2>2, <3>1, <3>4, <5>1 DEF Turn, Edges, Past, Pre, Early, Pc
      <4>2. f.repl[Tok(w)] = NoFile
        BY <1>1, <1>3, <4>1 DEF Unlinked, Pc, Tok
      <4>. QED
        BY <1>1, <3>1, <3>4, <4>2, OwnNames DEF Pre
    <3>. QED
      BY <3>2, <3>3, <3>4
  <2>. QED
    BY <2>1, <2>2
<1>. QED
  BY <1>2, <1>3

LEMMA NoneInPlaceKept ==
  ASSUME Inv2, NEW w \in EncodeWorkers, WorkerStep(w), NEW v \in EncodeWorkers
  PROVE  NoneInPlace(v)'
<1> DEFINE p == publisher[w]
           q == publisher'[w]
<1>1. /\ Inv1 /\ Typed /\ Knows(w) /\ Knows(v) /\ NoneInPlace(v) /\ Staging(v)
      /\ \A u \in EncodeWorkers \ {w} : publisher'[u] = publisher[u]
      /\ \A j \in EncodeIds : RowSound(encodeJob[j])
      /\ \A j, k \in EncodeIds : encodeJob[j].res /\ encodeJob[k].res => j = k
      /\ \A j \in EncodeIds : Calm(encodeJob[j], encodeJob'[j]) \/ Bold(w, j)
  BY WorkerTurns, RowsCalm DEF Inv2, Inv1, Rows
<1> SUFFICES ASSUME NEW j \in EncodeIds, Pc(v)' \in InHand
             PROVE  /\ encodeJob'[j].st = "completed" => ~encodeJob'[j].res
                    /\ encodeJob'[j].st = "running" /\ encodeJob'[j].fence # Unfenced
                         => encodeJob'[j].clean = Tok(v)'
  BY DEF NoneInPlace, Pc, Tok
<1> DEFINE r == encodeJob[j]
           s == encodeJob'[j]
<1>2. ASSUME r.st = "completed" => ~r.res,
             r.st = "running" /\ r.fence # Unfenced => r.clean = Tok(v)', Calm(r, s)
      PROVE  /\ s.st = "completed" => ~s.res
             /\ s.st = "running" /\ s.fence # Unfenced => s.clean = Tok(v)'
  BY <1>2 DEF Calm
<1>3. ASSUME Bold(w, j), s # r
      PROVE  \/ Claimed(w, r, s)
             \/ /\ s.res = r.res /\ s.clean = r.clean
                /\ Fences(w, r, s) \/ Completes(w, r, s) \/ Finalizes(w, r, s) \/ Undoes(w, r, s)
  BY <1>1, <1>3, BoldRows
<1>4. CASE v = w
  <2>1. Pc(w) # "idle"
    BY <1>1, <1>4, Polls DEF InHand, Pc
  <2>2. Turn(p, q) /\ Tok(w)' = Tok(w)
    BY <1>1, <1>4, <2>1, StepOfBusy DEF Idle, InHand, Turn, Pc, Tok
  <2>3. Pc(w) \in {"claimed", "encoding", "validating", "registered", "fenced", "staged"}
    BY <1>4, <2>2 DEF Turn, Edges, InHand, Early, Pre, Pc
  <2>4. CASE Pc(w) = "claimed"
    <3>1. AttemptHolds(p.job, Tok(w)) /\ p.job \in EncodeIds
      <4>1. Pc(w)' = "encoding"
        BY <1>4, <2>2, <2>4 DEF Turn, Edges, InHand, Early, Pre, Pc
      <4>. QED
        BY <1>1, <2>4, <4>1, Prepares, AtWork
    <3>2. /\ r.st = "completed" => ~r.res
          /\ r.st = "running" /\ r.fence # Unfenced => r.clean = Tok(w)
      BY <1>1, <3>1 DEF AttemptHolds, RowSound
    <3>3. ~Bold(w, j)
      BY <2>4, RunsAt DEF Bold, EncodeReconcile
    <3>. QED
      BY <1>1, <1>2, <1>4, <2>2, <3>2, <3>3
  <2>5. CASE Pc(w) # "claimed"
    <3>1. /\ r.st = "completed" => ~r.res
          /\ r.st = "running" /\ r.fence # Unfenced => r.clean = Tok(w)
      BY <1>1, <1>4, <2>3, <2>5 DEF NoneInPlace, InHand
    <3>2. ASSUME Bold(w, j), s # r PROVE s.st = "running" /\ s.clean = Tok(w)
      BY <1>3, <2>3, <3>2 DEF Claimed, Fences, Completes, Finalizes, Undoes
    <3>3. CASE s = r
      BY <1>4, <2>2, <3>1, <3>3
    <3>. QED
      BY <1>1, <1>2, <1>4, <2>2, <3>1, <3>2, <3>3
  <2>. QED
    BY <2>4, <2>5
<1>5. CASE v # w
  <2>1. /\ Pc(v) \in InHand /\ Tok(v)' = Tok(v) /\ outputLock = v /\ outputLock # w /\ Tok(v) \in Claims
        /\ r.st = "completed" => ~r.res
        /\ r.st = "running" /\ r.fence # Unfenced => r.clean = Tok(v)
    BY <1>1, <1>5, AtWork DEF NoneInPlace, Knows, InHand, Holding, Pc, Tok
  <2>2. Pc(w) \notin Holding
    BY <1>1, <2>1 DEF Knows, Pc
  <2>3. CASE s = r
    BY <2>1, <2>3
  <2>4. CASE Bold(w, j) /\ s # r
    <3>1. ~Fences(w, r, s)
      BY <2>2 DEF Fences, Holding
    <3>2. ~Completes(w, r, s)
      <4> SUFFICES ASSUME Completes(w, r, s) PROVE FALSE
        OBVIOUS
      <4>1. r.st = "running" /\ r.fence # Unfenced /\ outputFile.repl[r.clean] = NoFile /\ PublicationMatches(r.clean)
        BY <2>2 DEF Completes, Holding
      <4>2. outputFile.repl[Tok(v)] = NoFile /\ outputFile.final = Tok(v)
        BY <2>1, <4>1 DEF PublicationMatches
      <4>. QED
        BY <1>1, <2>1, <4>2, StagedElsewhere
    <3>3. Claimed(w, r, s) => s.st = "running" /\ s.fence = Unfenced
      BY DEF Claimed
    <3>4. Finalizes(w, r, s) => r.st = "completed" /\ s.st = "completed"
      BY DEF Finalizes
    <3>5. Undoes(w, r, s) => r.st = "completed" /\ (s.st = "running" => r.res)
      BY DEF Undoes
    <3>. QED
      BY <1>3, <2>1, <2>4, <3>1, <3>2, <3>3, <3>4, <3>5
  <2>. QED
    BY <1>1, <1>2, <2>1, <2>3, <2>4
<1>. QED
  BY <1>4, <1>5

LEMMA LockedInPlaceKept ==
  ASSUME Inv2, NEW w \in EncodeWorkers, WorkerStep(w), NEW v \in EncodeWorkers
  PROVE  LockedInPlace(v)'
<1> DEFINE p == publisher[w]
           q == publisher'[w]
<1>1. /\ Inv1 /\ Typed /\ Knows(w) /\ Knows(v) /\ LockedInPlace(v) /\ encodeUsed'.foreign = encodeUsed.foreign
      /\ \A u \in EncodeWorkers \ {w} : publisher'[u] = publisher[u]
  BY WorkerTurns, WorkerFrame DEF Inv2, Inv1
<1> SUFFICES ASSUME Pc(v)' = "completing", publisher'[v].was.st # "running"
             PROVE  outputFile'.final = Tok(v)' \/ encodeUsed'.foreign # 0
  BY DEF LockedInPlace, Pc, Tok
<1>2. CASE v # w
  <2>1. Pc(v) = "completing" /\ publisher[v].was.st # "running" /\ outputLock = v /\ Tok(v)' = Tok(v)
    BY <1>1, <1>2 DEF Knows, Pc, Tok
  <2>2. outputFile'.final = outputFile.final
    BY <1>1, <1>2, <2>1, FinalKept
  <2>. QED
    BY <1>1, <2>1, <2>2 DEF LockedInPlace
<1>3. CASE v = w
  <2>1. Pc(w) # "idle"
    <3>1. ASSUME Pc(w) = "idle" PROVE publisher' # publisher
      BY <1>3, <3>1 DEF Pc
    <3>2. \A j \in EncodeIds : ReconcileActive(w, j) => encodeJob[j].st = "running"
      BY DEF ReconcileActive
    <3>3. Pc(w) = "idle" => Pc(w)' # "completing" \/ publisher'[w].was.st = "running"
      BY <1>1, <3>1, <3>2, Polls DEF Pc
    <3>. QED
      BY <1>3, <3>3
  <2>2. Turn(p, q) /\ Tok(w)' = Tok(w) /\ Pc(w)' # "idle"
    BY <1>1, <1>3, <2>1, StepOfBusy DEF Idle, Turn, Pc, Tok
  <2>3. Pc(w) \in {"published", "deciding"}
    BY <1>3, <2>1, <2>2 DEF Turn, Edges, Early, Pre, Pc
  <2>4. CompletePublished(w) \/ PublicationInterrupted(w) \/ EncodeWorkerCrashes(w) \/ ReturnDisplaced(w)
        \/ ReplayPublication(w) \/ WithdrawOutput(w) \/ DropPartial(w)
    BY <2>3, RunsAt DEF WorkerStep, EncodeWork
  <2>5. publisher \in [EncodeWorkers -> Publishers]
    BY <1>1 DEF Typed
  <2>6. ReplayPublication(w) \/ CompletePublished(w)
    BY <1>1, <1>3, <2>4, <2>5, Decides, PcGoes DEF PublicationInterrupted
  <2>7. PublicationMatches(Tok(w))
    <3>1. CASE CompletePublished(w)
      BY <2>2, <2>5, <3>1, PcGoes DEF CompletePublished, Tok
    <3>. QED
      BY <1>1, <2>2, <2>6, <3>1, Decides
  <2>8. outputFile'.final = outputFile.final
    <3>1. CompletePublished(w) => outputFile' = outputFile
      BY DEF CompletePublished
    <3>2. ReplayPublication(w) => outputFile' = CleanedLink(Tok(w))
      BY DEF ReplayPublication, Tok
    <3>3. CleanedLink(Tok(w)).final = outputFile.final
      BY <1>1 DEF CleanedLink, Aside, Typed, Outputs
    <3>. QED
      BY <2>6, <3>1, <3>2, <3>3
  <2>. QED
    BY <1>3, <2>2, <2>7, <2>8 DEF PublicationMatches
<1>. QED
  BY <1>2, <1>3

\* A claim stays finished for the worker that still has it: its own step ...
LEMMA FinishedOfWorker ==
  ASSUME Inv2, NEW w \in EncodeWorkers, WorkerStep(w)
  PROVE  Finished(w)'
<1> DEFINE p == publisher[w]
           k == p.job
           r == encodeJob[k]
           q == encodeJob'[k]
           t == Tok(w)
<1>1. /\ Inv1 /\ Typed /\ Knows(w) /\ Finished(w) /\ OneWorker /\ publisher \in [EncodeWorkers -> Publishers]
      /\ \A u \in EncodeWorkers \ {w} : publisher'[u] = publisher[u]
      /\ encodeJob \in [EncodeIds -> EncodeRows]
  BY WorkerTurns DEF Inv2, Inv1, Typed
<1> SUFFICES ASSUME Pc(w)' \in {"quarantining", "discarding", "cleaning"}, ~WorksOnClaim(w)', outputLock' # w,
                    NEW u \in EncodeWorkers, WorksOnClaim(u)', Tok(u)' = Tok(w)',
                    encodeJob'[publisher'[w].job].tok = Tok(w)'
             PROVE  encodeJob'[publisher'[w].job].st \notin Open /\ ~encodeJob'[publisher'[w].job].pcp
  BY DEF Finished, Pc, Tok
<1>2. Pc(w) # "idle"
  <2>1. ASSUME Pc(w) = "idle" PROVE publisher' # publisher
    BY <2>1 DEF Pc
  <2>. QED
    BY <1>1, <2>1, Polls DEF Pc
<1>3. Turn(p, publisher'[w]) /\ Tok(w)' = t /\ publisher'[w].job = k /\ ~Return(w)
  <2>1. Turn(p, publisher'[w]) /\ ~Return(w)
    BY <1>1, <1>2, StepOfBusy, WorkerTurns DEF Idle, Pc
  <2>. QED
    BY <1>2, <2>1 DEF Turn, Pc, Tok
<1>4. u # w /\ WorksOnClaim(u) /\ Tok(u) = t /\ ~WorksOnClaim(w)
  <2>1. u # w
    OBVIOUS
  <2>. QED
    BY <1>1, <1>3, <2>1 DEF WorksOnClaim, OneWorker, Pc, Tok
<1>5. outputLock # w
  BY <1>1, <1>3, WorkerFrame, EncodeConstants
<1>6. Pc(w) \in {"completing", "quarantining", "discarding"}
  <2>1. Pc(w) \notin Executing /\ Pc(w) \notin {"deciding", "returning"}
    BY <1>1, <1>4, <1>5 DEF WorksOnClaim, Knows, Holding, Pc
  <2>. QED
    BY <1>3, <2>1 DEF Turn, Edges, Executing, Early, Pre, Pc
<1>7. k \in EncodeIds /\ r \in EncodeRows /\ t # 0
  BY <1>1, <1>2 DEF Knows, Pc, Tok
<1>8. CASE Pc(w) = "completing"
  <2>1. FinalizePublished(w)
    <3>1. FinalizePublished(w) \/ PublicationInterrupted(w) \/ EncodeWorkerCrashes(w)
      BY <1>8, RunsAt DEF WorkerStep, EncodeWork
    <3>. QED
      BY <1>3, <1>8, <3>1 DEF PublicationInterrupted, EncodeWorkerCrashes, Pc
  <2>2. q = FinalRow(r) /\ r.st = "completed"
    BY <1>1, <1>3, <1>7, <2>1 DEF FinalizePublished, OwnsPublication
  <2>. QED
    BY <1>3, <1>7, <2>2 DEF FinalRow, EncodeRows, Open
<1>9. CASE Pc(w) \in {"quarantining", "discarding"}
  <2>1. r.tok = t => r.st \notin Open /\ ~r.pcp
    BY <1>1, <1>4, <1>5, <1>9 DEF Finished, Pc, Tok
  <2>2. Calm(r, q)
    <3>1. ~Bold(w, k)
      BY <1>7, <1>9, RunsAt DEF Bold, EncodeReconcile
    <3>. QED
      BY <1>1, <1>7, <3>1, RowsCalm
  <2>. QED
    BY <1>3, <1>7, <2>1, <2>2 DEF Calm
<1>. QED
  BY <1>6, <1>8, <1>9

\* ... and another's.
LEMMA FinishedOfOthers ==
  ASSUME Inv2, Inv1', NEW w \in EncodeWorkers, WorkerStep(w), NEW v \in EncodeWorkers \ {w}
  PROVE  Finished(v)'
<1> DEFINE k == publisher[v].job
           r == encodeJob[k]
           q == encodeJob'[k]
           t == Tok(v)
<1>1. /\ Inv1 /\ Typed /\ Knows(w) /\ Knows(v) /\ Finished(v) /\ Knows(w)'
      /\ \A u \in EncodeWorkers \ {w} : publisher'[u] = publisher[u]
      /\ encodeJob \in [EncodeIds -> EncodeRows] /\ encodeUsed.claims \in Nat
  BY WorkerTurns, EncodeConstants DEF Inv2, Inv1, Typed, Used
<1> SUFFICES ASSUME Pc(v) \in {"quarantining", "discarding", "cleaning"}, ~WorksOnClaim(v), outputLock' # v,
                    NEW u \in EncodeWorkers, WorksOnClaim(u)', Tok(u)' = t, q.tok = t
             PROVE  q.st \notin Open /\ ~q.pcp
  BY <1>1 DEF Finished, WorksOnClaim, Pc, Tok
<1>2. /\ outputLock # v /\ k \in EncodeIds /\ r \in EncodeRows /\ RowSound(r)
      /\ t \in Claims /\ t <= encodeUsed.claims
  BY <1>1, WorkerFrame, AtWork DEF Knows, Inv1, Rows, Pc, Tok
<1>3. WorksOnClaim(u) /\ Tok(u) = t
  <2>1. CASE u # w
    BY <1>1, <2>1 DEF WorksOnClaim, Pc, Tok
  <2>2. CASE u = w /\ Pc(w) # "idle"
    BY <1>1, <2>2, StillWorking
  <2>3. CASE u = w /\ Pc(w) = "idle"
    <3>1. CASE publisher' = publisher
      BY <2>3, <3>1 DEF WorksOnClaim, Pc, Tok
    <3>2. Pc(w)' \notin {"completing", "listed"}
      BY <1>1, <2>3 DEF WorksOnClaim, Knows, Executing, Early, Pre, Pc
    <3>3. Tok(w)' # encodeUsed.claims + 1
      BY <1>1, <1>2, <2>3 DEF Claims, Tok
    <3>. QED
      BY <1>1, <2>3, <3>1, <3>2, <3>3, Polls DEF Pc, Tok
  <2>. QED
    BY <2>1, <2>2, <2>3
<1>4. r.tok = t => r.st \notin Open /\ ~r.pcp
  BY <1>1, <1>2, <1>3 DEF Finished, Pc, Tok
<1>5. CASE Calm(r, q)
  BY <1>2, <1>4, <1>5 DEF Calm, Claims
<1>6. CASE Bold(w, k) /\ q # r
  <2>1. ~Claimed(w, r, q)
    BY <1>1, <1>2 DEF Claimed, Claims
  <2>2. /\ q.tok = r.tok /\ q.clean = r.clean
        /\ Fences(w, r, q) \/ Completes(w, r, q) \/ Finalizes(w, r, q) \/ Undoes(w, r, q)
    BY <1>1, <1>2, <1>6, <2>1, BoldRows
  <2>3. r.st \notin Open /\ ~r.pcp
    BY <1>4, <2>2
  <2>4. ~Completes(w, r, q)
    <3> SUFFICES ASSUME Completes(w, r, q) PROVE FALSE
      OBVIOUS
    <3>1. Pc(w) = "deciding" /\ r.clean = Tok(w) /\ r.st \in {"failed", "completed"} /\ r.clean # 0
          /\ PublicationMatches(r.clean)
      BY <2>3 DEF Completes, Open
    <3>2. Tok(w) = t /\ outputFile.final = t
      BY <1>2, <2>2, <3>1 DEF RowSound, PublicationMatches
    <3>3. ~WorksOnClaim(w) /\ outputLock = w
      BY <1>1, <3>1 DEF WorksOnClaim, Knows, Holding, Executing, Early, Pre, Pc
    <3>4. Unwritten(t)
      BY <1>3, <3>3 DEF Unwritten
    <3>. QED
      BY <1>2, <3>2, <3>4 DEF Inv2, UnusedClaims, Nowhere, Nameless
  <2>5. (~Fences(w, r, q) /\ ~Finalizes(w, r, q) /\ ~Undoes(w, r, q)) \/ (q.st = "completed" /\ ~q.pcp)
    BY <2>3 DEF Fences, Finalizes, Undoes, Open
  <2>. QED
    BY <2>2, <2>4, <2>5 DEF Open
<1>7. CASE q = r
  BY <1>4, <1>7
<1>. QED
  BY <1>1, <1>2, <1>5, <1>6, <1>7, RowsCalm

\* No step of a worker takes the file of a finished job out of its place.
LEMMA CompletedInPlaceKept ==
  ASSUME Inv2, Inv1', NEW w \in EncodeWorkers, WorkerStep(w)
  PROVE  CompletedInPlace'
<1> DEFINE p == publisher[w]
<1>1. /\ Inv1 /\ Typed /\ Knows(w) /\ Revoked(w) /\ NoneInPlace(w) /\ LockedInPlace(w) /\ UnusedClaims /\ Alone
      /\ CompletedInPlace /\ encodeUsed'.foreign = encodeUsed.foreign /\ encodeUsed \in Used
      /\ encodeUsed.claims \in Nat /\ outputFile \in Outputs
      /\ Pc(w) # "idle" => Tok(w) \in Claims
  BY WorkerFrame, AtWork, EncodeConstants DEF Inv2, Inv1, Typed, Used, Tok
<1>2. ASSUME NEW t \in Claims, t <= encodeUsed.claims PROVE encodeUsed'.of[t] = encodeUsed.of[t]
  <2>1. CASE KeepsUsed
    BY <2>1 DEF KeepsUsed
  <2>2. CASE \E j \in EncodeIds : ClaimEncode(w, j)
    <3>1. PICK j \in EncodeIds : encodeUsed' = [encodeUsed EXCEPT !.claims = encodeUsed.claims + 1,
                                                                  !.of[encodeUsed.claims + 1] = j]
      BY <2>2 DEF ClaimEncode
    <3>2. t # encodeUsed.claims + 1
      BY <1>1, <1>2 DEF Claims
    <3>. QED
      BY <1>1, <3>1, <3>2 DEF Used
  <2>. QED
    BY <2>1, <2>2, WorkerFrame, <1>1
<1>3. outputFile.final \in Claims => outputFile.final <= encodeUsed.claims
  <2> SUFFICES ASSUME outputFile.final \in Claims, ~(outputFile.final <= encodeUsed.claims) PROVE FALSE
    OBVIOUS
  <2>1. outputFile.final > encodeUsed.claims
    BY <1>1 DEF Claims
  <2>. QED
    BY <1>1, <2>1 DEF UnusedClaims, Unwritten, Nowhere, Nameless
<1> SUFFICES ASSUME encodeUsed.foreign = 0, NEW j \in EncodeIds, encodeJob'[j].st = "completed",
                    ~encodeJob'[j].pcp, encodeJob'[j].res
             PROVE  outputFile'.final \in Claims /\ encodeUsed'.of[outputFile'.final] = j
  BY <1>1 DEF CompletedInPlace
<1> DEFINE r == encodeJob[j]
           q == encodeJob'[j]
<1>4. /\ RowSound(r) /\ r \in EncodeRows /\ Own(j, r, encodeUsed)
  BY <1>1 DEF Inv1, Rows, RowSound
<1>5. Pc(w) # "idle" => Tok(w) # 0 /\ encodeUsed.of[Tok(w)] = p.job
  BY <1>1 DEF Knows, Pc, Tok
<1>6. CASE Calm(r, q)
  <2>1. outputFile.final \in Claims /\ encodeUsed.of[outputFile.final] = j /\ r.st = "completed" /\ r.res
    BY <1>1, <1>6 DEF Calm, CompletedInPlace
  <2>2. Pc(w) \notin InHand
    BY <1>1, <2>1 DEF NoneInPlace
  <2>3. ASSUME Pc(w) # "idle", Tok(w) = outputFile.final PROVE p.job = j
    BY <1>5, <2>1, <2>3
  <2>4. ~(RollbackOutput(w) /\ outputFile.final = Tok(w))
    <3> SUFFICES ASSUME RollbackOutput(w), outputFile.final = Tok(w) PROVE FALSE
      OBVIOUS
    <3>1. Pc(w) = "rollback"
      BY RunsAt
    <3>. QED
      BY <1>1, <2>1, <2>3, <3>1 DEF Revoked, Recalled, Open
  <2>5. ~(WithdrawOutput(w) /\ outputFile.final = Tok(w) /\ encodeJob[p.job].clean = Tok(w) /\ ~encodeJob[p.job].pub)
    <3> SUFFICES ASSUME WithdrawOutput(w), outputFile.final = Tok(w), encodeJob[p.job].clean = Tok(w),
                        ~encodeJob[p.job].pub PROVE FALSE
      OBVIOUS
    <3>1. Pc(w) = "deciding"
      BY RunsAt
    <3>. QED
      BY <1>4, <1>5, <2>1, <2>3, <3>1 DEF RowSound
  <2>6. ~ReturnDisplaced(w)
    <3> SUFFICES ASSUME ReturnDisplaced(w) PROVE FALSE
      OBVIOUS
    <3>1. Pc(w) = "deciding" /\ p.put
      BY RunsAt DEF ReturnDisplaced
    <3>. QED
      BY <1>1, <3>1 DEF Alone, Lister
  <2>7. outputFile.final # NoFile
    BY <2>1, Blank
  <2>8. outputFile'.final = outputFile.final
    <3>1. ~StagePublication(w) /\ ~ExchangeOutput(w) /\ ~RenameOutput(w) /\ ~InspectExchange(w)
      BY <2>2, RunsAt DEF InHand
    <3>. QED
      BY <1>1, <2>4, <2>5, <2>6, <2>7, <3>1, FinalMoves
  <2>. QED
    BY <1>2, <1>3, <2>1, <2>8
<1>7. CASE Bold(w, j) /\ q # r
  <2>1. r.clean = Tok(w) /\ outputFile.final = Tok(w) /\ Pc(w) = "completing"
    <3>1. Finalizes(w, r, q) \/ Undoes(w, r, q)
      BY <1>1, <1>7, BoldRows DEF Claimed, Fences, Completes
    <3>2. CASE Finalizes(w, r, q)
      BY <3>2 DEF Finalizes, PublicationMatches
    <3>3. CASE Undoes(w, r, q)
      BY <1>1, <3>3 DEF Undoes, LockedInPlace
    <3>. QED
      BY <3>1, <3>2, <3>3
  <2>2. outputFile.final \in Claims /\ encodeUsed.of[outputFile.final] = j
    BY <1>1, <1>4, <1>5, <2>1 DEF Own
  <2>3. outputFile'.final = outputFile.final
    BY <1>1, <2>1, FinalMoves, RunsAt
  <2>. QED
    BY <1>2, <1>3, <2>2, <2>3
<1>8. CASE q = r
  <2>1. Calm(r, q)
    BY <1>8 DEF Calm
  <2>. QED
    BY <1>6, <2>1
<1>. QED
  BY <1>1, <1>6, <1>7, <1>8, RowsCalm

\* Another program installs its file, or a left encoder closes.
LEMMA OutsideKeepsPlace ==
  ASSUME Inv2, Inv1', ForeignOutput \/ \E t \in Claims : EncoderCloses(t)
  PROVE  Inv2'
<1>1. Inv1 /\ Typed /\ outputFile \in Outputs /\ encodeUsed \in Used /\ encodeJob \in [EncodeIds -> EncodeRows]
  BY DEF Inv2, Inv1, Typed
<1>2. CASE \E t \in Claims : EncoderCloses(t)
  <2>1. UNCHANGED <<outputFile, publisher, outputLock, encodeJob, encodeUsed>>
    BY <1>2 DEF EncoderCloses
  <2>2. Quiet
    BY <1>1, <2>1, CalmRows DEF Quiet, KeepsUsed
  <2>3. \A w \in EncodeWorkers : Revoked(w)'
    BY <2>1 DEF Inv2, Revoked, Pc, Tok
  <2>. QED
    BY <2>2, <2>3, QuietKeeps
<1>3. CASE ForeignOutput
  <2>1. /\ encodeUsed'.foreign # 0 /\ encodeUsed'.claims = encodeUsed.claims
        /\ UNCHANGED <<publisher, outputLock, encodeJob>>
    BY <1>1, <1>3 DEF ForeignOutput, Used
  <2>2. /\ outputFile' = [outputFile EXCEPT !.final = Foreign]
        /\ outputFile'.final = Foreign
        /\ outputFile'.part = outputFile.part /\ outputFile'.prior = outputFile.prior
        /\ outputFile'.repl = outputFile.repl /\ outputFile'.quar = outputFile.quar
        /\ outputFile'.aside = outputFile.aside
    BY <1>1, <1>3 DEF ForeignOutput, Outputs
  <2>3. \A t \in Claims : t # Foreign
    BY Blank
  <2>4. UnusedClaims' /\ Alone' /\ Links' /\ CompletedInPlace'
    <3>1. \A t \in Claims : Unwritten(t)' => Unwritten(t)
      BY <2>1 DEF Unwritten, WorksOnClaim, Pc, Tok
    <3>2. UnusedClaims'
      BY <2>1, <2>2, <2>3, <3>1 DEF Inv2, UnusedClaims, Nowhere, Nameless, NoNames
    <3>. QED
      BY <2>1, <2>2, <3>2 DEF Inv2, Alone, Links, CompletedInPlace
  <2>5. ASSUME NEW w \in EncodeWorkers
        PROVE  /\ Staging(w)' /\ AtClaim(w)' /\ Unlinked(w)' /\ NoneInPlace(w)'
               /\ LockedInPlace(w)' /\ Revoked(w)' /\ Finished(w)'
    <3>1. /\ Staging(w) /\ AtClaim(w) /\ Unlinked(w) /\ NoneInPlace(w) /\ Revoked(w) /\ Finished(w)
          /\ Knows(w) /\ publisher' = publisher
      BY <2>1 DEF Inv2, Inv1
    <3>2. Staging(w)'
      <4>1. Pc(w) # "idle" => Tok(w) \in Claims
        BY <1>1, <3>1, AtWork DEF Tok
      <4>. QED
        BY <2>2, <2>3, <3>1, <4>1 DEF Staging, InHand, Pc, Tok
    <3>3. AtClaim(w)' /\ NoneInPlace(w)' /\ Revoked(w)' /\ LockedInPlace(w)'
      BY <2>1, <3>1 DEF AtClaim, NoneInPlace, Revoked, LockedInPlace, Pc, Tok
    <3>4. Unlinked(w)' /\ Finished(w)'
      BY <2>1, <2>2, <3>1 DEF Unlinked, Finished, WorksOnClaim, Pc, Tok
    <3>. QED
      BY <3>2, <3>3, <3>4
  <2>. QED
    BY <2>4, <2>5 DEF Inv2
<1>. QED
  BY <1>2, <1>3

LEMMA RequestsKeepPlace ==
  ASSUME Inv2, Inv1', Request
  PROVE  Inv2'
<1>1. Inv1 /\ Quiet
  BY RequestQuiet DEF Inv2
<1>2. ASSUME NEW w \in EncodeWorkers PROVE Revoked(w)'
  <2>1. publisher' = publisher /\ Revoked(w) /\ Knows(w)
    BY <1>1 DEF Quiet, Inv2, Inv1
  <2>2. Pc(w) # "idle" => publisher[w].job \in EncodeIds
    BY <2>1 DEF Knows, Pc
  <2>. QED
    BY <1>1, <2>1, <2>2, RequestsRecall DEF Revoked, Pc, Tok
<1>. QED
  BY <1>1, <1>2, QuietKeeps

LEMMA WorkersKeepPlace ==
  ASSUME Inv2, Inv1', NEW w \in EncodeWorkers, WorkerStep(w)
  PROVE  Inv2'
<1>1. UnusedClaims' /\ Alone' /\ Links' /\ CompletedInPlace'
  BY UnusedKept, AloneKept, LinksKept, CompletedInPlaceKept
<1>2. ASSUME NEW v \in EncodeWorkers PROVE Staging(v)' /\ Finished(v)'
  <2>1. CASE v = w
    BY <2>1, StagingOfWorker, FinishedOfWorker
  <2>2. CASE v # w
    BY <2>2, StagingOfOthers, FinishedOfOthers
  <2>. QED
    BY <2>1, <2>2
<1>3. ASSUME NEW v \in EncodeWorkers
      PROVE  AtClaim(v)' /\ Unlinked(v)' /\ NoneInPlace(v)' /\ LockedInPlace(v)' /\ Revoked(v)'
  BY AtClaimKept, UnlinkedKept, NoneInPlaceKept, LockedInPlaceKept, RevokedKept
<1>. QED
  BY <1>1, <1>2, <1>3 DEF Inv2

LEMMA Inv2Init == EncodeInit => Inv2
<1> SUFFICES ASSUME EncodeInit PROVE Inv2
  OBVIOUS
<1>1. Inv1 /\ Typed
  BY Inv1Init DEF Inv1
<1>2. /\ \A w \in EncodeWorkers : publisher[w] = Idle
      /\ outputFile.final \in {NoFile, Original} /\ outputFile.aside = {}
      /\ \A t \in Claims : /\ outputFile.part[t] = NoFile /\ outputFile.prior[t] = NoFile
                           /\ outputFile.repl[t] = NoFile /\ outputFile.quar[t] = NoFile
      /\ \A j \in EncodeIds : encodeJob[j].st # "completed"
  BY DEF EncodeInit, Row
<1>3. /\ \A t \in Claims \cup {Foreign} : t # NoFile /\ t # Original
  BY EncodeConstants DEF Claims, Foreign, Original, NoFile
<1>4. \A w \in EncodeWorkers : /\ Pc(w) = "idle" /\ ~publisher[w].can /\ Tok(w) = 0
                               /\ publisher[w].base = NoFile /\ publisher[w].seen = NoFile
  BY <1>2 DEF Idle, Pc, Tok
<1>5. UnusedClaims /\ Alone /\ Links /\ CompletedInPlace
  BY <1>2, <1>3, <1>4 DEF UnusedClaims, Alone, Links, CompletedInPlace, Nowhere, Nameless, NoNames, Lister
<1>6. \A w \in EncodeWorkers : /\ Staging(w) /\ AtClaim(w) /\ Unlinked(w) /\ NoneInPlace(w)
                               /\ LockedInPlace(w) /\ Revoked(w) /\ Finished(w)
  BY <1>4 DEF Staging, AtClaim, Unlinked, NoneInPlace, LockedInPlace, Revoked, Finished, InHand, Past, Pc
<1>. QED
  BY <1>1, <1>5, <1>6 DEF Inv2

\* Every reachable state is one the invariant describes.
THEOREM EncodeFilesAreKnown == EncodeSpec => []Inv2
<1>1. Inv2 /\ [EncodeNext]_encodeVars => Inv2'
  <2> SUFFICES ASSUME Inv2, [EncodeNext]_encodeVars PROVE Inv2'
    OBVIOUS
  <2>1. CASE UNCHANGED encodeVars
    <3>1. Inv1'
      BY <2>1 DEF encodeVars, Inv2, Inv1, Typed, Rows, Knows, OneWorker, WorksOnClaim, Tok, Pc
    <3>2. Quiet /\ \A w \in EncodeWorkers : Revoked(w)'
      BY <2>1, CalmRows DEF encodeVars, Inv2, Inv1, Typed, Quiet, KeepsUsed, Revoked, Pc, Tok
    <3>. QED
      BY <3>1, <3>2, QuietKeeps
  <2>2. CASE EncodeNext
    <3>1. Inv1 /\ Inv1'
      BY <2>2, WorkKeeps, RequestsKeep, ReconcileKeeps, FaultsKeep, ClaimKeeps, OutsideKeeps DEF EncodeNext, Inv2
    <3>2. Request \/ (\E w \in EncodeWorkers : WorkerStep(w)) \/ ForeignOutput \/ \E t \in Claims : EncoderCloses(t)
      BY <2>2 DEF EncodeNext, Request, WorkerStep
    <3>. QED
      BY <3>1, <3>2, RequestsKeepPlace, WorkersKeepPlace, OutsideKeepsPlace
  <2>. QED
    BY <2>1, <2>2
<1>. QED
  BY <1>1, Inv2Init, PTL DEF EncodeSpec

\* A finished job that still owns the path has its own output there, whatever
\* late publishers, rollbacks, recoveries and corrections do, for any number
\* of jobs, workers, claims, crashes and lost leases (unless another program
\* put its file there): publishReplacementAtMutationBoundary and
\* reconcilePendingPublications never displace it.
THEOREM CompletedStaysInPlace == EncodeSpec => []CompletedInPlace
  BY EncodeFilesAreKnown, PTL DEF Inv2
=============================================================================
