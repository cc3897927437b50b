------------------------------ MODULE EncodeOutputProofs ------------------------------
(***************************************************************************)
(* No file that was ever the accepted output of the path loses its last    *)
(* name, for any jobs, workers, claims, foreign files and budgets.         *)
(*                                                                         *)
(* A file is safe for good once it is a prior file or moved aside          *)
(* (Backed).  Any other accepted output has one name, at the path, or in a *)
(* partial that nobody works on (Retained), and what could remove that     *)
(* name is a rollback, a withdrawal, an exchange or a discard of its own   *)
(* claim.  Each of these looks at a row first: the rest of the invariant   *)
(* (Inv3) says what that row tells of the file for as long as the worker   *)
(* still acts on it, above all when it read the directory before it had    *)
(* the mutation lock (ListerKnows), when the row was completed without the *)
(* lock (PrimaryKnows), and when two workers clean up one claim            *)
(* (DiscardKnows).                                                         *)
(***************************************************************************)
EXTENDS EncodeProofs

-----------------------------------------------------------------------------
(* The inductive invariant.                                                *)

\* Names no step of any worker removes.
Backed(i) == i \in outputFile.aside \/ \E t \in Claims : outputFile.prior[t] = i
\* The exchange put a file aside that the publication did not expect.
Displaced(t) == outputFile.repl[t] \notin {NoFile, t, outputFile.prior[t]}

\* A completion of a row that was not completed before.
Primary(w) == Pc(w) = "completing" /\ publisher[w].was.st # "completed"

Quarantined == \A t \in Claims :
  /\ outputFile.part[t] \in {NoFile, t} /\ outputFile.quar[t] \in {NoFile, t}
  /\ outputFile.quar[t] # NoFile => \A j \in EncodeIds : encodeJob[j].clean = t => ~encodeJob[j].pub

DisplacedKnown == \A t \in Claims : Displaced(t) => outputFile.part[t] = t \/ Backed(t)

Over(t) == \A j \in EncodeIds : encodeJob[j].tok = t => encodeJob[j].st \notin Open

\* The output of a claim that still writes or stages is not accepted yet.
NotKept == \A t \in Claims :
  Unwritten(t) \/ (\E w \in EncodeWorkers : Tok(w) = t /\ Pc(w) \in InHand) => t \notin keptOutputs

\* Whoever else has the claim of an encoding worker listed it when its row
\* was no longer open.
EarlyAlone(w) == Pc(w) \in {"encoding", "validating", "registered"} =>
  \A v \in EncodeWorkers \ {w} : Tok(v) = Tok(w) => Over(Tok(w))
EarlyRow(w) == Pc(w) \in {"claimed", "encoding", "validating"} =>
  \A j \in EncodeIds : encodeJob[j].tok = Tok(w) /\ encodeJob[j].st \in Open => encodeJob[j].clean = 0

\* A worker that publishes is alone with its claim and its fenced row.
Fenced(r, t) == r.tok = t /\ r.clean = t /\ r.pub /\ r.st \in Open /\ r.fence # Unfenced
PreAlone(w) == Pc(w) \in Pre =>
  /\ Fenced(encodeJob[publisher[w].job], Tok(w))
  /\ \A v \in EncodeWorkers \ {w} : Tok(v) # Tok(w)

Undisturbed(w) == WorksOnClaim(w) /\ Pc(w) # "exchanged" => ~Displaced(Tok(w))

\* What a worker saw before it had the lock still holds of a claim whose
\* publication is pending and whose file has no other name.
ListerKnows(w) == LET p == publisher[w]  t == p.tok IN Lister(w) =>
  /\ p.base \in {NoFile, outputFile.prior[t]}
  /\ ~p.put => ~Displaced(t)
  /\ p.put /\ ~p.keep => Backed(t)
  /\ ~Backed(t) => \A j \in EncodeIds : encodeJob[j].clean = t /\ encodeJob[j].pub =>
       /\ p.seen # t => outputFile.final # t
       /\ p.put => /\ t \notin keptOutputs
                   /\ \A v \in EncodeWorkers : Pc(v) = "completing" => Tok(v) # t
                   /\ outputFile.final = t => Displaced(t)
                   /\ encodeJob[j].st \notin Open

\* Only one worker may undo a completion, and while it may, the partial of
\* the output is there.
PrimaryKnows(w) == Primary(w) =>
  /\ Over(Tok(w))
  /\ \A j \in EncodeIds : encodeJob[j].clean = Tok(w) =>
       /\ encodeJob[j].st = "completed"
       /\ encodeJob[j].pcp => outputFile.part[Tok(w)] = Tok(w) \/ Backed(Tok(w))
  /\ \A v \in EncodeWorkers \ {w} : Primary(v) => Tok(v) # Tok(w)

\* The partial is removed only when the output is accepted, elsewhere or
\* taken back, and not under a completion that could still be undone.
DiscardKnows(w) == LET t == Tok(w) IN
  Pc(w) \in {"returning", "discarding"} /\ ~Backed(t) =>
    \A j \in EncodeIds : encodeJob[j].clean = t =>
      /\ \/ ~encodeJob[j].pub
         \/ Pc(w) = "discarding" /\ (t \in keptOutputs \/ outputFile.final # t)
      /\ \A v \in EncodeWorkers \ {w} : Primary(v) /\ Tok(v) = t => outputLock = w /\ ~encodeJob[j].pcp

\* A failed output that was kept: its partial, nobody's business any more.
Retained(i) == /\ outputFile.part[i] = i
               /\ \A w \in EncodeWorkers : Tok(w) # i
               /\ \A j \in EncodeIds : encodeJob[j].clean # i
Held(i) == \/ Backed(i) \/ outputFile.final = i \/ (i \in Claims /\ Retained(i))
           \/ i = Foreign /\ \E t \in Claims : outputFile.repl[t] = Foreign
KeptHeld == \A i \in keptOutputs : Held(i)
\* The row of an accepted output says so, or asks nothing of it.
Accepted(t) == Over(t) /\ \A j \in EncodeIds : encodeJob[j].clean = t =>
                 encodeJob[j].st = "completed" /\ encodeJob[j].pub
KeptAccepted == \A t \in Claims \cap keptOutputs :
  outputFile.repl[t] = NoFile /\ (~Backed(t) => Accepted(t))

OfWorker(w) == /\ EarlyAlone(w) /\ EarlyRow(w) /\ PreAlone(w) /\ Undisturbed(w) /\ ListerKnows(w)
               /\ PrimaryKnows(w) /\ DiscardKnows(w)
Inv3 == /\ Inv2 /\ Quarantined /\ DisplacedKnown /\ NotKept /\ KeptHeld /\ KeptAccepted
        /\ \A w \in EncodeWorkers : OfWorker(w)

-----------------------------------------------------------------------------
(* What one step of a worker does to the directory.                        *)

Becomes(t, final, part, prior, repl, quar) ==
  /\ outputFile'.final = final /\ outputFile'.part[t] = part /\ outputFile'.prior[t] = prior
  /\ outputFile'.repl[t] = repl /\ outputFile'.quar[t] = quar

\* The staged link is dropped: it had another name, or it is moved aside.
LinkSafe(t) == outputFile.repl[t] \in {NoFile, t, outputFile.prior[t]} \cup outputFile'.aside

FileStep(w) ==
  LET p == publisher[w]  t == p.tok  q == publisher'[w]  r == encodeJob[p.job]
      final == outputFile.final  part == outputFile.part[t]  prior == outputFile.prior[t]
      repl == outputFile.repl[t]  quar == outputFile.quar[t] IN
  \/ Becomes(t, final, part, prior, repl, quar)
  \/ p.pc = "claimed" /\ q.pc = "encoding" /\ Becomes(t, final, t, prior, repl, quar)
  \/ p.pc = "fenced" /\ q.pc = "published" /\ final = NoFile /\ Becomes(t, t, part, prior, repl, quar)
  \/ p.pc = "fenced" /\ q.pc = "staged" /\ final = p.base /\ Becomes(t, final, part, final, t, quar)
  \/ p.pc = "staged" /\ q.pc = "exchanged" /\ Becomes(t, t, part, prior, final, quar)
  \/ p.pc = "staged" /\ q.pc = "published" /\ final = p.base /\ Becomes(t, t, part, prior, NoFile, quar)
  \/ /\ p.pc = "exchanged" /\ q.pc = "published" /\ final = t /\ repl = p.base
     /\ Becomes(t, final, part, prior, NoFile, quar)
  \/ /\ p.pc = "exchanged" /\ q.pc = "failing" /\ final = t /\ repl # p.base
     /\ Becomes(t, repl, part, prior, t, quar)
  \/ p.pc = "discarding" /\ q.pc = "cleaning" /\ Becomes(t, final, NoFile, prior, repl, quar)
  \/ p.pc = "rollback" /\ q.pc = "restoring" /\ final = t /\ Becomes(t, NoFile, part, prior, repl, t)
  \/ p.pc \in {"restoring", "returning"} /\ final = NoFile /\ Becomes(t, prior, part, prior, repl, quar)
  \/ p.pc = "unstaging" /\ LinkSafe(t) /\ Becomes(t, final, part, prior, NoFile, quar)
  \/ /\ p.pc \in {"settling", "quarantining"} /\ part \in {NoFile} \cup outputFile'.aside
     /\ Becomes(t, final, NoFile, prior, repl, quar)
  \/ p.pc = "listed" /\ q.pc = "deciding" /\ Becomes(t, final, part, prior, repl, NoFile)
  \/ p.pc = "listed" /\ q.pc = "deciding" /\ final = NoFile /\ Becomes(t, quar, part, prior, repl, NoFile)
  \/ /\ p.pc = "deciding" /\ q.pc = "quarantining" /\ p.put /\ p.seen = t /\ final = t
     /\ r.clean = t /\ r.pub /\ Becomes(t, repl, part, prior, NoFile, quar)
  \/ /\ p.pc = "deciding" /\ (p.put => ~p.keep \/ p.seen # t)
     /\ LinkSafe(t) /\ Becomes(t, final, part, prior, NoFile, quar)
  \/ /\ p.pc = "deciding" /\ q.pc = "returning" /\ ~p.put /\ p.seen = t /\ final = t
     /\ r.clean = t /\ ~r.pub /\ LinkSafe(t) /\ Becomes(t, NoFile, part, prior, NoFile, t)
  \/ /\ p.pc = "deciding" /\ q.pc = "quarantining" /\ p.seen = NoFile /\ final = NoFile
     /\ LinkSafe(t) /\ Becomes(t, p.base, part, prior, NoFile, quar)

LEMMA FinalFields ==
  ASSUME NEW f \in Outputs, NEW t \in Claims, NEW x
  PROVE  LET g == [f EXCEPT !.final = x] IN
         /\ g.final = x /\ g.aside = f.aside
         /\ g.part = f.part /\ g.prior = f.prior /\ g.repl = f.repl /\ g.quar = f.quar
BY DEF Outputs

LEMMA PartFields ==
  ASSUME NEW f \in Outputs, NEW t \in Claims, NEW x
  PROVE  LET g == [f EXCEPT !.part[t] = x] IN
         /\ g.part[t] = x /\ g.aside = f.aside
         /\ g.final = f.final /\ g.prior = f.prior /\ g.repl = f.repl /\ g.quar = f.quar
BY DEF Outputs

LEMMA PriorFields ==
  ASSUME NEW f \in Outputs, NEW t \in Claims, NEW x
  PROVE  LET g == [f EXCEPT !.prior[t] = x] IN
         /\ g.prior[t] = x /\ g.aside = f.aside
         /\ g.final = f.final /\ g.part = f.part /\ g.repl = f.repl /\ g.quar = f.quar
BY DEF Outputs

LEMMA ReplFields ==
  ASSUME NEW f \in Outputs, NEW t \in Claims, NEW x
  PROVE  LET g == [f EXCEPT !.repl[t] = x] IN
         /\ g.repl[t] = x /\ g.aside = f.aside
         /\ g.final = f.final /\ g.part = f.part /\ g.prior = f.prior /\ g.quar = f.quar
BY DEF Outputs

LEMMA QuarFields ==
  ASSUME NEW f \in Outputs, NEW t \in Claims, NEW x
  PROVE  LET g == [f EXCEPT !.quar[t] = x] IN
         /\ g.quar[t] = x /\ g.aside = f.aside
         /\ g.final = f.final /\ g.part = f.part /\ g.prior = f.prior /\ g.repl = f.repl
BY DEF Outputs

LEMMA AsideFields ==
  ASSUME NEW f \in Outputs, NEW x
  PROVE  LET g == Aside(f, x) IN
         /\ g.aside = f.aside \cup ({x} \ {NoFile})
         /\ g.final = f.final /\ g.part = f.part /\ g.prior = f.prior /\ g.repl = f.repl /\ g.quar = f.quar
BY DEF Outputs, Aside

LEMMA LinkFields ==
  ASSUME outputFile \in Outputs, NEW t \in Claims
  PROVE  LET g == CleanedLink(t)  f == outputFile IN
         /\ g.final = f.final /\ g.part = f.part /\ g.prior = f.prior /\ g.quar = f.quar
         /\ g.repl[t] = NoFile /\ f.aside \subseteq g.aside
         /\ f.repl[t] \in {NoFile, t, f.prior[t]} \cup g.aside
<1> DEFINE f == outputFile
           link == f.repl[t]
           h == IF link \in {t, f.prior[t]} THEN f ELSE Aside(f, link)
<1>1. h \in Outputs /\ h.final = f.final /\ h.part = f.part /\ h.prior = f.prior /\ h.quar = f.quar
      /\ f.aside \subseteq h.aside /\ link \in {NoFile, t, f.prior[t]} \cup h.aside
  <2>1. link \in Files
    BY DEF Outputs
  <2>2. CASE link \in {t, f.prior[t]}
    BY <2>2
  <2>3. CASE link \notin {t, f.prior[t]}
    <3>1. h = Aside(f, link) /\ Aside(f, link) \in Outputs
      BY <2>1, <2>3, FileFits
    <3>2. /\ Aside(f, link).aside = f.aside \cup ({link} \ {NoFile}) /\ Aside(f, link).final = f.final
          /\ Aside(f, link).part = f.part /\ Aside(f, link).prior = f.prior /\ Aside(f, link).quar = f.quar
      BY AsideFields
    <3>. QED
      BY <3>1, <3>2
  <2>. QED
    BY <2>2, <2>3
<1> DEFINE c == [h EXCEPT !.repl[t] = NoFile]
<1>2. CleanedLink(t) = c
  BY DEF CleanedLink
<1>. HIDE DEF h
<1>3. /\ c.final = h.final /\ c.part = h.part /\ c.prior = h.prior /\ c.quar = h.quar
      /\ c.repl[t] = NoFile /\ c.aside = h.aside
  BY <1>1, ReplFields
<1>. HIDE DEF c
<1>. QED
  BY <1>1, <1>2, <1>3

LEMMA NextPc ==
  ASSUME publisher \in [EncodeWorkers -> Publishers], NEW w \in EncodeWorkers
  PROVE  /\ \A x : Step(w, [pc |-> x]) => publisher'[w].pc = x
         /\ \A x, b : \/ Step(w, [pc |-> x, put |-> b]) \/ Step(w, [pc |-> x, base |-> b])
                      \/ Step(w, [pc |-> x, bad |-> b]) \/ Step(w, [pc |-> x, keep |-> b])
                      \/ Step(w, [pc |-> x, fence |-> b]) \/ Step(w, [pc |-> x, seen |-> b])
                      => publisher'[w].pc = x
<1>1. \A n : Step(w, n) => publisher'[w] = Merge(publisher[w], n)
  BY Moved
<1>2. "pc" \in DOMAIN publisher[w]
  BY DEF Publishers
<1>3. ASSUME NEW n, Step(w, n), "pc" \in DOMAIN n PROVE publisher'[w].pc = n["pc"]
  BY <1>1, <1>2, <1>3 DEF Merge
<1>4. \A x : Step(w, [pc |-> x]) => publisher'[w].pc = x
  BY <1>3
<1>5. \A x, b : Step(w, [pc |-> x, put |-> b]) => publisher'[w].pc = x
  BY <1>3
<1>6. \A x, b : Step(w, [pc |-> x, base |-> b]) => publisher'[w].pc = x
  BY <1>3
<1>7. \A x, b : Step(w, [pc |-> x, bad |-> b]) => publisher'[w].pc = x
  BY <1>3
<1>8. \A x, b : Step(w, [pc |-> x, keep |-> b]) => publisher'[w].pc = x
  BY <1>3
<1>9. \A x, b : Step(w, [pc |-> x, fence |-> b]) => publisher'[w].pc = x
  BY <1>3
<1>10. \A x, b : Step(w, [pc |-> x, seen |-> b]) => publisher'[w].pc = x
  BY <1>3
<1>. QED
  BY <1>4, <1>5, <1>6, <1>7, <1>8, <1>9, <1>10

LEMMA FileUnchanged ==
  ASSUME outputFile' = outputFile, NEW w
  PROVE  FileStep(w) /\ outputFile.aside \subseteq outputFile'.aside
BY DEF FileStep, Becomes

LEMMA FilesOfExecution ==
  ASSUME Inv1, NEW w \in EncodeWorkers,
         \/ PrepareEncode(w) \/ StagePublication(w) \/ ExchangeOutput(w) \/ RenameOutput(w)
         \/ InspectExchange(w) \/ DiscardPartial(w)
  PROVE  FileStep(w) /\ outputFile.aside \subseteq outputFile'.aside
<1> DEFINE p == publisher[w]
           t == p.tok
           f == outputFile
           g == outputFile'
<1>1. /\ Typed /\ Knows(w) /\ f \in Outputs /\ publisher \in [EncodeWorkers -> Publishers]
      /\ t \in Claims
  BY RunsAt, AtWork DEF Inv1, Typed, Pc
<1>2. /\ f.part \in [Claims -> Files] /\ f.prior \in [Claims -> Files] /\ f.repl \in [Claims -> Files]
      /\ f.quar \in [Claims -> Files] /\ f.final \in Files /\ t \in Files
  BY <1>1, Blank DEF Outputs
<1>3. CASE PrepareEncode(w)
  <2>1. g = f \/ (p.pc = "claimed" /\ g = [f EXCEPT !.part[t] = t] /\ publisher'[w].pc = "encoding")
    BY <1>1, <1>3, NextPc DEF PrepareEncode, Runs
  <2>2. ASSUME g = [f EXCEPT !.part[t] = t]
        PROVE  Becomes(t, f.final, t, f.prior[t], f.repl[t], f.quar[t]) /\ g.aside = f.aside
    BY <1>1, <2>2 DEF Becomes, Outputs
  <2>. QED
    BY <2>1, <2>2, FileUnchanged DEF FileStep
<1>4. CASE StagePublication(w)
  <2>1. /\ p.pc = "fenced"
        /\ \/ g = f
           \/ f.final = NoFile /\ g = [f EXCEPT !.final = t] /\ publisher'[w].pc = "published"
           \/ f.final = p.base /\ g = StageReplacement(t, f.final) /\ publisher'[w].pc = "staged"
    BY <1>1, <1>4, NextPc DEF StagePublication, Runs
  <2>2. ASSUME g = [f EXCEPT !.final = t]
        PROVE  Becomes(t, t, f.part[t], f.prior[t], f.repl[t], f.quar[t]) /\ g.aside = f.aside
    BY <1>1, <2>2, FinalFields DEF Becomes
  <2>3. ASSUME g = StageReplacement(t, f.final)
        PROVE  Becomes(t, f.final, f.part[t], f.final, t, f.quar[t]) /\ g.aside = f.aside
    <3> DEFINE h == [f EXCEPT !.prior[t] = f.final]
    <3>1. /\ h.final = f.final /\ h.part = f.part /\ h.prior[t] = f.final
          /\ h.repl = f.repl /\ h.quar = f.quar /\ h.aside = f.aside
      BY <1>1, PriorFields
    <3>4. h \in Outputs
      BY <1>1, <1>2, FileFits
    <3>2. g = [h EXCEPT !.repl[t] = t]
      BY <2>3 DEF StageReplacement
    <3>. HIDE DEF h
    <3>3. /\ g.final = h.final /\ g.part = h.part /\ g.prior = h.prior /\ g.repl[t] = t
          /\ g.quar = h.quar /\ g.aside = h.aside
      <4> DEFINE c == [h EXCEPT !.repl[t] = t]
      <4>1. /\ c.final = h.final /\ c.part = h.part /\ c.prior = h.prior /\ c.repl[t] = t
            /\ c.quar = h.quar /\ c.aside = h.aside
        BY <1>1, <3>4, ReplFields
      <4>. QED
        BY <3>2, <4>1
    <3>. QED
      BY <3>1, <3>3 DEF Becomes
  <2>. QED
    BY <2>1, <2>2, <2>3, FileUnchanged DEF FileStep
<1>5. CASE ExchangeOutput(w) \/ RenameOutput(w)
  <2> DEFINE h == [f EXCEPT !.final = t]
  <2>1. /\ p.pc = "staged"
        /\ \/ g = f
           \/ g = [h EXCEPT !.repl[t] = f.final] /\ publisher'[w].pc = "exchanged"
           \/ f.final = p.base /\ g = [h EXCEPT !.repl[t] = NoFile] /\ publisher'[w].pc = "published"
    BY <1>1, <1>5, NextPc DEF ExchangeOutput, RenameOutput, Runs
  <2>2. /\ h.final = t /\ h.part = f.part /\ h.prior = f.prior
        /\ h.repl = f.repl /\ h.quar = f.quar /\ h.aside = f.aside
    BY <1>1, FinalFields
  <2>4. h \in Outputs
    BY <1>1, <1>2, FileFits
  <2>. HIDE DEF h
  <2>3. ASSUME NEW x, g = [h EXCEPT !.repl[t] = x]
        PROVE  Becomes(t, t, f.part[t], f.prior[t], x, f.quar[t]) /\ g.aside = f.aside
    <3>1. /\ g.final = h.final /\ g.part = h.part /\ g.prior = h.prior /\ g.repl[t] = x
          /\ g.quar = h.quar /\ g.aside = h.aside
      BY <1>1, <2>2, <2>3, <2>4, ReplFields
    <3>. QED
      BY <2>2, <3>1 DEF Becomes
  <2>. QED
    BY <2>1, <2>3, FileUnchanged DEF FileStep
<1>6. CASE InspectExchange(w)
  <2> DEFINE h == [f EXCEPT !.final = f.repl[t]]
  <2>1. /\ p.pc = "exchanged"
        /\ \/ g = f
           \/ /\ f.repl[t] = p.base /\ f.final = t
              /\ g = [f EXCEPT !.repl[t] = NoFile] /\ publisher'[w].pc = "published"
           \/ /\ f.repl[t] # p.base /\ f.final = t
              /\ g = [h EXCEPT !.repl[t] = t] /\ publisher'[w].pc = "failing"
    BY <1>1, <1>6, NextPc DEF InspectExchange, Runs
  <2>2. /\ h.final = f.repl[t] /\ h.part = f.part /\ h.prior = f.prior
        /\ h.repl = f.repl /\ h.quar = f.quar /\ h.aside = f.aside
    BY <1>1, FinalFields
  <2>5. h \in Outputs
    BY <1>1, <1>2, FileFits
  <2>. HIDE DEF h
  <2>3. ASSUME g = [h EXCEPT !.repl[t] = t]
        PROVE  Becomes(t, f.repl[t], f.part[t], f.prior[t], t, f.quar[t]) /\ g.aside = f.aside
    <3>1. /\ g.final = h.final /\ g.part = h.part /\ g.prior = h.prior /\ g.repl[t] = t
          /\ g.quar = h.quar /\ g.aside = h.aside
      BY <1>1, <2>2, <2>3, <2>5, ReplFields
    <3>. QED
      BY <2>2, <3>1 DEF Becomes
  <2>4. ASSUME g = [f EXCEPT !.repl[t] = NoFile]
        PROVE  Becomes(t, f.final, f.part[t], f.prior[t], NoFile, f.quar[t]) /\ g.aside = f.aside
    BY <1>1, <2>4, ReplFields DEF Becomes
  <2>. QED
    BY <2>1, <2>3, <2>4, FileUnchanged DEF FileStep
<1>7. CASE DiscardPartial(w)
  <2>1. p.pc = "discarding" /\ g = [f EXCEPT !.part[t] = NoFile] /\ publisher'[w].pc = "cleaning"
    BY <1>1, <1>7, NextPc DEF DiscardPartial, Runs
  <2>2. Becomes(t, f.final, NoFile, f.prior[t], f.repl[t], f.quar[t]) /\ g.aside = f.aside
    BY <1>1, <2>1, PartFields DEF Becomes
  <2>. QED
    BY <2>1, <2>2 DEF FileStep
<1>. QED
  BY <1>3, <1>4, <1>5, <1>6, <1>7

LEMMA FilesOfFailure ==
  ASSUME Inv1, NEW w \in EncodeWorkers,
         \/ RollbackOutput(w) \/ RestorePrior(w) \/ ReturnPrior(w) \/ UnstageOutput(w)
         \/ SettlePartial(w) \/ QuarantinePartial(w)
  PROVE  FileStep(w) /\ outputFile.aside \subseteq outputFile'.aside
<1> DEFINE p == publisher[w]
           t == p.tok
           f == outputFile
           g == outputFile'
           link == f.repl[t]
           part == f.part[t]
<1>1. /\ Typed /\ Knows(w) /\ f \in Outputs /\ publisher \in [EncodeWorkers -> Publishers]
      /\ t \in Claims
  BY RunsAt, AtWork DEF Inv1, Typed, Pc
<1>2. /\ f.prior[t] \in Files /\ link \in Files /\ part \in Files /\ NoFile \in Files
  BY <1>1, Blank DEF Outputs
<1>3. CASE RollbackOutput(w)
  <2> DEFINE h == [f EXCEPT !.final = NoFile]
  <2>1. /\ p.pc = "rollback"
        /\ \/ g = f
           \/ f.final = t /\ g = [h EXCEPT !.quar[t] = t] /\ publisher'[w].pc = "restoring"
    BY <1>1, <1>3, NextPc DEF RollbackOutput, Runs
  <2>2. /\ h.final = NoFile /\ h.part = f.part /\ h.prior = f.prior
        /\ h.repl = f.repl /\ h.quar = f.quar /\ h.aside = f.aside
    BY <1>1, FinalFields
  <2>3. h \in Outputs
    BY <1>1, <1>2, FileFits
  <2>. HIDE DEF h
  <2>4. ASSUME g = [h EXCEPT !.quar[t] = t]
        PROVE  Becomes(t, NoFile, f.part[t], f.prior[t], f.repl[t], t) /\ g.aside = f.aside
    <3>1. /\ g.final = h.final /\ g.part = h.part /\ g.prior = h.prior /\ g.repl = h.repl
          /\ g.quar[t] = t /\ g.aside = h.aside
      BY <1>1, <2>3, <2>4, QuarFields
    <3>. QED
      BY <2>2, <3>1 DEF Becomes
  <2>. QED
    BY <2>1, <2>4, FileUnchanged DEF FileStep
<1>4. CASE RestorePrior(w) \/ ReturnPrior(w)
  <2>1. /\ p.pc \in {"restoring", "returning"}
        /\ g = f \/ (f.final = NoFile /\ g = [f EXCEPT !.final = f.prior[t]])
    BY <1>4 DEF RestorePrior, ReturnPrior, Runs
  <2>2. ASSUME g = [f EXCEPT !.final = f.prior[t]]
        PROVE  Becomes(t, f.prior[t], f.part[t], f.prior[t], f.repl[t], f.quar[t]) /\ g.aside = f.aside
    BY <1>1, <2>2, FinalFields DEF Becomes
  <2>. QED
    BY <2>1, <2>2, FileUnchanged DEF FileStep
<1>5. CASE UnstageOutput(w)
  <2> DEFINE h == IF link = t THEN f ELSE Aside(f, link)
  <2>1. p.pc = "unstaging" /\ g = [h EXCEPT !.repl[t] = NoFile]
    BY <1>5 DEF UnstageOutput, Runs
  <2>2. /\ h \in Outputs /\ h.final = f.final /\ h.part = f.part /\ h.prior = f.prior /\ h.quar = f.quar
        /\ f.aside \subseteq h.aside /\ link \in {NoFile, t} \cup h.aside
    <3>1. CASE link = t
      BY <1>1, <3>1
    <3>2. CASE link # t
      <4>1. h = Aside(f, link)
        BY <3>2
      <4>. HIDE DEF h
      <4>. QED
        BY <1>1, <1>2, <4>1, AsideFields, FileFits, ZenonT(60)
    <3>. QED
      BY <3>1, <3>2
  <2>. HIDE DEF h
  <2>3. /\ g.final = h.final /\ g.part = h.part /\ g.prior = h.prior /\ g.quar = h.quar
        /\ g.repl[t] = NoFile /\ g.aside = h.aside
    BY <1>1, <2>1, <2>2, ReplFields
  <2>4. Becomes(t, f.final, f.part[t], f.prior[t], NoFile, f.quar[t])
    BY <2>2, <2>3 DEF Becomes
  <2>5. LinkSafe(t) /\ f.aside \subseteq g.aside
    BY <2>2, <2>3 DEF LinkSafe
  <2>. QED
    BY <2>1, <2>4, <2>5 DEF FileStep
<1>6. CASE SettlePartial(w) \/ QuarantinePartial(w)
  <2> DEFINE h == Aside(f, part)
  <2>1. /\ p.pc \in {"settling", "quarantining"}
        /\ g = f \/ g = [h EXCEPT !.part[t] = NoFile]
    BY <1>6 DEF SettlePartial, QuarantinePartial, Runs
  <2>2. /\ h.final = f.final /\ h.repl = f.repl /\ h.prior = f.prior /\ h.quar = f.quar
        /\ f.aside \subseteq h.aside /\ part \in {NoFile} \cup h.aside
    BY <1>1, <1>2, AsideFields
  <2>3. h \in Outputs
    BY <1>1, <1>2, FileFits
  <2>. HIDE DEF h
  <2>4. ASSUME g = [h EXCEPT !.part[t] = NoFile]
        PROVE  /\ Becomes(t, f.final, NoFile, f.prior[t], f.repl[t], f.quar[t])
               /\ part \in {NoFile} \cup g.aside /\ f.aside \subseteq g.aside
    <3>1. /\ g.final = h.final /\ g.repl = h.repl /\ g.prior = h.prior /\ g.quar = h.quar
          /\ g.part[t] = NoFile /\ g.aside = h.aside
      BY <1>1, <2>3, <2>4, PartFields
    <3>. QED
      BY <2>2, <3>1 DEF Becomes
  <2>. QED
    BY <2>1, <2>4, FileUnchanged DEF FileStep
<1>. QED
  BY <1>3, <1>4, <1>5, <1>6

LEMMA FilesOfReconciliation ==
  ASSUME Inv1, NEW w \in EncodeWorkers,
         \/ LockPendingCleanup(w) \/ ReturnDisplaced(w) \/ ReplayPublication(w) \/ WithdrawOutput(w)
         \/ DropPartial(w)
  PROVE  FileStep(w) /\ outputFile.aside \subseteq outputFile'.aside
<1> DEFINE p == publisher[w]
           t == p.tok
           f == outputFile
           g == outputFile'
           r == encodeJob[p.job]
           link == f.repl[t]
           c == CleanedLink(t)
<1>1. /\ Typed /\ Knows(w) /\ f \in Outputs /\ publisher \in [EncodeWorkers -> Publishers]
      /\ t \in Claims
  BY RunsAt, AtWork DEF Inv1, Typed, Pc
<1>2. /\ f.quar[t] \in Files /\ link \in Files /\ p.base \in Files /\ NoFile \in Files /\ t # NoFile
      /\ p.seen \in Files
  BY <1>1, Blank DEF Outputs, Publishers
<1>3. /\ c \in Outputs /\ c.final = f.final /\ c.part = f.part /\ c.prior = f.prior /\ c.quar = f.quar
      /\ c.repl[t] = NoFile /\ f.aside \subseteq c.aside
      /\ link \in {NoFile, t, f.prior[t]} \cup c.aside
  BY <1>1, LinkFields, LinkFits
<1>. HIDE DEF c
<1>4. ASSUME g = c
      PROVE  /\ Becomes(t, f.final, f.part[t], f.prior[t], NoFile, f.quar[t])
             /\ LinkSafe(t) /\ f.aside \subseteq g.aside
  BY <1>3, <1>4 DEF Becomes, LinkSafe
<1>5. ASSUME NEW x, g = [c EXCEPT !.final = x]
      PROVE  /\ Becomes(t, x, f.part[t], f.prior[t], NoFile, f.quar[t])
             /\ LinkSafe(t) /\ f.aside \subseteq g.aside
  <2>1. /\ g.final = x /\ g.part = c.part /\ g.prior = c.prior /\ g.quar = c.quar
        /\ g.repl = c.repl /\ g.aside = c.aside
    BY <1>1, <1>3, <1>5, FinalFields
  <2>. QED
    BY <1>3, <2>1 DEF Becomes, LinkSafe
<1>6. CASE LockPendingCleanup(w)
  <2> DEFINE h == [f EXCEPT !.quar[t] = NoFile]
             q == f.quar[t]
  <2>1. /\ p.pc = "listed"
        /\ \/ g = f
           \/ g = h /\ publisher'[w].pc = "deciding"
           \/ f.final = NoFile /\ g = [h EXCEPT !.final = q] /\ publisher'[w].pc = "deciding"
    BY <1>1, <1>6, NextPc DEF LockPendingCleanup, Runs
  <2>2. /\ h.final = f.final /\ h.part = f.part /\ h.prior = f.prior
        /\ h.repl = f.repl /\ h.quar[t] = NoFile /\ h.aside = f.aside
    BY <1>1, QuarFields
  <2>3. h \in Outputs
    BY <1>1, <1>2, FileFits
  <2>. HIDE DEF h
  <2>4. ASSUME g = h
        PROVE  Becomes(t, f.final, f.part[t], f.prior[t], f.repl[t], NoFile) /\ g.aside = f.aside
    BY <2>2, <2>4 DEF Becomes
  <2>5. ASSUME g = [h EXCEPT !.final = q]
        PROVE  Becomes(t, q, f.part[t], f.prior[t], f.repl[t], NoFile) /\ g.aside = f.aside
    <3>1. /\ g.final = q /\ g.part = h.part /\ g.prior = h.prior /\ g.quar = h.quar
          /\ g.repl = h.repl /\ g.aside = h.aside
      BY <1>1, <2>3, <2>5, FinalFields
    <3>. QED
      BY <2>2, <3>1 DEF Becomes
  <2>. QED
    BY <2>1, <2>4, <2>5, FileUnchanged DEF FileStep
<1>7. CASE ReturnDisplaced(w)
  <2> DEFINE h == [f EXCEPT !.final = link]
  <2>1. /\ p.pc = "deciding" /\ p.put /\ p.seen = t
        /\ \/ g = f
           \/ /\ r.clean = t /\ r.pub /\ f.final = t
              /\ g = [h EXCEPT !.repl[t] = NoFile] /\ publisher'[w].pc = "quarantining"
    BY <1>1, <1>7, NextPc DEF ReturnDisplaced, Runs, SawMatch, OwnsPublication
  <2>2. /\ h.final = link /\ h.part = f.part /\ h.prior = f.prior
        /\ h.repl = f.repl /\ h.quar = f.quar /\ h.aside = f.aside
    BY <1>1, FinalFields
  <2>3. h \in Outputs
    BY <1>1, <1>2, FileFits
  <2>. HIDE DEF h
  <2>4. ASSUME g = [h EXCEPT !.repl[t] = NoFile]
        PROVE  Becomes(t, link, f.part[t], f.prior[t], NoFile, f.quar[t]) /\ g.aside = f.aside
    <3>1. /\ g.final = h.final /\ g.part = h.part /\ g.prior = h.prior /\ g.quar = h.quar
          /\ g.repl[t] = NoFile /\ g.aside = h.aside
      BY <1>1, <2>2, <2>3, <2>4, ReplFields
    <3>. QED
      BY <2>2, <3>1 DEF Becomes
  <2>. QED
    BY <2>1, <2>4, FileUnchanged DEF FileStep
<1>8. CASE ReplayPublication(w)
  <2>1. p.pc = "deciding" /\ ~p.put /\ g = c
    BY <1>8 DEF ReplayPublication, Runs, c
  <2>. QED
    BY <1>4, <2>1 DEF FileStep
<1>9. CASE WithdrawOutput(w)
  <2> DEFINE h == [c EXCEPT !.final = NoFile]
  <2>1. /\ p.pc = "deciding" /\ ~p.put /\ p.seen = t
        /\ \/ g = c
           \/ /\ r.clean = t /\ ~r.pub /\ f.final = t
              /\ g = [h EXCEPT !.quar[t] = t] /\ publisher'[w].pc = "returning"
    BY <1>1, <1>9, NextPc DEF WithdrawOutput, Runs, SawMatch, c
  <2>2. /\ h.final = NoFile /\ h.part = c.part /\ h.prior = c.prior
        /\ h.repl = c.repl /\ h.quar = c.quar /\ h.aside = c.aside
    BY <1>1, <1>3, FinalFields
  <2>3. h \in Outputs
    BY <1>1, <1>2, <1>3, FileFits
  <2>. HIDE DEF h
  <2>4. ASSUME g = [h EXCEPT !.quar[t] = t]
        PROVE  /\ Becomes(t, NoFile, f.part[t], f.prior[t], NoFile, t)
               /\ LinkSafe(t) /\ f.aside \subseteq g.aside
    <3>1. /\ g.final = h.final /\ g.part = h.part /\ g.prior = h.prior /\ g.quar[t] = t
          /\ g.repl = h.repl /\ g.aside = h.aside
      BY <1>1, <2>2, <2>3, <2>4, QuarFields
    <3>. QED
      BY <1>3, <2>2, <3>1 DEF Becomes, LinkSafe
  <2>. QED
    BY <1>4, <2>1, <2>4 DEF FileStep
<1>10. CASE DropPartial(w)
  <2>1. /\ p.pc = "deciding" /\ (p.put => ~p.keep \/ p.seen # t)
        /\ \/ g = c
           \/ /\ p.seen = NoFile /\ f.final = NoFile
              /\ g = [c EXCEPT !.final = p.base] /\ publisher'[w].pc = "quarantining"
    BY <1>1, <1>10, NextPc DEF DropPartial, Runs, SawMatch, c
  <2>. QED
    BY <1>4, <1>5, <2>1 DEF FileStep
<1>. QED
  BY <1>6, <1>7, <1>8, <1>9, <1>10

LEMMA FileSteps ==
  ASSUME Inv1, NEW w \in EncodeWorkers, WorkerStep(w), Pc(w) # "idle"
  PROVE  /\ FileStep(w) /\ Tok(w) \in Claims
         /\ outputFile.aside \subseteq outputFile'.aside
         /\ \A s \in Claims \ {Tok(w)} : Names(outputFile', s) = Names(outputFile, s)
<1>1. Typed /\ Knows(w)
  BY DEF Inv1
<1>2. Tok(w) \in Claims /\ Touch(outputFile', Tok(w), Newly(w))
  BY <1>1, AtWork, FilesTouched DEF Tok
<1>3. CASE \/ EncodeFinishes(w) \/ EncodeAborts(w) \/ RetainFailedOutput(w) \/ RegisterPublication(w)
           \/ BeginPublication(w) \/ CompletePublished(w) \/ FinalizePublished(w) \/ CompleteCleanup(w)
           \/ NoticeCancellation(w) \/ RevokePublication(w) \/ ReportFailure(w) \/ CompleteCancellation(w)
           \/ PublicationInterrupted(w) \/ EncodeWorkerCrashes(w)
  <2>1. outputFile' = outputFile
    BY <1>3 DEF EncodeFinishes, EncodeAborts, RetainFailedOutput, RegisterPublication, BeginPublication,
       CompletePublished, FinalizePublished, CompleteCleanup, NoticeCancellation, RevokePublication,
       ReportFailure, CompleteCancellation, PublicationInterrupted, EncodeWorkerCrashes
  <2>. QED
    BY <1>2, <2>1, FileUnchanged DEF Touch
<1>4. FileStep(w) /\ outputFile.aside \subseteq outputFile'.aside
  BY <1>3, RunsAt, FilesOfExecution, FilesOfFailure, FilesOfReconciliation, FileUnchanged
     DEF WorkerStep, EncodeWork
<1>. QED
  BY <1>2, <1>4 DEF Touch

\* Prior files and files moved aside stay.
LEMMA BackedStays ==
  ASSUME Inv2, NEW w \in EncodeWorkers, WorkerStep(w), NEW i \in Inodes, Backed(i)
  PROVE  Backed(i)'
<1>1. Inv1 /\ Staging(w) /\ NoFile \notin Inodes
  BY Blank DEF Inv2
<1>2. CASE Pc(w) = "idle"
  BY <1>1, <1>2, Polls DEF Backed
<1>3. CASE Pc(w) # "idle"
  <2>1. /\ FileStep(w) /\ Tok(w) \in Claims /\ outputFile.aside \subseteq outputFile'.aside
        /\ \A s \in Claims \ {Tok(w)} : Names(outputFile', s) = Names(outputFile, s)
    BY <1>1, <1>3, FileSteps
  <2>. QED
    <3>1. outputFile'.prior[Tok(w)] = outputFile.prior[Tok(w)] \/ outputFile.prior[Tok(w)] = NoFile
      BY <1>1, <2>1 DEF FileStep, Staging, InHand, Becomes, Pc, Tok
    <3>2. \A s \in Claims : outputFile.prior[s] = i => outputFile'.prior[s] = i
      BY <1>1, <2>1, <3>1 DEF Names
    <3>. QED
      BY <2>1, <3>2 DEF Backed
<1>. QED
  BY <1>2, <1>3

-----------------------------------------------------------------------------
(* What one step of a worker does to a row.                                *)

Shows(q, st, tok, clean, fence, pub, pcp) ==
  /\ q.st = st /\ q.tok = tok /\ q.clean = clean
  /\ q.fence = fence /\ q.pub = pub /\ q.pcp = pcp

RowStep(w, k) ==
  LET p == publisher[w]  t == p.tok  to == publisher'[w]
      r == encodeJob[k]  q == encodeJob'[k] IN
  \/ Shows(q, r.st, r.tok, r.clean, r.fence, r.pub, r.pcp)
  \/ /\ p.pc \in {"validating", "reporting"} /\ r.st = "running" /\ r.tok = t
     /\ Shows(q, "failed", r.tok, r.clean, r.fence, r.pub, r.pcp)
  \/ /\ p.pc = "validating" /\ to.pc = "registered" /\ r.st = "running" /\ r.tok = t
     /\ Shows(q, r.st, r.tok, t, Unfenced, TRUE, r.pcp)
  \/ /\ p.pc = "registered" /\ to.pc = "fenced" /\ r.st = "running" /\ r.tok = t
     /\ r.clean = t /\ r.pub /\ Shows(q, r.st, r.tok, r.clean, "mutation", r.pub, r.pcp)
  \/ /\ p.pc = "published" /\ to.pc = "completing" /\ r.st = "running" /\ r.tok = t
     /\ r.clean = t /\ r.pub /\ PublicationMatches(t) /\ to.was.st = "failed"
     /\ Shows(q, "completed", r.tok, r.clean, r.fence, r.pub, TRUE)
  \/ /\ p.pc = "completing" /\ r.st = "completed" /\ r.clean = t /\ r.pub /\ r.pcp
     /\ \/ /\ to.pc = "discarding" /\ PublicationMatches(t)
           /\ Shows(q, r.st, r.tok, r.clean, r.fence, r.pub, FALSE)
        \/ /\ to.pc = "idle" /\ ~PublicationMatches(t)
           /\ Shows(q, p.was.st, r.tok, r.clean, r.fence, r.pub, p.was.pcp)
  \/ /\ p.pc = "cleaning" /\ r.clean = t
     /\ Shows(q, IF r.pcp THEN "failed" ELSE r.st, r.tok, 0, Unfenced, FALSE, FALSE)
  \/ /\ p.pc = "revoking" /\ r.st \in Open /\ r.tok = t /\ r.clean = t
     /\ Shows(q, r.st, r.tok, r.clean, r.fence, FALSE, r.pcp)
  \/ /\ p.pc = "settling" /\ r.st = "running" /\ r.tok = t
     /\ Shows(q, r.st, r.tok, t, Unfenced, FALSE, r.pcp)
  \/ /\ p.pc = "cancelling" /\ r.st = "cancellation_requested" /\ r.tok = t /\ ~r.pub
     /\ \E c \in {0, t} : Shows(q, "cancelled", 0, c, Unfenced, r.pub, r.pcp)
  \/ /\ p.pc = "deciding" /\ r.st \in {"failed", "completed", "cancelled"} /\ r.clean = t
     /\ \E fence \in EncodeFences : Shows(q, r.st, r.tok, r.clean, fence, r.pub, r.pcp)
  \/ /\ p.pc = "deciding" /\ to.pc = "completing" /\ r.st \in {"failed", "completed"}
     /\ r.clean = t /\ r.pub /\ PublicationMatches(t) /\ ~p.put /\ to.was = r
     /\ \E fence \in EncodeFences : Shows(q, "completed", r.tok, r.clean, fence, r.pub, TRUE)
  \/ /\ p.pc = "idle" /\ to.pc = "completing" /\ r.st = "running" /\ r.clean # 0 /\ r.pub
     /\ r.fence # Unfenced /\ outputFile.repl[r.clean] = NoFile /\ PublicationMatches(r.clean)
     /\ to.tok = r.clean /\ to.was = r
     /\ Shows(q, "completed", r.tok, r.clean, r.fence, r.pub, TRUE)
  \/ /\ p.pc = "idle" /\ outputLock = Nobody /\ r.st = "running" /\ r.clean # 0 /\ r.fence # Unfenced
     /\ Shows(q, "failed", r.tok, r.clean, Unfenced, r.pub, r.pcp)
  \/ /\ p.pc = "idle" /\ r.st = "running" /\ r.fence = Unfenced
     /\ Shows(q, "failed", r.tok, r.tok, r.fence, r.pub, r.pcp)
  \/ /\ p.pc = "idle" /\ outputLock = Nobody /\ r.st = "cancellation_requested"
     /\ Shows(q, "cancelled", 0, r.tok, Unfenced, FALSE, FALSE)
  \/ /\ p.pc = "idle" /\ r.st = "queued" /\ r.clean = 0
     /\ Shows(q, "running", encodeUsed.claims + 1, 0, r.fence, r.pub, r.pcp)

LEMMA RowFields ==
  ASSUME NEW r \in EncodeRows
  PROVE  /\ \A i : Shows(Merge(r, [ident |-> i]), r.st, r.tok, r.clean, r.fence, r.pub, r.pcp)
         /\ \A b : Shows(FailedRow(r, b), "failed", r.tok, r.clean, r.fence, r.pub, r.pcp)
         /\ \A t, b : Shows(Merge(r, [clean |-> t, fence |-> Unfenced, pub |-> b]),
                            r.st, r.tok, t, Unfenced, b, r.pcp)
         /\ \A f : /\ Shows(Merge(r, [fence |-> f]), r.st, r.tok, r.clean, f, r.pub, r.pcp)
                   /\ Shows(Merge(r, [fence |-> f, live |-> TRUE]), r.st, r.tok, r.clean, f, r.pub, r.pcp)
                   /\ Shows(Merge(r, [st |-> "completed", pcp |-> TRUE, fence |-> f, live |-> TRUE]),
                            "completed", r.tok, r.clean, f, r.pub, TRUE)
         /\ Shows(Merge(r, [st |-> "completed", pcp |-> TRUE, live |-> TRUE]),
                  "completed", r.tok, r.clean, r.fence, r.pub, TRUE)
         /\ Shows(FinalRow(r), r.st, r.tok, r.clean, r.fence, r.pub, FALSE)
         /\ \A s, b : Shows(Merge(r, [st |-> s, pcp |-> b]), s, r.tok, r.clean, r.fence, r.pub, b)
<1>. USE DEF Shows
<1>1. \A i : Shows(Merge(r, [ident |-> i]), r.st, r.tok, r.clean, r.fence, r.pub, r.pcp)
  BY DEF EncodeRows, Merge
<1>2. \A b : Shows(FailedRow(r, b), "failed", r.tok, r.clean, r.fence, r.pub, r.pcp)
  BY DEF EncodeRows, FailedRow
<1>3. \A t, b : Shows(Merge(r, [clean |-> t, fence |-> Unfenced, pub |-> b]),
                      r.st, r.tok, t, Unfenced, b, r.pcp)
  BY DEF EncodeRows, Merge
<1>4. \A f : Shows(Merge(r, [fence |-> f]), r.st, r.tok, r.clean, f, r.pub, r.pcp)
  BY DEF EncodeRows, Merge
<1>5. \A f : Shows(Merge(r, [fence |-> f, live |-> TRUE]), r.st, r.tok, r.clean, f, r.pub, r.pcp)
  BY DEF EncodeRows, Merge
<1>6. \A f : Shows(Merge(r, [st |-> "completed", pcp |-> TRUE, fence |-> f, live |-> TRUE]),
                   "completed", r.tok, r.clean, f, r.pub, TRUE)
  BY DEF EncodeRows, Merge
<1>7. Shows(Merge(r, [st |-> "completed", pcp |-> TRUE, live |-> TRUE]),
            "completed", r.tok, r.clean, r.fence, r.pub, TRUE)
  BY DEF EncodeRows, Merge
<1>8. Shows(FinalRow(r), r.st, r.tok, r.clean, r.fence, r.pub, FALSE)
  BY DEF EncodeRows, FinalRow
<1>9. \A s, b : Shows(Merge(r, [st |-> s, pcp |-> b]), s, r.tok, r.clean, r.fence, r.pub, b)
  BY DEF EncodeRows, Merge
<1>. QED
  BY <1>1, <1>2, <1>3, <1>4, <1>5, <1>6, <1>7, <1>8, <1>9

LEMMA MoreRowFields ==
  ASSUME NEW r \in EncodeRows
  PROVE  /\ Shows(CleanedRow(r), IF r.pcp THEN "failed" ELSE r.st, r.tok, 0, Unfenced, FALSE, FALSE)
         /\ Shows(Merge(r, [pub |-> FALSE]), r.st, r.tok, r.clean, r.fence, FALSE, r.pcp)
         /\ \A b, c : Shows([r EXCEPT !.st = "cancelled", !.res = b, !.tok = 0, !.clean = c,
                                      !.fence = Unfenced], "cancelled", 0, c, Unfenced, r.pub, r.pcp)
         /\ Shows(Merge(r, [st |-> "failed", fence |-> Unfenced, live |-> TRUE]),
                  "failed", r.tok, r.clean, Unfenced, r.pub, r.pcp)
         /\ Shows([r EXCEPT !.st = "failed", !.clean = r.tok, !.live = TRUE],
                  "failed", r.tok, r.tok, r.fence, r.pub, r.pcp)
         /\ \A b : Shows(Merge(r, [st |-> "cancelled", res |-> b, clean |-> r.tok, fence |-> Unfenced,
                                   pub |-> FALSE, pcp |-> FALSE, tok |-> 0, live |-> TRUE]),
                         "cancelled", 0, r.tok, Unfenced, FALSE, FALSE)
         /\ \A t, b : Shows(Merge(r, [st |-> "running", tok |-> t, live |-> TRUE, rep |-> b]),
                            "running", t, r.clean, r.fence, r.pub, r.pcp)
<1>. USE DEF Shows
<1>1. Shows(CleanedRow(r), IF r.pcp THEN "failed" ELSE r.st, r.tok, 0, Unfenced, FALSE, FALSE)
  BY DEF EncodeRows, CleanedRow
<1>2. Shows(Merge(r, [pub |-> FALSE]), r.st, r.tok, r.clean, r.fence, FALSE, r.pcp)
  BY DEF EncodeRows, Merge
<1>3. \A b, c : Shows([r EXCEPT !.st = "cancelled", !.res = b, !.tok = 0, !.clean = c,
                                !.fence = Unfenced], "cancelled", 0, c, Unfenced, r.pub, r.pcp)
  BY DEF EncodeRows
<1>4. Shows(Merge(r, [st |-> "failed", fence |-> Unfenced, live |-> TRUE]),
            "failed", r.tok, r.clean, Unfenced, r.pub, r.pcp)
  BY DEF EncodeRows, Merge
<1>5. Shows([r EXCEPT !.st = "failed", !.clean = r.tok, !.live = TRUE],
            "failed", r.tok, r.tok, r.fence, r.pub, r.pcp)
  BY DEF EncodeRows
<1>6. \A b : Shows(Merge(r, [st |-> "cancelled", res |-> b, clean |-> r.tok, fence |-> Unfenced,
                             pub |-> FALSE, pcp |-> FALSE, tok |-> 0, live |-> TRUE]),
                   "cancelled", 0, r.tok, Unfenced, FALSE, FALSE)
  BY DEF EncodeRows, Merge
<1>7. \A t, b : Shows(Merge(r, [st |-> "running", tok |-> t, live |-> TRUE, rep |-> b]),
                      "running", t, r.clean, r.fence, r.pub, r.pcp)
  BY DEF EncodeRows, Merge
<1>. QED
  BY <1>1, <1>2, <1>3, <1>4, <1>5, <1>6, <1>7

LEMMA RowUnchanged ==
  ASSUME NEW w, NEW k, encodeJob'[k] = encodeJob[k]
  PROVE  RowStep(w, k)
BY DEF RowStep, Shows

LEMMA WasFields ==
  ASSUME publisher \in [EncodeWorkers -> Publishers], NEW w \in EncodeWorkers
  PROVE  /\ \A x, r : Step(w, [pc |-> x, was |-> r]) => publisher'[w].pc = x /\ publisher'[w].was = r
         /\ \A x, b : Step(w, [pc |-> x, pend |-> b]) => publisher'[w].pc = x
         /\ \A x, f, r : Step(w, [pc |-> x, fence |-> f, was |-> r])
                           => publisher'[w].pc = x /\ publisher'[w].was = r
         /\ \A x, j, t, f, r : Step(w, [pc |-> x, job |-> j, tok |-> t, fence |-> f, was |-> r])
                           => /\ publisher'[w].pc = x /\ publisher'[w].was = r
                              /\ publisher'[w].tok = t /\ publisher'[w].job = j
<1>1. \A n : Step(w, n) => publisher'[w] = Merge(publisher[w], n)
  BY Moved
<1>2. {"pc", "was", "tok", "job"} \subseteq DOMAIN publisher[w]
  BY DEF Publishers
<1>3. ASSUME NEW n, Step(w, n), NEW x \in DOMAIN n \cap DOMAIN publisher[w]
      PROVE publisher'[w][x] = n[x]
  BY <1>1, <1>3 DEF Merge
<1>4. ASSUME NEW x, NEW r, Step(w, [pc |-> x, was |-> r])
      PROVE  publisher'[w].pc = x /\ publisher'[w].was = r
  BY <1>2, <1>3, <1>4
<1>5. ASSUME NEW x, NEW f, NEW r, Step(w, [pc |-> x, fence |-> f, was |-> r])
      PROVE  publisher'[w].pc = x /\ publisher'[w].was = r
  BY <1>2, <1>3, <1>5
<1>6. ASSUME NEW x, NEW j, NEW t, NEW f, NEW r,
             Step(w, [pc |-> x, job |-> j, tok |-> t, fence |-> f, was |-> r])
      PROVE  /\ publisher'[w].pc = x /\ publisher'[w].was = r
             /\ publisher'[w].tok = t /\ publisher'[w].job = j
  BY <1>2, <1>3, <1>6
<1>7. ASSUME NEW x, NEW b, Step(w, [pc |-> x, pend |-> b]) PROVE publisher'[w].pc = x
  BY <1>2, <1>3, <1>7
<1>. QED
  BY <1>4, <1>5, <1>6, <1>7

LEMMA RowsOfEncoding ==
  ASSUME Inv1, NEW w \in EncodeWorkers, NEW k \in EncodeIds,
         \/ PrepareEncode(w) \/ RetainFailedOutput(w) \/ RegisterPublication(w) \/ BeginPublication(w)
         \/ RevokePublication(w) \/ SettlePartial(w) \/ ReportFailure(w)
  PROVE  RowStep(w, k)
<1> DEFINE p == publisher[w]
           j == p.job
           t == p.tok
           r == encodeJob[j]
           q == encodeJob'[j]
<1>1. /\ encodeJob \in [EncodeIds -> EncodeRows] /\ j \in EncodeIds /\ r \in EncodeRows
      /\ publisher \in [EncodeWorkers -> Publishers] /\ RowSound(r)
  BY RunsAt, AtWork DEF Inv1, Typed, Pc, Rows
<1>2. \A n : UpdateRow(j, n) => q = Merge(r, n) /\ (k # j => encodeJob'[k] = encodeJob[k])
  BY <1>1 DEF UpdateRow
<1>3. \A n : encodeJob' = [encodeJob EXCEPT ![j] = n] => q = n /\ (k # j => encodeJob'[k] = encodeJob[k])
  BY <1>1
<1>4. CASE encodeJob' = encodeJob
  BY <1>4, RowUnchanged
<1>5. ASSUME PrepareEncode(w), encodeJob' # encodeJob PROVE RowStep(w, k)
  <2>1. PICK i : UpdateRow(j, [ident |-> i])
    BY <1>5 DEF PrepareEncode
  <2>2. Shows(q, r.st, r.tok, r.clean, r.fence, r.pub, r.pcp)
    BY <1>1, <1>2, <2>1, RowFields
  <2>. QED
    BY <1>2, <2>1, <2>2, RowUnchanged DEF RowStep
<1>6. ASSUME RetainFailedOutput(w) \/ ReportFailure(w), encodeJob' # encodeJob PROVE RowStep(w, k)
  <2>1. PICK b : encodeJob' = [encodeJob EXCEPT ![j] = FailedRow(r, b)]
    BY <1>6 DEF RetainFailedOutput, ReportFailure
  <2>2. r.st = "running" /\ r.tok = t /\ p.pc \in {"validating", "reporting"}
    BY <1>6 DEF RetainFailedOutput, ReportFailure, AttemptHolds, Runs
  <2>3. Shows(q, "failed", r.tok, r.clean, r.fence, r.pub, r.pcp)
    BY <1>1, <1>3, <2>1, RowFields
  <2>. QED
    BY <1>3, <2>1, <2>2, <2>3, RowUnchanged DEF RowStep
<1>7. ASSUME RegisterPublication(w) \/ SettlePartial(w), encodeJob' # encodeJob PROVE RowStep(w, k)
  <2>1. /\ r.st = "running" /\ r.tok = t
        /\ \/ /\ p.pc = "validating" /\ publisher'[w].pc = "registered"
              /\ UpdateRow(j, [clean |-> t, fence |-> Unfenced, pub |-> TRUE])
           \/ p.pc = "settling" /\ UpdateRow(j, [clean |-> t, fence |-> Unfenced, pub |-> FALSE])
    <3>1. ASSUME Step(w, [pc |-> "registered", pend |-> TRUE]) PROVE publisher'[w].pc = "registered"
      BY <1>1, <3>1, WasFields
    <3>. QED
      BY <1>7, <3>1 DEF RegisterPublication, SettlePartial, AttemptHolds, Runs
  <2>2. \A b : UpdateRow(j, [clean |-> t, fence |-> Unfenced, pub |-> b])
                 => Shows(q, r.st, r.tok, t, Unfenced, b, r.pcp)
    BY <1>1, <1>2, RowFields
  <2>. QED
    BY <1>2, <2>1, <2>2, RowUnchanged DEF RowStep
<1>8. ASSUME BeginPublication(w), encodeJob' # encodeJob PROVE RowStep(w, k)
  <2>1. /\ p.pc = "registered" /\ publisher'[w].pc = "fenced" /\ r.st = "running" /\ r.tok = t
        /\ r.clean = t /\ r.pub /\ UpdateRow(j, [fence |-> "mutation"])
    BY <1>1, <1>8, NextPc DEF BeginPublication, AttemptHolds, Runs
  <2>2. Shows(q, r.st, r.tok, r.clean, "mutation", r.pub, r.pcp)
    BY <1>1, <1>2, <2>1, RowFields
  <2>. QED
    BY <1>2, <2>1, <2>2, RowUnchanged, ZenonT(60) DEF RowStep
<1>9. ASSUME RevokePublication(w), encodeJob' # encodeJob PROVE RowStep(w, k)
  <2>1. /\ p.pc = "revoking" /\ r.st \in Open /\ r.tok = t
        /\ r.clean = t /\ UpdateRow(j, [pub |-> FALSE])
    BY <1>1, <1>9 DEF RevokePublication, OwnsPublication, Runs, Open
  <2>2. Shows(q, r.st, r.tok, r.clean, r.fence, FALSE, r.pcp)
    BY <1>1, <1>2, <2>1, MoreRowFields
  <2>. QED
    BY <1>2, <2>1, <2>2, RowUnchanged DEF RowStep
<1>. QED
  BY <1>4, <1>5, <1>6, <1>7, <1>8, <1>9

LEMMA RowsOfCompletion ==
  ASSUME Inv1, NEW w \in EncodeWorkers, NEW k \in EncodeIds,
         \/ CompletePublished(w) \/ FinalizePublished(w) \/ CompleteCleanup(w) \/ CompleteCancellation(w)
  PROVE  RowStep(w, k)
<1> DEFINE p == publisher[w]
           j == p.job
           t == p.tok
           r == encodeJob[j]
           q == encodeJob'[j]
<1>1. /\ encodeJob \in [EncodeIds -> EncodeRows] /\ j \in EncodeIds /\ r \in EncodeRows
      /\ publisher \in [EncodeWorkers -> Publishers] /\ RowSound(r)
  BY RunsAt, AtWork DEF Inv1, Typed, Pc, Rows
<1>2. \A n : UpdateRow(j, n) => q = Merge(r, n) /\ (k # j => encodeJob'[k] = encodeJob[k])
  BY <1>1 DEF UpdateRow
<1>3. \A n : encodeJob' = [encodeJob EXCEPT ![j] = n] => q = n /\ (k # j => encodeJob'[k] = encodeJob[k])
  BY <1>1
<1>4. CASE encodeJob' = encodeJob
  BY <1>4, RowUnchanged
<1>5. ASSUME CompletePublished(w), encodeJob' # encodeJob PROVE RowStep(w, k)
  <2>1. /\ p.pc = "published" /\ publisher'[w].pc = "completing"
        /\ r.st = "running" /\ r.tok = t /\ r.clean = t /\ r.pub /\ PublicationMatches(t)
        /\ publisher'[w].was = [Row EXCEPT !.st = "failed"]
        /\ UpdateRow(j, [st |-> "completed", pcp |-> TRUE, live |-> TRUE])
    BY <1>1, <1>5, WasFields DEF CompletePublished, OwnsPublication, Runs
  <2>2. Shows(q, "completed", r.tok, r.clean, r.fence, r.pub, TRUE)
    <3>1. q = Merge(r, [st |-> "completed", pcp |-> TRUE, live |-> TRUE])
      BY <1>2, <2>1
    <3>2. Shows(Merge(r, [st |-> "completed", pcp |-> TRUE, live |-> TRUE]),
                "completed", r.tok, r.clean, r.fence, r.pub, TRUE)
      BY <1>1, RowFields
    <3>. QED
      BY <3>1, <3>2
  <2>3. publisher'[w].was.st = "failed"
    BY <2>1 DEF Row
  <2>4. k # j => encodeJob'[k] = encodeJob[k]
    BY <1>2, <2>1
  <2>5. CASE k # j
    BY <2>4, <2>5, RowUnchanged
  <2>6. CASE k = j
    BY <2>1, <2>2, <2>3, <2>6 DEF RowStep
  <2>. QED
    BY <2>5, <2>6
<1>6. ASSUME FinalizePublished(w), encodeJob' # encodeJob PROVE RowStep(w, k)
  <2>1. /\ p.pc = "completing" /\ r.st = "completed" /\ r.clean = t /\ r.pub /\ r.pcp
        /\ \/ /\ PublicationMatches(t) /\ publisher'[w].pc = "discarding"
              /\ encodeJob' = [encodeJob EXCEPT ![j] = FinalRow(r)]
           \/ /\ ~PublicationMatches(t) /\ publisher'[w].pc = "idle"
              /\ UpdateRow(j, [st |-> p.was.st, pcp |-> p.was.pcp])
    BY <1>1, <1>6, NextPc, PcGoes DEF FinalizePublished, OwnsPublication, Runs, Pc
  <2>2. ASSUME encodeJob' = [encodeJob EXCEPT ![j] = FinalRow(r)]
        PROVE  Shows(q, r.st, r.tok, r.clean, r.fence, r.pub, FALSE)
    BY <1>1, <1>3, <2>2, RowFields
  <2>3. ASSUME UpdateRow(j, [st |-> p.was.st, pcp |-> p.was.pcp])
        PROVE  Shows(q, p.was.st, r.tok, r.clean, r.fence, r.pub, p.was.pcp)
    <3>1. q = Merge(r, [st |-> p.was.st, pcp |-> p.was.pcp])
      BY <1>2, <2>3
    <3>2. \A s, b : Shows(Merge(r, [st |-> s, pcp |-> b]), s, r.tok, r.clean, r.fence, r.pub, b)
      BY <1>1, RowFields
    <3>. QED
      BY <3>1, <3>2
  <2>. QED
    BY <1>2, <1>3, <2>1, <2>2, <2>3, RowUnchanged, ZenonT(60) DEF RowStep
<1>7. ASSUME CompleteCleanup(w), encodeJob' # encodeJob PROVE RowStep(w, k)
  <2>1. p.pc = "cleaning" /\ r.clean = t /\ encodeJob' = [encodeJob EXCEPT ![j] = CleanedRow(r)]
    BY <1>7 DEF CompleteCleanup, Runs
  <2>2. Shows(q, IF r.pcp THEN "failed" ELSE r.st, r.tok, 0, Unfenced, FALSE, FALSE)
    BY <1>1, <1>3, <2>1, MoreRowFields
  <2>. QED
    BY <1>3, <2>1, <2>2, RowUnchanged DEF RowStep
<1>8. ASSUME CompleteCancellation(w), encodeJob' # encodeJob PROVE RowStep(w, k)
  <2>1. PICK c \in {0, t} : \E b : encodeJob' = [encodeJob EXCEPT ![j] =
             [r EXCEPT !.st = "cancelled", !.res = b, !.tok = 0, !.clean = c, !.fence = Unfenced]]
    BY <1>8 DEF CompleteCancellation
  <2>2. p.pc = "cancelling" /\ r.st = "cancellation_requested" /\ r.tok = t /\ ~r.pub
    BY <1>8 DEF CompleteCancellation, Runs
  <2>3. PICK b : encodeJob' = [encodeJob EXCEPT ![j] =
             [r EXCEPT !.st = "cancelled", !.res = b, !.tok = 0, !.clean = c, !.fence = Unfenced]]
    BY <2>1
  <2> DEFINE n == [r EXCEPT !.st = "cancelled", !.res = b, !.tok = 0, !.clean = c, !.fence = Unfenced]
  <2>4. Shows(n, "cancelled", 0, c, Unfenced, r.pub, r.pcp)
    BY <1>1, MoreRowFields
  <2> HIDE DEF n
  <2>5. Shows(q, "cancelled", 0, c, Unfenced, r.pub, r.pcp)
    BY <1>3, <2>3, <2>4 DEF n
  <2>. QED
    BY <1>3, <2>2, <2>3, <2>5, RowUnchanged DEF RowStep, n
<1>. QED
  BY <1>4, <1>5, <1>6, <1>7, <1>8

LEMMA RowsOfDecision ==
  ASSUME Inv1, NEW w \in EncodeWorkers, NEW k \in EncodeIds,
         ReturnDisplaced(w) \/ ReplayPublication(w) \/ WithdrawOutput(w)
  PROVE  RowStep(w, k)
<1> DEFINE p == publisher[w]
           j == p.job
           t == p.tok
           r == encodeJob[j]
           q == encodeJob'[j]
           lease == IF p.fence = Unfenced THEN w ELSE p.fence
<1>1. /\ encodeJob \in [EncodeIds -> EncodeRows] /\ j \in EncodeIds /\ r \in EncodeRows
      /\ publisher \in [EncodeWorkers -> Publishers] /\ p \in Publishers
  BY RunsAt, AtWork DEF Inv1, Typed, Pc
<1>2. \A n : UpdateRow(j, n) => q = Merge(r, n) /\ (k # j => encodeJob'[k] = encodeJob[k])
  BY <1>1 DEF UpdateRow
<1>3. lease \in EncodeFences /\ w \in EncodeFences
  BY <1>1 DEF Publishers, EncodeFences
<1>4. CASE encodeJob' = encodeJob
  BY <1>4, RowUnchanged
<1>5. ASSUME ReturnDisplaced(w) \/ WithdrawOutput(w), encodeJob' # encodeJob PROVE RowStep(w, k)
  <2>1. /\ p.pc = "deciding" /\ r.st \in {"failed", "completed", "cancelled"} /\ r.clean = t
        /\ \/ UpdateRow(j, [fence |-> lease, live |-> TRUE])
           \/ UpdateRow(j, [fence |-> w, live |-> TRUE])
    BY <1>5 DEF ReturnDisplaced, WithdrawOutput, OwnsPublication, Runs
  <2>. HIDE DEF lease
  <2>2. PICK f \in EncodeFences : UpdateRow(j, [fence |-> f, live |-> TRUE])
    BY <1>3, <2>1
  <2>3. Shows(q, r.st, r.tok, r.clean, f, r.pub, r.pcp)
    BY <1>1, <1>2, <2>2, RowFields
  <2>. QED
    BY <1>2, <2>1, <2>2, <2>3, RowUnchanged DEF RowStep
<1>6. ASSUME ReplayPublication(w), encodeJob' # encodeJob PROVE RowStep(w, k)
  <2>1. /\ p.pc = "deciding" /\ publisher'[w].pc = "completing" /\ publisher'[w].was = r
        /\ r.st \in {"failed", "completed"} /\ r.clean = t /\ r.pub /\ PublicationMatches(t) /\ ~p.put
        /\ UpdateRow(j, [st |-> "completed", pcp |-> TRUE, fence |-> lease, live |-> TRUE])
    BY <1>1, <1>6, WasFields DEF ReplayPublication, OwnsPublication, Runs
  <2>. HIDE DEF lease
  <2>2. Shows(q, "completed", r.tok, r.clean, lease, r.pub, TRUE)
    BY <1>1, <1>2, <2>1, RowFields
  <2>. QED
    BY <1>2, <1>3, <2>1, <2>2, RowUnchanged DEF RowStep
<1>. QED
  BY <1>4, <1>5, <1>6

LEMMA RowsOfPolls ==
  ASSUME Inv1, NEW w \in EncodeWorkers, NEW k \in EncodeIds,
         EncodeReconcile(w) \/ \E j \in EncodeIds : ClaimEncode(w, j)
  PROVE  RowStep(w, k)
<1> DEFINE to == publisher'[w]
<1>1. /\ encodeJob \in [EncodeIds -> EncodeRows] /\ publisher \in [EncodeWorkers -> Publishers]
      /\ \A i \in EncodeIds : encodeJob[i] \in EncodeRows
  BY DEF Inv1, Typed
<1>2. ASSUME NEW j \in EncodeIds, NEW n, UpdateRow(j, n)
      PROVE  encodeJob'[j] = Merge(encodeJob[j], n) /\ (k # j => encodeJob'[k] = encodeJob[k])
  BY <1>1, <1>2 DEF UpdateRow
<1>3. ASSUME NEW j \in EncodeIds, ReconcileActive(w, j) PROVE RowStep(w, k)
  <2> DEFINE r == encodeJob[j]
  <2>1. /\ publisher[w].pc = "idle" /\ to.pc = "completing" /\ to.tok = r.clean /\ to.was = r
        /\ r.st = "running" /\ r.clean # 0 /\ r.pub /\ r.fence # Unfenced
        /\ outputFile.repl[r.clean] = NoFile /\ PublicationMatches(r.clean)
        /\ UpdateRow(j, [st |-> "completed", pcp |-> TRUE, live |-> TRUE])
    BY <1>1, <1>3, WasFields DEF ReconcileActive
  <2>2. Shows(encodeJob'[j], "completed", r.tok, r.clean, r.fence, r.pub, TRUE)
    BY <1>1, <1>2, <2>1, RowFields
  <2>. QED
    BY <1>2, <2>1, <2>2, RowUnchanged DEF RowStep
<1>4. ASSUME NEW j \in EncodeIds, RecoverAbandonedMutation(w, j) PROVE RowStep(w, k)
  <2> DEFINE r == encodeJob[j]
  <2>1. /\ publisher[w].pc = "idle" /\ outputLock = Nobody
        /\ r.st = "running" /\ r.clean # 0 /\ r.fence # Unfenced
        /\ UpdateRow(j, [st |-> "failed", fence |-> Unfenced, live |-> TRUE])
    BY <1>4 DEF RecoverAbandonedMutation, AbandonedMutation
  <2>2. Shows(encodeJob'[j], "failed", r.tok, r.clean, Unfenced, r.pub, r.pcp)
    BY <1>1, <1>2, <2>1, MoreRowFields
  <2>. QED
    BY <1>2, <2>1, <2>2, RowUnchanged DEF RowStep
<1>5. ASSUME NEW j \in EncodeIds, RecoverCancellation(w, j) PROVE RowStep(w, k)
  <2> DEFINE r == encodeJob[j]
  <2>1. PICK b : UpdateRow(j, [st |-> "cancelled", res |-> b, clean |-> r.tok,
                   fence |-> Unfenced, pub |-> FALSE, pcp |-> FALSE, tok |-> 0, live |-> TRUE])
    BY <1>5 DEF RecoverCancellation
  <2>2. publisher[w].pc = "idle" /\ outputLock = Nobody /\ r.st = "cancellation_requested"
    BY <1>5 DEF RecoverCancellation
  <2>3. Shows(encodeJob'[j], "cancelled", 0, r.tok, Unfenced, FALSE, FALSE)
    BY <1>1, <1>2, <2>1, MoreRowFields
  <2>. QED
    BY <1>2, <2>1, <2>2, <2>3, RowUnchanged DEF RowStep
<1>6. ASSUME RecoverExpiredClaims(w) PROVE RowStep(w, k)
  <2> DEFINE r == encodeJob[k]
             n == [r EXCEPT !.st = "failed", !.clean = r.tok, !.live = TRUE]
  <2>1. publisher[w].pc = "idle" /\ encodeJob'[k] = IF Expired(r) THEN n ELSE r
    BY <1>6 DEF RecoverExpiredClaims
  <2>2. Shows(n, "failed", r.tok, r.tok, r.fence, r.pub, r.pcp)
    BY <1>1, MoreRowFields
  <2>. HIDE DEF n
  <2>. QED
    BY <2>1, <2>2, RowUnchanged DEF RowStep, Expired
<1>7. ASSUME NEW j \in EncodeIds, ListPendingCleanup(w, j) PROVE RowStep(w, k)
  BY <1>7, RowUnchanged DEF ListPendingCleanup
<1>8. ASSUME NEW j \in EncodeIds, ClaimEncode(w, j) PROVE RowStep(w, k)
  <2> DEFINE r == encodeJob[j]
             t == encodeUsed.claims + 1
  <2>1. PICK b : UpdateRow(j, [st |-> "running", tok |-> t, live |-> TRUE, rep |-> b])
    BY <1>8 DEF ClaimEncode
  <2>2. publisher[w].pc = "idle" /\ r.st = "queued" /\ r.clean = 0
    BY <1>8 DEF ClaimEncode
  <2>. HIDE DEF t
  <2>3. Shows(encodeJob'[j], "running", t, r.clean, r.fence, r.pub, r.pcp)
    <3>1. encodeJob'[j] = Merge(r, [st |-> "running", tok |-> t, live |-> TRUE, rep |-> b])
      BY <1>2, <2>1
    <3>2. \A x, y : Shows(Merge(r, [st |-> "running", tok |-> x, live |-> TRUE, rep |-> y]),
                         "running", x, r.clean, r.fence, r.pub, r.pcp)
      BY <1>1, MoreRowFields
    <3>. QED
      BY <3>1, <3>2
  <2>. QED
    BY <1>2, <2>1, <2>2, <2>3, RowUnchanged DEF RowStep, t
<1>. QED
  BY <1>3, <1>4, <1>5, <1>6, <1>7, <1>8 DEF EncodeReconcile

LEMMA RowSteps ==
  ASSUME Inv1, NEW w \in EncodeWorkers, WorkerStep(w), NEW k \in EncodeIds
  PROVE  RowStep(w, k)
<1>1. CASE EncodeFinishes(w) \/ EncodeAborts(w) \/ StagePublication(w) \/ ExchangeOutput(w) \/ RenameOutput(w)
           \/ InspectExchange(w) \/ DiscardPartial(w) \/ PublicationInterrupted(w) \/ EncodeWorkerCrashes(w)
  BY <1>1, RowUnchanged DEF EncodeFinishes, EncodeAborts, StagePublication, ExchangeOutput, RenameOutput,
                    InspectExchange, DiscardPartial, PublicationInterrupted, EncodeWorkerCrashes
<1>2. CASE NoticeCancellation(w) \/ RollbackOutput(w) \/ RestorePrior(w) \/ UnstageOutput(w)
           \/ QuarantinePartial(w) \/ LockPendingCleanup(w) \/ ReturnPrior(w) \/ DropPartial(w)
  BY <1>2, RowUnchanged DEF NoticeCancellation, RollbackOutput, RestorePrior, UnstageOutput,
                    QuarantinePartial, LockPendingCleanup, ReturnPrior, DropPartial
<1>. QED
  BY <1>1, <1>2, RowsOfEncoding, RowsOfCompletion, RowsOfDecision, RowsOfPolls DEF WorkerStep, EncodeWork

\* What a request, a correction or the end of a lease leaves of a row.
Steady(r, q) ==
  /\ q.clean = r.clean /\ q.tok \in {0, r.tok}
  /\ r.clean # 0 => /\ q.pub = r.pub /\ q.pcp = r.pcp /\ q.fence = r.fence
                    /\ r.st = "completed" => q.st = "completed"
  /\ q.st \in Open => r.st \in Open
  /\ r.st \in Open => q.st \in Open /\ q.tok = r.tok

LEMMA SteadyRows ==
  ASSUME NEW r \in EncodeRows
  PROVE  /\ Steady(r, r)
         /\ r.st \in {"queued", "running"} => Steady(r, CancelledRow(r))
         /\ Steady(r, [(IF r.st \in {"queued", "running"} THEN CancelledRow(r) ELSE r) EXCEPT !.active = FALSE])
         /\ Steady(r, Released(r))
         /\ Releasable(r) => Steady(r, [Released(r) EXCEPT !.res = FALSE])
         /\ Steady(r, Merge(r, [live |-> FALSE]))
         /\ r.st = "absent" => Steady(r, Merge(r, [st |-> "queued", res |-> TRUE]))
         /\ \A b, i : r.clean = 0 /\ r.st \in {"failed", "completed", "cancelled"} =>
              Steady(r, Merge(r, [st |-> "queued", res |-> TRUE, tok |-> 0, live |-> TRUE,
                                  rep |-> b, ident |-> i]))
<1>. USE DEF Steady, Open
<1>1. Steady(r, r)
  OBVIOUS
<1>2. ASSUME r.st \in {"queued", "running"} PROVE Steady(r, CancelledRow(r))
  BY <1>2 DEF EncodeRows, CancelledRow
<1>3. Steady(r, [(IF r.st \in {"queued", "running"} THEN CancelledRow(r) ELSE r) EXCEPT !.active = FALSE])
  <2> DEFINE c == IF r.st \in {"queued", "running"} THEN CancelledRow(r) ELSE r
  <2>1. Steady(r, c) /\ DOMAIN c = DOMAIN r
    BY <1>1, <1>2 DEF CancelledRow
  <2> HIDE DEF c
  <2>2. Steady(r, [c EXCEPT !.active = FALSE])
    BY <2>1 DEF EncodeRows
  <2>. QED
    BY <2>2 DEF c
<1>4. Steady(r, Released(r)) /\ DOMAIN Released(r) = DOMAIN r
  BY DEF EncodeRows, Released
<1>5. Steady(r, [Released(r) EXCEPT !.res = FALSE])
  BY DEF EncodeRows, Released
<1>6. Steady(r, Merge(r, [live |-> FALSE]))
  BY DEF EncodeRows, Merge
<1>7. r.st = "absent" => Steady(r, Merge(r, [st |-> "queued", res |-> TRUE]))
  BY DEF EncodeRows, Merge
<1>8. ASSUME NEW b, NEW i, r.clean = 0, r.st \in {"failed", "completed", "cancelled"}
      PROVE  Steady(r, Merge(r, [st |-> "queued", res |-> TRUE, tok |-> 0, live |-> TRUE,
                                 rep |-> b, ident |-> i]))
  BY <1>8 DEF EncodeRows, Merge
<1>. QED
  BY <1>1, <1>2, <1>3, <1>4, <1>5, <1>6, <1>7, <1>8

LEMMA RequestsSteady ==
  ASSUME Inv1, Request, NEW k \in EncodeIds
  PROVE  Steady(encodeJob[k], encodeJob'[k])
<1>1. /\ \A i \in EncodeIds : encodeJob[i] \in EncodeRows /\ Steady(encodeJob[i], encodeJob[i])
      /\ encodeJob \in [EncodeIds -> EncodeRows] /\ \A i \in EncodeIds : RowSound(encodeJob[i])
  BY SteadyRows DEF Inv1, Typed, Rows
<1>2. ASSUME NEW j \in EncodeIds, NEW q, Steady(encodeJob[j], q), encodeJob' = [encodeJob EXCEPT ![j] = q]
      PROVE  Steady(encodeJob[k], encodeJob'[k])
  BY <1>1, <1>2
<1>3. ASSUME NEW j \in EncodeIds, EnqueueEncode(j) \/ RequestEncodeCancellation(j) \/ LeaseExpires(j)
      PROVE  Steady(encodeJob[k], encodeJob'[k])
  <2>1. CASE EnqueueEncode(j)
    BY <1>1, <1>2, <2>1, SteadyRows DEF EnqueueEncode, UpdateRow
  <2>2. CASE RequestEncodeCancellation(j)
    BY <1>1, <1>2, <2>2, SteadyRows DEF RequestEncodeCancellation
  <2>3. CASE LeaseExpires(j)
    BY <1>1, <1>2, <2>3, SteadyRows DEF LeaseExpires, UpdateRow
  <2>. QED
    BY <1>3, <2>1, <2>2, <2>3
<1>4. ASSUME NEW j \in EncodeIds, RequeueEncode(j) PROVE Steady(encodeJob[k], encodeJob'[k])
  <2>1. /\ encodeJob[j].st \in {"failed", "completed", "cancelled"} /\ encodeJob[j].clean = 0
        /\ \E b, i : UpdateRow(j, [st |-> "queued", res |-> TRUE, tok |-> 0, live |-> TRUE, rep |-> b, ident |-> i])
    BY <1>4 DEF RequeueEncode
  <2>. QED
    BY <1>1, <1>2, <2>1, SteadyRows DEF UpdateRow
<1>5. ASSUME NEW j \in EncodeIds, SupersedeSelection(j) PROVE Steady(encodeJob[k], encodeJob'[k])
  BY <1>1, <1>2, <1>5, SteadyRows DEF SupersedeSelection
<1>6. CASE CompleteReview
  BY <1>1, <1>6, SteadyRows DEF CompleteReview
<1>7. ASSUME NEW j \in EncodeIds, NEW i \in EncodeIds, CompleteReviewWithReplacement(j, i)
      PROVE  Steady(encodeJob[k], encodeJob'[k])
  <2> DEFINE b == encodeJob[j].st = "completed" \/ encodeJob[j].rep
             q == [Row EXCEPT !.st = "queued", !.res = TRUE, !.pred = j, !.rep = b]
  <2>1. \/ k = i /\ encodeJob'[k] = q /\ encodeJob[k].st = "absent"
        \/ encodeJob'[k] = Released(encodeJob[k])
        \/ encodeJob'[k] = [Released(encodeJob[k]) EXCEPT !.res = FALSE] /\ Releasable(encodeJob[k])
    BY <1>7 DEF CompleteReviewWithReplacement
  <2>2. q.st = "queued" /\ q.tok = 0 /\ q.clean = 0
    BY DEF Row
  <2> HIDE DEF q
  <2>3. encodeJob[k].st = "absent" => Steady(encodeJob[k], q)
    BY <1>1, <2>2 DEF Steady, Open, RowSound
  <2>. QED
    BY <1>1, <2>1, <2>3, SteadyRows
<1>. QED
  BY <1>3, <1>4, <1>5, <1>6, <1>7 DEF Request

LEMMA RequestsKeepFiles ==
  ASSUME Inv1, Request
  PROVE  /\ UNCHANGED <<outputFile, publisher, outputLock, keptOutputs>> /\ KeepsUsed
         /\ \A k \in EncodeIds : Steady(encodeJob[k], encodeJob'[k])
<1>1. keptOutputs' = keptOutputs
  BY DEF Request, EnqueueEncode, RequestEncodeCancellation, RequeueEncode, SupersedeSelection,
     LeaseExpires, CompleteReview, CompleteReviewWithReplacement
<1>. QED
  BY <1>1, RequestQuiet, RequestsSteady DEF Quiet

-----------------------------------------------------------------------------
(* What becomes an accepted output.                                        *)

KeptStep(w) == LET p == publisher[w]  r == encodeJob[p.job]  t == p.tok IN
  \/ keptOutputs' = keptOutputs
  \/ /\ p.pc = "validating" /\ publisher'[w] = Idle /\ r.st = "running" /\ r.tok = t
     /\ outputFile.part[t] = t /\ encodeJob'[p.job].st = "failed"
     /\ outputFile' = outputFile /\ keptOutputs' = keptOutputs \cup {t}
  \/ /\ p.pc = "completing" /\ publisher'[w].pc = "discarding" /\ PublicationMatches(t)
     /\ r.st = "completed" /\ r.clean = t /\ r.pub
     /\ outputFile' = outputFile /\ keptOutputs' = keptOutputs \cup {t}

LEMMA KeptSteps ==
  ASSUME Inv1, NEW w \in EncodeWorkers, WorkerStep(w)
  PROVE  KeptStep(w)
<1>1. encodeJob \in [EncodeIds -> EncodeRows] /\ publisher \in [EncodeWorkers -> Publishers]
  BY DEF Inv1, Typed
<1>2. CASE FinalizePublished(w)
  BY <1>1, <1>2, NextPc DEF FinalizePublished, OwnsPublication, Runs, KeptStep
<1>3. CASE RetainFailedOutput(w)
  <2> DEFINE j == publisher[w].job
             r == encodeJob[j]
  <2>1. j \in EncodeIds /\ r \in EncodeRows
    BY <1>3, RunsAt, AtWork DEF Inv1, Typed, Pc
  <2>2. PICK b : encodeJob' = [encodeJob EXCEPT ![j] = FailedRow(r, b)]
    BY <1>3 DEF RetainFailedOutput
  <2>3. encodeJob'[j].st = "failed"
    <3>1. encodeJob'[j] = FailedRow(r, b)
      BY <1>1, <2>1, <2>2
    <3>2. \A c : Shows(FailedRow(r, c), "failed", r.tok, r.clean, r.fence, r.pub, r.pcp)
      BY <2>1, RowFields, ZenonT(60)
    <3>. QED
      BY <3>1, <3>2 DEF Shows
  <2>4. publisher'[w] = Idle
    BY <1>1, <1>3, Moved DEF RetainFailedOutput
  <2>. QED
    BY <1>3, <2>3, <2>4 DEF RetainFailedOutput, AttemptHolds, Runs, KeptStep
<1>4. ASSUME ~FinalizePublished(w), ~RetainFailedOutput(w) PROVE keptOutputs' = keptOutputs
  <2>1. CASE \/ PrepareEncode(w) \/ EncodeFinishes(w) \/ RegisterPublication(w) \/ BeginPublication(w)
             \/ StagePublication(w) \/ ExchangeOutput(w) \/ InspectExchange(w) \/ CompletePublished(w)
             \/ DiscardPartial(w) \/ CompleteCleanup(w) \/ NoticeCancellation(w) \/ RevokePublication(w)
             \/ RollbackOutput(w) \/ RestorePrior(w)
    BY <2>1 DEF PrepareEncode, EncodeFinishes, RegisterPublication, BeginPublication, StagePublication,
       ExchangeOutput, InspectExchange, CompletePublished, DiscardPartial, CompleteCleanup,
       NoticeCancellation, RevokePublication, RollbackOutput, RestorePrior
  <2>2. CASE \/ UnstageOutput(w) \/ SettlePartial(w) \/ ReportFailure(w) \/ QuarantinePartial(w)
             \/ CompleteCancellation(w) \/ LockPendingCleanup(w) \/ ReturnDisplaced(w)
             \/ ReplayPublication(w) \/ WithdrawOutput(w) \/ ReturnPrior(w) \/ DropPartial(w)
    BY <2>2, ZenonT(60) DEF UnstageOutput, SettlePartial, ReportFailure, QuarantinePartial, CompleteCancellation,
       LockPendingCleanup, ReturnDisplaced, ReplayPublication, WithdrawOutput, ReturnPrior, DropPartial
  <2>3. CASE \/ EncodeReconcile(w) \/ EncodeAborts(w) \/ RenameOutput(w) \/ PublicationInterrupted(w)
             \/ EncodeWorkerCrashes(w) \/ \E j \in EncodeIds : ClaimEncode(w, j)
    BY <2>3 DEF EncodeReconcile, EncodeAborts, RenameOutput, PublicationInterrupted, EncodeWorkerCrashes,
       ClaimEncode, RecoverExpiredClaims, ReconcileActive, RecoverAbandonedMutation, RecoverCancellation,
       ListPendingCleanup
  <2>. QED
    BY <1>4, <2>1, <2>2, <2>3 DEF WorkerStep, EncodeWork
<1>. QED
  BY <1>2, <1>3, <1>4 DEF KeptStep

-----------------------------------------------------------------------------
(* Which rows and workers a claim concerns.                                *)

LEMMA Ground ==
  ASSUME Inv1
  PROVE  /\ \A j \in EncodeIds : encodeJob[j] \in EncodeRows /\ RowSound(encodeJob[j])
         /\ \A v \in EncodeWorkers :
              /\ publisher[v] \in Publishers /\ Knows(v)
              /\ Pc(v) = "idle" => publisher[v] = Idle /\ Tok(v) = 0
              /\ Pc(v) # "idle" => Tok(v) \in Claims /\ publisher[v].job \in EncodeIds
         /\ \A t \in Claims, j, k \in EncodeIds :
              t \in {encodeJob[j].tok, encodeJob[j].clean} /\ t \in {encodeJob[k].tok, encodeJob[k].clean}
                => j = k
         /\ \A v \in EncodeWorkers, j \in EncodeIds :
              Pc(v) # "idle" /\ Tok(v) \in {encodeJob[j].tok, encodeJob[j].clean} => j = publisher[v].job
         /\ 0 \notin Claims /\ NoFile \notin Claims /\ Foreign \notin Claims /\ NoFile # Foreign
         /\ \A v \in EncodeWorkers : Tok(v) <= encodeUsed.claims
         /\ \A j \in EncodeIds : encodeJob[j].tok <= encodeUsed.claims /\ encodeJob[j].clean <= encodeUsed.claims
         /\ encodeUsed.claims \in Nat /\ outputFile \in Outputs
<1>1. /\ \A j \in EncodeIds : /\ encodeJob[j] \in EncodeRows /\ RowSound(encodeJob[j])
                              /\ Own(j, encodeJob[j], encodeUsed)
      /\ encodeUsed.claims \in Nat /\ outputFile \in Outputs
  BY EncodeConstants DEF Inv1, Typed, Rows, Used
<1>2. 0 \notin Claims /\ NoFile \notin Claims /\ Foreign \notin Claims /\ NoFile # Foreign
  BY Blank DEF NoFile
<1>3. \A v \in EncodeWorkers :
        /\ publisher[v] \in Publishers /\ Knows(v)
        /\ Pc(v) = "idle" => publisher[v] = Idle /\ Tok(v) = 0
        /\ Pc(v) # "idle" => Tok(v) \in Claims /\ publisher[v].job \in EncodeIds
                             /\ encodeUsed.of[Tok(v)] = publisher[v].job
  BY AtWork DEF Inv1, Typed, Knows, Pc, Tok, Idle
<1>4. \A t \in Claims, j \in EncodeIds :
        t \in {encodeJob[j].tok, encodeJob[j].clean} => encodeUsed.of[t] = j
  BY <1>1, <1>2 DEF Own
<1>. QED
  BY <1>1, <1>2, <1>3, <1>4 DEF Own, Knows, Tok

\* What a worker's step may make of a row, for those who hold another claim.
Undo(w, r) == /\ Pc(w) = "completing" /\ r.clean = Tok(w) /\ r.st = "completed" /\ r.pub /\ r.pcp
              /\ ~PublicationMatches(Tok(w))
Registers(w, r) == /\ Pc(w) = "validating" /\ Pc(w)' = "registered" /\ r.st = "running" /\ r.tok = Tok(w)

LEMMA RowChanges ==
  ASSUME Inv1, NEW w \in EncodeWorkers, WorkerStep(w), NEW k \in EncodeIds
  PROVE  LET r == encodeJob[k]  q == encodeJob'[k] IN
         /\ q.clean \in {0, r.clean, r.tok}
         /\ q.clean # 0 /\ q.clean # r.clean =>
              /\ r.st \in Open
              /\ \/ q.clean = Tok(w) /\ Registers(w, r)
                 \/ q.clean = Tok(w) /\ Pc(w) = "settling" /\ r.st = "running" /\ ~q.pub
                 \/ q.clean = Tok(w) /\ Pc(w) = "cancelling" /\ ~q.pub /\ q.st \notin Open
                 \/ Pc(w) = "idle" /\ ~q.pub /\ q.st \notin Open
         /\ q.pub => \/ r.pub /\ q.clean = r.clean
                     \/ Registers(w, r) /\ q.clean = Tok(w) /\ q.tok = r.tok /\ q.st = "running"
         /\ \/ q.tok \in {0, r.tok}
            \/ /\ Pc(w) = "idle" /\ q.tok = encodeUsed.claims + 1 /\ r.st = "queued"
               /\ r.clean = 0 /\ q.clean = 0
         /\ q.st \in Open => \/ r.st \in Open /\ q.tok = r.tok
                             \/ Undo(w, r) /\ q.st = publisher[w].was.st /\ q.tok = r.tok
                             \/ /\ Pc(w) = "idle" /\ q.tok = encodeUsed.claims + 1 /\ r.st = "queued"
                                /\ r.clean = 0 /\ q.clean = 0
         /\ r.st = "completed" /\ q.clean # 0 =>
              q.clean = r.clean /\ (q.st = "completed" \/ (Undo(w, r) /\ q.st = publisher[w].was.st))
         /\ q.pcp => \/ r.pcp
                     \/ q.st = "completed" /\ r.st = "running"
                     \/ /\ q.st = "completed" /\ Pc(w) = "deciding"
                        /\ PublicationMatches(r.clean) /\ r.clean = Tok(w)
<1> DEFINE r == encodeJob[k]
           q == encodeJob'[k]
<1>1. RowStep(w, k) /\ RowSound(r) /\ r \in EncodeRows
  BY RowSteps, Ground
<1>. QED
  BY <1>1 DEF RowStep, Shows, RowSound, Open, Undo, Registers, Pc, Tok

LEMMA NamesKept ==
  ASSUME Inv1, NEW w \in EncodeWorkers, WorkerStep(w), NEW s \in Claims, s # Tok(w)
  PROVE  /\ outputFile'.part[s] = outputFile.part[s] /\ outputFile'.prior[s] = outputFile.prior[s]
         /\ outputFile'.repl[s] = outputFile.repl[s] /\ outputFile'.quar[s] = outputFile.quar[s]
<1>1. CASE Pc(w) = "idle"
  BY <1>1, Polls
<1>2. CASE Pc(w) # "idle"
  BY <1>2, FileSteps DEF Names
<1>. QED
  BY <1>1, <1>2

LEMMA QuarantinedKept ==
  ASSUME Inv3, NEW w \in EncodeWorkers, WorkerStep(w)
  PROVE  Quarantined'
<1>1. Inv2 /\ Inv1 /\ Quarantined /\ Staging(w) /\ Revoked(w)
  BY DEF Inv3, Inv2
<1> SUFFICES ASSUME NEW t \in Claims
             PROVE  /\ outputFile'.part[t] \in {NoFile, t} /\ outputFile'.quar[t] \in {NoFile, t}
                    /\ \A j \in EncodeIds : outputFile'.quar[t] # NoFile /\ encodeJob'[j].clean = t
                                             => ~encodeJob'[j].pub
  BY DEF Quarantined
<1>2. Pc(w) = "idle" \/ t # Tok(w) => outputFile'.part[t] = outputFile.part[t] /\ outputFile'.quar[t] = outputFile.quar[t]
  BY <1>1, NamesKept, Polls
<1>3. CASE Pc(w) # "idle" /\ t = Tok(w)
  <2>1. FileStep(w)
    BY <1>1, <1>3, FileSteps
  <2>2. /\ outputFile'.part[t] \in {NoFile, t} /\ outputFile'.quar[t] \in {NoFile, t}
        /\ outputFile'.quar[t] # NoFile =>
             \/ outputFile.quar[t] # NoFile
             \/ Pc(w) = "rollback"
             \/ Pc(w) = "deciding" /\ ~encodeJob[publisher[w].job].pub
    BY <1>1, <1>3, <2>1 DEF FileStep, Becomes, Quarantined, Pc, Tok
  <2>3. ASSUME NEW j \in EncodeIds, outputFile'.quar[t] # NoFile, encodeJob'[j].clean = t, encodeJob'[j].pub
        PROVE  FALSE
    <3>1. (encodeJob[j].pub /\ encodeJob[j].clean = t) \/ Pc(w) = "validating"
      BY <1>1, <2>3, RowChanges DEF Registers
    <3>2. CASE Pc(w) = "validating"
      <4>1. outputFile.quar[t] = NoFile
        BY <1>1, <1>3, <3>2 DEF Staging, InHand, Pc, Tok
      <4>. QED
        BY <2>2, <2>3, <3>2, <4>1
    <3>3. CASE encodeJob[j].pub /\ encodeJob[j].clean = t
      <4>1. j = publisher[w].job
        BY <1>1, <1>3, <3>3, Ground
      <4>. QED
        BY <1>1, <1>3, <2>2, <2>3, <3>3, <4>1 DEF Quarantined, Revoked, Recalled, Pc, Tok
    <3>. QED
      BY <3>1, <3>2, <3>3
  <2>. QED
    BY <2>2, <2>3
<1>4. CASE Pc(w) = "idle" \/ t # Tok(w)
  <2>1. ASSUME NEW j \in EncodeIds, outputFile'.quar[t] # NoFile, encodeJob'[j].clean = t, encodeJob'[j].pub
        PROVE  FALSE
    <3>1. t # Tok(w)
      BY <1>1, <1>4, Ground
    <3>2. encodeJob[j].pub /\ encodeJob[j].clean = t
      BY <1>1, <2>1, <3>1, RowChanges
    <3>. QED
      BY <1>1, <1>2, <1>4, <2>1, <3>2 DEF Quarantined
  <2>. QED
    BY <1>1, <1>2, <1>4, <2>1 DEF Quarantined
<1>. QED
  BY <1>3, <1>4

LEMMA DisplacedKept ==
  ASSUME Inv3, NEW w \in EncodeWorkers, WorkerStep(w)
  PROVE  DisplacedKnown'
<1>1. Inv2 /\ Inv1 /\ DisplacedKnown /\ Staging(w) /\ Unlinked(w) /\ outputFile \in Outputs
  BY Ground DEF Inv3, Inv2
<1> SUFFICES ASSUME NEW t \in Claims, Displaced(t)'
             PROVE  outputFile'.part[t] = t \/ Backed(t)'
  BY DEF DisplacedKnown
<1>2. t \in Inodes
  BY Blank
<1>3. Backed(t) => Backed(t)'
  BY <1>1, <1>2, BackedStays
<1>4. CASE Pc(w) # "idle" /\ t = Tok(w)
  <2>1. FileStep(w)
    BY <1>1, <1>4, FileSteps
  <2>2. Pc(w) # "fenced"
    <3>1. ASSUME Pc(w) = "fenced" PROVE FALSE
      <4>1. outputFile.repl[t] = NoFile
        BY <1>1, <1>4, <3>1 DEF Staging, InHand, Pc, Tok
      <4>. QED
        BY <1>4, <2>1, <3>1, <4>1 DEF FileStep, Becomes, Displaced, Pc, Tok
    <3>. QED
      BY <3>1
  <2>3. CASE Pc(w) \in {"staged", "exchanged"}
    <3>1. outputFile.part[t] = t
      BY <1>1, <1>4, <2>3 DEF Staging, InHand, Pc, Tok
    <3>. QED
      BY <1>4, <2>1, <2>3, <3>1 DEF FileStep, Becomes, Pc, Tok
  <2>4. CASE Pc(w) \in {"discarding", "settling", "quarantining"}
    <3>1. outputFile.repl[t] = NoFile
      BY <1>1, <1>4, <2>4 DEF Unlinked, Past, Pc, Tok
    <3>. QED
      BY <1>4, <2>1, <2>4, <3>1 DEF FileStep, Becomes, Displaced, Pc, Tok
  <2>5. CASE Pc(w) = "claimed"
    BY <1>1, <1>3, <1>4, <2>1, <2>5 DEF FileStep, Becomes, Displaced, DisplacedKnown, Pc, Tok
  <2>6. CASE Pc(w) \notin {"fenced", "staged", "exchanged", "discarding", "settling", "quarantining", "claimed"}
    <3>1. Displaced(t) /\ outputFile'.part[t] = outputFile.part[t]
      BY <1>4, <2>1, <2>6 DEF FileStep, Becomes, Displaced, Pc, Tok
    <3>. QED
      BY <1>1, <1>3, <3>1 DEF DisplacedKnown
  <2>. QED
    BY <2>2, <2>3, <2>4, <2>5, <2>6
<1>5. CASE Pc(w) = "idle" \/ t # Tok(w)
  <2>1. Displaced(t) /\ outputFile'.part[t] = outputFile.part[t]
    BY <1>1, <1>5, NamesKept, Polls DEF Displaced
  <2>. QED
    BY <1>1, <1>3, <2>1 DEF DisplacedKnown
<1>. QED
  BY <1>4, <1>5

\* From where a worker comes to a step.
LEMMA Sources ==
  ASSUME NEW a, NEW b, <<a, b>> \in Edges
  PROVE  /\ b = "encoding" => a = "claimed"
         /\ b = "validating" => a = "encoding"
         /\ b = "registered" => a = "validating"
         /\ b = "fenced" => a = "registered"
         /\ b = "staged" => a = "fenced"
         /\ b = "exchanged" => a = "staged"
         /\ b = "deciding" => a = "listed"
         /\ b = "returning" => a = "deciding"
         /\ b = "discarding" => a \in {"completing", "returning"}
         /\ b = "completing" => a \in {"idle", "published", "deciding"}
         /\ b \in {"claimed", "listed"} => a = "idle"
         /\ b # "idle"
BY DEF Edges, Early, Pre

LEMMA Arrives ==
  ASSUME Inv1, NEW w \in EncodeWorkers, WorkerStep(w), Pc(w) # "idle", Pc(w)' # "idle"
  PROVE  /\ Tok(w)' = Tok(w) /\ publisher'[w].job = publisher[w].job /\ ~Return(w)
         /\ <<Pc(w), Pc(w)'>> \in Edges
<1>1. Typed /\ Idle.pc = "idle"
  BY DEF Inv1, Idle
<1>2. (Return(w) /\ publisher'[w] = Idle) \/ Turn(publisher[w], publisher'[w])
  BY <1>1, StepOfBusy
<1>3. publisher'[w] # Idle
  BY <1>1 DEF Pc
<1>4. ~Return(w)
  BY <1>1, <1>3, WorkerTurns
<1>. QED
  BY <1>2, <1>3, <1>4 DEF Turn, Pc, Tok

\* Where a worker goes, and what the row says then.
LEMMA Fencing ==
  ASSUME Inv1, NEW w \in EncodeWorkers, WorkerStep(w), Pc(w) # "idle", Pc(w)' = "fenced"
  PROVE  LET j == publisher[w].job  r == encodeJob[j]  t == Tok(w) IN
         /\ Pc(w) = "registered" /\ r.st = "running" /\ r.tok = t
         /\ Fenced(encodeJob'[j], t)
<1> DEFINE p == publisher[w]
           j == p.job
           r == encodeJob[j]
           q == encodeJob'[j]
<1>1. /\ publisher \in [EncodeWorkers -> Publishers] /\ j \in EncodeIds /\ r \in EncodeRows
      /\ encodeJob \in [EncodeIds -> EncodeRows] /\ Typed
  BY Ground DEF Inv1, Typed
<1>2. Pc(w) = "registered"
  BY Arrives, Sources
<1>3. BeginPublication(w) \/ PublicationInterrupted(w) \/ EncodeWorkerCrashes(w)
  BY <1>2, RunsAt DEF WorkerStep, EncodeWork
<1>4. ~PublicationInterrupted(w) /\ ~EncodeWorkerCrashes(w)
  BY <1>1, PcGoes DEF PublicationInterrupted, EncodeWorkerCrashes
<1>5. r.st = "running" /\ r.tok = Tok(w) /\ r.clean = Tok(w) /\ r.pub /\ UpdateRow(j, [fence |-> "mutation"])
  BY <1>1, <1>3, <1>4, PcGoes DEF BeginPublication, AttemptHolds, Tok
<1>6. q = Merge(r, [fence |-> "mutation"])
  BY <1>1, <1>5 DEF UpdateRow
<1>7. Shows(q, r.st, r.tok, r.clean, "mutation", r.pub, r.pcp)
  BY <1>1, <1>6, RowFields
<1>. QED
  BY <1>2, <1>5, <1>7, EncodeConstants DEF Fenced, Shows, Open, Unfenced

LEMMA Completions ==
  ASSUME Inv1, NEW w \in EncodeWorkers, WorkerStep(w), Pc(w) # "completing", Pc(w)' = "completing"
  PROVE  LET p == publisher[w]  q == publisher'[w]  t == q.tok  r == encodeJob[q.job] IN
         /\ q.job \in EncodeIds /\ t \in Claims /\ PublicationMatches(t) /\ outputFile'.part[t] = t
         /\ r.clean = t /\ r.pub /\ encodeJob'[q.job].st = "completed" /\ encodeJob'[q.job].clean = t
         /\ \/ r.st = "running" /\ p.pc \in {"idle", "published"}
            \/ p.pc = "deciding" /\ ~p.put /\ q.was = r /\ r.st \in {"failed", "completed"} /\ t = p.tok
         /\ p.pc # "idle" => t = p.tok
<1> DEFINE p == publisher[w]
           q == publisher'[w]
<1>1. /\ publisher \in [EncodeWorkers -> Publishers] /\ Typed /\ p \in Publishers
      /\ encodeJob \in [EncodeIds -> EncodeRows] /\ outputFile \in Outputs
      /\ Pc(w) # "idle" => p.job \in EncodeIds /\ Tok(w) \in Claims
  BY Ground DEF Inv1, Typed
<1>2. \A j \in EncodeIds : \A x : UpdateRow(j, x) => encodeJob'[j] = Merge(encodeJob[j], x)
  BY <1>1 DEF UpdateRow
<1>3. CASE Pc(w) = "idle"
  <2>1. PICK j \in EncodeIds : ReconcileActive(w, j) /\ q.job = j /\ q.tok = encodeJob[j].clean
    BY <1>1, <1>3, Polls DEF Pc
  <2> DEFINE r == encodeJob[j]
  <2>2. /\ r.st = "running" /\ r.pub /\ r.clean # 0 /\ PublicationMatches(r.clean) /\ outputFile' = outputFile
        /\ UpdateRow(j, [st |-> "completed", pcp |-> TRUE, live |-> TRUE])
    BY <2>1 DEF ReconcileActive
  <2>3. r \in EncodeRows /\ r.clean \in Claims
    BY <1>1, <2>2, Blank DEF EncodeRows
  <2>4. encodeJob'[j] = Merge(r, [st |-> "completed", pcp |-> TRUE, live |-> TRUE])
    BY <1>1, <2>2 DEF UpdateRow
  <2>5. Shows(encodeJob'[j], "completed", r.tok, r.clean, r.fence, r.pub, TRUE)
    BY <2>3, <2>4, RowFields
  <2>. QED
    BY <1>3, <2>1, <2>2, <2>3, <2>5 DEF Shows, PublicationMatches, Pc
<1>4. CASE Pc(w) # "idle"
  <2> DEFINE j == p.job
             r == encodeJob[j]
             t == p.tok
  <2>1. Turn(p, q) /\ q.tok = t /\ q.job = j /\ Pc(w) \in {"published", "deciding"}
    BY <1>1, <1>4, StepOfBusy DEF Turn, Edges, Idle, Pc, Early, Pre
  <2>2. FileStep(w) /\ r \in EncodeRows /\ t \in Claims
    BY <1>1, <1>4, FileSteps DEF Tok
  <2>3. outputFile'.part[t] = outputFile.part[t]
    BY <2>1, <2>2 DEF FileStep, Becomes, Pc
  <2>4. CASE Pc(w) = "published"
    <3>1. CompletePublished(w)
      <4>1. CompletePublished(w) \/ PublicationInterrupted(w) \/ EncodeWorkerCrashes(w)
        BY <2>4, RunsAt DEF WorkerStep, EncodeWork
      <4>. QED
        BY <1>1, <4>1, PcGoes DEF PublicationInterrupted, EncodeWorkerCrashes
    <3>2. /\ PublicationMatches(t) /\ r.st = "running" /\ r.clean = t /\ r.pub
          /\ UpdateRow(j, [st |-> "completed", pcp |-> TRUE, live |-> TRUE])
      BY <1>1, <3>1, PcGoes DEF CompletePublished, OwnsPublication
    <3>3. encodeJob'[j] = Merge(r, [st |-> "completed", pcp |-> TRUE, live |-> TRUE])
      BY <1>1, <1>4, <3>2 DEF UpdateRow
    <3>4. Shows(encodeJob'[j], "completed", r.tok, r.clean, r.fence, r.pub, TRUE)
      BY <2>2, <3>3, RowFields
    <3>. QED
      BY <1>1, <1>4, <2>1, <2>2, <2>3, <2>4, <3>2, <3>4 DEF Shows, PublicationMatches, Pc
  <2>5. CASE Pc(w) = "deciding"
    <3> DEFINE lease == IF p.fence = Unfenced THEN w ELSE p.fence
    <3>1. ReplayPublication(w)
      <4>1. ReturnDisplaced(w) \/ ReplayPublication(w) \/ WithdrawOutput(w) \/ DropPartial(w)
            \/ EncodeWorkerCrashes(w)
        BY <2>5, RunsAt DEF WorkerStep, EncodeWork
      <4>. QED
        BY <1>1, <4>1, Decides
    <3>2. /\ PublicationMatches(t) /\ r.st \in {"failed", "completed"} /\ r.clean = t /\ r.pub /\ ~p.put
          /\ Step(w, [pc |-> "completing", fence |-> lease, was |-> r])
          /\ UpdateRow(j, [st |-> "completed", pcp |-> TRUE, fence |-> lease, live |-> TRUE])
      BY <1>1, <3>1, PcGoes DEF ReplayPublication, OwnsPublication
    <3>3. lease \in EncodeFences
      BY <1>1 DEF Publishers, EncodeFences
    <3>4. q.was = r
      BY <1>1, <3>2, WasFields
    <3>. HIDE DEF lease
    <3>5. encodeJob'[j] = Merge(r, [st |-> "completed", pcp |-> TRUE, fence |-> lease, live |-> TRUE])
      BY <1>1, <1>4, <3>2 DEF UpdateRow
    <3>6. Shows(encodeJob'[j], "completed", r.tok, r.clean, lease, r.pub, TRUE)
      BY <2>2, <3>3, <3>5, RowFields
    <3>. QED
      BY <1>1, <1>4, <2>1, <2>2, <2>3, <2>5, <3>2, <3>4, <3>6 DEF Shows, PublicationMatches, Pc
  <2>. QED
    BY <2>1, <2>4, <2>5
<1>. QED
  BY <1>3, <1>4

LEMMA Accepting ==
  ASSUME Inv1, NEW w \in EncodeWorkers, WorkerStep(w), Pc(w) = "completing", Pc(w)' = "discarding"
  PROVE  LET j == publisher[w].job  r == encodeJob[j]  t == Tok(w)  q == encodeJob'[j] IN
         /\ PublicationMatches(t) /\ outputFile' = outputFile /\ keptOutputs' = keptOutputs \cup {t}
         /\ r.st = "completed" /\ r.clean = t /\ r.pub /\ r.pcp
         /\ q.st = "completed" /\ q.clean = t /\ q.tok = r.tok /\ q.pub /\ ~q.pcp
<1> DEFINE p == publisher[w]
           j == p.job
           r == encodeJob[j]
<1>1. /\ publisher \in [EncodeWorkers -> Publishers] /\ j \in EncodeIds /\ r \in EncodeRows
      /\ encodeJob \in [EncodeIds -> EncodeRows] /\ Typed
  BY Ground DEF Inv1, Typed
<1>2. FinalizePublished(w)
  <2>1. FinalizePublished(w) \/ EncodeWorkerCrashes(w)
    BY RunsAt DEF WorkerStep, EncodeWork
  <2>. QED
    BY <1>1, <2>1, PcGoes DEF EncodeWorkerCrashes
<1>3. /\ PublicationMatches(Tok(w)) /\ outputFile' = outputFile /\ keptOutputs' = keptOutputs \cup {Tok(w)}
      /\ r.st = "completed" /\ r.clean = Tok(w) /\ r.pub /\ r.pcp
      /\ encodeJob' = [encodeJob EXCEPT ![j] = FinalRow(r)]
  BY <1>1, <1>2, PcGoes DEF FinalizePublished, OwnsPublication, Tok
<1>4. Shows(FinalRow(r), r.st, r.tok, r.clean, r.fence, r.pub, FALSE)
  BY <1>1, RowFields
<1>5. encodeJob'[j] = FinalRow(r)
  BY <1>1, <1>3
<1>. QED
  BY <1>3, <1>4, <1>5 DEF Shows

LEMMA Withdrawing ==
  ASSUME Inv1, NEW w \in EncodeWorkers, WorkerStep(w), Pc(w)' = "returning"
  PROVE  LET r == encodeJob[publisher[w].job] IN
         Pc(w) = "deciding" /\ r.clean = Tok(w) /\ ~r.pub /\ Tok(w)' = Tok(w)
<1>1. /\ publisher \in [EncodeWorkers -> Publishers] /\ Typed
  BY DEF Inv1, Typed
<1>2. Pc(w) = "deciding" /\ Tok(w)' = Tok(w)
  <2>1. Pc(w) # "idle"
    <3>1. ASSUME Pc(w) = "idle" PROVE FALSE
      <4>1. publisher' = publisher \/ Pc(w)' \in {"claimed", "completing", "listed"}
        BY <3>1, Polls DEF Pc
      <4>. QED
        BY <3>1, <4>1 DEF Pc
    <3>. QED
      BY <3>1
  <2>. QED
    BY <2>1, Arrives, Sources
<1>3. WithdrawOutput(w)
  <2>1. ReturnDisplaced(w) \/ ReplayPublication(w) \/ WithdrawOutput(w) \/ DropPartial(w)
        \/ EncodeWorkerCrashes(w)
    BY <1>2, RunsAt DEF WorkerStep, EncodeWork
  <2>2. ~ReplayPublication(w)
    <3>1. ASSUME ReplayPublication(w) PROVE FALSE
      <4>1. \A f, r : Step(w, [pc |-> "completing", fence |-> f, was |-> r]) => Pc(w)' = "completing"
        BY <1>1, WasFields DEF Pc
      <4>. QED
        BY <1>1, <3>1, <4>1, PcGoes DEF ReplayPublication
    <3>. QED
      BY <3>1
  <2>. QED
    BY <1>1, <2>1, <2>2, Decides
<1>. QED
  BY <1>1, <1>2, <1>3, PcGoes DEF WithdrawOutput, Tok

\* A worker that has listed a row keeps what it saw until it has decided; the
\* file in quarantine may be put back first.
LEMMA Locking ==
  ASSUME Inv1, NEW w \in EncodeWorkers, WorkerStep(w), Pc(w) # "idle", Lister(w)'
  PROVE  LET p == publisher[w]  q == publisher'[w]  quar == outputFile.quar[p.tok] IN
         /\ Pc(w) = "listed" /\ q.tok = p.tok /\ q.base = p.base /\ q.put = p.put /\ q.keep = p.keep
         /\ q.seen = p.seen \/ quar # NoFile
         /\ outputFile'.final = outputFile.final \/ quar # NoFile
         /\ outputFile'.prior = outputFile.prior /\ outputFile'.repl = outputFile.repl
<1> DEFINE p == publisher[w]
           q == publisher'[w]
<1>1. /\ publisher \in [EncodeWorkers -> Publishers] /\ Typed /\ p \in Publishers /\ outputFile \in Outputs
      /\ p.tok \in Claims
  BY Ground DEF Inv1, Typed, Tok
<1>2. Pc(w) = "listed"
  <2>1. Pc(w)' \in {"listed", "deciding"}
    BY DEF Lister
  <2>2. Pc(w)' # "idle"
    BY <2>1
  <2>. QED
    BY <2>1, <2>2, Arrives, Sources
<1>3. LockPendingCleanup(w) /\ ~Return(w)
  <2>1. LockPendingCleanup(w) \/ EncodeWorkerCrashes(w)
    BY <1>2, RunsAt DEF WorkerStep, EncodeWork
  <2>2. ~Return(w)
    BY <1>1, PcGoes DEF Lister
  <2>. QED
    BY <2>1, <2>2 DEF EncodeWorkerCrashes
<1>4. \A x : Step(w, x) => q = Merge(p, x)
  BY <1>1, Moved
<1>5. /\ \A x : LET g == Merge(p, [pc |-> x]) IN
           g.tok = p.tok /\ g.base = p.base /\ g.put = p.put /\ g.keep = p.keep /\ g.seen = p.seen
      /\ \A x, y : LET g == Merge(p, [pc |-> x, seen |-> y]) IN
           g.tok = p.tok /\ g.base = p.base /\ g.put = p.put /\ g.keep = p.keep
  BY <1>1 DEF Publishers, Merge
<1>6. \/ /\ Step(w, [pc |-> "deciding"])
         /\ outputFile' = [outputFile EXCEPT !.quar[p.tok] = NoFile]
      \/ /\ Step(w, [pc |-> "deciding", seen |-> outputFile.quar[p.tok]])
         /\ outputFile.quar[p.tok] # NoFile
         /\ outputFile' = [outputFile EXCEPT !.quar[p.tok] = NoFile, !.final = outputFile.quar[p.tok]]
  BY <1>3 DEF LockPendingCleanup
<1>7. LET g == [outputFile EXCEPT !.quar[p.tok] = NoFile] IN
      g.final = outputFile.final /\ g.prior = outputFile.prior /\ g.repl = outputFile.repl
  BY <1>1, QuarFields
<1>8. LET g == [outputFile EXCEPT !.quar[p.tok] = NoFile, !.final = outputFile.quar[p.tok]] IN
      g.prior = outputFile.prior /\ g.repl = outputFile.repl
  BY <1>1 DEF Outputs
<1>. QED
  <2>1. CASE Step(w, [pc |-> "deciding"]) /\ outputFile' = [outputFile EXCEPT !.quar[p.tok] = NoFile]
    BY <1>2, <1>4, <1>5, <1>7, <2>1
  <2>2. CASE /\ Step(w, [pc |-> "deciding", seen |-> outputFile.quar[p.tok]])
             /\ outputFile.quar[p.tok] # NoFile
             /\ outputFile' = [outputFile EXCEPT !.quar[p.tok] = NoFile, !.final = outputFile.quar[p.tok]]
    BY <1>2, <1>4, <1>5, <1>8, <2>2
  <2>. QED
    BY <1>6, <2>1, <2>2

LEMMA Listing ==
  ASSUME Inv1, NEW w \in EncodeWorkers, WorkerStep(w), Pc(w) = "idle", Lister(w)'
  PROVE  LET q == publisher'[w]  t == q.tok  r == encodeJob[q.job]  f == outputFile IN
         /\ q.job \in EncodeIds /\ r.clean = t /\ t \in Claims
         /\ r.st \in {"failed", "completed", "cancelled"}
         /\ q.base = f.prior[t] /\ q.seen = f.final /\ (q.keep <=> f.part[t] # NoFile)
         /\ q.put <=> f.repl[t] \notin {NoFile, f.part[t], f.prior[t]}
         /\ outputFile' = outputFile /\ encodeJob' = encodeJob /\ keptOutputs' = keptOutputs
<1>1. publisher \in [EncodeWorkers -> Publishers] /\ publisher[w] \in Publishers /\ encodeJob \in [EncodeIds -> EncodeRows]
  BY Ground DEF Inv1, Typed
<1>2. PICK j \in EncodeIds : ListPendingCleanup(w, j) /\ publisher'[w].job = j
  BY Polls DEF Lister, Pc
<1> DEFINE q == publisher'[w]
           t == q.tok
           r == encodeJob[j]
           c == r.clean
           f == outputFile
           n == [pc |-> "listed", job |-> j, tok |-> c, fence |-> r.fence, was |-> r,
                 seen |-> f.final, base |-> f.prior[c], keep |-> f.part[c] # NoFile,
                 put |-> f.repl[c] \notin {NoFile, f.part[c], f.prior[c]}]
<1>3. /\ Step(w, n) /\ r.st \in {"failed", "completed", "cancelled"} /\ c # 0
      /\ outputFile' = outputFile /\ encodeJob' = encodeJob /\ keptOutputs' = keptOutputs
  BY <1>2 DEF ListPendingCleanup
<1>4. q = Merge(publisher[w], n)
  BY <1>1, <1>3, Moved
<1>5. /\ q.tok = c /\ q.seen = f.final /\ q.base = f.prior[c] /\ q.keep = (f.part[c] # NoFile)
      /\ q.put = (f.repl[c] \notin {NoFile, f.part[c], f.prior[c]})
  BY <1>1, <1>4 DEF Publishers, Merge
<1>6. c \in Claims
  BY <1>1, <1>3 DEF EncodeRows
<1>. QED
  BY <1>2, <1>3, <1>5, <1>6

\* Who has a claim that did not have it before.
LEMMA NewHolder ==
  ASSUME Inv1, NEW w \in EncodeWorkers, WorkerStep(w), NEW t \in Claims, Tok(w)' = t, Tok(w) # t
  PROVE  /\ Pc(w) = "idle" /\ outputFile' = outputFile
         /\ \/ Pc(w)' = "claimed" /\ t = encodeUsed.claims + 1
            \/ /\ publisher'[w].job \in EncodeIds /\ encodeJob[publisher'[w].job].clean = t
               /\ \/ Pc(w)' = "completing" /\ encodeJob[publisher'[w].job].st = "running"
                     /\ outputFile.repl[t] = NoFile /\ PublicationMatches(t)
                  \/ Pc(w)' = "listed" /\ encodeJob[publisher'[w].job].st \in {"failed", "completed", "cancelled"}
<1>1. Typed /\ 0 \notin Claims
  BY Ground DEF Inv1
<1>2. Pc(w) = "idle"
  <2>1. ASSUME Pc(w) # "idle" PROVE FALSE
    <3>1. Pc(w)' # "idle" => Tok(w)' = Tok(w)
      BY <2>1, Arrives
    <3>2. Pc(w)' = "idle" => Tok(w)' = 0
      <4>1. (Return(w) /\ publisher'[w] = Idle) \/ Turn(publisher[w], publisher'[w])
        BY <1>1, <2>1, StepOfBusy
      <4>2. \A x : <<x, "idle">> \notin Edges
        BY Sources
      <4>. QED
        BY <4>1, <4>2 DEF Turn, Pc, Tok, Idle
    <3>. QED
      BY <1>1, <3>1, <3>2
  <2>. QED
    BY <2>1
<1>3. publisher' # publisher
  BY DEF Tok
<1>. QED
  <2>1. PICK j \in EncodeIds :
          LET c == encodeJob[j].clean  q == publisher'[w] IN
          /\ \/ q.pc = "claimed" /\ q.tok = encodeUsed.claims + 1
             \/ ReconcileActive(w, j) /\ q.pc = "completing" /\ q.tok = c
             \/ ListPendingCleanup(w, j) /\ q.pc = "listed" /\ q.tok = c
          /\ q.job = j
    BY <1>2, <1>3, Polls
  <2>2. outputFile' = outputFile
    BY <1>2, Polls
  <2>. QED
    BY <1>2, <2>1, <2>2 DEF ReconcileActive, ListPendingCleanup, Pc, Tok

-----------------------------------------------------------------------------
(* What comes to the path, and when a file is displaced.                   *)

LEMMA NewlyDisplaced ==
  ASSUME Inv2, NEW w \in EncodeWorkers, WorkerStep(w), NEW t \in Claims, Displaced(t)', ~Displaced(t)
  PROVE  Pc(w) = "staged" /\ Pc(w)' = "exchanged" /\ Tok(w) = t
<1>1. Inv1 /\ Staging(w) /\ Unlinked(w)
  BY DEF Inv2
<1>2. Tok(w) = t /\ Pc(w) # "idle"
  BY <1>1, NamesKept, Polls DEF Displaced
<1>3. FileStep(w)
  BY <1>1, <1>2, FileSteps
<1>4. CASE Pc(w) = "fenced"
  <2>1. outputFile.repl[t] = NoFile
    BY <1>1, <1>2, <1>4 DEF Staging, InHand, Pc, Tok
  <2>. QED
    BY <1>2, <1>3, <1>4, <2>1 DEF FileStep, Becomes, Displaced, Pc, Tok
<1>5. CASE Pc(w) # "fenced"
  BY <1>2, <1>3, <1>5 DEF FileStep, Becomes, Displaced, Pc, Tok
<1>. QED
  BY <1>4, <1>5

LEMMA Installed ==
  ASSUME Inv3, NEW w \in EncodeWorkers, WorkerStep(w), NEW t \in Claims,
         outputFile'.final = t, outputFile.final # t
  PROVE  \/ Backed(t)
         \/ Tok(w) = t /\ Pc(w) \in Pre
         \/ Tok(w) = t /\ Pc(w) = "listed" /\ outputFile.quar[t] # NoFile
<1> DEFINE s == Tok(w)
           f == outputFile
<1>1. /\ Inv1 /\ Staging(w) /\ Links /\ Quarantined /\ ListerKnows(w)
      /\ t # NoFile /\ t # Foreign
  BY Ground DEF Inv3, Inv2, OfWorker
<1>2. Pc(w) # "idle"
  BY <1>1, Polls
<1>3. FileStep(w) /\ s \in Claims /\ \A u \in Claims : f.prior[u] = t => Backed(t)
  BY <1>1, <1>2, FileSteps DEF Backed
<1>4. f.repl[s] \in {NoFile, s, f.prior[s], Foreign} /\ f.quar[s] \in {NoFile, s}
  BY <1>1, <1>3 DEF Links, Quarantined
<1>5. CASE Pc(w) \in Pre
  <2>1. Pc(w) = "exchanged" => f.prior[s] = publisher[w].base /\ f.repl[s] \in {publisher[w].base, Foreign}
    BY <1>1 DEF Staging, InHand, Pc, Tok
  <2>. QED
    BY <1>1, <1>3, <1>5, <2>1 DEF FileStep, Becomes, Pre, Pc, Tok
<1>6. CASE Pc(w) = "listed"
  BY <1>1, <1>3, <1>4, <1>6 DEF FileStep, Becomes, Pc, Tok
<1>7. CASE Pc(w) \in {"restoring", "returning"}
  BY <1>1, <1>3, <1>4, <1>7 DEF FileStep, Becomes, Pc, Tok
<1>8. CASE Pc(w) = "deciding"
  <2>1. publisher[w].base \in {NoFile, f.prior[s]}
    BY <1>8, <1>1 DEF ListerKnows, Lister, Tok
  <2>. QED
    BY <1>1, <1>3, <1>4, <1>8, <2>1 DEF FileStep, Becomes, Pc, Tok
<1>9. CASE Pc(w) \notin Pre \cup {"listed", "restoring", "returning", "deciding"}
  BY <1>1, <1>3, <1>9 DEF FileStep, Becomes, Pre, Pc, Tok
<1>. QED
  BY <1>5, <1>6, <1>7, <1>8, <1>9

-----------------------------------------------------------------------------
(* Each part of the invariant is kept by a step of a worker.               *)

LEMMA OverStays ==
  ASSUME Inv1, NEW w \in EncodeWorkers, WorkerStep(w), NEW t \in Claims, t <= encodeUsed.claims, Over(t),
         ~(Pc(w) = "completing" /\ Tok(w) = t /\ publisher[w].was.st \in Open)
  PROVE  Over(t)'
<1> SUFFICES ASSUME NEW k \in EncodeIds, encodeJob'[k].tok = t, encodeJob'[k].st \in Open
             PROVE  FALSE
  BY DEF Over
<1> DEFINE r == encodeJob[k]
<1>1. /\ RowSound(r) /\ encodeUsed.claims \in Nat /\ 0 \notin Claims
  BY Ground
<1>2. r.tok = t => r.st \notin Open
  BY DEF Over
<1>3. Undo(w, r) /\ r.tok = t /\ publisher[w].was.st \in Open
  BY <1>1, <1>2, RowChanges
<1>4. r.clean = t
  BY <1>1, <1>3 DEF Undo, RowSound, Open
<1>. QED
  BY <1>3, <1>4 DEF Undo

LEMMA NotKeptKept ==
  ASSUME Inv3, Inv1', NEW w \in EncodeWorkers, WorkerStep(w)
  PROVE  NotKept'
<1>1. /\ Inv2 /\ Inv1 /\ UnusedClaims /\ NotKept /\ Staging(w) /\ KeptStep(w)
      /\ \A u \in EncodeWorkers : Staging(u)
  BY KeptSteps DEF Inv3, Inv2
<1>2. \A u \in EncodeWorkers \ {w} : publisher'[u] = publisher[u]
  BY <1>1, WorkerTurns DEF Inv1
<1> SUFFICES ASSUME NEW t \in Claims, t \in keptOutputs',
                    Unwritten(t)' \/ \E v \in EncodeWorkers : Tok(v)' = t /\ Pc(v)' \in InHand
             PROVE  FALSE
  BY DEF NotKept
<1>3. Unwritten(t)' => Unwritten(t) /\ (Tok(w) = t /\ Pc(w) # "idle" => Pc(w) \notin InHand)
  BY <1>1, StillUnwritten
<1>4. ASSUME NEW v \in EncodeWorkers, Tok(v)' = t, Pc(v)' \in InHand
      PROVE  /\ Unwritten(t) \/ (Tok(v) = t /\ Pc(v) \in InHand)
             /\ v = w => Pc(w)' # "idle" /\ (Pc(w) \in InHand \cup {"claimed"})
  <2>1. CASE v # w
    BY <1>2, <1>4, <2>1 DEF Tok, Pc
  <2>2. CASE v = w
    <3>1. Pc(w)' # "idle"
      BY <1>4, <2>2 DEF InHand
    <3>2. Pc(w) # "idle"
      <4>1. ASSUME Pc(w) = "idle" PROVE FALSE
        <5>1. publisher' = publisher \/ Pc(w)' \in {"claimed", "completing", "listed"}
          BY <1>1, <4>1, Polls DEF Pc
        <5>. QED
          BY <1>4, <2>2, <4>1, <5>1 DEF Pc, InHand
      <4>. QED
        BY <4>1
    <3>3. Tok(w) = t /\ Pc(w) \in InHand \cup {"claimed"}
      BY <1>1, <1>4, <2>2, <3>1, <3>2, Arrives, Sources DEF InHand
    <3>4. Pc(w) = "claimed" => Unwritten(t)
      BY <3>3 DEF Unwritten, WorksOnClaim, Executing, Early
    <3>. QED
      BY <2>2, <3>1, <3>3, <3>4
  <2>. QED
    BY <2>1, <2>2
<1>5. Unwritten(t) \/ \E v \in EncodeWorkers : Tok(v) = t /\ Pc(v) \in InHand
  BY <1>3, <1>4
<1>6. t \notin keptOutputs
  BY <1>1, <1>5 DEF NotKept
<1>7. /\ t = Tok(w)
      /\ \/ Pc(w) = "validating" /\ Pc(w)' = "idle"
         \/ Pc(w) = "completing" /\ PublicationMatches(t)
  <2>1. Idle.pc = "idle"
    BY DEF Idle
  <2>2. \/ keptOutputs' = keptOutputs
        \/ Pc(w) = "validating" /\ publisher'[w] = Idle /\ keptOutputs' = keptOutputs \cup {Tok(w)}
        \/ Pc(w) = "completing" /\ PublicationMatches(Tok(w)) /\ keptOutputs' = keptOutputs \cup {Tok(w)}
    BY <1>1 DEF KeptStep, Pc, Tok
  <2>3. publisher'[w] = Idle => Pc(w)' = "idle"
    BY <2>1 DEF Pc
  <2>. QED
    BY <1>6, <2>2, <2>3
<1>8. ~Unwritten(t)'
  <2>1. ASSUME Unwritten(t)' PROVE FALSE
    <3>1. Pc(w) = "completing"
      BY <1>3, <1>7, <2>1 DEF InHand
    <3>2. Nowhere(t)
      BY <1>1, <1>3, <2>1 DEF UnusedClaims
    <3>. QED
      BY <1>7, <3>1, <3>2 DEF Nowhere, Nameless, PublicationMatches
  <2>. QED
    BY <2>1
<1>9. PICK v \in EncodeWorkers : Tok(v)' = t /\ Pc(v)' \in InHand
  BY <1>8
<1>10. v # w
  BY <1>4, <1>7, <1>9 DEF InHand
<1>. QED
  BY <1>1, <1>2, <1>7, <1>9, <1>10 DEF Staging, InHand, Pc, Tok

LEMMA Comes ==
  ASSUME Inv1, NEW w \in EncodeWorkers, WorkerStep(w)
  PROVE  /\ \A v \in EncodeWorkers \ {w} :
              publisher'[v] = publisher[v] /\ Pc(v)' = Pc(v) /\ Tok(v)' = Tok(v)
         /\ Pc(w)' \notin {"idle", "claimed", "completing", "listed"} =>
              /\ Pc(w) # "idle" /\ Tok(w) \in Claims /\ Tok(w)' = Tok(w) /\ ~Return(w)
              /\ publisher'[w].job = publisher[w].job /\ <<Pc(w), Pc(w)'>> \in Edges
         /\ Pc(w) = "idle" => Pc(w)' \in {"idle", "claimed", "completing", "listed"}
         /\ Pc(w)' = "claimed" => Pc(w) = "idle"
<1>1. \A v \in EncodeWorkers \ {w} : publisher'[v] = publisher[v]
  <2>1. Typed
    BY DEF Inv1
  <2>. QED
    BY <2>1, WorkerTurns
<1>2. Pc(w) = "idle" => Pc(w)' \in {"idle", "claimed", "completing", "listed"}
  BY Polls DEF Pc
<1>3. Pc(w) # "idle" => Tok(w) \in Claims
  BY Ground
<1>4. Pc(w)' = "claimed" => Pc(w) = "idle"
  <2>1. Pc(w)' = "claimed" /\ Pc(w) # "idle" => <<Pc(w), Pc(w)'>> \in Edges
    BY Arrives
  <2>. QED
    BY <2>1, Sources
<1>. QED
  BY <1>1, <1>2, <1>3, <1>4, Arrives DEF Pc, Tok

LEMMA EarlyAloneKept ==
  ASSUME Inv3, NEW w \in EncodeWorkers, WorkerStep(w), NEW v \in EncodeWorkers
  PROVE  EarlyAlone(v)'
<1>1. /\ Inv2 /\ Inv1 /\ EarlyAlone(v) /\ Staging(v) /\ AtClaim(w) /\ Typed
      /\ \A u \in EncodeWorkers \ {w} :
           publisher'[u] = publisher[u] /\ Pc(u)' = Pc(u) /\ Tok(u)' = Tok(u)
  BY Comes DEF Inv3, Inv2, Inv1, OfWorker
<1> SUFFICES ASSUME Pc(v)' \in {"encoding", "validating", "registered"},
                    NEW u \in EncodeWorkers \ {v}, Tok(u)' = Tok(v)'
             PROVE  Over(Tok(v))'
  BY DEF EarlyAlone
<1> DEFINE t == Tok(v)
<1>2. /\ t \in Claims /\ Tok(v)' = t /\ t <= encodeUsed.claims /\ encodeUsed.claims \in Nat
      /\ Pc(v) # "idle" /\ (v # w => Pc(v) \in {"encoding", "validating", "registered"})
  BY <1>1, Comes, Ground
<1>3. ASSUME Over(t), Pc(w) # "completing" PROVE Over(Tok(v))'
  BY <1>1, <1>2, <1>3, OverStays DEF Over
<1>4. CASE v = w
  <2>1. Tok(u) = t /\ Pc(w) \in {"claimed", "encoding", "validating"}
    BY <1>1, <1>2, <1>4, Comes, Sources
  <2>2. CASE Pc(w) = "claimed"
    <3>1. /\ Pc(w)' = "encoding" => AttemptHolds(publisher[w].job, t)
      BY <1>1, <1>4, <2>2, Prepares
    <3>2. Pc(w)' = "encoding"
      BY <1>1, <1>2, <1>4, <2>2, Comes, Sources
    <3>. QED
      BY <1>1, <1>4, <2>1, <2>2, <3>1, <3>2 DEF AtClaim, AttemptHolds, Open, Pc, Tok
  <2>3. CASE Pc(w) # "claimed"
    BY <1>1, <1>3, <1>4, <2>1, <2>3 DEF EarlyAlone
  <2>. QED
    BY <2>2, <2>3
<1>5. CASE v # w /\ Tok(u) = t
  <2>1. Over(t)
    BY <1>1, <1>2, <1>5 DEF EarlyAlone
  <2>2. ~(Pc(w) = "completing" /\ Tok(w) = t)
    BY <1>1, <1>2, <1>5 DEF Staging, InHand, Pc, Tok
  <2>. QED
    BY <1>1, <1>2, <2>1, <2>2, OverStays DEF Over
<1>6. CASE v # w /\ Tok(u) # t
  <2>1. u = w
    BY <1>1, <1>2, <1>6
  <2> DEFINE j == publisher'[w].job
  <2>2. /\ Pc(w) = "idle" /\ j \in EncodeIds /\ encodeJob[j].clean = t
        /\ Pc(w)' = "listed" => encodeJob[j].st \in {"failed", "completed", "cancelled"}
        /\ Pc(w)' = "listed" \/ (outputFile.repl[t] = NoFile /\ PublicationMatches(t))
    BY <1>1, <1>2, <1>6, <2>1, NewHolder
  <2>3. encodeJob[j].st \in {"failed", "completed", "cancelled"}
    BY <1>1, <1>2, <1>6, <2>2, StagedElsewhere DEF PublicationMatches, InHand
  <2>4. Over(t)
    BY <1>1, <1>2, <2>2, <2>3, Ground DEF Over, Open
  <2>. QED
    BY <1>3, <2>2, <2>4
<1>. QED
  BY <1>4, <1>5, <1>6

LEMMA EarlyRowKept ==
  ASSUME Inv3, NEW w \in EncodeWorkers, WorkerStep(w), NEW v \in EncodeWorkers
  PROVE  EarlyRow(v)'
<1>1. /\ Inv1 /\ EarlyRow(v) /\ Staging(v) /\ AtClaim(v) /\ OneWorker
      /\ v # w => publisher'[v] = publisher[v] /\ Pc(v)' = Pc(v) /\ Tok(v)' = Tok(v)
  BY Comes DEF Inv3, Inv2, Inv1, OfWorker
<1> SUFFICES ASSUME Pc(v)' \in {"claimed", "encoding", "validating"}, NEW k \in EncodeIds,
                    encodeJob'[k].tok = Tok(v)', encodeJob'[k].st \in Open, encodeJob'[k].clean # 0
             PROVE  FALSE
  BY DEF EarlyRow
<1> DEFINE r == encodeJob[k]
           q == encodeJob'[k]
           t == Tok(v)
<1>2. /\ RowSound(r) /\ r.tok <= encodeUsed.claims /\ encodeUsed.claims \in Nat
      /\ Pc(v) # "idle" => t \in Claims /\ t <= encodeUsed.claims
      /\ 0 \notin Claims
  BY <1>1, Ground
<1>3. CASE v = w /\ Pc(w)' = "claimed"
  <2>1. Pc(w) = "idle"
    BY <1>1, <1>3, Comes
  <2>2. Tok(w)' = encodeUsed.claims + 1
    BY <1>1, <1>3, <2>1, Polls DEF Pc, Tok
  <2>. QED
    BY <1>1, <1>2, <1>3, <2>2, RowChanges
<1>4. CASE v = w /\ Pc(w)' # "claimed"
  <2>1. Pc(w) \in {"claimed", "encoding"} /\ Tok(w)' = t
    BY <1>1, <1>4, Comes, Sources
  <2>2. r.st \in Open /\ r.tok = t
    BY <1>1, <1>4, <2>1, RowChanges DEF Undo
  <2>3. r.clean = 0
    BY <1>1, <1>4, <2>1, <2>2 DEF EarlyRow
  <2>. QED
    BY <1>1, <1>4, <2>1, <2>3, RowChanges DEF Registers
<1>5. CASE v # w
  <2>1. /\ Pc(v) \in {"claimed", "encoding", "validating"} /\ Tok(v)' = t /\ t \in Claims
        /\ t <= encodeUsed.claims /\ WorksOnClaim(v)
    BY <1>1, <1>2, <1>5 DEF WorksOnClaim, Executing, Early
  <2>2. ~Undo(w, r) \/ r.tok # t
    <3>1. Undo(w, r) /\ r.tok = t => Tok(w) = t /\ Pc(w) = "completing"
      BY <1>2, <2>1 DEF Undo, RowSound
    <3>. QED
      BY <1>1, <1>5, <2>1, <3>1 DEF AtClaim, Staging, InHand, Pc, Tok
  <2>3. r.st \in Open /\ r.tok = t
    BY <1>1, <1>2, <2>1, <2>2, RowChanges
  <2>4. r.clean = 0
    BY <1>1, <2>1, <2>3 DEF EarlyRow
  <2>5. q.clean = t
    BY <1>1, <2>3, <2>4, RowChanges
  <2>6. Tok(w) = t /\ Pc(w) \in {"validating", "settling"}
    BY <1>1, <2>4, <2>5, RowChanges DEF Registers
  <2>. QED
    BY <1>1, <1>5, <2>1, <2>6 DEF OneWorker, WorksOnClaim, Executing, Early
<1>. QED
  BY <1>3, <1>4, <1>5

LEMMA PreAloneOfWorker ==
  ASSUME Inv3, NEW w \in EncodeWorkers, WorkerStep(w)
  PROVE  PreAlone(w)'
<1> DEFINE j == publisher[w].job
           t == Tok(w)
<1>1. /\ Inv1 /\ EarlyAlone(w) /\ PreAlone(w)
      /\ \A u \in EncodeWorkers \ {w} : Tok(u)' = Tok(u)
  BY Comes DEF Inv3, Inv2, OfWorker
<1> SUFFICES ASSUME Pc(w)' \in Pre
             PROVE  Fenced(encodeJob'[j], t) /\ \A u \in EncodeWorkers \ {w} : Tok(u) # t
  <2>1. Pc(w)' \in Pre => publisher'[w].job = j /\ Tok(w)' = t
    BY <1>1, Comes DEF Pre
  <2>. QED
    BY <1>1, <2>1 DEF PreAlone, Tok
<1>2. /\ Pc(w) \in {"registered", "fenced", "staged"} /\ t \in Claims
      /\ Pc(w)' = "fenced" <=> Pc(w) = "registered"
  BY <1>1, Comes, Sources DEF Pre
<1>3. CASE Pc(w) = "registered"
  <2>1. /\ encodeJob[j].st = "running" /\ encodeJob[j].tok = t /\ j \in EncodeIds
        /\ Fenced(encodeJob'[j], t)
    BY <1>1, <1>2, <1>3, Fencing, Ground
  <2>2. ~Over(t)
    BY <2>1 DEF Over, Open
  <2>. QED
    BY <1>1, <1>3, <2>1, <2>2 DEF EarlyAlone
<1>4. CASE Pc(w) # "registered"
  <2>1. /\ Fenced(encodeJob[j], t) /\ j \in EncodeIds /\ \A u \in EncodeWorkers \ {w} : Tok(u) # t
    BY <1>1, <1>2, <1>4, Ground DEF PreAlone, Pre
  <2>2. RowStep(w, j)
    BY <1>1, <2>1, RowSteps
  <2>. QED
    BY <1>2, <1>4, <2>1, <2>2 DEF RowStep, Shows, Fenced, Pc
<1>. QED
  BY <1>3, <1>4

LEMMA PreAloneOfOthers ==
  ASSUME Inv3, NEW w \in EncodeWorkers, WorkerStep(w), NEW v \in EncodeWorkers \ {w}
  PROVE  PreAlone(v)'
<1> DEFINE j == publisher[v].job
           t == Tok(v)
           r == encodeJob[j]
<1>1. /\ Inv1 /\ Typed /\ Staging(v) /\ PreAlone(v) /\ Knows(v) /\ publisher'[v] = publisher[v]
      /\ \A u \in EncodeWorkers \ {w} : Tok(u)' = Tok(u)
  BY Comes DEF Inv3, Inv2, Inv1, OfWorker
<1> SUFFICES ASSUME Pc(v) \in Pre
             PROVE  Fenced(encodeJob'[j], t) /\ Tok(w)' # t
  <2>1. Pc(v) \in Pre => \A u \in EncodeWorkers \ {v} : Tok(u) # t
    BY <1>1 DEF PreAlone
  <2>. QED
    BY <1>1, <2>1 DEF PreAlone, Pc, Tok
<1>2. /\ Fenced(r, t) /\ Tok(w) # t /\ j \in EncodeIds /\ t \in Claims /\ t <= encodeUsed.claims
      /\ encodeUsed.claims \in Nat /\ Pc(v) \in InHand
  BY <1>1, Ground DEF PreAlone, Pre, InHand
<1>3. outputLock # Nobody
  BY <1>1, EncodeConstants DEF Knows, Holding, Pre, Pc
<1>4. ~(outputFile.repl[t] = NoFile /\ PublicationMatches(t))
  BY <1>1, <1>2, StagedElsewhere DEF PublicationMatches
<1>5. RowStep(w, j)
  BY <1>1, <1>2, RowSteps
<1>6. Fenced(encodeJob'[j], t)
  BY <1>2, <1>3, <1>4, <1>5 DEF RowStep, Shows, Fenced, Open, Tok
<1>7. ASSUME Tok(w)' = t PROVE FALSE
  <2>1. encodeJob[publisher'[w].job].clean = t => encodeJob[publisher'[w].job].st \in {"failed", "completed", "cancelled"}
        /\ publisher'[w].job \in EncodeIds
    BY <1>1, <1>2, <1>4, <1>7, NewHolder
  <2>2. publisher'[w].job \in EncodeIds /\ encodeJob[publisher'[w].job].clean = t
    BY <1>1, <1>2, <1>4, <1>7, NewHolder
  <2>3. publisher'[w].job = j
    BY <1>1, <1>2, <2>2, Ground
  <2>. QED
    BY <1>2, <2>1, <2>2, <2>3 DEF Fenced, Open
<1>. QED
  BY <1>6, <1>7

LEMMA UndisturbedKept ==
  ASSUME Inv3, Inv1', NEW w \in EncodeWorkers, WorkerStep(w), NEW v \in EncodeWorkers
  PROVE  Undisturbed(v)'
<1> DEFINE t == Tok(v)
<1>1. /\ Inv2 /\ Inv1 /\ Undisturbed(v) /\ Knows(v) /\ Knows(v)' /\ OneWorker /\ UnusedClaims
      /\ v # w => publisher'[v] = publisher[v]
  BY Comes DEF Inv3, Inv2, Inv1, OfWorker
<1> SUFFICES ASSUME WorksOnClaim(v)', Pc(v)' # "exchanged" PROVE ~Displaced(Tok(v))'
  BY DEF Undisturbed
<1>2. Pc(v)' \notin {"idle", "completing", "listed"}
  BY <1>1 DEF WorksOnClaim, Executing, Early, Pre, Knows, Idle, Pc
<1>3. CASE Pc(v) = "idle"
  <2>1. v = w /\ Pc(v)' = "claimed"
    BY <1>1, <1>2, <1>3, Comes DEF Pc
  <2>2. Tok(v)' = encodeUsed.claims + 1 /\ outputFile' = outputFile
    BY <1>1, <1>3, <2>1, Polls DEF Pc, Tok
  <2>3. Tok(v)' \in Claims
    BY <1>1, <1>2 DEF Inv1, Typed, Publishers, Knows, Tok, Pc
  <2>4. Unwritten(encodeUsed.claims + 1)
    BY Ground, <1>1 DEF Unwritten
  <2>5. outputFile.repl[encodeUsed.claims + 1] = NoFile
    BY <1>1, <2>2, <2>3, <2>4 DEF UnusedClaims, NoNames
  <2>. QED
    BY <2>2, <2>5 DEF Displaced
<1>4. CASE Pc(v) # "idle"
  <2>1. WorksOnClaim(v) /\ Tok(v)' = t /\ t \in Claims
    BY <1>1, <1>4, StillWorking, Ground DEF WorksOnClaim, Pc, Tok
  <2>2. CASE Pc(v) = "exchanged" /\ v = w
    <3>1. \/ outputFile' = [outputFile EXCEPT !.repl[t] = NoFile]
          \/ outputFile' = [outputFile EXCEPT !.final = outputFile.repl[t], !.repl[t] = t]
      BY <1>1, <1>2, <2>2, PublicationMoves
    <3>2. outputFile'.repl[t] \in {NoFile, t}
      <4>1. outputFile \in Outputs
        BY <1>1 DEF Inv1, Typed
      <4>. QED
        BY <2>1, <3>1, <4>1 DEF Outputs
    <3>. QED
      BY <2>1, <3>2 DEF Displaced
  <2>3. CASE ~(Pc(v) = "exchanged" /\ v = w)
    <3>1. ~Displaced(t)
      BY <1>1, <2>1, <2>3 DEF Undisturbed, Pc
    <3>2. Displaced(t)' => Pc(w) = "staged" /\ Pc(w)' = "exchanged" /\ Tok(w) = t
      BY <1>1, <2>1, <3>1, NewlyDisplaced
    <3>3. Displaced(t)' => v = w
      BY <1>1, <2>1, <3>2 DEF OneWorker, WorksOnClaim, Executing, Pre
    <3>. QED
      BY <2>1, <3>2, <3>3 DEF Displaced
  <2>. QED
    BY <2>2, <2>3
<1>. QED
  BY <1>3, <1>4

LEMMA ListerKnowsOfWorker ==
  ASSUME Inv3, NEW w \in EncodeWorkers, WorkerStep(w)
  PROVE  ListerKnows(w)'
<1> DEFINE p == publisher[w]
           q == publisher'[w]
           f == outputFile
<1>1. /\ Inv2 /\ Inv1 /\ ListerKnows(w) /\ Quarantined /\ Links /\ DisplacedKnown /\ KeptAccepted
      /\ \A u \in EncodeWorkers : Unlinked(u)
      /\ \A u \in EncodeWorkers \ {w} : publisher'[u] = publisher[u]
  BY Comes DEF Inv3, Inv2, OfWorker
<1> SUFFICES ASSUME Lister(w)', NEW t, t = q.tok
             PROVE  /\ q.base \in {NoFile, f'.prior[t]}
                    /\ ~q.put => ~Displaced(t)'
                    /\ q.put /\ ~q.keep => Backed(t)'
                    /\ ~Backed(t)' => \A j \in EncodeIds : encodeJob'[j].clean = t /\ encodeJob'[j].pub =>
                         /\ q.seen # t => f'.final # t
                         /\ q.put => /\ t \notin keptOutputs'
                                     /\ \A u \in EncodeWorkers : Pc(u)' = "completing" => Tok(u)' # t
                                     /\ f'.final = t => Displaced(t)'
                                     /\ encodeJob'[j].st \notin Open
  BY DEF ListerKnows
<1>2. Pc(w)' # "completing" /\ NoFile \notin Claims /\ Foreign \notin Claims /\ NoFile # Foreign
  BY Ground, <1>1 DEF Lister
<1>3. CASE Pc(w) = "idle"
  <2>1. /\ q.job \in EncodeIds /\ encodeJob[q.job].clean = t /\ t \in Claims
        /\ encodeJob[q.job].st \in {"failed", "completed", "cancelled"}
        /\ q.base = f.prior[t] /\ q.seen = f.final /\ (q.keep <=> f.part[t] # NoFile)
        /\ q.put <=> f.repl[t] \notin {NoFile, f.part[t], f.prior[t]}
        /\ f' = f /\ encodeJob' = encodeJob /\ keptOutputs' = keptOutputs
    BY <1>1, <1>3, Listing
  <2>2. /\ f.part[t] \in {NoFile, t} /\ f.repl[t] \in {NoFile, t, f.prior[t], Foreign}
        /\ f.repl[t] = t => f.part[t] = t
    BY <1>1, <2>1 DEF Quarantined, Links
  <2>3. /\ q.put => Displaced(t) /\ f.repl[t] # NoFile
        /\ ~q.put => ~Displaced(t)
    BY <1>2, <2>1, <2>2 DEF Displaced
  <2>4. q.put /\ ~q.keep => Backed(t)
    BY <1>1, <1>2, <2>1, <2>3 DEF DisplacedKnown
  <2>5. q.put => t \notin keptOutputs
    BY <1>1, <2>1, <2>3 DEF KeptAccepted
  <2>6. q.put => \A u \in EncodeWorkers : Pc(u)' = "completing" => Tok(u)' # t
    BY <1>1, <1>2, <2>3 DEF Unlinked, Past, Pc, Tok
  <2>7. \A j \in EncodeIds : encodeJob[j].clean = t => encodeJob[j].st \notin Open
    BY <1>1, <2>1, Ground DEF Open
  <2>8. (Displaced(t)' <=> Displaced(t)) /\ (Backed(t)' <=> Backed(t))
    BY <2>1 DEF Displaced, Backed
  <2>. HIDE DEF q, f
  <2>. QED
    BY <2>1, <2>3, <2>4, <2>5, <2>6, <2>7, <2>8 DEF f
<1>4. CASE Pc(w) # "idle"
  <2>1. /\ Pc(w) = "listed" /\ t = p.tok /\ q.base = p.base /\ q.put = p.put /\ q.keep = p.keep
        /\ q.seen = p.seen \/ f.quar[p.tok] # NoFile
        /\ f'.final = f.final \/ f.quar[p.tok] # NoFile
        /\ f'.prior = f.prior /\ f'.repl = f.repl /\ t \in Claims
    BY <1>1, <1>4, Locking, Ground DEF Tok
  <2>2. /\ p.base \in {NoFile, f.prior[t]}
        /\ ~p.put => ~Displaced(t)
        /\ p.put /\ ~p.keep => Backed(t)
        /\ ~Backed(t) => \A j \in EncodeIds : encodeJob[j].clean = t /\ encodeJob[j].pub =>
                         /\ p.seen # t => f.final # t
                         /\ p.put => /\ t \notin keptOutputs
                                     /\ \A u \in EncodeWorkers : Pc(u) = "completing" => Tok(u) # t
                                     /\ f.final = t => Displaced(t)
                                     /\ encodeJob[j].st \notin Open
    BY <1>1, <2>1 DEF ListerKnows, Lister
  <2>3. (Displaced(t)' <=> Displaced(t)) /\ (Backed(t) => Backed(t)')
    <3>1. Backed(t) => Backed(t)'
      BY <1>1, <2>1, BackedStays, Blank
    <3>. QED
      BY <2>1, <3>1 DEF Displaced
  <2>4. ASSUME NEW j \in EncodeIds, encodeJob'[j].clean = t, encodeJob'[j].pub
        PROVE  /\ encodeJob[j].clean = t /\ encodeJob[j].pub /\ f.quar[t] = NoFile
               /\ encodeJob'[j].st \in Open => encodeJob[j].st \in Open
    <3>1. /\ encodeJob[j].clean = t /\ encodeJob[j].pub
          /\ encodeJob'[j].st \in Open => encodeJob[j].st \in Open
      BY <1>1, <2>1, <2>4, RowChanges DEF Registers, Undo
    <3>. QED
      BY <1>1, <2>1, <3>1 DEF Quarantined
  <2>5. keptOutputs' = keptOutputs
    <3>1. KeptStep(w)
      BY <1>1, KeptSteps
    <3>. QED
      BY <2>1, <3>1 DEF KeptStep, Pc
  <2>6. \A u \in EncodeWorkers : Pc(u)' = "completing" => Pc(u) = "completing" /\ Tok(u)' = Tok(u)
    BY <1>1, <1>2 DEF Pc, Tok
  <2>. HIDE DEF q, f, p
  <2>7. ASSUME ~Backed(t)', NEW j \in EncodeIds, encodeJob'[j].clean = t, encodeJob'[j].pub
        PROVE  /\ q.seen # t => f'.final # t
               /\ q.put => /\ t \notin keptOutputs'
                           /\ \A u \in EncodeWorkers : Pc(u)' = "completing" => Tok(u)' # t
                           /\ f'.final = t => Displaced(t)'
                           /\ encodeJob'[j].st \notin Open
    BY <2>1, <2>2, <2>3, <2>4, <2>5, <2>6, <2>7
  <2>. QED
    BY <2>1, <2>2, <2>3, <2>7
<1>. QED
  BY <1>3, <1>4

\* A displaced file stays displaced while the claim's output is in place.
LEMMA DisplacedStays ==
  ASSUME Inv3, NEW w \in EncodeWorkers, WorkerStep(w), NEW v \in EncodeWorkers \ {w}, Lister(v),
         ~Backed(Tok(v)), Displaced(Tok(v)), outputFile'.final = Tok(v), outputFile.final = Tok(v),
         NEW j \in EncodeIds, encodeJob[j].clean = Tok(v), encodeJob[j].pub
  PROVE  Displaced(Tok(v))'
<1> DEFINE t == Tok(v)
           f == outputFile
<1>1. /\ Inv1 /\ Links /\ Undisturbed(w) /\ PreAlone(w) /\ ListerKnows(w)
      /\ publisher'[v] = publisher[v] /\ Tok(v)' = t
  BY Comes DEF Inv3, Inv2, OfWorker
<1>2. t \in Claims /\ NoFile \notin Claims
  BY <1>1, Ground DEF Lister
<1>3. f.repl[t] \notin {NoFile, t, f.prior[t]}
  BY DEF Displaced
<1>4. CASE Tok(w) # t \/ Pc(w) = "idle"
  <2>1. f'.repl[t] = f.repl[t] /\ f'.prior[t] = f.prior[t]
    BY <1>1, <1>2, <1>4, NamesKept, Polls
  <2>. QED
    BY <1>1, <1>3, <2>1 DEF Displaced
<1>5. CASE Tok(w) = t /\ Pc(w) # "idle"
  <2>1. FileStep(w)
    BY <1>1, <1>5, FileSteps
  <2>2. Pc(w) \notin Executing
    <3>1. Pc(w) \notin Pre
      BY <1>1, <1>5 DEF PreAlone
    <3>. QED
      BY <1>1, <1>5, <3>1 DEF Undisturbed, WorksOnClaim, Pre
  <2>3. Pc(w) = "deciding" =>
          publisher[w].put /\ publisher[w].keep /\ publisher[w].seen = t
    BY <1>1, <1>5 DEF ListerKnows, Lister, Tok
  <2>4. f'.repl[t] = f.repl[t] /\ f'.prior[t] = f.prior[t]
    BY <1>2, <1>3, <1>5, <2>1, <2>2, <2>3 DEF FileStep, Becomes, Executing, Early, Pre, Pc, Tok
  <2>. QED
    BY <1>1, <1>3, <2>4 DEF Displaced
<1>. QED
  BY <1>4, <1>5

LEMMA ListerKnowsOfOthers ==
  ASSUME Inv3, NEW w \in EncodeWorkers, WorkerStep(w), NEW v \in EncodeWorkers \ {w}
  PROVE  ListerKnows(v)'
<1> DEFINE p == publisher[v]
           t == p.tok
           f == outputFile
<1>1. /\ Inv2 /\ Inv1 /\ ListerKnows(v) /\ ListerKnows(w) /\ PreAlone(w) /\ EarlyAlone(w) /\ Quarantined
      /\ publisher'[v] = p /\ Pc(v)' = Pc(v)
      /\ \A u \in EncodeWorkers \ {w} : publisher'[u] = publisher[u]
  BY Comes DEF Inv3, Inv2, OfWorker
<1> SUFFICES ASSUME Lister(v)
             PROVE  /\ p.base \in {NoFile, f'.prior[t]}
                    /\ ~p.put => ~Displaced(t)'
                    /\ p.put /\ ~p.keep => Backed(t)'
                    /\ ~Backed(t)' => \A j \in EncodeIds : encodeJob'[j].clean = t /\ encodeJob'[j].pub =>
                         /\ p.seen # t => f'.final # t
                         /\ p.put => /\ t \notin keptOutputs'
                                     /\ \A u \in EncodeWorkers : Pc(u)' = "completing" => Tok(u)' # t
                                     /\ f'.final = t => Displaced(t)'
                                     /\ encodeJob'[j].st \notin Open
  <2>1. Lister(v)' <=> Lister(v)
    BY <1>1 DEF Lister
  <2>2. (Displaced(t)' <=> f'.repl[t] \notin {NoFile, t, f'.prior[t]})
        /\ (Backed(t)' <=> t \in f'.aside \/ \E s \in Claims : f'.prior[s] = t)
    BY <1>1 DEF Displaced, Backed
  <2>. QED
    BY <1>1, <2>1, <2>2 DEF ListerKnows, Displaced, Backed
<1>2. /\ t \in Claims /\ t \in Inodes /\ NoFile \notin Claims /\ 0 \notin Claims /\ Tok(v) = t /\ Tok(v)' = t
  BY <1>1, Ground, Blank DEF Lister, Tok
<1>3. /\ p.base \in {NoFile, f.prior[t]}
      /\ ~p.put => ~Displaced(t)
      /\ p.put /\ ~p.keep => Backed(t)
      /\ ~Backed(t) => \A j \in EncodeIds : encodeJob[j].clean = t /\ encodeJob[j].pub =>
                       /\ p.seen # t => f.final # t
                       /\ p.put => /\ t \notin keptOutputs
                                   /\ \A u \in EncodeWorkers : Pc(u) = "completing" => Tok(u) # t
                                   /\ f.final = t => Displaced(t)
                                   /\ encodeJob[j].st \notin Open
  BY <1>1 DEF ListerKnows
<1>4. Tok(w) = t => Pc(w) \notin Pre
  BY <1>1, <1>2 DEF PreAlone
<1>5. f'.prior[t] = f.prior[t]
  <2>1. CASE Tok(w) # t \/ Pc(w) = "idle"
    BY <1>1, <1>2, <2>1, NamesKept, Polls
  <2>2. CASE Tok(w) = t /\ Pc(w) # "idle"
    <3>1. FileStep(w)
      BY <1>1, <2>2, FileSteps
    <3>. QED
      BY <1>4, <2>2, <3>1 DEF FileStep, Becomes, Pre, Pc, Tok
  <2>. QED
    BY <2>1, <2>2
<1>6. Displaced(t)' => Displaced(t)
  BY <1>1, <1>2, <1>4, NewlyDisplaced DEF Pre
<1>7. Backed(t) => Backed(t)'
  BY <1>1, <1>2, BackedStays
<1>8. ASSUME NEW j \in EncodeIds, encodeJob'[j].clean = t, encodeJob'[j].pub, ~Backed(t)
      PROVE  /\ p.seen # t => f'.final # t
             /\ p.put => /\ t \notin keptOutputs'
                         /\ \A u \in EncodeWorkers : Pc(u)' = "completing" => Tok(u)' # t
                         /\ f'.final = t => Displaced(t)'
                         /\ encodeJob'[j].st \notin Open
  <2> DEFINE r == encodeJob[j]
  <2>1. ~(Pc(w) = "validating" /\ Tok(w) = t /\ \E k \in EncodeIds : encodeJob[k].tok = t /\ encodeJob[k].st = "running")
    BY <1>1, <1>2 DEF EarlyAlone, Over, Open
  <2>2. r.clean = t /\ r.pub
    BY <1>1, <1>2, <1>8, <2>1, RowChanges DEF Registers
  <2>3. /\ p.seen # t => f.final # t
        /\ p.put => /\ t \notin keptOutputs
                    /\ \A u \in EncodeWorkers : Pc(u) = "completing" => Tok(u) # t
                    /\ f.final = t => Displaced(t)
                    /\ r.st \notin Open
    BY <1>3, <1>8, <2>2
  <2>4. f.quar[t] = NoFile
    BY <1>1, <1>2, <2>2 DEF Quarantined
  <2>5. f'.final = t => f.final = t
    BY <1>2, <1>4, <1>8, <2>4, Installed
  <2>6. p.put => t \notin keptOutputs'
    <3>1. KeptStep(w)
      BY <1>1, KeptSteps
    <3>2. Pc(w) # "idle" => publisher[w].job \in EncodeIds
      BY <1>1, Ground
    <3>. QED
      BY <2>1, <2>3, <3>1, <3>2 DEF KeptStep, Pc, Tok
  <2>7. ASSUME p.put, Pc(w)' = "completing", Tok(w)' = t PROVE FALSE
    <3> DEFINE k == publisher'[w].job
    <3>1. Pc(w) # "completing"
      <4>1. Pc(w) = "completing" => <<Pc(w), Pc(w)'>> \in Edges
        BY <1>1, <2>7, Arrives
      <4>. QED
        BY <2>7, <4>1, Sources
    <3>2. /\ k \in EncodeIds /\ encodeJob[k].clean = t /\ PublicationMatches(t)
          /\ \/ encodeJob[k].st = "running"
             \/ Pc(w) = "deciding" /\ ~publisher[w].put /\ Tok(w) = t
      BY <1>1, <2>7, <3>1, Completions DEF Pc, Tok
    <3>3. k = j
      BY <1>1, <1>2, <2>2, <3>2, Ground
    <3>4. Pc(w) = "deciding" /\ ~publisher[w].put /\ Tok(w) = t
      BY <2>3, <2>7, <3>2, <3>3 DEF Open
    <3>5. ~Displaced(t)
      BY <1>1, <3>4 DEF ListerKnows, Lister, Tok
    <3>. QED
      BY <2>3, <2>7, <3>2, <3>5 DEF PublicationMatches
  <2>8. p.put => \A u \in EncodeWorkers : Pc(u)' = "completing" => Tok(u)' # t
    BY <1>1, <2>3, <2>7 DEF Pc, Tok
  <2>9. p.put /\ f'.final = t => Displaced(t)'
    <3>1. p.put /\ f'.final = t => f.final = t /\ Displaced(t)
      BY <2>3, <2>5
    <3>2. p.put /\ f'.final = t => Displaced(Tok(v))'
      BY <1>2, <1>8, <2>2, <3>1, DisplacedStays
    <3>. QED
      BY <1>1, <1>2, <3>2 DEF Displaced, Tok
  <2>10. p.put => encodeJob'[j].st \notin Open
    BY <1>1, <1>2, <1>8, <2>2, <2>3, RowChanges DEF Undo
  <2>. QED
    BY <2>3, <2>5, <2>6, <2>8, <2>9, <2>10
<1>. HIDE DEF p, t, f
<1>. QED
  BY <1>3, <1>5, <1>6, <1>7, <1>8

\* A row that is completed before a completion of it starts is not undone to
\* anything else.
LEMMA NewPrimary ==
  ASSUME Inv1, NEW w \in EncodeWorkers, WorkerStep(w), Primary(w)'
  PROVE  LET k == publisher'[w].job  t == Tok(w)' IN
         /\ k \in EncodeIds /\ t \in Claims /\ encodeJob[k].clean = t /\ encodeJob[k].st # "completed"
         /\ encodeJob'[k].st = "completed" /\ outputFile'.part[t] = t
         /\ encodeJob[k].pub /\ outputFile.final = t
<1>1. Pc(w)' = "completing" /\ publisher'[w].was.st # "completed"
  BY DEF Primary, Pc
<1>2. Pc(w) # "completing"
  <2>1. Pc(w) = "completing" => <<Pc(w), Pc(w)'>> \in Edges
    BY <1>1, Arrives
  <2>. QED
    BY <1>1, <2>1, Sources
<1>. QED
  BY <1>1, <1>2, Completions DEF Tok, PublicationMatches

LEMMA PrimaryKnowsOfWorker ==
  ASSUME Inv3, NEW w \in EncodeWorkers, WorkerStep(w)
  PROVE  PrimaryKnows(w)'
<1>1. /\ Inv1 /\ \A u \in EncodeWorkers : PrimaryKnows(u)
      /\ \A u \in EncodeWorkers \ {w} : publisher'[u] = publisher[u]
  BY Comes DEF Inv3, Inv2, OfWorker
<1> SUFFICES ASSUME Primary(w)', NEW t \in Claims, t = Tok(w)'
             PROVE  /\ Over(t)'
                    /\ \A j \in EncodeIds : encodeJob'[j].clean = t =>
                         encodeJob'[j].st = "completed" /\ outputFile'.part[t] = t
                    /\ \A u \in EncodeWorkers \ {w} : Primary(u)' => Tok(u)' # t
  <2>1. Primary(w)' => Tok(w)' \in Claims
    BY <1>1, NewPrimary
  <2>. QED
    BY <2>1 DEF PrimaryKnows, Over
<1> DEFINE k == publisher'[w].job
<1>2. /\ k \in EncodeIds /\ encodeJob[k].clean = t /\ encodeJob[k].st # "completed"
      /\ encodeJob'[k].st = "completed" /\ outputFile'.part[t] = t
  BY <1>1, NewPrimary
<1>3. ASSUME NEW j \in EncodeIds, t \in {encodeJob'[j].tok, encodeJob'[j].clean} PROVE j = k
  <2>1. t <= encodeUsed.claims /\ encodeUsed.claims \in Nat /\ t # 0
    BY <1>1, <1>2, Ground
  <2>2. t \in {encodeJob[j].tok, encodeJob[j].clean}
    BY <1>1, <1>3, <2>1, RowChanges
  <2>. QED
    BY <1>1, <1>2, <2>2, Ground
<1>4. Over(t)'
  BY <1>2, <1>3 DEF Over, Open
<1>5. ASSUME NEW u \in EncodeWorkers \ {w}, Primary(u)' PROVE Tok(u)' # t
  <2>1. Primary(u) /\ Tok(u)' = Tok(u)
    BY <1>1, <1>5 DEF Primary, Pc, Tok
  <2>. QED
    BY <1>1, <1>2, <2>1 DEF PrimaryKnows
<1>. QED
  BY <1>2, <1>3, <1>4, <1>5

LEMMA PrimaryKnowsOfOthers ==
  ASSUME Inv3, NEW w \in EncodeWorkers, WorkerStep(w), NEW v \in EncodeWorkers \ {w}
  PROVE  PrimaryKnows(v)'
<1> DEFINE t == Tok(v)
           f == outputFile
<1>1. /\ Inv2 /\ Inv1 /\ PrimaryKnows(v) /\ DiscardKnows(w)
      /\ publisher'[v] = publisher[v] /\ Tok(v)' = t
      /\ \A u \in EncodeWorkers \ {w} : publisher'[u] = publisher[u]
  BY Comes DEF Inv3, Inv2, OfWorker
<1> SUFFICES ASSUME Primary(v)
             PROVE  /\ Over(t)'
                    /\ \A j \in EncodeIds : encodeJob'[j].clean = t =>
                         /\ encodeJob'[j].st = "completed"
                         /\ encodeJob'[j].pcp => f'.part[t] = t \/ Backed(t)'
                    /\ \A u \in EncodeWorkers \ {v} : Primary(u)' => Tok(u)' # t
  <2>1. Primary(v)' <=> Primary(v)
    BY <1>1 DEF Primary, Pc
  <2>. QED
    BY <1>1, <2>1 DEF PrimaryKnows, Over, Backed
<1>2. /\ t \in Claims /\ t \in Inodes /\ 0 \notin Claims /\ NoFile \notin Claims /\ t <= encodeUsed.claims
      /\ encodeUsed.claims \in Nat
  BY <1>1, Ground, Blank DEF Primary
<1>3. /\ Over(t)
      /\ \A j \in EncodeIds : encodeJob[j].clean = t =>
           /\ encodeJob[j].st = "completed"
           /\ encodeJob[j].pcp => f.part[t] = t \/ Backed(t)
      /\ \A u \in EncodeWorkers \ {v} : Primary(u) => Tok(u) # t
  BY <1>1 DEF PrimaryKnows
<1>4. Pc(w) = "completing" /\ Tok(w) = t => publisher[w].was.st = "completed"
  BY <1>3 DEF Primary
<1>5. Over(t)'
  BY <1>1, <1>2, <1>3, <1>4, OverStays DEF Open
<1>6. Backed(t) => Backed(t)'
  BY <1>1, <1>2, BackedStays
<1>7. ASSUME NEW j \in EncodeIds, encodeJob'[j].clean = t
      PROVE  /\ encodeJob'[j].st = "completed"
             /\ encodeJob'[j].pcp => f'.part[t] = t \/ Backed(t)'
  <2> DEFINE r == encodeJob[j]
             q == encodeJob'[j]
  <2>1. r.clean = t
    <3>1. r.tok = t => r.st \notin Open
      BY <1>3 DEF Over
    <3>. QED
      BY <1>1, <1>2, <1>7, <3>1, RowChanges
  <2>2. r.st = "completed"
    BY <1>3, <2>1
  <2>3. q.st = "completed"
    BY <1>1, <1>2, <1>4, <1>7, <2>1, <2>2, RowChanges DEF Undo
  <2>4. q.pcp => r.pcp \/ (Pc(w) = "deciding" /\ f.part[t] = t /\ Tok(w) = t)
    BY <1>1, <2>1, <2>2, RowChanges DEF PublicationMatches
  <2>5. q.pcp => f.part[t] = t \/ Backed(t)
    BY <1>3, <2>1, <2>4
  <2>6. CASE Tok(w) # t \/ Pc(w) = "idle"
    <3>1. f'.part[t] = f.part[t]
      BY <1>1, <1>2, <2>6, NamesKept, Polls
    <3>. QED
      BY <1>6, <2>3, <2>5, <3>1
  <2>7. CASE Tok(w) = t /\ Pc(w) # "idle"
    <3>1. FileStep(w)
      BY <1>1, <2>7, FileSteps
    <3>2. Pc(w) = "discarding" /\ ~Backed(t) => ~r.pcp
      BY <1>1, <2>1, <2>7 DEF DiscardKnows
    <3>3. f.part[t] = t => f'.part[t] = t \/ t \in f'.aside \/ Pc(w) = "discarding"
      BY <1>2, <2>7, <3>1 DEF FileStep, Becomes, Pc, Tok
    <3>4. t \in f'.aside => Backed(t)'
      BY <1>1 DEF Backed
    <3>. QED
      BY <1>6, <2>3, <2>4, <2>5, <3>2, <3>3, <3>4
  <2>. QED
    BY <2>6, <2>7
<1>8. ASSUME Primary(w)', Tok(w)' = t PROVE FALSE
  BY <1>1, <1>3, <1>8, NewPrimary
<1>9. \A u \in EncodeWorkers \ {v} : Primary(u)' => Tok(u)' # t
  BY <1>1, <1>3, <1>8 DEF Primary, Pc, Tok
<1>. QED
  BY <1>5, <1>7, <1>9

LEMMA DiscardKnowsOfWorker ==
  ASSUME Inv3, NEW w \in EncodeWorkers, WorkerStep(w)
  PROVE  DiscardKnows(w)'
<1> DEFINE t == Tok(w)
           k == publisher[w].job
<1>1. /\ Inv2 /\ Inv1 /\ DiscardKnows(w) /\ Knows(w) /\ \A u \in EncodeWorkers : PrimaryKnows(u)
      /\ \A u \in EncodeWorkers \ {w} : publisher'[u] = publisher[u]
  BY Comes DEF Inv3, Inv2, Inv1, OfWorker
<1> SUFFICES ASSUME Pc(w)' \in {"returning", "discarding"}, ~Backed(t)', NEW j \in EncodeIds,
                    encodeJob'[j].clean = t, Tok(w)' = t, t \in Claims, ~Return(w), Pc(w) # "idle",
                    <<Pc(w), Pc(w)'>> \in Edges
             PROVE  /\ \/ ~encodeJob'[j].pub
                       \/ Pc(w)' = "discarding" /\ t \in keptOutputs'
                    /\ \A u \in EncodeWorkers \ {w} : Primary(u) /\ Tok(u) = t =>
                         outputLock' = w /\ ~encodeJob'[j].pcp
  <2>1. Pc(w)' \in {"returning", "discarding"} =>
          /\ Tok(w)' = t /\ t \in Claims /\ ~Return(w) /\ Pc(w) # "idle" /\ <<Pc(w), Pc(w)'>> \in Edges
          /\ Backed(Tok(w))' <=> Backed(t)'
    BY <1>1, Comes
  <2>2. \A u \in EncodeWorkers \ {w} : (Primary(u)' <=> Primary(u)) /\ Tok(u)' = Tok(u)
    BY <1>1 DEF Primary, Pc, Tok
  <2>. QED
    BY <2>1, <2>2 DEF DiscardKnows
<1>2. Pc(w) \in {"deciding", "returning", "completing"} /\ (Pc(w)' = "returning" <=> Pc(w) = "deciding")
  BY Sources
<1>3. encodeJob[j].clean = t /\ j = k /\ RowSound(encodeJob[j]) /\ t # 0 /\ (encodeJob'[j].pub => encodeJob[j].pub)
  <2>1. encodeJob[j].clean = t /\ (encodeJob'[j].pub => encodeJob[j].pub) /\ t # 0
    BY <1>1, <1>2, RowChanges, Ground DEF Registers
  <2>. QED
    BY <1>1, <2>1, Ground
<1>4. ASSUME NEW u \in EncodeWorkers \ {w}, Primary(u), Tok(u) = t
      PROVE  encodeJob[j].st = "completed" /\ encodeJob[j].pub
  BY <1>1, <1>3, <1>4 DEF PrimaryKnows, RowSound
<1>5. CASE Pc(w) = "deciding"
  <2>1. ~encodeJob[j].pub
    BY <1>1, <1>2, <1>3, <1>5, Withdrawing
  <2>. QED
    BY <1>3, <1>4, <2>1
<1>6. CASE Pc(w) = "returning"
  <2>1. ~Backed(t)
    BY <1>1, BackedStays, Blank
  <2>2. ~encodeJob[j].pub
    BY <1>1, <1>3, <1>6, <2>1 DEF DiscardKnows
  <2>. QED
    BY <1>3, <1>4, <2>2
<1>7. CASE Pc(w) = "completing"
  <2>1. /\ t \in keptOutputs' /\ ~encodeJob'[j].pcp /\ Pc(w)' = "discarding"
    BY <1>1, <1>2, <1>3, <1>7, Accepting
  <2>2. ASSUME NEW u \in EncodeWorkers \ {w}, Primary(u), Tok(u) = t PROVE outputLock' = w
    <3>1. publisher[w].was.st = "completed"
      BY <1>1, <1>7, <2>2 DEF PrimaryKnows, Primary
    <3>2. outputLock = w
      BY <1>1, <1>7, <3>1 DEF Knows, Pc
    <3>. QED
      BY <1>1, <3>2, WorkerFrame
  <2>. QED
    BY <2>1, <2>2
<1>. QED
  BY <1>2, <1>5, <1>6, <1>7

LEMMA DiscardKnowsOfOthers ==
  ASSUME Inv3, NEW w \in EncodeWorkers, WorkerStep(w), NEW v \in EncodeWorkers \ {w}
  PROVE  DiscardKnows(v)'
<1> DEFINE t == Tok(v)
           f == outputFile
<1>1. /\ Inv2 /\ Inv1 /\ DiscardKnows(v) /\ EarlyAlone(w) /\ PreAlone(w) /\ Quarantined /\ KeptAccepted
      /\ Knows(w) /\ \A u \in EncodeWorkers : PrimaryKnows(u)
      /\ publisher'[v] = publisher[v] /\ Pc(v)' = Pc(v) /\ Tok(v)' = t
      /\ \A u \in EncodeWorkers \ {w} : publisher'[u] = publisher[u]
  BY Comes DEF Inv3, Inv2, Inv1, OfWorker
<1> SUFFICES ASSUME Pc(v) \in {"returning", "discarding"}, ~Backed(t)', NEW j \in EncodeIds,
                    encodeJob'[j].clean = t
             PROVE  /\ \/ ~encodeJob'[j].pub
                       \/ Pc(v) = "discarding" /\ (t \in keptOutputs' \/ f'.final # t)
                    /\ \A u \in EncodeWorkers \ {v} : Primary(u)' /\ Tok(u)' = t =>
                         outputLock' = v /\ ~encodeJob'[j].pcp
  BY <1>1 DEF DiscardKnows
<1> DEFINE r == encodeJob[j]
           q == encodeJob'[j]
<1>2. /\ t \in Claims /\ t \in Inodes /\ 0 \notin Claims /\ NoFile \notin Claims
      /\ RowSound(r)
  BY <1>1, Ground, Blank
<1>3. ~Backed(t)
  BY <1>1, <1>2, BackedStays DEF Backed
<1>4. ~(Registers(w, r) /\ Tok(w) = t)
  BY <1>1 DEF EarlyAlone, Over, Open, Registers
<1>5. \A u \in EncodeWorkers \ {w} : Primary(u)' => Primary(u) /\ Tok(u)' = Tok(u)
  BY <1>1 DEF Primary, Pc, Tok
<1>6. CASE r.clean # t
  <2>1. ~q.pub /\ r.tok = t /\ r.st \in Open
    BY <1>1, <1>2, <1>4, <1>6, RowChanges
  <2>2. ASSUME NEW u \in EncodeWorkers, Primary(u)', Tok(u)' = t PROVE FALSE
    <3>1. CASE u = w
      <4>1. publisher'[w].job = j
        BY <1>1, <1>2, <2>1, <2>2, <3>1, NewPrimary, Ground
      <4>. QED
        BY <1>1, <1>6, <2>2, <3>1, <4>1, NewPrimary
    <3>2. CASE u # w
      <4>1. Over(t)
        BY <1>1, <1>5, <2>2, <3>2 DEF PrimaryKnows
      <4>. QED
        BY <2>1, <4>1 DEF Over
    <3>. QED
      BY <3>1, <3>2
  <2>. QED
    BY <2>1, <2>2
<1>7. CASE r.clean = t
  <2>1. /\ ~r.pub \/ (Pc(v) = "discarding" /\ (t \in keptOutputs \/ f.final # t))
        /\ \A u \in EncodeWorkers \ {v} : Primary(u) /\ Tok(u) = t => outputLock = v /\ ~r.pcp
    BY <1>1, <1>3, <1>7 DEF DiscardKnows
  <2>2. q.pub => r.pub
    BY <1>1, <1>2, <1>4, RowChanges DEF Registers
  <2>3. keptOutputs \subseteq keptOutputs'
    <3>1. KeptStep(w)
      BY <1>1, KeptSteps
    <3>. QED
      BY <3>1 DEF KeptStep
  <2>4. r.pub /\ f.final # t => f'.final # t
    <3>1. Tok(w) = t => Pc(w) \notin Pre
      BY <1>1 DEF PreAlone
    <3>2. r.pub => f.quar[t] = NoFile
      BY <1>1, <1>2, <1>7 DEF Quarantined
    <3>. QED
      BY <1>2, <1>3, <3>1, <3>2, Installed
  <2>5. ASSUME NEW u \in EncodeWorkers \ {v}, Primary(u)', Tok(u)' = t
        PROVE  outputLock' = v /\ ~q.pcp
    <3>1. CASE u # w
      <4>1. Primary(u) /\ Tok(u) = t /\ outputLock = v /\ ~r.pcp
        BY <1>5, <2>1, <2>5, <3>1
      <4>2. r.st = "completed"
        BY <1>1, <1>7, <4>1 DEF PrimaryKnows
      <4>3. Pc(w) # "deciding"
        BY <1>1, <4>1 DEF Knows, Holding, Pc
      <4>. QED
        BY <1>1, <4>1, <4>2, <4>3, RowChanges, WorkerFrame
    <3>2. CASE u = w
      <4>1. /\ publisher'[w].job \in EncodeIds /\ encodeJob[publisher'[w].job].clean = t
            /\ encodeJob[publisher'[w].job].st # "completed"
            /\ encodeJob[publisher'[w].job].pub /\ f.final = t
        BY <1>1, <2>5, <3>2, NewPrimary
      <4>2. publisher'[w].job = j
        BY <1>1, <1>2, <1>7, <4>1, Ground
      <4>3. t \in keptOutputs => r.st = "completed"
        BY <1>1, <1>2, <1>3, <1>7 DEF KeptAccepted, Accepted
      <4>. QED
        BY <2>1, <4>1, <4>2, <4>3
    <3>. QED
      BY <3>1, <3>2
  <2>. QED
    BY <2>1, <2>2, <2>3, <2>4, <2>5
<1>. QED
  BY <1>6, <1>7

\* The row of a claim is the same before and after a step.
LEMMA SameRow ==
  ASSUME Inv1, NEW w \in EncodeWorkers, WorkerStep(w), NEW t \in Claims,
         NEW k \in EncodeIds, t \in {encodeJob[k].tok, encodeJob[k].clean},
         NEW j \in EncodeIds, t \in {encodeJob'[j].tok, encodeJob'[j].clean}
  PROVE  j = k
<1>1. t <= encodeUsed.claims /\ encodeUsed.claims \in Nat /\ t # 0
  BY Ground
<1>2. t \in {encodeJob[j].tok, encodeJob[j].clean}
  BY <1>1, RowChanges
<1>. QED
  BY <1>2, Ground

\* A partial that is retained leaves nobody with its claim and no row that
\* asks for its cleanup.
LEMMA Retaining ==
  ASSUME Inv3, NEW w \in EncodeWorkers, WorkerStep(w), Pc(w) = "validating", publisher'[w] = Idle,
         encodeJob[publisher[w].job].st = "running", encodeJob[publisher[w].job].tok = Tok(w)
  PROVE  /\ \A u \in EncodeWorkers : Tok(u)' # Tok(w)
         /\ \A j \in EncodeIds : encodeJob'[j].clean # Tok(w)
<1> DEFINE t == Tok(w)
           k == publisher[w].job
<1>1. /\ Inv1 /\ EarlyAlone(w) /\ EarlyRow(w)
      /\ \A u \in EncodeWorkers \ {w} : Tok(u)' = Tok(u)
  BY Comes DEF Inv3, Inv2, OfWorker
<1>2. t \in Claims /\ k \in EncodeIds /\ t # 0
  BY <1>1, Ground
<1>3. Pc(w)' = "idle" /\ Tok(w)' # t
  BY <1>2 DEF Idle, Pc, Tok
<1>4. \A u \in EncodeWorkers \ {w} : Tok(u) # t
  BY <1>2, <1>1 DEF EarlyAlone, Over, Open
<1>5. encodeJob[k].clean = 0
  BY <1>1, <1>2 DEF EarlyRow, Open
<1>6. encodeJob'[k].clean # t
  BY <1>1, <1>2, <1>3, <1>5, RowChanges DEF Registers
<1>7. \A j \in EncodeIds : encodeJob'[j].clean # t
  BY <1>1, <1>2, <1>6, SameRow
<1>. QED
  BY <1>1, <1>3, <1>4, <1>7

\* The completion of an accepted output is not undone.
LEMMA AcceptedNotUndone ==
  ASSUME Inv3, NEW w \in EncodeWorkers, NEW k \in EncodeIds, Undo(w, encodeJob[k]),
         Tok(w) \in keptOutputs, ~Backed(Tok(w))
  PROVE  publisher[w].was.st = "completed"
<1> DEFINE t == Tok(w)
<1>1. Inv1 /\ PrimaryKnows(w) /\ KeptHeld
  BY DEF Inv3, Inv2, OfWorker
<1>2. t \in Claims /\ Foreign \notin Claims /\ encodeJob[k].clean = t /\ encodeJob[k].pcp
  BY <1>1, Ground DEF Undo
<1>3. outputFile.final = t
  BY <1>1, <1>2 DEF KeptHeld, Held, Retained
<1>4. Primary(w) => outputFile.part[t] = t
  BY <1>1, <1>2 DEF PrimaryKnows
<1>. QED
  BY <1>3, <1>4 DEF Undo, Primary, PublicationMatches

LEMMA AcceptedStays ==
  ASSUME Inv3, Inv1', NEW w \in EncodeWorkers, WorkerStep(w), NEW t \in Claims \cap keptOutputs, ~Backed(t)
  PROVE  Accepted(t)'
<1>1. Inv1 /\ NotKept /\ KeptAccepted
  BY DEF Inv3, Inv2
<1>2. /\ Over(t) /\ encodeUsed.claims \in Nat /\ t \in Nat /\ 0 \notin Claims
      /\ \A j \in EncodeIds : encodeJob[j].clean = t => encodeJob[j].st = "completed" /\ encodeJob[j].pub
  <2>1. Over(t) /\ \A j \in EncodeIds : encodeJob[j].clean = t => encodeJob[j].st = "completed" /\ encodeJob[j].pub
    BY <1>1 DEF KeptAccepted, Accepted
  <2>. QED
    BY <2>1, <1>1, Ground DEF Claims
<1>3. t <= encodeUsed.claims
  BY <1>1, <1>2 DEF NotKept, Unwritten
<1>4. ASSUME NEW k \in EncodeIds, Undo(w, encodeJob[k]), t \in {encodeJob[k].tok, encodeJob[k].clean}
      PROVE  publisher[w].was.st = "completed"
  <2>1. encodeJob[k].clean = Tok(w) /\ encodeJob[k].st = "completed" /\ RowSound(encodeJob[k]) /\ Pc(w) # "idle"
    BY <1>1, <1>4, Ground DEF Undo
  <2>2. Tok(w) = t
    BY <1>1, <1>2, <1>4, <2>1, Ground DEF RowSound
  <2>. QED
    BY <1>4, <2>2, AcceptedNotUndone
<1>5. ASSUME NEW k \in EncodeIds, encodeJob'[k].tok = t, encodeJob'[k].st \in Open PROVE FALSE
  <2>1. encodeJob[k].tok = t => encodeJob[k].st \notin Open
    BY <1>2 DEF Over
  <2>2. Undo(w, encodeJob[k]) /\ encodeJob[k].tok = t /\ publisher[w].was.st \in Open
    BY <1>1, <1>2, <1>3, <1>5, <2>1, RowChanges
  <2>. QED
    BY <1>4, <2>2 DEF Open
<1>6. ASSUME NEW k \in EncodeIds, encodeJob'[k].clean = t
      PROVE  encodeJob'[k].st = "completed" /\ encodeJob'[k].pub
  <2>1. encodeJob[k].tok = t => encodeJob[k].st \notin Open
    BY <1>2 DEF Over
  <2>2. encodeJob[k].clean = t
    BY <1>1, <1>2, <1>6, <2>1, RowChanges
  <2>3. encodeJob'[k].st = "completed"
    BY <1>1, <1>2, <1>4, <1>6, <2>2, RowChanges
  <2>4. RowSound(encodeJob[k])'
    BY DEF Inv1, Rows
  <2>. QED
    BY <1>2, <1>6, <2>3, <2>4 DEF RowSound
<1>. QED
  BY <1>5, <1>6 DEF Accepted, Over

LEMMA KeptAcceptedKept ==
  ASSUME Inv3, Inv1', NEW w \in EncodeWorkers, WorkerStep(w)
  PROVE  KeptAccepted'
<1>1. /\ Inv2 /\ Inv1 /\ KeptAccepted /\ NotKept /\ Staging(w) /\ Unlinked(w) /\ KeptStep(w)
  BY KeptSteps DEF Inv3, Inv2
<1> SUFFICES ASSUME NEW t \in Claims, t \in keptOutputs'
             PROVE  outputFile'.repl[t] = NoFile /\ (~Backed(t)' => Accepted(t)')
  BY DEF KeptAccepted
<1>2. CASE t \in keptOutputs
  <2>1. outputFile.repl[t] = NoFile
    BY <1>1, <1>2 DEF KeptAccepted
  <2>2. outputFile'.repl[t] = NoFile
    <3>1. CASE Tok(w) # t \/ Pc(w) = "idle"
      BY <1>1, <2>1, <3>1, NamesKept, Polls
    <3>2. CASE Tok(w) = t /\ Pc(w) # "idle"
      <4>1. Pc(w) \notin InHand
        BY <1>1, <1>2, <3>2 DEF NotKept
      <4>2. FileStep(w)
        BY <1>1, <3>2, FileSteps
      <4>. QED
        BY <2>1, <3>2, <4>1, <4>2 DEF FileStep, Becomes, InHand, Pc, Tok
    <3>. QED
      BY <3>1, <3>2
  <2>3. ~Backed(t)' => ~Backed(t)
    BY <1>1, BackedStays, Blank
  <2>. QED
    BY <1>2, <2>2, <2>3, AcceptedStays
<1>3. CASE t \notin keptOutputs
  <2> DEFINE k == publisher[w].job
  <2>1. /\ t = Tok(w) /\ outputFile' = outputFile
        /\ \/ /\ Pc(w) = "validating" /\ publisher'[w] = Idle /\ encodeJob[k].st = "running" /\ encodeJob[k].tok = t
              /\ encodeJob'[k].st = "failed"
           \/ Pc(w) = "completing" /\ Pc(w)' = "discarding"
    BY <1>1, <1>3 DEF KeptStep, Pc, Tok
  <2>2. k \in EncodeIds /\ outputFile.repl[t] = NoFile
    BY <1>1, <2>1, Ground DEF Staging, InHand, Unlinked, Past, Pc, Tok
  <2>3. CASE Pc(w) = "validating"
    <3>1. \A j \in EncodeIds : encodeJob'[j].clean # t
      BY <2>1, <2>3, Retaining
    <3>2. \A j \in EncodeIds : encodeJob'[j].tok = t => j = k
      BY <1>1, <2>1, <2>2, <2>3, SameRow
    <3>. QED
      BY <2>1, <2>2, <2>3, <3>1, <3>2 DEF Accepted, Over, Open
  <2>4. CASE Pc(w) = "completing"
    <3>1. /\ encodeJob[k].clean = t /\ encodeJob'[k].st = "completed" /\ encodeJob'[k].pub
      BY <1>1, <2>1, <2>4, Accepting
    <3>2. \A j \in EncodeIds : t \in {encodeJob'[j].tok, encodeJob'[j].clean} => j = k
      BY <1>1, <2>2, <3>1, SameRow
    <3>. QED
      BY <2>1, <2>2, <3>1, <3>2 DEF Accepted, Over, Open
  <2>. QED
    BY <2>1, <2>3, <2>4
<1>. QED
  BY <1>2, <1>3

\* What leaves the path has another name, or goes to the staged one.
LEMMA Leaving ==
  ASSUME Inv3, NEW w \in EncodeWorkers, WorkerStep(w), NEW i \in keptOutputs,
         outputFile.final = i, outputFile'.final # i
  PROVE  Backed(i) \/ (i = Foreign /\ outputFile'.repl[Tok(w)] = Foreign /\ Tok(w) \in Claims)
<1> DEFINE s == Tok(w)
           p == publisher[w]
           r == encodeJob[p.job]
<1>1. /\ Inv1 /\ Typed /\ Staging(w) /\ Revoked(w) /\ ListerKnows(w) /\ NotKept /\ KeptAccepted
  BY DEF Inv3, Inv2, Inv1, OfWorker
<1>2. Pc(w) # "idle"
  BY <1>1, Polls
<1>3. FileStep(w) /\ s \in Claims /\ p.job \in EncodeIds /\ i # NoFile /\ NoFile \notin Claims
  BY <1>1, <1>2, FileSteps, Ground, Blank DEF Typed
<1> SUFFICES ASSUME ~Backed(i) PROVE i = Foreign /\ outputFile'.repl[s] = Foreign
  BY <1>3
<1>4. /\ i = s /\ Pc(w) \notin InHand => Over(s)
      /\ i = s => Pc(w) \notin InHand
      /\ i = s /\ r.clean = s => r.pub
  BY <1>1, <1>3 DEF NotKept, KeptAccepted, Accepted
<1>5. CASE Pc(w) \in {"staged", "exchanged"}
  <2>1. /\ outputFile.prior[s] = p.base
        /\ Pc(w) = "staged" => outputFile.final \in {p.base, Foreign}
        /\ Pc(w) = "exchanged" => outputFile.final \in {s, Foreign}
    BY <1>1, <1>5 DEF Staging, InHand, Pc, Tok
  <2>2. i # outputFile.prior[s]
    BY <1>3 DEF Backed
  <2>. QED
    BY <1>3, <1>4, <1>5, <2>1, <2>2 DEF FileStep, Becomes, InHand, Pc, Tok
<1>6. CASE Pc(w) = "rollback"
  <2>1. i = s
    BY <1>3, <1>6 DEF FileStep, Becomes, Pc, Tok
  <2>. QED
    BY <1>1, <1>3, <1>4, <1>6, <2>1 DEF Revoked, Recalled, Over, InHand
<1>7. CASE Pc(w) = "deciding"
  <2>1. i = s /\ r.clean = s /\ (r.pub => p.put)
    BY <1>3, <1>7 DEF FileStep, Becomes, Pc, Tok
  <2>. QED
    BY <1>1, <1>3, <1>4, <1>7, <2>1 DEF ListerKnows, Lister, Tok
<1>8. CASE Pc(w) \notin {"staged", "exchanged", "rollback", "deciding"}
  BY <1>3, <1>8 DEF FileStep, Becomes, Pc, Tok
<1>. QED
  BY <1>5, <1>6, <1>7, <1>8

\* A staged name that held another program's file gives it up to the path, to
\* the recovery directory or to the prior file that it is.
LEMMA Unstaging ==
  ASSUME Inv3, NEW w \in EncodeWorkers, WorkerStep(w), NEW t \in Claims, outputFile.repl[t] = Foreign
  PROVE  Backed(Foreign)' \/ outputFile'.final = Foreign \/ outputFile'.repl[t] = Foreign
<1>1. Inv2 /\ Inv1 /\ Staging(w)
  BY DEF Inv3, Inv2
<1>2. Foreign \notin Claims /\ Foreign # NoFile /\ Foreign \in Inodes
  BY <1>1, Ground, Blank
<1>3. CASE Tok(w) # t \/ Pc(w) = "idle"
  BY <1>1, <1>3, NamesKept, Polls
<1>4. CASE Tok(w) = t /\ Pc(w) # "idle"
  <2>1. FileStep(w)
    BY <1>1, <1>4, FileSteps
  <2>2. /\ Pc(w) = "exchanged" => outputFile.prior[t] = publisher[w].base
        /\ Pc(w) \notin {"fenced", "staged"}
    BY <1>1, <1>2, <1>4 DEF Staging, InHand, Pc, Tok
  <2>3. outputFile.prior[t] = Foreign => Backed(Foreign)'
    <3>1. outputFile.prior[t] = Foreign => Backed(Foreign)
      BY DEF Backed
    <3>. QED
      BY <1>1, <1>2, <3>1, BackedStays
  <2>4. Foreign \in outputFile'.aside => Backed(Foreign)'
    BY DEF Backed
  <2>. QED
    BY <1>2, <1>4, <2>1, <2>2, <2>3, <2>4 DEF FileStep, Becomes, LinkSafe, Pc, Tok
<1>. QED
  BY <1>3, <1>4

LEMMA RetainedStays ==
  ASSUME Inv3, NEW w \in EncodeWorkers, WorkerStep(w), NEW i \in Claims \cap keptOutputs, ~Backed(i), Retained(i)
  PROVE  Retained(i)'
<1>1. /\ Inv1 /\ NotKept /\ KeptAccepted
      /\ \A u \in EncodeWorkers \ {w} : Tok(u)' = Tok(u)
  BY Comes DEF Inv3, Inv2
<1>2. /\ outputFile.part[i] = i /\ \A u \in EncodeWorkers : Tok(u) # i
      /\ \A j \in EncodeIds : encodeJob[j].clean # i
  BY DEF Retained
<1>3. outputFile'.part[i] = i
  BY <1>1, <1>2, NamesKept
<1>4. ~(i > encodeUsed.claims) /\ encodeUsed.claims \in Nat /\ i \in Nat /\ i # 0
  <2>1. i \in Nat
    BY EncodeConstants DEF Claims
  <2>. QED
    BY <1>1, <2>1, Ground DEF NotKept, Unwritten
<1>5. Tok(w)' # i
  BY <1>1, <1>2, <1>4, NewHolder
<1>6. ASSUME NEW j \in EncodeIds, encodeJob'[j].clean = i PROVE FALSE
  <2>1. encodeJob[j].st \in Open /\ encodeJob[j].tok = i
    BY <1>1, <1>2, <1>4, <1>6, RowChanges
  <2>. QED
    BY <1>1, <2>1 DEF KeptAccepted, Accepted, Over
<1>. QED
  BY <1>1, <1>2, <1>3, <1>5, <1>6 DEF Retained

LEMMA KeptHeldKept ==
  ASSUME Inv3, NEW w \in EncodeWorkers, WorkerStep(w)
  PROVE  KeptHeld'
<1>1. /\ Inv2 /\ Inv1 /\ KeptHeld /\ KeptStep(w) /\ keptOutputs \subseteq Inodes
  BY KeptSteps DEF Inv3, Inv2, Inv1, Typed
<1> SUFFICES ASSUME NEW i \in keptOutputs' PROVE Held(i)'
  BY DEF KeptHeld
<1>2. CASE i \in keptOutputs
  <2>1. CASE Backed(i)
    BY <1>1, <1>2, <2>1, BackedStays DEF Held
  <2>2. CASE ~Backed(i) /\ outputFile.final = i
    BY <1>2, <2>2, Leaving DEF Held
  <2>3. CASE ~Backed(i) /\ i \in Claims /\ Retained(i)
    BY <1>2, <2>3, RetainedStays DEF Held
  <2>4. CASE i = Foreign /\ \E t \in Claims : outputFile.repl[t] = Foreign
    BY <2>4, Unstaging DEF Held
  <2>. QED
    BY <1>1, <1>2, <2>1, <2>2, <2>3, <2>4 DEF KeptHeld, Held
<1>3. CASE i \notin keptOutputs
  <2> DEFINE k == publisher[w].job
  <2>1. /\ i = Tok(w) /\ outputFile' = outputFile
        /\ \/ /\ Pc(w) = "validating" /\ publisher'[w] = Idle /\ encodeJob[k].st = "running" /\ encodeJob[k].tok = i
              /\ outputFile.part[i] = i
           \/ Pc(w) = "completing" /\ PublicationMatches(i)
    BY <1>1, <1>3 DEF KeptStep, Pc, Tok
  <2>2. i \in Claims
    BY <1>1, <2>1, Ground
  <2>3. CASE Pc(w) = "validating"
    <3>1. Retained(i)'
      BY <2>1, <2>3, Retaining DEF Retained
    <3>. QED
      BY <2>2, <3>1 DEF Held
  <2>4. CASE Pc(w) = "completing"
    BY <2>1, <2>4 DEF Held, PublicationMatches
  <2>. QED
    BY <2>1, <2>3, <2>4
<1>. QED
  BY <1>2, <1>3

-----------------------------------------------------------------------------
(* Steps of nobody's, the initial states and the theorems.                 *)

\* Requests of the operator, and an encoder that closes, leave the files, the
\* workers and what a pending publication's row says.
LEMMA SteadyKeeps ==
  ASSUME Inv3, Inv2', UNCHANGED <<outputFile, publisher, outputLock, keptOutputs>>, KeepsUsed,
         \A k \in EncodeIds : Steady(encodeJob[k], encodeJob'[k])
  PROVE  Inv3'
<1>1. /\ Inv1 /\ Quarantined /\ DisplacedKnown /\ NotKept /\ KeptHeld /\ KeptAccepted
      /\ outputFile' = outputFile /\ publisher' = publisher /\ outputLock' = outputLock
      /\ keptOutputs' = keptOutputs /\ encodeUsed'.claims = encodeUsed.claims
  BY DEF Inv3, Inv2, KeepsUsed
<1>2. /\ \A w \in EncodeWorkers : Pc(w) # "idle" => Tok(w) \in Claims /\ publisher[w].job \in EncodeIds
      /\ 0 \notin Claims
  BY <1>1, Ground
<1>3. \A k \in EncodeIds, t \in Claims : encodeJob'[k].clean = t =>
        /\ encodeJob[k].clean = t
        /\ encodeJob'[k].pub = encodeJob[k].pub /\ encodeJob'[k].pcp = encodeJob[k].pcp
        /\ (encodeJob[k].st = "completed" => encodeJob'[k].st = "completed")
        /\ (encodeJob'[k].st \in Open => encodeJob[k].st \in Open)
  BY <1>2 DEF Steady
<1>4. ASSUME NEW t \in Claims, Over(t) PROVE Over(t)'
  BY <1>2, <1>4 DEF Over, Steady
<1>5. \A t \in Claims : (Displaced(t)' <=> Displaced(t)) /\ (Backed(t)' <=> Backed(t))
  BY <1>1 DEF Displaced, Backed
<1>6. Quarantined' /\ DisplacedKnown'
  BY <1>1, <1>3, <1>5 DEF Quarantined, DisplacedKnown
<1>7. NotKept'
  BY <1>1 DEF NotKept, Unwritten, WorksOnClaim, Pc, Tok
<1>8. KeptHeld'
  BY <1>1, <1>3 DEF KeptHeld, Held, Backed, Retained, Tok
<1>9. KeptAccepted'
  BY <1>1, <1>3, <1>4, <1>5 DEF KeptAccepted, Accepted
<1>10. ASSUME NEW w \in EncodeWorkers PROVE OfWorker(w)'
  <2>1. /\ EarlyAlone(w) /\ EarlyRow(w) /\ PreAlone(w) /\ Undisturbed(w) /\ ListerKnows(w)
        /\ PrimaryKnows(w) /\ DiscardKnows(w)
    BY DEF Inv3, OfWorker
  <2>2. \A v \in EncodeWorkers : Pc(v)' = Pc(v) /\ Tok(v)' = Tok(v) /\ (Primary(v)' <=> Primary(v))
                                 /\ (Lister(v)' <=> Lister(v)) /\ (WorksOnClaim(v)' <=> WorksOnClaim(v))
    BY <1>1 DEF Pc, Tok, Primary, Lister, WorksOnClaim
  <2>3. EarlyAlone(w)'
    <3>1. Pc(w) # "idle" /\ Over(Tok(w)) => Over(Tok(w))'
      BY <1>1, <1>2, <1>4 DEF Over, Tok
    <3>. QED
      BY <2>1, <2>2, <3>1 DEF EarlyAlone
  <2>4. EarlyRow(w)'
    <3>1. \A j \in EncodeIds : Pc(w) # "idle" /\ encodeJob'[j].tok = Tok(w) /\ encodeJob'[j].st \in Open =>
            encodeJob[j].tok = Tok(w) /\ encodeJob[j].st \in Open /\ encodeJob'[j].clean = encodeJob[j].clean
      BY <1>2 DEF Steady
    <3>. QED
      BY <2>1, <2>2, <3>1 DEF EarlyRow
  <2>5. PreAlone(w)'
    <3>1. Pc(w) \in Pre => Fenced(encodeJob'[publisher[w].job], Tok(w))
      BY <1>2, <2>1 DEF PreAlone, Pre, Fenced, Steady
    <3>. QED
      BY <1>1, <2>1, <2>2, <3>1 DEF PreAlone
  <2>6. Undisturbed(w)'
    BY <1>1, <2>1, <2>2 DEF Undisturbed, Displaced, Tok
  <2>7. ListerKnows(w)'
    <3>1. Lister(w) => publisher[w].tok \in Claims
      BY <1>2 DEF Lister, Tok
    <3>. QED
      BY <1>1, <1>3, <2>1, <2>2, <3>1 DEF ListerKnows, Displaced, Backed
  <2>8. PrimaryKnows(w)'
    <3>1. Primary(w) => Tok(w) \in Claims
      BY <1>2 DEF Primary
    <3>2. Primary(w) => Over(Tok(w))'
      BY <1>1, <1>4, <2>1, <3>1 DEF PrimaryKnows, Over, Tok
    <3>. QED
      BY <1>1, <1>3, <2>1, <2>2, <3>1, <3>2 DEF PrimaryKnows, Backed
  <2>9. DiscardKnows(w)'
    <3>1. Pc(w) \in {"returning", "discarding"} => Tok(w) \in Claims
      BY <1>2
    <3>. QED
      BY <1>1, <1>3, <2>1, <2>2, <3>1 DEF DiscardKnows, Backed
  <2>. QED
    BY <2>3, <2>4, <2>5, <2>6, <2>7, <2>8, <2>9 DEF OfWorker
<1>. QED
  BY <1>6, <1>7, <1>8, <1>9, <1>10 DEF Inv3

LEMMA ForeignKeeps ==
  ASSUME Inv3, Inv2', ForeignOutput
  PROVE  Inv3'
<1>1. /\ Inv1 /\ Quarantined /\ DisplacedKnown /\ NotKept /\ KeptHeld /\ KeptAccepted
      /\ encodeJob' = encodeJob /\ publisher' = publisher /\ outputLock' = outputLock
      /\ keptOutputs' = (keptOutputs \ {outputFile.final}) \cup {Foreign}
  BY DEF Inv3, Inv2, ForeignOutput
<1>2. encodeUsed'.claims = encodeUsed.claims /\ encodeUsed' \in Used
  <2>1. encodeUsed \in Used
    BY <1>1 DEF Inv1, Typed
  <2>. QED
    BY <2>1 DEF ForeignOutput, Used, Inv2, Inv1, Typed
<1>3. /\ outputFile'.final = Foreign /\ outputFile'.aside = outputFile.aside
      /\ outputFile'.part = outputFile.part /\ outputFile'.prior = outputFile.prior
      /\ outputFile'.repl = outputFile.repl /\ outputFile'.quar = outputFile.quar
  BY <1>1, Ground DEF ForeignOutput, Outputs
<1>4. Foreign \notin Claims /\ \A w \in EncodeWorkers : Pc(w) # "idle" => Tok(w) \in Claims
  BY <1>1, Ground
<1>5. Quarantined' /\ DisplacedKnown' /\ NotKept' /\ KeptAccepted'
  <2>1. Quarantined' /\ DisplacedKnown'
    BY <1>1, <1>3 DEF Quarantined, DisplacedKnown, Displaced, Backed
  <2>2. NotKept'
    BY <1>1, <1>2, <1>4 DEF NotKept, Unwritten, WorksOnClaim, Pc, Tok
  <2>3. KeptAccepted'
    BY <1>1, <1>3, <1>4 DEF KeptAccepted, Accepted, Over, Backed
  <2>. QED
    BY <2>1, <2>2, <2>3
<1>6. KeptHeld'
  <2> SUFFICES ASSUME NEW i \in keptOutputs' PROVE Held(i)'
    BY DEF KeptHeld
  <2>1. i = Foreign \/ (Held(i) /\ outputFile.final # i)
    BY <1>1 DEF KeptHeld
  <2>. QED
    BY <1>1, <1>3, <2>1 DEF Held, Backed, Retained, Tok
<1>7. ASSUME NEW w \in EncodeWorkers PROVE OfWorker(w)'
  <2>1. /\ EarlyAlone(w) /\ EarlyRow(w) /\ PreAlone(w) /\ Undisturbed(w) /\ ListerKnows(w)
        /\ PrimaryKnows(w) /\ DiscardKnows(w)
    BY DEF Inv3, OfWorker
  <2>2. EarlyAlone(w)' /\ EarlyRow(w)' /\ PreAlone(w)' /\ Undisturbed(w)'
    BY <1>1, <1>3, <2>1
       DEF EarlyAlone, EarlyRow, PreAlone, Undisturbed, Over, Displaced, WorksOnClaim, Pc, Tok
  <2>3. ListerKnows(w)'
    <3>1. Lister(w) => publisher[w].tok \in Claims
      BY <1>4 DEF Lister, Tok
    <3>. QED
      BY <1>1, <1>3, <1>4, <2>1, <3>1 DEF ListerKnows, Lister, Displaced, Backed, Pc, Tok
  <2>4. PrimaryKnows(w)'
    BY <1>1, <1>3, <2>1 DEF PrimaryKnows, Primary, Over, Backed, Pc, Tok
  <2>5. DiscardKnows(w)'
    <3>1. Pc(w) \in {"returning", "discarding"} => Tok(w) # Foreign
      BY <1>4
    <3>. QED
      BY <1>1, <1>3, <2>1, <3>1 DEF DiscardKnows, Primary, Backed, Pc, Tok
  <2>. QED
    BY <2>2, <2>3, <2>4, <2>5 DEF OfWorker
<1>. QED
  BY <1>5, <1>6, <1>7 DEF Inv3

LEMMA WorkersKeepOutputs ==
  ASSUME Inv3, Inv2', NEW w \in EncodeWorkers, WorkerStep(w)
  PROVE  Inv3'
<1>1. Inv1'
  BY DEF Inv2
<1>2. Quarantined' /\ DisplacedKnown' /\ NotKept' /\ KeptHeld' /\ KeptAccepted'
  BY <1>1, QuarantinedKept, DisplacedKept, NotKeptKept, KeptHeldKept, KeptAcceptedKept
<1>3. ASSUME NEW v \in EncodeWorkers PROVE OfWorker(v)'
  <2>1. EarlyAlone(v)' /\ EarlyRow(v)' /\ Undisturbed(v)'
    BY <1>1, EarlyAloneKept, EarlyRowKept, UndisturbedKept
  <2>2. PreAlone(v)' /\ ListerKnows(v)' /\ PrimaryKnows(v)' /\ DiscardKnows(v)'
    <3>1. CASE v = w
      BY <3>1, PreAloneOfWorker, ListerKnowsOfWorker, PrimaryKnowsOfWorker, DiscardKnowsOfWorker
    <3>2. CASE v # w
      BY <3>2, PreAloneOfOthers, ListerKnowsOfOthers, PrimaryKnowsOfOthers, DiscardKnowsOfOthers
    <3>. QED
      BY <3>1, <3>2
  <2>. QED
    BY <2>1, <2>2 DEF OfWorker
<1>. QED
  BY <1>2, <1>3 DEF Inv3

LEMMA Inv3Init == EncodeInit => Inv3
<1> SUFFICES ASSUME EncodeInit PROVE Inv3
  OBVIOUS
<1>1. Inv2
  BY Inv2Init
<1>2. /\ \A w \in EncodeWorkers : publisher[w] = Idle
      /\ \A t \in Claims : /\ outputFile.part[t] = NoFile /\ outputFile.prior[t] = NoFile
                           /\ outputFile.repl[t] = NoFile /\ outputFile.quar[t] = NoFile
      /\ keptOutputs \subseteq {Original}
      /\ Original \in keptOutputs => outputFile.final = Original
  BY DEF EncodeInit
<1>3. Original \notin Claims
  BY EncodeConstants DEF Claims, Original
<1>4. \A w \in EncodeWorkers : Pc(w) = "idle" /\ ~WorksOnClaim(w) /\ ~Lister(w) /\ ~Primary(w)
  BY <1>2 DEF Idle, Pc, WorksOnClaim, Executing, Early, Pre, Lister, Primary
<1>5. Quarantined /\ DisplacedKnown /\ NotKept /\ KeptHeld /\ KeptAccepted
  BY <1>2, <1>3 DEF Quarantined, DisplacedKnown, Displaced, NotKept, KeptHeld, Held, KeptAccepted
<1>6. \A w \in EncodeWorkers : OfWorker(w)
  BY <1>4 DEF OfWorker, EarlyAlone, EarlyRow, PreAlone, Pre, Undisturbed, ListerKnows, PrimaryKnows, DiscardKnows
<1>. QED
  BY <1>1, <1>5, <1>6 DEF Inv3

\* What a worker remembers of the directory and of its row, whatever other
\* workers do meanwhile, is enough for each of its next steps.
THEOREM EncodeOutputsAreHeld == EncodeSpec => []Inv3
<1>1. Inv3 /\ Inv2' /\ [EncodeNext]_encodeVars => Inv3'
  <2> SUFFICES ASSUME Inv3, Inv2', [EncodeNext]_encodeVars PROVE Inv3'
    OBVIOUS
  <2>1. Inv1 /\ \A k \in EncodeIds : Steady(encodeJob[k], encodeJob[k])
    <3>1. Inv1 /\ \A k \in EncodeIds : encodeJob[k] \in EncodeRows
      BY Ground DEF Inv3, Inv2
    <3>. QED
      BY <3>1, SteadyRows
  <2>2. CASE UNCHANGED encodeVars \/ \E t \in Claims : EncoderCloses(t)
    <3>1. UNCHANGED <<encodeJob, outputFile, publisher, outputLock, keptOutputs, encodeUsed>>
      BY <2>2 DEF encodeVars, EncoderCloses
    <3>. QED
      BY <2>1, <3>1, SteadyKeeps DEF KeepsUsed
  <2>3. CASE EncodeNext
    <3>1. Request \/ (\E w \in EncodeWorkers : WorkerStep(w)) \/ ForeignOutput \/ \E t \in Claims : EncoderCloses(t)
      BY <2>3 DEF EncodeNext, Request, WorkerStep
    <3>2. Request => Inv3'
      BY <2>1, RequestsKeepFiles, SteadyKeeps
    <3>. QED
      BY <2>2, <3>1, <3>2, WorkersKeepOutputs, ForeignKeeps
  <2>. QED
    BY <2>2, <2>3
<1>. QED
  BY <1>1, Inv3Init, EncodeFilesAreKnown, PTL DEF EncodeSpec

\* Publication, rollback and recovery never remove the last name of a file
\* that was the accepted output of the path, of one another program put
\* there or of a retained artifact (publishReplacementAtMutationBoundary,
\* rollbackPublished, reconcilePendingPublications), for any number of jobs,
\* workers, claims, foreign files, crashes and lost leases.
THEOREM OutputsNeverLost == EncodeSpec => []OutputsSurvive
<1>1. Inv3 => OutputsSurvive
  BY DEF Inv3, KeptHeld, Held, Backed, Retained, OutputsSurvive, Linked
<1>. QED
  BY <1>1, EncodeOutputsAreHeld, PTL
=============================================================================
