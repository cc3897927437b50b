-------------------------- MODULE RecoveredArchive --------------------------
(***************************************************************************)
(* What checkpointed DVD recovery promises to whoever reads an archive:    *)
(* the source map advances one sector at a time and never takes a          *)
(* recovered sector back, and evidence that is offered at all is offered   *)
(* together with exactly the image bytes the map describes.                *)
(* RecoveryCheckpoint implements this with a journal, a manifest chain, a  *)
(* pointer and a database projection.                                      *)
(***************************************************************************)
EXTENDS Naturals

CONSTANTS
  Sectors,  \* logical blocks of the source disc that were left unrecovered
  Units     \* number of naturally aligned storage units one sector spans

Classes  == {"skipped", "failed", "recovered"}
Maps     == [Sectors -> Classes]
Outcomes == {"recovered", "failed"}

(* The source map after one read of sector s.                              *)
MapAfter(m, s, outcome) == [m EXCEPT ![s] = outcome]

(* The image bytes a source map stands for.                                *)
ImageOf(m) == [s \in Sectors |-> [u \in 1..Units |-> m[s] = "recovered"]]

VARIABLES
  map,   \* the committed source map
  view   \* what a reader is offered: [ok, image], meaningless unless ok

Blank == [s \in Sectors |-> [u \in 1..Units |-> FALSE]]

Views(m) == {[ok |-> FALSE, image |-> Blank], [ok |-> TRUE, image |-> ImageOf(m)]}

Init == /\ map \in [Sectors -> {"skipped", "failed"}]
        /\ view \in Views(map)

(* One source observation becomes evidence.                                *)
Advance == \E s \in Sectors, outcome \in Outcomes :
             /\ map[s] # "recovered"
             /\ map' = MapAfter(map, s, outcome)
             /\ view' \in Views(map')

(* Evidence may be withdrawn while it is being written or repaired, and    *)
(* offered again, but never changed by that.                               *)
Occlude == /\ view' \in Views(map)
           /\ UNCHANGED map

Next == Advance \/ Occlude

Spec == Init /\ [][Next]_<<map, view>>
=============================================================================
