---------------------------- MODULE ServicesProofs ----------------------------
(***************************************************************************)
(* The services together, as the runs check them.  They share no variable: *)
(* a behaviour of all of them is, for each, a behaviour of its own that    *)
(* stutters while another one is at work.                                  *)
(***************************************************************************)
EXTENDS MCServices, EncodeProofs, CatalogProofs, IntakeProofs, OperationsProofs

serviceVars == <<subject, encodeVars, noticeVars, intakeVars, inspectionVars, ownershipVars,
                 reviewVars, deployVars, cutoverVars>>

LEMMA EachStarts ==
  ServicesInit => /\ EncodeInit /\ NotifyInit /\ IntakeInit /\ InspectionInit
                  /\ OwnershipInit /\ ReviewInit /\ DeployInit /\ CutoverInit
BY DEF ServicesInit

\* A step of one service is a stutter of the others.
LEMMA EachSteps ==
  [ServicesNext]_serviceVars =>
    /\ [EncodeNext]_encodeVars /\ [NotifyNext]_noticeVars /\ [IntakeNext]_intakeVars
    /\ [InspectionNext]_inspectionVars /\ [OwnershipNext]_ownershipVars
    /\ [ReviewNext]_reviewVars /\ [DeployNext]_deployVars /\ [CutoverNext]_cutoverVars
BY DEF ServicesNext, serviceVars

LEMMA EachBehaves ==
  ServicesSpec => /\ EncodeSpec /\ NotifySpec /\ IntakeSpec /\ InspectionSpec
                  /\ OwnershipSpec /\ ReviewSpec /\ DeploySpec /\ CutoverSpec
BY EachStarts, EachSteps, PTL DEF ServicesSpec, serviceVars, EncodeSpec, NotifySpec, IntakeSpec,
   InspectionSpec, OwnershipSpec, ReviewSpec, DeploySpec, CutoverSpec

\* Whatever service runs, its rows, files and processes hold what they may:
\* the tables' unique index and checks of an Encode Job, the attempts of a
\* delivery, the registration of an image, the commits of a deployment, the
\* tokens of a publication, and the rest, for every value of the constants.
THEOREM ServicesTypeHolds == ServicesSpec => []ServicesTypeOK
<1>1. /\ EncodeTypeOK /\ EncodeRowsLegal /\ NotifyTypeOK /\ IntakeTypeOK /\ InspectionTypeOK
      /\ OwnershipTypeOK /\ ReviewTypeOK /\ DeployTypeOK /\ CutoverTypeOK
      => ServicesTypeOK
  BY DEF ServicesTypeOK
<1> QED BY <1>1, EachBehaves, RowsStayLegal, NotifyTypeHolds, IntakeTypeHolds, InspectionTypeHolds,
  OwnershipTypeHolds, ReviewTypeHolds, DeployTypeHolds, CutoverTypeHolds, PTL
==============================================================================
