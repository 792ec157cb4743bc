----------------------------- MODULE MonitorProofs -----------------------------
(***************************************************************************)
(* What the abstract monitor promises a reader of the log.  Its            *)
(* implementations inherit it through their refinement theorems.           *)
(***************************************************************************)
EXTENDS Monitor, TLAPS

TypeOK ==
  /\ status \in [Slots -> {"idle", "underway", "torn", "late"}]
  /\ actor \in [Slots -> Actors \cup {None}]
  /\ result \in [Slots -> Outcomes]
  /\ report \in [Slots -> Reports \cup {None}]

(* Nothing is reported before it is finished or torn.                      *)
IInv ==
  /\ TypeOK
  /\ \A s \in Slots : status[s] = "underway" => report[s] = None
  /\ ReportsAreTrue

LEMMA NextKeepsIInv ==
  ASSUME IInv, NEW s \in Slots,
         \/ Occur(s) \/ Proceed(s) \/ Tear(s) \/ Finish(s)
         \/ ReportTorn(s) \/ FinishTorn(s)
  PROVE  IInv'
<1>. USE DEF IInv, TypeOK, ReportsAreTrue, IsAbout
<1>1. CASE Occur(s)
  BY <1>1 DEF Occur
<1>2. CASE Proceed(s)
  BY <1>2 DEF Proceed
<1>3. CASE Tear(s)
  BY <1>3 DEF Tear
<1>4. CASE Finish(s)
  BY <1>4 DEF Finish
<1>5. CASE ReportTorn(s)
  BY <1>5 DEF ReportTorn
<1>6. CASE FinishTorn(s)
  BY <1>6 DEF FinishTorn
<1>. QED
  BY <1>1, <1>2, <1>3, <1>4, <1>5, <1>6

(* Every line names who caused its event and shows what came of it.        *)
THEOREM ReportsTrue == Spec => []ReportsAreTrue
<1>1. Init => IInv
  BY DEF Init, IInv, TypeOK, ReportsAreTrue
<1>2. IInv /\ [Next]_vars => IInv'
  <2>1. ASSUME IInv, UNCHANGED vars
        PROVE  IInv'
    BY <2>1 DEF vars, IInv, TypeOK, ReportsAreTrue, IsAbout
  <2>. QED
    BY <2>1, NextKeepsIInv DEF Next
<1>3. IInv => ReportsAreTrue
  BY DEF IInv
<1>. QED
  BY <1>1, <1>2, <1>3, PTL DEF Spec
=============================================================================
