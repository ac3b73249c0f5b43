--------------------------- MODULE BaselineProofs ---------------------------
(***************************************************************************)
(* The promise of Baseline.tla is consistent: its steps alone, whatever    *)
(* the paths, the contents and the initial files, keep a finished report   *)
(* exact.                                                                  *)
(***************************************************************************)
EXTENDS Baseline, TLAPS

(* The inductive invariant holds initially.                                *)
LEMMA InitIInv == Init => IInv
<1> SUFFICES ASSUME Init
             PROVE  IInv
  OBVIOUS
<1>1. TypeOK
  BY BeginAssumption DEF Init, TypeOK, NoReport
<1>2. Recorded = {}
  BY DEF Init, Recorded
<1>3. PermittedIsRecorded /\ RestIsUntouched /\ OriginalsAreFirst
  BY <1>2 DEF Init, PermittedIsRecorded, RestIsUntouched, OriginalsAreFirst
<1>4. FinishedIsExact
  BY DEF Init, FinishedIsExact, NoReport
<1> QED BY <1>1, <1>3, <1>4 DEF IInv

(* A published report is a pair of a state and a set of changes.           *)
LEMMA ChangesTyped ==
  ASSUME TypeOK
  PROVE  Changes \subseteq Change
BY DEF TypeOK, Changes, Change, Recorded

(* Every step keeps the inductive invariant.                               *)
LEMMA StepIInv == IInv /\ [Next]_vars => IInv'
<1> SUFFICES ASSUME IInv, [Next]_vars
             PROVE  IInv'
  OBVIOUS
<1> USE BeginAssumption, NotRecordedAssumption
<1>1. ASSUME NEW p \in Tracked, Record(p)
      PROVE  IInv'
  <2>1. TypeOK'
    BY <1>1 DEF Record, IInv, TypeOK
  <2>2. PermittedIsRecorded' /\ RestIsUntouched' /\ FinishedIsExact'
    <3>1. PermittedIsRecorded'
      BY <1>1 DEF Record, IInv, TypeOK, PermittedIsRecorded, Recorded
    <3>2. RestIsUntouched' /\ FinishedIsExact'
      BY <1>1 DEF Record, IInv, RestIsUntouched, FinishedIsExact, NetChanges
    <3> QED BY <3>1, <3>2
  <2>3. OriginalsAreFirst'
    <3>1. ~degraded' => ~degraded /\ file[p] = Begin[p]
      BY <1>1 DEF Record, IInv, PermittedIsRecorded, RestIsUntouched, Recorded
    <3>2. \A q \in Tracked : q # p => original'[q] = original[q]
      BY <1>1 DEF Record, IInv, TypeOK
    <3>3. original'[p] = file[p]
      BY <1>1 DEF Record, IInv, TypeOK
    <3> QED BY <3>1, <3>2, <3>3 DEF IInv, OriginalsAreFirst, Recorded
  <2> QED BY <2>1, <2>2, <2>3 DEF IInv
<1>2. CASE LoseCoverage
  BY <1>2 DEF LoseCoverage, IInv, TypeOK, PermittedIsRecorded, RestIsUntouched,
     OriginalsAreFirst, FinishedIsExact, NetChanges, Recorded
<1>3. ASSUME NEW S \in SUBSET Tracked, Permit(S)
      PROVE  IInv'
  BY <1>3 DEF Permit, IInv, TypeOK, PermittedIsRecorded, RestIsUntouched,
     OriginalsAreFirst, FinishedIsExact, NetChanges, Recorded
<1>4. ASSUME NEW p \in Tracked, NEW c \in Contents, Write(p, c)
      PROVE  IInv'
  <2>1. TypeOK' /\ PermittedIsRecorded' /\ OriginalsAreFirst'
    BY <1>4 DEF Write, IInv, TypeOK, PermittedIsRecorded, OriginalsAreFirst,
       Recorded
  <2>2. RestIsUntouched'
    BY <1>4 DEF Write, IInv, TypeOK, RestIsUntouched
  <2>3. FinishedIsExact'
    BY <1>4 DEF Write, IInv, FinishedIsExact
  <2> QED BY <2>1, <2>2, <2>3 DEF IInv
<1>5. CASE End
  BY <1>5 DEF End, IInv, TypeOK, PermittedIsRecorded, RestIsUntouched,
     OriginalsAreFirst, FinishedIsExact, NetChanges, Recorded
<1>6. CASE PublishFinished
  <2>1. TypeOK'
    BY <1>6, ChangesTyped DEF PublishFinished, IInv, TypeOK
  <2>2. PermittedIsRecorded' /\ RestIsUntouched' /\ OriginalsAreFirst'
    BY <1>6 DEF PublishFinished, IInv, PermittedIsRecorded, RestIsUntouched,
       OriginalsAreFirst, Recorded
  <2>3. \A p \in Recorded : original[p] = Begin[p]
    BY <1>6 DEF PublishFinished, IInv, OriginalsAreFirst
  <2>4. \A p \in Tracked \ Recorded : Begin[p] = file[p]
    BY <1>6 DEF PublishFinished, IInv, PermittedIsRecorded, RestIsUntouched
  <2>5. Changes = NetChanges
    <3>1. {q \in Recorded : original[q] # file[q]}
            = {q \in Tracked : Begin[q] # file[q]}
      BY <2>3, <2>4 DEF Recorded
    <3>2. \A p \in {q \in Recorded : original[q] # file[q]} : original[p] = Begin[p]
      BY <2>3
    <3> QED BY <3>1, <3>2 DEF Changes, NetChanges
  <2>6. FinishedIsExact'
    BY <1>6, <2>5 DEF PublishFinished, FinishedIsExact, NetChanges
  <2> QED BY <2>1, <2>2, <2>6 DEF IInv
<1>7. CASE PublishPartial
  BY <1>7 DEF PublishPartial, IInv, TypeOK, PermittedIsRecorded,
     RestIsUntouched, OriginalsAreFirst, FinishedIsExact, NetChanges, Recorded
<1>8. CASE UNCHANGED vars
  BY <1>8 DEF vars, IInv, TypeOK, PermittedIsRecorded, RestIsUntouched,
     OriginalsAreFirst, FinishedIsExact, NetChanges, Recorded
<1> QED
  BY <1>1, <1>2, <1>3, <1>4, <1>5, <1>6, <1>7, <1>8 DEF Next

(* The inductive invariant holds always.                                   *)
THEOREM AlwaysIInv == Spec => []IInv
BY InitIInv, StepIInv, PTL DEF Spec

(* A report that says "finished" is about a tree that has ended and lists  *)
(* exactly its net changes.                                                *)
THEOREM PromiseIsExact == Spec => []FinishedIsExact
<1>1. IInv => FinishedIsExact
  BY DEF IInv
<1> QED BY AlwaysIInv, <1>1, PTL
=============================================================================
