--------------------------- MODULE MCViews_proofs ---------------------------
(***************************************************************************)
(* A behaviour of MCViews is one of a single view: what is proved of a     *)
(* view, for any bounds and scenarios, holds of it there.                  *)
(***************************************************************************)
EXTENDS MCViews, TLAPS

(* The value tip shows the variable of the word it stands at, is under the *)
(* pointer of a user who waits, and leaves no object in GDB.               *)
THEOREM TipIsShown == Spec => []TipShown
<1> DEFINE In == part = "tip"
<1>1. Init /\ In => T!Init
  BY DEF Init
<1>2. In /\ [Next]_vars => [T!Next]_T!vars
  BY DEF Next, vars, T!vars
<1>3. In /\ [Next]_vars => In'
  BY DEF Next, vars
<1>4. ~In /\ [Next]_vars => ~In'
  BY DEF Next, vars
<1>5. T!TipShown /\ T!TipUnderPointer /\ T!ObjectsOwned => TipShown
  BY DEF TipShown, Tip
<1>6. ~In => TipShown
  BY DEF TipShown, Tip
<1>7. T!Spec => []T!TipShown /\ []T!TipUnderPointer /\ []T!ObjectsOwned
  BY T!TipIsShown, T!TipStaysUnderPointer, T!TipOwnsObjects
<1> HIDE DEF In
<1>8. In /\ Init /\ [][Next]_vars => []In
  BY <1>3, PTL
<1>9. ~In /\ Init /\ [][Next]_vars => []~In
  BY <1>4, PTL
<1>10. In /\ Init /\ [][Next]_vars => T!Spec
  BY <1>1, <1>2, <1>8, PTL DEF T!Spec
<1> QED
  BY <1>5, <1>6, <1>7, <1>8, <1>9, <1>10, PTL DEF Spec

(* The views of registers and memory show what the stopped program has, in *)
(* scenarios that do not hide or edit while another frame is selected.     *)
THEOREM DataIsShown == ASSUME D!FramesAlone PROVE Spec => []DataShown
<1> DEFINE In == part = "data"
<1>1. D!DataViewsAssumption
  BY MCViewsAssumption
<1>2. Init /\ In => D!Init
  BY DEF Init
<1>3. In /\ [Next]_vars => [D!Next]_D!vars
  BY DEF Next, vars, D!vars
<1>4. In /\ [Next]_vars => In'
  BY DEF Next, vars
<1>5. ~In /\ [Next]_vars => ~In'
  BY DEF Next, vars
<1>6. D!DataShown => DataShown
  BY DEF DataShown, Data
<1>7. ~In => DataShown
  BY DEF DataShown, Data
<1>8. D!Spec => []D!DataShown
  BY <1>1, D!DataIsShown
<1> HIDE DEF In
<1>9. In /\ Init /\ [][Next]_vars => []In
  BY <1>4, PTL
<1>10. ~In /\ Init /\ [][Next]_vars => []~In
  BY <1>5, PTL
<1>11. In /\ Init /\ [][Next]_vars => D!Spec
  BY <1>2, <1>3, <1>9, PTL DEF D!Spec
<1> QED
  BY <1>6, <1>7, <1>8, <1>9, <1>10, <1>11, PTL DEF Spec
=============================================================================
