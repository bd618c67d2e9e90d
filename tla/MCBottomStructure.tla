------------------------- MODULE MCBottomStructure -------------------------
(* Four elements on two coordinates.  Coordinate 1 ranks them in their own  *)
(* order (a renaming of the elements gives any other order), coordinate 2   *)
(* in every order, and two further functions make elements collide.         *)
EXTENDS BottomStructure

MCElem == 1..4
MCInjective == {f \in [MCElem -> 1..4] : \A e, g \in MCElem : f[e] = f[g] => e = g}
MCColliding == {[e \in MCElem |-> (e + 1) \div 2], [e \in MCElem |-> IF e = 4 THEN 1 ELSE e]}
MCRankFunctions ==
    {<<[e \in MCElem |-> e], f>> : f \in MCInjective \cup MCColliding}
============================================================================
