----------------------------- MODULE MCAdoption -----------------------------
(* Two packages of one source file each.  The second compiles against the    *)
(* first and declares the one test, until an edit of its file deletes it.    *)
EXTENDS Adoption, TLC

CONSTANTS a, b, ma, mb, t

MCHome == (ma :> a @@ mb :> b)
MCPackageOf == [f \in Files |-> f]
MCRoots == (a :> {a} @@ b :> {a, b})
MCDeclares == [f \in Files |-> [v \in Texts |-> IF f = b /\ v = 0 THEN {t} ELSE {}]]
MCFirst == [f \in Files |-> 0]
=============================================================================
