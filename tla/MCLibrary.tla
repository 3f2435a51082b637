----------------------------- MODULE MCLibrary -----------------------------
(* Instances of LxcRestore and LibraryItem for TLC.  The two share no        *)
(* variable: a deployment reads an item's row and file, which no upload      *)
(* writes once the item is ready.  So each is explored while the other       *)
(* rests in its initial state.                                               *)
EXTENDS MCLxcRestore, LibraryItem

CONSTANTS i1, i2, u1, u2, d1, r1, r2, f1, f2

(* Both items are made from one archive and pushed into one repository,      *)
(* under one tag or two.                                                     *)
TypesOfEach == i1 :> {"container", "general"} @@ i2 :> {"container", "llm"}
OwnFile == i1 :> f1 @@ i2 :> f2
OneArchive == [i \in Item |-> "archive"]
OneRepo == [r \in Image |-> "repository"]
OneOrTwo == i1 :> {r1} @@ i2 :> {r1, r2}

(* Both uploads may be for i2; the deletion is of i1.                        *)
OneOrBoth == u1 :> {i1, i2} @@ u2 :> {i2}
OnlyFirst == d1 :> i1

LibraryInit == Init /\ ItemInit

(* Bounds: a second mishap only if one of the two is a failure of the        *)
(* deletion and i2 is a container; a container i2 only beside a container i1.*)
FewMishaps == mishaps' < 2 \/ (tries'[d1] > 0 /\ itemType[i2] = "container")
ImagesInPairs == itemType'[i1] = "general" => itemType'[i2] # "container"

LibraryNext ==
    \/ ItemInit /\ Next /\ UNCHANGED itemVars
    \/ Init /\ ItemNext /\ UNCHANGED vars /\ FewMishaps /\ ImagesInPairs

LibrarySpec ==
    /\ LibraryInit
    /\ [][LibraryNext]_<<vars, itemVars>>
    /\ Fairness
=============================================================================
