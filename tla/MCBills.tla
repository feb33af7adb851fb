------------------------------ MODULE MCBills ------------------------------
(***************************************************************************)
(* Bills of two payees: three messages about one payee, two of them about  *)
(* the same invoice, the last of these a reminder with the document again; *)
(* the other invoice sent again without a date; and a newer bill of        *)
(* another payee.                                                          *)
(***************************************************************************)
EXTENDS Bills, TLC

CONSTANTS energy, phone, e1, e2, p1
CONSTANTS first, second, reminder, other, undated

MCPayee == {energy, phone}
MCPath == {e1, e2, p1}
MCPayeeOf == e1 :> energy @@ e2 :> energy @@ p1 :> phone
MCMessage == {first, second, reminder, other, undated}
MCPathOf == first :> e1 @@ second :> e2 @@ reminder :> e1 @@ other :> p1
            @@ undated :> e2
MCDateOf == first :> 1 @@ second :> 2 @@ reminder :> 3 @@ other :> 4
            @@ undated :> NoDate
MCHasAmount == {first, second, reminder}
MCHasBlob == {first, reminder}

\* The workers are told apart only by being different.
Symmetry == Permutations(Worker)
=============================================================================
