---------------------------- MODULE MCDavFiling ----------------------------
(***************************************************************************)
(* DavFiling with two workers, an event in two dated takes in the default  *)
(* calendar and an undated one in the inbox.                               *)
(***************************************************************************)
EXTENDS DavFiling, TLC

CONSTANTS flight, party, default, inbox
CONSTANTS old, new, plain

MCUid == {flight, party}
MCUrl == {default, inbox}
MCEvent == {old, new, plain}
MCUidOf == old :> flight @@ new :> flight @@ plain :> party
MCUrlOf == old :> default @@ new :> default @@ plain :> inbox
MCDateOf == old :> 1 @@ new :> 2 @@ plain :> NoDate

\* The workers are told apart only by being different.
Symmetry == Permutations(Worker)
=============================================================================
