----------------------------- MODULE MCImapScan -----------------------------
(***************************************************************************)
(* UIDs in chunks of two; one extractor wants all of them, the other every *)
(* second one.                                                             *)
(***************************************************************************)
EXTENDS ImapScan, TLC

CONSTANTS ics, klm

MCWants == ics :> Uid @@ klm :> {u \in Uid : u % 2 = 0}
=============================================================================
