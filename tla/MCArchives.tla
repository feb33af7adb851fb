----------------------------- MODULE MCArchives -----------------------------
(* Values for what is filed into the archives: Worker and Holder are sets  *)
(* of workers told apart only by being different.                          *)
EXTENDS Archives, TLC

Workers == Permutations(Worker)
Symmetry == Workers \cup Permutations(Holder)

(* Three editions of a boarding pass, two of them with the same extension, *)
(* and as many workers, so that each edition can be half-way.              *)
MCTicketDate == "first" :> 1 @@ "second" :> 2 @@ "third" :> 3
MCExtOf == "first" :> "pdf" @@ "second" :> "pkpass" @@ "third" :> "pdf"
MCTicketSetup == [remote : BOOLEAN, faulty : BOOLEAN]

(* Three receipts of one order, of one year and the next and without one   *)
(* of its own, and one that names no order.                                *)
MCOrderOf == "r1" :> "o" @@ "r2" :> "o" @@ "r3" :> "o" @@ "r4" :> None
MCYearOf == "r1" :> 1 @@ "r2" :> 2 @@ "r3" :> None @@ "r4" :> 1
MCReceiptDate == "r1" :> 1 @@ "r2" :> 2 @@ "r3" :> 3 @@ "r4" :> 4
MCHow == [sink : {"dir", "webdav", "forward"}, faulty : BOOLEAN]

(* A booking of legs l1 and l2; then both are exchanged for l3; then a     *)
(* reminder about l2 alone that crossed with the change.                   *)
MCLegsOf == "m1" :> {"l1", "l2"} @@ "m2" :> {"l3"} @@ "m3" :> {"l2"}
MCBookingDate == "m1" :> 1 @@ "m2" :> 2 @@ "m3" :> 3
MCBookingSetup ==
    {[crew |-> {"v1"}, faulty |-> FALSE], [crew |-> {"v1"}, faulty |-> TRUE],
     [crew |-> {"v1", "v2"}, faulty |-> FALSE]}

(* Three old names, sorted among the names of two legs, of up to three     *)
(* copies of one leg, a hotel and a file that does not parse.              *)
MCRank == "o1" :> 1 @@ "l1" :> 2 @@ "o2" :> 3 @@ "l2" :> 4 @@ "o3" :> 5
MCDisk ==
    {[n \in {"o1", "l1", "o2", "l2", "o3"} |->
         CASE n = "o1" -> a [] n = "l1" -> b [] n = "o2" -> c
           [] n = "l2" -> <<"l2", 1>> [] n = "o3" -> d] :
       a \in {None, <<"l1", 1>>, <<"l1", None>>}, b \in {None, <<"l1", 2>>},
       c \in {<<"l1", 2>>, <<None, 1>>}, d \in {<<"l1", 1>>, Corrupt}}
MCCompany ==
    {[crew |-> {"x1"}, watched |-> FALSE], [crew |-> {"x1"}, watched |-> TRUE],
     [crew |-> {"x1", "x2"}, watched |-> FALSE]}

(* A parcel that is out for delivery, delivered, and out again, and among  *)
(* the mails of that a carrier poll, a mail without a date, and one from   *)
(* the day of the delivery that gives its time but no status.              *)
MCMail == {"out", "done", "quiet", "again", "poll", "lost"}
MCDateOf == "out" :> 1 @@ "done" :> 2 @@ "quiet" :> 2 @@ "again" :> 3
           @@ "poll" :> None @@ "lost" :> None
MCStatusOf == "out" :> "OutForDelivery" @@ "done" :> "Delivered" @@ "quiet" :> None
             @@ "again" :> "OutForDelivery" @@ "poll" :> "Delivered"
             @@ "lost" :> "OnItsWay"
MCTimeOf == [m \in MCMail |-> IF m \in {"done", "quiet"} THEN 1 ELSE None]
MCLegMail == {<<"l1", 1>>, <<"l1", 3>>}
=============================================================================
