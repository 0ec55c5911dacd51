----------------------------- MODULE MCLLMSpend -----------------------------
(* Two owners: alice with a scan and a site analysis, bob with one scan.   *)
EXTENDS LLMSpend, TLC

CONSTANTS a1, a2, b1

MCSubjects == {"scanA", "siteA", "scanB"}
MCUsers == {"alice", "bob"}
MCOwnerOf == [s \in MCSubjects |-> IF s = "scanB" THEN "bob" ELSE "alice"]

\* Every task works on a subject of its own.
MCSubjectOf == (a1 :> "scanA") @@ (a2 :> "siteA") @@ (b1 :> "scanB")

\* An enrichment and a regeneration work on the same scan.
MCSharedSubject == (a1 :> "scanA") @@ (a2 :> "scanA") @@ (b1 :> "scanB")

MCBudget == [s \in MCSubjects |-> 3]
MCLargeBudget == [s \in MCSubjects |-> 20]
MCQuota == [u \in MCUsers |-> IF u = "alice" THEN 3 ELSE 10]
MCLargeQuota == [u \in MCUsers |-> 40]
=============================================================================
