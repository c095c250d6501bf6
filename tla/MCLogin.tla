------------------------------ MODULE MCLogin -------------------------------
(***************************************************************************)
(* Instances of Login for TLC.  Two workers are enough for two callbacks   *)
(* or two exchanges to overlap, two groups for their differences to mix.   *)
(* Two of the names mean the group made by hand, the third one a group     *)
(* that the callbacks create; one of the site values is unknown.  Workers  *)
(* are interchangeable.                                                    *)
(***************************************************************************)
EXTENDS Login, TLC

WhichGroup == [n \in Names |-> IF n = "lab" THEN "lab" ELSE "staff"]
WhichSite == [v \in SiteValues |-> IF v = "mars" THEN None ELSE v]

Interchangeable == Permutations(Workers)

\* What CAS releases while time passes.
Lone == [names |-> {"lab"}, site |-> "mars"]
OnlyLone == \A u \in Users : released[u] = Lone

\* The clock runs over the lifetimes, or stands still from the beginning.
MCInit == Init /\ (now = MaxTime \/ (now = 0 /\ OnlyLone))

\* While the clock runs, CAS goes on releasing the same.
TimeOrAttributes == now < MaxTime => OnlyLone

MCSpec == MCInit /\ [][Next]_vars
=============================================================================
