---------------------------- MODULE MCLifecycle ----------------------------
(* Lifecycle for TLC: a champion, its learned challenger, and a version that trades on paper. *)
EXTENDS Lifecycle

CONSTANTS champion, challenger, paper, none

Couple == (champion :> none) @@ (challenger :> champion)
Family == Couple @@ (paper :> none)

Submitted(v) == [v |-> v, from |-> "none", to |-> "candidate", at |-> 0, why |-> "submitted with profile"]
Moved(v, from, to) == [v |-> v, from |-> from, to |-> to, at |-> 0, why |-> "ladder"]

(* A champion that trades with a challenger in shadow, before (beside a version made for paper) and
   after the challenger took its place, at the first money stage and at the second; a challenger
   that was demoted once before it took its parent's place; a version that the owner switched three
   times. *)
Pair ==
    <<Submitted(champion), Moved(champion, "candidate", "shadow"), Moved(champion, "shadow", "micro"),
      Submitted(challenger), Moved(challenger, "candidate", "shadow")>>
Racing == Pair \o <<Submitted(paper), Moved(paper, "candidate", "shadow")>>
SwapAt(stage) ==
    <<[Moved(challenger, "shadow", stage) EXCEPT !.why = "swapped in"],
      [Moved(champion, stage, "shadow") EXCEPT !.why = "swapped out"]>>
Swapped == Pair \o SwapAt("micro")
SwappedLive == Pair \o <<Moved(champion, "micro", "live")>> \o SwapAt("live")
Relapsed ==
    Pair \o <<Moved(challenger, "shadow", "micro"), [Moved(challenger, "micro", "shadow") EXCEPT !.why = "demoted"]>>
    \o SwapAt("micro")
Papered ==
    <<Submitted(paper), Moved(paper, "candidate", "shadow"), Moved(paper, "shadow", "demo_only"),
      Moved(paper, "demo_only", "shadow"), Moved(paper, "shadow", "demo_only"),
      Moved(paper, "demo_only", "shadow"), Moved(paper, "shadow", "demo_only")>>
Ledgers == {Racing, Swapped, SwappedLive, Relapsed, Papered}
=============================================================================
