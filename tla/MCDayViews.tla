----------------------------- MODULE MCDayViews -----------------------------
(* TLC instances of DayViews. *)
EXTENDS DayViewsProperties

Fixes == {[place |-> -1, accuracy |-> 1], [place |-> 1, accuracy |-> 1],
          [place |-> 2, accuracy |-> 1], [place |-> 1, accuracy |-> 2],
          [place |-> NoFix, accuracy |-> 1]}
OneFix == {[place |-> 1, accuracy |-> 1]}

\* What the movement check does with changing places, and what the screens show of
\* punches that all come from one place, do not need each other.
Still == ~block /\ \A i \in DOMAIN log :
            /\ ~log[i].purged
            /\ log[i].type # "AUTO" => /\ log[i].reading \in OneFix
                                       /\ log[i].captured = log[i].at
Refused == {j \in DOMAIN log : log[j].verdict # "ACCEPTED"}
Moving == view.kind = "none" /\ Cardinality(Refused) <= 1 /\ clock <= Start + 2
Explored == Still' \/ (Moving' /\ (log' = log \/ log'[Len(log')].at >= clock - 1))
=============================================================================
