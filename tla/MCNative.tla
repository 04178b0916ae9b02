------------------------------- MODULE MCNative -------------------------------
EXTENDS Native, TLC

\* A state without what is written before it is read again: the event and its
\* cause outside a trap, and the saved context of a processor that is in none.
\* Two states with one view have the same steps.
View ==
  LET In(c) == stage[c] \in {"irq", "handler"}
      Stale(x) == \E c \in Cpu : on[c].run = x /\ stage[c] \in {"run", "fork", "release", "child", "none"}
  IN <<stage, rip, blocked, pending, on, pages, mm, bootVars, keyVars,
       [c \in Cpu |-> IF In(c) THEN <<thiscpu[c], cause[c]>>
                      ELSE <<[thiscpu[c] EXCEPT !.ev = "NULL"], "NULL">>],
       [x \in Context |-> IF Stale(x) THEN ctx[x].held ELSE ctx[x]]>>
Tasks == Permutations(Task)
=============================================================================
