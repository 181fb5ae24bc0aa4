--------------------------- MODULE MCKadetWorker ---------------------------
\* One target whose kadet component changes helm flags and reads lazily, one that
\* reads every topic, renders a chart of its own and has a helm input.
EXTENDS KadetWorker

MCInputs == [t1 |-> <<"chart", "site">>, t2 |-> <<"index", "helm">>]

Kadet == [kind |-> "kadet", reads |-> "nothing", others |-> FALSE, asks |-> "named",
          names |-> {}, chart |-> FALSE, flags |-> <<>>]

MCProgram ==
  [chart |-> [Kadet EXCEPT !.reads = "lazy", !.chart = TRUE, !.flags = [tests |-> "on"]],
   site  |-> [Kadet EXCEPT !.reads = "strict", !.names = {"a"}],
   index |-> [Kadet EXCEPT !.reads = "strict", !.others = TRUE, !.asks = "all", !.chart = TRUE],
   helm  |-> [Kadet EXCEPT !.kind = "helm", !.chart = TRUE, !.flags = [ns |-> "prod"]]]

MCDefaultFlags == [tests |-> "off", ns |-> "none"]

\* t1 gives topic a and consumes it; t2 consumes it too and gives nothing.
MCFirstInventory ==
  [t1 |-> [key |-> "set", gives |-> [a |-> 1, b |-> None], consume |-> {"a"}],
   t2 |-> [key |-> "set", gives |-> [a |-> None, b |-> None], consume |-> {"a"}]]
=============================================================================
