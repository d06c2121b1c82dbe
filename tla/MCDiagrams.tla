----------------------------- MODULE MCDiagrams -----------------------------
(***************************************************************************)
(* The parts of the diagram script that keep state from one call to the    *)
(* next, each by itself: a behaviour is one of NextTick, SequenceDiagram,  *)
(* GitGraph, Gantt or FlowChart, and the variables of the others stay as   *)
(* they are in the beginning.                                              *)
(***************************************************************************)
EXTENDS NextTick, SequenceDiagram, GitGraph, Gantt, FlowChart

VARIABLE part  \* which of the parts this behaviour is of

\* What parseId() makes.
AutoIds == <<"task1", "task2", "task3">>

\* What addSubGraph() makes, and links of a vertex with itself and with a name
\* that may be, or become, that of a subgraph.
SubGraphs == <<"subGraph0", "subGraph1", "subGraph2">>
TwoLinks == {<<"a", "a">>, <<"a", "subGraph0">>}

vars == <<part, tickVars, seqVars, gitVars, ganttVars, flowVars>>

Init ==
  /\ part \in {"nextTick", "sequence", "gitGraph", "gantt", "flowchart"}
  /\ TickInit /\ SeqInit /\ GitInit /\ GanttInit
  /\ FlowInit /\ (part # "flowchart" => htmlLabels)

Run(name, action, others) == part = name /\ action /\ UNCHANGED <<part, others>>

Next ==
  \/ Run("nextTick", TickNext, <<seqVars, gitVars, ganttVars, flowVars>>)
  \/ Run("sequence", SeqNext, <<tickVars, gitVars, ganttVars, flowVars>>)
  \/ Run("gitGraph", GitNext, <<tickVars, seqVars, ganttVars, flowVars>>)
  \/ Run("gantt", GanttNext, <<tickVars, seqVars, gitVars, flowVars>>)
  \/ Run("flowchart", FlowNext, <<tickVars, seqVars, gitVars, ganttVars>>)

\* Timers fire and callbacks end.
Spec == Init /\ [][Next]_vars /\ WF_tickVars(RunOn)
=============================================================================
