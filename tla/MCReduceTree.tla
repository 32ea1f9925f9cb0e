---------------------------- MODULE MCReduceTree ----------------------------
(* Instances of ReduceTree: the trees that run/node_query_run.sh and the      *)
(* comments of node_q1.cpp and node_q2.cpp name, with the addresses they need.*)
EXTENDS ReduceTree

OneMachine(program, n, layers, local) ==
    [program |-> program, machines |-> {"m1"}, n_processes |-> n, LAYERS |-> layers,
     Local |-> local, reducer_ip_2 |-> [m \in {"m1"} |-> "m1"],
     reducer_ip_3 |-> [m \in {"m1"} |-> "m1"]]

\* m1 is the machine of the last stage.  The third address is not used at
\* LAYERS 3, but node_q1 takes it for the second one.
TwoMachines(program) ==
    [program |-> program, machines |-> {"m1", "m2"}, n_processes |-> 4, LAYERS |-> 3,
     Local |-> FALSE, reducer_ip_2 |-> [m \in {"m1", "m2"} |-> "m1"],
     reducer_ip_3 |-> [m \in {"m1", "m2"} |-> "m1"]]

MCSetups ==
    {OneMachine("q2", 2, 1, FALSE), OneMachine("q1", 4, 2, FALSE),
     OneMachine("q2", 8, 3, TRUE), TwoMachines("q1")}

\* What the theorem about MergedOnce asks of the setups.
ASSUME MCSetupsAreTrees == \A s \in MCSetups : OneTree(s)
=============================================================================
