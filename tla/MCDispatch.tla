----------------------------- MODULE MCDispatch -----------------------------
(* The instance of Dispatch the runs check: servers are interchangeable.    *)
EXTENDS Dispatch, TLC

ServerSymmetry == Permutations(Servers)

\* Bound: three rows while only one server ever ran, two when there are more.
FewRows ==
    \/ Cardinality({i \in Runs : status[i] # "none"}) <= 2
    \/ Cardinality({s \in Servers : srv[s] # "absent"}) <= 1
=============================================================================
