------------------------- MODULE MCConcurrencyLoad -------------------------
(***************************************************************************)
(* Model checking of ConcurrencyLoad, and the properties of it that need a *)
(* sum over the workers.                                                   *)
(***************************************************************************)
EXTENDS ConcurrencyLoad, Functions

\* The requests that the workers with a share of the level can keep at the
\* server at the same time.
Capacity ==
    FoldFunctionOnSet(+, 0, [w \in Worker |-> Circulating(w)],
                      {w \in Worker : conc[w] > 0})

\* ChangeConcurrencyLevel "adjusts the number of concurrent requests to be the
\* same as 'concurrent_request_count'": unless the level is changed again or
\* the run stops, exactly that many ids come to circulate.
LevelReached ==
    \A l \in Levels :
        mpc = "measure" /\ level = l
            ~> mpc # "measure" \/ earlyExit \/ Capacity = l
=============================================================================
