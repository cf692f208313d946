-------------------------- MODULE ReliabilityMatrix --------------------------
(***************************************************************************)
(* The report of backend/scripts/run_strategy_reliability_matrix.py, which *)
(* sends one prompt many times and decides from what its observer saw      *)
(* whether Strategy Lab is reliable.  It keeps no state of its own between *)
(* runs: its records are a view of StrategyLab's variables.  A run that is *)
(* not done yet is one that the script's timeout would cut off now.        *)
(***************************************************************************)
EXTENDS StrategyLab, FiniteSetsExt

\* The script sends a fixed number of runs (--runs-per-prompt, positive).
ASSUME RunsAssumption == IsFiniteSet(Runs)

\* The versions whose validation or smoke test the observer recorded as failed.
Failed(r) == {v \in 1..attempt[r] : verdict[r][v] # "none"}

\* Which check of the first failed attempt is reported; static findings are
\* not split into the validator that made them.
FirstFailure(r) ==
    IF Failed(r) = {} THEN "validation_unclassified" ELSE verdict[r][Min(Failed(r))]

\* classify_failure, by the detail the route gives each error.
AboutMarket(error)  == error \in {"MarketDataUnavailableError", "InvalidMarketDataError",
                                  "InsufficientMarketDataError"}
AboutHeldOut(error) == error = "FrozenStrategyExecutionError"

ClassifyFailure_ByAttempts(status, error, firstFailure) ==             \* mutant
    CASE status = 200 -> "none"
      [] status = 502 -> IF AboutMarket(error) THEN "market_data" ELSE "provider"
      [] status = 503 -> "sandbox_infrastructure"
      [] status = 422 -> firstFailure
      [] status = 0   -> "client_exception"
      [] OTHER        -> "unknown_http"

ClassifyFailure(status, error, firstFailure) ==
    CASE status = 200 -> "none"
      [] status = 502 -> IF AboutMarket(error) THEN "market_data" ELSE "provider"
      [] status = 503 -> "sandbox_infrastructure"
      [] status = 422 -> IF AboutHeldOut(error) THEN "held_out_runtime" ELSE firstFailure
      [] status = 0   -> "client_exception"
      [] OTHER        -> "unknown_http"

Category(r) == ClassifyFailure(response[r].status, response[r].error, FirstFailure(r))

\* record["first_pass"]: one attempt, valid, through its smoke test, and a 200.
FirstPass(r) == attempt[r] = 1 /\ frozen[r] = 1 /\ response[r].status = 200

\* aggregate, once every run of the prompt has its record.
MinimumFirstPass == (19 * Cardinality(Runs) + 19) \div 20

GatePassed ==
    /\ \A r \in Runs : response[r].status = 200
    /\ Cardinality({r \in Runs : FirstPass(r)}) >= MinimumFirstPass
    /\ \A r \in Runs : Category(r) \notin {"unknown_http", "validation_unclassified"}

-----------------------------------------------------------------------------
Layers == {"static", "smoke"}

Repaired(r) == Failed(r) # {}

\* backend/README.md:245-285: a failed run is reported by the stage that
\* failed it.  A layer that precedes the held-out data is named only for a
\* strategy that never saw them and was given up, or for lack of market data
\* after a repair; the held-out category only for the frozen version's own
\* run on them; a run that was given up never goes unclassified.  And the
\* gate is passed only by runs that were all scored, at most one in twenty
\* of them after a repair.
ReportNamesStage ==
    /\ \A r \in Runs :
          /\ Category(r) \in Layers =>
                 /\ scored[r] = {}
                 /\ response[r].error \in {"StrategyPretestError", "InsufficientMarketDataError"}
          /\ Category(r) = "held_out_runtime" => frozen[r] > 0 /\ scored[r] = {frozen[r]}
          /\ response[r].error = "StrategyPretestError" => Category(r) \in Layers
          /\ FirstPass(r) => scored[r] = {1} /\ ~Repaired(r)
    /\ GatePassed =>
          /\ \A r \in Runs : scored[r] = {frozen[r]}
          /\ 20 * Cardinality({r \in Runs : Repaired(r)}) <= Cardinality(Runs)
=============================================================================
