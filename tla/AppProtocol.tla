----------------------------- MODULE AppProtocol -----------------------------
(***************************************************************************)
(* What the app sends and what it can read, against what the backend       *)
(* accepts and sends: the controller's _buildRequest and input_parsers.dart*)
(* against schemas/strategy_lab.py, and the schema's response, with the    *)
(* metrics the sandbox made, against the fromJson of the app's models.     *)
(* The two sides share no code.                                            *)
(***************************************************************************)
EXTENDS Naturals

CONSTANTS
    MinLength, MaxLength,  \* the limits on a prompt the backend serves
    Prompts,               \* prompts, trimmed, by their two lengths
    Amounts, Rates,        \* what the texts for cash and commission come to
    Null                   \* JSON's null

Text == [chars : Nat, units : Nat]  \* code points, UTF-16 code units

Empty == [chars |-> 0, units |-> 0]

\* "rate": above 0 and below 0.1; "amount": finite and at least 0.1.
AmountKinds == {"unparsable", "nan", "negative", "zero", "rate", "amount", "infinite"}

\* The first line is what the repository asks of capabilities.
ASSUME ProtocolAssumption ==
    /\ MinLength \in Nat \ {0} /\ MaxLength \in Nat /\ MinLength <= MaxLength
    /\ Prompts \subseteq Text /\ Empty \in Prompts
    /\ \A p \in Prompts : p.chars <= p.units /\ p.units <= 2 * p.chars
    /\ Amounts \subseteq AmountKinds /\ {"unparsable", "amount"} \subseteq Amounts
    /\ Rates \subseteq AmountKinds /\ {"unparsable", "rate"} \subseteq Rates
    /\ Null # "number"

Drafts == [prompt : Prompts, symbol : {"none", "listed"}, cash : Amounts, commission : Rates]

NewDraft == [prompt |-> Empty, symbol |-> "none", cash |-> "unparsable",
             commission |-> "unparsable"]

-----------------------------------------------------------------------------
(* The app's rules.                                                        *)

Fields == {"prompt", "symbol", "initialCash", "commission"}

\* String.length counts code units.
PromptFits_MaxOnly(d) == d.prompt.units <= MaxLength                     \* mutant

PromptFits(d) == d.prompt.units >= MinLength /\ d.prompt.units <= MaxLength

\* parseNumber reads NaN, which no comparison accepts, and Infinity, which
\* is a positive number.
CashFits(d) == d.cash \in {"rate", "amount", "infinite"}

CommissionFits(d) == d.commission \in {"zero", "rate"}

\* _buildRequest: the fields with an error.
InputErrors(d) ==
    {f \in Fields : CASE f = "prompt"      -> ~PromptFits(d)
                      [] f = "symbol"      -> d.symbol = "none"
                      [] f = "initialCash" -> ~CashFits(d)
                      [] f = "commission"  -> ~CommissionFits(d)}

\* jsonEncode throws on a number that is not finite: nothing is sent.
Encodes(d) == {d.cash, d.commission} \cap {"nan", "infinite"} = {}

-----------------------------------------------------------------------------
(* The backend's rules.                                                    *)

\* StrategyLabRunRequest, whose lengths are code points.
ValidRequest(d) ==
    /\ d.prompt.chars >= MinLength /\ d.prompt.chars <= MaxLength
    /\ d.cash \in {"rate", "amount"}
    /\ d.commission \in {"zero", "rate"}

Sandbox == INSTANCE SandboxProtocol WITH NoValue <- Null

\* The fields of a StrategyLabRunResponse that may differ between runs or
\* that the app compares; the literals and the frozen validation are true.
Bodies ==
    { [status |-> "success", valid |-> TRUE, sandboxed |-> TRUE, smoke |-> TRUE,
       metrics |-> Sandbox!MetricsFromStats(stats)] :
      stats \in {s \in Sandbox!Stats : Sandbox!Converts(s)} }

-----------------------------------------------------------------------------
(* What the app reads.                                                     *)

\* BacktestMetrics.fromJson: only two casts do not admit null.
ReadsMetrics(metrics) ==
    /\ metrics.initial_cash # Null /\ metrics.number_of_trades # Null
    /\ \A name \in DOMAIN metrics : metrics[name] \in {"number", Null}

\* StrategyRunResponse.fromJson and its consistency check.
Reads(body) ==
    /\ body.status = "success" /\ body.valid /\ body.sandboxed /\ body.smoke
    /\ ReadsMetrics(body.metrics)
=============================================================================
