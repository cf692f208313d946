------------------------- MODULE MCSandboxExecution -------------------------
(* SandboxExecution with exception chains that tell the worker's walk apart:*)
(* plain, wrapped, subclassed under another name, and deeper than the walk. *)
EXTENDS SandboxExecution

Link(name, attribute, target) == [name |-> name, attribute |-> attribute, target |-> target]

Plain(name) == Link(name, FALSE, "other")

MCChains ==
    { <<Plain("ValueError")>>,
      <<Plain("CustomError")>>,
      <<Link("AttributeError", TRUE, "Position.entry_price")>>,
      <<Link("MissingAttribute", TRUE, "ta")>>,
      <<Plain("RuntimeError"), Link("AttributeError", TRUE, "Trade")>>,
      <<Link("AttributeError", TRUE, "Position.other"), Plain("KeyError")>>,
      <<Plain("E1"), Plain("E2"), Plain("E3"), Plain("E4"), Plain("E5"),
        Link("AttributeError", TRUE, "ta")>> }
=============================================================================
