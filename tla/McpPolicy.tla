----------------------------- MODULE McpPolicy -----------------------------
(* internal/mcp/policy/policy.go: what a policy file says of a tool call.  *)
(* Names of servers and tools are compared without case and outer blanks:  *)
(* a value here stands for all the spellings of one name.  A missing field *)
(* is the empty string, as in the code.                                    *)
EXTENDS Integers, Sequences, FiniteSetsExt

(* New: a file that names no default allows. *)
DefaultDecision(cfg) == IF cfg.default = "" THEN "allowed" ELSE cfg.default

SensitivityFromClass(class) ==
  CASE class \in {"sensitive_read", "potentially_sensitive_read"} -> "sensitive"
    [] class \in {"destructive", "write", "external_communication"} -> "low"
    [] class = "read_only" -> "none"
    [] OTHER -> "unknown"

Matching(cfg, server, tool) ==
  {i \in DOMAIN cfg.tools : cfg.tools[i].server = server /\ cfg.tools[i].tool = tool}

EvaluateSilentRuleBug(cfg, server, tool) ==
  IF Matching(cfg, server, tool) = {}
    THEN [decision |-> DefaultDecision(cfg), classification |-> "unknown",
          sensitivity |-> "unknown", trusted |-> server \in cfg.trusted]
    ELSE LET r     == cfg.tools[Min(Matching(cfg, server, tool))]
             class == IF r.classification = "" THEN "unknown" ELSE r.classification
         IN  [decision |-> IF r.decision = "" THEN "allowed" ELSE r.decision,
              classification |-> class,
              sensitivity |-> IF r.sensitivity \in {"", "unknown"}
                                THEN SensitivityFromClass(class) ELSE r.sensitivity,
              trusted |-> r.trusted \/ server \in cfg.trusted]

(* Evaluate stops at the first rule for the server and the tool, also when *)
(* that rule says nothing of the decision.                                 *)
Evaluate(cfg, server, tool) ==
  IF Matching(cfg, server, tool) = {}
    THEN [decision |-> DefaultDecision(cfg), classification |-> "unknown",
          sensitivity |-> "unknown", trusted |-> server \in cfg.trusted]
    ELSE LET r     == cfg.tools[Min(Matching(cfg, server, tool))]
             class == IF r.classification = "" THEN "unknown" ELSE r.classification
         IN  [decision |-> IF r.decision = "" THEN DefaultDecision(cfg) ELSE r.decision,
              classification |-> class,
              sensitivity |-> IF r.sensitivity \in {"", "unknown"}
                                THEN SensitivityFromClass(class) ELSE r.sensitivity,
              trusted |-> r.trusted \/ server \in cfg.trusted]
=============================================================================
