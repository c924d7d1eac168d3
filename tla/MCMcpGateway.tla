---- MODULE MCMcpGateway ----
EXTENDS McpGateway

Rule(s, t, d) == [server |-> s, tool |-> t, decision |-> d,
                  classification |-> "", sensitivity |-> "", trusted |-> FALSE]
Policy(d, rules) == [default |-> d, tools |-> rules, trusted |-> {}]

\* No policy file; a first rule that blocks what a later one allows; a default
\* that blocks with a rule that says nothing and a rule for another server.
MCPolicies ==
  {Policy("", << >>),
   Policy("allowed", <<Rule("s", "t", "blocked"), Rule("s", "t", "allowed")>>),
   Policy("blocked", <<Rule("o", "t", "allowed"), Rule("s", "t", ""), Rule("s", "u", "allowed")>>)}
====
