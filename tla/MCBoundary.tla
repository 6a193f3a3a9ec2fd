----------------------------- MODULE MCBoundary -----------------------------
(* Boundary with a handful of tool calls of every kind. *)
EXTENDS Boundary

CONSTANTS Write, Read, g1

MCPairs == {Write, Read}

\* A single effect, two effects, two kinds of unmapped call, a refused one,
\* one whose resolution raises, and a call only the rules of the first version of the config map.
MCResolve(c, rules) ==
  CASE c = "one"     -> Mapped(Read, <<>>)
    [] c = "two"     -> Mapped(Write, <<Read>>)
    [] c = "unknown" -> Unmapped(NoReason)
    [] c = "shell"   -> Unmapped("unsafe_shell")
    [] c = "bad"     -> Refused("parse_unsafe")
    [] c = "url"     -> Raised
    [] c = "ruled"   -> IF \E s \in DOMAIN rules : rules[s] = g1
                          THEN Mapped(Write, <<Read>>) ELSE Unmapped(NoReason)

\* A permit without evidence, and 403s of something that is not the service:
\* without an audit id, and with one of another log.
MCGarbled ==
  {Response(200, "permit", Blank), HTTPError(403, NoField), HTTPError(403, 99)}

\* A denial that is not the service's.
MCForged == {HTTPError(403, 99)}

Env(auth, policy, log, cov) ==
  [auth |-> auth, unmapped_policy |-> policy, decision_log |-> log, coverage_log |-> cov]

\* Every setting that matters; "Block" is a near miss of "block".
AllEnvironments ==
  {Env(a, p, l, c) : a \in BOOLEAN, p \in {"block", "Block"}, l \in BOOLEAN, c \in BOOLEAN}

LoggedEnvironment == {Env(TRUE, "block", TRUE, TRUE)}
WithoutCoverage == {Env(TRUE, "block", TRUE, FALSE)}
=============================================================================
