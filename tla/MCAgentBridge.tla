--------------------------- MODULE MCAgentBridge ---------------------------
(* Instances of AgentBridge for TLC.                                        *)
EXTENDS AgentBridge

CONSTANTS hermes, codex, m1, m2, m3

Call(a) == [agent |-> a, clean |-> FALSE, internal |-> FALSE]
Probe(a) == [agent |-> a, clean |-> TRUE, internal |-> TRUE]

\* What start() is called with in each instance.
HermesCalls == {Call(hermes)}
PlainMix == {Probe(codex), Call(hermes)}
CodexCalls == {Call(codex)}
ChainMix == {Call(codex), Call(hermes), Probe(codex)}

NoChain == [a \in Agents |-> <<>>]
TwoModels == [a \in Agents |-> IF a = codex THEN <<m1, m2>> ELSE <<>>]
ThreeModels == [a \in Agents |-> IF a = codex THEN <<m1, m2, m3>> ELSE <<>>]
=============================================================================
