-------------------------- MODULE MCAgentExecution --------------------------
(***************************************************************************)
(* Five tools: the note of the static plan, a host tool, a risky one, one  *)
(* of another domain and one the registry does not know; four agents.      *)
(***************************************************************************)
EXTENDS AgentExecution

CONSTANTS note, host, danger, alien, ghost

\* Any tool, but some are forbidden, foreign or risky.
Open == [allowed |-> {}, forbidden |-> {note}, foreign |-> {alien},
         risky |-> {danger, alien}, expected |-> {host}]

\* The plan writes the note; a risky tool is allowed, and the approval list
\* names the host tool.
Careful == [allowed |-> {note, host, danger, ghost}, forbidden |-> {},
            foreign |-> {alien}, risky |-> {danger}, expected |-> {host}]

\* The note is allowed, and a registry that gates it.
Gated == [allowed |-> {note}, forbidden |-> {}, foreign |-> {},
          risky |-> {note, host}, expected |-> {note}]

\* An agent whose contract allows the note and forbids it again.
Torn == [allowed |-> {note, danger}, forbidden |-> {note, danger}, foreign |-> {},
         risky |-> {danger}, expected |-> {}]

AllAgents == {Open, Careful, Gated, Torn}

AllTools == {note, host, danger, alien, ghost}
KnownTools == AllTools \ {ghost}

SomeStepLimits == {-1, 1, 2, NoLimit}
SomeTokenLimits == {-1, 2, NoLimit}

=============================================================================
