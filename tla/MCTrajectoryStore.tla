-------------------------- MODULE MCTrajectoryStore --------------------------
(***************************************************************************)
(* Instance: harnesses that end in different ways, and scripts that ask    *)
(* for tools, answer, or run out.                                          *)
(***************************************************************************)
EXTENDS TrajectoryStore

Harness(turns, tools, tokens, window, context, overflow) ==
  [maxTurns |-> turns, maxToolCalls |-> tools, maxTokens |-> tokens, window |-> window,
   maxContext |-> context, overflow |-> overflow, maxOutput |-> 2,
   stopOn |-> {"final-answer", "no-tool-call"}, fixed |-> 1, toolWords |-> 2,
   maxToolResult |-> 1]

Asks(tools) == [text |-> 1, final |-> FALSE, calls |-> tools]
Answers == [text |-> 3, final |-> TRUE, calls |-> <<>>]

\* The first drops context and answers; the second spends its tool calls or
\* its tokens, or its script runs out.
MCRequests ==
  {[harness |-> Harness(2, 1, 99, 0, 4, "truncate"),
    script |-> <<Asks(<<"enabled">>), Answers>>],
   [harness |-> Harness(2, 1, 6, 0, 6, "fail"), script |-> <<Asks(<<"invalid">>)>>]}
=============================================================================
