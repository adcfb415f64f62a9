----------------------------- MODULE MCPlanning -----------------------------
(* Instances of Planning for TLC. *)
EXTENDS Planning

CONSTANTS h1, h2

MCRules == <<[factor |-> 2, max |-> 3], [factor |-> 4, max |-> 4]>>

\* An algorithm that repeats its best point once, told of a poor one moves on,
\* and offers the base: duplicates happen, at the start and between trials.
MCSuggest(engine, told) ==
  LET n == Len(told)
  IN CASE n = 0 -> 2
       [] n = 1 -> IF told[1][1] = "measured" THEN 2 ELSE 1
       [] n = 2 -> IF engine = "recorded" THEN 3 ELSE 4
       [] n = 3 -> IF told[3] = <<"measured", 2>> THEN 4 ELSE 3
       [] OTHER -> 0

Setup(k, hosts, builds, crashes, hand, swaps) ==
  [kind |-> k, hosts |-> hosts, builds |-> builds, crashes |-> crashes, hand |-> hand,
   swaps |-> swaps, seeded |-> TRUE]

\* Two hosts that plan on one record with the process of either dying once;
\* one host with a node made by hand under it; builds that differ.
MCSetups ==
  {Setup("llm", {h1, h2}, Builds, 1, 0, 1),
   Setup("llm", {h1}, {"recorded"}, 0, 1, 0),
   Setup("search", {h1, h2}, {"recorded"}, 0, 0, 0),
   Setup("search", {h1}, {"recorded", "other"}, 1, 0, 0),
   Setup("search", {h1}, {"recorded"}, 0, 1, 0),
   Setup("rule-based", {h1, h2}, {"recorded"}, 0, 0, 0),
   Setup("rule-based", {h1}, {"recorded", "other"}, 1, 0, 0),
   Setup("rule-based", {h1}, {"recorded"}, 0, 1, 0),
   Setup("no-op", {h1}, {"recorded"}, 0, 1, 0),
   [Setup("search", {h1}, {"recorded"}, 0, 0, 0) EXCEPT !.seeded = FALSE]}
=============================================================================
