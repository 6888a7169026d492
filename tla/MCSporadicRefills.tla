-------------------------- MODULE MCSporadicRefills ---------------------------
(* Model-checking instances of SporadicRefills. *)
EXTENDS SporadicRefillsProperties

\* A periodic context with little budget and a buffer of two refills, one with more
\* budget than the other and the slack of Wcet and MaxLate together and a buffer of
\* three, and a round-robin one.  With that slack a budget is still less than its period.
SomeParams ==
  {[budget |-> 2, period |-> 8, max |-> 2],
   [budget |-> 5, period |-> 8, max |-> 3],
   [budget |-> 4, period |-> 4, max |-> 2]}

\* A context that keeps its parameters, so that its timer is set for its own head.
OneContext == {[budget |-> 4, period |-> 7, max |-> 3]}

=============================================================================
