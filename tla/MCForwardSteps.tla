--------------------------- MODULE MCForwardSteps ---------------------------
(* Two tasks ask far ahead of what is known, and the first then asks for a  *)
(* date in between.                                                         *)
EXTENDS ForwardSteps, TLC

Of(kind, d) == [kind |-> kind, from |-> d, to |-> d]

MCTasks == {1, 2}
MCBusiness == 1..6
MCQueries == << {Of("type", 3), Of("type", 6)}, {Of("previous", 2)} >>

=============================================================================
