------------------------------ MODULE MCSignal ------------------------------
(* Instantiates Signal for TLC: threads 1 (root) <- 2 <- 3 <- 4.           *)
EXTENDS Signal

\* parent_thread links: a chain of depth 3 under the root.
ParentChain == [t \in 1..4 |-> IF t = 1 THEN 1 ELSE t - 1]

\* Signal numbers callers pass: the three kill sends, and one invalid on
\* each side of 0..4.
SignumsMC == {-1, 2, 3, 4, 5}
=============================================================================
