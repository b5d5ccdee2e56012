------------------------------ MODULE MCHotSwap ------------------------------
(* Agents a and b are registered; swaps replace them. *)
EXTENDS HotSwap, TLC

\* a is replaced by c and c, meanwhile, by an agent without a name; nobody else
\* touches b and its successor d.
Old == [s \in Swaps |-> CASE s = "s1" -> "a" [] s = "s2" -> "c" [] s = "s3" -> "b"]
New == [s \in Swaps |-> CASE s = "s1" -> "c" [] s = "s2" -> "" [] s = "s3" -> "d"]

=============================================================================
