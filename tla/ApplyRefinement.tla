--------------------------- MODULE ApplyRefinement ---------------------------
(***************************************************************************)
(* ApplyExecutor implements ApplyAtomic, for calls of distinct processes   *)
(* that are not killed, on a device nobody else configures.                *)
(***************************************************************************)
EXTENDS ApplyExecutor

Replaced(c, conf) == [l \in Leaf |-> Desired(PlanOf[c], conf, l)]
Saves(c) == PlanOf[c].save

Atomic == INSTANCE ApplyAtomic WITH
  Replace <- Replaced,
  WantsSave <- Saves,
  cancelled <- {c \in Call : ctx[c] = "done"},
  answer <- [c \in Call |-> IF pc[c] # "returned" THEN "none"
                            ELSE IF applied[c] THEN "applied" ELSE "failed"]

\* The lock, the candidate session and the order of discard, close and release
\* make every interleaving of the calls look like one atomic replacement each.
ImplementsAtomic == Atomic!Spec
=============================================================================
