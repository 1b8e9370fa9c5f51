---------------------------- MODULE MCKnownBarrier ----------------------------
(* known_barrier_wait on small instances. *)
EXTENDS KnownBarrier

CONSTANT Groups   \* the thread sets that meet

\* One tasklet passes the mask of the group it is in.
MCMaskOf == [t \in Ids |-> CHOOSE g \in Groups : t \in g]

=============================================================================
