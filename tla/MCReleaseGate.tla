---------------------------- MODULE MCReleaseGate ----------------------------
(* Two dependency sets, two policies and an about.toml in sync with one of *)
(* them; the second advisory commit reports one of the dependency sets.    *)
EXTENDS ReleaseGate

\* Cargo resolves every lock to itself: Cargo.lock is up to date.
FreshLocks == [l \in Locks |-> l]

MCPasses == (Locks \X Policies \X Commits) \ {<<"l2", "strict", 2>>, <<"l2", "lax", 1>>}
MCInSync == {<<"strict", l, "a1">> : l \in Locks} \cup {<<"lax", "l1", "a1">>,
             <<"lax", "l2", "a2">>} \cup (Policies \X Locks \X {NoAbout})
MCAttributable == (Locks \X Abouts) \ {<<"l2", "a1">>}

=============================================================================
