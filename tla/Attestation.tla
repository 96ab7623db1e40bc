------------------------------ MODULE Attestation ------------------------------
(***************************************************************************)
(* What a release record promises: it appears for the tree as it stands,   *)
(* at an advisory-database commit at which that tree passes the gate.      *)
(***************************************************************************)
CONSTANTS Locks, Policies, Abouts, Commits,
          Passes,     \* <<lock, policy, commit>> cargo-deny accepts
          InSync,     \* <<policy, lock, about>> that show no drift
          Torn        \* a record file cut short

VARIABLES record,     \* the record file
          tree        \* the checkout: its lock, policy and about.toml

Attests(r) == /\ r.deps = tree.lock
              /\ r.deny = tree.deny
              /\ r.about = tree.about
              /\ <<r.deps, r.deny, r.commit>> \in Passes
              /\ <<r.deny, r.deps, r.about>> \in InSync

Attest == /\ \E c \in Commits :
               record' = [deps |-> tree.lock, deny |-> tree.deny,
                          about |-> tree.about, commit |-> c]
          /\ Attests(record')
          /\ UNCHANGED tree

Tear == record' = Torn /\ UNCHANGED tree

Edit == /\ tree' \in [lock : Locks, deny : Policies, about : Abouts]
        /\ UNCHANGED record

Next == Attest \/ Tear \/ Edit

Spec == record \notin [deps : Locks, deny : Policies, about : Abouts,
                       commit : Commits]
        /\ [][Next]_<<record, tree>>
=============================================================================
