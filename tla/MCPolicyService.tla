-------------------------- MODULE MCPolicyService --------------------------
(***************************************************************************)
(* Small instances of PolicyService: the policies of a user about a device *)
(* and of a group about the same device, with and without GUI access.      *)
(***************************************************************************)
EXTENDS PolicyService, TLC

CONSTANTS i1, c1, c2, k1

OneCaller == (c1 :> i1)
OneHome   == (c1 :> i1) @@ (c2 :> i1)

Slot(type, k) == [principalType |-> type, targetType |-> "device", key |-> k]
UserAndGroup == {Slot("user", k1), Slot("group", k1)}
OneDevice    == {Slot("user", k1)}

GUI == {{"gate.gui.access"}, {"gate.ssh.access"}}

\* What Jenn has to say of a slot: the user's policy changes between the
\* two sets of permissions, the group's grants GUI access.
Sayable == {e \in Entries : e.slot = Slot("user", k1) \/ "gate.gui.access" \in e.permissions}

\* What a request carries: up to two entries, about one slot each.
MCBatches == {<< >>} \cup {<<e>> : e \in Sayable}
             \cup {es \in [1 .. 2 -> Sayable] : es[1].slot # es[2].slot}
=============================================================================
