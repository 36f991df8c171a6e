----------------------------- MODULE MCMasstree -----------------------------
EXTENDS Masstree, TLC

Insert1(k, v) == {[kind |-> "insert", key |-> k, val |-> v]}
Update1(k, v) == {[kind |-> "update", key |-> k, val |-> v]}
Read1(k) == {[kind |-> "read", key |-> k, val |-> "a"]}

\* The loader builds a tree of three levels whose root and last interior node
\* are full, and so are the last two leaves, (100, 105, 110) and (120, 130, 140);
\* it updates a key it has and one it has not.
Load == <<10, 20, 30, 40, 50, 60, 70, 80, 90, 100, 110, 120, 130, 140, 105>>
MCKey == {Load[i] : i \in DOMAIN Load} \cup {107, 125}
MCLoad == [i \in DOMAIN Load |-> Insert1(Load[i], "a")]
          \o <<Update1(130, "b"), Update1(107, "b")>>

\* t1 splits the last leaf, its parent and the root, t2 the leaf before it.
MCWork == ("t0" :> MCLoad)
          @@ ("t1" :> <<Insert1(125, "a")>>)
          @@ ("t2" :> <<Insert1(107, "a")>>)
          @@ ("t3" :> <<Read1(107) \cup Insert1(125, "b")>>)

\* t2 reads what it has inserted.
MCWorkOwn == [MCWork EXCEPT !["t2"] = <<Insert1(107, "a"), Read1(107)>>, !["t3"] = <<>>]
=============================================================================
