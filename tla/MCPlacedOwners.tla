----------------------------- MODULE MCPlacedOwners -----------------------------
\* The instance of PlacedOwners that TLC checks: a Frame with one Discovery item and one
\* disposition, a Case beside it and a Case that an attempt creates; two Namespaces, one
\* of which is revised, retired or created again under the other.
EXTENDS PlacedOwners

CONSTANTS a1, a2, a3, m1, s1, frame, case, new, home, side, i, d, x, y

OneFrame == [status |-> "active", text |-> "t", items |-> (i :> Item("active", FALSE)),
             closure |-> "open", results |-> (d :> "awaiting")]
OneCase(name) == [state |-> "active", text |-> "t", aliases |-> {name}]

MCAttempts   == {a1, a2, a3}
MCOps        == {"one", "two"}
MCFrames     == {frame}
MCCases      == {case, new}
MCNamespaces == {home, side}
MCAdmins     == {m1}
MCSearchers  == {s1}
MCOpen       == {home, side}
MCInitial    == (frame :> [content |-> OneFrame, ns |-> home]) @@ (case :> [content |-> OneCase(x), ns |-> home])

R(op, o, ns, base, edit) == [op |-> op, owner |-> o, ns |-> ns, base |-> base, edit |-> edit]
E(action)                == [action |-> action, id |-> i]
Whole(content)           == [action |-> "complete", content |-> content]

Settles    == R("one", frame, home, 1, [action |-> "disposition.settle", id |-> d])
Moves      == R("one", case, side, 1, [action |-> "update", text |-> "t"])
MCPlan ==
  [a \in MCAttempts |->
    CASE a = a1 -> {Settles, Moves, R("one", new, home, 0, Whole(OneCase(x)))}
      [] a = a2 -> {Settles, Moves, R("two", frame, side, 1, E("discovery.tombstone")),
                    R("two", case, home, 1, E("tombstone"))}
      [] a = a3 -> {R("two", frame, side, 1, E("discovery.tombstone")),
                    R("two", frame, home, 2, [action |-> "boundary.close"]),
                    R("two", frame, home, 2, E("discovery.reopen")),
                    R("two", case, home, 2, Whole(OneCase(y)))}]

N(kind, ns, parent, expected) == [kind |-> kind, ns |-> ns, parent |-> parent, expected |-> expected]
MCAdminPlan == [m \in MCAdmins |-> {N("revise", side, home, 1), N("retire", home, None, 1)}]
===============================================================================
