------------------------ MODULE MCGeographyMutation ------------------------
(* Instances of GeographyMutation for TLC. *)
EXTENDS GeographyMutation, TLC

CONSTANTS p1, p2, p3, reg, dist, new

MCRegion == (dist :> reg @@ new :> reg)

\* Imported places list aliases that have no row.
Imported == [status |-> "ACTIVE", name |-> "old", code |-> "code",
             aliases |-> {"seed"}, boundary |-> {}]

MCInit ==
    /\ rec = [x \in Records |->
                CASE x = reg -> [Imported EXCEPT !.aliases = {}, !.boundary = {1, 2}]
                  [] x = dist -> [Imported EXCEPT !.aliases = {}]
                  [] x = new -> [Imported EXCEPT !.status = "absent", !.aliases = {}]
                  [] OTHER -> Imported]
    /\ Init

MCSpec == MCInit /\ [][Next]_vars

Edit(id, name, code) == [kind |-> "edit", id |-> id, name |-> name, code |-> code]
Retire(id, to) == [kind |-> "retire", id |-> id, target |-> to]
Bound(id, etag, to) == [kind |-> "bound", id |-> id, etag |-> etag, boundary |-> to]

\* Merges of three places into each other, edits and aliases of one of them,
\* boundaries of a district and its region, and a new district.
MCMenu ==
    {Retire(x, y) : x \in {p1, p2, p3}, y \in {p1, p2}}
    \cup {Retire(p1, Nothing), Edit(p1, "new", Keep), Edit(p1, Keep, Blank),
          [kind |-> "alias", id |-> p1, value |-> "nick"],
          [kind |-> "create", id |-> new, name |-> "new", boundary |-> {1, 2}]}
    \cup {[kind |-> "unalias", id |-> p1, row |-> q] : q \in {1, 2}}
    \cup {Bound(dist, {}, {1}), Bound(dist, {}, {1, 2}), Bound(dist, {1}, {1, 3})}
    \cup {Bound(reg, {1, 2}, {1})}

Symmetry == Permutations(Handlers)
=============================================================================
