------------------------------ MODULE MCSections ------------------------------
(***************************************************************************)
(* An organization with a default section and another, room for new ones,  *)
(* names that differ only in case, and a few requests at once.             *)
(***************************************************************************)
EXTENDS Sections, Integers, TLC

CONSTANTS r1, r2, r3

ReqSymmetry == Permutations(Reqs)

MCNames == {"Krippe", "krippe", "Nest"}
MCCanon == [n \in MCNames |-> IF n = "Nest" THEN "nest" ELSE "krippe"]

Kept(n, d) == [name |-> n, isDefault |-> d, live |-> TRUE]

MCOrganizations ==
    { [i \in Ids |-> CASE i = 1 -> Kept("Krippe", TRUE)
                       [] i = 2 -> Kept("Nest", FALSE)
                       [] OTHER -> NoSection] }

Body(kind, i, n, o) == [kind |-> kind, id |-> i, name |-> n, owner |-> o]

MCRequests ==
    { Body("create", 1, "krippe", "child"), Body("create", 1, "Nest", "child"),
      Body("rename", 2, NoName, "child"),
      Body("rename", 1, NoName, "child"), Body("rename", 2, "krippe", "child"),
      Body("rename", 1, "Nest", "child"),
      Body("promote", 1, NoName, "child"), Body("promote", 2, NoName, "child"),
      Body("promote", 3, NoName, "child"),
      Body("delete", 1, NoName, "child"), Body("delete", 2, NoName, "child"),
      Body("assign", 2, NoName, "child"), Body("assign", 2, NoName, "employee") }
=============================================================================
