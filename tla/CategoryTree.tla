---------------------------- MODULE CategoryTree ----------------------------
(***************************************************************************)
(* product-service: which category lies below which                        *)
(* (category/services/service.go).  Update reads a row, puts the fields of *)
(* the request over it and writes every column back, so a request that     *)
(* only renames a category writes its parent, too.  What else hangs on a   *)
(* category is in Taxonomy.  A request cannot clear the parent: the empty  *)
(* string that would do so is refused by the binding (omitempty,uuid).     *)
(***************************************************************************)
EXTENDS FiniteSets

CONSTANTS
  Node,        \* ids of the categories that may be created
  Blank, Dropped,   \* an id without a row: not yet created, or deleted
  Root,        \* parent_id is NULL
  Omitted,     \* the request has no parent_id
  Curator,     \* requests that may be in progress at the same time
  NoMove

VARIABLES
  parent,      \* parent[c]: the parent_id of category c
  move,        \* move[k]: the Update request k and the parent_id it will write
  outdated     \* requests during which another one has changed the table

treeVars == <<parent, move, outdated>>

InTree == {c \in Node : parent[c] \notin {Blank, Dropped}}

Move == [category : Node, asked : Node \cup {Omitted}, parent : Node \cup {Root}]

ASSUME TreeAssumption ==
  /\ {Root, Blank, Dropped, Omitted} \cap Node = {}
  /\ Root \notin {Blank, Dropped} /\ Blank # Dropped
  /\ NoMove \notin Move

TreeInit ==
  /\ parent = [c \in Node |-> Blank]
  /\ move = [k \in Curator |-> NoMove]
  /\ outdated = {}

-----------------------------------------------------------------------------
\* Request k changes the table and ends.
Finish(k) ==
  /\ move' = [move EXCEPT ![k] = NoMove]
  /\ outdated' = (outdated \cup {j \in Curator : move[j] # NoMove}) \ {k}

\* The foreign key: a parent exists.
CreateBelow(k, c, p) ==
  /\ move[k] = NoMove
  /\ parent[c] = Blank
  /\ p \in InTree \cup {Root}
  /\ parent' = [parent EXCEPT ![c] = p]
  /\ Finish(k)

AnyParent(c, p) == TRUE

\* ErrParentCycle.
NotItself(c, p) == p # c

\* Service.Update up to its last call.
UpdateCategory(k, c, p) ==
  /\ move[k] = NoMove
  /\ c \in InTree
  /\ NotItself(c, p)
  /\ move' = [move EXCEPT ![k] = [category |-> c, asked |-> p,
                                  parent |-> IF p = Omitted THEN parent[c] ELSE p]]
  /\ UNCHANGED <<parent, outdated>>

\* Repository.Update, unless the row or the parent does not exist (any more).
WriteParent(k) ==
  /\ move[k] # NoMove
  /\ move[k].category \in InTree
  /\ move[k].parent \in InTree \cup {Root}
  /\ parent' = [parent EXCEPT ![move[k].category] = move[k].parent]
  /\ Finish(k)

\* ON DELETE SET NULL.
DeleteBelow(k, c) ==
  /\ move[k] = NoMove
  /\ c \in InTree
  /\ parent' = [d \in Node |-> IF d = c THEN Dropped ELSE IF parent[d] = c THEN Root ELSE parent[d]]
  /\ Finish(k)

MoveStops(k) ==
  /\ move[k] # NoMove
  /\ move' = [move EXCEPT ![k] = NoMove]
  /\ outdated' = outdated \ {k}
  /\ UNCHANGED parent

-----------------------------------------------------------------------------
TreeNext ==
  \E k \in Curator :
    \/ \E c \in Node :
         \/ \E p \in Node \cup {Root} : CreateBelow(k, c, p)
         \/ \E p \in Node \cup {Omitted} : UpdateCategory(k, c, p)
         \/ DeleteBelow(k, c)
    \/ WriteParent(k)
    \/ MoveStops(k)

TreeSpec == TreeInit /\ [][TreeNext]_treeVars

-----------------------------------------------------------------------------
(***************************************************************************)
(* Properties.                                                             *)
(***************************************************************************)

\* The variables have their types; every parent has a row, and none is its own.
TreeTypeOK ==
  /\ parent \in [Node -> Node \cup {Root, Blank, Dropped}]
  /\ move \in [Curator -> Move \cup {NoMove}]
  /\ outdated \subseteq {k \in Curator : move[k] # NoMove}
  /\ \A c \in InTree : parent[c] \in (InTree \ {c}) \cup {Root}

\* The categories above c: the smallest set with its parent and theirs.
Above(c) ==
  {a \in InTree : \A S \in SUBSET InTree :
     (\A d \in S \cup {c} : parent[d] \in InTree => parent[d] \in S) => a \in S}

Circular == {c \in InTree : c \in Above(c)}

(***************************************************************************)
(* "ParentID makes it a tree", ErrParentCycle: "a category cannot be its   *)
(* own ancestor".  The code compares with the category itself only.  So a  *)
(* circle is closed by moving a category below one of its descendants, or  *)
(* by a request that writes back a parent it read before another request   *)
(* changed the tree; and by nothing else.                                  *)
(***************************************************************************)
OnlyDescendantsCloseCircles ==
  [][\/ Circular' \subseteq Circular
     \/ \E k \in Curator :
          /\ move[k] # NoMove /\ move'[k] = NoMove
          /\ \/ move[k].asked \in Node /\ move[k].category \in Above(move[k].asked)
             \/ move[k].asked = Omitted /\ k \in outdated]_treeVars
=============================================================================
