---------------------------- MODULE ConfigMerge ----------------------------
(***************************************************************************)
(* The layered merge of configuration sources (src/internal/config/        *)
(* merge.go, and the tree walkers of config.go and writer.go), as          *)
(* operators on trees.                                                     *)
(*                                                                         *)
(* A node has a type, a value when it is a leaf, and children when it is a *)
(* table or an array of tables that all have the merge key (`id`, or       *)
(* `name` for modes): the children are then the elements by key.  Their    *)
(* order is left out.  A path is the sequence of keys to a node.           *)
(* The sentinel that unsets a key is an ordinary string: one copied with a *)
(* table that is new to the merged tree stays there as a string, and any   *)
(* later string may override it.                                           *)
(***************************************************************************)
EXTENDS Naturals, Sequences, SequencesExt

Leaf(type, value) == [t |-> type, v |-> value, kids |-> <<>>]
Table(kids) == [t |-> "table", v |-> "none", kids |-> kids]
Keyed(kids) == [t |-> "keyed", v |-> "none", kids |-> kids]
Unset == Leaf("string", "__hygge_unset__")

Absent == Leaf("absent", "none")

ArrayTypes == {"list", "keyed"}
EmptyKids == [k \in {} |-> Absent]

(***************************************************************************)
(* Where a path leads.                                                     *)
(***************************************************************************)
RECURSIVE At(_, _)
At(node, path) ==
  IF path = <<>> THEN node
  ELSE IF Head(path) \in DOMAIN node.kids
       THEN At(node.kids[Head(path)], Tail(path))
       ELSE Absent

RECURSIVE TableLeaves(_, _)
(* recordProvenance, of the defaults: an array is one leaf.                *)
TableLeaves(node, path) ==
  IF node.t = "table"
  THEN UNION {TableLeaves(node.kids[k], Append(path, k)) : k \in DOMAIN node.kids}
  ELSE {path}

RECURSIVE Leaves(_, _)
(* recordLeafProvenance, of a key new to the merged tree: the leaves under *)
(* a node; an empty array is one, an empty table has none.                 *)
Leaves(node, path) ==
  IF node.t = "table" \/ (node.t = "keyed" /\ DOMAIN node.kids # {})
  THEN UNION {Leaves(node.kids[k], Append(path, k)) : k \in DOMAIN node.kids}
  ELSE {path}

(***************************************************************************)
(* deepMerge: what a key holds afterwards, the paths the source is         *)
(* recorded for, and whether the types agreed.                             *)
(***************************************************************************)
Replaced(node, paths) == [node |-> node, paths |-> paths, ok |-> TRUE]
TypeMismatch == [node |-> Absent, paths |-> {}, ok |-> FALSE]

RECURSIVE MergeKids(_, _, _), MergeKey(_, _, _)

(* Mutant: a key new to the merged tree is not recorded.                   *)
MergeKeyUnrecorded(dst, src, path) ==
  CASE src = Unset -> Replaced(Absent, {path})
    [] src # Unset /\ dst = Absent -> Replaced(src, {})
    [] src.t = "table" /\ dst.t = "table" -> MergeKids(dst, src, path)
    [] OTHER -> Replaced(src, {path})

MergeKey(dst, src, path) ==
  CASE src = Unset -> Replaced(Absent, {path})
    [] src # Unset /\ dst = Absent -> Replaced(src, Leaves(src, path))
    [] src.t = "table" /\ dst.t = "table" -> MergeKids(dst, src, path)
    [] src.t = "keyed" /\ dst.t = "keyed" -> MergeKids(dst, src, path)
    [] src.t \in ArrayTypes /\ dst # Absent /\ {src.t, dst.t} # {"keyed"} ->
         Replaced(src, {path})
    [] OTHER -> IF src.t # "table" /\ src.t = dst.t
                THEN Replaced(src, {path}) ELSE TypeMismatch

(* mergeByKey merges the elements of two arrays as if they were tables.    *)
MergeKids(dst, src, path) ==
  LET Of(node, k) == IF k \in DOMAIN node.kids THEN node.kids[k] ELSE Absent
      merged == [k \in DOMAIN src.kids |->
                   MergeKey(Of(dst, k), src.kids[k], Append(path, k))]
      After(k) == IF k \in DOMAIN merged THEN merged[k].node ELSE dst.kids[k]
      keys == {k \in DOMAIN dst.kids \cup DOMAIN src.kids : After(k) # Absent}
  IN [node |-> [dst EXCEPT !.kids = [k \in keys |-> After(k)]],
      paths |-> UNION {merged[k].paths : k \in DOMAIN merged},
      ok |-> \A k \in DOMAIN merged : merged[k].ok]

Merge(dst, src) == MergeKids(dst, src, <<>>)

RECURSIVE SetLeaf(_, _, _)
(* The narrow writers' update of a parsed file: what is in the way of the  *)
(* path and is not a table gives way to one.                               *)
SetLeaf(node, path, leaf) ==
  IF path = <<>> THEN leaf
  ELSE LET table == IF node.t = "table" THEN node ELSE Table(EmptyKids)
           k == Head(path)
           kid == IF k \in DOMAIN table.kids THEN table.kids[k] ELSE Absent
       IN Table([j \in DOMAIN table.kids \cup {k} |->
                   IF j = k THEN SetLeaf(kid, Tail(path), leaf)
                            ELSE table.kids[j]])

(***************************************************************************)
(* Reference, without recursion over keys: the source that decides a path  *)
(* is the highest that gives it a leaf or unsets it or something above it. *)
(***************************************************************************)
UnsetBy(tree, path) == \E q \in Prefixes(path) : At(tree, q) = Unset
Touches(tree, path) == UnsetBy(tree, path) \/ path \in Leaves(tree, <<>>)
=============================================================================
