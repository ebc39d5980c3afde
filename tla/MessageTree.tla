----------------------------- MODULE MessageTree -----------------------------
(***************************************************************************)
(* What a LOCI message with a list of elements that hold lists of actions  *)
(* is to the program that builds it: a sequence of sequences.  Elements    *)
(* are added at the end, actions at the end of the last element.           *)
(***************************************************************************)
EXTENDS Naturals, Sequences

CONSTANTS Values,    \* what the scalar member of an action may hold
          NoValue    \* what it holds before it is set

VARIABLE tree        \* tree[i][j]: the value of action j of element i

TreeInit == tree = <<>>

AddElement(acts) == tree' = Append(tree, acts)

AddAction(v) ==
    /\ tree # <<>>
    /\ tree' = [tree EXCEPT ![Len(tree)] = Append(@, v)]

SetAction(i, j, v) ==
    /\ i \in DOMAIN tree /\ j \in DOMAIN tree[i]
    /\ tree' = [tree EXCEPT ![i][j] = v]

Replace(t) == tree' = t

TreeNext ==
    \/ \E acts \in {<<>>} \cup {<<v>> : v \in Values} : AddElement(acts)
    \/ \E v \in Values \cup {NoValue} : AddAction(v)
    \/ \E i \in DOMAIN tree : \E j \in DOMAIN tree[i] : \E v \in Values : SetAction(i, j, v)
    \/ \E t \in {<<>>, << <<>> >>} \cup {<< <<v>> >> : v \in Values} : Replace(t)

TreeSpec == TreeInit /\ [][TreeNext]_tree
=============================================================================
