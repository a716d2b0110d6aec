----------------------------- MODULE BoundedQueue -----------------------------
(***************************************************************************)
(* What the kernel's queue promises: a sequence of at most Length items,   *)
(* put at either end, taken from the front one at a time, or all dropped.  *)
(***************************************************************************)
EXTENDS Naturals, Sequences

CONSTANTS Items, NoItem, Length

VARIABLES
  contents,   \* the items, the next one to be taken first
  delivered   \* the item given to a reader last

queueVars == <<contents, delivered>>

Init == contents = <<>> /\ delivered = NoItem

Put(x) ==
  /\ Len(contents) < Length
  /\ contents' \in {Append(contents, x), <<x>> \o contents}
  /\ UNCHANGED delivered

Take ==
  /\ contents # <<>>
  /\ contents' = Tail(contents)
  /\ delivered' = Head(contents)

Peek ==
  /\ contents # <<>>
  /\ delivered' = Head(contents)
  /\ UNCHANGED contents

Reset == contents' = <<>> /\ UNCHANGED delivered

Next ==
  \/ \E x \in Items : Put(x)
  \/ Take \/ Peek \/ Reset

Spec == Init /\ [][Next]_queueVars
=============================================================================
