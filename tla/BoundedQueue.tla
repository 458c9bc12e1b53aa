---------------------------- MODULE BoundedQueue ----------------------------
(***************************************************************************)
(* What a queue in shared memory promises the processes that share it:     *)
(* blocks are taken in the order they were stored, each once, and no more  *)
(* than Blocks are stored and not taken.  Removing the queue empties it.   *)
(***************************************************************************)
EXTENDS Integers, Sequences

CONSTANTS
  Blocks,  \* capacity
  Values   \* what a block may hold

VARIABLES
  contents,  \* blocks stored and not taken, oldest first
  taken      \* the block taken last, 0 before the first

Init == contents = <<>> /\ taken = 0

Store(b) ==
  /\ Len(contents) < Blocks
  /\ contents' = Append(contents, b)
  /\ UNCHANGED taken

Take ==
  /\ contents # <<>>
  /\ taken' = Head(contents)
  /\ contents' = Tail(contents)

Remove == contents' = <<>> /\ UNCHANGED taken

Next == (\E b \in Values : Store(b)) \/ Take \/ Remove

Spec == Init /\ [][Next]_<<contents, taken>>
=============================================================================
