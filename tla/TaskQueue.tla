----------------------------- MODULE TaskQueue -----------------------------
(***************************************************************************)
(* What EventLoop::queueInLoop() promises its callers, without a word      *)
(* about poll(), the eventfd or the swap of pendingFunctors_: callbacks     *)
(* posted by any thread are executed one at a time, each once, in the       *)
(* order in which they were posted.                                         *)
(***************************************************************************)
EXTENDS Sequences

CONSTANT Functors       \* the callbacks a caller can post, each at most once

VARIABLES todo,         \* posted and not yet executed
          done          \* executed, in execution order

vars == <<todo, done>>

Init == todo = <<>> /\ done = <<>>

Post(f) == /\ todo' = Append(todo, f)
           /\ done' = done

Execute == /\ todo # <<>>
           /\ done' = Append(done, Head(todo))
           /\ todo' = Tail(todo)

Next == (\E f \in Functors : Post(f)) \/ Execute

Spec == Init /\ [][Next]_vars
=============================================================================
