------------------------------- MODULE MCVfs -------------------------------
(* Vfs for TLC, where the source of a cp or mv may be its target. *)
EXTENDS Vfs

SmallNames == {"a", "fat", "proc", "info"}
SmallLength == [c \in SmallNames \cup Dots |-> IF c \in {"fat", "."} THEN 1 ELSE 2]
SmallFold == [c \in SmallNames |-> c]

\* The same file under two paths.
SmallAsked == {<<"a">>, <<"fat">>, <<"..", "/", "a">>}
SmallValues == {<<2>>}
SmallCopies == {<<<<"a">>, <<"..", "/", "a">>>>}
=============================================================================
