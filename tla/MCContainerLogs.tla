-------------------------- MODULE MCContainerLogs --------------------------
(***************************************************************************)
(* Three containers, two of which may fail, and pipes that hold one part.  *)
(***************************************************************************)
EXTENDS ContainerLogs

CONSTANTS c1, c2, c3

\* Both pipes in turn, a line that is too long, more on stderr than its pipe holds
\* and nothing at all.
SmallOutputs ==
  {<<"out", "err", "out">>, <<"out", "err", "long", "out">>, <<"out", "err", "err">>, << >>}

ThreeContainers == <<c1, c2, c3>>

=============================================================================
