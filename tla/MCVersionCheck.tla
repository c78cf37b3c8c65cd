--------------------------- MODULE MCVersionCheck ---------------------------
(***************************************************************************)
(* Versions of up to five parts below the bound, and lists of up to two    *)
(* requirements of every form, malformed ones included.                    *)
(***************************************************************************)
EXTENDS VersionCheck, TLC

CONSTANTS star, bad

Parts == 0 .. 2
MCVersion ==
  {<<a, b>> : a, b \in Parts} \cup {<<1, b, c, d>> : b, c, d \in Parts}
  \cup {<<1, 2, 0, 0, 2>>, <<1, 2, 0, 0, bad>>, <<bad>>, <<2>>, <<star>>}

Texts == {<<0>>, <<1>>, <<2>>, <<1, 1>>, <<1, 2, 1>>, <<1, 1, 1, 1>>,
          <<star>>, <<1, star>>, <<2, star>>, <<1, 1, star>>, <<1, bad>>}

Single ==
  {Exactly(t) : t \in Texts} \cup {AtLeast(t) : t \in Texts}
  \cup {Between(s, t) : s, t \in {<<1>>, <<1, 1>>, <<1, 1, 1, 1>>, <<1, 2, 1>>, <<1, star>>, <<1, 1, star>>}}
  \cup {[bounds |-> <<<<1>>, <<2>>, <<2>>>>, plus |-> FALSE],
        [bounds |-> <<<<1>>, <<2>>>>, plus |-> TRUE]}

Few == {Exactly(<<1>>), Exactly(<<1, star>>), AtLeast(<<1, 1>>),
        Between(<<1, 1>>, <<1, 2, 1>>), Exactly(<<1, bad>>), Between(<<1, 1, star>>, <<2, star>>)}

MCRequirements == {<<>>} \cup {<<r>> : r \in Single} \cup {<<r, s>> : r, s \in Few}

=============================================================================
