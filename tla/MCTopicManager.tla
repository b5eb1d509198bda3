---------------------------- MODULE MCTopicManager ----------------------------
(***************************************************************************)
(* Names for TLC: "/a", "/a/b" and "/c" as sequences of parts, with rules  *)
(* for "/a", "/a/b" and "/c" whose replacements meet each other and the    *)
(* names.                                                                  *)
(***************************************************************************)
EXTENDS TopicManager

a == <<"a">>
ab == <<"a", "b">>
c == <<"c">>
d == <<"d">>

Order == <<a, ab, c>>
Targets == {a, c, d}
=============================================================================
