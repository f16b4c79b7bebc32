---------------------------- MODULE MCClientCall ----------------------------
(***************************************************************************)
(* Instances of ClientCall: two calls to a crew of two other Members.      *)
(***************************************************************************)
EXTENDS ClientCall, TLC

CONSTANTS c1, c2, m1, m2

TwoCalls == {c1, c2}
TwoMembers == <<m1, m2>>
OneMember == <<m1>>
\* The second call is one more Follow-up: calls meet only in the line of an
\* endpoint.
MixedKinds == c1 :> {<<"follow-up", "sdk">>, <<"broadcast", "sdk">>, <<"broadcast", "local">>,
                     <<"inbox", "local">>, <<"inbox", "sdk">>, <<"redirect", "cli">>}
              @@ c2 :> {<<"follow-up", "local">>}
\* A plain message, an empty list, the largest message that is taken and one more.
Plain == [text |-> "ok", list |-> "none", size |-> 1]
Edge == 7
ManyMessages == c1 :> {Plain, [Plain EXCEPT !.list = "empty"], [Plain EXCEPT !.list = "edged"],
                       [Plain EXCEPT !.size = Edge], [Plain EXCEPT !.size = Edge + 1],
                       [Plain EXCEPT !.list = "empty", !.size = Edge]}
                @@ c2 :> {Plain}
PlainMessages == c1 :> {Plain} @@ c2 :> {Plain}
AskKinds == c1 :> {"ask"} \X Surfaces @@ c2 :> {}
=============================================================================
