---------------------------- MODULE MCSessionLoop ----------------------------
(* Instances of SessionLoop for TLC.                                       *)
EXTENDS SessionLoop, TLC

CONSTANTS c1, c2

Alice == [user |-> <<"alice">>, password |-> <<"pw">>, folder |-> <<"home">>]

OneUser == {Alice}

\* A file of the folder, one elsewhere, and a name that is too long.
Names == {<<"home", "f">>, <<"etc", "a", "f">>, <<"home", "a", "b", "f">>}
Homes == {<<"home">>}
Words == {"alice", "pw", "home", "etc", "a", "b", "f"}

\* A client that asks for all there is, five times.
Everything == c1 :> Codes
Five == c1 :> 5

\* Two clients that register, once each.
Registering == [c \in {c1, c2} |-> {"signIn"}]
Once == [c \in {c1, c2} |-> 1]

=============================================================================
