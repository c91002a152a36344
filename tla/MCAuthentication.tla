-------------------------- MODULE MCAuthentication --------------------------
(* Instances of Authentication for TLC.                                    *)
EXTENDS Authentication

(* No methods, one, several in another order than the server's, and a      *)
(* method that is listed twice.                                            *)
Lists == {<<>>, <<"publickey">>, <<"keyboard-interactive", "password", "publickey">>,
          <<"publickey", "password", "publickey", "keyboard-interactive">>}
Keys == <<"k1", "k2">>

=============================================================================
