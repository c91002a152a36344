----------------------------- MODULE MCSession ------------------------------
(* An instance of Session for TLC.                                         *)
EXTENDS Session

(* SIGTERM is listed, another name is not.                                 *)
Listed == [s \in {"TERM"} |-> 15]

=============================================================================
