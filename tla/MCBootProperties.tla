-------------------------- MODULE MCBootProperties --------------------------
(* An instance of BootProperties for TLC: the service, and a thread of another *)
(* process that changes and reads the key it sets.                             *)
EXTENDS BootProperties, MCSystemProperties

OneUser == t1 :> {Sys(Text(<<"n">>)), Get("null", 0), Delete} @@ Q :> {}

Frame(kind, text) == [kind |-> kind, key |-> k1, text |-> text]
HostFrames ==
    {Frame("prop", <<"y">>), Frame("prop", <<"z">>), Frame("plain", <<>>), Frame("end", <<>>), Frame("big", <<>>)}

=============================================================================
