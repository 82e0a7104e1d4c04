------------------------------- MODULE MCAuth -------------------------------
(***************************************************************************)
(* The parts of authentication, each on its own small instance: a          *)
(* behaviour runs the part that Init draws.                                *)
(***************************************************************************)
EXTENDS OAuth, Registration, TLC

VARIABLE part

\* Redirect targets: a web page, the loopback interface with and without a
\* port, a private-use scheme.
Uri == [kind |-> "https", host |-> <<"org", "app">>, scheme |-> <<>>, port |-> 0,
        userinfo |-> FALSE, fragment |-> FALSE]
WebUri == [Uri EXCEPT !.host = <<"org", "app", "www">>]
LoopUri == [Uri EXCEPT !.kind = "http", !.host = <<"localhost">>]
LoopPort == [LoopUri EXCEPT !.port = 1]
AppUri == [Uri EXCEPT !.kind = "private", !.host = <<>>, !.scheme = <<"org", "app", "x">>]
MCUris == {LoopPort, AppUri}

\* A native client, and three that are refused: a web client with a loopback
\* target, one for another site's page, one without the code grant.
Native == [client_uri |-> {Uri}, pages |-> {WebUri}, redirects |-> {LoopUri, AppUri}, native |-> TRUE,
           responses |-> {}, grants |-> {"authorization_code", "refresh_token", "implicit"}]
MCMetadata == {Native, [Native EXCEPT !.native = FALSE],
               [Native EXCEPT !.redirects = {[Uri EXCEPT !.host = <<"org", "other">>]}],
               [Native EXCEPT !.grants = {"implicit"}]}
MCAllowlist == {<<"localhost">>, <<"org", "app", "x">>}
MCScopes == {[devices |-> {"d"}, other |-> FALSE], [devices |-> {}, other |-> TRUE]}

authVars == <<oauthVars, regVars, limitVars, rdvVars, part>>

Init ==
    /\ OAuthInit /\ RegInit /\ LimitsInit /\ RdvInit
    /\ part \in {"requests", "grants", "tokens", "register", "limits", "rendezvous"}
    /\ part \notin {"requests", "grants"} => \A u \in OUsers : accounts[u] = "none"
    /\ part # "register" <=> \A t \in RTokens : rtokens[t] = NoRow

Next ==
    /\ UNCHANGED part
    /\ \/ part = "requests" /\ (RequestStep \/ SharedStep) /\ UNCHANGED <<regVars, limitVars, rdvVars>>
       \/ part = "grants" /\ (GrantStep \/ SharedStep) /\ UNCHANGED <<regVars, limitVars, rdvVars>>
       \/ part = "tokens" /\ (TokenStep \/ RegisterStep \/ ProofsAge) /\ UNCHANGED <<oauthVars, limitVars, rdvVars>>
       \/ part = "register" /\ (ProofStep \/ RegisterStep \/ ProofsAge) /\ UNCHANGED <<oauthVars, limitVars, rdvVars>>
       \/ part = "limits" /\ LimitsNext /\ UNCHANGED <<oauthVars, regVars, rdvVars>>
       \/ part = "rendezvous" /\ RdvNext /\ UNCHANGED <<oauthVars, regVars, limitVars>>

\* The members of these sets are interchangeable.
Symmetry == Permutations(RegRequests) \cup Permutations(Uiaa) \cup Permutations(RUsers)

Spec == Init /\ [][Next]_authVars
=============================================================================
