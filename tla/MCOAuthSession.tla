---------------------------- MODULE MCOAuthSession ----------------------------
(* Two commands at a time, two servers and three sessions: enough for a     *)
(* login that replaces a session at another server while a second command   *)
(* reads, rewrites or removes the profile.                                  *)
EXTENDS OAuthSession, TLC

(* A URL or none, a static token, OAuth, OAuth traded for a static token.  *)
FewChoices ==
    {[NoFlags EXCEPT !.api = api] : api \in Api}
    \union {[NoFlags EXCEPT !.auth = "static"], [NoFlags EXCEPT !.oauth = "on"],
            [NoFlags EXCEPT !.oauth = "off", !.auth = "static"]}

(* The same, the token removed, and OAuth given up for nothing. *)
AllChoices ==
    FewChoices \union {[NoFlags EXCEPT !.auth = "none"],
                       [NoFlags EXCEPT !.oauth = "off"]}

Symmetric == Permutations(Commands) \union Permutations(Servers)
=============================================================================
