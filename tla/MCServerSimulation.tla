------------------------- MODULE MCServerSimulation -------------------------
EXTENDS ServerSimulation

Req(path, user) == [path |-> path, user |-> user]

\* generate_test_requests(), and the edge paths "/api/", "/api/user/",
\* "/api" and "/admin/" with an empty user id.
MCRequests ==
    { Req(<<"", "index.html">>, NoUser),
      Req(<<"", "api", "users">>, NoUser),
      Req(<<"", "api", "user", "alice">>, NoUser),
      Req(<<"", "api", "user", "eve">>, NoUser),
      Req(<<"", "admin", "dashboard">>, "bob"),
      Req(<<"", "admin", "dashboard">>, "alice"),
      Req(<<"", "api", "submit">>, NoUser),
      Req(<<"", "style.css">>, NoUser),
      Req(<<"", "api", "user", "charlie">>, NoUser),
      Req(<<"", "admin", "settings">>, NoUser),
      Req(<<"", "api", "">>, NoUser),
      Req(<<"", "api", "user", "">>, NoUser),
      Req(<<"", "api">>, NoUser),
      Req(<<"", "admin", "">>, "") }

\* run_simulation sends ten requests.
MCMaxRequests == 10

=============================================================================
