------------------------------ MODULE MCFleet ------------------------------
(* Constants for TLC; the assumptions of Configuration are evaluated with them, for *)
(* two config.yaml files and the requests an operator sends through the UI.         *)
EXTENDS Fleet, Configuration, TLC

\* A role on a measured model and one in the cloud, which the decision engine chooses
\* from, and a client; the mode of client_auth locked or not.
File(locked) ==
    [unknown |-> {}, router |-> ("mode" :> "enforce"), locked |-> locked,
       roles |-> ("assist" :> [tiers |-> <<"qwen">>, priority |-> "interactive"]) @@ ("code" :> [tiers |-> <<"claude">>]),
       models |-> ("qwen" :> ("weights" :> "w" @@ "real" :> TRUE @@ "parallel" :> "1"))
                  @@ ("claude" :> ("cloud" :> "anthropic")),
       clients |-> ("panel" :> ("token" :> "t")), privacy |-> FALSE, scopes |-> Empty,
       providers |-> ("anthropic" :> [kind |-> "anthropic", key |-> TRUE, host |-> "api.anthropic.com", https |-> TRUE]),
       allow |-> {"api.anthropic.com"},
       sessions |-> TRUE, manager |-> FALSE, outbox |-> FALSE, hindsight |-> FALSE,
       decision |-> [enabled |-> TRUE, role |-> "auto", options |-> {"assist", "code"}, default |-> "assist",
                     light |-> {"assist"}, chain |-> <<"rules", "embed">>, equipped |-> {"embed"}]]
TwoFiles == {File(TRUE), File(FALSE)}
Path(name, entity) == [name |-> name, entity |-> entity]
SomeChanges == {
    "clients" :> ("car" :> ("ip" :> "i")),
    "clients" :> ("car" :> ("handoff" :> {"panel"})), "clients" :> ("car" :> ("data_class" :> "unknown")),
    "settings" :> (Path("cloud", "car") :> FALSE),
    ("settings" :> (Path("mode", Null) :> "observe")),
    ("settings" :> (Path("mode", Null) :> Null)) @@ ("delete_clients" :> {"car"}),
    "delete_clients" :> {"car"},
    "roles" :> ("assist" :> [tiers |-> <<"found", "qwen">>] @@ "code" :> [tiers |-> <<"found">>] @@ "fast" :> [tiers |-> <<"qwen">>]),
    "roles" :> ("assist" :> [tiers |-> <<"qwen">>]),
    "roles" :> ("assist" :> [tiers |-> <<"qwen">>] @@ "code" :> [tiers |-> <<"qwen">>]),
    "delete_models" :> {"found"},
    "models" :> ("qwen" :> ("weights" :> "w")),
    "models" :> ("found" :> ("weights" :> "measured" @@ "parallel" :> "2")),
    "models" :> ("found" :> ("weights" :> "w")),
    "settings" :> (Path("roles", "panel") :> {"fast"})}
=============================================================================
