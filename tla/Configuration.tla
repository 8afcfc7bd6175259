---------------------------- MODULE Configuration ----------------------------
(* The configuration of the router: config.yaml, which comes by deploy, and        *)
(* roles.yaml, which the UI writes over it (config.py, settings.py, and the        *)
(* handlers of admin.py that change it).                                           *)
(*                                                                                 *)
(* A file, a request and the configuration in use are mappings, with the fields    *)
(* that relate them to each other. Types, ranges and spelling of single values are *)
(* one question: whether the value is a Problem.                                                   *)
EXTENDS Integers, Sequences, FiniteSets
LOCAL INSTANCE TLC
LOCAL INSTANCE SequencesExt

CONSTANTS
    Null,            \* a field without a value
    Problem,         \* a value that cannot be read; the answer to a request that is refused
    Bases, Changes   \* the config.yaml files and the requests of the UI to check with

\* {**a, **b}, and d.get(k, default)
With(a, b) == b @@ a
At(f, k, default) == IF k \in DOMAIN f THEN f[k] ELSE default
Without(f, S) == [k \in DOMAIN f \ S |-> f[k]]
Empty == [k \in {} |-> Null]

----------------------------------------------------------------------------
(* What is a configuration *)

Classes == <<"public", "internal", "personal", "secret">>
Engines == {"rules", "jevlike", "local_llm", "tfidf", "embed"}

\* validate_schema: unknown keys, and sections that are none, are errors.
SchemaOk(c) == c.unknown = {}

ModelOk(c, m) ==
    IF At(c.models[m], "cloud", Null) # Null THEN c.models[m].cloud \in DOMAIN c.providers
    ELSE At(c.models[m], "weights", Null) # Null
RoleOk(c, r) ==
    /\ \A i \in DOMAIN c.roles[r].tiers : c.roles[r].tiers[i] \in DOMAIN c.models
    /\ At(c.roles[r], "priority", "normal") \in {"interactive", "normal", "batch"}
    /\ \A kind \in {"canary", "shadow"} : At(c.roles[r], kind, Null) \in DOMAIN c.models \cup {Null}

ClientOk(c, n) ==
    LET k == c.clients[n]
    IN  /\ \A f \in DOMAIN k : k[f] # Problem
        /\ At(k, "data_class", Null) \in Range(Classes) \cup {Null}
        /\ At(k, "privacy_check", FALSE) => c.privacy
        /\ At(k, "handoff", {}) \subseteq DOMAIN c.clients
        /\ \A g \in Range(At(k, "grants", <<>>)) :
            g.scope # Null =>
                /\ g.scope \in DOMAIN c.scopes /\ c.scopes[g.scope].class = g.class
                /\ ~(g.addresses /\ c.scopes[g.scope].cloud)
\* A provider: kind and key, a host of the allowlist, HTTPS but for a literal loopback.
ProviderOk(c, p) ==
    LET k == c.providers[p]
    IN  /\ k.kind \in {"openai", "anthropic"} /\ k.key /\ k.host \in c.allow
        /\ k.https \/ k.host \in {"127.0.0.1", "::1"}
        /\ At(k, "max_data_class", Null) \in Range(Classes) \cup {Null}
DecisionOk(c) ==
    LET d == c.decision
    IN  d.enabled =>
        /\ d.role \notin DOMAIN c.roles
        /\ Cardinality(d.options) >= 2 /\ d.options \subseteq DOMAIN c.roles
        /\ d.default \in d.options /\ d.light \subseteq d.options
        /\ Range(d.chain) \subseteq Engines
        /\ Range(d.chain) \ {"rules"} \subseteq d.equipped   \* endpoint, model or path

\* Config.parse
Valid(c) ==
    /\ SchemaOk(c) /\ \A r \in DOMAIN c.roles : RoleOk(c, r)
    /\ \A m \in DOMAIN c.models : ModelOk(c, m)
    /\ \A n \in DOMAIN c.clients : ClientOk(c, n)
    /\ \A p \in DOMAIN c.providers : ProviderOk(c, p)
    /\ c.manager => c.sessions
    /\ c.outbox => c.hindsight /\ c.sessions
    /\ DecisionOk(c)

----------------------------------------------------------------------------
(* Settings *)

\* A path is [name], or [name, entity] of a client or provider; spec_for knows these.
Nullable == {"max_priority", "requests_per_minute", "data_class", "ip"}
OfClient == {"roles", "models", "cloud"} \cup Nullable
Editable == {"mode", "max_cloud_data_class"} \cup OfClient

\* coerce, with what it looks up in the configuration so far.
Accepts(c, path, value) ==
    /\ path.name \in Editable /\ value # Problem
    /\ path.name = "mode" => ~c.locked
    /\ path.name \in OfClient => path.entity \in DOMAIN c.clients
    /\ value = Null => path.name \in Nullable
    /\ path.name = "max_cloud_data_class" => value \in Range(Classes)
    /\ path.name = "roles" => value \subseteq DOMAIN c.roles \cup {"*"}
SetTo(c, path, value) ==
    IF path.name \notin OfClient THEN [c EXCEPT !.router = With(@, path.name :> value)]
    ELSE [c EXCEPT !.clients[path.entity] =
            IF value = Null THEN Without(@, {path.name}) ELSE With(@, path.name :> value)]
\* apply: one after the other, or not at all.
Apply(c, settings) ==
    FoldLeft(LAMBDA t, p : IF t = Problem \/ ~Accepts(t, p, settings[p]) THEN Problem ELSE SetTo(t, p, settings[p]),
             c, SetToSeq(DOMAIN settings))

----------------------------------------------------------------------------
(* Both files *)

Sizing == {"weights", "real"}
\* merge_models: a measurement is replaced as a whole.
MergeModels(base, overlay) ==
    With(base, [m \in DOMAIN overlay |->
        LET b == At(base, m, Empty)
        IN  With(IF DOMAIN overlay[m] \cap Sizing # {} THEN Without(b, Sizing) ELSE b, overlay[m])])
\* Config.merged. Roles of roles.yaml hide all others; clients and models are added.
Merged(base, ov) ==
    LET roles == IF "roles" \in DOMAIN ov
                 THEN [r \in DOMAIN ov.roles |-> With(At(base.roles, r, Empty), ov.roles[r])] ELSE base.roles
        over == At(ov, "clients", Empty)
        clients == With(base.clients, [n \in DOMAIN over |-> With(At(base.clients, n, Empty), over[n])])
        c == [base EXCEPT !.roles = roles, !.clients = clients, !.models = MergeModels(@, At(ov, "models", Empty)),
                          !.router = IF "expose" \in DOMAIN ov THEN With(@, "expose" :> ov.expose) ELSE @]
    IN  Apply(c, At(ov, "settings", Empty))
\* The probe of reload and write_overrides: Problem or the configuration to use.
Loaded(base, ov) == LET c == Merged(base, ov) IN IF c = Problem \/ ~Valid(c) THEN Problem ELSE c

----------------------------------------------------------------------------
(* The running router: its files, the configuration in use, the runtime switch of the mode *)

\* load, at the start: an invalid configuration ends it.
Started(base, ov) ==
    IF Loaded(base, ov) = Problem THEN Problem
    ELSE [base |-> base, ov |-> ov, run |-> Loaded(base, ov), switch |-> Null]
\* client_auth_mode
Mode(s) == IF s.switch # Null THEN s.switch ELSE At(s.run.router, "mode", "observe")

\* write_overrides: the file and then the configuration, or neither.
Written(s, new) ==
    IF Loaded(s.base, new) = Problem THEN Problem
    ELSE [s EXCEPT !.ov = new, !.run = Loaded(s.base, new)]

\* handle_client_token
NewToken(s, n) ==
    LET clients == At(s.ov, "clients", Empty)
    IN  IF n \notin DOMAIN s.run.clients THEN Problem
        ELSE Written(s, With(s.ov, "clients" :> With(clients, n :> With(At(clients, n, Empty), "token" :> "new"))))

\* _estimate_unknown_tier_models: a model of a tier that a node has is estimated.
OnNodes == {"found"}
Estimated(s, b) ==
    LET models == At(b, "models", Empty)
        used == UNION {Range(b.roles[r].tiers) : r \in DOMAIN At(b, "roles", Empty)}
        unknown == used \ (DOMAIN s.run.models \cup DOMAIN models)
    IN  IF ~(unknown \subseteq OnNodes) THEN Problem
        ELSE IF unknown = {} THEN b
        ELSE With(b, "models" :> With(models, [m \in unknown |-> "weights" :> "estimate"]))

\* _overrides_from_request, with _roles_from, _models_from and _clients_from.
ClientFields == OfClient \cup {"note"}
Readable(s, b) ==
    /\ \A r \in DOMAIN At(b, "roles", Empty) : b.roles[r].tiers # <<>>
    /\ \A m \in DOMAIN At(b, "models", Empty) :
        LET e == b.models[m]
        IN  IF "cloud" \in DOMAIN e THEN e.cloud \in DOMAIN s.run.providers
            ELSE DOMAIN e \subseteq {"weights", "parallel"} /\ At(e, "weights", Problem) # Problem
    /\ \A n \in DOMAIN At(b, "clients", Empty) :
        DOMAIN b.clients[n] \subseteq ClientFields /\ \A f \in DOMAIN b.clients[n] : b.clients[n][f] # Problem

\* _merge_overrides: a local entry that repeats what is measured leaves the measurement.
MergedModels(cur, new) ==
    LET kept(m) == m \in DOMAIN cur /\ At(cur[m], "real", FALSE) /\ "cloud" \notin DOMAIN new[m]
                   /\ At(cur[m], "weights", Null) = At(new[m], "weights", Null)
    IN  With(cur, [m \in DOMAIN new |->
            IF ~kept(m) THEN new[m]
            ELSE IF "parallel" \in DOMAIN new[m] THEN With(cur[m], "parallel" :> new[m].parallel) ELSE cur[m]])
MergedSettings(cur, new) ==
    With(Without(cur, DOMAIN new), Without(new, {p \in DOMAIN new : new[p] = Null}))
MergedClients(s, new) ==
    LET cur == At(s.ov, "clients", Empty)
        created(n) == IF n \notin DOMAIN s.base.clients \cup DOMAIN cur THEN "created" :> TRUE ELSE Empty
    IN  With(cur, [n \in DOMAIN new |-> With(With(At(cur, n, Empty), new[n]), created(n))])

\* The sections of a request that are there, merged in this order; deletions last.
Sections(s, b) ==
    LET section(k, new(_)) == IF k \in DOMAIN b THEN k :> new(b[k]) ELSE Empty
        models == section("models", LAMBDA m : MergedModels(At(s.ov, "models", Empty), m))
        settings == section("settings", LAMBDA p : MergedSettings(At(s.ov, "settings", Empty), p))
        clients == section("clients", LAMBDA n : MergedClients(s, n))
    IN  With(With(b, models), With(settings, clients))
DeletesModels(s, ov) ==
    IF "delete_models" \notin DOMAIN ov THEN ov
    ELSE LET gone == ov.delete_models \ DOMAIN s.base.models
             roles == With(At(s.ov, "roles", Empty), At(ov, "roles", Empty))
             all == With(At(s.ov, "models", Empty), At(ov, "models", Empty))
         IN  IF \E r \in DOMAIN roles : Range(roles[r].tiers) \cap gone # {} THEN Problem
             ELSE With(Without(ov, {"delete_models"}), "models" :> Without(all, gone))
\* What a request took out of the settings comes back here from those in the file.
DeletesClients(s, ov) ==
    IF ov = Problem \/ "delete_clients" \notin DOMAIN ov THEN ov
    ELSE LET gone == ov.delete_clients
             clients == With(At(s.ov, "clients", Empty), At(ov, "clients", Empty))
             settings == With(At(s.ov, "settings", Empty), At(ov, "settings", Empty))
             theirs == {p \in DOMAIN settings : p.entity \in gone}
         IN  IF gone \cap DOMAIN s.base.clients # {} THEN Problem
             ELSE With(Without(ov, {"delete_clients"}),
                       ("clients" :> Without(clients, gone)) @@ ("settings" :> Without(settings, theirs)))
MergeOverrides(s, b) ==
    LET ov == DeletesClients(s, DeletesModels(s, Sections(s, b)))
        new == With(s.ov, ov)
    IN  IF ov = Problem THEN Problem
        ELSE Without(new, {k \in {"settings", "clients"} : k \in DOMAIN new /\ new[k] = Empty})

\* handle_config_put; the persistent mode replaces the runtime switch.
Put(s, b) ==
    LET e == IF Readable(s, b) THEN Estimated(s, b) ELSE Problem
        new == IF e = Problem THEN Problem ELSE MergeOverrides(s, e)
        w == IF new = Problem THEN Problem ELSE Written(s, new)
    IN  IF w = Problem \/ \A p \in DOMAIN At(b, "settings", Empty) : p.name # "mode" THEN w
        ELSE [w EXCEPT !.switch = Null]
\* measure_model: the new measurement replaces the entry of roles.yaml.
Measured(s, m) ==
    LET entry == ("weights" :> "measured") @@ ("real" :> TRUE)
    IN  Written(s, With(s.ov, "models" :> With(At(s.ov, "models", Empty), m :> entry)))
\* handle_client_auth
SwitchMode(s, mode) == IF s.run.locked THEN Problem ELSE [s EXCEPT !.switch = mode]

\* A new config.yaml and SIGHUP: what cannot be loaded changes nothing.
Deployed(s, base) ==
    LET c == Loaded(base, s.ov)
    IN  [s EXCEPT !.base = base, !.run = IF c = Problem THEN @ ELSE c]

----------------------------------------------------------------------------
(* What holds after two operations, and of a third *)

Step(s, op) ==
    LET t == CASE op.do = "put" -> Put(s, op.arg)
               [] op.do = "token" -> NewToken(s, op.arg)
               [] op.do = "measure" -> Measured(s, op.arg)
               [] op.do = "switch" -> SwitchMode(s, op.arg)
               [] op.do = "deploy" -> Deployed(s, op.arg)
    IN  IF t = Problem THEN s ELSE t
Do(what, args) == [do : {what}, arg : args]
Operations == Do("put", Changes) \cup Do("token", {"panel", "car"}) 
              \cup Do("switch", {"observe"}) \cup Do("measure", {"found"})
After(ops) == {FoldLeft(Step, Started(b, Empty), <<o, p>>) : b \in Bases, o \in ops, p \in ops}

ASSUME BasesAssumption == \A b \in Bases : Started(b, Empty) # Problem

\* What the UI saved, the router starts with, and then it is what runs now.
ASSUME SavedStartsAgain ==
    \A s \in After(Operations) : Loaded(s.base, s.ov) = s.run

\* Deploys in between change that: what runs is always one whole valid configuration,
\* but roles.yaml may no longer fit config.yaml.
ASSUME RunsAWholeConfiguration ==
    \A s \in After(Operations \cup Do("deploy", Bases)) :
        Valid(s.run) /\ \E b \in Bases : Loaded(b, s.ov) = s.run

\* Where the mode is locked, no request of the UI changes it.
ASSUME LockedModeStays ==
    \A s \in After(Operations) : s.base.locked => Mode(s) = Mode(Started(s.base, Empty))

\* A deleted client leaves nothing behind that a new one of its name would inherit.
ASSUME DeletedClientLeavesNothing ==
    \A s \in After(Operations) : \A b \in Changes :
        \A n \in At(b, "delete_clients", {}) :
            LET t == Put(s, b)
            IN  t # Problem => /\ n \notin DOMAIN t.run.clients
                               /\ \A p \in DOMAIN At(t.ov, "settings", Empty) : p.entity # n

\* A model whose measurement roles.yaml holds stays measured until a request changes
\* its numbers; one that config.yaml holds does not (_merge_overrides looks at roles.yaml).
ASSUME MeasurementsStay ==
    \A s \in After(Operations) : \A b \in Changes : \A m \in DOMAIN At(s.ov, "models", Empty) :
        LET t == Put(s, b)
            sent == At(At(b, "models", Empty), m, Empty)
        IN  t # Problem /\ At(s.ov.models[m], "real", FALSE) /\ m \in DOMAIN t.run.models
                /\ At(sent, "weights", s.ov.models[m].weights) = s.ov.models[m].weights
            => At(t.run.models[m], "real", FALSE)
=============================================================================
