---------------------------- MODULE MemoryAccess ----------------------------
(* Who may read, write and delete what in the memory service: grants of the       *)
(* configuration (memory_config.py), the scope and bank that follow from them      *)
(* (memory.py), what a chat request with memory becomes (memory.prepare), and who  *)
(* controls an operation of the outbox (memory_gateway.py).                        *)
(*                                                                                 *)
(* A data class is its index in data_classes.  A bank or operation id is a keyed   *)
(* hash of the values it is made of, and stands for them here.                     *)
EXTENDS Integers, FiniteSets

CONSTANTS
    Nothing,                  \* no scope, no grant, no session
    Clients, Projects, Shared,
    Highest                   \* the highest data class

ASSUME NothingAssumption ==
    /\ Nothing \notin Shared /\ IsFiniteSet(Clients) /\ IsFiniteSet(Projects) /\ Highest \in Nat

Classes == 0..Highest
Denied == [status |-> 403]
NotFound == [status |-> 404]
Granted(x) == [status |-> 200, value |-> x]
IsDenied(x) == x.status # 200
HigherOf(a, b) == IF a >= b THEN a ELSE b

----------------------------------------------------------------------------
(* The configuration *)

GrantType == [read : BOOLEAN, write : BOOLEAN, delete : BOOLEAN, class : Classes,
              cloud : BOOLEAN, private : BOOLEAN, scope : Shared \cup {Nothing}]
SharedType == [class : Classes, cloud : BOOLEAN]
\* A client: [owner, strategy, class, autoRetain, standard, projects].
PolicyOf(owner, strategy, class, projects) ==
    [owner |-> owner, strategy |-> strategy, class |-> class, projects |-> projects,
     standard |-> IF strategy \in {"auto", "hybrid"} THEN CHOOSE p \in DOMAIN projects : TRUE ELSE Nothing,
     autoRetain |-> strategy = "auto"]

\* parse_client_memory and what config.py adds for shared scopes.
ValidGrant(shared, g) ==
    /\ g.private => ~g.cloud
    /\ g.scope # Nothing => /\ g.scope \in DOMAIN shared
                            /\ shared[g.scope].class = g.class
                            /\ g.private => ~shared[g.scope].cloud
ValidPolicy(shared, c) ==
    /\ \A p \in DOMAIN c.projects : ValidGrant(shared, c.projects[p])
    /\ c.strategy \in {"auto", "hybrid"} => c.owner = "skirnir" /\ c.standard \in DOMAIN c.projects
    /\ c.autoRetain => c.strategy = "auto"

----------------------------------------------------------------------------
(* Scopes and banks *)

\* scope_for_principal, with the grants and shared scopes of the moment.
Managed(c, explicit) == c.strategy # "off" /\ (c.owner = "skirnir" \/ (explicit /\ c.strategy = "manual"))
ScopeFor(shared, policy, client, project, read, write, explicit) ==
    LET c == policy[client]
        g == c.projects[project]
        common == g.scope # Nothing
        fits == common => g.scope \in DOMAIN shared /\ shared[g.scope].class = g.class
        open == common /\ shared[g.scope].cloud
    IN  IF \/ project \notin DOMAIN c.projects \/ ~Managed(c, explicit)
           \/ (read /\ ~g.read) \/ (write /\ ~g.write)
           \/ (write /\ c.class > g.class) \/ ~fits
        THEN Denied
        ELSE Granted([client |-> client, project |-> project, class |-> g.class,
                      read |-> g.read, write |-> g.write, delete |-> g.delete,
                      shared |-> g.scope, cloud |-> g.cloud /\ (common => open),
                      private |-> g.private /\ ~g.cloud /\ ~open])

Bank(s) == IF s.shared # Nothing THEN <<"shared", s.shared, s.class>>
           ELSE <<"own", s.client, s.project, s.class>>
OperationId(s, event) == <<Bank(s), IF s.shared # Nothing THEN s.client ELSE Nothing, event>>

\* curator_scopes
CuratorScopes(shared, policy, client) ==
    LET scope(p) == ScopeFor(shared, policy, client, p, TRUE, FALSE, TRUE)
        bound == {p \in DOMAIN policy[client].projects :
                     LET g == policy[client].projects[p] IN g.scope # Nothing /\ g.read /\ g.delete}
    IN  {scope(p).value : p \in {q \in bound : ~IsDenied(scope(q))}}

----------------------------------------------------------------------------
(* A chat with memory: memory.prepare *)

\* A request [asks: Nothing or [project, recall, retain], path, class, execution, turn: the
\* project of a managed session or Nothing].  The result is the request as it goes on.
Automatic(c, r) == r.asks = Nothing /\ r.path = "chat" /\ c.strategy \in {"auto", "hybrid"}
Asked(c, r) == IF Automatic(c, r) THEN [project |-> c.standard, recall |-> TRUE, retain |-> c.autoRetain]
               ELSE r.asks
Untouched(r) == Granted([class |-> r.class, execution |-> r.execution, recalls |-> Nothing, retains |-> Nothing])
PrepareChat(shared, policy, client, retention, r) ==
    LET c == policy[client]
        spec == Asked(c, r)
        scope == ScopeFor(shared, policy, client, spec.project, spec.recall, spec.retain, FALSE)
        s == scope.value
        class == HigherOf(s.class, HigherOf(r.class, c.class))
    IN  IF c.strategy = "off" THEN IF r.asks = Nothing THEN Untouched(r) ELSE Denied
        ELSE IF r.asks # Nothing /\ (c.owner # "skirnir" \/ c.strategy = "manual") THEN Denied
        ELSE IF spec = Nothing THEN Untouched(r)
        ELSE IF r.path # "chat" \/ (r.turn # Nothing /\ r.turn # spec.project) \/ IsDenied(scope) THEN Denied
        ELSE IF spec.retain /\ (~retention \/ class > s.class) THEN Denied
        ELSE IF ~s.cloud /\ r.execution = "cloud" THEN Denied
        ELSE Granted([class |-> class, execution |-> IF s.cloud THEN r.execution ELSE "local",
                      recalls |-> IF spec.recall THEN Bank(s) ELSE Nothing,
                      retains |-> IF spec.retain THEN Bank(s) ELSE Nothing])

----------------------------------------------------------------------------
(* Control of an operation: memory_gateway.operation_control *)

\* A row of the outbox [owner, project, bank, deleting]; Nothing: no such operation.
\* `via`: "rest" or "gateway"; what: "status", "cancel", "delete", "retry".
CurationTarget(shared, policy, client, row) ==
    LET fits == {s \in CuratorScopes(shared, policy, client) : row # Nothing /\ Bank(s) = row.bank}
    IN  IF fits = {} THEN NotFound ELSE Granted(CHOOSE s \in fits : TRUE)
OwnScope(shared, policy, client, row) ==
    LET scope == ScopeFor(shared, policy, client, row.project, FALSE, FALSE, TRUE)
    IN  IF ~IsDenied(scope) /\ Bank(scope.value) # row.bank THEN NotFound ELSE scope
MayRewrite(shared, policy, client, row, s, retention) ==
    /\ ScopeFor(shared, policy, client, row.project, FALSE, TRUE, TRUE) = Granted(s) /\ retention
Allowed(shared, policy, client, row, s, what, retention) ==
    CASE what = "cancel" -> s.write
      [] what = "retry" -> IF row.deleting THEN s.delete ELSE MayRewrite(shared, policy, client, row, s, retention)
      [] what = "delete" -> s.delete
      [] what = "status" -> s.read \/ s.write \/ s.delete
Control(shared, policy, client, row, via, what, retention) ==
    LET own == row # Nothing /\ row.owner = client
        scope == IF own THEN OwnScope(shared, policy, client, row)
                 ELSE IF via = "rest" /\ what \in {"status", "delete"} THEN CurationTarget(shared, policy, client, row)
                 ELSE NotFound
    IN  IF IsDenied(scope) THEN scope
        ELSE IF Allowed(shared, policy, client, row, scope.value, what, retention) THEN Granted(what) ELSE Denied

----------------------------------------------------------------------------
(* What follows *)

\* Every configuration of the shared scopes, and every grant that it lets in.
Worlds == UNION {[S -> SharedType] : S \in SUBSET Shared}
GrantsIn(shared) == {g \in GrantType : ValidGrant(shared, g)}
Anyone == CHOOSE c \in Clients : TRUE
SomeProject == CHOOSE p \in Projects : TRUE
OneProject(owner, strategy, class, g) == PolicyOf(owner, strategy, class, [p \in {SomeProject} |-> g])
ScopesIn(shared, client) ==
    LET policies == {[c \in {client} |-> OneProject("skirnir", "hybrid", 0, g)] : g \in GrantsIn(shared)}
    IN  {ScopeFor(shared, p, client, SomeProject, FALSE, FALSE, TRUE).value : p \in policies}

\* Two clients meet in a bank only by the same shared scope and with the same class; what
\* one of them left there with private addresses never goes to a cloud for the other, and
\* the one's operation is not taken for the other's.
ASSUME BanksKeepApart ==
    \A shared \in Worlds : \A c, d \in Clients : c # d =>
        \A s \in ScopesIn(shared, c), t \in ScopesIn(shared, d) :
            Bank(s) = Bank(t) =>
                /\ s.shared # Nothing /\ s.shared = t.shared /\ s.class = t.class
                /\ s.private => ~t.cloud
                /\ OperationId(s, 1) # OperationId(t, 1)

\* Whatever client, grants and request: what a chat gets from a bank goes no further than
\* the bank (class, cloud), and what it leaves there is not above the bank's class; a
\* request never loses its own class or its wish to stay at home.
Executions == {"auto", "local", "cloud"}
Chats == [asks : {Nothing} \cup [project : {SomeProject}, recall : BOOLEAN, retain : BOOLEAN],
          path : {"chat", "other"}, class : Classes, execution : Executions, turn : {Nothing, SomeProject, "another"}]
Policies(shared) == {OneProject(o, st, class, g) : o \in {"client", "skirnir"}, class \in Classes,
                     st \in {"legacy", "off", "manual", "auto", "hybrid"}, g \in GrantsIn(shared)}
SomeWorld == [n \in Shared |-> [class |-> Highest, cloud |-> FALSE]]
ASSUME WordsStayInTheirClass ==
    \A c \in {p \in Policies(SomeWorld) : ValidPolicy(SomeWorld, p)}, r \in Chats, retention \in BOOLEAN :
        LET g == c.projects[SomeProject]
            cloud == g.cloud /\ (g.scope = Nothing \/ SomeWorld[g.scope].cloud)
            a == PrepareChat(SomeWorld, [d \in {Anyone} |-> c], Anyone, retention, r)
        IN  ~IsDenied(a) =>
                /\ a.value.class >= r.class
                /\ r.execution = "local" => a.value.execution = "local"
                /\ a.value.recalls # Nothing => /\ a.value.class >= g.class /\ g.read
                                                /\ cloud \/ a.value.execution = "local"
                /\ a.value.retains # Nothing => /\ a.value.class <= g.class /\ g.write /\ retention
                                                /\ c.class <= g.class

\* Nobody learns of another client's operation, or touches it, but a curator of its shared
\* scope, who may see and delete it; and nobody of his own once his grant leads to another
\* bank.  An answer that an unknown operation would get as well reveals nothing.
Rows(shared, owner) == {[owner |-> owner, project |-> SomeProject, bank |-> b, deleting |-> d] :
                          b \in {Bank(s) : s \in ScopesIn(shared, owner)}, d \in BOOLEAN}
Whats == {"status", "cancel", "delete", "retry"}
ASSUME ForeignOperationsAreHidden ==
    \A shared \in Worlds, owner \in Clients : \A g \in GrantsIn(shared), row \in Rows(shared, owner) :
        \A via \in {"rest", "gateway"}, what \in Whats, strategy \in {"legacy", "off", "manual", "hybrid"} :
            LET policy == [c \in {Anyone} |-> OneProject("skirnir", strategy, 0, g)]
                curates == /\ strategy # "off" /\ g.scope # Nothing /\ g.read /\ g.delete
                           /\ row.bank = <<"shared", g.scope, g.class>>
                a == Control(shared, policy, Anyone, row, via, what, TRUE)
            IN  IF owner = Anyone
                THEN ~IsDenied(a) => row.bank = Bank(ScopeFor(shared, policy, Anyone, SomeProject, FALSE, FALSE, TRUE).value)
                ELSE /\ ~IsDenied(a) => curates /\ what \in {"status", "delete"} /\ via = "rest"
                     /\ ~curates => a = Control(shared, policy, Anyone, Nothing, via, what, TRUE)
=============================================================================
