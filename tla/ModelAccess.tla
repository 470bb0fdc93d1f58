---------------------------- MODULE ModelAccess ----------------------------
(***************************************************************************)
(* Which model a request runs on: the policy and registry files and the    *)
(* user's groups (src/auth_kerberos.py), the resolution of the requested   *)
(* or remembered model at login, chat and model switch (src/app.py), and   *)
(* the catalogue of live models that app and worker copy from Ollama to    *)
(* Redis (src/llm_gateway.py, src/config.py, src/worker.py).               *)
(*                                                                         *)
(* One user; models are numbered in installer order.  A live model's name  *)
(* is its key, so resolving by name and by key is the same.  The handler   *)
(* of one request is in flight at a time, the worker's refresh beside it.  *)
(***************************************************************************)
EXTENDS Integers, Sequences, FiniteSets

CONSTANTS
    Models,        \* model keys
    DEFAULT_MODEL, \* the configured default, a model key
    Tiers,         \* sequence of categories, "general" first
    Opens,         \* Opens[t]: groups that open category t (MODEL_ACCESS_*_GROUPS)
    Groups,        \* directory groups
    Policies,      \* readable states of model_policies/: [category -> models]
    Registries,    \* readable states of models/catalog.json: [model -> entry]
    MaxChanges,    \* bound: changes of Ollama, the files and the directory
    None

TierSet == {Tiers[i] : i \in DOMAIN Tiers}

ASSUME AccessAssumption ==
    /\ Models \subseteq Nat /\ DEFAULT_MODEL \in Nat
    /\ Opens \in [TierSet -> SUBSET Groups]
    /\ Policies \subseteq [TierSet -> SUBSET Models]
    /\ \A r \in Registries : r \in [Models -> {None} \cup
           [tier : TierSet \cup {None}, validation : BOOLEAN]]
    /\ MaxChanges \in Nat

VARIABLES
    policy,      \* category -> enabled models; {}: category missing, invalid or disabled
    registry,    \* model -> its entry or None; all None: file missing or invalid
    directory,   \* the user's groups in the directory
    validation,  \* the user is INSTALL_TEST_USER
    ollama,      \* models Ollama lists; {}: none, or not reachable
    catalog,     \* llm:model_catalog in Redis; {}: no key
    fetched,     \* catalogue the worker has read and not yet stored, or {}
    handler,     \* the application's request in flight
    session,     \* groups and model_key of the user's tokens, or None
    job,         \* model of the job enqueued by the last request, or None
    changes      \* number of changes so far

accessVars == <<policy, registry, directory, validation, ollama, catalog,
                fetched, handler, session, job, changes>>

files == <<policy, registry, directory, validation>>

Idle == [op |-> "none", asked |-> None, groups |-> {}, seen |-> {}, live |-> FALSE]

-----------------------------------------------------------------------------
(* Authorization                                                            *)

\* load_model_policy_catalog leaves out categories without an enabled model.
Active == {t \in TierSet : policy[t] # {}}

Registered == {m \in Models : registry[m] # None}

\* get_allowed_model_categories_for_user.  Its registry branch is not reached:
\* a validation user with a registry is served from the registry directly.
AllowedTiers(groups) ==
    {t \in Active : validation \/ t = "general" \/ Opens[t] \cap groups # {}}

\* get_allowed_models_for_user
Allowed(groups, models) ==
    IF Active = {} THEN {}
    ELSE IF Registered = {}
    THEN {m \in models : \E t \in AllowedTiers(groups) : m \in policy[t]}
    ELSE {m \in models \cap Registered :
              IF validation THEN registry[m].validation
              ELSE registry[m].tier \in AllowedTiers(groups)}

\* Position of a model in the dictionary get_allowed_models_for_user returns:
\* by category, then by installer order.
Rank(m, groups) ==
    LET Of(i) == IF Registered = {} THEN Tiers[i] \in AllowedTiers(groups) /\ m \in policy[Tiers[i]]
                 ELSE registry[m].tier = Tiers[i]
        in == {i \in DOMAIN Tiers : Of(i)}
    IN  IF in = {} THEN Len(Tiers) + 1 ELSE CHOOSE i \in in : \A k \in in : i <= k

\* pick_available_model: the default, else the first allowed model.
PickAvailableModel(allowed, groups) ==
    IF DEFAULT_MODEL \in allowed THEN DEFAULT_MODEL
    ELSE CHOOSE m \in allowed : \A o \in allowed \ {m} :
             \/ Rank(m, groups) < Rank(o, groups)
             \/ Rank(m, groups) = Rank(o, groups) /\ m < o

\* resolve_requested_model and resolve_model for a logged-in user: the model
\* asked for, else the one of the session, never another one.
ResolveTrustingToken(asked, remembered, allowed) ==
    IF asked = None THEN remembered ELSE IF asked \in allowed THEN asked ELSE None

Resolve(asked, remembered, allowed) ==
    LET wanted == IF asked # None THEN asked ELSE remembered
    IN  IF wanted \in allowed THEN wanted ELSE None

-----------------------------------------------------------------------------
(* The catalogue                                                            *)

\* refresh_model_catalog_loop of the worker: read Ollama, later store the answer.
\* An empty answer raises and is not stored.
WorkerFetch ==
    /\ fetched = {} /\ ollama # {}
    /\ fetched' = ollama
    /\ UNCHANGED <<files, ollama, catalog, handler, session, job, changes>>

WorkerStoreIfMissing ==
    /\ fetched # {}
    /\ catalog' = (IF catalog = {} THEN fetched ELSE catalog) /\ fetched' = {}
    /\ UNCHANGED <<files, ollama, handler, session, job, changes>>

WorkerStore ==
    /\ fetched # {}
    /\ catalog' = fetched /\ fetched' = {}
    /\ UNCHANGED <<files, ollama, handler, session, job, changes>>

\* set_model_catalog gives the key a lifetime of two refresh periods.
CatalogExpires ==
    /\ catalog # {}
    /\ catalog' = {}
    /\ UNCHANGED <<files, ollama, fetched, handler, session, job, changes>>

-----------------------------------------------------------------------------
(* Requests                                                                 *)

\* /api/models and /api/switch-model always ask Ollama; get_model_catalog, used
\* by login and chat, asks it only when the key is gone.  With no model at all a
\* login goes on and the other requests are refused.  The groups are read first:
\* by a login from the directory, by the others from the token.
Begin(op, asked) ==
    LET live == op \in {"models", "switch"} \/ catalog = {}
        seen == IF live THEN ollama ELSE catalog
    IN  /\ handler = Idle
        /\ op = "login" \/ session # None
        /\ op = "login" \/ seen # {}
        /\ handler' = [op |-> op, asked |-> asked, seen |-> seen, live |-> live /\ seen # {},
                       groups |-> IF op = "login" THEN directory ELSE session.groups]
        /\ job' = None
        /\ UNCHANGED <<files, ollama, catalog, fetched, session, changes>>

\* set_model_catalog with what this request read from Ollama.
AppStore ==
    /\ handler.live
    /\ catalog' = handler.seen
    /\ handler' = [handler EXCEPT !.live = FALSE]
    /\ UNCHANGED <<files, ollama, fetched, session, job, changes>>

Answer(op) == handler.op = op /\ ~handler.live /\ handler' = Idle

\* sso_login_entry and login: the directory's groups go into the tokens, with
\* the fallback model, or the default as a placeholder when there is none.
LoginModel(placeholder) ==
    LET allowed == Allowed(handler.groups, handler.seen)
    IN  IF allowed = {} THEN placeholder ELSE PickAvailableModel(allowed, handler.groups)

Login ==
    /\ Answer("login")
    /\ session' = [groups |-> handler.groups, model |-> LoginModel(DEFAULT_MODEL)]
    /\ UNCHANGED <<files, ollama, catalog, fetched, job, changes>>

\* switch_user_model: new tokens with the chosen model, or 403.
SwitchModel ==
    /\ Answer("switch")
    /\ session' = IF handler.asked \in Allowed(handler.groups, handler.seen)
                  THEN [session EXCEPT !.model = handler.asked] ELSE session
    /\ UNCHANGED <<files, ollama, catalog, fetched, job, changes>>

\* get_available_models only lists.
ListModels ==
    /\ Answer("models")
    /\ UNCHANGED <<files, ollama, catalog, fetched, session, job, changes>>

\* api_chat (and the upload and debug-load handlers): a job for the resolved
\* model, or 404 and no job.
Chat ==
    /\ Answer("chat")
    /\ job' = Resolve(handler.asked, session.model, Allowed(handler.groups, handler.seen))
    /\ UNCHANGED <<files, ollama, catalog, fetched, session, changes>>

-----------------------------------------------------------------------------
(* The environment                                                          *)

Change == changes < MaxChanges /\ changes' = changes + 1

OllamaChanges ==
    /\ Change /\ ollama' \in SUBSET Models \ {ollama}
    /\ UNCHANGED <<files, catalog, fetched, handler, session, job>>

FilesChange ==
    /\ Change
    /\ \/ policy' \in Policies \ {policy} /\ UNCHANGED registry
       \/ registry' \in Registries \ {registry} /\ UNCHANGED policy
    /\ UNCHANGED <<directory, validation, ollama, catalog, fetched, handler, session, job>>

DirectoryChanges ==
    /\ Change /\ directory' \in SUBSET Groups \ {directory}
    /\ UNCHANGED <<policy, registry, validation, ollama, catalog, fetched, handler, session, job>>

-----------------------------------------------------------------------------
AccessInit ==
    /\ policy \in Policies /\ registry \in Registries
    /\ directory \in SUBSET Groups /\ validation \in BOOLEAN
    /\ ollama \in SUBSET Models /\ catalog = {} /\ fetched = {}
    /\ handler = Idle /\ session = None /\ job = None /\ changes = 0

Requests ==
    \/ Begin("login", None) \/ Begin("models", None)
    \/ \E m \in Models : Begin("switch", m)
    \/ \E m \in Models \cup {None} : Begin("chat", m)

Handlers == AppStore \/ Login \/ SwitchModel \/ ListModels \/ Chat

AccessNext ==
    \/ Requests \/ Handlers
    \/ WorkerFetch \/ WorkerStore \/ CatalogExpires
    \/ OllamaChanges \/ FilesChange \/ DirectoryChanges

AccessSpec == AccessInit /\ [][AccessNext]_accessVars

\* The worker refreshes every period, handlers run to their end, and a key
\* that nobody writes any more expires.
AccessFairness ==
    /\ WF_accessVars(WorkerFetch) /\ WF_accessVars(WorkerStore)
    /\ WF_accessVars(Handlers)
    /\ WF_accessVars(ollama = {} /\ CatalogExpires)

-----------------------------------------------------------------------------
(* Properties                                                               *)

TiersOf(m) ==
    {t \in TierSet : IF Registered = {} THEN m \in policy[t]
                     ELSE registry[m] # None /\ registry[m].tier = t}

\* A job never runs on a model whose categories are all closed to the groups of
\* the user's last login, nor on one of a category without a policy, whatever
\* the session, the files and the catalogue went through since; the validation
\* user stays within the models marked for it while there is a registry.
WithinGroups ==
    [][/\ job' # None /\ ~validation =>
            \E t \in TiersOf(job') \cap Active :
                t = "general" \/ Opens[t] \cap session.groups # {}
       /\ job' # None /\ validation /\ Registered # {} =>
            job' \in Registered /\ registry[job'].validation]_job

\* The catalogue that requests are resolved with comes back to what Ollama lists,
\* also when a slow request has stored an older list over a newer one, and is
\* gone when Ollama lists nothing any more.
CatalogSettles == []<>(catalog = ollama)

=============================================================================
