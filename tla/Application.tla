----------------------------- MODULE Application -----------------------------
(***************************************************************************)
(* The process of the application: boot imports the legacy files, phase by *)
(* phase, builds the registry of providers from what config.jsonc now      *)
(* says, and then serves commands and turns, until it is stopped or dies,  *)
(* at any point. Composes AgentProviders, Conversations, Repositories and  *)
(* LegacyStores.                                                           *)
(***************************************************************************)
EXTENDS AgentProviders, Conversations, Repositories, LegacyStores, Sequences

CONSTANT MaxSteps   \* bound on the commands, turns and crashes

ASSUME ApplicationAssumption ==
  /\ Agents = Kinds /\ Unpinned = None /\ NoSession \notin Kinds \cup {None}
  /\ Tables = {"dedup", "tasks"}
  /\ Files = Tables \cup {"sessions", "providers", "repositories", "chat_bindings"}
  /\ RowsOf["sessions"] \subseteq Sessions /\ RowsOf["providers"] \subseteq Kinds
  /\ RowsOf["repositories"] \subseteq Ids /\ RowsOf["chat_bindings"] \subseteq Scopes
  /\ MaxSteps \in Nat

VARIABLES
  phase,    \* of boot; 0 when there is no process
  owed,     \* history: the rows that were in a legacy file or bound, and that no user removed
  steps

appVars == <<providerVars, conversationVars, repositoryVars>>
vars == <<appVars, legacyVars, phase, owed, steps>>

(* runBoot: the phases that change what is modelled, in their order. *)
Order == <<"sessions", "repositories", "chat_bindings", "dedup", "tasks", "seed",
           "providers", "registry">>
Down == 0
Up   == 9
At(p) == phase \in DOMAIN Order /\ Order[phase] = p

Init ==
  /\ ProvidersInit /\ ConversationsInit /\ RepositoriesInit /\ LegacyInit
  /\ phase = Down /\ steps = 0
  /\ owed = [f \in Files |-> legacy[f].rows]

Counted == steps < MaxSteps /\ steps' = steps + 1
Onward  == phase' = phase + 1 /\ UNCHANGED <<owed, steps>>

-----------------------------------------------------------------------------
(* The lock, the config and the database. *)
Starts ==
  /\ phase = Down /\ Onward /\ LoadConfig /\ OpenDb
  /\ UNCHANGED <<conversationVars, legacyVars>>

ProcessEnds == ProvidersDie /\ ConversationsDie /\ RepositoriesDie

(* Boot is aborted: the process ends and is started again. *)
Aborts == phase' = Down /\ ProcessEnds /\ UNCHANGED <<owed, steps>>

(* A row of a legacy file is where the program has it now. *)
Present(f, row) ==
  CASE f = "sessions"      -> session[row] # NoSession
    [] f = "providers"     -> row \in file.providers
    [] f = "repositories"  -> repository[row] # NoUrl
    [] f = "chat_bindings" -> binding[row] # {}
    [] OTHER               -> row \in table[f]

Populated(f) ==
  CASE f = "sessions"      -> \E k \in Sessions : session[k] # NoSession
    [] f = "repositories"  -> Registered # {}
    [] f = "chat_bindings" -> \E s \in Scopes : binding[s] # {}
    [] OTHER               -> table[f] # {}

(* The transaction of each import. *)
ImportRows(f) ==
  LET rows == legacy[f].rows IN
  CASE f = "sessions" ->
         /\ \E pin \in [rows -> Kinds \cup {None}] :
              session' = [k \in Sessions |-> IF k \in rows THEN pin[k] ELSE NoSession]
         /\ UNCHANGED <<providerVars, history, inFlight, turn, repositoryVars, table>>
    [] f = "repositories" ->
         ImportRepositories(rows) /\ UNCHANGED <<providerVars, conversationVars, table>>
    [] f = "chat_bindings" ->
         ImportBindings(rows) /\ UNCHANGED <<providerVars, conversationVars, table>>
    [] OTHER -> ImportTable(f) /\ UNCHANGED appVars

(* The RepositoryStore is constructed once its file has been dealt with. *)
Done(f) ==
  /\ Onward
  /\ IF f = "repositories"
       THEN SeedCounter /\ UNCHANGED <<providerVars, conversationVars, repository, binding, adding, meant>>
       ELSE UNCHANGED appVars

Migrate(f) ==
  /\ At(f)
  /\ \/ (Nothing(f) \/ NoMerge(f, Populated(f)) \/ Unlink(f)) /\ Done(f)
     \/ Corrupt(f) /\ Aborts
     \/ Import(f, Populated(f)) /\ ImportRows(f) /\ UNCHANGED <<phase, owed, steps>>

Seed == At("seed") /\ EnsureSeed /\ Onward /\ UNCHANGED appVars

(* Whether config.jsonc has providers is asked first, and once; their records are then   *)
(* written one by one.                                                                   *)
MigrateProviders ==
  LET rows == legacy["providers"].rows
      had  == data.providers # {} /\ ~ imported
  IN
  /\ At("providers")
  /\ \/ (Nothing("providers") \/ (had /\ SetAside("providers"))) /\ Onward /\ UNCHANGED appVars
     \/ ~ had /\ Corrupt("providers") /\ Aborts
     \/ /\ ~ had /\ legacy["providers"].state = "whole" /\ ~ rows \subseteq data.providers
        /\ \E k \in rows \ data.providers : WriteAtBoot("register", k)
        /\ imported' = TRUE
        /\ UNCHANGED <<conversationVars, repositoryVars, legacy, aside, table, phase, owed, steps>>
     \/ /\ ~ had /\ legacy["providers"].state = "whole" /\ rows \subseteq data.providers
        /\ UNCHANGED providerVars \/ \E k \in Kinds : WriteAtBoot("use", k)
        /\ legacy' = [legacy EXCEPT !["providers"] = Gone] /\ imported' = FALSE
        /\ UNCHANGED <<conversationVars, repositoryVars, aside, table>>
        /\ Onward

Registry ==
  /\ At("registry") /\ BuildRegistry /\ Onward
  /\ UNCHANGED <<conversationVars, repositoryVars, legacyVars>>

Boot ==
  \/ Starts \/ Seed \/ MigrateProviders \/ Registry
  \/ \E f \in Files \ {"providers"} : Migrate(f)

-----------------------------------------------------------------------------
Serving == phase = Up /\ UNCHANGED <<phase>>

ProviderCommand ==
  /\ Serving /\ Counted
  /\ \E c \in Calls :
       \/ setFailureTarget(c) /\ UNCHANGED owed
       \/ \E k \in Kinds :
            \/ (Register(c, k) \/ Use(c, k)) /\ UNCHANGED owed
            \/ Unregister(c, k) /\ owed' = [owed EXCEPT !["providers"] = @ \ {k}]
  /\ UNCHANGED <<conversationVars, repositoryVars, legacyVars>>

ProviderWork ==
  /\ Serving /\ ProvidersStep
  /\ UNCHANGED <<conversationVars, repositoryVars, legacyVars, owed, steps>>

Chat ==
  /\ Serving /\ Counted
  /\ \E k \in Sessions :
       \/ (NewSession(k, active) \/ \E t \in Turns : Begin(t, k, registry)) /\ UNCHANGED owed
       \/ DeleteSession(k) /\ owed' = [owed EXCEPT !["sessions"] = @ \ {k}]
  /\ UNCHANGED <<providerVars, repositoryVars, legacyVars>>

ChatWork ==
  /\ Serving /\ TurnStep(registry)
  /\ UNCHANGED <<providerVars, repositoryVars, legacyVars, owed, steps>>

Row ==
  /\ Serving /\ Counted
  /\ \E f \in Tables, row \in Rows :
       /\ row \in RowsOf[f]
       /\ \/ Add(f, row) /\ UNCHANGED owed
          \/ Remove(f, row) /\ owed' = [owed EXCEPT ![f] = @ \ {row}]
  /\ UNCHANGED appVars

Repo ==
  /\ Serving /\ Counted
  /\ \/ \E s \in Scopes :
          \/ \E u \in Urls : Bind(s, u)
          \/ \E id \in Ids : Unbind(s, id)
          \/ Clear(s)
     \/ \E id \in Ids : RemoveRepository(id)
     \/ \E u \in Urls : AddBegins(u)
  /\ owed' = [owed EXCEPT !["chat_bindings"] = {s \in Scopes : binding'[s] # {}},
                          !["repositories"] = @ \ {id \in Registered : repository'[id] = NoUrl}]
  /\ UNCHANGED <<providerVars, conversationVars, legacyVars>>

RepoWork ==
  /\ Serving /\ \E u \in Urls : AddEnds(u)
  /\ UNCHANGED <<providerVars, conversationVars, legacyVars, owed, steps>>

(* FeegleApp.stop, or the process dies: the turns and the writes under way are lost. *)
Dies ==
  /\ phase # Down /\ Counted /\ phase' = Down
  /\ ProcessEnds /\ LegacyDie
  /\ UNCHANGED owed

Next == Boot \/ ProviderCommand \/ ProviderWork \/ Chat \/ ChatWork \/ Repo \/ RepoWork \/ Row \/ Dies

Spec == Init /\ [][Next]_vars

-----------------------------------------------------------------------------
(* Settings, sessions, turns, files and tables are of the kinds the code knows. *)
TypeOK ==
  /\ ProvidersTypeOK /\ ConversationsTypeOK /\ RepositoriesTypeOK /\ LegacyTypeOK
  /\ phase \in 0 .. Up /\ steps \in 0 .. MaxSteps
  /\ owed \in [Files -> SUBSET (Rows \cup Scopes)]
  /\ \A f \in Files \ {"chat_bindings"} : owed[f] \subseteq RowsOf[f]

(***************************************************************************)
(* While it serves, the providers of the registry are those of the config, *)
(* and the active one is among them, however commands overlap or fail.     *)
(***************************************************************************)
RegistryMirrorsConfig ==
  phase = Up => registry = data.providers /\ active \in registry \cup {None}

(***************************************************************************)
(* With no command under way, and none that failed or overlapped another   *)
(* since the process began, file, text and data say the same, and the      *)
(* active provider is the default one: a restart changes nothing.          *)
(***************************************************************************)
RestartChangesNothing ==
  phase = Up /\ Busy = {} /\ ~ lapped /\ ~ failed =>
    file = data /\ text = data /\ active = data.default

Kept(f) == \A row \in owed[f] : Present(f, row) \/ row \in legacy[f].rows \cup aside[f]

(***************************************************************************)
(* A row of a legacy file is in its table (a provider in config.jsonc), in *)
(* the file or in its .bak, wherever the process died, unless removed.     *)
(***************************************************************************)
NothingIsLost == \A f \in Files \ {"chat_bindings"} : Kept(f)

(***************************************************************************)
(* feegle.db holds the chat bindings, and chat-bindings.json is migrated   *)
(* into it: what was bound, or was in the file, is there until unbound.    *)
(***************************************************************************)
BindingsPersist == Kept("chat_bindings")

=============================================================================
