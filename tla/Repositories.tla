---------------------------- MODULE Repositories ----------------------------
(***************************************************************************)
(* The repositories and what they are bound to: RepositoryStore gives ids  *)
(* from a counter of its own, ChatBindingStore keeps the ids a group or a  *)
(* user has bound, with no reference to the repositories, and opening the  *)
(* database drops and creates the table of the bindings' headers.          *)
(***************************************************************************)
EXTENDS Naturals

CONSTANTS
  Urls,      \* remote urls
  NoUrl,     \* no repository of that id
  Scopes,    \* group chats, and users in a single chat
  MaxId      \* bound on the ids

ASSUME RepositoriesAssumption == MaxId \in Nat /\ NoUrl \notin Urls

VARIABLES
  repository,   \* repositories: the url, by id
  nextId,       \* repository_id_counter; 0 without its row
  binding,      \* chat_bindings with chat_binding_repositories
  adding,       \* /repo add, between the look-up and the row: how many, by url
  meant         \* history: the repositories a scope was bound to, with their urls

repositoryVars == <<repository, nextId, binding, adding, meant>>

Ids == 1 .. MaxId
RepositoryRows == [Ids -> Urls \cup {NoUrl}]
BindingRows    == [Scopes -> SUBSET Ids]
Registered == {id \in Ids : repository[id] # NoUrl}

RepositoriesInit ==
  /\ repository = [id \in Ids |-> NoUrl] /\ nextId = 0
  /\ binding = [s \in Scopes |-> {}]
  /\ adding = [u \in Urls |-> 0] /\ meant = [s \in Scopes |-> {}]

(* findByUrl: the first in the order of the ids. *)
Found(url) == {id \in Registered : repository[id] = url}

(* addTx: the counter and the row in one transaction. *)
NewRow(url) ==
  /\ nextId \in Ids /\ repository[nextId] = NoUrl
  /\ repository' = [repository EXCEPT ![nextId] = url]
  /\ nextId' = nextId + 1

BindTo(scope, id, url) ==
  /\ binding' = [binding EXCEPT ![scope] = @ \cup {id}]
  /\ meant' = [meant EXCEPT ![scope] = @ \cup {<<id, url>>}]

(* bindRepositoryToScope registers a url that is not known. *)
Bind(scope, url) ==
  /\ \/ /\ \E id \in Found(url) :
             /\ \A other \in Found(url) : id <= other
             /\ BindTo(scope, id, url)
        /\ UNCHANGED <<repository, nextId>>
     \/ /\ Found(url) = {}
        /\ NewRow(url)
        /\ BindTo(scope, nextId, url)
  /\ UNCHANGED adding

(* removeRepository: the binding is gone with its last repository. *)
Unbind(scope, id) ==
  /\ id \in Registered \cap binding[scope]
  /\ binding' = [binding EXCEPT ![scope] = @ \ {id}]
  /\ UNCHANGED <<repository, nextId, adding, meant>>

(* /repo clear *)
Clear(scope) ==
  /\ binding[scope] # {}
  /\ binding' = [binding EXCEPT ![scope] = {}]
  /\ UNCHANGED <<repository, nextId, adding, meant>>

(* /repo add asks the remote for its default branch between the look-up and the row. *)
AddBegins(url) ==
  /\ Found(url) = {} /\ adding[url] < 2
  /\ adding' = [adding EXCEPT ![url] = @ + 1]
  /\ UNCHANGED <<repository, nextId, binding, meant>>

AddEnds(url) ==
  /\ adding[url] > 0
  /\ adding' = [adding EXCEPT ![url] = @ - 1]
  /\ NewRow(url) \/ UNCHANGED <<repository, nextId>>
  /\ UNCHANGED <<binding, meant>>

(* /repo remove leaves the bindings alone. *)
RemoveRepository(id) ==
  /\ id \in Registered
  /\ repository' = [repository EXCEPT ![id] = NoUrl]
  /\ UNCHANGED <<nextId, binding, adding, meant>>

-----------------------------------------------------------------------------
(* openRuntimeDb: migrate drops chat_bindings; the foreign key takes its repositories along. *)
OpenDb ==
  /\ binding' = [s \in Scopes |-> {}]
  /\ UNCHANGED <<repository, nextId, adding, meant>>

(* The RepositoryStore is constructed: a counter row, if there is none. *)
SeedCounter == nextId' = IF nextId = 0 THEN 1 ELSE nextId

(* Mutant: the rows are imported and the counter starts anew. *)
ImportRepositoriesOnly(ids) ==
  /\ \E url \in [ids -> Urls] :
       repository' = [id \in Ids |-> IF id \in ids THEN url[id] ELSE NoUrl]
  /\ UNCHANGED <<nextId, binding, adding, meant>>
(* The rows of repositories.json and its nextId, in one transaction: the store that wrote *)
(* the file took every id from that counter.                                              *)
ImportRepositories(ids) ==
  /\ \E url \in [ids -> Urls] :
       repository' = [id \in Ids |-> IF id \in ids THEN url[id] ELSE NoUrl]
  /\ \E next \in 1 .. MaxId + 1 : (\A id \in ids : id < next) /\ nextId' = next
  /\ UNCHANGED <<binding, adding, meant>>

ImportBindings(scopes) ==
  /\ \E id \in [scopes -> Ids] :
       binding' = [s \in Scopes |-> IF s \in scopes THEN {id[s]} ELSE {}]
  /\ UNCHANGED <<repository, nextId, adding, meant>>

RepositoriesDie ==
  /\ adding' = [u \in Urls |-> 0]
  /\ UNCHANGED <<repository, nextId, binding, meant>>

RepositoriesTypeOK ==
  /\ repository \in RepositoryRows /\ nextId \in 0 .. MaxId + 1
  /\ binding \in BindingRows /\ adding \in [Urls -> 0 .. 2]
  /\ meant \in [Scopes -> SUBSET (Ids \X Urls)]

(***************************************************************************)
(* A repository that a scope has bound is the one that was meant, or it is *)
(* removed: no id is ever given twice, across migrations and restarts.     *)
(***************************************************************************)
BindingMeansItsRepository ==
  \A s \in Scopes : \A m \in meant[s] :
    m[1] \in binding[s] => repository[m[1]] \in {m[2], NoUrl}
=============================================================================
