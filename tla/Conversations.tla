---------------------------- MODULE Conversations ----------------------------
(***************************************************************************)
(* A turn of a chat with an agent: AgentConversationService.run, and the   *)
(* same of FeishuChatHandler.handle, which opens a preview card between    *)
(* recording the text and counting the turn. A session is pinned to the    *)
(* provider of its first turn, which the AgentLoadBalancer chose among     *)
(* those with the fewest turns under way; the provider is looked up again  *)
(* after an await, and the commands new and delete may come at any time.   *)
(* Every action takes the kinds that are registered at that moment.        *)
(***************************************************************************)
EXTENDS Naturals, FiniteSets, Sequences

CONSTANTS
  Agents,       \* the kinds of provider
  Unpinned,     \* a session without one
  NoSession,    \* no session
  Sessions,     \* the session keys
  Turns,        \* the turns under way at a time
  MaxMessages   \* ChatHistoryStore.maxMessages

ASSUME ConversationsAssumption == MaxMessages \in Nat \ {0} /\ IsFiniteSet(Turns)

VARIABLES
  session,    \* sessions: the agent a key is pinned to
  history,    \* ChatHistoryStore
  inFlight,   \* AgentLoadBalancer.inFlight
  turn        \* the turns under way

conversationVars == <<session, history, inFlight, turn>>

SessionRows == Agents \cup {Unpinned, NoSession}

NoTurn == [pc |-> "idle", key |-> NoSession, kind |-> Unpinned, pinned |-> FALSE]
Roles  == {"user", "assistant"}

ConversationsInit ==
  /\ session = [k \in Sessions |-> NoSession]
  /\ history = [k \in Sessions |-> << >>]
  /\ inFlight = [a \in Agents |-> 0]
  /\ turn = [t \in Turns |-> NoTurn]

(* ChatHistoryStore.append drops the oldest beyond the limit. *)
Appended(h, role) ==
  LET longer == Append(h, role) IN
  SubSeq(longer, IF Len(longer) > MaxMessages THEN 2 ELSE 1, Len(longer))

LeastBusy(kinds) == {a \in kinds : \A b \in kinds : inFlight[a] <= inFlight[b]}

Pinned(key, registered) == session[key] \in registered

Assigned(key, kind) == session' = [session EXCEPT ![key] = kind]

(* resolveProvider, up to its await. *)
Begin(t, key, registered) ==
  /\ turn[t] = NoTurn /\ registered # {}
  /\ \E kind \in registered :
       /\ IF Pinned(key, registered)
            THEN kind = session[key] /\ UNCHANGED session
            ELSE kind \in LeastBusy(registered) /\ Assigned(key, kind)
       /\ turn' = [turn EXCEPT ![t] = [pc |-> "resolving", key |-> key, kind |-> kind,
                                       pinned |-> Pinned(key, registered)]]
  /\ UNCHANGED <<history, inFlight>>

(* A pinned agent is resolved after the await, and may be gone by then. *)
Unresolved(t, registered) ==
  /\ turn[t].pc = "resolving" /\ turn[t].pinned /\ turn[t].kind \notin registered
  /\ turn' = [turn EXCEPT ![t] = NoTurn]
  /\ UNCHANGED <<session, history, inFlight>>

Resolved(t, registered) == turn[t].pc = "resolving" /\ (turn[t].pinned => turn[t].kind \in registered)

Counts(t) == inFlight' = [inFlight EXCEPT ![turn[t].kind] = @ + 1]

(* AgentConversationService: the text is recorded and the turn counted at once. *)
Start(t, registered) ==
  /\ Resolved(t, registered)
  /\ history' = [history EXCEPT ![turn[t].key] = Appended(@, "user")]
  /\ Counts(t)
  /\ turn' = [turn EXCEPT ![t].pc = "running"]
  /\ UNCHANGED session

(* FeishuChatHandler: the card comes in between, *)
OpenCard(t, registered) ==
  /\ Resolved(t, registered)
  /\ history' = [history EXCEPT ![turn[t].key] = Appended(@, "user")]
  /\ turn' = [turn EXCEPT ![t].pc = "opening"]
  /\ UNCHANGED <<session, inFlight>>

(* and the turn ends there when it cannot be sent. *)
CardFails(t) ==
  /\ turn[t].pc = "opening"
  /\ turn' = [turn EXCEPT ![t] = NoTurn]
  /\ UNCHANGED <<session, history, inFlight>>

CardOpens(t) ==
  /\ turn[t].pc = "opening"
  /\ Counts(t)
  /\ turn' = [turn EXCEPT ![t].pc = "running"]
  /\ UNCHANGED <<session, history>>

(* AgentLoadBalancer.release *)
Release(kind) == inFlight' = [inFlight EXCEPT ![kind] = IF @ > 0 THEN @ - 1 ELSE 0]

(* The CLI has exited with success. *)
Answers(t) ==
  /\ turn[t].pc = "running"
  /\ history' = [history EXCEPT ![turn[t].key] = Appended(@, "assistant")]
  /\ Release(turn[t].kind)
  /\ turn' = [turn EXCEPT ![t] = NoTurn]
  /\ UNCHANGED session

(* Mutant: only an answer gives the turn's place back. *)
AgentFailsHoldsItsPlace(t) ==
  /\ turn[t].pc = "running"
  /\ turn' = [turn EXCEPT ![t] = NoTurn]
  /\ UNCHANGED <<session, history, inFlight>>
(* It could not be spawned, timed out, was killed or exited with an error. *)
AgentFails(t) ==
  /\ turn[t].pc = "running"
  /\ Release(turn[t].kind)
  /\ turn' = [turn EXCEPT ![t] = NoTurn]
  /\ UNCHANGED <<session, history>>

-----------------------------------------------------------------------------
(* /new: the session is made anew, with the active provider. *)
NewSession(key, activeKind) ==
  /\ session' = [session EXCEPT ![key] = activeKind]
  /\ history' = [history EXCEPT ![key] = << >>]
  /\ UNCHANGED <<inFlight, turn>>

(* /delete confirm *)
DeleteSession(key) ==
  /\ session[key] # NoSession
  /\ session' = [session EXCEPT ![key] = NoSession]
  /\ history' = [history EXCEPT ![key] = << >>]
  /\ UNCHANGED <<inFlight, turn>>

TurnStep(registered) ==
  \E t \in Turns :
    \/ Unresolved(t, registered) \/ Start(t, registered) \/ OpenCard(t, registered)
    \/ CardFails(t) \/ CardOpens(t) \/ Answers(t) \/ AgentFails(t)

ConversationsDie ==
  /\ history' = [k \in Sessions |-> << >>]
  /\ inFlight' = [a \in Agents |-> 0]
  /\ turn' = [t \in Turns |-> NoTurn]
  /\ UNCHANGED session

ConversationsTypeOK ==
  /\ session \in [Sessions -> SessionRows]
  /\ history \in [Sessions -> Seq(Roles)]
  /\ \A k \in Sessions : Len(history[k]) <= MaxMessages
  /\ inFlight \in [Agents -> Nat]
  /\ turn \in [Turns -> [pc : {"idle", "resolving", "opening", "running"},
                         key : Sessions \cup {NoSession}, kind : Agents \cup {Unpinned},
                         pinned : BOOLEAN]]

(***************************************************************************)
(* The load of an agent is the number of the turns it is at work on, after *)
(* any order of answers, failures, cleared sessions and providers that     *)
(* come and go.                                                            *)
(***************************************************************************)
LoadIsCounted ==
  \A a \in Agents : inFlight[a] = Cardinality({t \in Turns : turn[t].pc = "running" /\ turn[t].kind = a})
=============================================================================
