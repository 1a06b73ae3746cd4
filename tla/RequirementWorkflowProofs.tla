---------------------- MODULE RequirementWorkflowProofs ----------------------
(***************************************************************************)
(* What is proved of the requirement workflow for any number of            *)
(* requirements, cards, plans and restarts: HandInv, about who may act on  *)
(* a requirement, and WorkInv, about what was developed and tested, are    *)
(* inductive together with TypeOK, and the properties follow from them.    *)
(***************************************************************************)
EXTENDS RequirementWorkflow, TLAPS

USE DEF CreateVersion, CreateWorktree

Decided == {"cancelled", "accepted"}
AtWork(w) == call[w] # None /\ call[w].pc # "locking"

(* A click was made on a card that had the button. *)
Sent ==
  \A m \in Messages, b \in Buttons :
    <<m, b>> \in delivered => card[m] # None /\ b \in ButtonsOf(card[m].kind)

(* A call that has yet to lock its card, by the card: it is open and its   *)
(* click handled, if no click on the requirement was dispatched twice.     *)
LockFits(w) ==
  Running(w, "locking") =>
    LET c == call[w] IN
    /\ w \in Buttons /\ c.message \in Messages
    /\ card[c.message] # None
    /\ card[c.message].requirement = c.requirement
    /\ card[c.message].planVersion = c.planVersion
    /\ w \in ButtonsOf(card[c.message].kind)
    /\ c.requirement \in redelivered \/ (card[c.message].open /\ c.message \in handled)

OneLock ==
  \A v, w \in Workflows :
    Running(v, "locking") /\ Running(w, "locking") /\ call[v].message = call[w].message =>
      v = w \/ call[v].requirement \in redelivered

(* Nobody has heard of a requirement before its intake. *)
AbsentIsIdle ==
  \A r \in Requirements :
    status[r] = "absent" =>
      /\ \A m \in Messages : card[m] # None => card[m].requirement # r
      /\ \A w \in Workflows : call[w] # None => call[w].requirement # r

(* What was decided is in no hand. *)
DecidedIsIdle ==
  \A r \in Requirements \ redelivered :
    status[r] \in Decided => OpenCards(r) = {} /\ ActiveCalls(r) = {}

(* A call at work knows the latest plan and keeps the requirement executing. *)
WorkFits(w) ==
  AtWork(w) /\ call[w].requirement \notin redelivered =>
    LET c == call[w] IN
    /\ c.pc = "sendingPlan" => c.planVersion = plans[c.requirement]
    /\ w = "approve" /\ c.pc \in {"locked", "approved"} =>
         c.planVersion = plans[c.requirement]
    /\ w = "approve" /\ c.pc \in {"preparing", "addingWorktree", "developing"} =>
         c.developed = c.planVersion /\ status[c.requirement] = "executing"

(* An open plan card shows the latest plan. *)
CardFits(m) ==
  card[m] # None /\ card[m].open /\ card[m].kind = "plan"
    /\ card[m].requirement \notin redelivered =>
      card[m].planVersion = plans[card[m].requirement]

HandInv ==
  /\ Sent
  /\ \A w \in Workflows : LockFits(w) /\ WorkFits(w)
  /\ \A m \in Messages : CardFits(m)
  /\ OneLock
  /\ AbsentIsIdle
  /\ OneHand
  /\ DecidedIsIdle

(* Before its development is through, a requirement is not tested. *)
Developing(r) == Running("approve", "developing") /\ RequirementOf("approve") = r
Untested(r) ==
  /\ r \notin passed
  /\ status[r] \notin {"implementation_ready", "verifying"}
  /\ ~ (Running("verify", "testing") /\ RequirementOf("verify") = r)

(* A requirement is developed once, and a passed report is about that. *)
WorkInv ==
  /\ \A r \in Requirements :
       /\ r \notin worktree \/ Developing(r) => Untested(r)
       /\ Developing(r) => r \in worktree
  /\ passed \subseteq tested

RInv == TypeOK /\ HandInv /\ WorkInv

-----------------------------------------------------------------------------
(* What is in a call, a card or an execution. *)
LEMMA CallTyped ==
  ASSUME TypeOK, NEW w \in Workflows, call[w] # None
  PROVE  /\ call[w] \in Calls
         /\ call[w].pc \in Locations /\ call[w].requirement \in Requirements
         /\ call[w].message \in Messages \cup {None}
         /\ call[w].planVersion \in Nat /\ call[w].developed \in Nat
<1>1. call[w] \in Calls
  BY DEF TypeOK
<1>. QED  BY <1>1 DEF Calls

LEMMA CardTyped ==
  ASSUME TypeOK, NEW m \in Messages, card[m] # None
  PROVE  /\ card[m] \in Cards /\ card[m].kind \in CardKinds
         /\ card[m].requirement \in Requirements
         /\ card[m].planVersion \in Nat /\ card[m].open \in BOOLEAN
<1>1. card[m] \in Cards
  BY DEF TypeOK
<1>. QED  BY <1>1 DEF Cards

LEMMA ExecutionTyped ==
  ASSUME TypeOK, NEW r \in Requirements, execution[r] # None
  PROVE  /\ execution[r] \in Executions /\ execution[r].status \in ExecutionStatuses
         /\ execution[r].planVersion \in Nat
<1>1. execution[r] \in Executions
  BY DEF TypeOK
<1>. QED  BY <1>1 DEF Executions

(* The calls but w's are what they were. *)
OthersStay(w) == \A v \in Workflows : v # w => call'[v] = call[v]
CallsTyped    == call \in [Workflows -> Calls \cup {None}]

LEMMA PutTyped ==
  ASSUME TypeOK, NEW w \in Workflows, NEW c \in Calls \cup {None},
         call' = [call EXCEPT ![w] = c]
  PROVE  CallsTyped' /\ OthersStay(w) /\ call'[w] = c
  BY DEF TypeOK, CallsTyped, OthersStay

LEMMA GoToTyped ==
  ASSUME TypeOK, NEW w \in Workflows, call[w] # None, NEW l \in Locations, GoTo(w, l)
  PROVE  /\ CallsTyped' /\ OthersStay(w) /\ call'[w] # None
         /\ call'[w].pc = l
         /\ call'[w].requirement = call[w].requirement
         /\ call'[w].message = call[w].message
         /\ call'[w].planVersion = call[w].planVersion
         /\ call'[w].developed = call[w].developed
<1> DEFINE c == [call[w] EXCEPT !.pc = l]
<1>1. call[w] \in Calls
  BY CallTyped
<1>2. /\ c \in Calls
      /\ c.pc = l /\ c.requirement = call[w].requirement
      /\ c.message = call[w].message /\ c.planVersion = call[w].planVersion
      /\ c.developed = call[w].developed
  BY <1>1 DEF Calls
<1>3. call' = [call EXCEPT ![w] = c]
  BY DEF GoTo
<1>4. CallsTyped' /\ OthersStay(w) /\ call'[w] = c
  BY <1>2, <1>3, PutTyped
<1>5. c # None
  BY <1>2, NoneIsNull
<1>. QED  BY <1>2, <1>4, <1>5

LEMMA EndTyped ==
  ASSUME TypeOK, NEW w \in Workflows, EndCall(w)
  PROVE  CallsTyped' /\ OthersStay(w) /\ call'[w] = None
  BY PutTyped DEF EndCall

LEMMA PlanSetTyped ==
  ASSUME TypeOK, NEW w \in Workflows, call[w] # None, NEW n \in Nat,
         call' = [call EXCEPT ![w].pc = "sendingPlan", ![w].planVersion = n]
  PROVE  /\ CallsTyped' /\ OthersStay(w) /\ call'[w] # None
         /\ call'[w].pc = "sendingPlan"
         /\ call'[w].requirement = call[w].requirement
         /\ call'[w].planVersion = n
<1> DEFINE c == [call[w] EXCEPT !.pc = "sendingPlan", !.planVersion = n]
<1>1. call[w] \in Calls
  BY CallTyped
<1>2. /\ c \in Calls
      /\ c.pc = "sendingPlan" /\ c.requirement = call[w].requirement
      /\ c.planVersion = n
  BY <1>1 DEF Calls, Locations
<1>3. call' = [call EXCEPT ![w] = c]
  BY <1>1 DEF TypeOK
<1>4. CallsTyped' /\ OthersStay(w) /\ call'[w] = c
  BY <1>2, <1>3, PutTyped
<1>5. c # None
  BY <1>2, NoneIsNull
<1>. QED  BY <1>2, <1>4, <1>5

LEMMA DevelopTyped ==
  ASSUME TypeOK, call["approve"] # None, NEW n \in Nat,
         call' = [call EXCEPT !["approve"].pc = "preparing", !["approve"].developed = n]
  PROVE  LET c == call'["approve"] IN
         /\ CallsTyped' /\ OthersStay("approve") /\ c # None
         /\ c.pc = "preparing" /\ c.requirement = call["approve"].requirement
         /\ c.planVersion = call["approve"].planVersion /\ c.developed = n
<1> DEFINE c == [call["approve"] EXCEPT !.pc = "preparing", !.developed = n]
<1>0. "approve" \in Workflows
  BY DEF Workflows, Buttons
<1>1. call["approve"] \in Calls
  BY <1>0, CallTyped
<1>2. /\ c \in Calls
      /\ c.pc = "preparing" /\ c.requirement = call["approve"].requirement
      /\ c.planVersion = call["approve"].planVersion /\ c.developed = n
  BY <1>1 DEF Calls, Locations
<1>3. call' = [call EXCEPT !["approve"] = c]
  BY <1>0, <1>1 DEF TypeOK
<1>4. CallsTyped' /\ OthersStay("approve") /\ call'["approve"] = c
  BY <1>0, <1>2, <1>3, PutTyped
<1>5. c # None
  BY <1>2, NoneIsNull
<1>. QED  BY <1>2, <1>4, <1>5

-----------------------------------------------------------------------------
(***************************************************************************)
(* The steps by their shape: a call at work goes on, or sends its card and *)
(* ends, or locks the card it was started from, or is started.             *)
(***************************************************************************)
(* Only the requirement worked on changes, and nothing is absent again. *)
OwnRequirement(w) ==
  LET r == RequirementOf(w) IN
  /\ \A s \in Requirements : s # r => status'[s] = status[s] /\ plans'[s] = plans[s]
  /\ status'[r] # status[r] =>
       status'[r] # "absent" /\ (status'[r] \in Decided => call'[w] = None)

Works(w) ==
  /\ AtWork(w)
  /\ OthersStay(w)
  /\ call'[w] # None =>
       call'[w].pc # "locking" /\ call'[w].requirement = call[w].requirement
  /\ WorkFits(w)'
  /\ OwnRequirement(w)
  /\ UNCHANGED <<card, handled, delivered, redelivered>>

Sends(w, kind) ==
  /\ AtWork(w)
  /\ OthersStay(w) /\ call'[w] = None
  /\ Send(kind, RequirementOf(w), call[w].planVersion)
  /\ kind = "plan" => call[w].pc = "sendingPlan"
  /\ UNCHANGED <<status, plans, handled, delivered, redelivered>>

(* A call at work has the only hand on its requirement. *)
LEMMA WorkIsAlone ==
  ASSUME TypeOK, HandInv, NEW w \in Workflows, AtWork(w), call[w].requirement \notin redelivered
  PROVE  /\ \A v \in Workflows :
              AtWork(v) /\ call[v].requirement = call[w].requirement => v = w
         /\ \A m \in Messages :
              card[m] # None /\ card[m].open => card[m].requirement # call[w].requirement
<1> DEFINE r == call[w].requirement
<1>1. r \in Requirements \ redelivered
  BY CallTyped DEF AtWork
<1>2. w \in ActiveCalls(r)
  BY DEF ActiveCalls, AtWork, RequirementOf
<1>3. OpenCards(r) = {} /\ \A v \in ActiveCalls(r) : v = w
  BY <1>1, <1>2 DEF HandInv, OneHand
<1>. QED  BY <1>3 DEF OpenCards, ActiveCalls, AtWork, RequirementOf

LEMMA WorkKeepsHands ==
  ASSUME TypeOK, HandInv, NEW w \in Workflows, Works(w)
  PROVE  HandInv'
<1> DEFINE r == call[w].requirement
<1>. USE DEF Works, AtWork, RequirementOf
<1>0. r \in Requirements
  BY CallTyped
<1>1. \A s \in Requirements : OpenCards(s)' = OpenCards(s) /\ ActiveCalls(s)' \subseteq ActiveCalls(s)
  BY DEF OpenCards, ActiveCalls, OthersStay
<1>2. Sent'
  BY DEF HandInv, Sent
<1>3. ASSUME NEW v \in Workflows PROVE LockFits(v)'
  BY <1>3 DEF HandInv, LockFits, Running, OthersStay
<1>4. ASSUME NEW v \in Workflows PROVE WorkFits(v)'
  <2>1. CASE v = w
    BY <2>1
  <2>2. CASE v # w /\ AtWork(v)' /\ call'[v].requirement \notin redelivered'
    <3>1. call'[v] = call[v] /\ WorkFits(v) /\ call[v].requirement \in Requirements
      BY <2>2, CallTyped DEF HandInv, OthersStay
    <3>2. call[v].requirement # r
      BY <2>2, <3>1, WorkIsAlone
    <3>3. /\ status'[call[v].requirement] = status[call[v].requirement]
          /\ plans'[call[v].requirement] = plans[call[v].requirement]
      BY <3>1, <3>2 DEF OwnRequirement
    <3>. QED  BY <2>2, <3>1, <3>3 DEF WorkFits
  <2>. QED  BY <2>1, <2>2 DEF WorkFits
<1>5. ASSUME NEW m \in Messages PROVE CardFits(m)'
  <2>. SUFFICES ASSUME card[m] # None, card[m].open, card[m].requirement \notin redelivered
                PROVE  CardFits(m)'
    BY DEF CardFits
  <2>1. card[m].requirement # r /\ card[m].requirement \in Requirements
    BY WorkIsAlone, CardTyped
  <2>. QED  BY <2>1 DEF CardFits, HandInv, OwnRequirement
<1>6. OneLock'
  BY DEF HandInv, OneLock, Running, OthersStay
<1>7. AbsentIsIdle'
  BY DEF HandInv, AbsentIsIdle, OthersStay, OwnRequirement
<1>8. OneHand'
  BY <1>1 DEF HandInv, OneHand
<1>9. DecidedIsIdle'
  <2>. SUFFICES ASSUME NEW s \in Requirements \ redelivered, status'[s] \in Decided
                PROVE  OpenCards(s)' = {} /\ ActiveCalls(s)' = {}
    BY DEF DecidedIsIdle
  <2>1. CASE status'[s] = status[s]
    BY <1>1, <2>1 DEF HandInv, DecidedIsIdle
  <2>2. CASE status'[s] # status[s]
    <3>1. s = r /\ call'[w] = None
      BY <2>2 DEF OwnRequirement
    <3>. QED  BY <3>1, WorkIsAlone DEF OpenCards, ActiveCalls, OthersStay
  <2>. QED  BY <2>1, <2>2
<1>. QED  BY <1>2, <1>3, <1>4, <1>5, <1>6, <1>7, <1>8, <1>9 DEF HandInv

LEMMA SendKeepsHands ==
  ASSUME TypeOK, HandInv, NEW w \in Workflows, NEW kind \in CardKinds, Sends(w, kind)
  PROVE  HandInv' /\ card' \in [Messages -> Cards \cup {None}]
<1> DEFINE r == call[w].requirement
           n == [kind |-> kind, requirement |-> r, planVersion |-> call[w].planVersion,
                 open |-> TRUE]
<1>. USE DEF Sends, AtWork, RequirementOf
<1>0. r \in Requirements /\ call[w].planVersion \in Nat
  BY CallTyped
<1>1. PICK m \in Messages : card[m] = None /\ card' = [card EXCEPT ![m] = n]
  BY DEF Send
<1>2. n \in Cards /\ n # None
  <2>1. n \in Cards
    BY <1>0 DEF Cards
  <2>. HIDE DEF n
  <2>. QED  BY <2>1, NoneIsNull
<1>3. /\ card' \in [Messages -> Cards \cup {None}]
      /\ card'[m] = n /\ \A k \in Messages : k # m => card'[k] = card[k]
  BY <1>1, <1>2 DEF TypeOK
<1>4. n.kind = kind /\ n.requirement = r /\ n.planVersion = call[w].planVersion /\ n.open
  OBVIOUS
<1>. HIDE DEF n
<1>5. \A s \in Requirements :
        /\ ActiveCalls(s)' \subseteq ActiveCalls(s) \ {w}
        /\ s # r => OpenCards(s)' = OpenCards(s)
  BY <1>3, <1>4, <1>1, <1>2 DEF OpenCards, ActiveCalls, OthersStay
<1>6. ASSUME NEW s \in Requirements, s = r, s \notin redelivered
      PROVE  (\A k \in OpenCards(s)' : k = m) /\ ActiveCalls(s)' = {}
  <2>1. \A k \in OpenCards(s)' : k = m
    BY <1>3, <1>6, WorkIsAlone DEF OpenCards
  <2>2. ActiveCalls(s)' = {}
    BY <1>6, WorkIsAlone DEF ActiveCalls, OthersStay
  <2>. QED  BY <2>1, <2>2
<1>7. Sent'
  BY <1>1, <1>2, <1>3 DEF HandInv, Sent
<1>8. ASSUME NEW v \in Workflows PROVE LockFits(v)'
  BY <1>1, <1>3 DEF HandInv, LockFits, Running, OthersStay
<1>9. ASSUME NEW v \in Workflows PROVE WorkFits(v)'
  BY DEF HandInv, WorkFits, OthersStay
<1>10. ASSUME NEW k \in Messages PROVE CardFits(k)'
  <2>1. CASE k = m
    BY <1>3, <1>4, <2>1 DEF CardFits, HandInv, WorkFits
  <2>2. CASE k # m
    BY <1>3, <2>2 DEF CardFits, HandInv
  <2>. QED  BY <2>1, <2>2
<1>11. OneLock'
  BY DEF HandInv, OneLock, Running, OthersStay
<1>12. AbsentIsIdle'
  BY <1>3, <1>4 DEF HandInv, AbsentIsIdle, OthersStay
<1>13. OneHand'
  <2>. SUFFICES ASSUME NEW s \in Requirements \ redelivered
                PROVE  /\ \A j, k \in OpenCards(s)' : j = k
                       /\ \A u, v \in ActiveCalls(s)' : u = v
                       /\ OpenCards(s)' = {} \/ ActiveCalls(s)' = {}
    BY DEF OneHand
  <2>1. CASE s = r
    BY <1>6, <2>1
  <2>2. CASE s # r
    BY <1>5, <2>2 DEF HandInv, OneHand
  <2>. QED  BY <2>1, <2>2
<1>14. DecidedIsIdle'
  <2>1. r \notin redelivered => status[r] \notin Decided
    BY <1>0 DEF HandInv, DecidedIsIdle, ActiveCalls
  <2>. QED  BY <1>5, <2>1 DEF HandInv, DecidedIsIdle
<1>. QED
  BY <1>3, <1>7, <1>8, <1>9, <1>10, <1>11, <1>12, <1>13, <1>14 DEF HandInv

-----------------------------------------------------------------------------
(* Clicks, locks, the intake and the restart. *)
LEMMA DispatchTyped ==
  ASSUME TypeOK, NEW m \in Messages, NEW b \in Buttons, card[m] # None, Dispatch(m, b)
  PROVE  /\ CallsTyped' /\ OthersStay(b) /\ b \in Workflows
         /\ call[b] = None /\ call'[b] # None
         /\ call'[b].pc = "locking" /\ call'[b].message = m
         /\ call'[b].requirement = card[m].requirement
         /\ call'[b].planVersion = card[m].planVersion
<1> DEFINE c == [pc |-> "locking", requirement |-> card[m].requirement, message |-> m,
                 planVersion |-> card[m].planVersion, developed |-> 0]
<1>1. c \in Calls
  BY CardTyped DEF Calls, Locations
<1>2. /\ c.pc = "locking" /\ c.message = m
      /\ c.requirement = card[m].requirement /\ c.planVersion = card[m].planVersion
  OBVIOUS
<1>3. b \in Workflows /\ call[b] = None /\ call' = [call EXCEPT ![b] = c]
  BY DEF Dispatch, Workflows
<1>. HIDE DEF c
<1>4. CallsTyped' /\ OthersStay(b) /\ call'[b] = c
  BY <1>1, <1>3, PutTyped
<1>5. c # None
  BY <1>1, NoneIsNull
<1>. QED  BY <1>2, <1>3, <1>4, <1>5

(* What a click and a redelivery have in common. *)
LEMMA DispatchKeepsHands ==
  ASSUME TypeOK, HandInv, NEW m \in Messages, NEW b \in Buttons,
         card[m] # None, b \in ButtonsOf(card[m].kind),
         MarkUnhandled(m), Dispatch(m, b), UNCHANGED stored,
         redelivered \subseteq redelivered',
         delivered' \subseteq delivered \cup {<<m, b>>},
         card[m].open \/ card[m].requirement \in redelivered'
  PROVE  HandInv'
<1>. USE DEF stored
<1>1. /\ OthersStay(b) /\ b \in Workflows
      /\ call[b] = None /\ call'[b] # None
      /\ call'[b].pc = "locking" /\ call'[b].message = m
      /\ call'[b].requirement = card[m].requirement
      /\ call'[b].planVersion = card[m].planVersion
  BY DispatchTyped
<1>2. m \notin handled /\ handled' = handled \cup {m}
  BY DEF MarkUnhandled
<1>3. \A s \in Requirements : OpenCards(s)' = OpenCards(s) /\ ActiveCalls(s)' = ActiveCalls(s)
  <2>1. \A v \in Workflows, s \in Requirements : v \in ActiveCalls(s)' <=> v \in ActiveCalls(s)
    BY <1>1 DEF ActiveCalls, OthersStay, RequirementOf
  <2>2. \A s \in Requirements : ActiveCalls(s)' = ActiveCalls(s)
    BY <2>1 DEF ActiveCalls
  <2>. QED  BY <2>2 DEF OpenCards
<1>4. Sent'
  BY DEF HandInv, Sent
<1>5. ASSUME NEW v \in Workflows PROVE LockFits(v)'
  <2>1. CASE v = b
    BY <1>1, <1>2, <2>1 DEF LockFits
  <2>2. CASE v # b
    BY <1>1, <1>2, <2>2 DEF HandInv, LockFits, Running, OthersStay
  <2>. QED  BY <2>1, <2>2
<1>6. ASSUME NEW v \in Workflows PROVE WorkFits(v)'
  BY <1>1 DEF HandInv, WorkFits, AtWork, OthersStay
<1>7. ASSUME NEW k \in Messages PROVE CardFits(k)'
  BY DEF HandInv, CardFits
<1>8. OneLock'
  <2>1. ASSUME NEW v \in Workflows, v # b, Running(v, "locking"), call[v].message = m
        PROVE  call[v].requirement = card[m].requirement /\ card[m].requirement \in redelivered'
    BY <1>2, <2>1 DEF HandInv, LockFits
  <2>. QED  BY <1>1, <2>1 DEF HandInv, OneLock, Running, OthersStay
<1>9. AbsentIsIdle'
  BY <1>1, CardTyped DEF HandInv, AbsentIsIdle, OthersStay
<1>10. OneHand'
  BY <1>3 DEF HandInv, OneHand
<1>11. DecidedIsIdle'
  BY <1>3 DEF HandInv, DecidedIsIdle
<1>. QED  BY <1>4, <1>5, <1>6, <1>7, <1>8, <1>9, <1>10, <1>11 DEF HandInv

LEMMA LockKeepsHands ==
  ASSUME TypeOK, HandInv, NEW w \in Buttons, LockCard(w)
  PROVE  HandInv' /\ CallsTyped' /\ card' \in [Messages -> Cards \cup {None}]
<1> DEFINE m == call[w].message
           r == call[w].requirement
<1>. USE DEF process, history
<1>1. w \in Workflows /\ call[w] # None /\ call[w].pc = "locking" /\ Running(w, "locking")
  BY DEF LockCard, Running, Workflows
<1>2. /\ m \in Messages /\ card[m] # None
      /\ card[m].requirement = r /\ card[m].planVersion = call[w].planVersion
      /\ w \in ButtonsOf(card[m].kind)
      /\ r \in redelivered \/ (card[m].open /\ m \in handled)
  BY <1>1 DEF HandInv, LockFits
<1>3. /\ CallsTyped' /\ OthersStay(w)
      /\ call'[w] # None =>
           /\ call'[w].pc = "locked" /\ call'[w].requirement = r
           /\ call'[w].planVersion = call[w].planVersion
           /\ ~card'[m].open
  <2>1. CASE EndCall(w)
    BY <1>1, <2>1, EndTyped
  <2>2. CASE GoTo(w, "locked") /\ card' = [card EXCEPT ![m].open = FALSE]
    <3>1. "locked" \in Locations
      BY DEF Locations
    <3>2. ~card'[m].open
      BY <1>2, <2>2, CardTyped DEF TypeOK, Cards
    <3>. QED  BY <1>1, <2>2, <3>1, <3>2, GoToTyped
  <2>. QED  BY <2>1, <2>2 DEF LockCard
<1>4. /\ card' \in [Messages -> Cards \cup {None}]
      /\ \A k \in Messages : k # m => card'[k] = card[k]
      /\ card'[m] # None /\ card'[m].kind = card[m].kind
      /\ card'[m].requirement = r /\ card'[m].planVersion = card[m].planVersion
      /\ card'[m].open => card[m].open
  <2>1. CASE UNCHANGED card
    BY <1>2, <2>1 DEF TypeOK
  <2>2. CASE card' = [card EXCEPT ![m].open = FALSE]
    <3> DEFINE c == [card[m] EXCEPT !.open = FALSE]
    <3>1. /\ c \in Cards /\ c.kind = card[m].kind
          /\ c.requirement = r /\ c.planVersion = card[m].planVersion /\ ~c.open
      BY <1>2, CardTyped DEF Cards
    <3>2. card' = [card EXCEPT ![m] = c]
      BY <2>2
    <3>. HIDE DEF c
    <3>3. c # None
      BY <3>1, NoneIsNull
    <3>. QED  BY <1>2, <3>1, <3>2, <3>3 DEF TypeOK
  <2>. QED  BY <2>1, <2>2 DEF LockCard
<1>. UNCHANGED <<status, plans, handled, delivered, redelivered>>
  BY DEF LockCard
<1>5. r \in Requirements
  BY <1>1, CallTyped
<1>6. Sent'
  BY <1>2, <1>4 DEF HandInv, Sent
<1>7. ASSUME NEW v \in Workflows PROVE LockFits(v)'
  <2>. SUFFICES ASSUME v # w, Running(v, "locking"), call'[v] = call[v]
                PROVE  LockFits(v)'
    BY <1>3 DEF LockFits, Running, OthersStay
  <2>1. /\ v \in Buttons /\ call[v].message \in Messages
        /\ card[call[v].message] # None
        /\ card[call[v].message].requirement = call[v].requirement
        /\ card[call[v].message].planVersion = call[v].planVersion
        /\ v \in ButtonsOf(card[call[v].message].kind)
        /\ call[v].requirement \in redelivered
             \/ (card[call[v].message].open /\ call[v].message \in handled)
    BY DEF HandInv, LockFits
  <2>2. call[v].message = m => call[v].requirement \in redelivered
    BY <1>1 DEF HandInv, OneLock
  <2>3. CASE call[v].message = m
    <3>. QED  BY <1>2, <1>4, <2>1, <2>2, <2>3 DEF LockFits
  <2>4. CASE call[v].message # m
    <3>1. card'[call[v].message] = card[call[v].message]
      BY <1>4, <2>1, <2>4
    <3>. QED  BY <2>1, <3>1 DEF LockFits
  <2>. QED  BY <2>3, <2>4
<1>8. ASSUME NEW v \in Workflows PROVE WorkFits(v)'
  <2>1. CASE v # w
    BY <1>3, <2>1 DEF HandInv, WorkFits, AtWork, OthersStay
  <2>2. CASE v = w /\ call'[w] # None /\ r \notin redelivered
    <3>1. w = "approve" => card[m].kind = "plan"
      BY <1>2, CardTyped DEF ButtonsOf, CardKinds
    <3>2. w = "approve" => call[w].planVersion = plans[r]
      BY <1>2, <2>2, <3>1 DEF HandInv, CardFits
    <3>. QED  BY <1>3, <2>2, <3>2 DEF WorkFits
  <2>. QED  BY <1>3, <2>1, <2>2 DEF WorkFits, AtWork
<1>9. ASSUME NEW k \in Messages PROVE CardFits(k)'
  BY <1>2, <1>4 DEF HandInv, CardFits
<1>10. OneLock'
  BY <1>3 DEF HandInv, OneLock, Running, OthersStay
<1>11. AbsentIsIdle'
  BY <1>1, <1>3, <1>4 DEF HandInv, AbsentIsIdle, OthersStay
<1>12. ASSUME NEW s \in Requirements \ redelivered
       PROVE  /\ OpenCards(s)' \subseteq OpenCards(s)
              /\ s # r => ActiveCalls(s)' = ActiveCalls(s)
              /\ s = r =>
                   /\ OpenCards(s) = {m} /\ ActiveCalls(s) = {}
                   /\ ActiveCalls(s)' = {} \/ OpenCards(s)' = {}
                   /\ ActiveCalls(s)' \subseteq {w}
  <2>1. OpenCards(s)' \subseteq OpenCards(s)
    BY <1>2, <1>4 DEF OpenCards
  <2>2. ASSUME s # r PROVE ActiveCalls(s)' = ActiveCalls(s)
    BY <1>1, <1>3, <2>2 DEF ActiveCalls, OthersStay, RequirementOf
  <2>3. ASSUME s = r
        PROVE  OpenCards(s) = {m} /\ ActiveCalls(s) = {}
    <3>1. m \in OpenCards(s)
      BY <1>2, <2>3 DEF OpenCards
    <3>. QED  BY <3>1 DEF HandInv, OneHand
  <2>4. ASSUME s = r PROVE ActiveCalls(s)' \subseteq {w}
    BY <1>3, <2>3, <2>4 DEF ActiveCalls, OthersStay, RequirementOf
  <2>5. ASSUME s = r PROVE ActiveCalls(s)' = {} \/ OpenCards(s)' = {}
    <3>1. CASE call'[w] = None
      BY <2>4, <2>5, <3>1 DEF ActiveCalls
    <3>2. CASE call'[w] # None
      <4>1. m \notin OpenCards(s)'
        BY <1>3, <3>2 DEF OpenCards
      <4>. QED  BY <2>1, <2>3, <2>5, <4>1
    <3>. QED  BY <3>1, <3>2
  <2>. QED  BY <2>1, <2>2, <2>3, <2>4, <2>5
<1>13. OneHand'
  BY <1>12 DEF HandInv, OneHand
<1>14. DecidedIsIdle'
  <2>. SUFFICES ASSUME NEW s \in Requirements \ redelivered, status[s] \in Decided
                PROVE  OpenCards(s)' = {} /\ ActiveCalls(s)' = {}
    BY DEF DecidedIsIdle
  <2>1. OpenCards(s) = {} /\ ActiveCalls(s) = {}
    BY DEF HandInv, DecidedIsIdle
  <2>2. ASSUME s = r PROVE FALSE
    <3>1. m \in OpenCards(s)
      BY <1>2, <2>2 DEF OpenCards
    <3>. QED  BY <2>1, <3>1
  <2>. QED  BY <1>12, <2>1, <2>2
<1>. QED
  BY <1>3, <1>4, <1>6, <1>7, <1>8, <1>9, <1>10, <1>11, <1>13, <1>14 DEF HandInv

-----------------------------------------------------------------------------
(* TypeOK and HandInv, action by action. *)
LEMMA InitHands == Init => TypeOK /\ HandInv
<1>. SUFFICES ASSUME Init PROVE TypeOK /\ HandInv
  OBVIOUS
<1>1. TypeOK
  BY RequirementAssumption DEF Init, TypeOK, Statuses
<1>2. \A w \in Workflows : call[w] = None
  BY DEF Init
<1>3. \A m \in Messages : card[m] = None
  BY DEF Init
<1>4. \A r \in Requirements : OpenCards(r) = {} /\ ActiveCalls(r) = {}
  BY <1>2, <1>3 DEF OpenCards, ActiveCalls
<1>5. Sent
  BY DEF Init, Sent
<1>. QED
  BY <1>1, <1>2, <1>3, <1>4, <1>5
  DEF HandInv, LockFits, WorkFits, AtWork, Running, CardFits, OneLock, AbsentIsIdle,
      OneHand, DecidedIsIdle

LEMMA IntakeKeeps ==
  ASSUME TypeOK, HandInv, NEW r \in Requirements, Intake(r)
  PROVE  TypeOK' /\ HandInv'
<1> DEFINE c == [pc |-> "planning", requirement |-> r, message |-> None,
                 planVersion |-> 0, developed |-> 0]
<1>. USE DEF Intake, process, history
<1>1. c \in Calls /\ c.pc = "planning" /\ c.requirement = r
  BY DEF Calls, Locations
<1>2. "intake" \in Workflows /\ call' = [call EXCEPT !["intake"] = c]
  BY DEF Workflows
<1>. HIDE DEF c
<1>3. CallsTyped' /\ OthersStay("intake") /\ call'["intake"] = c
  BY <1>1, <1>2, PutTyped
<1>4. c # None
  BY <1>1, NoneIsNull
<1>5. /\ status' \in [Requirements -> Statuses] /\ status'[r] = "planning"
      /\ \A s \in Requirements : s # r => status'[s] = status[s]
  BY DEF SetStatus, TypeOK, Statuses
<1>6. TypeOK'
  BY <1>3, <1>5 DEF TypeOK, CallsTyped
<1>7. /\ \A m \in Messages : card[m] # None => card[m].requirement # r
      /\ \A w \in Workflows : call[w] # None => call[w].requirement # r
  BY DEF HandInv, AbsentIsIdle
<1>8. \A s \in Requirements :
        /\ OpenCards(s)' = OpenCards(s)
        /\ s # r => ActiveCalls(s)' = ActiveCalls(s)
        /\ s = r => OpenCards(s)' = {} /\ ActiveCalls(s)' \subseteq {"intake"}
  <2>. TAKE s \in Requirements
  <2>1. OpenCards(s)' = OpenCards(s)
    BY DEF OpenCards
  <2>2. ASSUME s # r PROVE ActiveCalls(s)' = ActiveCalls(s)
    BY <1>1, <1>2, <1>3, <2>2 DEF ActiveCalls, OthersStay, RequirementOf
  <2>3. ASSUME s = r PROVE OpenCards(s)' = {} /\ ActiveCalls(s)' \subseteq {"intake"}
    BY <1>3, <1>7, <2>3 DEF OpenCards, ActiveCalls, OthersStay, RequirementOf
  <2>. QED  BY <2>1, <2>2, <2>3
<1>9. Sent'
  BY DEF HandInv, Sent
<1>10. ASSUME NEW v \in Workflows PROVE LockFits(v)'
  BY <1>1, <1>3 DEF HandInv, LockFits, Running, OthersStay
<1>11. ASSUME NEW v \in Workflows PROVE WorkFits(v)'
  <2>1. CASE v = "intake"
    BY <1>1, <1>3, <2>1 DEF WorkFits
  <2>2. CASE v # "intake" /\ call[v] # None
    <3>1. call'[v] = call[v] /\ call[v].requirement \in Requirements
      BY <1>3, <2>2, CallTyped DEF OthersStay
    <3>2. status'[call[v].requirement] = status[call[v].requirement]
      BY <1>5, <1>7, <2>2, <3>1
    <3>. QED  BY <3>1, <3>2 DEF HandInv, WorkFits, AtWork
  <2>3. CASE v # "intake" /\ call[v] = None
    BY <1>3, <2>3 DEF WorkFits, AtWork, OthersStay
  <2>. QED  BY <2>1, <2>2, <2>3
<1>12. ASSUME NEW m \in Messages PROVE CardFits(m)'
  BY DEF HandInv, CardFits
<1>13. OneLock'
  BY <1>1, <1>3 DEF HandInv, OneLock, Running, OthersStay
<1>14. AbsentIsIdle'
  BY <1>1, <1>3, <1>5 DEF HandInv, AbsentIsIdle, OthersStay
<1>15. OneHand'
  <2>. SUFFICES ASSUME NEW s \in Requirements \ redelivered
                PROVE  /\ \A m, n \in OpenCards(s)' : m = n
                       /\ \A v, w \in ActiveCalls(s)' : v = w
                       /\ OpenCards(s)' = {} \/ ActiveCalls(s)' = {}
    BY DEF OneHand
  <2>1. CASE s = r
    BY <1>8, <2>1
  <2>2. CASE s # r
    BY <1>8, <2>2 DEF HandInv, OneHand
  <2>. QED  BY <2>1, <2>2
<1>16. DecidedIsIdle'
  BY <1>5, <1>8 DEF HandInv, DecidedIsIdle, Decided
<1>. QED
  BY <1>6, <1>9, <1>10, <1>11, <1>12, <1>13, <1>14, <1>15, <1>16 DEF HandInv

LEMMA ClickKeeps ==
  ASSUME TypeOK, HandInv, NEW m \in Messages, NEW b \in Buttons,
         Click(m, b) \/ Redeliver(m, b)
  PROVE  TypeOK' /\ HandInv'
<1>1. /\ card[m] # None /\ b \in ButtonsOf(card[m].kind)
      /\ MarkUnhandled(m) /\ Dispatch(m, b)
      /\ UNCHANGED <<stored, execution, passed, restarts, tested>>
      /\ redelivered' = redelivered \/ redelivered' = redelivered \cup {card[m].requirement}
      /\ delivered' = delivered \/ delivered' = delivered \cup {<<m, b>>}
      /\ card[m].open \/ card[m].requirement \in redelivered'
  BY DEF Click, Redeliver, HandInv, Sent
<1>2. CallsTyped' /\ card[m].requirement \in Requirements
  BY <1>1, DispatchTyped, CardTyped
<1>3. handled' \in SUBSET Messages
  BY <1>1 DEF MarkUnhandled, TypeOK
<1>4. TypeOK'
  BY <1>1, <1>2, <1>3 DEF TypeOK, CallsTyped, stored
<1>5. redelivered \subseteq redelivered' /\ delivered' \subseteq delivered \cup {<<m, b>>}
  BY <1>1
<1>. QED  BY <1>1, <1>4, <1>5, DispatchKeepsHands

LEMMA RefuseKeeps ==
  ASSUME TypeOK, HandInv, NEW m \in Messages, Refuse(m)
  PROVE  TypeOK' /\ HandInv'
<1>. USE DEF Refuse, MarkUnhandled, stored, history
<1>1. TypeOK'
  BY DEF TypeOK
<1>2. /\ \A w \in Workflows : LockFits(w)' /\ WorkFits(w)'
      /\ \A k \in Messages : CardFits(k)'
  BY DEF HandInv, LockFits, WorkFits, CardFits, AtWork, Running
<1>3. Sent' /\ OneLock' /\ AbsentIsIdle'
  BY DEF HandInv, Sent, OneLock, AbsentIsIdle, Running
<1>4. OneHand' /\ DecidedIsIdle'
  BY DEF HandInv, OneHand, DecidedIsIdle, OpenCards, ActiveCalls, RequirementOf
<1>. QED  BY <1>1, <1>2, <1>3, <1>4 DEF HandInv

LEMMA RestartKeeps ==
  ASSUME TypeOK, HandInv, Restart
  PROVE  TypeOK' /\ HandInv'
<1>. USE DEF Restart, stored, history
<1>1. TypeOK'
  BY DEF TypeOK
<1>2. \A w \in Workflows : call'[w] = None
  OBVIOUS
<1>3. \A r \in Requirements : OpenCards(r)' = OpenCards(r) /\ ActiveCalls(r)' = {}
  BY <1>2 DEF OpenCards, ActiveCalls
<1>4. /\ \A w \in Workflows : LockFits(w)' /\ WorkFits(w)'
      /\ \A k \in Messages : CardFits(k)'
  BY <1>2 DEF HandInv, LockFits, WorkFits, CardFits, AtWork, Running
<1>5. Sent' /\ OneLock' /\ AbsentIsIdle'
  BY <1>2 DEF HandInv, Sent, OneLock, AbsentIsIdle, Running
<1>6. OneHand' /\ DecidedIsIdle'
  BY <1>3 DEF HandInv, OneHand, DecidedIsIdle
<1>. QED  BY <1>1, <1>4, <1>5, <1>6 DEF HandInv

LEMMA LockKeeps ==
  ASSUME TypeOK, HandInv, NEW w \in Buttons, LockCard(w)
  PROVE  TypeOK' /\ HandInv'
<1>1. HandInv' /\ CallsTyped' /\ card' \in [Messages -> Cards \cup {None}]
  BY LockKeepsHands
<1>. QED  BY <1>1 DEF LockCard, TypeOK, CallsTyped, process, history

(* setStatus() of the requirement a call works on. *)
LEMMA SetStatusTyped ==
  ASSUME TypeOK, NEW r \in Requirements, NEW next \in Statuses, SetStatus(r, next)
  PROVE  /\ status' \in [Requirements -> Statuses] /\ status'[r] = next
         /\ \A s \in Requirements : s # r => status'[s] = status[s]
  BY DEF SetStatus, TypeOK

(* A call that ends and changes nothing else. *)
LEMMA EndWorks ==
  ASSUME TypeOK, NEW w \in Workflows, AtWork(w), EndCall(w),
         UNCHANGED <<status, plans, card, handled, delivered, redelivered>>
  PROVE  Works(w) /\ CallsTyped'
<1>1. CallsTyped' /\ OthersStay(w) /\ call'[w] = None
  BY EndTyped
<1>. QED  BY <1>1 DEF Works, WorkFits, AtWork, OwnRequirement

LEMMA RevisePlanKeeps ==
  ASSUME TypeOK, HandInv, RevisePlan
  PROVE  TypeOK' /\ HandInv'
<1>. USE DEF RevisePlan, stored, process, history
<1>1. "revise" \in Workflows /\ "planning" \in Locations
  BY DEF Workflows, Buttons, Locations
<1>2. AtWork("revise")
  BY DEF AtWork, Running
<1>3. Works("revise") /\ CallsTyped'
  <2>1. CASE EndCall("revise")
    BY <1>1, <1>2, <2>1, EndWorks
  <2>2. CASE GoTo("revise", "planning")
    BY <1>1, <1>2, <2>2, GoToTyped DEF Works, AtWork, WorkFits, OwnRequirement
  <2>. QED  BY <2>1, <2>2
<1>. QED  BY <1>1, <1>3, WorkKeepsHands DEF TypeOK, CallsTyped

LEMMA PlanReadyKeeps ==
  ASSUME TypeOK, HandInv, NEW w \in {"intake", "revise"}, PlanReady(w)
  PROVE  TypeOK' /\ HandInv'
<1> DEFINE r == call[w].requirement
<1>. USE DEF PlanReady, process, history
<1>1. w \in Workflows /\ call[w] # None /\ AtWork(w)
  BY DEF Workflows, Buttons, AtWork, Running
<1>2. r \in Requirements /\ RequirementOf(w) = r
  BY <1>1, CallTyped DEF RequirementOf
<1>3. /\ plans' \in [Requirements -> Nat] /\ plans'[r] \in Nat
      /\ \A s \in Requirements : s # r => plans'[s] = plans[s]
  BY <1>2 DEF TypeOK
<1>4. /\ status' \in [Requirements -> Statuses]
      /\ \A s \in Requirements : s # r => status'[s] = status[s]
      /\ status'[r] # status[r] => status'[r] = "plan_reviewing"
  BY <1>2, SetStatusTyped DEF TypeOK, Statuses
<1>5. OwnRequirement(w)
  BY <1>2, <1>3, <1>4 DEF OwnRequirement, Decided
<1>6. Works(w) /\ CallsTyped'
  <2>1. CASE EndCall(w)
    BY <1>1, <1>5, <2>1, EndTyped DEF Works, WorkFits, AtWork
  <2>2. CASE call' = [call EXCEPT ![w].pc = "sendingPlan", ![w].planVersion = plans'[r]]
    <3>1. /\ CallsTyped' /\ OthersStay(w) /\ call'[w] # None
          /\ call'[w].pc = "sendingPlan" /\ call'[w].requirement = r
          /\ call'[w].planVersion = plans'[r]
      BY <1>1, <1>3, <2>2, PlanSetTyped
    <3>. QED  BY <1>1, <1>5, <3>1 DEF Works, WorkFits, AtWork
  <2>. QED  BY <1>2, <2>1, <2>2
<1>. QED  BY <1>1, <1>3, <1>4, <1>6, WorkKeepsHands DEF TypeOK, CallsTyped

LEMMA ThrowsKeeps ==
  ASSUME TypeOK, HandInv, NEW w \in Workflows, Throws(w)
  PROVE  TypeOK' /\ HandInv'
<1>. USE DEF Throws, stored, process, history
<1>1. AtWork(w)
  BY DEF AtWork
<1>2. Works(w) /\ CallsTyped'
  BY <1>1, EndWorks
<1>. QED  BY <1>2, WorkKeepsHands DEF TypeOK, CallsTyped

LEMMA ApprovePlanKeeps ==
  ASSUME TypeOK, HandInv, ApprovePlan
  PROVE  TypeOK' /\ HandInv'
<1> DEFINE r == call["approve"].requirement
           e == ApprovedExecution(call["approve"].planVersion)
<1>. USE DEF ApprovePlan, history
<1>1. /\ "approve" \in Workflows /\ call["approve"] # None /\ AtWork("approve")
      /\ call["approve"].pc = "locked"
  BY DEF Workflows, Buttons, AtWork, Running
<1>2. r \in Requirements /\ RequirementOf("approve") = r /\ e \in Executions
  BY <1>1, CallTyped DEF RequirementOf, ApprovedExecution, Executions, ExecutionStatuses
<1>3. execution' \in [Requirements -> Executions \cup {None}]
  BY <1>2 DEF TypeOK
<1>4. /\ status' \in [Requirements -> Statuses]
      /\ \A s \in Requirements : s # r => status'[s] = status[s]
      /\ status'[r] # status[r] => status'[r] = "plan_approved"
  BY <1>2, SetStatusTyped DEF TypeOK, Statuses
<1>5. OwnRequirement("approve")
  BY <1>2, <1>4 DEF OwnRequirement, Decided
<1>6. Works("approve") /\ CallsTyped'
  <2>1. CASE EndCall("approve")
    BY <1>1, <1>5, <2>1, EndTyped DEF Works, WorkFits, AtWork
  <2>2. CASE GoTo("approve", "approved")
    <3>1. /\ CallsTyped' /\ OthersStay("approve") /\ call'["approve"] # None
          /\ call'["approve"].pc = "approved" /\ call'["approve"].requirement = r
          /\ call'["approve"].planVersion = call["approve"].planVersion
      BY <1>1, <2>2, GoToTyped DEF Locations
    <3>2. r \notin redelivered => call["approve"].planVersion = plans[r]
      BY <1>1 DEF HandInv, WorkFits
    <3>. QED  BY <1>1, <1>5, <3>1, <3>2 DEF Works, WorkFits, AtWork
  <2>. QED  BY <2>1, <2>2
<1>. QED  BY <1>1, <1>3, <1>4, <1>6, WorkKeepsHands DEF TypeOK, CallsTyped

(* The development fails, whatever else the step has done. *)
LEMMA FailsWorks ==
  ASSUME TypeOK, AtWork("approve"), DevelopmentFails,
         UNCHANGED <<status, plans, card, handled, delivered, redelivered>>
  PROVE  Works("approve") /\ CallsTyped'
<1>1. "approve" \in Workflows /\ "sendingUndeveloped" \in Locations
  BY DEF Workflows, Buttons, Locations
<1>2. /\ CallsTyped' /\ OthersStay("approve") /\ call'["approve"] # None
      /\ call'["approve"].pc = "sendingUndeveloped"
      /\ call'["approve"].requirement = call["approve"].requirement
  BY <1>1, GoToTyped DEF DevelopmentFails, AtWork
<1>. QED  BY <1>2 DEF Works, WorkFits, AtWork, OwnRequirement

LEMMA RunExecutionKeeps ==
  ASSUME TypeOK, HandInv, RunExecution
  PROVE  TypeOK' /\ HandInv'
<1> DEFINE r == call["approve"].requirement
<1>. USE DEF RunExecution, process, history
<1>1. /\ "approve" \in Workflows /\ call["approve"] # None /\ AtWork("approve")
      /\ call["approve"].pc = "approved"
  BY DEF Workflows, Buttons, AtWork, Running
<1>2. r \in Requirements /\ RequirementOf("approve") = r /\ plans[r] \in Nat
  BY <1>1, CallTyped DEF RequirementOf, TypeOK
<1>3. /\ Works("approve") /\ CallsTyped'
      /\ status' \in [Requirements -> Statuses]
  <2>1. CASE status[r] = "plan_approved"
    <3>1. /\ status' \in [Requirements -> Statuses] /\ status'[r] = "executing"
          /\ \A s \in Requirements : s # r => status'[s] = status[s]
      BY <1>2, <2>1, SetStatusTyped DEF Statuses
    <3>2. /\ CallsTyped' /\ OthersStay("approve") /\ call'["approve"] # None
          /\ call'["approve"].pc = "preparing" /\ call'["approve"].requirement = r
          /\ call'["approve"].planVersion = call["approve"].planVersion
          /\ call'["approve"].developed = plans[r]
      BY <1>1, <1>2, <2>1, DevelopTyped
    <3>3. r \notin redelivered => call["approve"].planVersion = plans[r]
      BY <1>1 DEF HandInv, WorkFits
    <3>4. OwnRequirement("approve")
      BY <1>2, <3>1 DEF OwnRequirement, Decided
    <3>5. WorkFits("approve")'
      BY <3>1, <3>2, <3>3 DEF WorkFits
    <3>. QED  BY <1>1, <3>1, <3>2, <3>4, <3>5 DEF Works
  <2>2. CASE status[r] # "plan_approved"
    BY <1>1, <1>2, <2>2, FailsWorks DEF TypeOK
  <2>. QED  BY <2>1, <2>2
<1>. QED  BY <1>1, <1>3, WorkKeepsHands DEF TypeOK, CallsTyped

(* The development goes on, its requirement executing. *)
LEMMA DevelopsWorks ==
  ASSUME TypeOK, HandInv, AtWork("approve"),
         call["approve"].pc \in {"preparing", "addingWorktree", "developing"},
         NEW l \in {"addingWorktree", "developing"}, GoTo("approve", l),
         UNCHANGED <<status, plans, card, handled, delivered, redelivered>>
  PROVE  Works("approve") /\ CallsTyped'
<1>1. "approve" \in Workflows /\ l \in Locations
  BY DEF Workflows, Buttons, Locations
<1>2. /\ CallsTyped' /\ OthersStay("approve") /\ call'["approve"] # None
      /\ call'["approve"].pc = l
      /\ call'["approve"].requirement = call["approve"].requirement
      /\ call'["approve"].planVersion = call["approve"].planVersion
      /\ call'["approve"].developed = call["approve"].developed
  BY <1>1, GoToTyped DEF AtWork
<1>3. WorkFits("approve")'
  BY <1>1, <1>2 DEF HandInv, WorkFits
<1>. QED  BY <1>2, <1>3 DEF Works, AtWork, OwnRequirement

(* The record of an execution, marked. *)
LEMMA MarkTyped ==
  ASSUME TypeOK, NEW r \in Requirements, execution[r] # None, NEW st \in ExecutionStatuses,
         execution' = [execution EXCEPT ![r].status = st]
  PROVE  execution' \in [Requirements -> Executions \cup {None}]
<1>1. [execution[r] EXCEPT !.status = st] \in Executions
  BY ExecutionTyped DEF Executions
<1>2. execution' = [execution EXCEPT ![r] = [execution[r] EXCEPT !.status = st]]
  OBVIOUS
<1>. QED  BY <1>1, <1>2 DEF TypeOK

LEMMA MarkExecutingKeeps ==
  ASSUME TypeOK, HandInv, MarkExecuting
  PROVE  TypeOK' /\ HandInv'
<1>. USE DEF MarkExecuting, stored, history
<1>1. /\ "approve" \in Workflows /\ call["approve"] # None /\ AtWork("approve")
      /\ call["approve"].pc = "preparing" /\ RequirementOf("approve") \in Requirements
  BY CallTyped DEF Workflows, Buttons, AtWork, Running, RequirementOf
<1>2. execution' \in [Requirements -> Executions \cup {None}]
  BY <1>1, MarkTyped DEF TypeOK, ExecutionStatuses
<1>3. Works("approve") /\ CallsTyped'
  BY <1>1, DevelopsWorks, FailsWorks
<1>. QED  BY <1>1, <1>2, <1>3, WorkKeepsHands DEF TypeOK, CallsTyped

LEMMA AddWorktreeKeeps ==
  ASSUME TypeOK, HandInv, AddWorktree
  PROVE  TypeOK' /\ HandInv'
<1>. USE DEF AddWorktree, process, history
<1>1. /\ "approve" \in Workflows /\ call["approve"] # None /\ AtWork("approve")
      /\ call["approve"].pc = "addingWorktree" /\ RequirementOf("approve") \in Requirements
  BY CallTyped DEF Workflows, Buttons, AtWork, Running, RequirementOf
<1>2. worktree' \in SUBSET Requirements
  BY <1>1 DEF TypeOK
<1>3. Works("approve") /\ CallsTyped'
  BY <1>1, DevelopsWorks, FailsWorks
<1>. QED  BY <1>1, <1>2, <1>3, WorkKeepsHands DEF TypeOK, CallsTyped

LEMMA DevelopedKeeps ==
  ASSUME TypeOK, HandInv, Developed
  PROVE  TypeOK' /\ HandInv'
<1> DEFINE r == call["approve"].requirement
           marked == execution[r] # None /\ execution[r].status = "executing"
<1>. USE DEF Developed
<1>1. /\ "approve" \in Workflows /\ call["approve"] # None /\ AtWork("approve")
      /\ call["approve"].pc = "developing"
  BY DEF Workflows, Buttons, AtWork, Running
<1>2. r \in Requirements /\ RequirementOf("approve") = r
  BY <1>1, CallTyped DEF RequirementOf
<1>3. execution' \in [Requirements -> Executions \cup {None}]
  BY <1>2, MarkTyped DEF TypeOK, ExecutionStatuses
<1>4. /\ Works("approve") /\ CallsTyped'
      /\ status' \in [Requirements -> Statuses]
  <2>1. CASE marked /\ status[r] = "executing"
    <3>1. /\ status' \in [Requirements -> Statuses] /\ status'[r] = "implementation_ready"
          /\ \A s \in Requirements : s # r => status'[s] = status[s]
      BY <1>2, <2>1, SetStatusTyped DEF Statuses
    <3>2. /\ CallsTyped' /\ OthersStay("approve") /\ call'["approve"] # None
          /\ call'["approve"].pc = "sendingDeveloped" /\ call'["approve"].requirement = r
      BY <1>1, <1>2, <2>1, GoToTyped DEF Locations
    <3>3. OwnRequirement("approve")
      BY <1>2, <3>1 DEF OwnRequirement, Decided
    <3>4. WorkFits("approve")'
      BY <3>2 DEF WorkFits
    <3>. QED  BY <1>1, <3>1, <3>2, <3>3, <3>4 DEF Works
  <2>2. CASE ~(marked /\ status[r] = "executing")
    <3>1. DevelopmentFails /\ UNCHANGED status
      BY <1>2, <2>2
    <3>. QED  BY <1>1, <3>1, FailsWorks DEF TypeOK
  <2>. QED  BY <2>1, <2>2
<1>. QED  BY <1>1, <1>3, <1>4, WorkKeepsHands DEF TypeOK, CallsTyped

LEMMA DevelopmentThrowsKeeps ==
  ASSUME TypeOK, HandInv, DevelopmentThrows
  PROVE  TypeOK' /\ HandInv'
<1>. USE DEF DevelopmentThrows, stored, process, history
<1>1. "approve" \in Workflows /\ AtWork("approve")
  BY DEF Workflows, Buttons, AtWork
<1>2. Works("approve") /\ CallsTyped'
  BY <1>1, FailsWorks
<1>. QED  BY <1>1, <1>2, WorkKeepsHands DEF TypeOK, CallsTyped

LEMMA RevertKeeps ==
  ASSUME TypeOK, HandInv, RevertToPlan
  PROVE  TypeOK' /\ HandInv'
<1> DEFINE r == call["back"].requirement
<1>. USE DEF RevertToPlan, process, history
<1>1. "back" \in Workflows /\ call["back"] # None /\ AtWork("back")
  BY DEF Workflows, Buttons, AtWork, Running
<1>2. r \in Requirements /\ RequirementOf("back") = r /\ plans[r] \in Nat
  BY <1>1, CallTyped DEF RequirementOf, TypeOK
<1>3. Works("back") /\ CallsTyped' /\ status' \in [Requirements -> Statuses]
  <2>1. CASE plans[r] > 0
    <3>1. /\ status' \in [Requirements -> Statuses] /\ status'[r] = "plan_reviewing"
          /\ \A s \in Requirements : s # r => status'[s] = status[s]
      BY <1>2, <2>1, SetStatusTyped DEF Statuses
    <3>2. /\ CallsTyped' /\ OthersStay("back") /\ call'["back"] # None
          /\ call'["back"].pc = "sendingPlan" /\ call'["back"].requirement = r
          /\ call'["back"].planVersion = plans[r]
      BY <1>1, <1>2, <2>1, PlanSetTyped
    <3>3. OwnRequirement("back")
      BY <1>2, <3>1 DEF OwnRequirement, Decided
    <3>4. WorkFits("back")'
      BY <3>2 DEF WorkFits
    <3>. QED  BY <1>1, <3>1, <3>2, <3>3, <3>4 DEF Works
  <2>2. CASE ~(plans[r] > 0)
    BY <1>1, <1>2, <2>2, EndWorks DEF TypeOK
  <2>. QED  BY <2>1, <2>2
<1>. QED  BY <1>1, <1>3, WorkKeepsHands DEF TypeOK, CallsTyped

LEMMA CancelKeeps ==
  ASSUME TypeOK, HandInv, Cancel
  PROVE  TypeOK' /\ HandInv'
<1> DEFINE r == call["cancel"].requirement
<1>. USE DEF Cancel, process, history
<1>1. "cancel" \in Workflows /\ AtWork("cancel")
  BY DEF Workflows, Buttons, AtWork, Running
<1>2. r \in Requirements /\ RequirementOf("cancel") = r
  BY <1>1, CallTyped DEF RequirementOf, AtWork
<1>3. /\ status' \in [Requirements -> Statuses] /\ status'[r] = "cancelled"
      /\ \A s \in Requirements : s # r => status'[s] = status[s]
  BY <1>2, SetStatusTyped DEF Statuses
<1>4. CallsTyped' /\ OthersStay("cancel") /\ call'["cancel"] = None
  BY <1>1, EndTyped
<1>5. Works("cancel")
  BY <1>1, <1>2, <1>3, <1>4 DEF Works, WorkFits, AtWork, OwnRequirement
<1>. QED  BY <1>1, <1>3, <1>4, <1>5, WorkKeepsHands DEF TypeOK, CallsTyped

LEMMA VerifyKeeps ==
  ASSUME TypeOK, HandInv, Verify
  PROVE  TypeOK' /\ HandInv'
<1> DEFINE r == call["verify"].requirement
<1>. USE DEF Verify, process, history
<1>1. "verify" \in Workflows /\ call["verify"] # None /\ AtWork("verify")
  BY DEF Workflows, Buttons, AtWork, Running
<1>2. r \in Requirements /\ RequirementOf("verify") = r
  BY <1>1, CallTyped DEF RequirementOf
<1>3. /\ status' \in [Requirements -> Statuses]
      /\ \A s \in Requirements : s # r => status'[s] = status[s]
      /\ status'[r] # status[r] => status'[r] = "verifying"
  BY <1>2, SetStatusTyped DEF TypeOK, Statuses
<1>4. OwnRequirement("verify")
  BY <1>2, <1>3 DEF OwnRequirement, Decided
<1>5. /\ CallsTyped' /\ OthersStay("verify")
      /\ call'["verify"] # None =>
           call'["verify"].pc = "testing" /\ call'["verify"].requirement = r
  BY <1>1, EndTyped, GoToTyped DEF Locations
<1>6. Works("verify")
  BY <1>1, <1>4, <1>5 DEF Works, WorkFits, AtWork
<1>. QED  BY <1>1, <1>3, <1>5, <1>6, WorkKeepsHands DEF TypeOK, CallsTyped

LEMMA TestedKeeps ==
  ASSUME TypeOK, HandInv, NEW ok \in BOOLEAN, Tested(ok)
  PROVE  TypeOK' /\ HandInv'
<1> DEFINE r == call["verify"].requirement
           next == IF ReportPassed(ok) THEN "implementation_ready" ELSE "failed"
<1>. USE DEF Tested
<1>1. "verify" \in Workflows /\ call["verify"] # None /\ AtWork("verify")
  BY DEF Workflows, Buttons, AtWork, Running
<1>2. /\ r \in Requirements /\ RequirementOf("verify") = r
      /\ next \in Statuses /\ next \notin Decided /\ next # "absent"
  BY <1>1, CallTyped DEF RequirementOf, Statuses, Decided
<1>3. /\ status' \in [Requirements -> Statuses]
      /\ \A s \in Requirements : s # r => status'[s] = status[s]
      /\ status'[r] # status[r] => status'[r] = next
  BY <1>2, SetStatusTyped DEF TypeOK
<1>4. OwnRequirement("verify")
  BY <1>2, <1>3 DEF OwnRequirement
<1>5. /\ CallsTyped' /\ OthersStay("verify")
      /\ call'["verify"] # None =>
           call'["verify"].pc = "sendingReport" /\ call'["verify"].requirement = r
  BY <1>1, EndTyped, GoToTyped DEF Locations
<1>6. Works("verify")
  BY <1>1, <1>4, <1>5 DEF Works, WorkFits, AtWork
<1>7. passed' \in SUBSET Requirements /\ tested' \in SUBSET Requirements
  BY <1>2 DEF TypeOK
<1>. QED  BY <1>1, <1>3, <1>5, <1>6, <1>7, WorkKeepsHands DEF TypeOK, CallsTyped

LEMMA AcceptKeeps ==
  ASSUME TypeOK, HandInv, Accept
  PROVE  TypeOK' /\ HandInv'
<1> DEFINE r == call["accept"].requirement
<1>. USE DEF Accept, process, history
<1>1. "accept" \in Workflows /\ AtWork("accept")
  BY DEF Workflows, Buttons, AtWork, Running
<1>2. r \in Requirements /\ RequirementOf("accept") = r
  BY <1>1, CallTyped DEF RequirementOf, AtWork
<1>3. /\ status' \in [Requirements -> Statuses]
      /\ \A s \in Requirements : s # r => status'[s] = status[s]
      /\ status'[r] # status[r] => status'[r] = "accepted"
  BY <1>2, SetStatusTyped DEF TypeOK, Statuses
<1>4. CallsTyped' /\ OthersStay("accept") /\ call'["accept"] = None
  BY <1>1, EndTyped
<1>5. Works("accept")
  BY <1>1, <1>2, <1>3, <1>4 DEF Works, WorkFits, AtWork, OwnRequirement
<1>. QED  BY <1>1, <1>3, <1>4, <1>5, WorkKeepsHands DEF TypeOK, CallsTyped

LEMMA SendKeeps ==
  ASSUME TypeOK, HandInv, NEW w \in Workflows, NEW kind \in CardKinds, call[w] # None,
         call[w].pc # "locking", kind = "plan" => call[w].pc = "sendingPlan",
         Send(kind, RequirementOf(w), call[w].planVersion), EndCall(w),
         UNCHANGED <<status, plans, worktree, process, history>>
  PROVE  TypeOK' /\ HandInv'
<1>. USE DEF process, history
<1>1. CallsTyped' /\ OthersStay(w) /\ call'[w] = None
  BY EndTyped
<1>2. Sends(w, kind)
  BY <1>1 DEF Sends, AtWork
<1>3. HandInv' /\ card' \in [Messages -> Cards \cup {None}]
  BY <1>2, SendKeepsHands
<1>. QED  BY <1>1, <1>3 DEF TypeOK, CallsTyped

LEMMA SendsKeep ==
  ASSUME TypeOK, HandInv,
         (\E w \in {"intake", "revise", "back"} : SendPlan(w)) \/ SendDevelopment \/ SendReport
  PROVE  TypeOK' /\ HandInv'
<1>0. {"intake", "revise", "back", "approve", "verify"} \subseteq Workflows
  BY DEF Workflows, Buttons
<1>1. ASSUME NEW w \in {"intake", "revise", "back"}, SendPlan(w)
      PROVE  TypeOK' /\ HandInv'
  <2>1. w \in Workflows /\ "plan" \in CardKinds
    BY <1>0 DEF CardKinds
  <2>. QED  BY <1>1, <2>1, SendKeeps DEF SendPlan, Running
<1>2. CASE SendDevelopment
  <2>1. PICK kind \in {"developed", "undeveloped"} :
          Send(kind, RequirementOf("approve"), call["approve"].planVersion)
    BY <1>2 DEF SendDevelopment
  <2>2. kind \in CardKinds /\ kind # "plan" /\ "approve" \in Workflows
    BY <1>0 DEF CardKinds
  <2>3. call["approve"] # None /\ call["approve"].pc # "locking"
    BY <1>2 DEF SendDevelopment, Running
  <2>. QED  BY <1>2, <2>1, <2>2, <2>3, SendKeeps DEF SendDevelopment
<1>3. CASE SendReport
  <2>1. "verify" \in Workflows /\ "verified" \in CardKinds
    BY <1>0 DEF CardKinds
  <2>. QED  BY <1>3, <2>1, SendKeeps DEF SendReport, Running
<1>. QED  BY <1>1, <1>2, <1>3

LEMMA StutterKeeps ==
  ASSUME TypeOK, HandInv, UNCHANGED vars
  PROVE  TypeOK' /\ HandInv'
<1>. USE DEF vars, stored, process, history
<1>1. TypeOK'
  BY DEF TypeOK
<1>2. /\ \A w \in Workflows : LockFits(w)' /\ WorkFits(w)'
      /\ \A k \in Messages : CardFits(k)'
  BY DEF HandInv, LockFits, WorkFits, CardFits, AtWork, Running
<1>3. Sent' /\ OneLock' /\ AbsentIsIdle'
  BY DEF HandInv, Sent, OneLock, AbsentIsIdle, Running
<1>4. OneHand' /\ DecidedIsIdle'
  BY DEF HandInv, OneHand, DecidedIsIdle, OpenCards, ActiveCalls, RequirementOf
<1>. QED  BY <1>1, <1>2, <1>3, <1>4 DEF HandInv

LEMMA StepKeepsHands ==
  ASSUME TypeOK, HandInv, [Next]_vars
  PROVE  TypeOK' /\ HandInv'
<1>1. ASSUME CallStep PROVE TypeOK' /\ HandInv'
  BY <1>1, LockKeeps, RevisePlanKeeps, PlanReadyKeeps, SendsKeep, ThrowsKeeps,
     ApprovePlanKeeps, RunExecutionKeeps, MarkExecutingKeeps, AddWorktreeKeeps,
     DevelopedKeeps, DevelopmentThrowsKeeps, RevertKeeps, CancelKeeps, VerifyKeeps,
     TestedKeeps, AcceptKeeps
  DEF CallStep
<1>. QED
  BY <1>1, IntakeKeeps, ClickKeeps, RefuseKeeps, RestartKeeps, StutterKeeps DEF Next

-----------------------------------------------------------------------------
(***************************************************************************)
(* WorkInv: most steps neither begin to develop or to test, nor make a     *)
(* requirement one that may be tested.                                     *)
(***************************************************************************)
Testable == {"implementation_ready", "verifying"}
QuietCalls(w) ==
  /\ OthersStay(w)
  /\ call'[w] # None => call'[w].pc \notin {"developing", "testing"}
QuietStatus ==
  \A r \in Requirements : status'[r] \in Testable => status[r] \in Testable

LEMMA QuietKeepsWork ==
  ASSUME WorkInv, NEW w \in Workflows, QuietCalls(w), QuietStatus,
         UNCHANGED <<worktree, passed, tested>>
  PROVE  WorkInv'
<1>1. "approve" \in Workflows /\ "verify" \in Workflows
  BY DEF Workflows, Buttons
<1>2. ASSUME NEW r \in Requirements
      PROVE  (Developing(r)' => Developing(r)) /\ (Untested(r) => Untested(r)')
  BY <1>1 DEF QuietCalls, QuietStatus, OthersStay, Testable, Developing, Untested,
              Running, RequirementOf
<1>. QED  BY <1>2 DEF WorkInv

LEMMA SetQuiet ==
  ASSUME TypeOK, NEW r \in Requirements, NEW next \in Statuses \ Testable,
         SetStatus(r, next)
  PROVE  QuietStatus
  BY SetStatusTyped DEF QuietStatus

LEMMA GoToQuiet ==
  ASSUME TypeOK, NEW w \in Workflows, call[w] # None,
         NEW l \in Locations \ {"developing", "testing"}, GoTo(w, l)
  PROVE  QuietCalls(w)
  BY GoToTyped DEF QuietCalls

LEMMA EndQuiet ==
  ASSUME TypeOK, NEW w \in Workflows, EndCall(w)
  PROVE  QuietCalls(w)
  BY EndTyped DEF QuietCalls

LEMMA ClicksKeepWork ==
  ASSUME TypeOK, HandInv, WorkInv,
         \/ \E r \in Requirements : Intake(r)
         \/ \E m \in Messages, b \in Buttons : Click(m, b) \/ Redeliver(m, b)
         \/ \E m \in Messages : Refuse(m)
         \/ Restart
         \/ \E w \in Buttons : LockCard(w)
  PROVE  WorkInv'
<1>1. ASSUME NEW r \in Requirements, Intake(r) PROVE WorkInv'
  <2> DEFINE c == [pc |-> "planning", requirement |-> r, message |-> None,
                   planVersion |-> 0, developed |-> 0]
  <2>1. "intake" \in Workflows /\ c \in Calls /\ c.pc = "planning"
    BY <1>1 DEF Workflows, Calls, Locations
  <2>2. QuietCalls("intake")
    BY <1>1, <2>1, PutTyped DEF Intake, QuietCalls
  <2>3. QuietStatus
    BY <1>1, SetQuiet DEF Intake, Statuses, Testable
  <2>. QED  BY <1>1, <2>1, <2>2, <2>3, QuietKeepsWork DEF Intake, process, history
<1>2. ASSUME NEW m \in Messages, NEW b \in Buttons, Click(m, b) \/ Redeliver(m, b)
      PROVE  WorkInv'
  <2>1. card[m] # None /\ Dispatch(m, b) /\ UNCHANGED <<stored, passed, tested>>
    BY <1>2 DEF Click, Redeliver, HandInv, Sent
  <2>2. b \in Workflows /\ QuietCalls(b)
    BY <2>1, DispatchTyped DEF QuietCalls
  <2>3. QuietStatus
    BY <2>1 DEF QuietStatus, stored
  <2>. QED  BY <2>1, <2>2, <2>3, QuietKeepsWork DEF stored
<1>3. ASSUME NEW m \in Messages, Refuse(m) PROVE WorkInv'
  BY <1>3 DEF Refuse, WorkInv, Developing, Untested, Running, RequirementOf, stored, history
<1>4. CASE Restart
  <2>1. call'["approve"] = None /\ call'["verify"] = None
    BY <1>4 DEF Restart, Workflows, Buttons
  <2>. QED
    BY <1>4, <2>1 DEF Restart, WorkInv, Developing, Untested, Running, stored, history
<1>5. ASSUME NEW w \in Buttons, LockCard(w) PROVE WorkInv'
  <2>1. w \in Workflows /\ call[w] # None /\ QuietCalls(w)
    BY <1>5, GoToQuiet, EndQuiet DEF LockCard, Running, Workflows, Locations
  <2>. QED
    BY <1>5, <2>1, QuietKeepsWork DEF LockCard, QuietStatus, process, history
<1>. QED  BY <1>1, <1>2, <1>3, <1>4, <1>5

(* The steps of calls that neither add a worktree nor end a development or *)
(* a test.                                                                 *)
LEMMA QuietStepsKeepWork ==
  ASSUME TypeOK, WorkInv,
         \/ RevisePlan \/ (\E w \in {"intake", "revise"} : PlanReady(w))
         \/ \E w \in {"intake", "revise", "back"} : SendPlan(w)
         \/ \E w \in Workflows : Throws(w)
         \/ ApprovePlan \/ RunExecution \/ MarkExecuting
         \/ DevelopmentThrows \/ SendDevelopment
         \/ RevertToPlan \/ Cancel \/ SendReport \/ Accept
  PROVE  WorkInv'
<1>. USE DEF process, history, stored
<1>0. /\ \A w \in Workflows : call[w] # None => RequirementOf(w) \in Requirements
      /\ {"intake", "revise", "back", "approve", "verify", "cancel", "accept"} \subseteq Workflows
      /\ {"planning", "approved", "preparing", "addingWorktree", "sendingUndeveloped"}
           \subseteq Locations \ {"developing", "testing"}
      /\ {"plan_reviewing", "plan_approved", "executing", "cancelled", "accepted"}
           \subseteq Statuses \ Testable
  BY CallTyped DEF RequirementOf, Workflows, Buttons, Locations, Statuses, Testable
<1>1. UNCHANGED status => QuietStatus
  BY DEF QuietStatus
<1>2. CASE RevisePlan
  <2>1. QuietCalls("revise")
    BY <1>0, <1>2, GoToQuiet, EndQuiet DEF RevisePlan, Running
  <2>. QED  BY <1>0, <1>1, <1>2, <2>1, QuietKeepsWork DEF RevisePlan
<1>3. ASSUME NEW w \in {"intake", "revise"}, PlanReady(w) PROVE WorkInv'
  <2>1. w \in Workflows /\ call[w] # None /\ RequirementOf(w) \in Requirements
    BY <1>0, <1>3 DEF PlanReady, Running
  <2>2. plans'[RequirementOf(w)] \in Nat
    BY <1>3, <2>1 DEF PlanReady, TypeOK
  <2>3. QuietCalls(w)
    <3>1. CASE EndCall(w)
      BY <2>1, <3>1, EndQuiet
    <3>2. CASE call' = [call EXCEPT ![w].pc = "sendingPlan",
                                    ![w].planVersion = plans'[RequirementOf(w)]]
      BY <2>1, <2>2, <3>2, PlanSetTyped DEF QuietCalls
    <3>. QED  BY <1>3, <3>1, <3>2 DEF PlanReady
  <2>4. QuietStatus
    BY <1>0, <1>1, <1>3, <2>1, SetQuiet DEF PlanReady
  <2>. QED  BY <1>3, <2>1, <2>3, <2>4, QuietKeepsWork DEF PlanReady
<1>4. ASSUME NEW w \in {"intake", "revise", "back"}, SendPlan(w) PROVE WorkInv'
  BY <1>0, <1>1, <1>4, EndQuiet, QuietKeepsWork DEF SendPlan
<1>5. ASSUME NEW w \in Workflows, Throws(w) PROVE WorkInv'
  BY <1>1, <1>5, EndQuiet, QuietKeepsWork DEF Throws
<1>6. CASE ApprovePlan
  <2>1. call["approve"] # None /\ QuietCalls("approve")
    BY <1>0, <1>6, GoToQuiet, EndQuiet DEF ApprovePlan, Running
  <2>2. QuietStatus
    BY <1>0, <1>1, <1>6, <2>1, SetQuiet DEF ApprovePlan
  <2>. QED  BY <1>0, <1>6, <2>1, <2>2, QuietKeepsWork DEF ApprovePlan
<1>7. CASE RunExecution
  <2>1. call["approve"] # None /\ plans[RequirementOf("approve")] \in Nat
    BY <1>0, <1>7 DEF RunExecution, Running, TypeOK
  <2>2. QuietCalls("approve")
    BY <1>0, <1>7, <2>1, GoToQuiet, DevelopTyped DEF RunExecution, DevelopmentFails, QuietCalls
  <2>3. QuietStatus
    BY <1>0, <1>1, <1>7, <2>1, SetQuiet DEF RunExecution
  <2>. QED  BY <1>0, <1>7, <2>2, <2>3, QuietKeepsWork DEF RunExecution
<1>8. CASE MarkExecuting
  <2>1. QuietCalls("approve")
    BY <1>0, <1>8, GoToQuiet DEF MarkExecuting, Running, DevelopmentFails
  <2>. QED  BY <1>0, <1>1, <1>8, <2>1, QuietKeepsWork DEF MarkExecuting
<1>9. CASE DevelopmentThrows
  <2>1. QuietCalls("approve")
    BY <1>0, <1>9, GoToQuiet DEF DevelopmentThrows, DevelopmentFails
  <2>. QED  BY <1>0, <1>1, <1>9, <2>1, QuietKeepsWork DEF DevelopmentThrows
<1>10. CASE SendDevelopment
  BY <1>0, <1>1, <1>10, EndQuiet, QuietKeepsWork DEF SendDevelopment
<1>11. CASE RevertToPlan
  <2>1. call["back"] # None /\ plans[RequirementOf("back")] \in Nat
    BY <1>0, <1>11 DEF RevertToPlan, Running, TypeOK
  <2>2. QuietCalls("back")
    BY <1>0, <1>11, <2>1, EndQuiet, PlanSetTyped DEF RevertToPlan, QuietCalls
  <2>3. QuietStatus
    BY <1>0, <1>1, <1>11, <2>1, SetQuiet DEF RevertToPlan
  <2>. QED  BY <1>0, <1>11, <2>2, <2>3, QuietKeepsWork DEF RevertToPlan
<1>12. CASE Cancel
  <2>1. QuietCalls("cancel") /\ QuietStatus
    BY <1>0, <1>12, EndQuiet, SetQuiet DEF Cancel, Running
  <2>. QED  BY <1>0, <1>12, <2>1, QuietKeepsWork DEF Cancel
<1>13. CASE SendReport
  BY <1>0, <1>1, <1>13, EndQuiet, QuietKeepsWork DEF SendReport
<1>14. CASE Accept
  <2>1. QuietCalls("accept") /\ QuietStatus
    BY <1>0, <1>1, <1>14, EndQuiet, SetQuiet DEF Accept, Running
  <2>. QED  BY <1>0, <1>14, <2>1, QuietKeepsWork DEF Accept
<1>. QED
  BY <1>2, <1>3, <1>4, <1>5, <1>6, <1>7, <1>8, <1>9, <1>10, <1>11, <1>12, <1>13, <1>14

LEMMA AddWorktreeKeepsWork ==
  ASSUME TypeOK, WorkInv, AddWorktree
  PROVE  WorkInv'
<1> DEFINE r == call["approve"].requirement
<1>. USE DEF AddWorktree, process, history
<1>1. /\ "approve" \in Workflows /\ "verify" \in Workflows
      /\ call["approve"] # None /\ RequirementOf("approve") = r
  BY DEF Workflows, Buttons, Running, RequirementOf
<1>2. CASE r \notin worktree
  <2>1. /\ OthersStay("approve") /\ call'["approve"] # None
        /\ call'["approve"].requirement = r
    BY <1>1, <1>2, GoToTyped DEF Locations
  <2>2. worktree' = worktree \cup {r}
    BY <1>1, <1>2
  <2>3. ASSUME NEW s \in Requirements
        PROVE  (Developing(s)' => s = r) /\ (Untested(s) => Untested(s)')
    BY <1>1, <2>1 DEF Developing, Untested, Running, RequirementOf, OthersStay
  <2>. QED  BY <1>2, <2>2, <2>3 DEF WorkInv
<1>3. CASE r \in worktree
  <2>1. QuietCalls("approve")
    BY <1>1, <1>3, GoToQuiet DEF DevelopmentFails, Locations
  <2>. QED  BY <1>1, <1>3, <2>1, QuietKeepsWork DEF QuietStatus
<1>. QED  BY <1>2, <1>3

LEMMA DevelopedKeepsWork ==
  ASSUME TypeOK, WorkInv, Developed
  PROVE  WorkInv'
<1> DEFINE r == call["approve"].requirement
<1>. USE DEF Developed
<1>1. /\ "approve" \in Workflows /\ "verify" \in Workflows
      /\ call["approve"] # None /\ RequirementOf("approve") = r
      /\ r \in Requirements /\ Developing(r)
  BY CallTyped DEF Workflows, Buttons, Running, RequirementOf, Developing
<1>2. QuietCalls("approve")
  BY <1>1, GoToQuiet DEF DevelopmentFails, Locations
<1>3. \A s \in Requirements : s # r => status'[s] = status[s]
  BY <1>1, SetStatusTyped DEF Statuses
<1>4. ASSUME NEW s \in Requirements
      PROVE  ~Developing(s)' /\ (s # r /\ Untested(s) => Untested(s)')
  BY <1>1, <1>2, <1>3 DEF Developing, Untested, Running, RequirementOf, QuietCalls, OthersStay
<1>5. r \in worktree /\ r \notin passed
  BY <1>1 DEF WorkInv, Untested
<1>. QED  BY <1>1, <1>4, <1>5 DEF WorkInv

LEMMA VerifyKeepsWork ==
  ASSUME TypeOK, WorkInv, Verify
  PROVE  WorkInv'
<1> DEFINE r == call["verify"].requirement
<1>. USE DEF Verify, process, history
<1>1. /\ "approve" \in Workflows /\ "verify" \in Workflows
      /\ call["verify"] # None /\ RequirementOf("verify") = r /\ r \in Requirements
  BY CallTyped DEF Workflows, Buttons, Running, RequirementOf
<1>2. CASE status[r] = "implementation_ready"
  <2>1. /\ OthersStay("verify")
        /\ call'["verify"] # None => call'["verify"].requirement = r
    BY <1>1, <1>2, EndTyped, GoToTyped DEF Locations
  <2>2. \A s \in Requirements : s # r => status'[s] = status[s]
    BY <1>1, <1>2, SetStatusTyped DEF Statuses
  <2>3. ASSUME NEW s \in Requirements
        PROVE  (Developing(s)' => Developing(s)) /\ (Untested(s) => Untested(s)')
    BY <1>1, <1>2, <2>1, <2>2 DEF Developing, Untested, Running, RequirementOf, OthersStay
  <2>. QED  BY <2>3 DEF WorkInv
<1>3. CASE status[r] # "implementation_ready"
  <2>1. QuietCalls("verify") /\ QuietStatus
    BY <1>1, <1>3, EndQuiet DEF QuietStatus
  <2>. QED  BY <1>1, <2>1, QuietKeepsWork
<1>. QED  BY <1>2, <1>3

LEMMA TestedKeepsWork ==
  ASSUME TypeOK, WorkInv, NEW ok \in BOOLEAN, Tested(ok)
  PROVE  WorkInv'
<1> DEFINE r == call["verify"].requirement
<1>. USE DEF Tested
<1>1. /\ "approve" \in Workflows /\ "verify" \in Workflows
      /\ call["verify"] # None /\ RequirementOf("verify") = r /\ r \in Requirements
      /\ ~Untested(r)
  BY CallTyped DEF Workflows, Buttons, Running, RequirementOf, Untested
<1>2. QuietCalls("verify")
  BY <1>1, EndQuiet, GoToQuiet DEF Locations
<1>3. \A s \in Requirements : s # r => status'[s] = status[s]
  BY <1>1, SetStatusTyped DEF Statuses, ReportPassed
<1>4. \A s \in Requirements : s # r => (s \in passed' <=> s \in passed)
  BY <1>1
<1>5. ASSUME NEW s \in Requirements
      PROVE  (Developing(s)' => Developing(s)) /\ (Untested(s) => Untested(s)')
  BY <1>1, <1>2, <1>3, <1>4
  DEF Developing, Untested, Running, RequirementOf, QuietCalls, OthersStay
<1>6. passed' \subseteq tested'
  BY DEF WorkInv, ReportPassed
<1>. QED  BY <1>5, <1>6 DEF WorkInv

LEMMA StepKeepsWork ==
  ASSUME TypeOK, HandInv, WorkInv, [Next]_vars
  PROVE  WorkInv'
<1>1. CASE UNCHANGED vars
  BY <1>1
  DEF vars, stored, process, history, WorkInv, Developing, Untested, Running, RequirementOf
<1>2. CASE CallStep
  BY <1>2, ClicksKeepWork, QuietStepsKeepWork, AddWorktreeKeepsWork, DevelopedKeepsWork,
     VerifyKeepsWork, TestedKeepsWork
  DEF CallStep
<1>. QED  BY <1>1, <1>2, ClicksKeepWork DEF Next

-----------------------------------------------------------------------------
(* Who moves a status: its intake or a call at work, and to "accepted" only *)
(* with a passed report.                                                   *)
LEMMA StatusMoves ==
  ASSUME TypeOK, [Next]_vars, NEW r \in Requirements, status'[r] # status[r]
  PROVE  /\ status[r] = "absent" \/ ActiveCalls(r) # {}
         /\ status'[r] = "accepted" => r \in passed
<1> DEFINE Moves(w) ==
      /\ w \in ActiveCalls(r)
      /\ status'[r] = "accepted" => r \in passed
<1>. USE DEF SetStatus, TypeOK, Running, RequirementOf
<1>0. {"intake", "approve", "back", "cancel", "verify", "accept"} \subseteq Workflows
  BY DEF Workflows, Buttons
<1>1. ASSUME NEW s \in Requirements, Intake(s)
      PROVE  status[r] = "absent" /\ status'[r] # "accepted"
  BY <1>1 DEF Intake
<1>2. ASSUME NEW w \in {"intake", "revise"}, PlanReady(w) PROVE Moves(w)
  BY <1>0, <1>2 DEF PlanReady, ActiveCalls
<1>3. ASSUME ApprovePlan \/ RunExecution \/ Developed PROVE Moves("approve")
  BY <1>0, <1>3 DEF ApprovePlan, RunExecution, Developed, ActiveCalls
<1>4. ASSUME RevertToPlan PROVE Moves("back")
  BY <1>0, <1>4 DEF RevertToPlan, ActiveCalls
<1>5. ASSUME Cancel PROVE Moves("cancel")
  BY <1>0, <1>5 DEF Cancel, ActiveCalls
<1>6. ASSUME Verify PROVE Moves("verify")
  BY <1>0, <1>6 DEF Verify, ActiveCalls
<1>7. ASSUME NEW ok \in BOOLEAN, Tested(ok) PROVE Moves("verify")
  <2>1. CASE ReportPassed(ok)
    BY <1>0, <1>7, <2>1 DEF Tested, ActiveCalls
  <2>2. CASE ~ReportPassed(ok)
    BY <1>0, <1>7, <2>2 DEF Tested, ActiveCalls
  <2>. QED  BY <2>1, <2>2
<1>8. ASSUME Accept PROVE Moves("accept")
  BY <1>0, <1>8 DEF Accept, ActiveCalls
<1>9. CASE CallStep
  <2>1. \/ (\E w \in {"intake", "revise"} : PlanReady(w))
        \/ ApprovePlan \/ RunExecution \/ Developed \/ RevertToPlan \/ Cancel
        \/ Verify \/ (\E ok \in BOOLEAN : Tested(ok)) \/ Accept
    BY <1>9
    DEF CallStep, LockCard, RevisePlan, SendPlan, Throws, MarkExecuting, AddWorktree,
        DevelopmentThrows, SendDevelopment, SendReport, stored
  <2>. QED  BY <1>2, <1>3, <1>4, <1>5, <1>6, <1>7, <1>8, <2>1
<1>10. (\E s \in Requirements : Intake(s)) \/ CallStep
  BY DEF Next, vars, stored, Click, Redeliver, Refuse, Restart
<1>. QED  BY <1>1, <1>9, <1>10

(* The inductive invariant holds initially. *)
LEMMA InitInv == Init => RInv
<1>. SUFFICES ASSUME Init PROVE RInv
  OBVIOUS
<1>1. call["approve"] = None /\ call["verify"] = None
  BY DEF Init, Workflows, Buttons
<1>2. WorkInv
  BY <1>1 DEF Init, WorkInv, Developing, Untested, Running
<1>. QED  BY <1>2, InitHands DEF RInv

(* The inductive invariant is kept by every step. *)
LEMMA StepInv == RInv /\ [Next]_vars => RInv'
  BY StepKeepsHands, StepKeepsWork DEF RInv

(* The inductive invariant: who may act on a requirement, and what of it   *)
(* was developed and tested, in every reachable state.                     *)
THEOREM RequirementInvariant == Spec => []RInv
<1>. QED  BY InitInv, StepInv, PTL DEF Spec

(* Rows, cards and calls stay in states the code knows. *)
THEOREM RequirementTypeCorrect == Spec => []TypeOK
<1>1. RInv => TypeOK
  BY DEF RInv
<1>. QED  BY <1>1, RequirementInvariant, PTL

(* A requirement is in one hand: one open card, or one call at work, unless *)
(* a click on it was dispatched twice.                                     *)
THEOREM RequirementInOneHand == Spec => []OneHand
<1>1. RInv => OneHand
  BY DEF RInv, HandInv
<1>. QED  BY <1>1, RequirementInvariant, PTL

(* The agent is given the plan version the user confirmed. *)
THEOREM PlanIsTheConfirmed == Spec => []ConfirmedPlanIsDeveloped
<1>1. RInv => ConfirmedPlanIsDeveloped
  <2>1. "approve" \in Workflows
    BY DEF Workflows, Buttons
  <2>. QED  BY <2>1 DEF RInv, HandInv, WorkFits, AtWork, ConfirmedPlanIsDeveloped
<1>. QED  BY <1>1, RequirementInvariant, PTL

(* While the agent works its requirement stays "executing". *)
THEOREM DevelopmentStaysUndisturbed == Spec => []DevelopmentIsUndisturbed
<1>1. RInv => DevelopmentIsUndisturbed
  <2>1. "approve" \in Workflows
    BY DEF Workflows, Buttons
  <2>. QED  BY <2>1 DEF RInv, HandInv, WorkFits, AtWork, DevelopmentIsUndisturbed
<1>. QED  BY <1>1, RequirementInvariant, PTL

(* Only what passed its last tests is accepted, clicked twice or not. *)
THEOREM AcceptanceIsTested == Spec => AcceptedIsTested
<1> DEFINE P == \A r \in Requirements :
                  status[r] # "accepted" /\ status'[r] = "accepted" => r \in tested
<1>1. RInv /\ [Next]_vars => [P]_vars
  BY StatusMoves DEF RInv, WorkInv
<1>2. Spec => [][P]_vars
  BY <1>1, RequirementInvariant, PTL DEF Spec
<1>. QED  BY <1>2 DEF AcceptedIsTested

(* What was cancelled or accepted stays so, unless a click on it was       *)
(* dispatched twice.                                                       *)
THEOREM DecisionStays == Spec => DecisionIsFinal
<1> DEFINE P == \A r \in Requirements \ redelivered :
                  status[r] \in {"cancelled", "accepted"} => status'[r] = status[r]
<1>1. RInv /\ [Next]_vars => [P]_vars
  <2>. SUFFICES ASSUME RInv, [Next]_vars, NEW r \in Requirements \ redelivered,
                       status[r] \in {"cancelled", "accepted"}, status'[r] # status[r]
                PROVE  FALSE
    OBVIOUS
  <2>1. ActiveCalls(r) = {}
    BY DEF RInv, HandInv, DecidedIsIdle, Decided
  <2>. QED  BY <2>1, StatusMoves DEF RInv
<1>2. Spec => [][P]_vars
  BY <1>1, RequirementInvariant, PTL DEF Spec
<1>. QED  BY <1>2 DEF DecisionIsFinal
=============================================================================
