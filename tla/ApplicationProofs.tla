-------------------------- MODULE ApplicationProofs --------------------------
(***************************************************************************)
(* Proofs about Application, for every set of providers, commands,         *)
(* sessions, turns, repositories and rows of the legacy files.  A lemma    *)
(* says what a step does to the files, the providers, the turns and the    *)
(* repositories; an invariant of each part is kept by each of these moves. *)
(***************************************************************************)
EXTENDS Application, FiniteSetTheorems, SequenceTheorems, TLAPS

(* The phases of boot by their number. *)
LEMMA Phases ==
  /\ At("sessions") <=> phase = 1
  /\ At("repositories") <=> phase = 2
  /\ At("chat_bindings") <=> phase = 3
  /\ At("dedup") <=> phase = 4
  /\ At("tasks") <=> phase = 5
  /\ At("seed") <=> phase = 6
  /\ At("providers") <=> phase = 7
  /\ At("registry") <=> phase = 8
<1>1. DOMAIN Order = 1 .. 8
  BY DEF Order
<1>2. /\ Order[1] = "sessions" /\ Order[2] = "repositories" /\ Order[3] = "chat_bindings"
      /\ Order[4] = "dedup" /\ Order[5] = "tasks" /\ Order[6] = "seed"
      /\ Order[7] = "providers" /\ Order[8] = "registry"
  BY DEF Order
<1>3. \A p : At(p) => phase \in 1 .. 8
  BY <1>1 DEF At
<1>4. \A n \in 1 .. 8 : n = 1 \/ n = 2 \/ n = 3 \/ n = 4 \/ n = 5 \/ n = 6 \/ n = 7 \/ n = 8
  OBVIOUS
<1>5. QED
  BY <1>1, <1>2, <1>3, <1>4 DEF At

(* A phase that deals with a file, or seeds or builds, is one of the eight. *)
LEMMA PhaseOf ==
  ASSUME NEW p, At(p)
  PROVE  phase \in 1 .. 8 /\ Order[phase] = p
<1>1. DOMAIN Order = 1 .. 8
  BY DEF Order
<1>2. QED
  BY <1>1 DEF At

LEMMA FileNames ==
  /\ Files = {"dedup", "tasks", "sessions", "providers", "repositories", "chat_bindings"}
  /\ Files = DOMAIN RowsOf
  /\ Tables = {"dedup", "tasks"}
  /\ RowsOf["sessions"] \subseteq Sessions /\ RowsOf["providers"] \subseteq Kinds
  /\ RowsOf["repositories"] \subseteq Ids
  /\ \A f \in Files : RowsOf[f] \subseteq Rows
BY ApplicationAssumption, LegacyAssumption DEF Files

-----------------------------------------------------------------------------
(* What a step does to the files of earlier releases. *)
LEMMA LegacyMoves ==
  ASSUME [Next]_vars
  PROVE  \/ phase' = phase /\ UNCHANGED <<legacyVars, owed>>
         \/ phase = Up /\ phase' = Up /\ UNCHANGED legacyVars
         \/ /\ phase = Up /\ phase' = Up
            /\ \E f \in Tables, row \in Rows :
                 \/ Add(f, row) /\ UNCHANGED owed
                 \/ Remove(f, row) /\ owed' = [owed EXCEPT ![f] = @ \ {row}]
         \/ phase = Down /\ phase' = 1 /\ UNCHANGED <<legacyVars, owed>>
         \/ phase' = Down /\ LegacyDie /\ UNCHANGED owed
         \/ \E f \in Files \ {"providers"} :
              /\ At(f) /\ phase' = phase + 1 /\ UNCHANGED owed
              /\ Nothing(f) \/ NoMerge(f, Populated(f)) \/ Unlink(f)
         \/ \E f \in Files : At(f) /\ phase' = Down /\ Corrupt(f) /\ UNCHANGED owed
         \/ \E f \in Files \ {"providers"} :
              /\ At(f) /\ Import(f, Populated(f)) /\ ImportRows(f) /\ UNCHANGED <<phase, owed>>
         \/ At("seed") /\ EnsureSeed /\ phase' = phase + 1 /\ UNCHANGED owed
         \/ /\ At("providers") /\ phase' = phase + 1 /\ UNCHANGED owed
            /\ Nothing("providers") \/ (~ imported /\ SetAside("providers"))
         \/ /\ At("providers") /\ legacy["providers"].state = "whole" /\ imported' = TRUE
            /\ UNCHANGED <<legacy, aside, table, phase, owed>>
         \/ /\ At("providers") /\ phase' = phase + 1 /\ UNCHANGED <<aside, table, owed>>
            /\ legacy["providers"].state = "whole"
            /\ legacy["providers"].rows \subseteq data.providers
            /\ legacy' = [legacy EXCEPT !["providers"] = Gone] /\ imported' = FALSE
         \/ At("registry") /\ phase' = phase + 1 /\ UNCHANGED <<legacyVars, owed>>
<1>1. CASE UNCHANGED vars
  BY <1>1 DEF vars
<1>2. CASE Starts
  BY <1>2 DEF Starts, Onward, Down
<1>3. CASE Seed
  BY <1>3 DEF Seed, Onward
<1>4. CASE MigrateProviders
  <2>1. "providers" \in Files
    BY FileNames
  <2>2. QED
    BY <1>4, <2>1 DEF MigrateProviders, Onward, Aborts
<1>5. CASE Registry
  BY <1>5 DEF Registry, Onward
<1>6. ASSUME NEW f \in Files \ {"providers"}, Migrate(f)
      PROVE  \/ /\ At(f) /\ phase' = phase + 1 /\ UNCHANGED owed
                /\ Nothing(f) \/ NoMerge(f, Populated(f)) \/ Unlink(f)
             \/ At(f) /\ phase' = Down /\ Corrupt(f) /\ UNCHANGED owed
             \/ At(f) /\ Import(f, Populated(f)) /\ ImportRows(f) /\ UNCHANGED <<phase, owed>>
  BY <1>6 DEF Migrate, Done, Onward, Aborts
<1>7. CASE Boot
  BY <1>2, <1>3, <1>4, <1>5, <1>6, <1>7 DEF Boot
<1>8. CASE ProviderCommand \/ ProviderWork \/ Chat \/ ChatWork \/ Repo \/ RepoWork
  BY <1>8 DEF ProviderCommand, ProviderWork, Chat, ChatWork, Repo, RepoWork, Serving
<1>9. CASE Row
  BY <1>9 DEF Row, Serving
<1>10. CASE Dies
  BY <1>10 DEF Dies
<1>11. QED
  BY <1>1, <1>7, <1>8, <1>9, <1>10 DEF Next

(* While an import has committed, its file is still there, to be deleted. *)
LegacyInv ==
  /\ LegacyTypeOK
  /\ phase \in 0 .. Up
  /\ \A f \in Files : legacy[f].state = "absent" => legacy[f] = Gone
  /\ imported => \E f \in Files : At(f) /\ legacy[f].state = "whole"

LEMMA LegacyInvInit == Init => LegacyInv
<1>. SUFFICES ASSUME Init PROVE LegacyInv
  OBVIOUS
<1>1. PICK left \in SUBSET Files : \E content :
        /\ \A f \in left : content[f] \in Legacy(f) \ {Gone}
        /\ legacy = [f \in Files |-> IF f \in left THEN content[f] ELSE Gone]
  BY DEF Init, LegacyInit
<1>. PICK content :
        /\ \A f \in left : content[f] \in Legacy(f) \ {Gone}
        /\ legacy = [f \in Files |-> IF f \in left THEN content[f] ELSE Gone]
  BY <1>1
<1>2. \A f \in Files : legacy[f] \in Legacy(f) /\ (legacy[f].state = "absent" => legacy[f] = Gone)
  <2>. SUFFICES ASSUME NEW f \in Files
                PROVE  legacy[f] \in Legacy(f) /\ (legacy[f].state = "absent" => legacy[f] = Gone)
    OBVIOUS
  <2>1. CASE f \in left
    <3>1. legacy[f] \in Legacy(f) \ {Gone}
      BY <2>1
    <3>2. QED
      BY <3>1 DEF Legacy
  <2>2. CASE f \notin left
    BY <2>2 DEF Legacy
  <2>3. QED
    BY <2>1, <2>2
<1>3. \A f \in Files : Legacy(f) \subseteq [state : {"absent", "whole", "corrupt"}, rows : SUBSET Rows]
  BY FileNames DEF Legacy, Gone
<1>4. legacy \in [Files -> [state : {"absent", "whole", "corrupt"}, rows : SUBSET Rows]]
  BY <1>2, <1>3
<1>5. LegacyTypeOK
  BY <1>2, <1>4 DEF Init, LegacyInit, LegacyTypeOK
<1>6. QED
  BY <1>2, <1>5 DEF Init, LegacyInit, LegacyInv, Down, Up

(* A file that is dealt with is gone, and what it had was in it. *)
LEMMA GoneIsTyped ==
  ASSUME LegacyInv, NEW f \in Files, legacy' = [legacy EXCEPT ![f] = Gone],
         \/ UNCHANGED aside
         \/ aside' = [aside EXCEPT ![f] = @ \cup legacy[f].rows],
         UNCHANGED table, imported' = FALSE, phase' \in 0 .. Up
  PROVE  LegacyInv'
<1>1. legacy[f].rows \subseteq RowsOf[f] /\ RowsOf[f] \subseteq Rows
  BY FileNames DEF LegacyInv, LegacyTypeOK, Legacy, Gone
<1>2. Gone \in [state : {"absent", "whole", "corrupt"}, rows : SUBSET Rows] /\ Gone \in Legacy(f)
  BY DEF Gone, Legacy
<1>3. \A g \in Files : legacy'[g] \in Legacy(g) /\ aside'[g] \subseteq RowsOf[g]
  BY <1>1, <1>2 DEF LegacyInv, LegacyTypeOK
<1>4. LegacyTypeOK'
  BY <1>1, <1>2, <1>3 DEF LegacyInv, LegacyTypeOK, Files, Legacy, Gone
<1>5. QED
  BY <1>4 DEF LegacyInv, Gone, Files, Up

LEMMA LegacyInvNext ==
  ASSUME LegacyInv, [Next]_vars
  PROVE  LegacyInv'
<1>. USE DEF Up, Down
<1>1. CASE (phase' = phase \/ (phase = Up /\ phase' = Up)) /\ UNCHANGED legacyVars
  BY <1>1 DEF LegacyInv, LegacyTypeOK, legacyVars, At, Legacy, Files
<1>2. ASSUME phase = Up, phase' = Up, NEW f \in Tables, NEW row \in Rows, Add(f, row) \/ Remove(f, row)
      PROVE  LegacyInv'
  <2>1. table' \in [Tables -> SUBSET (Rows \cup {SeedRow})]
    BY <1>2 DEF Add, Remove, LegacyInv, LegacyTypeOK
  <2>2. UNCHANGED <<legacy, aside, imported>>
    BY <1>2 DEF Add, Remove
  <2>3. QED
    BY <1>2, <2>1, <2>2 DEF LegacyInv, LegacyTypeOK, At, Legacy, Files
<1>3. CASE phase = Down /\ phase' = 1 /\ UNCHANGED legacyVars
  <2>1. ~ imported
    BY <1>3, PhaseOf DEF LegacyInv
  <2>2. QED
    BY <1>3, <2>1 DEF LegacyInv, LegacyTypeOK, legacyVars, Legacy, Files
<1>4. CASE phase' = Down /\ LegacyDie
  <2>1. phase' \in 0 .. Up
    BY <1>4
  <2>2. LegacyTypeOK'
    BY <1>4 DEF LegacyDie, LegacyInv, LegacyTypeOK, Legacy, Files
  <2>3. QED
    BY <1>4, <2>1, <2>2 DEF LegacyDie, LegacyInv, Files
<1>5. \A p : At(p) => phase \in 0 .. Up /\ phase + 1 \in 0 .. Up
  BY PhaseOf
<1>6. \A p, q : At(p) /\ At(q) => p = q
  BY DEF At
<1>7. ASSUME NEW f \in Files, At(f), phase' = phase + 1,
             Nothing(f) \/ (~ imported /\ SetAside(f)) \/ Unlink(f)
      PROVE  LegacyInv'
  <2>1. CASE Nothing(f)
    <3>1. ~ imported
      BY <1>6, <1>7, <2>1 DEF Nothing, LegacyInv
    <3>2. QED
      BY <1>5, <1>7, <2>1, <3>1 DEF Nothing, LegacyInv, LegacyTypeOK, legacyVars, Legacy, Files
  <2>2. CASE ~ imported /\ SetAside(f)
    BY <1>5, <1>7, <2>2, GoneIsTyped DEF SetAside, LegacyInv, LegacyTypeOK
  <2>3. CASE Unlink(f)
    BY <1>5, <1>7, <2>3, GoneIsTyped DEF Unlink
  <2>4. QED
    BY <1>7, <2>1, <2>2, <2>3
<1>8. ASSUME NEW f \in Files, At(f), phase' = Down, Corrupt(f)
      PROVE  LegacyInv'
  <2>1. ~ imported
    BY <1>6, <1>8 DEF Corrupt, LegacyInv
  <2>2. phase' \in 0 .. Up
    BY <1>8
  <2>3. imported' = FALSE
    BY <1>8, <2>1 DEF Corrupt, SetAside, LegacyInv, LegacyTypeOK
  <2>4. QED
    BY <1>8, <2>2, <2>3, GoneIsTyped DEF Corrupt, SetAside
<1>9. ASSUME NEW f \in Files, At(f), Import(f, Populated(f)), ImportRows(f), UNCHANGED phase
      PROVE  LegacyInv'
  <2>1. table' \in [Tables -> SUBSET (Rows \cup {SeedRow})]
    <3>1. legacy[f].rows \subseteq Rows
      BY DEF LegacyInv, LegacyTypeOK
    <3>2. UNCHANGED table \/ ImportTable(f)
      BY <1>9 DEF ImportRows
    <3>3. QED
      BY <3>1, <3>2 DEF ImportTable, LegacyInv, LegacyTypeOK
  <2>2. QED
    BY <1>9, <2>1 DEF Import, LegacyInv, LegacyTypeOK, At, Legacy, Files
<1>10. CASE At("seed") /\ EnsureSeed /\ phase' = phase + 1
  <2>1. ~ imported
    BY <1>6, <1>10, FileNames DEF LegacyInv
  <2>2. table' \in [Tables -> SUBSET (Rows \cup {SeedRow})]
    BY <1>10 DEF EnsureSeed, LegacyInv, LegacyTypeOK
  <2>3. QED
    BY <1>5, <1>10, <2>1, <2>2 DEF EnsureSeed, LegacyInv, LegacyTypeOK, Legacy, Files
<1>11. CASE /\ At("providers") /\ legacy["providers"].state = "whole" /\ imported' = TRUE
            /\ UNCHANGED <<legacy, aside, table, phase>>
  BY <1>11, FileNames DEF LegacyInv, LegacyTypeOK, At, Legacy, Files
<1>12. CASE /\ At("providers") /\ phase' = phase + 1 /\ UNCHANGED <<aside, table>>
            /\ legacy' = [legacy EXCEPT !["providers"] = Gone] /\ imported' = FALSE
  BY <1>5, <1>12, GoneIsTyped, FileNames
<1>13. CASE At("registry") /\ phase' = phase + 1 /\ UNCHANGED legacyVars
  <2>1. ~ imported
    BY <1>6, <1>13, FileNames DEF LegacyInv
  <2>2. QED
    BY <1>5, <1>13, <2>1 DEF LegacyInv, LegacyTypeOK, legacyVars, Legacy, Files
<1>14. QED
  <2>1. "providers" \in Files
    BY FileNames
  <2>2. QED
    BY <1>1, <1>2, <1>3, <1>4, <1>7, <1>8, <1>9, <1>10, <1>11, <1>12, <1>13, <2>1, LegacyMoves
    DEF NoMerge

LEMMA LegacyAlways == Spec => []LegacyInv
<1>1. LegacyInv /\ [Next]_vars => LegacyInv'
  BY LegacyInvNext
<1>2. QED
  BY <1>1, LegacyInvInit, PTL DEF Spec

-----------------------------------------------------------------------------
(* What a step does to the providers. *)
LEMMA ProviderMoves ==
  ASSUME LegacyInv, [Next]_vars
  PROVE  \/ UNCHANGED <<providerVars, phase>>
         \/ phase \in 1 .. 7 /\ phase' = phase + 1 /\ UNCHANGED providerVars
         \/ phase = Down /\ phase' = 1 /\ LoadConfig
         \/ phase' = Down /\ ProvidersDie
         \/ /\ phase = 7 /\ phase' = 7 /\ UNCHANGED owed
            /\ \E k \in Kinds : WriteAtBoot("register", k)
         \/ /\ phase = 7 /\ phase' = 8 /\ UNCHANGED owed
            /\ \E k \in Kinds : WriteAtBoot("use", k)
         \/ phase = 8 /\ phase' = Up /\ BuildRegistry /\ UNCHANGED owed
         \/ /\ phase = Up /\ phase' = Up /\ UNCHANGED owed
            /\ \E c \in Calls : setFailureTarget(c)
         \/ /\ phase = Up /\ phase' = Up /\ UNCHANGED owed
            /\ \E c \in Calls, k \in Kinds : Register(c, k) \/ Use(c, k)
         \/ /\ phase = Up /\ phase' = Up
            /\ \E c \in Calls, k \in Kinds :
                 Unregister(c, k) /\ owed' = [owed EXCEPT !["providers"] = @ \ {k}]
         \/ phase = Up /\ phase' = Up /\ ProvidersStep /\ UNCHANGED owed
<1>1. CASE UNCHANGED vars
  BY <1>1 DEF vars, appVars
<1>2. CASE Starts
  BY <1>2 DEF Starts, Onward, Down
<1>3. CASE Seed
  BY <1>3, Phases DEF Seed, Onward, appVars
<1>4. CASE MigrateProviders
  <2>1. phase = 7
    BY <1>4, Phases DEF MigrateProviders
  <2>2. legacy["providers"].rows \subseteq Kinds
    BY FileNames DEF LegacyInv, LegacyTypeOK, Legacy, Gone
  <2>3. QED
    BY <1>4, <2>1, <2>2 DEF MigrateProviders, Onward, Aborts, ProcessEnds, appVars
<1>5. CASE Registry
  BY <1>5, Phases DEF Registry, Onward, Up
<1>6. ASSUME NEW f \in Files \ {"providers"}, Migrate(f)
      PROVE  \/ phase \in 1 .. 7 /\ phase' = phase + 1 /\ UNCHANGED providerVars
             \/ phase' = Down /\ ProvidersDie
             \/ UNCHANGED <<providerVars, phase>>
  <2>1. At(f) /\ f # "registry"
    BY <1>6, FileNames DEF Migrate
  <2>2. phase \in 1 .. 7
    BY <2>1, Phases, PhaseOf DEF At
  <2>3. CASE (Nothing(f) \/ NoMerge(f, Populated(f)) \/ Unlink(f)) /\ Done(f)
    BY <2>2, <2>3 DEF Done, Onward, appVars
  <2>4. CASE Corrupt(f) /\ Aborts
    BY <2>4 DEF Aborts, ProcessEnds
  <2>5. CASE Import(f, Populated(f)) /\ ImportRows(f) /\ UNCHANGED <<phase, owed, steps>>
    BY <2>5 DEF ImportRows, appVars
  <2>6. QED
    BY <1>6, <2>3, <2>4, <2>5 DEF Migrate
<1>7. CASE Boot
  BY <1>2, <1>3, <1>4, <1>5, <1>6, <1>7 DEF Boot
<1>8. CASE ProviderCommand \/ ProviderWork
  BY <1>8 DEF ProviderCommand, ProviderWork, Serving
<1>9. CASE Chat \/ ChatWork \/ Repo \/ RepoWork \/ Row
  BY <1>9 DEF Chat, ChatWork, Repo, RepoWork, Row, Serving, appVars
<1>10. CASE Dies
  BY <1>10 DEF Dies, ProcessEnds
<1>11. QED
  BY <1>1, <1>7, <1>8, <1>9, <1>10 DEF Next

(* A command that registers, uses or unregisters names a kind. *)
NamesAKind(change, kind) ==
  /\ change \in Changes /\ kind \in Kinds \cup {None}
  /\ change \in {"register", "use", "unregister"} => kind \in Kinds

LEMMA ChangedTyped ==
  ASSUME NEW set \in Settings, NEW change, NEW kind, NEW cleared \in BOOLEAN, NamesAKind(change, kind)
  PROVE  Changed(set, change, kind, cleared) \in Settings
<1>1. CASE change = "register"
  BY <1>1 DEF Changed, Settings, NamesAKind
<1>2. CASE change \in {"use", "clear"}
  BY <1>2 DEF Changed, Settings, NamesAKind
<1>3. CASE change = "unregister"
  BY <1>3 DEF Changed, Settings, NamesAKind
<1>4. CASE change = "target"
  BY <1>4 DEF Changed, Settings, NamesAKind
<1>5. QED
  BY <1>1, <1>2, <1>3, <1>4 DEF NamesAKind, Changes

(* One change at a time is what the registry and the settings agree on. *)
LEMMA ChangedFields ==
  ASSUME NEW set \in Settings, NEW change, NEW kind, NEW cleared \in BOOLEAN, NamesAKind(change, kind)
  PROVE  /\ change = "register" =>
              Changed(set, change, kind, cleared).providers = set.providers \cup {kind}
         /\ change = "unregister" =>
              Changed(set, change, kind, cleared).providers = set.providers \ {kind}
         /\ change \notin {"register", "unregister"} =>
              Changed(set, change, kind, cleared).providers = set.providers
         /\ change \in {"use", "clear"} =>
              Changed(set, change, kind, cleared).default = kind
         /\ change = "unregister" =>
              Changed(set, change, kind, cleared).default = IF cleared THEN None ELSE set.default
         /\ change \notin {"use", "clear", "unregister"} =>
              Changed(set, change, kind, cleared).default = set.default
<1>1. CASE change = "register"
  BY <1>1 DEF Changed, Settings
<1>2. CASE change \in {"use", "clear"}
  BY <1>2 DEF Changed, Settings
<1>3. CASE change = "unregister"
  BY <1>3 DEF Changed, Settings
<1>4. CASE change = "target"
  BY <1>4 DEF Changed, Settings
<1>5. QED
  BY <1>1, <1>2, <1>3, <1>4 DEF NamesAKind, Changes

(* The settings are typed, and nothing is under way before the registry is built. *)
ProvidersInv ==
  /\ ProvidersTypeOK
  /\ \A c \in Calls : NamesAKind(call[c].change, call[c].kind)
  /\ phase # Up => Busy = {} /\ call = [c \in Calls |-> Resting] /\ ~ lapped /\ ~ failed

LEMMA RestingTyped ==
  /\ Blank \in Settings
  /\ Resting \in [pc : {"idle", "writing", "renamed"}, change : Changes,
                  kind : Kinds \cup {None}, cleared : BOOLEAN, text : Settings]
  /\ NamesAKind(Resting.change, Resting.kind) /\ Resting.pc = "idle"
BY DEF Blank, Settings, Resting, Changes, NamesAKind

LEMMA AllResting ==
  ASSUME call = [c \in Calls |-> Resting]
  PROVE  /\ Busy = {}
         /\ call \in [Calls -> [pc : {"idle", "writing", "renamed"}, change : Changes,
                               kind : Kinds \cup {None}, cleared : BOOLEAN, text : Settings]]
         /\ \A c \in Calls : NamesAKind(call[c].change, call[c].kind)
BY RestingTyped DEF Busy

LEMMA ProvidersInvInit == Init => ProvidersInv
<1>. SUFFICES ASSUME Init PROVE ProvidersInv
  OBVIOUS
<1>1. call = [c \in Calls |-> Resting]
  BY DEF Init, ProvidersInit
<1>2. ProvidersTypeOK
  BY <1>1, AllResting, RestingTyped DEF Init, ProvidersInit, ProvidersTypeOK
<1>3. QED
  BY <1>1, <1>2, AllResting DEF Init, ProvidersInit, ProvidersInv

(* A write begins: the text has the change, and the command remembers that text. *)
LEMMA WriteTyped ==
  ASSUME ProvidersInv, NEW c \in Calls, NEW change, NEW kind, NEW cleared \in BOOLEAN,
         NamesAKind(change, kind), Write(c, change, kind, cleared), phase' = Up
  PROVE  ProvidersInv'
<1>1. text' \in Settings
  BY ChangedTyped DEF Write, ProvidersInv, ProvidersTypeOK
<1>2. call' = [call EXCEPT ![c] = [pc |-> "writing", change |-> change, kind |-> kind,
                                  cleared |-> cleared, text |-> text']]
  BY DEF Write
<1>3. call' \in [Calls -> [pc : {"idle", "writing", "renamed"}, change : Changes,
                           kind : Kinds \cup {None}, cleared : BOOLEAN, text : Settings]]
  BY <1>1, <1>2 DEF ProvidersInv, ProvidersTypeOK, NamesAKind
<1>4. \A d \in Calls : NamesAKind(call'[d].change, call'[d].kind)
  BY <1>2 DEF ProvidersInv, ProvidersTypeOK
<1>5. QED
  BY <1>1, <1>3, <1>4 DEF Write, ProvidersInv, ProvidersTypeOK, Up

LEMMA ProvidersStepTyped ==
  ASSUME ProvidersInv, phase = Up, phase' = Up, ProvidersStep
  PROVE  ProvidersInv'
<1>1. PICK c \in Calls : Rename(c) \/ WriteFails(c) \/ Finish(c)
  BY DEF ProvidersStep
<1>2. CASE Rename(c)
  <2>1. /\ call'[c].change = call[c].change /\ call'[c].kind = call[c].kind
        /\ \A d \in Calls \ {c} : call'[d] = call[d]
    BY <1>2 DEF Rename, ProvidersInv, ProvidersTypeOK
  <2>2. ProvidersTypeOK'
    BY <1>2 DEF Rename, ProvidersInv, ProvidersTypeOK
  <2>3. QED
    BY <2>1, <2>2 DEF ProvidersInv, Up
<1>3. CASE WriteFails(c)
  BY <1>3, RestingTyped DEF WriteFails, ProvidersInv, ProvidersTypeOK, Up
<1>4. CASE Finish(c)
  <2>1. data' \in Settings
    BY <1>4, ChangedTyped DEF Finish, ProvidersInv, ProvidersTypeOK
  <2>2. registry' \subseteq Kinds
    BY <1>4 DEF Finish, ProvidersInv, ProvidersTypeOK, NamesAKind
  <2>3. active' \in Kinds \cup {None}
    BY <1>4 DEF Finish, NowActive, ProvidersInv, ProvidersTypeOK, NamesAKind
  <2>4. call' \in [Calls -> [pc : {"idle", "writing", "renamed"}, change : Changes,
                             kind : Kinds \cup {None}, cleared : BOOLEAN, text : Settings]]
    BY <1>4, RestingTyped DEF Finish, ProvidersInv, ProvidersTypeOK
  <2>5. \A d \in Calls : NamesAKind(call'[d].change, call'[d].kind)
    BY <1>4, RestingTyped DEF Finish, ProvidersInv, ProvidersTypeOK
  <2>6. QED
    BY <1>4, <2>1, <2>2, <2>3, <2>4, <2>5 DEF Finish, ProvidersInv, ProvidersTypeOK, Up
<1>5. QED
  BY <1>1, <1>2, <1>3, <1>4

(* The registry is built, and a default that is not registered is being cleared. *)
LEMMA BuildRegistryTyped ==
  ASSUME ProvidersInv, phase' = Up, BuildRegistry
  PROVE  ProvidersInv'
<1>1. CASE data.default \in data.providers \cup {None}
  BY <1>1 DEF BuildRegistry, ProvidersInv, ProvidersTypeOK, Settings, Up
<1>2. CASE data.default \notin data.providers \cup {None}
  <2>1. NamesAKind("clear", None)
    BY DEF NamesAKind, Changes
  <2>2. text' \in Settings
    <3>1. text' = Changed(text, "clear", None, FALSE) /\ text \in Settings
      BY <1>2 DEF BuildRegistry, ProvidersInv, ProvidersTypeOK
    <3>2. QED
      BY <2>1, <3>1, ChangedTyped
  <2>3. PICK c \in Calls : call' = [call EXCEPT ![c] = [Resting EXCEPT
                 !.pc = "writing", !.change = "clear", !.text = text']]
    BY <1>2 DEF BuildRegistry
  <2>. DEFINE clearing == [Resting EXCEPT !.pc = "writing", !.change = "clear", !.text = text']
  <2>4. clearing \in [pc : {"idle", "writing", "renamed"}, change : Changes,
                      kind : Kinds \cup {None}, cleared : BOOLEAN, text : Settings]
    BY <2>2, RestingTyped DEF Changes
  <2>5. clearing.change = "clear" /\ clearing.kind = None
    BY DEF Resting
  <2>. HIDE DEF clearing
  <2>6. call' = [call EXCEPT ![c] = clearing]
    BY <2>3 DEF clearing
  <2>7. \A d \in Calls : NamesAKind(call'[d].change, call'[d].kind)
    BY <2>1, <2>5, <2>6 DEF ProvidersInv, ProvidersTypeOK
  <2>8. ProvidersTypeOK'
    BY <1>2, <2>2, <2>4, <2>6 DEF BuildRegistry, ProvidersInv, ProvidersTypeOK, Settings
  <2>9. QED
    BY <2>7, <2>8 DEF ProvidersInv, Up
<1>3. QED
  BY <1>1, <1>2

LEMMA ProvidersInvNext ==
  ASSUME LegacyInv, ProvidersInv, [Next]_vars
  PROVE  ProvidersInv'
<1>1. CASE UNCHANGED <<providerVars, phase>>
  BY <1>1 DEF providerVars, ProvidersInv, ProvidersTypeOK, Busy, Up
<1>2. CASE phase \in 1 .. 7 /\ phase' = phase + 1 /\ UNCHANGED providerVars
  BY <1>2 DEF providerVars, ProvidersInv, ProvidersTypeOK, Busy, Up
<1>3. CASE phase = Down /\ phase' = 1 /\ LoadConfig
  BY <1>3 DEF LoadConfig, ProvidersInv, ProvidersTypeOK, Busy, Down, Up
<1>4. CASE phase' = Down /\ ProvidersDie
  <2>1. (call = [c \in Calls |-> Resting])'
    BY <1>4 DEF ProvidersDie
  <2>2. /\ (Busy = {})' /\ \A c \in Calls : NamesAKind(call'[c].change, call'[c].kind)
        /\ call' \in [Calls -> [pc : {"idle", "writing", "renamed"}, change : Changes,
                                kind : Kinds \cup {None}, cleared : BOOLEAN, text : Settings]]
    BY <2>1, RestingTyped DEF Busy
  <2>3. QED
    BY <1>4, <2>1, <2>2, RestingTyped DEF ProvidersDie, ProvidersInv, ProvidersTypeOK
<1>5. ASSUME NEW k \in Kinds, NEW change \in {"register", "use"}, WriteAtBoot(change, k),
             phase = 7, phase' \in {7, 8}
      PROVE  ProvidersInv'
  <2>1. NamesAKind(change, k)
    BY DEF NamesAKind, Changes
  <2>2. text' \in Settings /\ file' \in Settings /\ data' \in Settings
    BY <1>5, <2>1, ChangedTyped DEF WriteAtBoot, ProvidersInv, ProvidersTypeOK
  <2>3. UNCHANGED <<registry, active, call, lapped, failed>>
    BY <1>5 DEF WriteAtBoot
  <2>4. phase # Up
    BY <1>5 DEF Up
  <2>5. QED
    BY <2>2, <2>3, <2>4 DEF ProvidersInv, ProvidersTypeOK, Busy
<1>6. CASE phase = 8 /\ phase' = Up /\ BuildRegistry
  BY <1>6, BuildRegistryTyped
<1>7. ASSUME phase' = Up, NEW c \in Calls, setFailureTarget(c)
      PROVE  ProvidersInv'
  BY <1>7, WriteTyped DEF setFailureTarget, NamesAKind, Changes
<1>8. ASSUME phase' = Up, NEW c \in Calls, NEW k \in Kinds,
             Register(c, k) \/ Use(c, k) \/ Unregister(c, k)
      PROVE  ProvidersInv'
  <2>1. \A change \in {"register", "use", "unregister"} : NamesAKind(change, k)
    BY DEF NamesAKind, Changes
  <2>2. CASE Register(c, k)
    BY <1>8, <2>1, <2>2, WriteTyped DEF Register
  <2>3. CASE Use(c, k)
    BY <1>8, <2>1, <2>3, WriteTyped DEF Use
  <2>4. CASE Unregister(c, k)
    BY <1>8, <2>1, <2>4, WriteTyped DEF Unregister
  <2>5. QED
    BY <1>8, <2>2, <2>3, <2>4
<1>9. CASE phase = Up /\ phase' = Up /\ ProvidersStep
  BY <1>9, ProvidersStepTyped
<1>10. QED
  BY <1>1, <1>2, <1>3, <1>4, <1>5, <1>6, <1>7, <1>8, <1>9, ProviderMoves

LEMMA ProvidersAlways == Spec => []ProvidersInv
<1>1. LegacyInv /\ ProvidersInv /\ [Next]_vars => ProvidersInv'
  BY ProvidersInvNext
<1>2. QED
  BY <1>1, ProvidersInvInit, LegacyAlways, PTL DEF Spec

-----------------------------------------------------------------------------
LEMMA MirrorInit == Init => RegistryMirrorsConfig
BY DEF Init, RegistryMirrorsConfig, Down, Up

LEMMA MirrorNext ==
  ASSUME LegacyInv, ProvidersInv, RegistryMirrorsConfig, [Next]_vars
  PROVE  RegistryMirrorsConfig'
<1>. SUFFICES ASSUME phase' = Up
              PROVE  registry' = data'.providers /\ active' \in registry' \cup {None}
  BY DEF RegistryMirrorsConfig
<1>1. phase # Up => \/ UNCHANGED <<providerVars, phase>>
                    \/ phase = 8 /\ BuildRegistry
  BY ProviderMoves DEF Up, Down
<1>2. CASE phase # Up
  BY <1>1, <1>2 DEF BuildRegistry
<1>3. CASE UNCHANGED <<providerVars, phase>>
  BY <1>3 DEF providerVars, RegistryMirrorsConfig
<1>4. ASSUME phase = Up, UNCHANGED <<data, registry, active>>
      PROVE  registry' = data'.providers /\ active' \in registry' \cup {None}
  BY <1>4 DEF RegistryMirrorsConfig
<1>5. ASSUME phase = Up, NEW c \in Calls, Finish(c)
      PROVE  registry' = data'.providers /\ active' \in registry' \cup {None}
  <2>1. /\ data \in Settings /\ call[c].cleared \in BOOLEAN
        /\ NamesAKind(call[c].change, call[c].kind)
    BY DEF ProvidersInv, ProvidersTypeOK
  <2>2. /\ call[c].change = "register" => data'.providers = data.providers \cup {call[c].kind}
        /\ call[c].change = "unregister" => data'.providers = data.providers \ {call[c].kind}
        /\ call[c].change \notin {"register", "unregister"} => data'.providers = data.providers
    <3>1. data' = Changed(data, call[c].change, call[c].kind, call[c].cleared)
      BY <1>5 DEF Finish
    <3>2. QED
      BY ONLY <2>1, <3>1, ChangedFields
  <2>3. registry = data.providers /\ active \in registry \cup {None}
    BY <1>5 DEF RegistryMirrorsConfig
  <2>4. registry' = data'.providers
    BY <1>5, <2>2, <2>3 DEF Finish
  <2>5. active' \in registry' \cup {None}
    BY <1>5, <2>3 DEF Finish, NowActive
  <2>6. QED
    BY <2>4, <2>5
<1>6. CASE phase = Up
  <2>1. \/ UNCHANGED <<data, registry, active>>
        \/ \E c \in Calls : Finish(c)
    <3>1. \A c \in Calls : \A change, kind, cleared :
             Write(c, change, kind, cleared) => UNCHANGED <<data, registry, active>>
      BY DEF Write
    <3>2. \A c \in Calls : Rename(c) \/ WriteFails(c) => UNCHANGED <<data, registry, active>>
      BY DEF Rename, WriteFails
    <3>3. \/ UNCHANGED providerVars
          \/ \E c \in Calls, k \in Kinds :
               setFailureTarget(c) \/ Register(c, k) \/ Use(c, k) \/ Unregister(c, k)
          \/ \E c \in Calls : setFailureTarget(c)
          \/ ProvidersStep
      BY <1>6, ProviderMoves DEF Up, Down
    <3>4. QED
      BY <3>1, <3>2, <3>3 DEF providerVars, setFailureTarget, Register, Use, Unregister, ProvidersStep
  <2>2. QED
    BY <1>4, <1>5, <1>6, <2>1
<1>7. QED
  BY <1>2, <1>6

(* The registry is the config's, and the active provider one of them, while it serves. *)
THEOREM RegistryIsTheConfigs == Spec => []RegistryMirrorsConfig
<1>1. LegacyInv /\ ProvidersInv /\ RegistryMirrorsConfig /\ [Next]_vars => RegistryMirrorsConfig'
  BY MirrorNext
<1>2. QED
  BY <1>1, MirrorInit, LegacyAlways, ProvidersAlways, PTL DEF Spec

-----------------------------------------------------------------------------
(* What the file, the text, the registry and the active provider are while  *)
(* a command is under way: the text is ahead of data by that one change,    *)
(* and the file is, once it has been renamed.                               *)
Underway(c) ==
  LET cl == call[c] IN
  /\ text = cl.text /\ text = Changed(data, cl.change, cl.kind, cl.cleared)
  /\ cl.pc = "writing" => file = data
  /\ cl.pc = "renamed" => file = text
  /\ cl.change = "clear" => cl.kind = None /\ active = None
  /\ cl.change # "clear" => active = data.default
  /\ cl.change = "use" => cl.kind \in registry
  /\ cl.change = "unregister" => (cl.cleared <=> data.default = cl.kind)

Settled == file = data /\ text = data /\ active = data.default

AgreeInv ==
  /\ phase \in 1 .. 8 => file = data /\ text = data
  /\ phase = Up /\ ~ lapped /\ ~ failed =>
       /\ \A c, d \in Busy : c = d
       /\ Busy = {} => Settled
       /\ \A c \in Busy : Underway(c)

LEMMA AgreeInit == Init => AgreeInv
BY DEF Init, AgreeInv, Down, Up

LEMMA BusyOf ==
  ASSUME NEW c \in Calls, NEW row, call \in [Calls -> [pc : {"idle", "writing", "renamed"},
           change : Changes, kind : Kinds \cup {None}, cleared : BOOLEAN, text : Settings]],
         call' = [call EXCEPT ![c] = row]
  PROVE  /\ row.pc # "idle" => Busy' = Busy \cup {c}
         /\ row.pc = "idle" => Busy' = Busy \ {c}
         /\ call'[c] = row
BY DEF Busy

LEMMA WriteAgrees ==
  ASSUME ProvidersInv, AgreeInv, phase = Up, phase' = Up,
         NEW c \in Calls, NEW change, NEW kind, NEW cleared,
         Write(c, change, kind, cleared),
         change # "clear", change = "use" => kind \in registry,
         change = "unregister" => (cleared <=> data.default = kind)
  PROVE  AgreeInv'
<1>. SUFFICES ASSUME ~ lapped', ~ failed'
              PROVE  /\ \A d, e \in Busy' : d = e
                     /\ (Busy = {})' => Settled'
                     /\ \A d \in Busy' : Underway(d)'
  BY DEF AgreeInv, Up
<1>1. Busy = {} /\ ~ lapped /\ ~ failed
  BY DEF Write
<1>2. Settled
  BY <1>1 DEF AgreeInv
<1>. DEFINE row == [pc |-> "writing", change |-> change, kind |-> kind,
                    cleared |-> cleared, text |-> text']
<1>3. call' = [call EXCEPT ![c] = row]
  BY DEF Write
<1>4. /\ row.pc = "writing" /\ row.change = change /\ row.kind = kind
      /\ row.cleared = cleared /\ row.text = text'
  OBVIOUS
<1>. HIDE DEF row
<1>5. Busy' = {c} /\ call'[c] = row
  BY <1>1, <1>3, <1>4, BusyOf DEF ProvidersInv, ProvidersTypeOK
<1>6. Underway(c)'
  BY <1>2, <1>4, <1>5 DEF Underway, Settled, Write
<1>7. QED
  BY <1>5, <1>6

LEMMA RenameAgrees ==
  ASSUME ProvidersInv, AgreeInv, phase = Up, phase' = Up, NEW c \in Calls, Rename(c)
  PROVE  AgreeInv'
<1>. SUFFICES ASSUME ~ lapped, ~ failed
              PROVE  /\ \A d, e \in Busy' : d = e
                     /\ (Busy = {})' => Settled'
                     /\ \A d \in Busy' : Underway(d)'
  BY DEF AgreeInv, Up, Rename
<1>1. c \in Busy /\ Underway(c) /\ Busy = {c}
  BY DEF AgreeInv, Busy, Rename
<1>2. call' = [call EXCEPT ![c] = [call[c] EXCEPT !.pc = "renamed"]]
  BY DEF Rename
<1>. DEFINE row == [call[c] EXCEPT !.pc = "renamed"]
<1>3. Busy' = {c} /\ call'[c] = row
  BY <1>1, <1>2, BusyOf DEF ProvidersInv, ProvidersTypeOK
<1>4. /\ row.pc = "renamed" /\ row.change = call[c].change /\ row.kind = call[c].kind
      /\ row.cleared = call[c].cleared /\ row.text = call[c].text
  BY DEF ProvidersInv, ProvidersTypeOK
<1>. HIDE DEF row
<1>5. file' = call[c].text /\ UNCHANGED <<text, data, registry, active>>
  BY DEF Rename
<1>6. /\ text = row.text /\ text = Changed(data, row.change, row.kind, row.cleared)
      /\ row.change = "clear" => row.kind = None /\ active = None
      /\ row.change # "clear" => active = data.default
      /\ row.change = "use" => row.kind \in registry
      /\ row.change = "unregister" => (row.cleared <=> data.default = row.kind)
  BY <1>1, <1>4 DEF Underway
<1>7. Underway(c)'
  BY <1>3, <1>4, <1>5, <1>6 DEF Underway
<1>8. QED
  BY <1>3, <1>7

LEMMA FinishAgrees ==
  ASSUME ProvidersInv, RegistryMirrorsConfig, AgreeInv, phase = Up, phase' = Up, NEW c \in Calls,
         Finish(c)
  PROVE  AgreeInv'
<1>. SUFFICES ASSUME ~ lapped, ~ failed
              PROVE  (Busy = {})' /\ Settled'
  BY DEF AgreeInv, Up, Finish
<1>1. c \in Busy /\ Underway(c) /\ Busy = {c}
  BY DEF AgreeInv, Busy, Finish
<1>2. (Busy = {})'
  BY <1>1, BusyOf, RestingTyped DEF ProvidersInv, ProvidersTypeOK, Finish
<1>3. data' = text /\ file = text
  BY <1>1 DEF Underway, Finish
<1>4. /\ data \in Settings /\ call[c].cleared \in BOOLEAN
      /\ NamesAKind(call[c].change, call[c].kind)
  BY DEF ProvidersInv, ProvidersTypeOK
<1>5. /\ call[c].change \in {"use", "clear"} => data'.default = call[c].kind
      /\ call[c].change = "unregister" =>
           data'.default = IF call[c].cleared THEN None ELSE data.default
      /\ call[c].change \notin {"use", "clear", "unregister"} => data'.default = data.default
  <2>1. data' = Changed(data, call[c].change, call[c].kind, call[c].cleared)
    BY DEF Finish
  <2>2. QED
    BY ONLY <1>4, <2>1, ChangedFields
<1>6. active' = data'.default
  <2>1. CASE call[c].change = "use"
    BY <1>1, <1>5, <2>1 DEF Underway, Finish, NowActive
  <2>2. CASE call[c].change = "clear"
    BY <1>1, <1>5, <2>2 DEF Underway, Finish, NowActive
  <2>3. CASE call[c].change = "unregister"
    BY <1>1, <1>5, <2>3 DEF Underway, Finish, NowActive
  <2>4. CASE call[c].change \notin {"use", "clear", "unregister"}
    BY <1>1, <1>5, <2>4 DEF Underway, Finish, NowActive
  <2>5. QED
    BY <2>1, <2>2, <2>3, <2>4
<1>7. QED
  BY <1>2, <1>3, <1>6 DEF Settled, Finish

LEMMA BuildAgrees ==
  ASSUME ProvidersInv, AgreeInv, phase = 8, phase' = Up, BuildRegistry
  PROVE  AgreeInv'
<1>1. file = data /\ text = data /\ Busy = {}
  BY DEF AgreeInv, ProvidersInv, Up
<1>2. CASE data.default \in data.providers \cup {None}
  <2>1. (Busy = {})' /\ Settled'
    BY <1>1, <1>2 DEF BuildRegistry, Busy, Settled
  <2>2. QED
    BY <2>1 DEF AgreeInv, Up
<1>3. CASE data.default \notin data.providers \cup {None}
  <2>. DEFINE clearing == [Resting EXCEPT !.pc = "writing", !.change = "clear", !.text = text']
  <2>1. PICK c \in Calls : call' = [call EXCEPT ![c] = clearing]
    BY <1>3 DEF BuildRegistry
  <2>2. /\ clearing.pc = "writing" /\ clearing.change = "clear" /\ clearing.kind = None
        /\ clearing.cleared = FALSE /\ clearing.text = text'
    BY DEF Resting
  <2>. HIDE DEF clearing
  <2>3. Busy' = {c} /\ call'[c] = clearing
    BY <1>1, <2>1, <2>2, BusyOf DEF ProvidersInv, ProvidersTypeOK
  <2>4. Underway(c)'
    BY <1>1, <1>3, <2>2, <2>3 DEF BuildRegistry, Underway
  <2>5. QED
    BY <2>3, <2>4 DEF AgreeInv, Up
<1>4. QED
  BY <1>2, <1>3

LEMMA AgreeNext ==
  ASSUME LegacyInv, ProvidersInv, RegistryMirrorsConfig, AgreeInv, [Next]_vars
  PROVE  AgreeInv'
<1>1. CASE UNCHANGED <<providerVars, phase>>
  BY <1>1 DEF providerVars, AgreeInv, Busy, Underway, Settled, Up
<1>2. CASE phase \in 1 .. 7 /\ phase' = phase + 1 /\ UNCHANGED providerVars
  <2>1. phase \in 1 .. 8 /\ phase' # Up
    BY <1>2 DEF Up
  <2>2. QED
    BY <1>2, <2>1 DEF providerVars, AgreeInv
<1>3. CASE phase = Down /\ phase' = 1 /\ LoadConfig
  BY <1>3 DEF LoadConfig, AgreeInv, Up
<1>4. CASE phase' = Down /\ ProvidersDie
  BY <1>4 DEF AgreeInv, Up, Down
<1>5. ASSUME NEW k \in Kinds, NEW change \in {"register", "use"}, WriteAtBoot(change, k),
             phase = 7, phase' \in {7, 8}
      PROVE  AgreeInv'
  <2>1. phase' # Up /\ phase \in 1 .. 8
    BY <1>5 DEF Up
  <2>2. QED
    BY <1>5, <2>1 DEF WriteAtBoot, AgreeInv
<1>6. CASE phase = 8 /\ phase' = Up /\ BuildRegistry
  BY <1>6, BuildAgrees
<1>7. ASSUME phase = Up, phase' = Up, NEW c \in Calls, setFailureTarget(c)
      PROVE  AgreeInv'
  BY <1>7, WriteAgrees DEF setFailureTarget
<1>8. ASSUME phase = Up, phase' = Up, NEW c \in Calls, NEW k \in Kinds,
             Register(c, k) \/ Use(c, k) \/ Unregister(c, k)
      PROVE  AgreeInv'
  <2>1. CASE Register(c, k)
    BY <1>8, <2>1, WriteAgrees DEF Register
  <2>2. CASE Use(c, k)
    BY <1>8, <2>2, WriteAgrees DEF Use
  <2>3. CASE Unregister(c, k)
    BY <1>8, <2>3, WriteAgrees DEF Unregister
  <2>4. QED
    BY <1>8, <2>1, <2>2, <2>3
<1>9. ASSUME phase = Up, phase' = Up, NEW c \in Calls, Rename(c) \/ WriteFails(c) \/ Finish(c)
      PROVE  AgreeInv'
  <2>1. CASE WriteFails(c)
    BY <1>9, <2>1 DEF WriteFails, AgreeInv, Up
  <2>2. QED
    BY <1>9, <2>1, RenameAgrees, FinishAgrees
<1>10. QED
  BY <1>1, <1>2, <1>3, <1>4, <1>5, <1>6, <1>7, <1>8, <1>9, ProviderMoves DEF ProvidersStep

LEMMA AgreeAlways == Spec => []AgreeInv
<1>1. LegacyInv /\ ProvidersInv /\ RegistryMirrorsConfig /\ AgreeInv /\ [Next]_vars => AgreeInv'
  BY AgreeNext
<1>2. QED
  BY <1>1, AgreeInit, LegacyAlways, ProvidersAlways, RegistryIsTheConfigs, PTL DEF Spec

(* When no command is under way, lapped another or failed, a restart finds what is now. *)
THEOREM RestartFindsTheSame == Spec => []RestartChangesNothing
<1>1. AgreeInv => RestartChangesNothing
  BY DEF AgreeInv, Settled, RestartChangesNothing
<1>2. QED
  BY <1>1, AgreeAlways, PTL

-----------------------------------------------------------------------------
(* What a step does to the sessions and the turns. *)
LEMMA TurnMoves ==
  ASSUME [Next]_vars
  PROVE  \/ UNCHANGED conversationVars
         \/ /\ At("sessions") /\ ~ Populated("sessions") /\ UNCHANGED <<history, inFlight, turn>>
            /\ \E pin \in [legacy["sessions"].rows -> Kinds \cup {None}] :
                 session' = [k \in Sessions |-> IF k \in legacy["sessions"].rows THEN pin[k]
                                                                            ELSE NoSession]
         \/ \E k \in Sessions, t \in Turns : Begin(t, k, registry)
         \/ \E k \in Sessions : NewSession(k, active)
         \/ \E k \in Sessions : DeleteSession(k) /\ owed' = [owed EXCEPT !["sessions"] = @ \ {k}]
         \/ TurnStep(registry)
         \/ ConversationsDie
<1>1. CASE UNCHANGED vars
  BY <1>1 DEF vars, appVars
<1>2. CASE Starts \/ Seed \/ MigrateProviders \/ Registry
  BY <1>2 DEF Starts, Seed, MigrateProviders, Registry, Aborts, ProcessEnds, appVars
<1>3. ASSUME NEW f \in Files \ {"providers"}, Migrate(f)
      PROVE  \/ UNCHANGED conversationVars
             \/ /\ At("sessions") /\ ~ Populated("sessions") /\ UNCHANGED <<history, inFlight, turn>>
                /\ \E pin \in [legacy["sessions"].rows -> Kinds \cup {None}] :
                     session' = [k \in Sessions |-> IF k \in legacy["sessions"].rows THEN pin[k]
                                                                                ELSE NoSession]
             \/ ConversationsDie
  <2>1. CASE (Nothing(f) \/ NoMerge(f, Populated(f)) \/ Unlink(f)) /\ Done(f)
    BY <2>1 DEF Done, appVars
  <2>2. CASE Corrupt(f) /\ Aborts
    BY <2>2 DEF Aborts, ProcessEnds
  <2>3. CASE Import(f, Populated(f)) /\ ImportRows(f) /\ f = "sessions"
    BY <1>3, <2>3 DEF Migrate, Import, ImportRows
  <2>4. CASE Import(f, Populated(f)) /\ ImportRows(f) /\ f # "sessions"
    BY <2>4 DEF ImportRows, appVars
  <2>5. QED
    BY <1>3, <2>1, <2>2, <2>3, <2>4 DEF Migrate
<1>4. CASE Boot
  BY <1>2, <1>3, <1>4 DEF Boot
<1>5. CASE Chat \/ ChatWork
  BY <1>5 DEF Chat, ChatWork
<1>6. CASE ProviderCommand \/ ProviderWork \/ Repo \/ RepoWork \/ Row
  BY <1>6 DEF ProviderCommand, ProviderWork, Repo, RepoWork, Row, appVars
<1>7. CASE Dies
  BY <1>7 DEF Dies, ProcessEnds
<1>8. QED
  BY <1>1, <1>4, <1>5, <1>6, <1>7 DEF Next

(* The history of a chat never grows beyond its limit. *)
LEMMA AppendedTyped ==
  ASSUME NEW h \in Seq(Roles), Len(h) <= MaxMessages, NEW role \in Roles
  PROVE  Appended(h, role) \in Seq(Roles) /\ Len(Appended(h, role)) <= MaxMessages
<1>. DEFINE longer == Append(h, role)
            from == IF Len(longer) > MaxMessages THEN 2 ELSE 1
<1>1. longer \in Seq(Roles) /\ Len(longer) = Len(h) + 1 /\ Len(h) \in Nat /\ MaxMessages \in Nat
  BY ConversationsAssumption
<1>2. Appended(h, role) = SubSeq(longer, from, Len(longer))
  BY DEF Appended
<1>. HIDE DEF longer
<1>3. /\ from \in 1 .. 2 /\ Len(longer) \in Int
      /\ \A i \in from .. Len(longer) : longer[i] \in Roles
  BY <1>1
<1>4. /\ SubSeq(longer, from, Len(longer)) \in Seq(Roles)
      /\ Len(SubSeq(longer, from, Len(longer))) =
           IF from <= Len(longer) THEN Len(longer) - from + 1 ELSE 0
  BY <1>3, SubSeqProperties
<1>5. QED
  BY <1>1, <1>2, <1>3, <1>4

(* The turns an agent is at work on. *)
Working(a) == {t \in Turns : turn[t].pc = "running" /\ turn[t].kind = a}

ConversationsInv ==
  /\ ConversationsTypeOK
  /\ \A t \in Turns : turn[t].pc # "idle" => turn[t].key \in Sessions /\ turn[t].kind \in Agents
  /\ LoadIsCounted

TurnRows == [pc : {"idle", "resolving", "opening", "running"}, key : Sessions \cup {NoSession},
             kind : Agents \cup {Unpinned}, pinned : BOOLEAN]

LEMMA NoTurnTyped == NoTurn \in TurnRows /\ NoTurn.pc = "idle"
BY DEF NoTurn, TurnRows

LEMMA AgentsAreKinds == Agents = Kinds /\ Unpinned = None /\ NoSession \notin Kinds \cup {None}
BY ApplicationAssumption

LEMMA ConversationsInvInit == Init => ConversationsInv
<1>. SUFFICES ASSUME Init PROVE ConversationsInv
  OBVIOUS
<1>1. \A t \in Turns : turn[t] = NoTurn
  BY DEF Init, ConversationsInit
<1>2. \A a \in Agents : {t \in Turns : turn[t].pc = "running" /\ turn[t].kind = a} = {}
  BY <1>1, NoTurnTyped
<1>3. \A a \in Agents : inFlight[a] = 0
  BY DEF Init, ConversationsInit
<1>4. LoadIsCounted
  BY <1>2, <1>3, FS_EmptySet DEF LoadIsCounted
<1>5. \A k \in Sessions : history[k] = << >>
  BY DEF Init, ConversationsInit
<1>6. ConversationsTypeOK
  BY <1>5, NoTurnTyped, ConversationsAssumption
  DEF Init, ConversationsInit, ConversationsTypeOK, TurnRows, SessionRows
<1>7. QED
  BY <1>1, <1>4, <1>6, NoTurnTyped DEF ConversationsInv

(* What a step of one turn does to the turns each agent is at work on. *)
LEMMA WorkingMoves ==
  ASSUME turn \in [Turns -> TurnRows], NEW t \in Turns, NEW row,
         turn' = [turn EXCEPT ![t] = row]
  PROVE  \A a : /\ turn[t].pc # "running" /\ row.pc # "running" => Working(a)' = Working(a)
                /\ turn[t].pc # "running" /\ row.pc = "running" =>
                     Working(a)' = IF row.kind = a THEN Working(a) \cup {t} ELSE Working(a)
                /\ turn[t].pc = "running" /\ row.pc # "running" =>
                     Working(a)' = IF turn[t].kind = a THEN Working(a) \ {t} ELSE Working(a)
BY DEF Working

LEMMA WorkingFinite == \A a : IsFiniteSet(Working(a))
<1>1. \A a : Working(a) \in SUBSET Turns
  BY DEF Working
<1>2. QED
  BY <1>1, FS_Subset, ConversationsAssumption

(* A turn that is not counted, before and after. *)
LEMMA TurnIsNotCounted ==
  ASSUME ConversationsInv, NEW t \in Turns, NEW row \in TurnRows,
         turn' = [turn EXCEPT ![t] = row], turn[t].pc # "running", row.pc # "running",
         row.pc # "idle" => row.key \in Sessions /\ row.kind \in Agents,
         UNCHANGED inFlight
  PROVE  /\ LoadIsCounted' /\ inFlight' \in [Agents -> Nat] /\ turn' \in [Turns -> TurnRows]
         /\ \A u \in Turns : turn'[u].pc # "idle" => turn'[u].key \in Sessions /\ turn'[u].kind \in Agents
<1>1. turn \in [Turns -> TurnRows]
  BY DEF ConversationsInv, ConversationsTypeOK, TurnRows
<1>2. \A a : Working(a)' = Working(a)
  BY <1>1, WorkingMoves
<1>3. LoadIsCounted'
  BY <1>2 DEF ConversationsInv, LoadIsCounted, Working
<1>4. QED
  BY <1>1, <1>3 DEF ConversationsInv, ConversationsTypeOK

(* A turn is counted as the agent's when it begins to run. *)
LEMMA TurnIsCounted ==
  ASSUME ConversationsInv, NEW t \in Turns, turn[t].pc \in {"resolving", "opening"}, Counts(t),
         turn' = [turn EXCEPT ![t].pc = "running"]
  PROVE  /\ LoadIsCounted' /\ inFlight' \in [Agents -> Nat] /\ turn' \in [Turns -> TurnRows]
         /\ \A u \in Turns : turn'[u].pc # "idle" => turn'[u].key \in Sessions /\ turn'[u].kind \in Agents
<1>1. turn \in [Turns -> TurnRows]
  BY DEF ConversationsInv, ConversationsTypeOK, TurnRows
<1>. DEFINE row == [turn[t] EXCEPT !.pc = "running"]
<1>2. /\ turn' = [turn EXCEPT ![t] = row]
      /\ row \in TurnRows /\ row.pc = "running" /\ row.kind = turn[t].kind /\ row.key = turn[t].key
  BY <1>1 DEF TurnRows
<1>. HIDE DEF row
<1>3. turn[t].kind \in Agents /\ turn[t].key \in Sessions
  BY DEF ConversationsInv
<1>4. \A a \in Agents : Cardinality(Working(a)') =
                          IF a = turn[t].kind THEN Cardinality(Working(a)) + 1 ELSE Cardinality(Working(a))
  <2>1. turn[t].pc # "running"
    OBVIOUS
  <2>2. \A a : Working(a)' = IF row.kind = a THEN Working(a) \cup {t} ELSE Working(a)
    BY <1>1, <1>2, <2>1 DEF Working
  <2>3. \A a : t \notin Working(a)
    BY DEF Working
  <2>4. QED
    BY <1>2, <2>2, <2>3, WorkingFinite, FS_AddElement
<1>5. \A a \in Agents : inFlight[a] = Cardinality(Working(a)) /\ inFlight[a] \in Nat
  BY DEF ConversationsInv, ConversationsTypeOK, LoadIsCounted, Working
<1>6. \A a \in Agents : inFlight'[a] = IF a = turn[t].kind THEN inFlight[a] + 1 ELSE inFlight[a]
  BY DEF Counts, ConversationsInv, ConversationsTypeOK
<1>7. inFlight' \in [Agents -> Nat]
  BY DEF Counts, ConversationsInv, ConversationsTypeOK
<1>8. \A a \in Agents : inFlight'[a] = Cardinality(Working(a)')
  BY <1>4, <1>5, <1>6
<1>9. LoadIsCounted'
  BY <1>8 DEF LoadIsCounted, Working
<1>10. QED
  BY <1>1, <1>2, <1>3, <1>7, <1>9 DEF ConversationsInv

(* A turn that ends is given back, whichever way it ends. *)
LEMMA TurnIsReleased ==
  ASSUME ConversationsInv, NEW t \in Turns, turn[t].pc = "running", Release(turn[t].kind),
         turn' = [turn EXCEPT ![t] = NoTurn]
  PROVE  /\ LoadIsCounted' /\ inFlight' \in [Agents -> Nat] /\ turn' \in [Turns -> TurnRows]
         /\ \A u \in Turns : turn'[u].pc # "idle" => turn'[u].key \in Sessions /\ turn'[u].kind \in Agents
<1>1. turn \in [Turns -> TurnRows]
  BY DEF ConversationsInv, ConversationsTypeOK, TurnRows
<1>2. turn[t].kind \in Agents
  BY DEF ConversationsInv
<1>3. \A a \in Agents : /\ Cardinality(Working(a)') =
                             IF a = turn[t].kind THEN Cardinality(Working(a)) - 1 ELSE Cardinality(Working(a))
                        /\ a = turn[t].kind => Cardinality(Working(a)) # 0
  <2>1. \A a : Working(a)' = IF turn[t].kind = a THEN Working(a) \ {t} ELSE Working(a)
    BY <1>1, NoTurnTyped, WorkingMoves
  <2>2. t \in Working(turn[t].kind)
    BY DEF Working
  <2>3. QED
    BY <2>1, <2>2, WorkingFinite, FS_RemoveElement, FS_EmptySet
<1>4. \A a \in Agents : inFlight[a] = Cardinality(Working(a)) /\ inFlight[a] \in Nat
  BY DEF ConversationsInv, ConversationsTypeOK, LoadIsCounted, Working
<1>5. \A a \in Agents :
        inFlight'[a] = IF a = turn[t].kind THEN (IF inFlight[a] > 0 THEN inFlight[a] - 1 ELSE 0)
                                           ELSE inFlight[a]
  BY DEF Release, ConversationsInv, ConversationsTypeOK
<1>6. inFlight' \in [Agents -> Nat]
  BY DEF Release, ConversationsInv, ConversationsTypeOK
<1>7. \A a \in Agents : inFlight'[a] = Cardinality(Working(a)')
  BY <1>3, <1>4, <1>5
<1>8. LoadIsCounted'
  BY <1>7 DEF LoadIsCounted, Working
<1>9. QED
  BY <1>1, <1>6, <1>8, NoTurnTyped DEF ConversationsInv

LEMMA ConversationsInvNext ==
  ASSUME ProvidersInv, LegacyInv, ConversationsInv, [Next]_vars
  PROVE  ConversationsInv'
<1>. DEFINE Good == /\ LoadIsCounted' /\ inFlight' \in [Agents -> Nat] /\ turn' \in [Turns -> TurnRows]
                    /\ \A u \in Turns : turn'[u].pc # "idle" =>
                                          turn'[u].key \in Sessions /\ turn'[u].kind \in Agents
<1>1. /\ turn \in [Turns -> TurnRows] /\ session \in [Sessions -> SessionRows]
      /\ history \in [Sessions -> Seq(Roles)] /\ \A k \in Sessions : Len(history[k]) <= MaxMessages
      /\ inFlight \in [Agents -> Nat]
      /\ registry \subseteq Agents /\ active \in Agents \cup {Unpinned}
      /\ Roles = {"user", "assistant"}
  BY AgentsAreKinds DEF ConversationsInv, ConversationsTypeOK, TurnRows, ProvidersInv, ProvidersTypeOK, Roles
<1>2. ASSUME Good, session' \in [Sessions -> SessionRows],
             \/ UNCHANGED history
             \/ \E t \in Turns, role \in Roles :
                  /\ turn[t].key \in Sessions
                  /\ history' = [history EXCEPT ![turn[t].key] = Appended(@, role)]
             \/ \E k \in Sessions : history' = [history EXCEPT ![k] = << >>]
      PROVE  ConversationsInv'
  <2>1. history' \in [Sessions -> Seq(Roles)] /\ \A k \in Sessions : Len(history'[k]) <= MaxMessages
    <3>1. CASE UNCHANGED history
      BY <1>1, <3>1
    <3>2. ASSUME NEW t \in Turns, NEW role \in Roles, turn[t].key \in Sessions,
                 history' = [history EXCEPT ![turn[t].key] = Appended(@, role)]
          PROVE  history' \in [Sessions -> Seq(Roles)]
                 /\ \A k \in Sessions : Len(history'[k]) <= MaxMessages
      <4>1. /\ Appended(history[turn[t].key], role) \in Seq(Roles)
            /\ Len(Appended(history[turn[t].key], role)) <= MaxMessages
        BY <1>1, <3>2, AppendedTyped
      <4>2. QED
        BY <1>1, <3>2, <4>1
    <3>3. ASSUME NEW k \in Sessions, history' = [history EXCEPT ![k] = << >>]
          PROVE  history' \in [Sessions -> Seq(Roles)]
                 /\ \A j \in Sessions : Len(history'[j]) <= MaxMessages
      <4>1. << >> \in Seq(Roles) /\ Len(<< >>) <= MaxMessages
        BY ConversationsAssumption
      <4>2. QED
        BY <1>1, <3>3, <4>1
    <3>4. QED
      BY <1>2, <3>1, <3>2, <3>3
  <2>2. QED
    BY <1>2, <2>1 DEF ConversationsInv, ConversationsTypeOK, TurnRows
<1>3. ASSUME UNCHANGED <<inFlight, turn>> PROVE Good
  BY <1>1, <1>3 DEF ConversationsInv, LoadIsCounted
<1>4. CASE UNCHANGED conversationVars
  BY <1>1, <1>2, <1>3, <1>4 DEF conversationVars
<1>5. ASSUME NEW pin \in [legacy["sessions"].rows -> Kinds \cup {None}],
             session' = [k \in Sessions |-> IF k \in legacy["sessions"].rows THEN pin[k] ELSE NoSession],
             UNCHANGED <<history, inFlight, turn>>
      PROVE  ConversationsInv'
  <2>1. session' \in [Sessions -> SessionRows]
    BY <1>5, AgentsAreKinds DEF SessionRows
  <2>2. QED
    BY <1>2, <1>3, <1>5, <2>1
<1>6. ASSUME NEW k \in Sessions, NEW t \in Turns, Begin(t, k, registry)
      PROVE  ConversationsInv'
  <2>1. PICK kind \in registry :
          /\ UNCHANGED session \/ Assigned(k, kind)
          /\ turn' = [turn EXCEPT ![t] = [pc |-> "resolving", key |-> k, kind |-> kind,
                                          pinned |-> Pinned(k, registry)]]
    BY <1>6 DEF Begin
  <2>. DEFINE row == [pc |-> "resolving", key |-> k, kind |-> kind, pinned |-> Pinned(k, registry)]
  <2>2. Pinned(k, registry) \in BOOLEAN
    BY DEF Pinned
  <2>3. row \in TurnRows /\ row.pc = "resolving" /\ row.key = k /\ row.kind = kind
    BY <1>1, <2>2 DEF TurnRows
  <2>. HIDE DEF row
  <2>4. turn' = [turn EXCEPT ![t] = row]
    BY <2>1 DEF row
  <2>5. turn[t].pc # "running" /\ UNCHANGED <<history, inFlight>>
    BY <1>6, NoTurnTyped DEF Begin
  <2>6. Good
    BY <1>1, <2>3, <2>4, <2>5, TurnIsNotCounted
  <2>7. session' \in [Sessions -> SessionRows]
    BY <1>1, <2>1 DEF Assigned, SessionRows
  <2>8. QED
    BY <1>2, <2>5, <2>6, <2>7
<1>7. ASSUME NEW k \in Sessions, NewSession(k, active) \/ DeleteSession(k)
      PROVE  ConversationsInv'
  <2>1. session' \in [Sessions -> SessionRows]
    BY <1>1, <1>7 DEF NewSession, DeleteSession, SessionRows
  <2>2. history' = [history EXCEPT ![k] = << >>] /\ UNCHANGED <<inFlight, turn>>
    BY <1>7 DEF NewSession, DeleteSession
  <2>3. QED
    BY <1>2, <1>3, <2>1, <2>2
<1>8. ASSUME NEW t \in Turns,
             \/ Unresolved(t, registry) \/ Start(t, registry) \/ OpenCard(t, registry)
             \/ CardFails(t) \/ CardOpens(t) \/ Answers(t) \/ AgentFails(t)
      PROVE  ConversationsInv'
  <2>1. UNCHANGED session
    BY <1>8 DEF Unresolved, Start, OpenCard, CardFails, CardOpens, Answers, AgentFails
  <2>2. turn[t].pc # "idle" /\ turn[t].key \in Sessions /\ turn[t].kind \in Agents
    BY <1>8 DEF Unresolved, Start, OpenCard, CardFails, CardOpens, Answers, AgentFails, Resolved,
                ConversationsInv
  <2>3. \/ UNCHANGED history
        \/ \E role \in Roles : history' = [history EXCEPT ![turn[t].key] = Appended(@, role)]
    BY <1>1, <1>8 DEF Unresolved, Start, OpenCard, CardFails, CardOpens, Answers, AgentFails
  <2>4. ASSUME Unresolved(t, registry) \/ CardFails(t) PROVE Good
    <3>1. turn' = [turn EXCEPT ![t] = NoTurn] /\ turn[t].pc # "running" /\ UNCHANGED inFlight
      BY <2>4 DEF Unresolved, CardFails
    <3>2. QED
      BY <3>1, NoTurnTyped, TurnIsNotCounted
  <2>5. ASSUME OpenCard(t, registry) PROVE Good
    <3>. DEFINE row == [turn[t] EXCEPT !.pc = "opening"]
    <3>1. row \in TurnRows /\ row.pc = "opening" /\ row.key = turn[t].key /\ row.kind = turn[t].kind
      BY <1>1 DEF TurnRows
    <3>2. turn' = [turn EXCEPT ![t] = row] /\ turn[t].pc # "running" /\ UNCHANGED inFlight
      BY <2>5 DEF OpenCard, Resolved
    <3>. HIDE DEF row
    <3>3. QED
      BY <2>2, <3>1, <3>2, TurnIsNotCounted
  <2>6. ASSUME Start(t, registry) \/ CardOpens(t) PROVE Good
    BY <2>6, TurnIsCounted DEF Start, CardOpens, Resolved
  <2>7. ASSUME Answers(t) \/ AgentFails(t) PROVE Good
    BY <2>7, TurnIsReleased DEF Answers, AgentFails
  <2>8. Good
    BY <1>8, <2>4, <2>5, <2>6, <2>7
  <2>9. QED
    BY <1>1, <1>2, <2>1, <2>2, <2>3, <2>8
<1>9. CASE ConversationsDie
  <2>1. \A u \in Turns : turn'[u] = NoTurn
    BY <1>9 DEF ConversationsDie
  <2>2. \A a \in Agents : Working(a)' = {} /\ inFlight'[a] = 0
    BY <1>9, <2>1, NoTurnTyped DEF ConversationsDie, Working
  <2>3. LoadIsCounted'
    BY <2>2, FS_EmptySet DEF LoadIsCounted, Working
  <2>4. history' \in [Sessions -> Seq(Roles)] /\ \A k \in Sessions : Len(history'[k]) <= MaxMessages
    <3>1. << >> \in Seq(Roles) /\ Len(<< >>) <= MaxMessages
      BY ConversationsAssumption
    <3>2. history' = [k \in Sessions |-> << >>]
      BY <1>9 DEF ConversationsDie
    <3>3. QED
      BY <3>1, <3>2
  <2>5. turn' \in [Turns -> TurnRows] /\ inFlight' \in [Agents -> Nat]
    BY <1>9, NoTurnTyped DEF ConversationsDie
  <2>6. QED
    BY <1>1, <1>9, <2>1, <2>3, <2>4, <2>5, NoTurnTyped
    DEF ConversationsDie, ConversationsInv, ConversationsTypeOK, TurnRows
<1>10. QED
  BY <1>4, <1>5, <1>6, <1>7, <1>8, <1>9, TurnMoves DEF TurnStep

LEMMA ConversationsAlways == Spec => []ConversationsInv
<1>1. ProvidersInv /\ LegacyInv /\ ConversationsInv /\ [Next]_vars => ConversationsInv'
  BY ConversationsInvNext
<1>2. QED
  BY <1>1, ConversationsInvInit, LegacyAlways, ProvidersAlways, PTL DEF Spec

(* The balancer counts the turns that run, however they end and whatever is unregistered. *)
THEOREM LoadIsTheTurns == Spec => []LoadIsCounted
<1>1. ConversationsInv => LoadIsCounted
  BY DEF ConversationsInv
<1>2. QED
  BY <1>1, ConversationsAlways, PTL

-----------------------------------------------------------------------------
RepoCommands ==
  \/ \E s \in Scopes, u \in Urls : Bind(s, u)
  \/ \E s \in Scopes, id \in Ids : Unbind(s, id)
  \/ \E s \in Scopes : Clear(s)
  \/ \E id \in Ids : RemoveRepository(id)
  \/ \E u \in Urls : AddBegins(u)

(* What a step does to the repositories and their bindings. *)
LEMMA RepositoryMoves ==
  ASSUME [Next]_vars
  PROVE  \/ UNCHANGED repositoryVars
         \/ OpenDb \/ RepositoriesDie
         \/ SeedCounter /\ UNCHANGED <<repository, binding, adding, meant>>
         \/ /\ At("repositories") /\ ~ Populated("repositories")
            /\ legacy["repositories"].state = "whole"
            /\ ImportRepositories(legacy["repositories"].rows)
         \/ ImportBindings(legacy["chat_bindings"].rows)
         \/ /\ phase = Up /\ RepoCommands
            /\ owed' = [owed EXCEPT !["chat_bindings"] = {s \in Scopes : binding'[s] # {}},
                                    !["repositories"] = @ \ {id \in Registered : repository'[id] = NoUrl}]
         \/ phase = Up /\ \E u \in Urls : AddEnds(u)
<1>1. CASE UNCHANGED vars
  BY <1>1 DEF vars, appVars
<1>2. CASE Starts \/ Seed \/ MigrateProviders \/ Registry
  BY <1>2 DEF Starts, Seed, MigrateProviders, Registry, Aborts, ProcessEnds, appVars
<1>3. ASSUME NEW f \in Files \ {"providers"}, Migrate(f)
      PROVE  \/ UNCHANGED repositoryVars \/ RepositoriesDie
             \/ SeedCounter /\ UNCHANGED <<repository, binding, adding, meant>>
             \/ /\ At("repositories") /\ ~ Populated("repositories")
                /\ legacy["repositories"].state = "whole"
                /\ ImportRepositories(legacy["repositories"].rows)
             \/ ImportBindings(legacy["chat_bindings"].rows)
  <2>1. CASE (Nothing(f) \/ NoMerge(f, Populated(f)) \/ Unlink(f)) /\ Done(f)
    BY <2>1 DEF Done, appVars
  <2>2. CASE Corrupt(f) /\ Aborts
    BY <2>2 DEF Aborts, ProcessEnds
  <2>3. CASE Import(f, Populated(f)) /\ ImportRows(f) /\ f = "repositories"
    BY <1>3, <2>3 DEF Migrate, Import, ImportRows
  <2>4. CASE Import(f, Populated(f)) /\ ImportRows(f) /\ f = "chat_bindings"
    BY <2>4 DEF ImportRows
  <2>5. CASE Import(f, Populated(f)) /\ ImportRows(f) /\ f \notin {"repositories", "chat_bindings"}
    BY <2>5 DEF ImportRows, appVars
  <2>6. QED
    BY <1>3, <2>1, <2>2, <2>3, <2>4, <2>5 DEF Migrate
<1>4. CASE Boot
  BY <1>2, <1>3, <1>4 DEF Boot
<1>5. CASE Repo
  BY <1>5 DEF Repo, Serving, RepoCommands
<1>6. CASE RepoWork
  BY <1>6 DEF RepoWork, Serving
<1>7. CASE ProviderCommand \/ ProviderWork \/ Chat \/ ChatWork \/ Row
  BY <1>7 DEF ProviderCommand, ProviderWork, Chat, ChatWork, Row, appVars
<1>8. CASE Dies
  BY <1>8 DEF Dies, ProcessEnds
<1>9. QED
  BY <1>1, <1>4, <1>5, <1>6, <1>7, <1>8 DEF Next

(* A file that is gone stays so. *)
LEMMA GoneStays ==
  ASSUME LegacyInv, [Next]_vars, NEW f \in Files, legacy[f].state = "absent"
  PROVE  legacy'[f].state = "absent"
<1>1. legacy' = legacy \/ \E g \in Files : legacy' = [legacy EXCEPT ![g] = Gone]
  BY LegacyMoves, FileNames
  DEF legacyVars, LegacyDie, Add, Remove, EnsureSeed, Nothing, NoMerge, Unlink, Corrupt, SetAside, Import
<1>2. QED
  BY <1>1 DEF LegacyInv, LegacyTypeOK, Gone

(* Boot does not pass a file but with the file gone. *)
LEMMA PassedIsGone ==
  ASSUME LegacyInv, [Next]_vars, phase <= 2, phase' > 2
  PROVE  legacy'["repositories"].state = "absent"
<1>1. /\ phase \in Nat /\ phase # Up /\ ~ At("seed") /\ ~ At("providers") /\ ~ At("registry")
      /\ phase' # phase /\ phase' # Down /\ phase' # 1
  BY Phases DEF LegacyInv, Up, Down
<1>2. PICK f \in Files \ {"providers"} :
        /\ At(f) /\ phase' = phase + 1
        /\ Nothing(f) \/ NoMerge(f, Populated(f)) \/ Unlink(f)
  BY <1>1, LegacyMoves, Zenon
<1>3. phase = 2 /\ f = "repositories"
  <2>1. phase = 2
    BY <1>1, <1>2
  <2>2. QED
    BY <1>2, <2>1, Phases DEF At
<1>4. legacy'[f] = Gone \/ legacy'[f].state = "absent"
  BY <1>2 DEF Nothing, NoMerge, Unlink, SetAside, LegacyInv, LegacyTypeOK, legacyVars
<1>5. QED
  BY <1>3, <1>4 DEF Gone

(* The counter is above every id that was ever given or meant, and the file *)
(* whose import sets it is gone by the time anything is bound.              *)
RepositoriesInv ==
  /\ RepositoriesTypeOK
  /\ \A id \in Registered : id < nextId
  /\ \A s \in Scopes : \A m \in meant[s] : m[1] < nextId /\ repository[m[1]] \in {m[2], NoUrl}
  /\ phase > 2 \/ (\E s \in Scopes : meant[s] # {}) => legacy["repositories"].state = "absent"

LEMMA RepositoriesInvInit == Init => RepositoriesInv
BY RepositoriesAssumption
DEF Init, RepositoriesInit, RepositoriesInv, RepositoriesTypeOK, RepositoryRows, BindingRows, Registered,
    Ids, Down

(* The counter moves up and the rows it stands above are left alone. *)
LEMMA NewRowKeeps ==
  ASSUME RepositoriesInv, NEW u \in Urls, NewRow(u)
  PROVE  /\ repository' \in RepositoryRows /\ nextId' \in 0 .. MaxId + 1
         /\ \A id \in Registered' : id < nextId'
         /\ \A s \in Scopes : \A m \in meant[s] : m[1] < nextId' /\ repository'[m[1]] \in {m[2], NoUrl}
         /\ nextId \in Ids /\ nextId < nextId' /\ repository'[nextId] = u
<1>1. /\ nextId \in Ids /\ nextId' = nextId + 1
      /\ repository' = [repository EXCEPT ![nextId] = u]
      /\ repository \in RepositoryRows
  BY DEF NewRow, RepositoriesInv, RepositoriesTypeOK
<1>2. repository' \in RepositoryRows /\ nextId' \in 0 .. MaxId + 1
  BY <1>1, RepositoriesAssumption DEF RepositoryRows, Ids
<1>3. \A id \in Registered' : id < nextId'
  BY <1>1, RepositoriesAssumption DEF Registered, Ids, RepositoryRows, RepositoriesInv
<1>4. \A s \in Scopes : \A m \in meant[s] : m[1] \in Ids
  BY DEF RepositoriesInv, RepositoriesTypeOK
<1>5. \A s \in Scopes : \A m \in meant[s] : m[1] < nextId' /\ repository'[m[1]] \in {m[2], NoUrl}
  BY <1>1, <1>4, RepositoriesAssumption DEF Ids, RepositoryRows, RepositoriesInv
<1>6. QED
  BY <1>1, <1>2, <1>3, <1>5, RepositoriesAssumption DEF RepositoryRows, Ids

LEMMA BindKeeps ==
  ASSUME RepositoriesInv, NEW scope \in Scopes, NEW u \in Urls, Bind(scope, u)
  PROVE  /\ RepositoriesTypeOK'
         /\ \A id \in Registered' : id < nextId'
         /\ \A s \in Scopes : \A m \in meant'[s] : m[1] < nextId' /\ repository'[m[1]] \in {m[2], NoUrl}
<1>1. PICK id \in Ids :
        /\ BindTo(scope, id, u) /\ UNCHANGED adding
        /\ repository' \in RepositoryRows /\ nextId' \in 0 .. MaxId + 1
        /\ \A i \in Registered' : i < nextId'
        /\ \A s \in Scopes : \A m \in meant[s] : m[1] < nextId' /\ repository'[m[1]] \in {m[2], NoUrl}
        /\ id < nextId' /\ repository'[id] = u
  <2>1. ASSUME NEW id \in Found(u), BindTo(scope, id, u), UNCHANGED <<repository, nextId>>
        PROVE  /\ id \in Ids /\ Registered' = Registered
               /\ id < nextId' /\ repository'[id] = u
    BY <2>1 DEF Found, Registered, RepositoriesInv
  <2>2. CASE \E id \in Found(u) : BindTo(scope, id, u) /\ UNCHANGED <<repository, nextId>>
    BY <2>1, <2>2 DEF Bind, RepositoriesInv, RepositoriesTypeOK
  <2>3. CASE NewRow(u) /\ BindTo(scope, nextId, u)
    BY <2>3, NewRowKeeps DEF Bind
  <2>4. QED
    BY <2>2, <2>3 DEF Bind
<1>2. /\ meant \in [Scopes -> SUBSET (Ids \X Urls)] /\ binding \in [Scopes -> SUBSET Ids]
      /\ adding \in [Urls -> 0 .. 2]
  BY DEF RepositoriesInv, RepositoriesTypeOK, BindingRows
<1>3. meant' \in [Scopes -> SUBSET (Ids \X Urls)] /\ binding' \in [Scopes -> SUBSET Ids]
  BY <1>1, <1>2 DEF BindTo
<1>4. \A s \in Scopes : \A m \in meant'[s] : m \in meant[s] \/ m = <<id, u>>
  BY <1>1, <1>2 DEF BindTo
<1>5. \A s \in Scopes : \A m \in meant'[s] : m[1] < nextId' /\ repository'[m[1]] \in {m[2], NoUrl}
  BY <1>1, <1>4
<1>6. QED
  BY <1>1, <1>2, <1>3, <1>5 DEF RepositoriesTypeOK, BindingRows

LEMMA RepositoriesInvNext ==
  ASSUME LegacyInv, RepositoriesInv, [Next]_vars
  PROVE  RepositoriesInv'
<1>. DEFINE Good == /\ RepositoriesTypeOK'
                    /\ \A id \in Registered' : id < nextId'
                    /\ \A s \in Scopes : \A m \in meant'[s] :
                         m[1] < nextId' /\ repository'[m[1]] \in {m[2], NoUrl}
<1>1. /\ repository \in RepositoryRows /\ nextId \in 0 .. MaxId + 1
      /\ binding \in [Scopes -> SUBSET Ids] /\ adding \in [Urls -> 0 .. 2]
      /\ meant \in [Scopes -> SUBSET (Ids \X Urls)] /\ MaxId \in Nat
      /\ \A id \in Registered : id < nextId
      /\ \A s \in Scopes : \A m \in meant[s] : m[1] < nextId /\ repository[m[1]] \in {m[2], NoUrl}
  BY RepositoriesAssumption DEF RepositoriesInv, RepositoriesTypeOK, BindingRows
<1>2. phase \in Nat /\ phase' \in Nat
  BY LegacyInvNext DEF LegacyInv, Up
<1>3. ASSUME UNCHANGED meant \/ phase > 2
      PROVE  phase' > 2 \/ (\E s \in Scopes : meant'[s] # {}) => legacy'["repositories"].state = "absent"
  <2>1. "repositories" \in Files
    BY FileNames
  <2>2. CASE phase > 2 \/ \E s \in Scopes : meant[s] # {}
    BY <2>1, <2>2, GoneStays DEF RepositoriesInv
  <2>3. CASE ~ (phase > 2) /\ \A s \in Scopes : meant[s] = {}
    BY <1>2, <1>3, <2>3, PassedIsGone
  <2>4. QED
    BY <2>2, <2>3
<1>4. ASSUME UNCHANGED <<repository, meant>>, nextId' = nextId \/ SeedCounter,
             binding' \in [Scopes -> SUBSET Ids], adding' \in [Urls -> 0 .. 2]
      PROVE  Good
  <2>1. nextId' \in 0 .. MaxId + 1 /\ nextId <= nextId'
    BY <1>1, <1>4 DEF SeedCounter
  <2>2. Registered' = Registered
    BY <1>4 DEF Registered
  <2>3. \A id \in Registered : id \in Nat
    BY DEF Registered, Ids
  <2>4. \A s \in Scopes : \A m \in meant[s] : m[1] \in Nat
    BY <1>1 DEF Ids
  <2>5. \A id \in Registered' : id < nextId'
    BY <1>1, <2>1, <2>2, <2>3
  <2>6. \A s \in Scopes : \A m \in meant'[s] : m[1] < nextId' /\ repository'[m[1]] \in {m[2], NoUrl}
    BY <1>1, <1>4, <2>1, <2>4
  <2>7. QED
    BY <1>1, <1>4, <2>1, <2>5, <2>6 DEF RepositoriesTypeOK, BindingRows
<1>5. CASE UNCHANGED repositoryVars
  BY <1>1, <1>3, <1>4, <1>5 DEF repositoryVars, RepositoriesInv
<1>6. CASE OpenDb \/ RepositoriesDie
  BY <1>1, <1>3, <1>4, <1>6 DEF OpenDb, RepositoriesDie, RepositoriesInv
<1>7. CASE SeedCounter /\ UNCHANGED <<repository, binding, adding, meant>>
  BY <1>1, <1>3, <1>4, <1>7 DEF RepositoriesInv
<1>8. CASE /\ legacy["repositories"].state = "whole"
           /\ ImportRepositories(legacy["repositories"].rows)
  <2>. DEFINE ids == legacy["repositories"].rows
  <2>1. ids \subseteq Ids
    BY FileNames DEF LegacyInv, LegacyTypeOK, Legacy, Gone
  <2>. HIDE DEF ids
  <2>2. ImportRepositories(ids)
    BY <1>8 DEF ids
  <2>3. PICK url \in [ids -> Urls] :
          repository' = [id \in Ids |-> IF id \in ids THEN url[id] ELSE NoUrl]
    BY <2>2 DEF ImportRepositories
  <2>4. nextId' \in 1 .. MaxId + 1 /\ \A id \in ids : id < nextId'
    BY <2>2 DEF ImportRepositories
  <2>5. UNCHANGED <<binding, adding, meant>>
    BY <2>2 DEF ImportRepositories
  <2>6. repository' \in RepositoryRows
    BY <2>3 DEF RepositoryRows
  <2>7. \A id \in Registered' : id < nextId'
    BY <2>3, <2>4 DEF Registered
  <2>8. \A s \in Scopes : meant[s] = {}
    BY <1>8 DEF RepositoriesInv
  <2>9. Good
    BY <1>1, <2>4, <2>5, <2>6, <2>7, <2>8 DEF RepositoriesTypeOK, BindingRows
  <2>10. QED
    BY <1>3, <2>5, <2>9 DEF RepositoriesInv
<1>9. CASE ImportBindings(legacy["chat_bindings"].rows)
  <2>1. binding' \in [Scopes -> SUBSET Ids] /\ UNCHANGED <<repository, nextId, adding, meant>>
    BY <1>9 DEF ImportBindings
  <2>2. QED
    BY <1>1, <1>3, <1>4, <2>1 DEF RepositoriesInv
<1>10. ASSUME phase = Up, NEW s \in Scopes, NEW u \in Urls, Bind(s, u)
       PROVE  RepositoriesInv'
  <2>1. phase > 2
    BY <1>10 DEF Up
  <2>2. QED
    BY <1>3, <1>10, <2>1, BindKeeps DEF RepositoriesInv
<1>11. ASSUME NEW s \in Scopes, Clear(s) \/ \E id \in Ids : Unbind(s, id)
       PROVE  RepositoriesInv'
  <2>1. binding' \in [Scopes -> SUBSET Ids] /\ UNCHANGED <<repository, nextId, adding, meant>>
    BY <1>1, <1>11 DEF Clear, Unbind
  <2>2. QED
    BY <1>1, <1>3, <1>4, <2>1 DEF RepositoriesInv
<1>12. ASSUME NEW id \in Ids, RemoveRepository(id)
       PROVE  RepositoriesInv'
  <2>1. repository' = [repository EXCEPT ![id] = NoUrl] /\ UNCHANGED <<nextId, binding, adding, meant>>
    BY <1>12 DEF RemoveRepository
  <2>2. repository' \in RepositoryRows /\ Registered' \subseteq Registered
    BY <1>1, <2>1 DEF RepositoryRows, Registered
  <2>3. \A s \in Scopes : \A m \in meant[s] : m[1] \in Ids
    BY <1>1
  <2>4. \A s \in Scopes : \A m \in meant'[s] : m[1] < nextId' /\ repository'[m[1]] \in {m[2], NoUrl}
    BY <1>1, <2>1, <2>3 DEF RepositoryRows
  <2>5. Good
    BY <1>1, <2>1, <2>2, <2>4 DEF RepositoriesTypeOK, BindingRows
  <2>6. QED
    BY <1>3, <2>1, <2>5 DEF RepositoriesInv
<1>13. ASSUME NEW u \in Urls, AddBegins(u)
       PROVE  RepositoriesInv'
  <2>1. adding' \in [Urls -> 0 .. 2] /\ UNCHANGED <<repository, nextId, binding, meant>>
    BY <1>1, <1>13 DEF AddBegins
  <2>2. QED
    BY <1>1, <1>3, <1>4, <2>1 DEF RepositoriesInv
<1>14. ASSUME NEW u \in Urls, AddEnds(u)
       PROVE  RepositoriesInv'
  <2>1. adding' \in [Urls -> 0 .. 2] /\ UNCHANGED <<binding, meant>>
    BY <1>1, <1>14 DEF AddEnds
  <2>2. CASE UNCHANGED <<repository, nextId>>
    BY <1>1, <1>3, <1>4, <2>1, <2>2 DEF RepositoriesInv
  <2>3. CASE NewRow(u)
    <3>1. Good
      BY <1>1, <2>1, <2>3, NewRowKeeps DEF RepositoriesTypeOK, BindingRows
    <3>2. QED
      BY <1>3, <2>1, <3>1 DEF RepositoriesInv
  <2>4. QED
    BY <1>14, <2>2, <2>3 DEF AddEnds
<1>15. QED
  BY <1>5, <1>6, <1>7, <1>8, <1>9, <1>10, <1>11, <1>12, <1>13, <1>14, RepositoryMoves DEF RepoCommands

LEMMA RepositoriesAlways == Spec => []RepositoriesInv
<1>1. LegacyInv /\ RepositoriesInv /\ [Next]_vars => RepositoriesInv'
  BY RepositoriesInvNext
<1>2. QED
  BY <1>1, RepositoriesInvInit, LegacyAlways, PTL DEF Spec

(* A bound id is the repository that was meant: the import comes before the first binding, *)
(* and from then on the counter only moves up.                                             *)
THEOREM BindingsMeanWhatWasMeant == Spec => []BindingMeansItsRepository
<1>1. RepositoriesInv => BindingMeansItsRepository
  BY DEF RepositoriesInv, BindingMeansItsRepository
<1>2. QED
  BY <1>1, RepositoriesAlways, PTL

-----------------------------------------------------------------------------
(* What a step does to the rows that are owed. *)
LEMMA OwedMoves ==
  ASSUME [Next]_vars
  PROVE  \/ UNCHANGED owed
         \/ \E k : owed' = [owed EXCEPT !["providers"] = @ \ {k}]
         \/ \E k : owed' = [owed EXCEPT !["sessions"] = @ \ {k}]
         \/ \E f \in Tables : \E row : owed' = [owed EXCEPT ![f] = @ \ {row}]
         \/ owed' = [owed EXCEPT !["chat_bindings"] = {s \in Scopes : binding'[s] # {}},
                                 !["repositories"] = @ \ {id \in Registered : repository'[id] = NoUrl}]
<1>1. CASE UNCHANGED vars
  BY <1>1 DEF vars
<1>2. CASE Boot
  BY <1>2 DEF Boot, Starts, Seed, MigrateProviders, Registry, Migrate, Done, Onward, Aborts
<1>3. CASE ProviderCommand \/ ProviderWork
  BY <1>3 DEF ProviderCommand, ProviderWork
<1>4. CASE Chat \/ ChatWork
  BY <1>4 DEF Chat, ChatWork
<1>5. CASE Repo \/ RepoWork
  BY <1>5 DEF Repo, RepoWork
<1>6. CASE Row \/ Dies
  BY <1>6 DEF Row, Dies
<1>7. QED
  BY <1>1, <1>2, <1>3, <1>4, <1>5, <1>6 DEF Next

OwedTyped ==
  /\ owed \in [Files -> SUBSET (Rows \cup Scopes)]
  /\ \A f \in Files \ {"chat_bindings"} : owed[f] \subseteq RowsOf[f]

LEMMA OwedInit == Init => OwedTyped
BY LegacyInvInit, FileNames DEF Init, OwedTyped, LegacyInv, LegacyTypeOK, Legacy, Gone

LEMMA OwedShrinks ==
  ASSUME OwedTyped, [Next]_vars
  PROVE  OwedTyped' /\ \A f \in Files \ {"chat_bindings"} : owed'[f] \subseteq owed[f]
<1>1. /\ owed' \in [Files -> SUBSET (Rows \cup Scopes)]
      /\ \A f \in Files \ {"chat_bindings"} : owed'[f] \subseteq owed[f]
  BY OwedMoves, FileNames DEF OwedTyped
<1>2. QED
  BY <1>1 DEF OwedTyped, Files

LEMMA OwedAlways == Spec => []OwedTyped
<1>1. OwedTyped /\ [Next]_vars => OwedTyped'
  BY OwedShrinks
<1>2. QED
  BY <1>1, OwedInit, PTL DEF Spec

(* A provider is in config.jsonc to stay: in the file, in the text that is  *)
(* written next and in every text that is being written.                    *)
Secure(k) ==
  /\ k \in file.providers
  /\ phase # Down => k \in text.providers
  /\ \A c \in Calls : call[c].pc = "writing" => k \in call[c].text.providers

Held(f, row) == IF f = "providers" THEN Secure(row) ELSE Present(f, row)

(* What boot changes removes no provider. *)
LEMMA BootChangeKeeps ==
  ASSUME NEW set \in Settings, NEW change, NEW kind, NamesAKind(change, kind), change # "unregister"
  PROVE  set.providers \subseteq Changed(set, change, kind, FALSE).providers
<1>1. change = "register" \/ change \in {"use", "clear"} \/ change = "target"
  BY DEF NamesAKind, Changes
<1>2. QED
  BY <1>1 DEF Changed, Settings

(* A write begins, of a change that does not remove the provider. *)
LEMMA WriteKeepsSecure ==
  ASSUME ProvidersInv, NEW k, Secure(k), phase = Up, phase' = Up,
         NEW c \in Calls, NEW change, NEW kind, NEW cleared \in BOOLEAN, NamesAKind(change, kind),
         change = "unregister" => kind # k,
         Write(c, change, kind, cleared)
  PROVE  Secure(k)'
<1>1. k \in text.providers /\ text \in Settings /\ call[c] = Resting
  BY DEF Secure, Up, Down, ProvidersInv, ProvidersTypeOK, Write
<1>2. text' = Changed(text, change, kind, cleared) /\ UNCHANGED file
  BY DEF Write
<1>3. k \in text'.providers
  BY <1>1, <1>2, ChangedFields
<1>4. \A d \in Calls : \/ call'[d] = call[d]
                       \/ call'[d].text = text'
  BY DEF Write, ProvidersInv, ProvidersTypeOK
<1>5. QED
  BY <1>2, <1>3, <1>4 DEF Secure

LEMMA ProvidersKept ==
  ASSUME LegacyInv, ProvidersInv, OwedTyped, [Next]_vars,
         NEW k \in owed'["providers"], Secure(k)
  PROVE  Secure(k)'
<1>1. CASE UNCHANGED <<providerVars, phase>>
  BY <1>1 DEF providerVars, Secure
<1>2. CASE phase \in 1 .. 7 /\ phase' = phase + 1 /\ UNCHANGED providerVars
  BY <1>2 DEF providerVars, Secure, Down
<1>3. CASE phase = Down /\ phase' = 1 /\ LoadConfig
  BY <1>3 DEF LoadConfig, Secure
<1>4. CASE phase' = Down /\ ProvidersDie
  BY <1>4, RestingTyped DEF ProvidersDie, Secure
<1>5. ASSUME NEW j \in Kinds, NEW change \in {"register", "use"}, WriteAtBoot(change, j), phase = 7
      PROVE  Secure(k)'
  <2>1. NamesAKind(change, j) /\ text \in Settings /\ k \in text.providers /\ change # "unregister"
    BY <1>5 DEF NamesAKind, Changes, ProvidersInv, ProvidersTypeOK, Secure, Down
  <2>2. text' = Changed(text, change, j, FALSE) /\ file' = text' /\ UNCHANGED call
    BY <1>5 DEF WriteAtBoot
  <2>3. k \in text'.providers
    BY <2>1, <2>2, BootChangeKeeps
  <2>4. QED
    BY <2>2, <2>3 DEF Secure
<1>6. CASE phase = 8 /\ BuildRegistry
  <2>1. NamesAKind("clear", None) /\ text \in Settings /\ k \in text.providers /\ UNCHANGED file
    BY <1>6 DEF NamesAKind, Changes, ProvidersInv, ProvidersTypeOK, Secure, Down, BuildRegistry
  <2>2. text' = text \/ text' = Changed(text, "clear", None, FALSE)
    BY <1>6 DEF BuildRegistry
  <2>3. k \in text'.providers
    BY <2>1, <2>2, BootChangeKeeps
  <2>4. \A d \in Calls : call'[d] = call[d] \/ call'[d].text = text'
    BY <1>6 DEF BuildRegistry, ProvidersInv, ProvidersTypeOK, Resting
  <2>5. QED
    BY <2>1, <2>3, <2>4 DEF Secure
<1>7. ASSUME phase = Up, phase' = Up, NEW c \in Calls, setFailureTarget(c)
      PROVE  Secure(k)'
  BY <1>7, WriteKeepsSecure DEF setFailureTarget, NamesAKind, Changes
<1>8. ASSUME phase = Up, phase' = Up, NEW c \in Calls, NEW j \in Kinds, Register(c, j) \/ Use(c, j)
      PROVE  Secure(k)'
  BY <1>8, WriteKeepsSecure DEF Register, Use, NamesAKind, Changes
<1>9. ASSUME phase = Up, phase' = Up, NEW c \in Calls, NEW j \in Kinds, Unregister(c, j),
             owed' = [owed EXCEPT !["providers"] = @ \ {j}]
      PROVE  Secure(k)'
  <2>1. k # j
    BY <1>9, FileNames DEF OwedTyped
  <2>2. NamesAKind("unregister", j) /\ (data.default = j) \in BOOLEAN
    BY DEF NamesAKind, Changes
  <2>3. Write(c, "unregister", j, data.default = j)
    BY <1>9 DEF Unregister
  <2>4. QED
    BY <1>9, <2>1, <2>2, <2>3, WriteKeepsSecure
<1>10. ASSUME phase = Up, phase' = Up, NEW c \in Calls, Rename(c) \/ WriteFails(c) \/ Finish(c)
       PROVE  Secure(k)'
  <2>1. UNCHANGED text /\ \A d \in Calls : \/ call'[d] = call[d]
                                           \/ call'[d].pc # "writing"
    BY <1>10, RestingTyped DEF Rename, WriteFails, Finish, ProvidersInv, ProvidersTypeOK
  <2>2. file' = file \/ (call[c].pc = "writing" /\ file' = call[c].text)
    BY <1>10 DEF Rename, WriteFails, Finish
  <2>3. QED
    BY <1>10, <2>1, <2>2 DEF Secure
<1>11. QED
  BY <1>1, <1>2, <1>3, <1>4, <1>5, <1>6, <1>7, <1>8, <1>9, <1>10, ProviderMoves DEF ProvidersStep

LEMMA SessionsKept ==
  ASSUME ProvidersInv, ConversationsInv, OwedTyped, [Next]_vars,
         NEW k \in owed'["sessions"], k \in Sessions, session[k] # NoSession
  PROVE  session'[k] # NoSession
<1>1. /\ registry \subseteq Kinds /\ active \in Kinds \cup {None} /\ NoSession \notin Kinds \cup {None}
      /\ session \in [Sessions -> SessionRows]
  BY AgentsAreKinds
  DEF ProvidersInv, ProvidersTypeOK, ConversationsInv, ConversationsTypeOK
<1>2. CASE UNCHANGED session
  BY <1>2
<1>3. CASE ~ Populated("sessions")
  BY <1>3 DEF Populated
<1>4. ASSUME NEW j \in Sessions, NEW t \in Turns, Begin(t, j, registry)
      PROVE  session'[k] # NoSession
  BY <1>1, <1>4 DEF Begin, Assigned
<1>5. ASSUME NEW j \in Sessions, NewSession(j, active)
      PROVE  session'[k] # NoSession
  BY <1>1, <1>5 DEF NewSession
<1>6. ASSUME NEW j \in Sessions, DeleteSession(j), owed' = [owed EXCEPT !["sessions"] = @ \ {j}]
      PROVE  session'[k] # NoSession
  BY <1>1, <1>6, FileNames DEF DeleteSession, OwedTyped
<1>7. TurnStep(registry) \/ ConversationsDie \/ UNCHANGED conversationVars => UNCHANGED session
  BY DEF TurnStep, Unresolved, Start, OpenCard, CardFails, CardOpens, Answers, AgentFails,
         ConversationsDie, conversationVars
<1>8. QED
  BY <1>2, <1>3, <1>4, <1>5, <1>6, <1>7, TurnMoves

LEMMA RepositoriesKept ==
  ASSUME RepositoriesInv, OwedTyped, [Next]_vars,
         NEW id \in owed'["repositories"], id \in Ids, repository[id] # NoUrl
  PROVE  repository'[id] # NoUrl
<1>1. repository \in RepositoryRows /\ id \in Registered
  BY DEF RepositoriesInv, RepositoriesTypeOK, Registered
<1>2. CASE UNCHANGED repository
  BY <1>2
<1>3. CASE ~ Populated("repositories")
  BY <1>1, <1>3 DEF Populated
<1>4. ASSUME owed' = [owed EXCEPT !["chat_bindings"] = {s \in Scopes : binding'[s] # {}},
                                  !["repositories"] = @ \ {i \in Registered : repository'[i] = NoUrl}]
      PROVE  repository'[id] # NoUrl
  BY <1>1, <1>4, FileNames DEF OwedTyped
<1>5. ASSUME NEW u \in Urls, AddEnds(u)
      PROVE  repository'[id] # NoUrl
  BY <1>1, <1>5 DEF AddEnds, NewRow, RepositoryRows
<1>6. OpenDb \/ RepositoriesDie \/ ImportBindings(legacy["chat_bindings"].rows) \/ UNCHANGED repositoryVars
        => UNCHANGED repository
  BY DEF OpenDb, RepositoriesDie, ImportBindings, repositoryVars
<1>7. QED
  BY <1>2, <1>3, <1>4, <1>5, <1>6, RepositoryMoves

LEMMA TablesKept ==
  ASSUME LegacyInv, OwedTyped, [Next]_vars, NEW f \in Tables, NEW row \in owed'[f], row \in table[f]
  PROVE  row \in table'[f]
<1>1. table \in [Tables -> SUBSET (Rows \cup {SeedRow})] /\ f \in Files
  BY FileNames DEF LegacyInv, LegacyTypeOK
<1>2. CASE UNCHANGED table
  BY <1>2
<1>3. ASSUME NEW g \in Tables, NEW r \in Rows, Add(g, r)
      PROVE  row \in table'[f]
  BY <1>1, <1>3 DEF Add
<1>4. ASSUME NEW g \in Tables, NEW r \in Rows, Remove(g, r), owed' = [owed EXCEPT ![g] = @ \ {r}]
      PROVE  row \in table'[f]
  BY <1>1, <1>4, FileNames DEF Remove, OwedTyped
<1>5. ASSUME NEW g \in Files \ {"providers"}, Import(g, Populated(g)), ImportRows(g)
      PROVE  row \in table'[f]
  <2>1. CASE g \in {"sessions", "repositories", "chat_bindings"}
    BY <1>5, <2>1 DEF ImportRows
  <2>2. CASE g \in Tables /\ g # f
    BY <1>1, <1>5, <2>2, FileNames DEF ImportRows, ImportTable
  <2>3. CASE g = f
    BY <1>5, <2>3, FileNames DEF Import, Populated
  <2>4. QED
    BY <2>1, <2>2, <2>3, FileNames
<1>6. CASE EnsureSeed
  BY <1>1, <1>6 DEF EnsureSeed
<1>7. \A g : LegacyDie \/ Nothing(g) \/ SetAside(g) \/ Unlink(g) \/ UNCHANGED legacyVars => UNCHANGED table
  BY DEF LegacyDie, Nothing, SetAside, Unlink, legacyVars
<1>8. QED
  BY <1>2, <1>3, <1>4, <1>5, <1>6, <1>7, LegacyMoves DEF NoMerge, Corrupt

(* What is in its table, or in config.jsonc, stays there as long as it is owed. *)
LEMMA HeldStays ==
  ASSUME LegacyInv, ProvidersInv, ConversationsInv, RepositoriesInv, OwedTyped, [Next]_vars,
         NEW f \in Files \ {"chat_bindings"}, NEW row \in owed'[f], Held(f, row)
  PROVE  Held(f, row)'
<1>1. row \in RowsOf[f]
  BY OwedShrinks DEF OwedTyped
<1>2. CASE f = "providers"
  BY <1>2, ProvidersKept DEF Held
<1>3. CASE f = "sessions"
  BY <1>1, <1>3, SessionsKept, FileNames DEF Held, Present
<1>4. CASE f = "repositories"
  BY <1>1, <1>4, RepositoriesKept, FileNames DEF Held, Present
<1>5. CASE f \in {"dedup", "tasks"}
  BY <1>5, TablesKept, FileNames DEF Held, Present
<1>6. QED
  BY <1>2, <1>3, <1>4, <1>5, FileNames

(* A row that is owed is held, or in its file or the .bak; and what an      *)
(* import has committed is held before its file is deleted.                 *)
KeptInv ==
  /\ OwedTyped
  /\ \A f \in Files \ {"chat_bindings"}, row \in Rows :
       row \in owed[f] => Held(f, row) \/ row \in legacy[f].rows \cup aside[f]
  /\ imported => \A f \in Files \ {"providers", "chat_bindings"}, row \in Rows :
                   At(f) /\ row \in owed[f] /\ row \in legacy[f].rows => Held(f, row)

LEMMA KeptInit == Init => KeptInv
<1>1. Init => \A f \in Files : owed[f] = legacy[f].rows
  BY DEF Init
<1>2. Init => imported = FALSE
  BY DEF Init, LegacyInit
<1>3. QED
  BY <1>1, <1>2, OwedInit DEF KeptInv

(* What leaves a file is set aside, or is held. *)
LEMMA FilesLetGo ==
  ASSUME LegacyInv, ProvidersInv, AgreeInv, KeptInv, [Next]_vars,
         NEW f \in Files \ {"chat_bindings"}, NEW row \in Rows, row \in owed[f],
         row \in legacy[f].rows \cup aside[f]
  PROVE  row \in legacy'[f].rows \cup aside'[f] \/ Held(f, row)
<1>1. /\ DOMAIN legacy = Files /\ DOMAIN aside = Files
      /\ legacy \in [Files -> [state : {"absent", "whole", "corrupt"}, rows : SUBSET Rows]]
      /\ aside \in [Files -> SUBSET Rows]
  BY DEF LegacyInv, LegacyTypeOK
<1>2. CASE UNCHANGED <<legacy, aside>>
  BY <1>2
<1>3. ASSUME NEW g \in Files, SetAside(g)
      PROVE  row \in legacy'[f].rows \cup aside'[f]
  BY <1>1, <1>3 DEF SetAside
<1>4. ASSUME NEW g \in Files \ {"providers"}, At(g), Unlink(g)
      PROVE  row \in legacy'[f].rows \cup aside'[f] \/ Held(f, row)
  <2>1. CASE f = g
    BY <1>1, <1>4, <2>1 DEF Unlink, KeptInv
  <2>2. CASE f # g
    BY <1>1, <1>4, <2>2 DEF Unlink
  <2>3. QED
    BY <2>1, <2>2
<1>5. ASSUME At("providers"), legacy["providers"].rows \subseteq data.providers,
             legacy' = [legacy EXCEPT !["providers"] = Gone], UNCHANGED aside
      PROVE  row \in legacy'[f].rows \cup aside'[f] \/ Held(f, row)
  <2>1. CASE f # "providers"
    BY <1>1, <1>5, <2>1
  <2>2. CASE f = "providers"
    <3>1. phase = 7
      BY <1>5, Phases
    <3>2. file = data /\ text = data /\ \A c \in Calls : call[c].pc # "writing"
      BY <3>1, RestingTyped DEF AgreeInv, ProvidersInv, Up
    <3>3. row \in legacy["providers"].rows => Secure(row)
      BY <1>5, <3>2 DEF Secure
    <3>4. QED
      BY <1>5, <2>2, <3>3 DEF Held
  <2>3. QED
    BY <2>1, <2>2
<1>6. \A g \in Files : Nothing(g) \/ Import(g, Populated(g)) => UNCHANGED <<legacy, aside>>
  BY DEF Nothing, Import, legacyVars
<1>7. UNCHANGED legacyVars \/ LegacyDie \/ EnsureSeed => UNCHANGED <<legacy, aside>>
  BY DEF LegacyDie, EnsureSeed, legacyVars
<1>8. \A g \in Tables, r \in Rows : Add(g, r) \/ Remove(g, r) => UNCHANGED <<legacy, aside>>
  BY DEF Add, Remove
<1>9. "providers" \in Files
  BY FileNames
<1>10. QED
  BY <1>2, <1>3, <1>4, <1>5, <1>6, <1>7, <1>8, <1>9, LegacyMoves DEF NoMerge, Corrupt

(* An import that has committed: it was so before, or it has just now. *)
LEMMA ImportedMoves ==
  ASSUME LegacyInv, [Next]_vars, imported'
  PROVE  \/ imported /\ UNCHANGED <<phase, legacy>>
         \/ \E f \in Files \ {"providers"} :
              At(f) /\ ImportRows(f) /\ UNCHANGED <<phase, legacy>>
         \/ At("providers") /\ UNCHANGED phase
<1>1. imported => /\ phase \in 1 .. 8 /\ phase # Up /\ phase # Down
                  /\ \E g \in Files : At(g) /\ legacy[g].state = "whole"
  BY PhaseOf DEF LegacyInv, Up, Down
<1>2. \A p, q : At(p) /\ At(q) => p = q
  BY DEF At
<1>3. "providers" \in Files /\ "seed" \notin Files /\ "registry" \notin Files
  BY FileNames
<1>4. CASE phase = Up /\ phase' = Up
  <2>1. UNCHANGED imported
    <3>1. (\A p : ~ At(p)) /\ phase # Down /\ phase' # Down
      BY <1>4, PhaseOf DEF Up, Down
    <3>2. UNCHANGED legacyVars \/ \E f \in Tables, row \in Rows : Add(f, row) \/ Remove(f, row)
      BY <3>1, LegacyMoves
    <3>3. QED
      BY <3>2 DEF legacyVars, Add, Remove
  <2>2. QED
    BY <1>1, <1>4, <2>1
<1>5. CASE phase' = phase /\ UNCHANGED legacyVars
  BY <1>5 DEF legacyVars
<1>6. CASE phase = Down /\ UNCHANGED legacyVars
  BY <1>1, <1>6 DEF legacyVars
<1>7. ~ LegacyDie
  BY DEF LegacyDie
<1>8. ASSUME NEW f \in Files, At(f), Nothing(f) \/ NoMerge(f, Populated(f)) \/ Unlink(f) \/ Corrupt(f)
      PROVE  FALSE
  BY <1>1, <1>2, <1>8 DEF Nothing, NoMerge, Unlink, Corrupt, SetAside, legacyVars
<1>9. ASSUME NEW f \in Files \ {"providers"},
             At(f), Import(f, Populated(f)), ImportRows(f), UNCHANGED <<phase, owed>>
      PROVE  \E g \in Files \ {"providers"} : At(g) /\ ImportRows(g) /\ UNCHANGED <<phase, legacy>>
  BY <1>9 DEF Import
<1>10. ~ (At("seed") /\ EnsureSeed) /\ ~ (At("registry") /\ UNCHANGED legacyVars)
  BY <1>1, <1>2, <1>3 DEF EnsureSeed, legacyVars
<1>11. ~ (~ imported /\ SetAside("providers"))
  BY DEF SetAside
<1>12. QED
  BY <1>3, <1>4, <1>5, <1>6, <1>7, <1>8, <1>9, <1>10, <1>11, LegacyMoves

(* The rows of the file are in the table once their import has committed. *)
LEMMA ImportHolds ==
  ASSUME LegacyInv, NEW f \in Files \ {"providers", "chat_bindings"}, ImportRows(f),
         NEW row \in legacy[f].rows
  PROVE  Held(f, row)'
<1>1. row \in RowsOf[f]
  BY DEF LegacyInv, LegacyTypeOK, Legacy, Gone
<1>2. CASE f = "sessions"
  <2>1. PICK pin \in [legacy["sessions"].rows -> Kinds \cup {None}] :
          session' = [k \in Sessions |-> IF k \in legacy["sessions"].rows THEN pin[k] ELSE NoSession]
    BY <1>2 DEF ImportRows
  <2>2. session'[row] \in Kinds \cup {None}
    BY <1>1, <1>2, <2>1, FileNames
  <2>3. QED
    BY <1>2, <2>2, AgentsAreKinds DEF Held, Present
<1>3. CASE f = "repositories"
  <2>1. ImportRepositories(legacy["repositories"].rows)
    BY <1>3 DEF ImportRows
  <2>2. PICK url \in [legacy["repositories"].rows -> Urls] :
          repository' = [id \in Ids |-> IF id \in legacy["repositories"].rows THEN url[id] ELSE NoUrl]
    BY <2>1 DEF ImportRepositories
  <2>3. repository'[row] \in Urls
    BY <1>1, <1>3, <2>2, FileNames
  <2>4. QED
    BY <1>3, <2>3, RepositoriesAssumption DEF Held, Present
<1>4. CASE f \in {"dedup", "tasks"}
  <2>1. ImportTable(f)
    BY <1>4 DEF ImportRows
  <2>2. row \in table'[f]
    BY <1>4, <2>1, FileNames DEF ImportTable, LegacyInv, LegacyTypeOK
  <2>3. QED
    BY <1>4, <2>2 DEF Held, Present
<1>5. QED
  BY <1>2, <1>3, <1>4, FileNames

LEMMA KeptNext ==
  ASSUME LegacyInv, ProvidersInv, AgreeInv, ConversationsInv, RepositoriesInv, KeptInv, [Next]_vars
  PROVE  KeptInv'
<1>1. OwedTyped' /\ \A f \in Files \ {"chat_bindings"} : owed'[f] \subseteq owed[f]
  BY OwedShrinks DEF KeptInv
<1>2. ASSUME NEW f \in Files \ {"chat_bindings"}, NEW row \in Rows, row \in owed'[f], Held(f, row)
      PROVE  Held(f, row)'
  BY <1>2, HeldStays DEF KeptInv
<1>3. ASSUME NEW f \in Files \ {"chat_bindings"}, NEW row \in Rows, row \in owed'[f]
      PROVE  Held(f, row)' \/ row \in legacy'[f].rows \cup aside'[f]
  <2>1. row \in owed[f]
    BY <1>1, <1>3
  <2>2. Held(f, row) \/ row \in legacy[f].rows \cup aside[f]
    BY <2>1 DEF KeptInv
  <2>3. CASE Held(f, row)
    BY <1>2, <1>3, <2>3
  <2>4. CASE row \in legacy[f].rows \cup aside[f]
    BY <1>2, <1>3, <2>1, <2>4, FilesLetGo
  <2>5. QED
    BY <2>2, <2>3, <2>4
<1>4. ASSUME imported', NEW f \in Files \ {"providers", "chat_bindings"}, NEW row \in Rows, At(f)',
             row \in owed'[f], row \in legacy'[f].rows
      PROVE  Held(f, row)'
  <2>1. ASSUME UNCHANGED phase PROVE At(f)
    BY <1>4, <2>1 DEF At
  <2>2. CASE imported /\ UNCHANGED <<phase, legacy>>
    <3>1. Held(f, row)
      BY <1>1, <1>4, <2>1, <2>2 DEF KeptInv
    <3>2. QED
      BY <1>2, <1>4, <3>1
  <2>3. ASSUME NEW g \in Files, At(g), ImportRows(g), UNCHANGED <<phase, legacy>>
        PROVE  Held(f, row)'
    <3>1. g = f
      BY <2>1, <2>3 DEF At
    <3>2. QED
      BY <1>4, <2>3, <3>1, ImportHolds
  <2>4. CASE At("providers") /\ UNCHANGED phase
    BY <1>4, <2>1, <2>4 DEF At
  <2>5. QED
    BY <1>4, <2>2, <2>3, <2>4, ImportedMoves
<1>5. QED
  BY <1>1, <1>3, <1>4 DEF KeptInv, Files

LEMMA KeptAlways == Spec => []KeptInv
<1>1. /\ LegacyInv /\ ProvidersInv /\ AgreeInv /\ ConversationsInv /\ RepositoriesInv /\ KeptInv
      /\ [Next]_vars
      => KeptInv'
  BY KeptNext
<1>2. QED
  BY <1>1, KeptInit, LegacyAlways, ProvidersAlways, AgreeAlways, ConversationsAlways,
     RepositoriesAlways, PTL DEF Spec

(* Wherever the process died, a row of a legacy file is imported, in the file or its .bak. *)
THEOREM NothingIsEverLost == Spec => []NothingIsLost
<1>1. KeptInv => NothingIsLost
  <2>. SUFFICES ASSUME KeptInv, NEW f \in Files \ {"chat_bindings"}, NEW row \in owed[f]
                PROVE  Present(f, row) \/ row \in legacy[f].rows \cup aside[f]
    BY DEF NothingIsLost, Kept
  <2>1. row \in Rows
    BY FileNames DEF KeptInv, OwedTyped
  <2>2. Held(f, row) => Present(f, row)
    BY DEF Held, Secure, Present
  <2>3. QED
    BY <2>1, <2>2 DEF KeptInv
<1>2. QED
  BY <1>1, KeptAlways, PTL

-----------------------------------------------------------------------------
StepsBounded == steps \in 0 .. MaxSteps

LEMMA StepsAlways == Spec => []StepsBounded
<1>1. Init => StepsBounded
  BY ApplicationAssumption DEF Init, StepsBounded
<1>2. StepsBounded /\ [Next]_vars => StepsBounded'
  <2>. SUFFICES ASSUME StepsBounded, [Next]_vars PROVE StepsBounded'
    OBVIOUS
  <2>1. UNCHANGED steps \/ Counted
    BY DEF Next, vars, Boot, Starts, Seed, MigrateProviders, Registry, Migrate, Done, Onward, Aborts,
           ProviderCommand, ProviderWork, Chat, ChatWork, Repo, RepoWork, Row, Dies
  <2>2. QED
    BY <2>1, ApplicationAssumption DEF StepsBounded, Counted
<1>3. QED
  BY <1>1, <1>2, PTL DEF Spec

(* Settings, sessions, turns, repositories, files and tables stay of their kinds. *)
THEOREM TypeCorrect == Spec => []TypeOK
<1>1. LegacyInv /\ ProvidersInv /\ ConversationsInv /\ RepositoriesInv /\ OwedTyped /\ StepsBounded
        => TypeOK
  BY DEF LegacyInv, ProvidersInv, ConversationsInv, RepositoriesInv, OwedTyped, StepsBounded, TypeOK
<1>2. QED
  BY <1>1, LegacyAlways, ProvidersAlways, ConversationsAlways, RepositoriesAlways, OwedAlways,
     StepsAlways, PTL

=============================================================================
