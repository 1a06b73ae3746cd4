--------------------------- MODULE AgentProviders ---------------------------
(***************************************************************************)
(* The agent providers of the application. They are kept three times: in   *)
(* config.jsonc, in the ConfigStore that loaded it (as raw text, edited    *)
(* before a write, and as data, changed after it) and in the               *)
(* AgentProviderRegistry that turns are resolved with. The commands        *)
(* register, use, unregister and error_target change all of them, a write  *)
(* of the file in between, and nothing keeps two commands apart.           *)
(***************************************************************************)
EXTENDS Naturals, FiniteSets

CONSTANTS
  Kinds,    \* the kinds of provider
  None,     \* no active provider
  Calls     \* the commands in progress at a time

ASSUME ProvidersAssumption == None \notin Kinds

VARIABLES
  file,      \* config.jsonc: agent.providers, agent.default and failureTarget
  text,      \* ConfigStore.rawText
  data,      \* ConfigStore.data
  registry,  \* AgentProviderRegistry.providers
  active,    \* AgentProviderRegistry.activeKind
  call,      \* the commands in progress
  lapped,    \* history: two writes overlapped since the process began
  failed     \* history: a write failed since the process began

providerVars == <<file, text, data, registry, active, call, lapped, failed>>

Settings == [providers : SUBSET Kinds, default : Kinds \cup {None}, target : BOOLEAN]
Blank    == [providers |-> {}, default |-> None, target |-> FALSE]
Changes  == {"register", "use", "clear", "unregister", "target"}
Resting  == [pc |-> "idle", change |-> "target", kind |-> None, cleared |-> FALSE, text |-> Blank]

ProvidersInit ==
  /\ file \in {s \in Settings : s.default \in s.providers \cup {None} /\ ~ s.target}
  /\ text = Blank /\ data = Blank /\ registry = {} /\ active = None
  /\ call = [c \in Calls |-> Resting] /\ lapped = FALSE /\ failed = FALSE

Busy == {c \in Calls : call[c].pc # "idle"}

(* ConfigStore: what a change does to the settings; of the text and of data alike. *)
Changed(s, change, kind, cleared) ==
  CASE change = "register"   -> [s EXCEPT !.providers = @ \cup {kind}]
    [] change \in {"use", "clear"} -> [s EXCEPT !.default = kind]
    [] change = "unregister" -> [s EXCEPT !.providers = @ \ {kind},
                                          !.default = IF cleared THEN None ELSE @]
    [] change = "target"     -> [s EXCEPT !.target = ~ @]

(* The raw text is edited before the write is awaited. *)
Write(c, change, kind, cleared) ==
  /\ call[c] = Resting
  /\ text' = Changed(text, change, kind, cleared)
  /\ call' = [call EXCEPT ![c] = [pc |-> "writing", change |-> change, kind |-> kind,
                                  cleared |-> cleared, text |-> text']]
  /\ lapped' = (lapped \/ Busy # {})
  /\ UNCHANGED <<file, data, registry, active, failed>>

(* /provider register, once the directory is seen to be there. *)
Register(c, kind) ==
  /\ kind \notin data.providers
  /\ Write(c, "register", kind, FALSE)

Use(c, kind) ==
  /\ kind \in registry /\ kind \in data.providers
  /\ Write(c, "use", kind, FALSE)

(* Mutant: the active provider is removed and stays the default. *)
UnregisterKeepsDefault(c, kind) ==
  /\ kind \in registry /\ kind \in data.providers
  /\ Write(c, "unregister", kind, FALSE)
(* Whether it is the active one is seen before the write. *)
Unregister(c, kind) ==
  /\ kind \in registry /\ kind \in data.providers
  /\ Write(c, "unregister", kind, data.default = kind)

(* /error_target set and clear *)
setFailureTarget(c) == Write(c, "target", None, FALSE)

(* The temporary file takes the place of config.jsonc. *)
Rename(c) ==
  /\ call[c].pc = "writing"
  /\ file' = call[c].text
  /\ call' = [call EXCEPT ![c].pc = "renamed"]
  /\ UNCHANGED <<text, data, registry, active, lapped, failed>>

(* The write throws. The edit stays in the raw text, for the next write. *)
WriteFails(c) ==
  /\ call[c].pc = "writing" /\ call[c].change # "clear"
  /\ failed' = TRUE
  /\ call' = [call EXCEPT ![c] = Resting]
  /\ UNCHANGED <<file, text, data, registry, active, lapped>>

(* Mutant: a provider is made the active one without a look at the registry. *)
NowActiveUnchecked(change, kind) ==
  CASE change = "use"                             -> kind
    [] change = "unregister" /\ active = kind     -> None
    [] OTHER                                      -> active
(* setActive throws for a kind that was unregistered meanwhile. *)
NowActive(change, kind) ==
  CASE change = "use" /\ kind \in registry        -> kind
    [] change = "unregister" /\ active = kind     -> None
    [] OTHER                                      -> active

(* The data is changed as it is after the write, then the registry. A kind that is   *)
(* registered there already makes the command throw, when all is as it should be.     *)
Finish(c) ==
  /\ call[c].pc = "renamed"
  /\ data' = Changed(data, call[c].change, call[c].kind, call[c].cleared)
  /\ registry' = CASE call[c].change = "register"   -> registry \cup {call[c].kind}
                   [] call[c].change = "unregister" -> registry \ {call[c].kind}
                   [] OTHER                         -> registry
  /\ active' = NowActive(call[c].change, call[c].kind)
  /\ call' = [call EXCEPT ![c] = Resting]
  /\ UNCHANGED <<file, text, lapped, failed>>

ProvidersStep == \E c \in Calls : Rename(c) \/ WriteFails(c) \/ Finish(c)

-----------------------------------------------------------------------------
(* ConfigStore.load *)
LoadConfig ==
  /\ text' = file /\ data' = file
  /\ UNCHANGED <<file, registry, active, call, lapped, failed>>

(* Boot writes one setting, with nothing else under way. *)
WriteAtBoot(change, kind) ==
  /\ text' = Changed(text, change, kind, FALSE)
  /\ file' = text' /\ data' = Changed(data, change, kind, FALSE)
  /\ UNCHANGED <<registry, active, call, lapped, failed>>

(* buildAgentProviderRegistry; a default that is not registered is cleared, not awaited. *)
BuildRegistry ==
  /\ registry' = data.providers
  /\ IF data.default \in data.providers \cup {None}
       THEN active' = data.default /\ UNCHANGED <<text, call>>
       ELSE /\ active' = None
            /\ text' = Changed(text, "clear", None, FALSE)
            /\ \E c \in Calls : call' = [call EXCEPT ![c] = [Resting EXCEPT
                 !.pc = "writing", !.change = "clear", !.text = text']]
  /\ UNCHANGED <<file, data, lapped, failed>>

ProvidersDie ==
  /\ text' = Blank /\ data' = Blank /\ registry' = {} /\ active' = None
  /\ call' = [c \in Calls |-> Resting] /\ lapped' = FALSE /\ failed' = FALSE
  /\ UNCHANGED file

ProvidersTypeOK ==
  /\ file \in Settings /\ text \in Settings /\ data \in Settings
  /\ registry \subseteq Kinds /\ active \in Kinds \cup {None}
  /\ call \in [Calls -> [pc : {"idle", "writing", "renamed"}, change : Changes,
                         kind : Kinds \cup {None}, cleared : BOOLEAN, text : Settings]]
  /\ lapped \in BOOLEAN /\ failed \in BOOLEAN
=============================================================================
