------------------------------- MODULE Profiles -------------------------------
(***************************************************************************)
(* Models and their profiles: the bundled list, the files anvil init makes *)
(* of it, and how a start and /model choose by name                        *)
(* (anvil-config/src/profiles.rs, anvil/src/main.rs, commands.rs).  A name *)
(* or a pattern is a sequence of pieces in lower case.                     *)
(***************************************************************************)
EXTENDS Naturals, Sequences, SequencesExt, FiniteSets, FiniteSetsExt

CONSTANTS
    Listings,    \* what a backend may answer when it is asked for its models
    Wishes,      \* names a user may configure, or give to /model
    MaxCommands  \* bound: uses of /model

ProfilesConstants == Wishes \subseteq Seq(STRING) /\ MaxCommands \in Nat

VARIABLES
    files,      \* the profiles in .anvil/models
    served,     \* the backend's models, in its order; empty if it is not reached
    wish,       \* the name that was last asked for, and how
    model,      \* the agent's model, empty before the start
    sampling,   \* the profile whose sampling it uses, or "none"
    context,    \* context_window, in units of 1024 tokens
    commands

vars == <<files, served, wish, model, sampling, context, commands>>

Profile(name, patterns, window, recommended) ==
    [name |-> name, patterns |-> patterns, window |-> window, recommended |-> recommended]

(* The bundled profiles in the order of the list; 0 for no kv_cache.       *)
BundledQwen ==
    << Profile("Qwen3-Coder", {<<"qwen3", "-", "coder">>}, 32, 0),
       Profile("Qwen3", {<<"qwen3", ":">>, <<"qwen3", "-">>}, 16, 0),
       Profile("Qwen2.5-Coder", {<<"qwen2.5", "-", "coder">>}, 16, 0),
       Profile("Qwen2.5", {<<"qwen2.5", ":">>, <<"qwen2.5", "-">>}, 16, 0) >>

BundledOthers ==
    << Profile("Devstral", {<<"devstral">>}, 16, 0),
       Profile("DeepSeek-R1", {<<"deepseek", "-", "r1">>}, 16, 0),
       Profile("Qwen3.5", {<<"qwen3.5">>}, 32, 0),
       Profile("Nemotron-Cascade-2", {<<"nemotron", "-", "cascade">>}, 32, 0),
       Profile("GLM-4.7-Flash", {<<"glm", "-", "4.7">>}, 16, 0),
       Profile("MLX Default", {<<"mlx", "-", "community">>}, 16, 0) >>

BundledTurbo ==
    << Profile("Qwen3-Coder TQ4", {<<"qwen3", "-", "coder", "-", "tq4">>}, 32, 256),
       Profile("Qwen3-Coder TQ3", {<<"qwen3", "-", "coder", "-", "tq3">>}, 32, 512) >>

load_bundled_profiles == BundledQwen \o BundledOthers \o BundledTurbo

(* load_profiles: the files, sorted by the names of the profiles.          *)
ByName ==
    << "DeepSeek-R1", "Devstral", "GLM-4.7-Flash", "MLX Default", "Nemotron-Cascade-2",
       "Qwen2.5", "Qwen2.5-Coder", "Qwen3", "Qwen3-Coder", "Qwen3-Coder TQ3",
       "Qwen3-Coder TQ4", "Qwen3.5" >>

Named(name) == CHOOSE p \in ToSet(load_bundled_profiles) : p.name = name

load_profiles ==
    LET there == SelectSeq(ByName, LAMBDA name : name \in files)
    IN  [i \in DOMAIN there |-> Named(there[i])]

Occurs(pattern, name) ==
    \E i \in 0 .. Len(name) - Len(pattern) : SubSeq(name, i + 1, i + Len(pattern)) = pattern

Nothing == Profile("none", {}, 0, 0)

FirstOf(list, Test(_)) == SelectInSeq(list, Test)

(* Mutant of find_matching_profile: the last match.                        *)
LastMatch(profiles, name) ==
    LET i == SelectLastInSeq(profiles, LAMBDA p : \E t \in p.patterns : Occurs(t, name))
    IN  IF i = 0 THEN Nothing ELSE profiles[i]

(* The first profile one of whose patterns occurs in the name.             *)
find_matching_profile(profiles, name) ==
    LET i == FirstOf(profiles, LAMBDA p : \E t \in p.patterns : Occurs(t, name))
    IN  IF i = 0 THEN Nothing ELSE profiles[i]

effective_context(p) == IF p.recommended # 0 THEN p.recommended ELSE p.window

Init ==
    /\ files \in {{}, ToSet(ByName), {"Qwen3-Coder", "Qwen3-Coder TQ4"}}
    /\ served = <<>> /\ wish = [name |-> <<>>, how |-> "none"]
    /\ model = <<>> /\ sampling = "none" /\ context = 0 /\ commands = 0

-----------------------------------------------------------------------------
Tagged(name) == name \o <<":">>

Serves(list, name) == \E i \in DOMAIN list : list[i] = name \/ IsPrefix(Tagged(name), list[i])

(* Mutant of auto_detect_model: a model without its tag is not found.      *)
DetectExact(list, name) ==
    IF list = <<>> \/ name \in ToSet(list) THEN name ELSE list[1]

(* A configured model that the backend does not have gives way to the      *)
(* first one it has.                                                       *)
auto_detect_model(list, name) ==
    IF list = <<>> \/ Serves(list, name) THEN name ELSE list[1]

(* The profile of the model sets the context and the sampling.             *)
Start == \E name \in Wishes, list \in Listings :
    /\ model = <<>> /\ served' = list
    /\ wish' = [name |-> name, how |-> "config"]
    /\ model' = auto_detect_model(list, name)
    /\ LET p == find_matching_profile(load_profiles, model')
       IN  /\ sampling' = p.name
           /\ context' = IF effective_context(p) > 0 THEN effective_context(p) ELSE 8
    /\ UNCHANGED <<files, commands>>

(* Mutant of resolve_model: any model that contains the name comes first.  *)
FuzzyFirst(list, name) ==
    IF list = <<>> THEN name
    ELSE LET i == FirstOf(list, LAMBDA m : Occurs(name, m))
         IN  IF i = 0 THEN <<>> ELSE list[i]

(* The model that /model means: that name, a tag of it, or the first in    *)
(* which it occurs; any name if the backend cannot be asked.               *)
resolve_model(list, name) ==
    LET tag == FirstOf(list, LAMBDA m : IsPrefix(Tagged(name), m))
        fuzzy == FirstOf(list, LAMBDA m : Occurs(name, m))
    IN  IF list = <<>> \/ name \in ToSet(list) THEN name
        ELSE IF tag # 0 THEN list[tag]
        ELSE IF fuzzy # 0 THEN list[fuzzy]
        ELSE <<>>

(* /model chooses the sampling among the bundled profiles, and leaves the  *)
(* context as it is.                                                       *)
model_command == \E name \in Wishes, list \in Listings :
    LET m == resolve_model(list, name)
        p == find_matching_profile(load_bundled_profiles, m)
    IN  /\ model # <<>> /\ commands < MaxCommands /\ commands' = commands + 1
        /\ served' = list
        /\ wish' = [name |-> name, how |-> IF m = <<>> THEN "missed" ELSE "command"]
        /\ IF m = <<>> THEN UNCHANGED <<model, sampling>>
           ELSE model' = m /\ sampling' = p.name
        /\ UNCHANGED <<files, context>>

Next == Start \/ model_command

Spec == Init /\ [][Next]_vars

-----------------------------------------------------------------------------
(* Types of the state.                                                     *)
TypeOK ==
    /\ files \subseteq ToSet(ByName)
    /\ sampling \in ToSet(ByName) \cup {"none"}
    /\ context \in {0, 8, 16, 32, 256, 512}

(* The length of the longest pattern of a profile that a name has.         *)
Fit(p, name) == Max({0} \cup {Len(t) : t \in {u \in p.patterns : Occurs(u, name)}})

(* The model in use is one the backend has, if it can be asked; a name it  *)
(* serves, or of which it serves a tag, leads to nothing else; and after   *)
(* /model no other profile fits the model better than the one in use - the *)
(* TurboQuant ones excepted, which Qwen3-Coder's pattern always covers.    *)
ModelIsServed ==
    /\ wish.how # "none" /\ served # <<>> /\ Serves(served, wish.name) =>
           model = wish.name \/ IsPrefix(Tagged(wish.name), model)
    /\ wish.how = "config" /\ served # <<>> => \E m \in ToSet(served) : Serves(<<m>>, model)
    /\ wish.how = "command" =>
           \A p \in ToSet(BundledQwen \o BundledOthers) :
               Fit(p, model) <= Fit(IF sampling = "none" THEN Nothing ELSE Named(sampling), model)

(* MANUAL.md: the model name qwen3-coder-tq4 matches the bundled TQ4       *)
(* profile, which sets a context of 262144 tokens - where anvil init has   *)
(* written all profiles and the backend lists that name.                   *)
TurboNameMatches ==
    wish.how = "config" /\ files = ToSet(ByName)
        /\ model = <<"qwen3", "-", "coder", "-", "tq4">>
        => sampling = "Qwen3-Coder TQ4" /\ context = 256
=============================================================================
