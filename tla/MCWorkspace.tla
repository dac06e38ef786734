----------------------------- MODULE MCWorkspace -----------------------------
(* TLC instance of Workspace, together with six parts that read texts,     *)
(* names and trees: the filters of the model's output, the profiles of     *)
(* models, plans, skills and the searches.                                 *)
EXTENDS Workspace, TLC

CONSTANTS f1, f2, Absent

(* Two processes, a persona for kids and one for servers, each with a      *)
(* skill of its own, a model with a profile and one without, and a launch  *)
(* profile that names the latter.                                          *)
MCAutoSkills == "sparkle" :> {"kids-first"} @@ "homelab" :> {"infra"}
MCEnvOf == "kids-first" :> {} @@ "infra" :> {"HOST"}
MCProfiles == {[model |-> "m2", url |-> TRUE, persona |-> "homelab", mode |-> "creative",
                skills |-> {"infra"}]}

(* Texts in which what is replaced occurs once and twice.                  *)
MCTexts == {<<"mine", "old">>, <<"old", "mine", "old">>}

MCItems == <<"context">>
MCSteps == "quiz" :> 2 @@ "robot" :> 1

-----------------------------------------------------------------------------
(* Streams of up to three tokens: the tags, their beginnings, other text.  *)
VARIABLES stream, read, show_thinking, in_thinking, tag_buf, display, thinking, flushed

thinkingVars ==
    <<stream, read, show_thinking, in_thinking, tag_buf, display, thinking, flushed>>

OpenTag == <<"<", "o", ">">>
CloseTag == <<"<", "/", "o", ">">>
Tokens == {<<>>, OpenTag, CloseTag, <<"x">>, <<"<">>, <<"<", "/">>, <<"<", "o">>}

TH == INSTANCE Thinking
        WITH Streams <- {t1 \o t2 \o t3 : t1, t2, t3 \in Tokens}

(* The names of the manual, and backends that serve some of them.          *)
VARIABLES files, served, wish, model, sampling, context, modelCommands

profileVars == <<files, served, wish, model, sampling, context, modelCommands>>

Coder == <<"qwen3", "-", "coder">>
Turbo == Coder \o <<"-", "tq4">>

PF == INSTANCE Profiles
        WITH commands <- modelCommands, MaxCommands <- 2,
             Listings <-
                 { <<>>,
                   <<Coder \o <<":", "30b">>, <<"qwen3", ":", "8b">>,
                     <<"devstral", ":", "latest">>>>,
                   <<Turbo>>,
                   <<<<"mlx", "-", "community", "/">> \o Coder \o <<"-", "30b">>>> },
             Wishes <-
                 { <<"qwen3">>, Coder, Turbo, Coder \o <<":", "30b">>, <<"devstral">>,
                   <<"unknown">> }

(* The kinds of lines a plan has, each with a text and without.            *)
VARIABLES plan, answer

planVars == <<plan, answer>>

Heading(lead, sep, words) ==
    [kind |-> "heading", lead |-> lead, sep |-> sep, text |-> words]
Line(kind, words) == [kind |-> kind, lead |-> "none", sep |-> "none", text |-> words]

PL == INSTANCE Plans
        WITH NoText <- "", GlobalVerify <- "make test", MaxPlan <- 3, MaxAnswer <- 2,
             Lines <-
                 { Heading("sprint", ":", "one"), Heading("sprint", "none", "1"),
                   Heading("digit", ".", "two"), Heading("digit", ":", ""),
                   Heading("word", "none", "one"), Line("text", "two") }
                 \cup {Line(kind, words) :
                          kind \in {"files", "verify", "criterion", "description"},
                          words \in {"one", ""}}

VARIABLES depends, page, skillEdits

skillVars == <<depends, page, skillEdits>>

SK == INSTANCE Skills
        WITH edits <- skillEdits, Keys <- {"a", "b", "c"}, NoFile <- Absent,
             Fronts <- {<<>>, <<"a">>, <<"b">>, <<"b", "c">>, <<"c", "a">>},
             MaxLines <- 5, MaxEdits <- 3

(* Folders in a folder, a hidden file, a folder every search leaves out    *)
(* and one that grep does not.                                             *)
VARIABLES entries, hits, recent, map, touches

searchVars == <<entries, hits, recent, map, touches>>

Tree(root, sub) ==
    "/" :> root @@ "src" :> sub @@ "deep" :> <<"e.rs">> @@ "dist" :> <<"d.js">>
        @@ "target" :> <<"t.rs">>

Code == {"a.rs", "m.rs", "n.md", "e.rs", "d.js", "t.rs", ".h.rs"}

SR == INSTANCE Search
        WITH Root <- "/", Hidden <- {".h.rs"}, Noise <- {"target"}, Built <- {"dist"},
             Orders <-
                 { Tree(<<"a.rs", "src", "dist", "target", ".h.rs">>, <<"m.rs", "deep", "n.md">>),
                   Tree(<<"dist", "a.rs", ".h.rs", "target", "src">>, <<"deep", "n.md", "m.rs">>) },
             Sources <- Code,
             Symbols <- [f \in Code |-> IF f = "a.rs" THEN {"Cat"}
                                        ELSE IF f = "m.rs" THEN {"Cat", "dog"} ELSE {}],
             Size <- [f \in Code |-> IF f = "m.rs" THEN 2 ELSE 1],
             PartOf <- {}, MaxResults <- 2, MaxDepth <- 1, MaxMatches <- 2, Budget <- 2,
             MaxTouches <- 2

VARIABLES output, ended, raw, args, called, hashes, looped

filterVars == <<output, ended, raw, args, called, hashes, looped>>

FI == INSTANCE Filters
        WITH MaxLines <- 2, MaxBytes <- 4, Window <- 3, Limit <- 2, MaxInput <- 5

textVars == <<thinkingVars, profileVars, planVars, skillVars, searchVars, filterVars>>

-----------------------------------------------------------------------------
Parts ==
    {"watch", "sessions", "life", "tools", "badges", "overflow", "setup", "projects",
     "thinking", "profiles", "plans", "memory", "skills", "search", "filters"}

(* The choices of an initial state are made in the part that is exercised. *)
MCInit ==
    /\ part \in Parts
    /\ SR!Init /\ (part # "search" => entries["/"][1] = "a.rs")
    /\ TH!Init /\ (part # "thinking" => stream = OpenTag /\ ~show_thinking)
    /\ PF!Init /\ (part # "profiles" => files = {})
    /\ SK!Init /\ (part # "skills" => \A key \in DOMAIN depends : depends[key] = <<>>)
    /\ PL!Init /\ FI!Init
    /\ WorkspaceInit
    /\ part # "watch" => mtime = [f \in File |-> 1]
    /\ part # "sessions" => server = "none"
    /\ disk["outside"] = <<"mine", "old">> /\ disk["nested"] = Absent
    /\ disk["file"] # Absent /\ ~folder
    /\ part # "tools" => disk["file"] = <<"mine", "old">>

(* Others touch a file twice, or once when it is merely opened.            *)
MCWatchStep == WatchStep /\ (opens' = 0 \/ writes' + changes' <= 1)

(* Starts, commands and turns are three together, four as long as one of   *)
(* the two processes is off.                                               *)
MCSessionStep ==
    /\ SessionStep
    /\ LET sum == sessionStarts' + sessionCommands' + sessionTurns'
       IN  sum <= 3 \/ (sum = 4 /\ \E p \in DOMAIN proc : proc'[p].pc = "off")

(* A part of those that read, which leaves the others alone.               *)
Reads(p) ==
    /\ part = p /\ UNCHANGED workspaceVars
    /\ p # "thinking" => UNCHANGED thinkingVars
    /\ p # "profiles" => UNCHANGED profileVars
    /\ p # "plans" => UNCHANGED planVars
    /\ p # "skills" => UNCHANGED skillVars
    /\ p # "search" => UNCHANGED searchVars
    /\ p # "filters" => UNCHANGED filterVars

MCNext ==
    \/ MCWatchStep /\ UNCHANGED textVars
    \/ MCSessionStep /\ UNCHANGED textVars
    \/ LifeStep /\ UNCHANGED textVars
    \/ ToolStep /\ UNCHANGED textVars
    \/ BadgeStep /\ UNCHANGED textVars
    \/ OverflowStep /\ UNCHANGED textVars
    \/ SetupStep /\ UNCHANGED textVars
    \/ ProjectStep /\ UNCHANGED textVars
    \/ MemoryStep /\ UNCHANGED textVars
    \/ Reads("thinking") /\ TH!Next
    \/ Reads("profiles") /\ PF!Next
    \/ Reads("plans") /\ PL!Next
    \/ Reads("skills") /\ SK!Next
    \/ Reads("search") /\ SR!Next
    \/ Reads("filters") /\ FI!Next

MCSpec == MCInit /\ [][MCNext]_<<workspaceVars, textVars>> /\ WorkspaceFairness

ASSUME WorkspaceConstants

ASSUME
    /\ TH!ThinkingConstants /\ PF!ProfilesConstants /\ PL!PlansConstants
    /\ SK!SkillsConstants /\ SR!SearchConstants /\ FI!FiltersConstants

-----------------------------------------------------------------------------
TextsTypeOK ==
    /\ part \in Parts
    /\ part = "thinking" => TH!TypeOK
    /\ part = "profiles" => PF!TypeOK
    /\ part = "plans" => PL!TypeOK
    /\ part = "skills" => SK!TypeOK
    /\ part = "search" => SR!TypeOK
    /\ part = "filters" => FI!TypeOK

(* What is read of a text, a name or a tree is what it says, as far as it  *)
(* is clear.                                                               *)
TextsAreRead ==
    /\ TextsTypeOK
    /\ part = "thinking" => TH!ShownIsText
    /\ part = "profiles" => PF!ModelIsServed
    /\ part = "plans" => PL!PlanIsRead /\ PL!VerdictIsRead
    /\ part = "skills" => SK!DependenciesComeFirst /\ SK!PagesAreRead
    /\ part = "search" => SR!SearchIsComplete /\ SR!MapIsHonest
    /\ part = "filters" =>
          FI!TailIsKept /\ FI!ObjectIsFound /\ FI!WordsAreKept /\ FI!LoopsAreReported

(* MANUAL.md says that the name qwen3-coder-tq4 matches the TQ4 profile.   *)
TurboNameMatches == PF!TurboNameMatches
=============================================================================
