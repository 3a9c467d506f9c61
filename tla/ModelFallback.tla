---------------------------- MODULE ModelFallback ----------------------------
(***************************************************************************)
(* How a turn finds a model that answers: agent/loop.py                   *)
(* (_call_provider_with_fallback and the marks it leaves), the loop of     *)
(* agent/subagent.py that does the same without them, and the usage of the *)
(* auth profiles (agent/auth_profiles.py) that each of them keeps in       *)
(* memory and writes as a whole.                                           *)
(*                                                                         *)
(* A loop is an AgentLoop or a SubagentManager.  Its turns share its       *)
(* memory, and they interleave wherever a model is awaited.  What a        *)
(* provider answers and when a cooldown elapses is left open.              *)
(***************************************************************************)
EXTENDS Integers, Sequences, SequencesExt, Selection

CONSTANTS
    Loops,        \* the AgentLoops and SubagentManagers of one process
    Managers,     \* those of them that are SubagentManagers
    ModelTurns,   \* the turns they run
    Models,       \* the configured models, the primary first: a sequence
    ProfilesOf,   \* the enabled auth profiles of a model's provider, in order
    FloatLimit,   \* the failure after which 2 ** (failures - 1) is no float:
                  \* 1025 in CPython
    MaxRounds,    \* max_iterations of a turn
    NoProfile     \* the call made with the provider's own key

Model == Range(Models)
Primary == Models[1]
Profiles == UNION {Range(ProfilesOf[m]) : m \in Model}

ASSUME FallbackAssumption ==
    /\ Managers \subseteq Loops
    /\ Models \in Seq(Model)
    /\ Len(Models) > 0
    /\ IsInjective(Models)
    /\ \A m \in Model : ProfilesOf[m] \in Seq(Profiles)
    /\ NoProfile \notin Profiles
    /\ FloatLimit \in Nat \ {0}
    /\ MaxRounds \in Nat \ {0}

VARIABLES
    cooling,   \* per loop, the models in _model_cooldown_until, not elapsed
    failures,  \* per loop, _model_failure_count
    resting,   \* per loop, the profiles unusable in _auth_profile_usage
    saved,     \* the profiles unusable in the stored auth.profile_usage
    ask,       \* per turn, the locals of its loop
    loopOf     \* the loop each turn runs in

fallbackVars == <<cooling, failures, resting, saved, ask, loopOf>>

--------------------------------------------------------------------------------
NoCall == [at |-> "idle", active |-> Primary, models |-> <<>>, profiles |-> <<>>,
         tried |-> {}, skipped |-> {}, round |-> 0]

\* A loop starts with empty marks and with the usage it finds stored.
FallbackInit ==
    /\ cooling = [l \in Loops |-> {}]
    /\ failures = [l \in Loops |-> [m \in Model |-> 0]]
    /\ saved \in SUBSET Profiles
    /\ resting = [l \in Loops |-> saved]
    /\ ask = [t \in ModelTurns |-> NoCall]
    /\ loopOf \in [ModelTurns -> Loops]

\* The active model, then the fallbacks without it.  The primary is no
\* fallback: a turn that left it does not come back to it.
Candidates(active) ==
    <<active>> \o Kept(Tail(Models), Model \ {active})

\* The models a call will try: those not cooling or, when all are, all.  The
\* manager of subagents keeps no cooldowns.
Plan(l, active) ==
    LET warm == Kept(Candidates(active), Model \ cooling[l])
    IN  IF l \in Managers \/ warm = <<>> THEN Candidates(active) ELSE warm

\* The keys a model is tried with, chosen when its turn comes: the provider's
\* own, then the usable profiles or, when none is, all.
Keys(l, m) ==
    LET usable == Kept(ProfilesOf[m], Profiles \ resting[l])
    IN  <<NoProfile>> \o (IF usable = <<>> THEN ProfilesOf[m] ELSE usable)

--------------------------------------------------------------------------------
\* A round of the turn begins: _call_provider_with_fallback is entered with
\* the active model, and the first candidate is asked.
Call(t) ==
    LET l == loopOf[t]
        plan == Plan(l, ask[t].active)
    IN  /\ ask[t].at = "idle"
        /\ ask[t].round < MaxRounds
        /\ ask' = [ask EXCEPT ![t] =
                [ask[t] EXCEPT !.at = "asking", !.models = plan,
                          !.profiles = Keys(l, plan[1]), !.tried = {},
                          !.skipped = Range(Candidates(ask[t].active)) \ Range(plan),
                          !.round = ask[t].round + 1]]
        /\ UNCHANGED <<cooling, failures, resting, saved, loopOf>>

Asked(t) == Head(ask[t].models)
Key(t) == Head(ask[t].profiles)

\* What the turn does with an answer: run its tools and call the model that
\* answered again, or end.
Use(t) ==
    \/ ask' = [ask EXCEPT ![t] = [NoCall EXCEPT !.active = Asked(t), !.round = ask[t].round]]
    \/ ask' = [ask EXCEPT ![t] = NoCall]

\* The model answered: its profile and its model are marked healthy, and the
\* usage of every profile is written as this loop remembers it.
ModelAnswers(t) ==
    LET l == loopOf[t]
        m == Asked(t)
    IN  /\ ask[t].at = "asking"
        /\ Use(t)
        /\ IF Key(t) = NoProfile
              THEN UNCHANGED <<resting, saved>>
              ELSE /\ resting' = [resting EXCEPT ![l] = @ \ {Key(t)}]
                   /\ saved' = resting'[l]
        /\ IF l \in Managers
              THEN UNCHANGED <<cooling, failures>>
              ELSE /\ cooling' = [cooling EXCEPT ![l] = @ \ {m}]
                   /\ failures' = [failures EXCEPT ![l][m] = 0]
        /\ UNCHANGED loopOf

\* The provider refused the names of the tools and answers when it is asked
\* again with the most recent messages alone.  Nothing is marked.
AnswersCompacted(t) ==
    /\ ask[t].at = "asking"
    /\ loopOf[t] \notin Managers
    /\ Use(t)
    /\ UNCHANGED <<cooling, failures, resting, saved, loopOf>>

\* mark_profile_failure, and the usage written as a whole.
MarkProfile(t) ==
    LET l == loopOf[t]
    IN  IF Key(t) = NoProfile
           THEN UNCHANGED <<resting, saved>>
           ELSE /\ resting' = [resting EXCEPT ![l] = @ \cup {Key(t)}]
                /\ saved' = resting'[l]

\* _mark_model_failure counts the failure, then computes the cooldown:
\* 15.0 * 2 ** (failures - 1) overflows before the cap is applied.  A count
\* past the limit is kept at the limit.
Overflows(l, m) == l \notin Managers /\ failures[l][m] + 1 >= FloatLimit

Count(l, m) ==
    failures' = [failures EXCEPT ![l][m] = IF @ < FloatLimit THEN @ + 1 ELSE @]

MarkModel(t) ==
    LET l == loopOf[t]
        m == Asked(t)
    IN  IF l \in Managers
           THEN UNCHANGED <<cooling, failures>>
           ELSE /\ cooling' = [cooling EXCEPT ![l] = @ \cup {m}]
                /\ Count(l, m)

\* Mutant: a model whose keys ran out ends the call.
Move_MutStops(t, rest) ==
    IF rest /= <<>>
       THEN [ask[t] EXCEPT !.profiles = rest]
       ELSE [ask[t] EXCEPT !.at = "error", !.profiles = <<>>, !.tried = @ \cup {Asked(t)}]

\* What comes after a failed key: the next one, the next model with the keys
\* usable by now, or the end, where the error is the turn's last word.
Move(t, rest) ==
    LET others == Tail(ask[t].models)
    IN  IF rest /= <<>>
           THEN [ask[t] EXCEPT !.profiles = rest]
        ELSE IF others /= <<>>
           THEN [ask[t] EXCEPT !.models = others, !.tried = @ \cup {Asked(t)},
                                !.profiles = Keys(loopOf[t], Head(others))]
        ELSE [ask[t] EXCEPT !.at = "error", !.models = others, !.profiles = rest,
                             !.tried = @ \cup {Asked(t)}]

Fails(t) ==
    /\ ask[t].at = "asking"
    /\ ~ Overflows(loopOf[t], Asked(t))
    /\ MarkProfile(t)
    /\ MarkModel(t)
    /\ ask' = [ask EXCEPT ![t] = Move(t, Tail(ask[t].profiles))]
    /\ UNCHANGED loopOf

\* An exception leaves _call_provider_with_fallback and ends the turn: no
\* other model is asked.
Raise(t) == ask' = [ask EXCEPT ![t].at = "raised", ![t].tried = @ \cup {Asked(t)}]

\* The OverflowError of the model's cooldown: the failed one does not cool.
FailsForGood(t) ==
    /\ ask[t].at = "asking"
    /\ Overflows(loopOf[t], Asked(t))
    /\ MarkProfile(t)
    /\ Count(loopOf[t], Asked(t))
    /\ Raise(t)
    /\ UNCHANGED <<cooling, loopOf>>

\* The profile's mark raises: its cooldown overflows in the same way, before
\* the usage is touched (a profile's failure_count is left open), or the usage,
\* marked in memory after a failure or an answer, cannot be written.
MarkRaises(t) ==
    LET l == loopOf[t]
    IN  /\ ask[t].at = "asking"
        /\ Key(t) /= NoProfile
        /\ \E now \in {resting[l], resting[l] \cup {Key(t)}, resting[l] \ {Key(t)}} :
              resting' = [resting EXCEPT ![l] = now]
        /\ Raise(t)
        /\ UNCHANGED <<cooling, failures, saved, loopOf>>

\* The turn ended with an error or ran out of rounds: the next one starts with
\* the primary again.
NewTurn(t) ==
    /\ \/ ask[t].at \in {"error", "raised"}
       \/ ask[t].at = "idle" /\ ask[t].round = MaxRounds
    /\ ask' = [ask EXCEPT ![t] = NoCall]
    /\ UNCHANGED <<cooling, failures, resting, saved, loopOf>>

\* A cooldown elapses; the profiles' one wherever it was remembered.
ModelCools(l, m) ==
    /\ m \in cooling[l]
    /\ cooling' = [cooling EXCEPT ![l] = @ \ {m}]
    /\ UNCHANGED <<failures, resting, saved, ask, loopOf>>

ProfileRests(p) ==
    /\ \/ p \in saved
       \/ \E l \in Loops : p \in resting[l]
    /\ resting' = [l \in Loops |-> resting[l] \ {p}]
    /\ saved' = saved \ {p}
    /\ UNCHANGED <<cooling, failures, ask, loopOf>>

\* The process restarts: the marks of models are gone, those of profiles are
\* read back.
Reload ==
    /\ cooling' = [l \in Loops |-> {}]
    /\ failures' = [l \in Loops |-> [m \in Model |-> 0]]
    /\ resting' = [l \in Loops |-> saved]
    /\ ask' = [t \in ModelTurns |-> NoCall]
    /\ UNCHANGED <<saved, loopOf>>

FallbackNext ==
    \/ \E t \in ModelTurns :
          \/ Call(t) \/ ModelAnswers(t) \/ AnswersCompacted(t)
          \/ Fails(t) \/ FailsForGood(t) \/ MarkRaises(t) \/ NewTurn(t)
    \/ \E l \in Loops, m \in Model : ModelCools(l, m)
    \/ \E p \in Profiles : ProfileRests(p)
    \/ Reload

FallbackSpec == FallbackInit /\ [][FallbackNext]_fallbackVars

--------------------------------------------------------------------------------
FallbackTypeOK ==
    /\ cooling \in [Loops -> SUBSET Model]
    /\ failures \in [Loops -> [Model -> 0..FloatLimit]]
    /\ resting \in [Loops -> SUBSET Profiles]
    /\ saved \subseteq Profiles
    /\ \A t \in ModelTurns :
          /\ ask[t].at \in {"idle", "asking", "error", "raised"}
          /\ ask[t].at = "asking" => ask[t].models /= <<>> /\ ask[t].profiles /= <<>>
          /\ ask[t].at = "asking" => Asked(t) \notin ask[t].tried \cup ask[t].skipped
          /\ ask[t].round \in 0..MaxRounds

\* A turn ends with a model's error only after every model it may use has
\* failed in this very call, or was cooling when the call began while a model
\* that failed was not (loop.py:333-341): neither the marks that concurrent
\* turns leave meanwhile nor the keys that run out lose a candidate.
ErrorTriedEverything ==
    \A t \in ModelTurns :
        ask[t].at = "error" =>
            /\ ask[t].tried \cup ask[t].skipped = Range(Candidates(ask[t].active))
            /\ ask[t].tried \ ask[t].skipped /= {}

================================================================================
