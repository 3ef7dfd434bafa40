------------------------------- MODULE Arena -------------------------------
(***************************************************************************)
(* Making and filling arena matches: internal/ssh/arena.go over the tables *)
(* arena_matches and arena_participants.  A match id is random and never   *)
(* reused; a user takes part in a match at most once (UNIQUE).  Every      *)
(* query is a transaction of its own, so a join reads the match, the       *)
(* user's row and the number of rows before it inserts, and starts the     *)
(* match from the number it read.  No code ends a match, and nothing calls *)
(* UpdateELOAfterMatch.                                                    *)
(***************************************************************************)
EXTENDS Integers, FiniteSets

CONSTANTS
    Matches,        \* match ids
    Players,        \* users
    Terminals,      \* shells; one user may have several
    AgentCounts,    \* values of --agents (2..10)
    ScenarioMax,    \* max_agents of the scenario, 0 for no limit
    MaxArenaCrashes \* bound: crashes of the server

ASSUME ArenaAssumption ==
    /\ AgentCounts \subseteq 2..10
    /\ ScenarioMax \in Nat \ {1}  \* the shipped scenarios allow 2 and 4 agents
    /\ MaxArenaCrashes \in Nat
    /\ "none" \notin Matches

VARIABLES
    status,      \* arena_matches.status, "absent" before the insert
    maxAgents,   \* arena_matches.max_agents
    joined,      \* arena_participants of a match
    term,        \* a terminal: step, user, match, count read
    arenaCrashes,
    raced        \* history: matches with two joins under way at one time,
                 \* or with a join that a crash cut short

arenaVars == <<status, maxAgents, joined, term, arenaCrashes, raced>>

NoCommand == [pc |-> "prompt", player |-> "none", match |-> "none", count |-> 0]

ArenaInit ==
    /\ status = [m \in Matches |-> "absent"]
    /\ maxAgents = [m \in Matches |-> 0]
    /\ joined = [m \in Matches |-> {}]
    /\ term = [t \in Terminals |-> NoCommand]
    /\ arenaCrashes = 0
    /\ raced = {}

On(t, l) == term[t].pc = l
Prompt(t) == term' = [term EXCEPT ![t] = NoCommand]
Joining(m) == {t \in Terminals : term[t].match = m}

-----------------------------------------------------------------------------
(* arena create-match: the row, and then the creator's own row.            *)

CreateArenaMatch(t, p, m, n) ==
    /\ On(t, "prompt")
    /\ status[m] = "absent"
    /\ status' = [status EXCEPT ![m] = "waiting"]
    /\ maxAgents' = [maxAgents EXCEPT ![m] =
                       IF ScenarioMax > 0 /\ n > ScenarioMax THEN ScenarioMax ELSE n]
    /\ term' = [term EXCEPT ![t] = [pc |-> "autojoin", player |-> p, match |-> m, count |-> 0]]
    /\ UNCHANGED <<joined, arenaCrashes, raced>>

AutoJoin(t) ==
    /\ On(t, "autojoin")
    /\ joined' = [joined EXCEPT ![term[t].match] = @ \cup {term[t].player}]
    /\ Prompt(t)
    /\ UNCHANGED <<status, maxAgents, arenaCrashes, raced>>

-----------------------------------------------------------------------------
(* arena join. *)

GetArenaMatch(t, p, m) ==
    /\ On(t, "prompt")
    /\ status[m] = "waiting"
    /\ term' = [term EXCEPT ![t] = [pc |-> "member", player |-> p, match |-> m, count |-> 0]]
    /\ raced' = IF Joining(m) = {} THEN raced ELSE raced \cup {m}
    /\ UNCHANGED <<status, maxAgents, joined, arenaCrashes>>

IsArenaParticipant(t) ==
    /\ On(t, "member")
    /\ IF term[t].player \in joined[term[t].match]
       THEN Prompt(t) ELSE term' = [term EXCEPT ![t].pc = "count"]
    /\ UNCHANGED <<status, maxAgents, joined, arenaCrashes, raced>>

ArenaParticipantCount(t) ==
    /\ On(t, "count")
    /\ LET m == term[t].match n == Cardinality(joined[m]) IN
          IF n >= maxAgents[m]
          THEN Prompt(t)
          ELSE term' = [term EXCEPT ![t].pc = "join", ![t].count = n]
    /\ UNCHANGED <<status, maxAgents, joined, arenaCrashes, raced>>

MutantJoinArenaMatch(t) ==
    /\ On(t, "join")
    /\ LET m == term[t].match p == term[t].player IN
          /\ joined' = [joined EXCEPT ![m] = @ \cup {p}]
          /\ IF p \notin joined[m] /\ term[t].count >= maxAgents[m]
             THEN term' = [term EXCEPT ![t].pc = "start"] ELSE Prompt(t)
    /\ UNCHANGED <<status, maxAgents, arenaCrashes, raced>>

(* The insert fails when another terminal of the user came first.          *)
JoinArenaMatch(t) ==
    /\ On(t, "join")
    /\ LET m == term[t].match p == term[t].player IN
          /\ joined' = [joined EXCEPT ![m] = @ \cup {p}]
          /\ IF p \notin joined[m] /\ term[t].count + 1 >= maxAgents[m]
             THEN term' = [term EXCEPT ![t].pc = "start"] ELSE Prompt(t)
    /\ UNCHANGED <<status, maxAgents, arenaCrashes, raced>>

(* UpdateArenaMatchStatus(running).  It runs after the insert, and once    *)
(* for every join that read a full enough count.                           *)
StartMatch(t) ==
    /\ On(t, "start")
    /\ status' = [status EXCEPT ![term[t].match] = "running"]
    /\ Prompt(t)
    /\ UNCHANGED <<maxAgents, joined, arenaCrashes, raced>>

CrashArena ==
    /\ arenaCrashes < MaxArenaCrashes
    /\ arenaCrashes' = arenaCrashes + 1
    /\ term' = [t \in Terminals |-> NoCommand]
    /\ raced' = raced \cup {m \in Matches : Joining(m) # {}}
    /\ UNCHANGED <<status, maxAgents, joined>>

ArenaNext ==
    \/ CrashArena
    \/ \E t \in Terminals :
          \/ \E p \in Players, m \in Matches :
                \/ \E n \in AgentCounts : CreateArenaMatch(t, p, m, n)
                \/ GetArenaMatch(t, p, m)
          \/ AutoJoin(t) \/ IsArenaParticipant(t) \/ ArenaParticipantCount(t)
          \/ JoinArenaMatch(t) \/ StartMatch(t)

ArenaSpec == ArenaInit /\ [][ArenaNext]_arenaVars

-----------------------------------------------------------------------------
(* A running match has all its agents, whatever the joins that filled it   *)
(* read and however they interleaved: the count a join starts the match    *)
(* from may be stale, never too large.                                     *)
RunningIsFull ==
    \A m \in Matches : status[m] = "running" => Cardinality(joined[m]) >= maxAgents[m]

(* "Auto-start when full": a match whose joins never overlapped, and that  *)
(* no crash caught in the middle of one, is never over-full, and when it   *)
(* is full it runs or the join that filled it is about to start it.        *)
FullMatchStarts ==
    \A m \in Matches \ raced :
        status[m] # "absent" =>
        /\ Cardinality(joined[m]) <= maxAgents[m]
        /\ Cardinality(joined[m]) = maxAgents[m] =>
              status[m] = "running" \/ \E t \in Joining(m) : On(t, "start")

(* A match runs with all its agents, and does run once it has them.        *)
StartsWhenFull == RunningIsFull /\ FullMatchStarts

(* "Auto-start when full", of every match: one that has its agents and     *)
(* nobody on the way to join or start it is running.  Two joins that read  *)
(* the same count fill a match that neither of them starts, and no later   *)
(* join can: it is full.                                                   *)
AutoStartWhenFull ==
    \A m \in Matches :
        status[m] = "waiting" /\ Cardinality(joined[m]) >= maxAgents[m] => Joining(m) # {}

=============================================================================
