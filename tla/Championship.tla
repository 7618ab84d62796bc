---------------------------- MODULE Championship ----------------------------
(***************************************************************************)
(* The tournament of hw2: a tree of processes, a battle (battle.c) at each *)
(* inner node and a player (player.c) at each leaf.  A process talks to    *)
(* its parent over a pair of pipes; the loser of a battle of the upper     *)
(* bracket hands its status through a FIFO to the agent that plays on in   *)
(* its name.  A process is modelled from one blocking call to the next:    *)
(* what it does in between touches only its own memory and pipes that have *)
(* room to spare.  A FIFO is opened by both ends at once.                  *)
(***************************************************************************)
EXTENDS Integers, Sequences, FiniteSets

CONSTANTS
  Battles, Root,   \* the battles, and the final (battle A)
  Players,         \* the player processes: real players and agents
  Number,          \* real player -> its number
  left, right,     \* battle -> the process below it
  lose,            \* battle -> the agent of its loser (player.c)
  ATTR,            \* battle -> the attribute that doubles an attack there
  Rosters          \* the contents player_status.txt may have

RealPlayers == DOMAIN Number
Agents == Players \ RealPlayers
Procs == Battles \cup Players
Children(b) == {left[b], right[b]}
Side(b, i) == IF i = 0 THEN left[b] ELSE right[b]
Parent(c) == CHOOSE b \in Battles : c \in Children(b)

ASSUME BracketAssumption ==
  /\ Root \in Battles /\ RealPlayers \subseteq Players
  /\ Battles \cap Players = {}
  /\ left \in [Battles -> Procs] /\ right \in [Battles -> Procs]
  /\ \A b \in Battles : left[b] # right[b]
  /\ \A c \in Procs \ {Root} : \E b \in Battles :
       {d \in Battles : c \in Children(d)} = {b}
  /\ \A b \in Battles : {Root, b} \cap Children(b) = {}
  /\ DOMAIN lose \subseteq Battles
  /\ \A b \in DOMAIN lose : lose[b] \in Agents
  /\ \A r \in Rosters, c \in RealPlayers : r[c].HP \in Nat \ {0} /\ r[c].ATK \in Nat

\* Every battle is below the final: no battles are only below each other.
ASSUME TreeAssumption ==
  \A T \in SUBSET (Battles \ {Root}) : T # {} => \E b \in T : Parent(b) \notin T

\* No agent plays on for the losers of two battles (player.c:15).
ASSUME AgentAssumption == \A b, d \in DOMAIN lose : lose[b] = lose[d] => b = d

VARIABLES
  roster,    \* real player -> its HP, ATK and attr in player_status.txt
  pc,        \* process -> where it is
  up, down,  \* process -> messages in the pipe to, from its parent
  fifo,      \* agent -> messages in its FIFO
  remain,    \* battle -> the side that stays in the tournament, or -1
  Player,    \* battle -> the statuses of its two sides after a round
  p,         \* player -> the status it holds
  originHP,  \* player -> the HP it started with
  champion,  \* the player battle A announced
  losses     \* history: real player -> how often it was beaten

vars == <<roster, pc, up, down, fifo, remain, Player, p, originHP, champion,
          losses>>

Nobody == "nobody"
NoStatus == [real_player_id |-> Nobody, HP |-> 0,
             current_battle_id |-> Root, battle_ended_flag |-> FALSE]

Exited == {"gone", "reaped"}

Init ==
  /\ roster \in Rosters
  /\ pc = [c \in Procs |-> IF c = Root THEN "fork" ELSE "unborn"]
  /\ up = [c \in Procs |-> <<>>] /\ down = [c \in Procs |-> <<>>]
  /\ fifo = [a \in Agents |-> <<>>]
  /\ remain = [b \in Battles |-> -1]
  /\ Player = [b \in Battles |-> <<NoStatus, NoStatus>>]
  /\ p = [c \in Players |-> NoStatus]
  /\ originHP = [c \in Players |-> 0]
  /\ champion = Nobody
  /\ losses = [c \in RealPlayers |-> 0]

-----------------------------------------------------------------------------
(* battle.c                                                                *)

\* Both children are forked before the battle reads anything.
Fork(b) ==
  /\ pc[b] = "fork"
  /\ pc' = [c \in Procs |-> IF c = b THEN "fight"
                            ELSE IF c \notin Children(b) THEN pc[c]
                            ELSE IF c \in Battles THEN "fork" ELSE "start"]
  /\ UNCHANGED <<roster, up, down, fifo, remain, Player, p, originHP,
                 champion, losses>>

\* What the status d is after a attacks it in battle b.
Struck(b, a, d) ==
  LET attacker == roster[a.real_player_id]
  IN [d EXCEPT !.HP =
        @ - attacker.ATK * (IF attacker.attr = ATTR[b] THEN 2 ELSE 1)]

StrikesFirst(x, y) ==
  \/ x.HP < y.HP
  \/ x.HP = y.HP /\ Number[x.real_player_id] < Number[y.real_player_id]

Alive(x) == x.HP > 0

\* A round: x attacks y, and y strikes back if it can.
Exchange(b, x, y) ==
  LET z == Struck(b, x, y) IN <<IF Alive(z) THEN Struck(b, z, x) ELSE x, z>>

\* The two sides after a round of battle b, and whether it is the last one.
fight(b, x, y) ==
  LET r == IF StrikesFirst(x, y) THEN Exchange(b, x, y)
           ELSE LET s == Exchange(b, y, x) IN <<s[2], s[1]>>
      ended == ~ (Alive(r[1]) /\ Alive(r[2]))
  IN [i \in 1 .. 2 |-> [r[i] EXCEPT !.current_battle_id = b,
                                    !.battle_ended_flag = @ \/ ended]]

\* Seeded fault: The branch where the left side falls does not set *remain.
RemainingUnset(b, after) == IF ~ Alive(after[2]) THEN 0 ELSE remain[b]

\* Seeded fault: *remain is the side that fell.
RemainingSwapped(b, after) ==
  IF ~ Alive(after[1]) THEN 0 ELSE IF ~ Alive(after[2]) THEN 1 ELSE remain[b]

\* *remain after a round.
Remaining(b, after) ==
  IF ~ Alive(after[1]) THEN 1 ELSE IF ~ Alive(after[2]) THEN 0 ELSE remain[b]

\* One turn of the loop: both reads, the round, both writes.
Fight(b) ==
  LET l == left[b]  r == right[b] IN
  /\ pc[b] = "fight" /\ up[l] # <<>> /\ up[r] # <<>>
  /\ LET after == fight(b, Head(up[l]), Head(up[r]))
         beaten == {after[i].real_player_id : i \in {j \in 1 .. 2 : ~ Alive(after[j])}}
     IN /\ Player' = [Player EXCEPT ![b] = after]
        /\ remain' = [remain EXCEPT ![b] = Remaining(b, after)]
        /\ up' = [up EXCEPT ![l] = Tail(@), ![r] = Tail(@)]
        /\ down' = [down EXCEPT ![l] = Append(@, after[1]),
                                ![r] = Append(@, after[2])]
        /\ pc' = [pc EXCEPT ![b] = IF after[1].battle_ended_flag THEN "wait" ELSE @]
        /\ losses' = [c \in RealPlayers |->
                        losses[c] + (IF c \in beaten THEN 1 ELSE 0)]
  /\ UNCHANGED <<roster, fifo, p, originHP, champion>>

\* wait(NULL) takes any child that has exited, and b goes on to `next'.
Wait(b, next) ==
  \E c \in Children(b) :
    pc[c] = "gone" /\ pc' = [pc EXCEPT ![c] = "reaped", ![b] = next]

\* Seeded fault: the left side is announced, whoever won.
AnnouncedLeft(b) == Player[b][1].real_player_id

\* Whom battle A prints.
Announced(b) == Player[b][remain[b] + 1].real_player_id

\* The wait after the fight; battle A then announces the champion.
WaitLoser(b) ==
  /\ pc[b] = "wait"
  /\ Wait(b, IF b = Root THEN "last" ELSE "relayUp")
  /\ champion' = IF b = Root THEN Announced(b) ELSE champion
  /\ UNCHANGED <<roster, up, down, fifo, remain, Player, p, originHP, losses>>

\* The relay loop: a status of the remaining side goes up ...
RelayUp(b) ==
  LET c == Side(b, remain[b]) IN
  /\ pc[b] = "relayUp" /\ up[c] # <<>>
  /\ up' = [up EXCEPT ![c] = Tail(@), ![b] = Append(@, Head(up[c]))]
  /\ pc' = [pc EXCEPT ![b] = "relayDown"]
  /\ UNCHANGED <<roster, down, fifo, remain, Player, p, originHP, champion, losses>>

\* Seeded fault: The relay does not notice that its side was beaten.
OverAtEnd(s) == s.battle_ended_flag /\ s.current_battle_id = Root

\* Seeded fault: The relay stops at the end of any battle.
OverTooEarly(s) == s.HP <= 0 \/ s.battle_ended_flag

\* The remaining side takes no further part: it was beaten, or battle A is over.
Over(s) == s.HP <= 0 \/ (s.battle_ended_flag /\ s.current_battle_id = Root)

\* ... and the answer goes down; the loop ends when nothing more will come up.
RelayDown(b) ==
  LET c == Side(b, remain[b])  s == Head(down[b]) IN
  /\ pc[b] = "relayDown" /\ down[b] # <<>>
  /\ down' = [down EXCEPT ![b] = Tail(@), ![c] = Append(@, s)]
  /\ IF Over(s) THEN /\ remain' = [remain EXCEPT ![b] = -1]
                     /\ pc' = [pc EXCEPT ![b] = "last"]
     ELSE /\ pc' = [pc EXCEPT ![b] = "relayUp"] /\ UNCHANGED remain
  /\ UNCHANGED <<roster, up, fifo, Player, p, originHP, champion, losses>>

\* The last wait, after which the battle exits.
WaitLast(b) ==
  /\ pc[b] = "last"
  /\ Wait(b, "gone")
  /\ UNCHANGED <<roster, up, down, fifo, remain, Player, p, originHP, champion,
                 losses>>

-----------------------------------------------------------------------------
(* player.c                                                                *)

\* Seeded fault: the status is written before the loop's condition is read.
EnterDoWhile(c, s) ==
  /\ p' = [p EXCEPT ![c] = s]
  /\ up' = [up EXCEPT ![c] = Append(@, s)]
  /\ pc' = [pc EXCEPT ![c] = IF Alive(s) THEN "play" ELSE "gone"]

\* The loop's condition, and its first write.
Enter(c, s) ==
  /\ p' = [p EXCEPT ![c] = s]
  /\ IF Alive(s) THEN /\ up' = [up EXCEPT ![c] = Append(@, s)]
                      /\ pc' = [pc EXCEPT ![c] = "play"]
     ELSE /\ pc' = [pc EXCEPT ![c] = IF c \in RealPlayers /\ s.current_battle_id # Root
                                     THEN "lose" ELSE "gone"]
          /\ UNCHANGED up

\* A real player reads its line of player_status.txt; an agent opens its FIFO.
Start(c) ==
  /\ pc[c] = "start"
  /\ IF c \in RealPlayers
     THEN /\ Enter(c, [real_player_id |-> c, HP |-> roster[c].HP,
                       current_battle_id |-> Parent(c),
                       battle_ended_flag |-> FALSE])
          /\ originHP' = [originHP EXCEPT ![c] = roster[c].HP]
     ELSE /\ pc' = [pc EXCEPT ![c] = "open"]
          /\ UNCHANGED <<p, up, originHP>>
  /\ UNCHANGED <<roster, down, fifo, remain, Player, champion, losses>>

\* An agent reads the status of the player it stands for.
Embody(a) ==
  /\ pc[a] = "read" /\ fifo[a] # <<>>
  /\ fifo' = [fifo EXCEPT ![a] = Tail(@)]
  /\ Enter(a, Head(fifo[a]))
  /\ originHP' = [originHP EXCEPT ![a] = Head(fifo[a]).HP]
  /\ UNCHANGED <<roster, down, remain, Player, champion, losses>>

\* Seeded fault: The winner regains half of what it had, not of what it lost.
HealedByHalf(c, s) == [s EXCEPT !.HP = @ + originHP[c] \div 2,
                                !.battle_ended_flag = FALSE]

\* A winner regains half of what it has lost.
Healed(c, s) == [s EXCEPT !.HP = @ + (originHP[c] - @) \div 2,
                          !.battle_ended_flag = FALSE]

\* The loop: read the outcome of the round; the champion leaves.
Play(c) ==
  LET s == Head(down[c])
      won == s.battle_ended_flag /\ Alive(s) IN
  /\ pc[c] = "play" /\ down[c] # <<>>
  /\ down' = [down EXCEPT ![c] = Tail(@)]
  /\ IF won /\ s.current_battle_id = Root
     THEN /\ p' = [p EXCEPT ![c] = s]
          /\ pc' = [pc EXCEPT ![c] = "gone"]
          /\ UNCHANGED up
     ELSE Enter(c, IF won THEN Healed(c, s) ELSE s)
  /\ UNCHANGED <<roster, fifo, remain, Player, originHP, champion, losses>>

\* The status a beaten player hands on.
Restored(c) == [p[c] EXCEPT !.HP = originHP[c], !.battle_ended_flag = FALSE]

\* A beaten real player meets its agent at the FIFO, and exits.
HandOver(c) ==
  LET b == p[c].current_battle_id IN
  /\ pc[c] = "lose" /\ b \in DOMAIN lose /\ pc[lose[b]] = "open"
  /\ p' = [p EXCEPT ![c] = Restored(c)]
  /\ fifo' = [fifo EXCEPT ![lose[b]] = Append(@, Restored(c))]
  /\ pc' = [pc EXCEPT ![c] = "gone", ![lose[b]] = "read"]
  /\ UNCHANGED <<roster, up, down, remain, Player, originHP, champion, losses>>

-----------------------------------------------------------------------------
BattleStep(b) ==
  Fork(b) \/ Fight(b) \/ WaitLoser(b) \/ RelayUp(b) \/ RelayDown(b) \/ WaitLast(b)

PlayerStep(c) == Start(c) \/ Play(c) \/ (c \in Agents /\ Embody(c)) \/ HandOver(c)

Step(c) == IF c \in Battles THEN BattleStep(c) ELSE PlayerStep(c)

\* Only battle A has nobody to wait for it.
Finished == pc[Root] = "gone" /\ \A c \in Procs \ {Root} : pc[c] = "reaped"

Next ==
  \/ \E b \in Battles : BattleStep(b)
  \/ \E c \in Players : PlayerStep(c)

\* The system runs every process that is not blocked.
Fairness ==
  /\ \A b \in Battles : WF_vars(BattleStep(b))
  /\ \A c \in Players : WF_vars(PlayerStep(c))

Spec == Init /\ [][Next]_vars
FairSpec == Spec /\ Fairness

-----------------------------------------------------------------------------
Status == [real_player_id : RealPlayers, HP : Int,
           current_battle_id : Battles, battle_ended_flag : BOOLEAN]

\* The types; a battle that relays knows which side it relays for.
TypeOK ==
  /\ roster \in Rosters
  /\ \A b \in Battles : pc[b] \in
       {"unborn", "fork", "fight", "wait", "relayUp", "relayDown", "last"} \cup Exited
  /\ \A c \in Players : pc[c] \in
       {"unborn", "start", "open", "read", "play", "lose"} \cup Exited
  /\ \A c \in Procs : up[c] \in Seq(Status) /\ down[c] \in Seq(Status)
  /\ \A a \in Agents : fifo[a] \in Seq(Status)
  /\ remain \in [Battles -> {-1, 0, 1}]
  /\ \A b \in Battles : pc[b] \in {"wait", "relayUp", "relayDown"} => remain[b] # -1
  /\ \A b \in Battles : Player[b] \in Seq(Status \cup {NoStatus})
  /\ \A c \in Players : p[c] \in Status \cup {NoStatus}
  /\ originHP \in [Players -> Nat]
  /\ champion \in RealPlayers \cup {Nobody}
  /\ losses \in [RealPlayers -> Nat]

\* A process and its parent talk in turns: never two statuses under way between
\* them, in whichever direction, and none that a process leaves unread or sends
\* to nobody when it exits (battle.c:110-143, player.c:63-73).
Lockstep ==
  \A c \in Procs :
    Len(up[c]) + Len(down[c]) <= IF pc[c] \in Exited THEN 0 ELSE 1

\* The end of a pipe that a process waits at is never the end of file: who is to
\* write next is still there.  No read of battle.c or player.c looks at its
\* result, so a battle would go on with the previous status.
NeverEndOfFile ==
  /\ \A b \in Battles :
       /\ pc[b] = "fight" => \A c \in Children(b) :
                               up[c] = <<>> => pc[c] \notin Exited \cup {"lose"}
       /\ pc[b] = "relayUp" => LET c == Side(b, remain[b])
                               IN up[c] = <<>> => pc[c] \notin Exited \cup {"lose"}
  /\ \A c \in Procs \ {Root} :
       pc[c] \in {"play", "relayDown"} /\ down[c] = <<>> /\ up[c] = <<>>
         => pc[Parent(c)] \notin Exited \cup {"last"}

\* wait(NULL) names no child, and still the first one a battle reaps is the
\* loser: the side it relays for is not gone (battle.c:122, 128-143).
ReapsLoser ==
  \A b \in Battles : pc[b] \in {"relayUp", "relayDown"} =>
    /\ pc[Side(b, remain[b])] \notin Exited
    /\ pc[Side(b, 1 - remain[b])] = "reaped"

NoResult == [winner |-> Nobody, HP |-> 0, loser |-> Nobody]

\* The result of a battle: who stands after its last round.
Result(b) ==
  LET won == CHOOSE n \in 1 .. 2 : Alive(Player[b][n]) IN
  [winner |-> Player[b][won].real_player_id, HP |-> Player[b][won].HP,
   loser  |-> Player[b][3 - won].real_player_id]

B == INSTANCE Bracket WITH
       result <- [b \in Battles |-> IF Player[b][1].battle_ended_flag
                                     THEN Result(b)
                                     ELSE NoResult]

\* The processes, with their pipes, relays, FIFOs and waits, compute the
\* tournament of Bracket: each battle is fought once, between the sides the
\* tables give it, with the HP they have regained or come back with, and
\* ends as counting the blows says (battle.c:54-143, player.c:62-83).
ImplementsBracket == B!Spec

\* The tournament is a double elimination: when it is over the champion was
\* beaten at most once, and everyone else twice, or in the final
\* (lose[], player.c:15, 74-83).
DoubleElimination ==
  pc[Root] = "gone" =>
    LET finalists(standing) == {s.real_player_id : s \in
          {Player[Root][i] : i \in {n \in 1 .. 2 : Alive(Player[Root][n]) = standing}}}
    IN /\ finalists(TRUE) = {champion} /\ losses[champion] <= 1
       /\ \A c \in RealPlayers \ {champion} :
            losses[c] = 2 \/ (losses[c] = 1 /\ c \in finalists(FALSE))

\* Unless two players without ATK may meet, who would fight for ever, no process
\* is left behind, waiting for a pipe, a FIFO or a child for ever
\* (battle.c:110-144, player.c:52-83).
Finishes ==
  Cardinality({c \in RealPlayers : roster[c].ATK = 0}) <= 1 => <>Finished
=============================================================================
