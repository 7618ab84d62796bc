------------------------- MODULE ChampionshipProofs -------------------------
(***************************************************************************)
(* Proofs about Championship, for every bracket that is a tree, every      *)
(* table of losers and all players.                                        *)
(***************************************************************************)
EXTENDS Championship, TLAPS, SequenceTheorems

-----------------------------------------------------------------------------
(* The inductive invariant.                                                *)

BattleStates == {"unborn", "fork", "fight", "wait", "relayUp", "relayDown", "last"} \cup Exited
PlayerStates == {"unborn", "start", "open", "read", "play", "lose"} \cup Exited

Types ==
  /\ roster \in Rosters
  /\ pc \in [Procs -> BattleStates \cup PlayerStates]
  /\ \A b \in Battles : pc[b] \in BattleStates
  /\ \A c \in Players : pc[c] \in PlayerStates
  /\ up \in [Procs -> Seq(Status)] /\ down \in [Procs -> Seq(Status)]
  /\ fifo \in [Agents -> Seq(Status)]
  /\ remain \in [Battles -> {-1, 0, 1}]
  /\ \A b \in Battles : pc[b] \in {"wait", "relayUp", "relayDown"} => remain[b] # -1
  /\ Player \in [Battles -> Seq(Status \cup {NoStatus})]
  /\ \A b \in Battles : Len(Player[b]) = 2
  /\ p \in [Players -> Status \cup {NoStatus}]
  /\ originHP \in [Players -> Nat]
  /\ champion \in RealPlayers \cup {Nobody}
  /\ losses \in [RealPlayers -> Nat]

\* A process is forked by its parent, and the root is nobody's child.
Born ==
  /\ pc[Root] \in {"fork", "fight", "wait", "last", "gone"}
  /\ \A b \in Battles : \A c \in Children(b) :
       pc[c] = "unborn" <=> pc[b] \in {"unborn", "fork"}

\* The side that a battle relays for, and the other one.
Remains(b) == Side(b, remain[b])
Beaten(b)  == Side(b, 1 - remain[b])

\* A process waits for an answer of its parent: it is in one of the pipes
\* between them, or the parent has passed the question on.
Awaits(c)   == pc[c] \in {"play", "relayDown"}
PassedUp(c) == \E b \in Battles : pc[b] = "relayDown" /\ Remains(b) = c
Turns ==
  \A c \in Procs :
    Len(up[c]) + Len(down[c]) = IF Awaits(c) /\ ~PassedUp(c) THEN 1 ELSE 0

\* A status in the middle of a battle; what goes up is such a status.
Playing(s) == Alive(s) /\ ~s.battle_ended_flag
Asked == \A c \in Procs : up[c] # <<>> => Playing(Head(up[c]))

\* What is settled about a process: it goes on in this round, it stays in the
\* tournament, or it leaves.
Done == {"lose", "last"} \cup Exited
Fights(c) == pc[c] \notin Done /\ (down[c] # <<>> => Playing(Head(down[c])))
Stays(c)  == pc[c] \notin Done /\ (down[c] # <<>> => ~Over(Head(down[c])))
Leaves(c) == pc[c] \in Done \/ (down[c] # <<>> /\ Over(Head(down[c])))

Fate(b) ==
  /\ pc[b] = "fight" => \A c \in Children(b) : Fights(c)
  /\ pc[b] \in {"relayUp", "relayDown"} =>
       b # Root /\ Stays(Remains(b)) /\ pc[Beaten(b)] = "reaped"
  /\ pc[b] = "wait" /\ b # Root => Stays(Remains(b)) /\ Leaves(Beaten(b))
  /\ pc[b] = "relayDown" => Awaits(Remains(b))
  /\ (pc[b] = "wait" /\ b = Root) \/ pc[b] = "last" => \A c \in Children(b) : Leaves(c)
  /\ pc[b] = "last" => \E c \in Children(b) : pc[c] = "reaped"
  /\ pc[b] \in Exited => \A c \in Children(b) : pc[c] = "reaped"

Fates == \A b \in Battles : Fate(b)

\* A player in the tournament, and what a beaten one hands over, has HP.
Fresh ==
  /\ \A c \in Players : pc[c] \in {"play", "lose"} => originHP[c] > 0
  /\ \A c \in Players : pc[c] = "lose" =>
       c \in RealPlayers /\ p[c] \in Status /\ p[c].current_battle_id # Root
  /\ \A a \in Agents : IF pc[a] = "read" THEN Len(fifo[a]) = 1 /\ Playing(Head(fifo[a]))
                                         ELSE fifo[a] = <<>>

IInv == Types /\ Born /\ Turns /\ Asked /\ Fates /\ Fresh

-----------------------------------------------------------------------------
(* The tree of processes.                                                  *)

LEMMA Tree ==
  /\ \A b \in Battles : /\ b \in Procs /\ b \notin Players
                        /\ left[b] \in Children(b) /\ right[b] \in Children(b) /\ left[b] # right[b]
                        /\ Children(b) = {left[b], right[b]}
                        /\ Children(b) \subseteq Procs /\ Root \notin Children(b) /\ b \notin Children(b)
                        /\ Remains(b) \in Children(b) /\ Beaten(b) \in Children(b)
  /\ \A b, d \in Battles : \A c \in Children(b) : c \in Children(d) => b = d
  /\ \A c \in Procs : c \in Battles \/ c \in Players
  /\ Root \in Battles /\ RealPlayers \subseteq Players /\ Agents \subseteq Players
  /\ \A c \in Procs \ {Root} : Parent(c) \in Battles /\ c \in Children(Parent(c))
<1>0. ASSUME NEW b \in Battles
      PROVE  /\ Children(b) \subseteq Procs /\ Root \notin Children(b) /\ b \notin Children(b)
             /\ b \in Procs /\ b \notin Players
  <2>1. {Root, b} \cap Children(b) = {}
    BY BracketAssumption
  <2>2. Children(b) \subseteq Procs
    <3>1. left[b] \in Procs /\ right[b] \in Procs
      BY BracketAssumption
    <3> QED
      BY <3>1 DEF Children
  <2> QED
    BY <2>1, <2>2, BracketAssumption DEF Procs
<1>1. \A b, d \in Battles : \A c \in Children(b) : c \in Children(d) => b = d
  <2> SUFFICES ASSUME NEW b \in Battles, NEW d \in Battles, NEW c \in Children(b), c \in Children(d)
               PROVE  b = d
    OBVIOUS
  <2>1. c \in Procs \ {Root}
    BY <1>0 DEF Procs
  <2>2. PICK e \in Battles : {f \in Battles : c \in Children(f)} = {e}
    BY <2>1, BracketAssumption
  <2> QED
    BY <2>2
<1>2. ASSUME NEW c \in Procs \ {Root} PROVE Parent(c) \in Battles /\ c \in Children(Parent(c))
  <2>1. PICK b \in Battles : {d \in Battles : c \in Children(d)} = {b}
    BY BracketAssumption
  <2>2. c \in Children(b)
    BY <2>1
  <2> QED
    BY <2>2 DEF Parent
<1>3. ASSUME NEW b \in Battles
      PROVE  /\ b \in Procs /\ b \notin Players
             /\ left[b] \in Children(b) /\ right[b] \in Children(b) /\ left[b] # right[b]
             /\ Children(b) = {left[b], right[b]}
             /\ Children(b) \subseteq Procs /\ Root \notin Children(b) /\ b \notin Children(b)
             /\ Remains(b) \in Children(b) /\ Beaten(b) \in Children(b)
  BY <1>0, BracketAssumption DEF Children, Remains, Beaten, Side
<1>4. Root \in Battles /\ RealPlayers \subseteq Players /\ Agents \subseteq Players
  BY BracketAssumption DEF Agents
<1> QED
  BY <1>1, <1>2, <1>3, <1>4 DEF Procs

LEMMA Sides ==
  ASSUME Types, NEW b \in Battles, remain[b] # -1
  PROVE  Children(b) = {Remains(b), Beaten(b)} /\ Remains(b) # Beaten(b)
<1>1. remain[b] = 0 \/ remain[b] = 1
  BY DEF Types
<1> QED
  BY <1>1, Tree DEF Remains, Beaten, Side

-----------------------------------------------------------------------------
(* A round of a battle.                                                    *)

LEMMA TwoStatuses ==
  \A f \in [1 .. 2 -> Status] : f \in Seq(Status) /\ Len(f) = 2
<1>1. \A S : \A n \in Nat : \A f \in [1 .. n -> S] : f \in Seq(S) /\ Len(f) = n
  OBVIOUS
<1>2. 2 \in Nat
  OBVIOUS
<1> QED
  BY <1>1, <1>2

LEMMA OneStrike ==
  ASSUME NEW b \in Battles, NEW a \in Status, NEW d \in Status, roster \in Rosters
  PROVE  /\ Struck(b, a, d) \in Status
         /\ Struck(b, a, d).battle_ended_flag = d.battle_ended_flag
<1>1. roster[a.real_player_id].ATK \in Nat
  BY BracketAssumption DEF Status
<1> DEFINE n == roster[a.real_player_id].ATK
           f == IF roster[a.real_player_id].attr = ATTR[b] THEN 2 ELSE 1
<1>2. Struck(b, a, d) = [d EXCEPT !.HP = d.HP - n * f]
  BY DEF Struck
<1>3. d.HP - n * f \in Int
  <2>1. f \in Int /\ n \in Int
    BY <1>1
  <2> HIDE DEF n, f
  <2>2. n * f \in Int
    BY <2>1
  <2> QED
    BY <2>2 DEF Status
<1> HIDE DEF n, f
<1> QED
  BY <1>2, <1>3 DEF Status

\* Of two players who can fight, one strikes, and the other strikes back if it
\* stands: at most one of them falls.
LEMMA OneExchange ==
  ASSUME NEW b \in Battles, NEW a \in Status, NEW d \in Status, roster \in Rosters,
         Playing(a), Playing(d)
  PROVE  LET r == Exchange(b, a, d)
         IN /\ r[1] \in Status /\ r[2] \in Status
            /\ ~r[1].battle_ended_flag /\ ~r[2].battle_ended_flag
            /\ Alive(r[1]) \/ Alive(r[2])
<1> DEFINE z == Struck(b, a, d)
           w == Struck(b, z, a)
<1>1. z \in Status /\ z.battle_ended_flag = d.battle_ended_flag
  BY OneStrike
<1>2. w \in Status /\ w.battle_ended_flag = a.battle_ended_flag
  BY <1>1, OneStrike
<1>3. Exchange(b, a, d) = <<IF Alive(z) THEN w ELSE a, z>>
  BY DEF Exchange
<1> HIDE DEF z, w
<1> QED
  BY <1>1, <1>2, <1>3 DEF Playing

LEMMA OneRound ==
  ASSUME NEW b \in Battles, NEW x \in Status, NEW y \in Status, roster \in Rosters,
         Playing(x), Playing(y)
  PROVE  LET after == fight(b, x, y)
         IN /\ after \in Seq(Status) /\ Len(after) = 2
            /\ \A n \in 1 .. 2 : after[n] \in Status /\ after[n].current_battle_id = b
            /\ after[1].battle_ended_flag = after[2].battle_ended_flag
            /\ ~after[1].battle_ended_flag => Playing(after[1]) /\ Playing(after[2])
            /\ after[1].battle_ended_flag => (Alive(after[1]) <=> ~Alive(after[2]))
<1> DEFINE s == Exchange(b, y, x)
           r == IF StrikesFirst(x, y) THEN Exchange(b, x, y) ELSE <<s[2], s[1]>>
           ended == ~ (Alive(r[1]) /\ Alive(r[2]))
           after == fight(b, x, y)
<1>1. /\ r[1] \in Status /\ r[2] \in Status
      /\ ~r[1].battle_ended_flag /\ ~r[2].battle_ended_flag
      /\ Alive(r[1]) \/ Alive(r[2])
  <2>1. CASE StrikesFirst(x, y)
    BY <2>1, OneExchange
  <2>2. CASE ~StrikesFirst(x, y)
    <3>1. /\ s[1] \in Status /\ s[2] \in Status
          /\ ~s[1].battle_ended_flag /\ ~s[2].battle_ended_flag
          /\ Alive(s[1]) \/ Alive(s[2])
      BY OneExchange
    <3> HIDE DEF s
    <3> QED
      BY <2>2, <3>1
  <2> QED
    BY <2>1, <2>2
<1>2. after = [i \in 1 .. 2 |-> [r[i] EXCEPT !.current_battle_id = b,
                                             !.battle_ended_flag = r[i].battle_ended_flag \/ ended]]
  BY DEF fight
<1> HIDE DEF r, after
<1>3. ended \in BOOLEAN
  OBVIOUS
<1>4. ASSUME NEW n \in 1 .. 2
      PROVE  /\ after[n] \in Status /\ after[n].current_battle_id = b
             /\ after[n].HP = r[n].HP
             /\ after[n].battle_ended_flag = (r[n].battle_ended_flag \/ ended)
  <2>1. r[n] \in Status /\ r[n].battle_ended_flag \in BOOLEAN
    BY <1>1 DEF Status
  <2> DEFINE e == r[n].battle_ended_flag \/ ended
  <2>2. e \in BOOLEAN
    OBVIOUS
  <2>3. after[n] = [r[n] EXCEPT !.current_battle_id = b, !.battle_ended_flag = e]
    BY <1>2
  <2> HIDE DEF e, ended
  <2>4. /\ after[n] \in Status /\ after[n].current_battle_id = b
        /\ after[n].HP = r[n].HP /\ after[n].battle_ended_flag = e
    BY <2>1, <2>2, <2>3 DEF Status
  <2> QED
    BY <2>4 DEF e
<1>5. after[1].battle_ended_flag = ended /\ after[2].battle_ended_flag = ended
  <2> HIDE DEF ended
  <2>1. 1 \in 1 .. 2 /\ 2 \in 1 .. 2
    OBVIOUS
  <2>2. (r[1].battle_ended_flag \/ ended) = ended /\ (r[2].battle_ended_flag \/ ended) = ended
    BY <1>1, <1>3
  <2> QED
    BY <2>1, <2>2, <1>4
<1>6. /\ Alive(after[1]) <=> Alive(r[1])
      /\ Alive(after[2]) <=> Alive(r[2])
  BY <1>4 DEF Alive
<1>7. after \in Seq(Status) /\ Len(after) = 2
  <2>1. after \in [1 .. 2 -> Status]
    BY <1>2, <1>4
  <2> HIDE DEF ended
  <2> QED
    BY <2>1, TwoStatuses
<1>8. ended <=> ~ (Alive(after[1]) /\ Alive(after[2]))
  BY <1>6
<1> HIDE DEF ended
<1> QED
  BY <1>1, <1>4, <1>5, <1>6, <1>7, <1>8 DEF Playing, after

-----------------------------------------------------------------------------
(* What a process does to itself leaves its fate as it is settled.         *)

Stable(c) ==
  /\ Fights(c) => Fights(c)'
  /\ Stays(c) => Stays(c)'
  /\ Leaves(c) => Leaves(c)'
  /\ pc[c] = "reaped" => pc'[c] = "reaped"
  /\ Awaits(c) /\ PassedUp(c) => Awaits(c)'

LEMMA KeepsFate ==
  ASSUME NEW b \in Battles, Fate(b), pc'[b] = pc[b], remain'[b] = remain[b],
         \A c \in Children(b) : Stable(c)
  PROVE  Fate(b)'
<1>1. Remains(b)' = Remains(b) /\ Beaten(b)' = Beaten(b)
  BY DEF Remains, Beaten
<1>2. Remains(b) \in Children(b) /\ Beaten(b) \in Children(b)
  BY Tree
<1>3. PICK r \in Children(b) : r = Remains(b)
  BY <1>2
<1>4. PICK e \in Children(b) : e = Beaten(b)
  BY <1>2
<1>5. Stays(r) => Stays(r)'
  BY DEF Stable
<1>6. (Leaves(e) => Leaves(e)') /\ (pc[e] = "reaped" => pc'[e] = "reaped")
  BY DEF Stable
<1>7. pc[b] = "relayDown" /\ Awaits(r) => Awaits(r)'
  BY <1>3 DEF Stable, PassedUp
<1>8. Stays(Remains(b))' <=> Stays(r)'
  BY <1>1, <1>3 DEF Stays
<1>9. (Leaves(Beaten(b))' <=> Leaves(e)') /\ pc'[Beaten(b)'] = pc'[e]
  BY <1>1, <1>4 DEF Leaves
<1>10. Awaits(Remains(b))' <=> Awaits(r)'
  BY <1>1, <1>3 DEF Awaits
<1>11. /\ pc'[b] = "fight" => \A c \in Children(b) : Fights(c)'
       /\ (pc'[b] = "wait" /\ b = Root) \/ pc'[b] = "last" => \A c \in Children(b) : Leaves(c)'
       /\ pc'[b] = "last" => \E c \in Children(b) : pc'[c] = "reaped"
       /\ pc'[b] \in Exited => \A c \in Children(b) : pc'[c] = "reaped"
  BY DEF Fate, Stable
<1>12. /\ pc'[b] \in {"relayUp", "relayDown"} => b # Root /\ Stays(r)' /\ pc'[e] = "reaped"
       /\ pc'[b] = "wait" /\ b # Root => Stays(r)' /\ Leaves(e)'
       /\ pc'[b] = "relayDown" => Awaits(r)'
  BY <1>3, <1>4, <1>5, <1>6, <1>7 DEF Fate
<1> QED
  BY <1>8, <1>9, <1>10, <1>11, <1>12 DEF Fate

\* A process that a step does not touch.
LEMMA Untouched ==
  ASSUME NEW c, pc'[c] = pc[c] \/ (pc[c] = "open" /\ pc'[c] = "read"), down'[c] = down[c]
  PROVE  Stable(c)
  BY DEF Stable, Fights, Stays, Leaves, Awaits, Done, Exited

LEMMA OnlyOne ==
  ASSUME NEW S, NEW q \in Seq(S), Len(q) = 1
  PROVE  q # <<>> /\ Head(q) \in S /\ Tail(q) = <<>>
<1>1. q # <<>>
  OBVIOUS
<1>2. Head(q) \in S /\ Tail(q) \in Seq(S) /\ Len(Tail(q)) = 1 - 1
  BY <1>1, HeadTailProperties
<1>3. \A r \in Seq(S) : Len(r) = 0 => r = <<>>
  OBVIOUS
<1>4. 1 - 1 = 0
  OBVIOUS
<1> QED
  BY <1>1, <1>2, <1>3, <1>4

\* What is under way between a process and its parent, counted.
LEMMA Counts ==
  /\ \A u, d : u = <<>> /\ d = <<>> => Len(u) + Len(d) = 0
  /\ \A u, d, s : (u = <<s>> /\ d = <<>>) \/ (u = <<>> /\ d = <<s>>) => Len(u) + Len(d) = 1
<1>1. Len(<<>>) = 0 /\ \A s : Len(<<s>>) = 1
  OBVIOUS
<1> QED
  BY <1>1

\* Nobody asks before it has been answered.
LEMMA Quiet ==
  ASSUME IInv, NEW c \in Procs
  PROVE  /\ up[c] \in Seq(Status) /\ down[c] \in Seq(Status)
         /\ ~Awaits(c) => up[c] = <<>> /\ down[c] = <<>> /\ ~PassedUp(c)
         /\ PassedUp(c) => up[c] = <<>> /\ down[c] = <<>>
         /\ down[c] # <<>> => up[c] = <<>> /\ Len(down[c]) = 1 /\ Awaits(c)
         /\ up[c] # <<>> => down[c] = <<>> /\ Len(up[c]) = 1 /\ Awaits(c)
         /\ Awaits(c) /\ up[c] = <<>> /\ down[c] = <<>> => PassedUp(c)
<1>1. up[c] \in Seq(Status) /\ down[c] \in Seq(Status)
  BY DEF IInv, Types
<1>2. /\ Len(up[c]) \in Nat /\ (up[c] = <<>> <=> Len(up[c]) = 0)
      /\ Len(down[c]) \in Nat /\ (down[c] = <<>> <=> Len(down[c]) = 0)
  BY <1>1
<1>3. Len(up[c]) + Len(down[c]) = IF Awaits(c) /\ ~PassedUp(c) THEN 1 ELSE 0
  BY DEF IInv, Turns
<1>4. PassedUp(c) => Awaits(c)
  BY DEF IInv, Fates, Fate, PassedUp
<1> DEFINE u == up[c]
           d == down[c]
           m == Len(u)
           n == Len(d)
<1> HIDE DEF m, n, u, d
<1>5. CASE Awaits(c) /\ ~PassedUp(c)
  <2>1. m + n = 1
    BY <1>3, <1>5 DEF m, n, u, d
  <2>2. m \in Nat /\ n \in Nat /\ ((m = 0 /\ n = 1) \/ (m = 1 /\ n = 0))
    <3>1. m \in Nat /\ n \in Nat
      BY <1>2 DEF m, n, u, d
    <3> QED
      BY <2>1, <3>1
  <2>3. (u = <<>> <=> m = 0) /\ (d = <<>> <=> n = 0)
    BY <1>2 DEF m, n, u, d
  <2>4. /\ u # <<>> => d = <<>> /\ m = 1
        /\ d # <<>> => u = <<>> /\ n = 1
        /\ u # <<>> \/ d # <<>>
    BY <2>2, <2>3
  <2> QED
    BY <1>1, <1>5, <2>4 DEF u, d, m, n
<1>6. CASE ~(Awaits(c) /\ ~PassedUp(c))
  <2>1. m + n = 0
    BY <1>3, <1>6 DEF m, n, u, d
  <2>2. up[c] = <<>> /\ down[c] = <<>>
    <3>1. m \in Nat /\ n \in Nat
      BY <1>2 DEF m, n, u, d
    <3>2. m = 0 /\ n = 0
      BY <2>1, <3>1
    <3> QED
      BY <1>2, <3>2 DEF m, n, u, d
  <2> QED
    BY <1>1, <1>4, <1>6, <2>2
<1> QED
  BY <1>5, <1>6

\* A step of a player: it may let an agent go on to read its FIFO.
LEMMA PlayerActs ==
  ASSUME IInv, NEW c \in Players,
         \A d \in Procs \ {c} : /\ pc'[d] = pc[d] \/ (pc[d] = "open" /\ pc'[d] = "read")
                                /\ up'[d] = up[d] /\ down'[d] = down[d],
         remain' = remain, pc[c] # "unborn", pc'[c] # "unborn", Stable(c),
         Len(up'[c]) + Len(down'[c]) = IF Awaits(c)' /\ ~PassedUp(c) THEN 1 ELSE 0,
         up'[c] # <<>> => Playing(Head(up'[c]))
  PROVE  Born' /\ Turns' /\ Asked' /\ Fates'
<1>0. \A b \in Battles : b \in Procs /\ b # c /\ Children(b) \subseteq Procs
  BY Tree
<1>1. \A b \in Battles : pc'[b] = pc[b]
  <2>1. \A b \in Battles : pc[b] # "open"
    BY DEF IInv, Types, BattleStates, Exited
  <2> QED
    BY <1>0, <2>1
<1>2. \A d \in Procs : Stable(d)
  BY Untouched
<1>3. Born'
  <2>1. \A d \in Procs : pc[d] = "unborn" <=> pc'[d] = "unborn"
    OBVIOUS
  <2>2. Root \in Battles
    BY Tree
  <2> QED
    BY <1>0, <1>1, <2>1, <2>2 DEF IInv, Born
<1>4. \A d : PassedUp(d)' <=> PassedUp(d)
  BY <1>1 DEF PassedUp, Remains
<1>5. Turns'
  <2> SUFFICES ASSUME NEW d \in Procs
               PROVE  Len(up'[d]) + Len(down'[d]) = IF Awaits(d)' /\ ~PassedUp(d) THEN 1 ELSE 0
    BY <1>4 DEF Turns
  <2>1. CASE d # c
    <3>1. Awaits(d)' <=> Awaits(d)
      BY <2>1 DEF Awaits
    <3> QED
      BY <2>1, <3>1 DEF IInv, Turns
  <2> QED
    BY <2>1
<1>6. Asked'
  BY DEF IInv, Asked
<1>7. Fates'
  BY <1>0, <1>1, <1>2, KeepsFate DEF IInv, Fates
<1> QED
  BY <1>3, <1>5, <1>6, <1>7

-----------------------------------------------------------------------------
(* The steps of players.                                                   *)

\* The first status of a player that has HP.
LEMMA Begins ==
  ASSUME IInv, NEW c \in Players, pc[c] \in {"start", "read"},
         NEW s \in Status, Playing(s), Enter(c, s), UNCHANGED <<down, remain>>
  PROVE  /\ Born' /\ Turns' /\ Asked' /\ Fates'
         /\ pc' = [pc EXCEPT ![c] = "play"] /\ p' = [p EXCEPT ![c] = s]
         /\ up' \in [Procs -> Seq(Status)]
<1>0. c \in Procs /\ pc \in [Procs -> BattleStates \cup PlayerStates] /\ up \in [Procs -> Seq(Status)]
  BY DEF IInv, Types, Procs
<1>1. /\ pc' = [pc EXCEPT ![c] = "play"] /\ p' = [p EXCEPT ![c] = s]
      /\ up' = [up EXCEPT ![c] = Append(up[c], s)]
  BY DEF Enter, Playing
<1>2. up[c] = <<>> /\ down[c] = <<>> /\ ~PassedUp(c)
  BY <1>0, Quiet DEF Awaits
<1>3. /\ pc'[c] = "play" /\ up'[c] = <<s>> /\ down'[c] = <<>>
      /\ \A d \in Procs \ {c} : pc'[d] = pc[d] /\ up'[d] = up[d] /\ down'[d] = down[d]
  <2>1. Append(<<>>, s) = <<s>>
    OBVIOUS
  <2> QED
    BY <1>0, <1>1, <1>2, <2>1
<1>4. Len(<<s>>) = 1 /\ Head(<<s>>) = s /\ Len(<<>>) = 0
  OBVIOUS
<1>5. Stable(c)
  BY <1>2, <1>3 DEF Stable, Fights, Stays, Leaves, Awaits, Done, Exited
<1>6. Len(up'[c]) + Len(down'[c]) = IF Awaits(c)' /\ ~PassedUp(c) THEN 1 ELSE 0
  BY <1>2, <1>3, <1>4 DEF Awaits
<1>7. up'[c] # <<>> => Playing(Head(up'[c]))
  BY <1>3, <1>4
<1>8. Born' /\ Turns' /\ Asked' /\ Fates'
  <2>1. pc[c] # "unborn" /\ pc'[c] # "unborn"
    BY <1>3
  <2> HIDE DEF Playing
  <2> QED
    BY <1>3, <1>5, <1>6, <1>7, <2>1, PlayerActs
<1>9. up' \in [Procs -> Seq(Status)]
  <2>1. Append(up[c], s) \in Seq(Status)
    BY <1>0
  <2> QED
    BY <1>0, <1>1, <2>1
<1> QED
  BY <1>1, <1>8, <1>9

LEMMA StartIInv == ASSUME IInv, NEW c \in Players, Start(c) PROVE IInv'
<1>0. /\ c \in Procs /\ c # Root /\ pc[c] = "start"
      /\ roster \in Rosters /\ pc \in [Procs -> BattleStates \cup PlayerStates]
      /\ p \in [Players -> Status \cup {NoStatus}] /\ originHP \in [Players -> Nat]
  <2>1. c \in Procs /\ c # Root
    BY Tree DEF Procs
  <2> QED
    BY <2>1 DEF Start, IInv, Types
<1>1. UNCHANGED <<roster, down, fifo, remain, Player, champion, losses>>
  BY DEF Start
<1>a. \A a \in Agents : pc[a] # "read" => fifo[a] = <<>>
  BY DEF IInv, Fresh
<1>2. CASE c \in RealPlayers
  <2> DEFINE s == [real_player_id |-> c, HP |-> roster[c].HP,
                   current_battle_id |-> Parent(c), battle_ended_flag |-> FALSE]
  <2>1. Enter(c, s) /\ originHP' = [originHP EXCEPT ![c] = roster[c].HP]
    BY <1>2 DEF Start
  <2>2. roster[c].HP \in Nat /\ roster[c].HP > 0
    BY <1>0, <1>2, BracketAssumption
  <2>3. Parent(c) \in Battles
    BY <1>0, Tree
  <2>4. s \in Status /\ Playing(s)
    BY <1>2, <2>2, <2>3 DEF Status, Playing, Alive
  <2> HIDE DEF s
  <2>5. /\ Born' /\ Turns' /\ Asked' /\ Fates'
        /\ pc' = [pc EXCEPT ![c] = "play"] /\ p' = [p EXCEPT ![c] = s]
        /\ up' \in [Procs -> Seq(Status)]
    BY <1>0, <1>1, <2>1, <2>4, Begins
  <2>6. /\ originHP' \in [Players -> Nat] /\ p' \in [Players -> Status \cup {NoStatus}]
        /\ pc' \in [Procs -> BattleStates \cup PlayerStates]
        /\ \A b \in Battles : pc'[b] = pc[b]
        /\ \A d \in Players : pc'[d] \in PlayerStates
        /\ \A d \in Players \ {c} : pc'[d] = pc[d] /\ p'[d] = p[d] /\ originHP'[d] = originHP[d]
        /\ pc'[c] = "play" /\ originHP'[c] = roster[c].HP
    <3>1. \A b \in Battles : b # c /\ b \in Procs
      BY Tree
    <3>2. Players \subseteq Procs /\ "play" \in PlayerStates
      BY DEF Procs, PlayerStates
    <3>3. \A d \in Players : pc[d] \in PlayerStates
      BY DEF IInv, Types
    <3>4. originHP' \in [Players -> Nat] /\ p' \in [Players -> Status \cup {NoStatus}]
      BY <1>0, <2>1, <2>2, <2>4, <2>5
    <3>5. pc' \in [Procs -> BattleStates \cup PlayerStates]
      BY <1>0, <2>5, <3>2
    <3>6. \A d \in Procs \ {c} : pc'[d] = pc[d]
      BY <1>0, <2>5
    <3>7. pc'[c] = "play" /\ originHP'[c] = roster[c].HP
      BY <1>0, <2>1, <2>5
    <3>8. \A d \in Players \ {c} : p'[d] = p[d] /\ originHP'[d] = originHP[d]
      BY <1>0, <2>1, <2>5
    <3> QED
      BY <3>1, <3>2, <3>3, <3>4, <3>5, <3>6, <3>7, <3>8
  <2>7. Types'
    BY <1>1, <2>5, <2>6 DEF IInv, Types
  <2>8. Fresh'
    <3>1. Agents \subseteq Players /\ c \notin Agents
      BY <1>2, Tree DEF Agents
    <3>2. /\ \A d \in Players : pc'[d] \in {"play", "lose"} => originHP'[d] > 0
          /\ \A d \in Players : pc'[d] = "lose" =>
               d \in RealPlayers /\ p'[d] \in Status /\ p'[d].current_battle_id # Root
      BY <2>2, <2>6 DEF IInv, Fresh
    <3>3. \A a \in Agents : pc'[a] = pc[a] /\ fifo'[a] = fifo[a]
      BY <1>1, <2>6, <3>1
    <3> QED
      BY <3>2, <3>3 DEF IInv, Fresh
  <2> QED
    BY <2>5, <2>7, <2>8 DEF IInv
<1>3. CASE c \notin RealPlayers
  <2>1. pc' = [pc EXCEPT ![c] = "open"] /\ UNCHANGED <<p, up, originHP>>
    BY <1>3 DEF Start
  <2>2. pc'[c] = "open" /\ \A d \in Procs \ {c} : pc'[d] = pc[d]
    BY <1>0, <2>1
  <2>3. up[c] = <<>> /\ down[c] = <<>>
    BY <1>0, Quiet DEF Awaits
  <2>4. Stable(c)
    BY <1>0, <1>1, <2>2, <2>3 DEF Stable, Fights, Stays, Leaves, Awaits, Done, Exited
  <2>5. Len(up'[c]) + Len(down'[c]) = IF Awaits(c)' /\ ~PassedUp(c) THEN 1 ELSE 0
    <3>1. Len(<<>>) = 0
      OBVIOUS
    <3> QED
      BY <1>1, <2>1, <2>2, <2>3, <3>1 DEF Awaits
  <2>6. Born' /\ Turns' /\ Asked' /\ Fates'
    BY <1>0, <1>1, <2>1, <2>2, <2>3, <2>4, <2>5, PlayerActs
  <2>7. Types'
    <3>1. \A b \in Battles : b # c /\ b \in Procs
      BY Tree
    <3>2. Players \subseteq Procs /\ "open" \in PlayerStates
      BY DEF Procs, PlayerStates
    <3>3. \A d \in Players : pc[d] \in PlayerStates
      BY DEF IInv, Types
    <3>4. /\ pc' \in [Procs -> BattleStates \cup PlayerStates]
          /\ \A b \in Battles : pc'[b] = pc[b]
          /\ \A d \in Players : pc'[d] \in PlayerStates
      BY <1>0, <2>1, <2>2, <3>1, <3>2, <3>3
    <3> QED
      BY <1>1, <2>1, <3>4 DEF IInv, Types
  <2>8. Fresh'
    <3>1. \A d \in Players : pc'[d] = pc[d] \/ (pc'[d] = "open" /\ pc[d] = "start")
      BY <1>0, <2>2 DEF Procs
    <3>2. Agents \subseteq Players
      BY Tree
    <3> QED
      BY <1>1, <2>1, <3>1, <3>2 DEF IInv, Fresh
  <2> QED
    BY <2>6, <2>7, <2>8 DEF IInv
<1> QED
  BY <1>2, <1>3

LEMMA EmbodyIInv == ASSUME IInv, NEW c \in Agents, Embody(c) PROVE IInv'
<1>0. /\ c \in Players /\ c \in Procs /\ c \notin RealPlayers /\ pc[c] = "read"
      /\ pc \in [Procs -> BattleStates \cup PlayerStates]
      /\ p \in [Players -> Status \cup {NoStatus}] /\ originHP \in [Players -> Nat]
      /\ fifo \in [Agents -> Seq(Status)]
  <2>1. c \in Players /\ c \in Procs /\ c \notin RealPlayers
    BY Tree DEF Procs, Agents
  <2> QED
    BY <2>1 DEF Embody, IInv, Types
<1> DEFINE s == Head(fifo[c])
<1>1. /\ UNCHANGED <<roster, down, remain, Player, champion, losses>>
      /\ Enter(c, s) /\ originHP' = [originHP EXCEPT ![c] = s.HP]
      /\ fifo' = [fifo EXCEPT ![c] = Tail(fifo[c])]
  BY DEF Embody
<1>2. Len(fifo[c]) = 1 /\ Playing(s)
  BY <1>0 DEF IInv, Fresh
<1>3. fifo[c] \in Seq(Status)
  BY <1>0
<1>4. s \in Status /\ Tail(fifo[c]) = <<>>
  BY <1>2, <1>3, OnlyOne
<1>5. s.HP \in Nat /\ s.HP > 0
  BY <1>2, <1>4 DEF Status, Playing, Alive
<1> HIDE DEF s
<1>6. /\ Born' /\ Turns' /\ Asked' /\ Fates'
      /\ pc' = [pc EXCEPT ![c] = "play"] /\ p' = [p EXCEPT ![c] = s]
      /\ up' \in [Procs -> Seq(Status)]
  BY <1>0, <1>1, <1>2, <1>4, Begins
<1>7. /\ \A d \in Procs \ {c} : pc'[d] = pc[d]
      /\ \A d \in Players \ {c} : pc'[d] = pc[d] /\ p'[d] = p[d] /\ originHP'[d] = originHP[d]
      /\ pc'[c] = "play" /\ originHP'[c] = s.HP
  BY <1>0, <1>1, <1>6 DEF Procs
<1>8. fifo'[c] = <<>> /\ \A a \in Agents \ {c} : fifo'[a] = fifo[a]
  BY <1>0, <1>1, <1>4
<1>9. Types'
  <2>1. \A b \in Battles : b # c /\ b \in Procs
    BY <1>0, Tree
  <2>2. "play" \in PlayerStates
    BY DEF PlayerStates
  <2>3. \A d \in Players : pc[d] \in PlayerStates
    BY DEF IInv, Types
  <2>4. /\ pc' \in [Procs -> BattleStates \cup PlayerStates]
        /\ \A b \in Battles : pc'[b] = pc[b]
        /\ \A d \in Players : pc'[d] \in PlayerStates
    BY <1>0, <1>6, <1>7, <2>1, <2>2, <2>3
  <2>5. originHP' \in [Players -> Nat] /\ p' \in [Players -> Status \cup {NoStatus}]
    BY <1>0, <1>1, <1>4, <1>5, <1>6
  <2>6. fifo' \in [Agents -> Seq(Status)]
    <3>1. Tail(fifo[c]) \in Seq(Status)
      <4>1. <<>> \in Seq(Status)
        OBVIOUS
      <4> QED
        BY <1>4, <4>1
    <3> QED
      BY <1>0, <1>1, <3>1
  <2> QED
    BY <1>1, <1>6, <2>4, <2>5, <2>6 DEF IInv, Types
<1>10. Fresh'
  <2>1. /\ \A d \in Players : pc'[d] \in {"play", "lose"} => originHP'[d] > 0
        /\ \A d \in Players : pc'[d] = "lose" =>
             d \in RealPlayers /\ p'[d] \in Status /\ p'[d].current_battle_id # Root
    BY <1>5, <1>7 DEF IInv, Fresh
  <2>2. \A a \in Agents : a # c => pc'[a] = pc[a] /\ fifo'[a] = fifo[a]
    BY <1>7, <1>8, Tree
  <2> QED
    BY <1>7, <1>8, <2>1, <2>2 DEF IInv, Fresh
<1> QED
  BY <1>6, <1>9, <1>10 DEF IInv

\* What a winner goes on with.
LEMMA HealedStatus ==
  ASSUME NEW c \in Players, NEW s \in Status, Alive(s), originHP[c] \in Nat, originHP[c] > 0
  PROVE  Healed(c, s) \in Status /\ Playing(Healed(c, s))
<1> DEFINE o == originHP[c]
           h == s.HP + (o - s.HP) \div 2
<1>1. s.HP \in Int /\ s.HP > 0
  BY DEF Status, Alive
<1>2. o \in Int /\ o > 0
  OBVIOUS
<1> HIDE DEF o
<1>3. h \in Int /\ h > 0
  BY <1>1, <1>2
<1>4. Healed(c, s) = [s EXCEPT !.HP = h, !.battle_ended_flag = FALSE]
  BY DEF Healed, o
<1> HIDE DEF h
<1> QED
  BY <1>3, <1>4 DEF Status, Playing, Alive

LEMMA PlayIInv == ASSUME IInv, NEW c \in Players, Play(c) PROVE IInv'
<1>0. /\ c \in Procs /\ pc[c] = "play" /\ down[c] # <<>>
      /\ pc \in [Procs -> BattleStates \cup PlayerStates]
      /\ p \in [Players -> Status \cup {NoStatus}] /\ originHP \in [Players -> Nat]
      /\ up \in [Procs -> Seq(Status)] /\ down \in [Procs -> Seq(Status)]
  BY DEF Play, IInv, Types, Procs
<1> DEFINE s == Head(down[c])
           won == s.battle_ended_flag /\ Alive(s)
           s2 == IF won THEN Healed(c, s) ELSE s
<1>1. /\ UNCHANGED <<roster, fifo, remain, Player, originHP, champion, losses>>
      /\ down' = [down EXCEPT ![c] = Tail(down[c])]
      /\ IF won /\ s.current_battle_id = Root
           THEN /\ p' = [p EXCEPT ![c] = s]
                /\ pc' = [pc EXCEPT ![c] = "gone"]
                /\ UNCHANGED up
           ELSE Enter(c, s2)
  BY DEF Play
<1>2. up[c] = <<>> /\ Len(down[c]) = 1 /\ ~PassedUp(c)
  BY <1>0, Quiet
<1>3. s \in Status /\ Tail(down[c]) = <<>> /\ s.battle_ended_flag \in BOOLEAN
  <2>1. down[c] \in Seq(Status)
    BY <1>0
  <2> QED
    BY <1>2, <2>1, OnlyOne DEF Status
<1>4. /\ down'[c] = <<>> /\ \A d \in Procs \ {c} : down'[d] = down[d]
      /\ down' \in [Procs -> Seq(Status)]
  BY <1>0, <1>1, <1>3
<1>5. originHP[c] \in Nat /\ originHP[c] > 0
  BY <1>0 DEF IInv, Fresh
<1>6. Alive(s) => s2 \in Status /\ Playing(s2)
  <2>1. CASE won
    BY <1>3, <1>5, <2>1, HealedStatus
  <2>2. CASE ~won
    BY <1>3, <2>2 DEF Playing
  <2> QED
    BY <2>1, <2>2
<1>7. Over(s) <=> ~Alive(s) \/ (won /\ s.current_battle_id = Root)
  BY <1>3 DEF Over, Alive, Status
<1>8. Len(<<>>) = 0
  OBVIOUS
<1>9. ~Alive(s) => s2 = s /\ ~Alive(s2)
  OBVIOUS
<1> HIDE DEF won, s2
\* The player leaves.
<1>10. CASE Over(s)
  <2>1. /\ pc' = [pc EXCEPT ![c] = pc'[c]] /\ UNCHANGED up
        /\ p' = [p EXCEPT ![c] = s]
        /\ pc'[c] = "gone" \/ (pc'[c] = "lose" /\ c \in RealPlayers /\ s.current_battle_id # Root)
    <3>1. CASE won /\ s.current_battle_id = Root
      BY <1>0, <1>1, <3>1
    <3>2. CASE ~(won /\ s.current_battle_id = Root)
      <4>1. Enter(c, s) /\ ~Alive(s)
        BY <1>1, <1>7, <1>9, <1>10, <3>2
      <4> QED
        BY <1>0, <4>1 DEF Enter
    <3> QED
      BY <3>1, <3>2
  <2>2. \A d \in Procs \ {c} : pc'[d] = pc[d]
    BY <1>0, <2>1
  <2>3. pc'[c] \in Done /\ pc'[c] \in PlayerStates /\ pc'[c] # "unborn" /\ ~Awaits(c)'
    BY <2>1 DEF Done, Exited, PlayerStates, Awaits
  <2>4. Stable(c)
    <3>1. ~Fights(c) /\ ~Stays(c)
      <4>1. ~Playing(s)
        BY <1>3, <1>10 DEF Playing, Over, Alive, Status
      <4> HIDE DEF Playing
      <4> QED
        BY <1>0, <1>10, <4>1 DEF Fights, Stays
    <3>2. Leaves(c)'
      BY <2>3 DEF Leaves
    <3> QED
      BY <1>0, <1>2, <3>1, <3>2 DEF Stable
  <2>5. Len(up'[c]) + Len(down'[c]) = IF Awaits(c)' /\ ~PassedUp(c) THEN 1 ELSE 0
    BY <1>2, <1>4, <1>8, <2>1, <2>3
  <2>6. Born' /\ Turns' /\ Asked' /\ Fates'
    BY <1>0, <1>1, <1>2, <1>4, <2>1, <2>2, <2>3, <2>4, <2>5, PlayerActs
  <2>7. Types'
    <3>1. \A b \in Battles : b # c /\ b \in Procs
      BY Tree
    <3>2. \A d \in Players : pc[d] \in PlayerStates /\ d \in Procs
      BY DEF IInv, Types, Procs
    <3>3. /\ pc' \in [Procs -> BattleStates \cup PlayerStates]
          /\ \A b \in Battles : pc'[b] = pc[b]
          /\ \A d \in Players : pc'[d] \in PlayerStates
      BY <1>0, <2>1, <2>2, <2>3, <3>1, <3>2
    <3>4. p' \in [Players -> Status \cup {NoStatus}]
      BY <1>0, <1>3, <2>1
    <3> QED
      BY <1>1, <1>4, <2>1, <3>3, <3>4 DEF IInv, Types
  <2>8. Fresh'
    <3>1. \A d \in Players \ {c} : pc'[d] = pc[d] /\ p'[d] = p[d]
      BY <1>0, <2>1, <2>2 DEF Procs
    <3>2. p'[c] = s
      BY <1>0, <2>1
    <3>3. /\ \A d \in Players : pc'[d] \in {"play", "lose"} => originHP'[d] > 0
          /\ \A d \in Players : pc'[d] = "lose" =>
               d \in RealPlayers /\ p'[d] \in Status /\ p'[d].current_battle_id # Root
      BY <1>1, <1>3, <1>5, <2>1, <3>1, <3>2 DEF IInv, Fresh
    <3>4. \A a \in Agents : fifo'[a] = fifo[a] /\ (pc'[a] = "read" <=> pc[a] = "read")
      BY <1>0, <1>1, <2>1, <3>1, Tree
    <3> QED
      BY <3>3, <3>4 DEF IInv, Fresh
  <2> QED
    BY <2>6, <2>7, <2>8 DEF IInv
\* The player goes on.
<1>11. CASE ~Over(s)
  <2>1. Enter(c, s2) /\ Alive(s) /\ s2 \in Status /\ Playing(s2)
    BY <1>1, <1>6, <1>7, <1>11
  <2>2. /\ pc' = [pc EXCEPT ![c] = "play"] /\ p' = [p EXCEPT ![c] = s2]
        /\ up' = [up EXCEPT ![c] = Append(up[c], s2)]
    BY <2>1 DEF Enter, Playing
  <2>3. pc' = pc
    BY <1>0, <2>2
  <2>4. /\ up'[c] = <<s2>> /\ \A d \in Procs \ {c} : up'[d] = up[d]
        /\ up' \in [Procs -> Seq(Status)]
    <3>1. Append(up[c], s2) = <<s2>> /\ <<s2>> \in Seq(Status)
      BY <1>2, <2>1
    <3> QED
      BY <1>0, <2>2, <3>1
  <2>5. Len(<<s2>>) = 1 /\ Head(<<s2>>) = s2
    OBVIOUS
  <2>6. Stable(c)
    <3>1. ~Leaves(c)
      BY <1>0, <1>11 DEF Leaves, Done, Exited
    <3>2. Fights(c)' /\ Stays(c)' /\ Awaits(c)'
      BY <1>0, <1>4, <2>3 DEF Fights, Stays, Awaits, Done, Exited
    <3> QED
      BY <1>0, <3>1, <3>2 DEF Stable
  <2>7. Len(up'[c]) + Len(down'[c]) = IF Awaits(c)' /\ ~PassedUp(c) THEN 1 ELSE 0
    BY <1>0, <1>2, <1>4, <1>8, <2>3, <2>4, <2>5 DEF Awaits
  <2>8. Born' /\ Turns' /\ Asked' /\ Fates'
    <3>1. Playing(Head(up'[c])) /\ pc'[c] = pc[c] /\ pc[c] # "unborn"
      BY <1>0, <2>1, <2>3, <2>4, <2>5
    <3>2. \A d \in Procs \ {c} : pc'[d] = pc[d] /\ up'[d] = up[d] /\ down'[d] = down[d]
      BY <1>4, <2>3, <2>4
    <3>3. remain' = remain
      BY <1>1
    <3> QED
      BY <2>6, <2>7, <3>1, <3>2, <3>3, PlayerActs
  <2>9. Types'
    <3>1. p' \in [Players -> Status \cup {NoStatus}]
      BY <1>0, <2>1, <2>2
    <3> QED
      BY <1>1, <1>4, <2>3, <2>4, <3>1 DEF IInv, Types
  <2>10. Fresh'
    <3>1. \A d \in Players : d # c => p'[d] = p[d]
      BY <1>0, <2>2
    <3> QED
      BY <1>0, <1>1, <2>3, <3>1 DEF IInv, Fresh
  <2> QED
    BY <2>8, <2>9, <2>10 DEF IInv
<1> QED
  BY <1>10, <1>11

LEMMA HandOverIInv == ASSUME IInv, NEW c \in Players, HandOver(c) PROVE IInv'
<1>0. /\ c \in Procs /\ pc[c] = "lose" /\ c \in RealPlayers /\ p[c] \in Status
      /\ pc \in [Procs -> BattleStates \cup PlayerStates]
      /\ p \in [Players -> Status \cup {NoStatus}] /\ originHP \in [Players -> Nat]
      /\ fifo \in [Agents -> Seq(Status)]
  BY DEF HandOver, IInv, Types, Fresh, Procs
<1>1. PICK a : a = lose[p[c].current_battle_id]
  OBVIOUS
<1>2. /\ p[c].current_battle_id \in DOMAIN lose /\ pc[a] = "open"
      /\ p' = [p EXCEPT ![c] = Restored(c)]
      /\ fifo' = [fifo EXCEPT ![a] = Append(fifo[a], Restored(c))]
      /\ pc' = [pc EXCEPT ![c] = "gone", ![a] = "read"]
      /\ UNCHANGED <<roster, up, down, remain, Player, originHP, champion, losses>>
  BY <1>1 DEF HandOver
<1>3. a \in Agents /\ a \in Players /\ a \in Procs /\ a # c
  <2>1. a \in Agents
    BY <1>1, <1>2, BracketAssumption
  <2> QED
    BY <1>0, <2>1, Tree DEF Agents, Procs
<1>4. /\ pc'[c] = "gone" /\ pc'[a] = "read"
      /\ \A d \in Procs \ {c, a} : pc'[d] = pc[d]
  BY <1>0, <1>2, <1>3
<1>5. Restored(c) \in Status /\ Playing(Restored(c))
  <2>1. originHP[c] \in Nat /\ originHP[c] > 0
    BY <1>0 DEF IInv, Fresh
  <2> DEFINE o == originHP[c]
  <2>2. Restored(c) = [p[c] EXCEPT !.HP = o, !.battle_ended_flag = FALSE]
    BY DEF Restored
  <2>3. o \in Int /\ o > 0
    BY <2>1
  <2> HIDE DEF o
  <2> QED
    BY <1>0, <2>2, <2>3 DEF Status, Playing, Alive
<1>6. Stable(c)
  BY <1>0, <1>4 DEF Stable, Fights, Stays, Leaves, Awaits, Done, Exited
<1>7. up[c] = <<>> /\ down[c] = <<>>
  BY <1>0, Quiet DEF Awaits
<1>8. Len(up'[c]) + Len(down'[c]) = IF Awaits(c)' /\ ~PassedUp(c) THEN 1 ELSE 0
  <2>1. Len(<<>>) = 0
    OBVIOUS
  <2> QED
    BY <1>2, <1>4, <1>7, <2>1 DEF Awaits
<1>9. Born' /\ Turns' /\ Asked' /\ Fates'
  BY <1>0, <1>2, <1>4, <1>6, <1>7, <1>8, PlayerActs
<1>10. Types'
  <2>1. \A b \in Battles : b # c /\ b # a /\ b \in Procs
    BY <1>3, Tree
  <2>2. "gone" \in PlayerStates /\ "read" \in PlayerStates
    BY DEF PlayerStates, Exited
  <2>3. \A d \in Players : pc[d] \in PlayerStates /\ d \in Procs
    BY DEF IInv, Types, Procs
  <2>4. /\ pc' \in [Procs -> BattleStates \cup PlayerStates]
        /\ \A b \in Battles : pc'[b] = pc[b]
        /\ \A d \in Players : pc'[d] \in PlayerStates
    BY <1>0, <1>2, <1>4, <2>1, <2>2, <2>3
  <2>5. p' \in [Players -> Status \cup {NoStatus}] /\ fifo' \in [Agents -> Seq(Status)]
    <3>1. Append(fifo[a], Restored(c)) \in Seq(Status)
      BY <1>0, <1>3, <1>5
    <3> QED
      BY <1>0, <1>2, <1>5, <3>1
  <2> QED
    BY <1>2, <2>4, <2>5 DEF IInv, Types
<1>11. Fresh'
  <2>1. \A d \in Players : d # c => p'[d] = p[d]
    BY <1>0, <1>2
  <2>2. \A d \in Players : d # c /\ d # a => pc'[d] = pc[d]
    BY <1>4 DEF Procs
  <2>3. /\ \A d \in Players : pc'[d] \in {"play", "lose"} => originHP'[d] > 0
        /\ \A d \in Players : pc'[d] = "lose" =>
             d \in RealPlayers /\ p'[d] \in Status /\ p'[d].current_battle_id # Root
    BY <1>2, <1>4, <2>1, <2>2 DEF IInv, Fresh
  <2>4. Len(fifo'[a]) = 1 /\ Playing(Head(fifo'[a]))
    <3>1. fifo[a] = <<>>
      BY <1>2, <1>3 DEF IInv, Fresh
    <3>2. fifo'[a] = <<Restored(c)>>
      BY <1>0, <1>2, <1>3, <3>1
    <3>3. Len(<<Restored(c)>>) = 1 /\ Head(<<Restored(c)>>) = Restored(c)
      OBVIOUS
    <3> QED
      BY <1>5, <3>2, <3>3
  <2>5. \A d \in Agents : d # a => pc'[d] = pc[d] /\ fifo'[d] = fifo[d]
    <3>1. c \notin Agents /\ Agents \subseteq Players
      BY <1>0, Tree DEF Agents
    <3> QED
      BY <1>0, <1>2, <2>2, <3>1
  <2> QED
    BY <1>4, <2>3, <2>4, <2>5 DEF IInv, Fresh
<1> QED
  BY <1>9, <1>10, <1>11 DEF IInv

-----------------------------------------------------------------------------
(* The steps of battles: they touch the battle and its children only.      *)

\* What a battle does to its child: it forks it, or reaps it.
IsMoved(c) == \/ pc'[c] = pc[c]
              \/ pc[c] = "unborn" /\ pc'[c] = IF c \in Battles THEN "fork" ELSE "start"
              \/ pc[c] = "gone" /\ pc'[c] = "reaped"

LEMMA BattleActs ==
  ASSUME IInv, NEW b \in Battles,
         \A d \in Procs \ ({b} \cup Children(b)) :
           pc'[d] = pc[d] /\ up'[d] = up[d] /\ down'[d] = down[d],
         \A d \in Battles \ {b} : remain'[d] = remain[d],
         \A c \in Children(b) : IsMoved(c),
         b # Root => Stable(b), Fate(b)',
         Len(up'[b]) + Len(down'[b]) = IF Awaits(b)' /\ ~PassedUp(b) THEN 1 ELSE 0,
         \A c \in Children(b) : Len(up'[c]) + Len(down'[c]) =
           IF Awaits(c)' /\ ~(pc'[b] = "relayDown" /\ Remains(b)' = c) THEN 1 ELSE 0,
         \A c \in {b} \cup Children(b) : up'[c] # <<>> => Playing(Head(up'[c]))
  PROVE  Turns' /\ Asked' /\ Fates'
<1>0. \A c \in Children(b) : \/ pc'[c] = pc[c]
                             \/ pc[c] = "unborn" /\ pc'[c] \in {"fork", "start"}
                             \/ pc[c] = "gone" /\ pc'[c] = "reaped"
  BY DEF IsMoved
<1>1. \A d \in Battles : /\ d \in Procs /\ Children(d) \subseteq Procs /\ Root \notin Children(d)
                         /\ d # b => \A c \in Children(d) : c \notin Children(b)
                         /\ Remains(d) \in Children(d)
  BY Tree
<1>2. \A d \in Battles \ {b} : \A c \in Children(d) : Stable(c)
  <2> SUFFICES ASSUME NEW d \in Battles \ {b}, NEW c \in Children(d) PROVE Stable(c)
    OBVIOUS
  <2>1. CASE c = b
    BY <1>1, <2>1
  <2>2. CASE c # b
    BY <1>0, <1>1, <2>2, Untouched
  <2> QED
    BY <2>1, <2>2
<1>3. \A d \in Battles \ {b} : Fate(d)'
  <2> SUFFICES ASSUME NEW d \in Battles \ {b} PROVE Fate(d)'
    OBVIOUS
  <2>1. CASE pc'[d] = pc[d]
    BY <1>2, <2>1, KeepsFate DEF IInv, Fates
  <2>2. CASE pc'[d] \in {"fork", "start"}
    BY <2>2 DEF Fate, Exited
  <2>3. CASE pc[d] = "gone" /\ pc'[d] = "reaped"
    <3>1. \A c \in Children(d) : pc[c] = "reaped"
      BY <2>3 DEF IInv, Fates, Fate, Exited
    <3>2. \A c \in Children(d) : pc'[c] = "reaped"
      BY <1>2, <3>1 DEF Stable
    <3> QED
      BY <2>3, <3>2 DEF Fate
  <2> QED
    BY <1>0, <1>1, <2>1, <2>2, <2>3
<1>4. ASSUME NEW d \in Battles, d # b PROVE pc'[d] = "relayDown" <=> pc[d] = "relayDown"
  BY <1>0, <1>1, <1>4
<1>5. ASSUME NEW c \in Procs, c \notin Children(b) PROVE PassedUp(c)' <=> PassedUp(c)
  <2>1. Remains(b)' # c /\ Remains(b) # c
    <3>1. Remains(b)' \in Children(b) /\ Remains(b) \in Children(b)
      BY DEF Remains, Side, Children
    <3> QED
      BY <1>5, <3>1
  <2>2. \A d \in Battles : d # b => Remains(d)' = Remains(d)
    BY DEF Remains
  <2> QED
    BY <1>4, <2>1, <2>2 DEF PassedUp
<1>6. ASSUME NEW c \in Children(b)
      PROVE  PassedUp(c)' <=> pc'[b] = "relayDown" /\ Remains(b)' = c
  <2>1. \A d \in Battles : d # b => Remains(d)' # c
    <3>1. \A d \in Battles : Remains(d)' \in Children(d)
      BY DEF Remains, Side, Children
    <3> QED
      BY <1>1, <3>1
  <2> QED
    BY <2>1 DEF PassedUp
<1>7. Turns'
  <2> SUFFICES ASSUME NEW c \in Procs
               PROVE  Len(up'[c]) + Len(down'[c]) = IF Awaits(c)' /\ ~PassedUp(c)' THEN 1 ELSE 0
    BY DEF Turns
  <2>1. CASE c \in Children(b)
    BY <1>6, <2>1
  <2>2. CASE c = b /\ c \notin Children(b)
    BY <1>5, <2>2
  <2>3. CASE c # b /\ c \notin Children(b)
    <3>1. Awaits(c)' <=> Awaits(c)
      BY <2>3 DEF Awaits
    <3> QED
      BY <1>5, <2>3, <3>1 DEF IInv, Turns
  <2> QED
    BY <2>1, <2>2, <2>3
<1>8. Asked'
  BY DEF IInv, Asked
<1>9. Fates'
  BY <1>3 DEF Fates
<1> QED
  BY <1>7, <1>8, <1>9

LEMMA BattleFrame ==
  ASSUME IInv, NEW b \in Battles, UNCHANGED <<roster, fifo, p, originHP>>,
         pc' \in [Procs -> BattleStates \cup PlayerStates],
         up' \in [Procs -> Seq(Status)], down' \in [Procs -> Seq(Status)],
         \A d \in Procs \ ({b} \cup Children(b)) : pc'[d] = pc[d],
         \A c \in Children(b) : IsMoved(c),
         pc'[b] \in BattleStates \ {"unborn", "fork"}, pc[b] # "unborn",
         b = Root => pc'[b] \in {"fight", "wait", "last", "gone"},
         \A c \in Children(b) : pc'[c] # "unborn",
         remain' \in [Battles -> {-1, 0, 1}],
         \A d \in Battles \ {b} : remain'[d] = remain[d],
         pc'[b] \in {"wait", "relayUp", "relayDown"} => remain'[b] # -1,
         Player' \in [Battles -> Seq(Status \cup {NoStatus})],
         \A d \in Battles : Len(Player'[d]) = 2,
         champion' \in RealPlayers \cup {Nobody}, losses' \in [RealPlayers -> Nat]
  PROVE  Types' /\ Born' /\ Fresh'
<1>1. \A d \in Battles : /\ d \in Procs /\ d \notin Players
                         /\ Children(d) \subseteq Procs /\ Root \notin Children(d)
                         /\ d # b => \A c \in Children(d) : c \notin Children(b)
                         /\ d \notin Children(d)
  BY Tree
<1>2. ASSUME NEW d \in Procs, d # b
      PROVE  \/ pc'[d] = pc[d]
             \/ pc[d] = "unborn" /\ pc'[d] = IF d \in Battles THEN "fork" ELSE "start"
             \/ pc[d] = "gone" /\ pc'[d] = "reaped"
  BY <1>2 DEF IsMoved
<1>3. \A d \in Players : d \in Procs /\ d # b /\ d \notin Battles
  BY <1>1 DEF Procs
<1>4. \A d \in Battles : pc'[d] \in BattleStates
  <2>1. \A d \in Battles : pc[d] \in BattleStates
    BY DEF IInv, Types
  <2>2. "fork" \in BattleStates /\ "reaped" \in BattleStates
    BY DEF BattleStates, Exited
  <2> QED
    BY <1>1, <1>2, <2>1, <2>2
<1>5. \A d \in Players : pc'[d] \in PlayerStates
  <2>1. \A d \in Players : pc[d] \in PlayerStates
    BY DEF IInv, Types
  <2>2. "start" \in PlayerStates /\ "reaped" \in PlayerStates
    BY DEF PlayerStates, Exited
  <2> QED
    BY <1>2, <1>3, <2>1, <2>2
<1>6. Types'
  <2>1. \A d \in Battles : pc'[d] \in {"wait", "relayUp", "relayDown"} => remain'[d] # -1
    BY <1>1, <1>2 DEF IInv, Types
  <2> QED
    BY <1>4, <1>5, <2>1 DEF IInv, Types
<1>7. Born'
  <2>1. pc'[Root] \in {"fork", "fight", "wait", "last", "gone"}
    <3>1. CASE b = Root
      BY <3>1
    <3>2. CASE b # Root
      <4>1. Root \in Procs \ ({b} \cup Children(b))
        BY <1>1, <3>2, Tree
      <4> QED
        BY <4>1 DEF IInv, Born
    <3> QED
      BY <3>1, <3>2
  <2>2. ASSUME NEW d \in Battles, NEW c \in Children(d)
        PROVE  pc'[c] = "unborn" <=> pc'[d] \in {"unborn", "fork"}
    <3>1. CASE d = b
      BY <3>1
    <3>2. CASE d # b
      <4>1. pc[c] = "unborn" <=> pc[d] \in {"unborn", "fork"}
        BY DEF IInv, Born
      <4>2. pc'[d] \in {"unborn", "fork"} <=> pc[d] \in {"unborn", "fork"}
        BY <1>1, <1>2, <3>2
      <4>3. pc'[c] = "unborn" <=> pc[c] = "unborn"
        <5>1. c \in Procs /\ c \notin Children(b)
          BY <1>1, <3>2
        <5> QED
          BY <5>1
      <4> QED
        BY <4>1, <4>2, <4>3
    <3> QED
      BY <3>1, <3>2
  <2> QED
    BY <2>1, <2>2 DEF Born
<1>8. Fresh'
  <2>1. \A d \in Players : \A x \in {"play", "lose", "read"} : pc'[d] = x <=> pc[d] = x
    BY <1>2, <1>3
  <2>2. Agents \subseteq Players
    BY Tree
  <2> QED
    BY <2>1, <2>2 DEF IInv, Fresh
<1> QED
  BY <1>6, <1>7, <1>8

\* The parent of a process is the only one to pass a question on.
LEMMA OfParent ==
  ASSUME NEW b \in Battles, NEW c \in Children(b)
  PROVE  PassedUp(c) <=> pc[b] = "relayDown" /\ Remains(b) = c
<1>1. \A d \in Battles : Remains(d) = c => d = b
  BY Tree
<1> QED
  BY <1>1 DEF PassedUp

LEMMA ForkIInv == ASSUME IInv, NEW b \in Battles, Fork(b) PROVE IInv'
<1>0. /\ b \in Procs /\ Children(b) \subseteq Procs /\ b \notin Children(b)
      /\ \A c \in Children(b) : c \in Battles \/ c \in Players
  BY Tree
<1>1. /\ pc[b] = "fork"
      /\ pc' = [c \in Procs |-> IF c = b THEN "fight"
                                ELSE IF c \notin Children(b) THEN pc[c]
                                ELSE IF c \in Battles THEN "fork" ELSE "start"]
      /\ UNCHANGED <<roster, up, down, fifo, remain, Player, p, originHP, champion, losses>>
  BY DEF Fork
<1>2. \A c \in Children(b) : pc[c] = "unborn"
  BY <1>1 DEF IInv, Born
<1>3. /\ pc'[b] = "fight" /\ \A c \in Procs \ ({b} \cup Children(b)) : pc'[c] = pc[c]
      /\ \A c \in Children(b) : pc'[c] = IF c \in Battles THEN "fork" ELSE "start"
  BY <1>0, <1>1
<1>4. \A c \in Children(b) : IsMoved(c)
  BY <1>2, <1>3 DEF IsMoved
<1>5. \A c \in {b} \cup Children(b) : up[c] = <<>> /\ down[c] = <<>> /\ ~PassedUp(c)
  BY <1>0, <1>1, <1>2, Quiet DEF Awaits
<1>6. Len(<<>>) = 0
  OBVIOUS
<1>7. Fate(b)'
  BY <1>1, <1>3, <1>5 DEF Fate, Fights, Done, Exited
<1>8. Stable(b)
  BY <1>1, <1>3, <1>5 DEF Stable, Fights, Stays, Leaves, Done, Exited
<1>9. \A c \in {b} \cup Children(b) : ~Awaits(c)' /\ Len(up'[c]) + Len(down'[c]) = 0
  <2>1. \A c \in {b} \cup Children(b) : ~Awaits(c)'
    BY <1>3 DEF Awaits
  <2>2. \A c \in {b} \cup Children(b) : up'[c] = <<>> /\ down'[c] = <<>>
    BY <1>1, <1>5
  <2> QED
    BY <2>1, <2>2, Counts
<1>10. Turns' /\ Asked' /\ Fates'
  BY <1>1, <1>3, <1>4, <1>5, <1>7, <1>8, <1>9, BattleActs
<1>11. Types' /\ Born' /\ Fresh'
  <2>1. pc' \in [Procs -> BattleStates \cup PlayerStates]
    <3>1. pc \in [Procs -> BattleStates \cup PlayerStates]
      BY DEF IInv, Types
    <3>2. "fight" \in BattleStates /\ "fork" \in BattleStates /\ "start" \in PlayerStates
      BY DEF BattleStates, PlayerStates
    <3> QED
      BY <1>1, <3>1, <3>2
  <2>2. pc'[b] \in BattleStates \ {"unborn", "fork"}
    BY <1>3 DEF BattleStates
  <2>3. \A c \in Children(b) : pc'[c] # "unborn"
    BY <1>3
  <2>4. /\ up' \in [Procs -> Seq(Status)] /\ down' \in [Procs -> Seq(Status)]
        /\ remain' \in [Battles -> {-1, 0, 1}]
        /\ Player' \in [Battles -> Seq(Status \cup {NoStatus})]
        /\ \A d \in Battles : Len(Player'[d]) = 2
        /\ champion' \in RealPlayers \cup {Nobody} /\ losses' \in [RealPlayers -> Nat]
    BY <1>1 DEF IInv, Types
  <2> QED
    BY <1>1, <1>3, <1>4, <2>1, <2>2, <2>3, <2>4, BattleFrame
<1> QED
  BY <1>10, <1>11 DEF IInv

LEMMA RelayUpIInv == ASSUME IInv, NEW b \in Battles, RelayUp(b) PROVE IInv'
<1>1. PICK c \in Children(b) : c = Remains(b)
  BY Tree
<1>2. /\ b \in Procs /\ c \in Procs /\ Children(b) \subseteq Procs /\ b \notin Children(b) /\ c # b
      /\ pc \in [Procs -> BattleStates \cup PlayerStates] /\ up \in [Procs -> Seq(Status)]
  <2>1. b \in Procs /\ Children(b) \subseteq Procs /\ b \notin Children(b)
    BY Tree
  <2>2. c \in Procs /\ c # b
    BY <2>1
  <2>3. pc \in [Procs -> BattleStates \cup PlayerStates] /\ up \in [Procs -> Seq(Status)]
    BY DEF IInv, Types
  <2> QED
    BY <2>1, <2>2, <2>3
<1>3. /\ pc[b] = "relayUp" /\ up[c] # <<>>
      /\ up' = [up EXCEPT ![c] = Tail(up[c]), ![b] = Append(up[b], Head(up[c]))]
      /\ pc' = [pc EXCEPT ![b] = "relayDown"]
      /\ UNCHANGED <<roster, down, fifo, remain, Player, p, originHP, champion, losses>>
  BY <1>1, <1>2 DEF RelayUp, Remains
<1> DEFINE s == Head(up[c])
<1>4. /\ down[c] = <<>> /\ Awaits(c) /\ s \in Status /\ Tail(up[c]) = <<>> /\ Playing(s)
  <2>1. down[c] = <<>> /\ Awaits(c) /\ Len(up[c]) = 1 /\ up[c] \in Seq(Status)
    BY <1>2, <1>3, Quiet
  <2>2. Playing(s)
    BY <1>2, <1>3 DEF IInv, Asked
  <2> QED
    BY <2>1, <2>2, OnlyOne
<1>5. up[b] = <<>> /\ down[b] = <<>> /\ ~PassedUp(b)
  BY <1>2, <1>3, Quiet DEF Awaits
<1> HIDE DEF s
<1>6. /\ up'[c] = <<>> /\ up'[b] = <<s>> /\ \A d \in Procs \ {b, c} : up'[d] = up[d]
      /\ pc'[b] = "relayDown" /\ \A d \in Procs \ {b} : pc'[d] = pc[d]
  <2>1. Append(<<>>, s) = <<s>>
    OBVIOUS
  <2> QED
    BY <1>2, <1>3, <1>4, <1>5, <2>1 DEF s
<1>7. Len(<<>>) = 0 /\ Len(<<s>>) = 1 /\ Head(<<s>>) = s
  OBVIOUS
<1>8. Fate(b)'
  <2>1. b # Root /\ Stays(c) /\ pc[Beaten(b)] = "reaped"
    BY <1>1, <1>3 DEF IInv, Fates, Fate
  <2>2. PICK e \in Children(b) : e = Beaten(b)
    BY Tree
  <2>3. pc'[e] = "reaped"
    BY <1>2, <1>6, <2>1, <2>2
  <2>4. Stays(c)' /\ Awaits(c)'
    BY <1>2, <1>3, <1>4, <1>6, <2>1 DEF Stays, Awaits
  <2>5. Remains(b)' = c /\ Beaten(b)' = e
    BY <1>1, <1>3, <2>2 DEF Remains, Beaten
  <2>6. Stays(Remains(b))' /\ Awaits(Remains(b))' /\ pc'[Beaten(b)'] = "reaped"
    BY <2>3, <2>4, <2>5 DEF Stays, Awaits
  <2> QED
    BY <1>6, <2>1, <2>6 DEF Fate, Exited
<1>9. Stable(b)
  BY <1>3, <1>5, <1>6 DEF Stable, Fights, Stays, Leaves, Awaits, Done, Exited
<1>10. Len(up'[b]) + Len(down'[b]) = IF Awaits(b)' /\ ~PassedUp(b) THEN 1 ELSE 0
  <2>1. Awaits(b)' /\ down'[b] = <<>>
    BY <1>3, <1>5, <1>6 DEF Awaits
  <2> QED
    BY <1>5, <1>6, <2>1, Counts
<1>11. ASSUME NEW d \in Children(b)
       PROVE  Len(up'[d]) + Len(down'[d]) =
                IF Awaits(d)' /\ ~(pc'[b] = "relayDown" /\ Remains(b)' = d) THEN 1 ELSE 0
  <2>1. Remains(b)' = c
    BY <1>1, <1>3 DEF Remains
  <2>2. CASE d = c
    <3>1. down'[c] = <<>>
      BY <1>3, <1>4
    <3> QED
      BY <1>6, <2>1, <2>2, <3>1, Counts
  <2>3. CASE d # c
    <3>1. ~PassedUp(d)
      BY <1>3, OfParent
    <3>2. d \in Procs /\ d # b
      BY <1>2
    <3>3. Len(up[d]) + Len(down[d]) = IF Awaits(d) THEN 1 ELSE 0
      BY <3>1, <3>2 DEF IInv, Turns
    <3>4. Awaits(d)' <=> Awaits(d)
      BY <1>6, <3>2 DEF Awaits
    <3> QED
      BY <1>3, <1>6, <2>1, <2>3, <3>2, <3>3, <3>4
  <2> QED
    BY <2>2, <2>3
<1>12. \A d \in {b} \cup Children(b) : up'[d] # <<>> => Playing(Head(up'[d]))
  BY <1>2, <1>4, <1>6, <1>7 DEF IInv, Asked
<1>13. \A d \in Children(b) : IsMoved(d)
  BY <1>2, <1>6 DEF IsMoved
<1>14. Turns' /\ Asked' /\ Fates'
  BY <1>2, <1>3, <1>6, <1>8, <1>9, <1>10, <1>11, <1>12, <1>13, BattleActs
<1>15. Types' /\ Born' /\ Fresh'
  <2>1. pc' \in [Procs -> BattleStates \cup PlayerStates] /\ pc'[b] \in BattleStates \ {"unborn", "fork"}
    BY <1>2, <1>3 DEF BattleStates
  <2>2. up' \in [Procs -> Seq(Status)]
    <3>1. <<>> \in Seq(Status) /\ <<s>> \in Seq(Status)
      BY <1>4
    <3> QED
      BY <1>2, <1>3, <1>6, <3>1
  <2>3. /\ b # Root /\ \A d \in Children(b) : pc'[d] # "unborn"
    <3>1. b # Root
      BY <1>3 DEF IInv, Fates, Fate
    <3>2. \A d \in Children(b) : pc[d] # "unborn"
      BY <1>3 DEF IInv, Born
    <3> QED
      BY <1>2, <1>6, <3>1, <3>2
  <2>4. /\ down' \in [Procs -> Seq(Status)]
        /\ remain' \in [Battles -> {-1, 0, 1}] /\ remain'[b] # -1
        /\ Player' \in [Battles -> Seq(Status \cup {NoStatus})]
        /\ \A d \in Battles : Len(Player'[d]) = 2
        /\ champion' \in RealPlayers \cup {Nobody} /\ losses' \in [RealPlayers -> Nat]
    BY <1>3 DEF IInv, Types
  <2> QED
    BY <1>3, <1>6, <1>13, <2>1, <2>2, <2>3, <2>4, BattleFrame
<1> QED
  BY <1>14, <1>15 DEF IInv

LEMMA RelayDownIInv == ASSUME IInv, NEW b \in Battles, RelayDown(b) PROVE IInv'
<1>1. PICK c \in Children(b) : c = Remains(b)
  BY Tree
<1>2. /\ b \in Procs /\ c \in Procs /\ Children(b) \subseteq Procs /\ b \notin Children(b) /\ c # b
      /\ pc \in [Procs -> BattleStates \cup PlayerStates] /\ down \in [Procs -> Seq(Status)]
      /\ remain \in [Battles -> {-1, 0, 1}]
  BY Tree DEF IInv, Types
<1> DEFINE s == Head(down[b])
<1>3. /\ pc[b] = "relayDown" /\ down[b] # <<>>
      /\ down' = [down EXCEPT ![b] = Tail(down[b]), ![c] = Append(down[c], s)]
      /\ IF Over(s) THEN /\ remain' = [remain EXCEPT ![b] = -1]
                         /\ pc' = [pc EXCEPT ![b] = "last"]
         ELSE pc' = [pc EXCEPT ![b] = "relayUp"] /\ UNCHANGED remain
      /\ UNCHANGED <<roster, up, fifo, Player, p, originHP, champion, losses>>
  BY <1>1, <1>2 DEF RelayDown, Remains
<1>4. up[b] = <<>> /\ s \in Status /\ Tail(down[b]) = <<>> /\ ~PassedUp(b)
  <2>1. up[b] = <<>> /\ Len(down[b]) = 1 /\ down[b] \in Seq(Status) /\ ~PassedUp(b)
    BY <1>2, <1>3, Quiet
  <2> QED
    BY <2>1, OnlyOne
<1>5. up[c] = <<>> /\ down[c] = <<>> /\ Awaits(c)
  <2>1. PassedUp(c)
    BY <1>1, <1>3, OfParent
  <2>2. Awaits(c)
    BY <1>1, <1>3 DEF IInv, Fates, Fate
  <2> QED
    BY <1>2, <2>1, <2>2, Quiet
<1> DEFINE q == IF Over(s) THEN "last" ELSE "relayUp"
<1>6. /\ down'[b] = <<>> /\ down'[c] = <<s>> /\ \A d \in Procs \ {b, c} : down'[d] = down[d]
      /\ pc' = [pc EXCEPT ![b] = q] /\ pc'[b] = q /\ \A d \in Procs \ {b} : pc'[d] = pc[d]
      /\ \A d \in Battles \ {b} : remain'[d] = remain[d]
  <2>1. Append(<<>>, s) = <<s>>
    OBVIOUS
  <2>2. pc' = [pc EXCEPT ![b] = q]
    BY <1>3
  <2>3. \A d \in Battles \ {b} : remain'[d] = remain[d]
    BY <1>2, <1>3
  <2> HIDE DEF q, s
  <2> QED
    BY <1>2, <1>3, <1>4, <1>5, <2>1, <2>2, <2>3
<1>7. Len(<<>>) = 0 /\ Len(<<s>>) = 1 /\ Head(<<s>>) = s /\ <<s>> # <<>>
  OBVIOUS
<1>8. b # Root /\ Stays(c) /\ pc[Beaten(b)] = "reaped" /\ remain[b] # -1
  BY <1>1, <1>3 DEF IInv, Types, Fates, Fate
<1>9. PICK e \in Children(b) : e = Beaten(b)
  BY Tree
<1>10. Children(b) = {c, e} /\ c # e
  BY <1>1, <1>8, <1>9, Sides DEF IInv
<1>11. pc'[e] = "reaped" /\ pc'[c] = pc[c]
  BY <1>2, <1>6, <1>8, <1>9
<1>12. Fate(b)'
  <2>1. CASE Over(s)
    <3>1. Leaves(c)' /\ Leaves(e)'
      BY <1>6, <1>7, <1>11, <2>1 DEF Leaves, Done, Exited
    <3>2. \A d \in Children(b) : Leaves(d)'
      BY <1>10, <3>1
    <3>3. pc'[b] = "last"
      BY <1>6, <2>1
    <3> QED
      BY <1>11, <3>2, <3>3 DEF Fate, Exited
  <2>2. CASE ~Over(s)
    <3>1. Stays(c)'
      BY <1>2, <1>6, <1>7, <1>8, <1>11, <2>2 DEF Stays
    <3>2. Remains(b)' = c /\ Beaten(b)' = e
      BY <1>1, <1>3, <1>9, <2>2 DEF Remains, Beaten
    <3>3. Stays(Remains(b))' /\ pc'[Beaten(b)'] = "reaped"
      BY <1>11, <3>1, <3>2 DEF Stays
    <3>4. pc'[b] = "relayUp"
      BY <1>6, <2>2
    <3> QED
      BY <1>8, <3>3, <3>4 DEF Fate, Exited
  <2> QED
    BY <2>1, <2>2
<1>13. Stable(b)
  <2>1. Playing(s) => ~Over(s)
    BY <1>4 DEF Playing, Over, Alive, Status
  <2>2. /\ Fights(b) => ~Over(s)
        /\ Stays(b) => ~Over(s)
        /\ Leaves(b) => Over(s)
    <3> HIDE DEF s
    <3> QED
      BY <1>3, <2>1 DEF Fights, Stays, Leaves, Done, Exited, s
  <2>3. ~Over(s) => Fights(b)' /\ Stays(b)'
    BY <1>6 DEF Fights, Stays, Done, Exited
  <2>4. Over(s) => Leaves(b)'
    BY <1>6 DEF Leaves, Done
  <2> QED
    BY <1>3, <1>4, <2>2, <2>3, <2>4 DEF Stable
<1> HIDE DEF s
<1>14. Len(up'[b]) + Len(down'[b]) = IF Awaits(b)' /\ ~PassedUp(b) THEN 1 ELSE 0
  <2>1. ~Awaits(b)'
    BY <1>6 DEF Awaits
  <2> HIDE DEF q
  <2> QED
    BY <1>3, <1>4, <1>6, <1>7, <2>1
<1>15. ASSUME NEW d \in Children(b)
       PROVE  Len(up'[d]) + Len(down'[d]) =
                IF Awaits(d)' /\ ~(pc'[b] = "relayDown" /\ Remains(b)' = d) THEN 1 ELSE 0
  <2>1. pc'[b] # "relayDown"
    BY <1>6
  <2>2. CASE d = c
    <3>1. Awaits(c)'
      BY <1>5, <1>11 DEF Awaits
    <3>2. up'[c] = <<>>
      BY <1>3, <1>5
    <3>3. down'[c] = <<s>>
      BY <1>6
    <3>4. Len(up'[c]) + Len(down'[c]) = 1
      BY <3>2, <3>3, Counts
    <3> QED
      BY <2>1, <2>2, <3>1, <3>4
  <2>3. CASE d = e
    <3>1. ~Awaits(e)' /\ ~Awaits(e) /\ e \in Procs /\ e # b /\ e # c
      BY <1>2, <1>8, <1>9, <1>10, <1>11 DEF Awaits
    <3>2. up[e] = <<>> /\ down[e] = <<>>
      BY <3>1, Quiet
    <3>3. up'[e] = <<>> /\ down'[e] = <<>>
      BY <1>3, <1>6, <3>1, <3>2
    <3> QED
      BY <1>7, <2>3, <3>1, <3>3
  <2> QED
    BY <1>10, <2>2, <2>3
<1>16. \A d \in {b} \cup Children(b) : up'[d] # <<>> => Playing(Head(up'[d]))
  BY <1>2, <1>3 DEF IInv, Asked
<1>17. \A d \in Children(b) : IsMoved(d)
  BY <1>2, <1>6 DEF IsMoved
<1>18. Turns' /\ Asked' /\ Fates'
  BY <1>2, <1>3, <1>6, <1>12, <1>13, <1>14, <1>15, <1>16, <1>17, BattleActs
<1>19. Types' /\ Born' /\ Fresh'
  <2>1. pc' \in [Procs -> BattleStates \cup PlayerStates] /\ pc'[b] \in BattleStates \ {"unborn", "fork"}
    BY <1>2, <1>6 DEF BattleStates
  <2>2. down' \in [Procs -> Seq(Status)]
    <3>1. <<>> \in Seq(Status) /\ <<s>> \in Seq(Status)
      BY <1>4
    <3> QED
      BY <1>2, <1>3, <1>6, <3>1
  <2>3. \A d \in Children(b) : pc'[d] # "unborn"
    BY <1>2, <1>3, <1>6 DEF IInv, Born
  <2>4. /\ remain' \in [Battles -> {-1, 0, 1}]
        /\ pc'[b] \in {"wait", "relayUp", "relayDown"} => remain'[b] # -1
    BY <1>2, <1>3, <1>6, <1>8
  <2>5. /\ up' \in [Procs -> Seq(Status)]
        /\ Player' \in [Battles -> Seq(Status \cup {NoStatus})]
        /\ \A d \in Battles : Len(Player'[d]) = 2
        /\ champion' \in RealPlayers \cup {Nobody} /\ losses' \in [RealPlayers -> Nat]
    BY <1>3 DEF IInv, Types
  <2> QED
    BY <1>3, <1>6, <1>8, <1>17, <2>1, <2>2, <2>3, <2>4, <2>5, BattleFrame
<1> QED
  BY <1>18, <1>19 DEF IInv

\* Where a battle that waits goes on.
Onward(b) == IF pc[b] = "last" THEN "gone" ELSE IF b = Root THEN "last" ELSE "relayUp"

\* Either wait reaps a child and moves the battle on.
LEMMA Waits ==
  ASSUME IInv, NEW b \in Battles, NEW c \in Children(b),
         pc[b] \in {"wait", "last"}, pc[c] = "gone",
         pc' = [pc EXCEPT ![c] = "reaped", ![b] = Onward(b)],
         UNCHANGED <<roster, up, down, fifo, remain, Player, p, originHP, losses>>,
         champion' \in RealPlayers \cup {Nobody}, Fate(b)'
  PROVE  IInv'
<1> DEFINE q == Onward(b)
<1>1. /\ b \in Procs /\ c \in Procs /\ Children(b) \subseteq Procs /\ b \notin Children(b) /\ c # b
      /\ pc \in [Procs -> BattleStates \cup PlayerStates]
  BY Tree DEF IInv, Types
<1>0. q = IF pc[b] = "last" THEN "gone" ELSE IF b = Root THEN "last" ELSE "relayUp"
  BY DEF Onward
<1>a. pc' = [pc EXCEPT ![c] = "reaped", ![b] = q]
  OBVIOUS
<1> HIDE DEF q
<1>2. pc'[c] = "reaped" /\ pc'[b] = q /\ \A d \in Procs \ {b, c} : pc'[d] = pc[d]
  BY <1>1, <1>a
<1>3. up[b] = <<>> /\ down[b] = <<>> /\ ~PassedUp(b)
  BY <1>1, Quiet DEF Awaits
<1>4. b # Root => Stable(b)
  BY <1>0, <1>2, <1>3 DEF Stable, Fights, Stays, Leaves, Awaits, Done, Exited
<1>5. Len(up'[b]) + Len(down'[b]) = IF Awaits(b)' /\ ~PassedUp(b) THEN 1 ELSE 0
  <2>1. ~Awaits(b)'
    BY <1>0, <1>2 DEF Awaits
  <2> QED
    BY <1>3, <2>1, Counts
<1>6. ASSUME NEW d \in Children(b)
      PROVE  Len(up'[d]) + Len(down'[d]) =
               IF Awaits(d)' /\ ~(pc'[b] = "relayDown" /\ Remains(b)' = d) THEN 1 ELSE 0
  <2>1. pc'[b] # "relayDown" /\ d \in Procs /\ ~PassedUp(d)
    BY <1>0, <1>1, <1>2, OfParent
  <2>2. Awaits(d)' <=> Awaits(d)
    BY <1>1, <1>2 DEF Awaits
  <2>3. Len(up[d]) + Len(down[d]) = IF Awaits(d) THEN 1 ELSE 0
    BY <2>1 DEF IInv, Turns
  <2> QED
    BY <2>1, <2>2, <2>3
<1>7. \A d \in {b} \cup Children(b) : up'[d] # <<>> => Playing(Head(up'[d]))
  BY <1>1 DEF IInv, Asked
<1>8. \A d \in Children(b) : IsMoved(d)
  BY <1>1, <1>2 DEF IsMoved
<1>9. Turns' /\ Asked' /\ Fates'
  BY <1>1, <1>2, <1>4, <1>5, <1>6, <1>7, <1>8, BattleActs
<1>10. Types' /\ Born' /\ Fresh'
  <2>1. pc' \in [Procs -> BattleStates \cup PlayerStates] /\ pc'[b] \in BattleStates \ {"unborn", "fork"}
    BY <1>0, <1>1, <1>2, <1>a DEF BattleStates, Exited
  <2>2. \A d \in Children(b) : pc'[d] # "unborn"
    <3>1. \A d \in Children(b) : pc[d] # "unborn"
      BY DEF IInv, Born
    <3> QED
      BY <1>1, <1>2, <3>1
  <2>3. pc'[b] \in {"wait", "relayUp", "relayDown"} => remain'[b] # -1
    BY <1>0, <1>2 DEF IInv, Types
  <2>4. /\ up' \in [Procs -> Seq(Status)] /\ down' \in [Procs -> Seq(Status)]
        /\ remain' \in [Battles -> {-1, 0, 1}]
        /\ Player' \in [Battles -> Seq(Status \cup {NoStatus})]
        /\ \A d \in Battles : Len(Player'[d]) = 2
        /\ losses' \in [RealPlayers -> Nat]
    BY DEF IInv, Types
  <2> QED
    BY <1>0, <1>2, <1>8, <2>1, <2>2, <2>3, <2>4, BattleFrame
<1> QED
  BY <1>9, <1>10 DEF IInv

LEMMA WaitLoserIInv == ASSUME IInv, NEW b \in Battles, WaitLoser(b) PROVE IInv'
<1> DEFINE q == IF b = Root THEN "last" ELSE "relayUp"
<1>1. /\ pc[b] = "wait" /\ Wait(b, q)
      /\ champion' = IF b = Root THEN Announced(b) ELSE champion
      /\ UNCHANGED <<roster, up, down, fifo, remain, Player, p, originHP, losses>>
  BY DEF WaitLoser
<1>2. PICK c \in Children(b) : pc[c] = "gone" /\ pc' = [pc EXCEPT ![c] = "reaped", ![b] = q]
  BY <1>1 DEF Wait
<1>3. /\ b \in Procs /\ c \in Procs /\ Children(b) \subseteq Procs /\ b \notin Children(b) /\ c # b
      /\ pc \in [Procs -> BattleStates \cup PlayerStates]
  BY Tree DEF IInv, Types
<1>4. pc'[c] = "reaped" /\ pc'[b] = q /\ \A d \in Procs \ {b, c} : pc'[d] = pc[d]
  BY <1>2, <1>3
<1>5. champion' \in RealPlayers \cup {Nobody}
  <2>1. Player[b] \in Seq(Status \cup {NoStatus}) /\ Len(Player[b]) = 2 /\ remain[b] \in {0, 1}
    BY <1>1 DEF IInv, Types
  <2>2. remain[b] + 1 \in 1 .. 2
    BY <2>1
  <2>3. Player[b][remain[b] + 1] \in Status \cup {NoStatus}
    BY <2>1, <2>2
  <2>4. Announced(b) \in RealPlayers \cup {Nobody}
    BY <2>3 DEF Announced, Status, NoStatus
  <2> QED
    BY <1>1, <2>4 DEF IInv, Types
<1>6. Fate(b)'
  <2>1. CASE b = Root
    <3>1. \A d \in Children(b) : Leaves(d)
      BY <1>1, <2>1 DEF IInv, Fates, Fate
    <3>2. \A d \in Children(b) : Leaves(d)'
      BY <1>1, <1>3, <1>4, <3>1 DEF Leaves, Done, Exited
    <3> QED
      BY <1>4, <2>1, <3>2 DEF Fate, Exited
  <2>2. CASE b # Root
    <3>1. PICK r \in Children(b) : r = Remains(b)
      BY Tree
    <3>2. PICK e \in Children(b) : e = Beaten(b)
      BY Tree
    <3>3. Children(b) = {r, e} /\ r # e
      <4>1. remain[b] # -1
        BY <1>1 DEF IInv, Types
      <4> QED
        BY <3>1, <3>2, <4>1, Sides DEF IInv
    \* The child that has gone is not the one that stays.
    <3>4. Stays(r)
      BY <1>1, <2>2, <3>1 DEF IInv, Fates, Fate
    <3>5. c = e
      BY <1>2, <3>3, <3>4 DEF Stays, Done, Exited
    <3>6. Stays(r)' /\ pc'[e] = "reaped"
      BY <1>1, <1>3, <1>4, <3>3, <3>4, <3>5 DEF Stays
    <3>7. Remains(b)' = r /\ Beaten(b)' = e
      BY <1>1, <3>1, <3>2 DEF Remains, Beaten
    <3>8. Stays(Remains(b))' /\ pc'[Beaten(b)'] = "reaped"
      BY <3>6, <3>7 DEF Stays
    <3> QED
      BY <1>4, <2>2, <3>8 DEF Fate, Exited
  <2> QED
    BY <2>1, <2>2
<1>7. q = Onward(b)
  BY <1>1 DEF Onward
<1>8. pc[b] \in {"wait", "last"} /\ pc' = [pc EXCEPT ![c] = "reaped", ![b] = Onward(b)]
  BY <1>1, <1>2, <1>7
<1> HIDE DEF q
<1> QED
  BY <1>1, <1>2, <1>5, <1>6, <1>8, Waits

LEMMA WaitLastIInv == ASSUME IInv, NEW b \in Battles, WaitLast(b) PROVE IInv'
<1>1. /\ pc[b] = "last" /\ Wait(b, "gone")
      /\ UNCHANGED <<roster, up, down, fifo, remain, Player, p, originHP, champion, losses>>
  BY DEF WaitLast
<1>2. PICK c \in Children(b) : pc[c] = "gone" /\ pc' = [pc EXCEPT ![c] = "reaped", ![b] = "gone"]
  BY <1>1 DEF Wait
<1>3. /\ b \in Procs /\ c \in Procs /\ Children(b) \subseteq Procs /\ b \notin Children(b) /\ c # b
      /\ pc \in [Procs -> BattleStates \cup PlayerStates]
  BY Tree DEF IInv, Types
<1>4. PICK d \in Children(b) : pc[d] = "reaped"
  BY <1>1 DEF IInv, Fates, Fate
<1>5. Children(b) = {c, d}
  BY <1>2, <1>4, Tree
<1>6. pc'[b] = "gone" /\ \A e \in Children(b) : pc'[e] = "reaped"
  BY <1>2, <1>3, <1>4, <1>5
<1>7. Fate(b)'
  BY <1>6 DEF Fate, Exited
<1>8. champion' \in RealPlayers \cup {Nobody}
  BY <1>1 DEF IInv, Types
<1>9. Onward(b) = "gone"
  BY <1>1 DEF Onward
<1>10. pc[b] \in {"wait", "last"} /\ pc' = [pc EXCEPT ![c] = "reaped", ![b] = Onward(b)]
  BY <1>1, <1>2, <1>9
<1> QED
  BY <1>1, <1>2, <1>7, <1>8, <1>10, Waits

LEMMA FightIInv == ASSUME IInv, NEW b \in Battles, Fight(b) PROVE IInv'
<1>1. PICK l \in Children(b) : l = left[b]
  BY Tree
<1>2. PICK r \in Children(b) : r = right[b]
  BY Tree
<1>3. /\ b \in Procs /\ l \in Procs /\ r \in Procs /\ Children(b) = {l, r} /\ l # r
      /\ b # l /\ b # r /\ roster \in Rosters
      /\ pc \in [Procs -> BattleStates \cup PlayerStates]
      /\ up \in [Procs -> Seq(Status)] /\ down \in [Procs -> Seq(Status)]
      /\ remain \in [Battles -> {-1, 0, 1}]
      /\ Player \in [Battles -> Seq(Status \cup {NoStatus})]
  <2>1. /\ b \in Procs /\ l \in Procs /\ r \in Procs /\ Children(b) = {l, r} /\ l # r
        /\ b # l /\ b # r
    <3>1. b \in Procs /\ Children(b) \subseteq Procs /\ b \notin Children(b) /\ left[b] # right[b]
          /\ Children(b) = {left[b], right[b]}
      BY Tree
    <3> QED
      BY <1>1, <1>2, <3>1
  <2> QED
    BY <2>1 DEF IInv, Types
<1> DEFINE x == Head(up[l])
           y == Head(up[r])
           after == fight(b, x, y)
           q == IF after[1].battle_ended_flag THEN "wait" ELSE "fight"
<1>4. /\ pc[b] = "fight" /\ up[l] # <<>> /\ up[r] # <<>>
      /\ Player' = [Player EXCEPT ![b] = after]
      /\ remain' = [remain EXCEPT ![b] = Remaining(b, after)]
      /\ up' = [up EXCEPT ![l] = Tail(up[l]), ![r] = Tail(up[r])]
      /\ down' = [down EXCEPT ![l] = Append(down[l], after[1]), ![r] = Append(down[r], after[2])]
      /\ pc' = [pc EXCEPT ![b] = q]
      /\ UNCHANGED <<roster, fifo, p, originHP, champion>>
  <2>1. /\ pc[b] = "fight" /\ up[l] # <<>> /\ up[r] # <<>>
        /\ Player' = [Player EXCEPT ![b] = after]
        /\ remain' = [remain EXCEPT ![b] = Remaining(b, after)]
        /\ up' = [up EXCEPT ![l] = Tail(up[l]), ![r] = Tail(up[r])]
        /\ down' = [down EXCEPT ![l] = Append(down[l], after[1]), ![r] = Append(down[r], after[2])]
        /\ pc' = [pc EXCEPT ![b] = IF after[1].battle_ended_flag THEN "wait" ELSE pc[b]]
        /\ UNCHANGED <<roster, fifo, p, originHP, champion>>
    <3> HIDE DEF fight
    <3> QED
      BY <1>1, <1>2, <1>3 DEF Fight
  <2> HIDE DEF after
  <2> QED
    BY <2>1
<1>5. losses' \in [RealPlayers -> Nat]
  <2>1. PICK B0 : losses' = [c \in RealPlayers |-> losses[c] + (IF c \in B0 THEN 1 ELSE 0)]
    BY DEF Fight
  <2>2. losses \in [RealPlayers -> Nat]
    BY DEF IInv, Types
  <2>3. \A c \in RealPlayers : losses[c] + (IF c \in B0 THEN 1 ELSE 0) \in Nat
    BY <2>2
  <2> QED
    BY <2>1, <2>3
<1>6. /\ down[l] = <<>> /\ Awaits(l) /\ x \in Status /\ Tail(up[l]) = <<>> /\ Playing(x)
      /\ down[r] = <<>> /\ Awaits(r) /\ y \in Status /\ Tail(up[r]) = <<>> /\ Playing(y)
  <2>1. /\ down[l] = <<>> /\ Awaits(l) /\ Len(up[l]) = 1 /\ up[l] \in Seq(Status)
        /\ down[r] = <<>> /\ Awaits(r) /\ Len(up[r]) = 1 /\ up[r] \in Seq(Status)
    BY <1>3, <1>4, Quiet
  <2>2. Playing(x) /\ Playing(y)
    BY <1>3, <1>4 DEF IInv, Asked
  <2> QED
    BY <2>1, <2>2, OnlyOne
<1>7. /\ after \in Seq(Status) /\ Len(after) = 2
      /\ \A n \in 1 .. 2 : after[n] \in Status /\ after[n].current_battle_id = b
      /\ after[1].battle_ended_flag = after[2].battle_ended_flag
      /\ ~after[1].battle_ended_flag => Playing(after[1]) /\ Playing(after[2])
      /\ after[1].battle_ended_flag => (Alive(after[1]) <=> ~Alive(after[2]))
  BY <1>3, <1>6, OneRound
<1>8. up[b] = <<>> /\ down[b] = <<>> /\ ~PassedUp(b)
  BY <1>3, <1>4, Quiet DEF Awaits
<1> HIDE DEF x, y, after
<1>9. after[1] \in Status /\ after[2] \in Status /\ after[1].current_battle_id = b /\ after[2].current_battle_id = b
  <2>1. 1 \in 1 .. 2 /\ 2 \in 1 .. 2
    OBVIOUS
  <2> QED
    BY <1>7, <2>1
<1> DEFINE u == after[1]
           v == after[2]
<1>10. q \in {"wait", "fight"} /\ (q = "wait" <=> u.battle_ended_flag)
  OBVIOUS
<1>11. /\ u \in Status /\ v \in Status /\ u.current_battle_id = b /\ v.current_battle_id = b
       /\ u.battle_ended_flag \in BOOLEAN /\ u.battle_ended_flag = v.battle_ended_flag
       /\ ~u.battle_ended_flag => Playing(u) /\ Playing(v)
       /\ u.battle_ended_flag => (Alive(u) <=> ~Alive(v))
  BY <1>7, <1>9 DEF Status
<1>12. Remaining(b, after) = IF ~Alive(u) THEN 1 ELSE IF ~Alive(v) THEN 0 ELSE remain[b]
  BY DEF Remaining
<1>13. down' = [down EXCEPT ![l] = Append(down[l], u), ![r] = Append(down[r], v)]
  BY <1>4
<1> HIDE DEF q, u, v
<1>14. /\ up'[l] = <<>> /\ up'[r] = <<>> /\ \A d \in Procs \ {l, r} : up'[d] = up[d] /\ down'[d] = down[d]
       /\ down'[l] = <<u>> /\ down'[r] = <<v>>
       /\ pc'[b] = q /\ \A d \in Procs \ {b} : pc'[d] = pc[d]
       /\ \A d \in Battles \ {b} : remain'[d] = remain[d]
       /\ remain'[b] = Remaining(b, after)
  <2>1. Append(<<>>, u) = <<u>> /\ Append(<<>>, v) = <<v>>
    OBVIOUS
  <2> QED
    BY <1>3, <1>4, <1>6, <1>13, <2>1
<1>15. \A s : Head(<<s>>) = s /\ <<s>> # <<>>
  OBVIOUS
<1>16. pc'[l] \notin Done /\ pc'[r] \notin Done
  BY <1>3, <1>6, <1>14 DEF Awaits, Done, Exited
\* Who stands stays, unless the final is over; who fell leaves.
<1>17. ASSUME u.battle_ended_flag
       PROVE  /\ ~Alive(u) => Over(u) /\ (b # Root => ~Over(v))
              /\ Alive(u) => Over(v) /\ (b # Root => ~Over(u))
              /\ b = Root => Over(u) /\ Over(v)
  BY <1>11, <1>17 DEF Over, Alive, Status
<1>18. Fate(b)'
  <2>1. CASE ~u.battle_ended_flag
    <3>1. pc'[b] = "fight"
      BY <1>10, <1>14, <2>1
    <3>2. Playing(u) /\ Playing(v)
      BY <1>11, <2>1
    <3>3. Fights(l)' /\ Fights(r)'
      BY <1>14, <1>15, <1>16, <3>2 DEF Fights
    <3> QED
      BY <1>3, <3>1, <3>3 DEF Fate, Exited
  <2>2. CASE u.battle_ended_flag
    <3>1. pc'[b] = "wait"
      BY <1>10, <1>14, <2>2
    <3>2. /\ (Over(u) => Leaves(l)') /\ (~Over(u) => Stays(l)')
          /\ (Over(v) => Leaves(r)') /\ (~Over(v) => Stays(r)')
      BY <1>14, <1>15, <1>16 DEF Leaves, Stays
    <3>3. CASE b = Root
      <4>1. Leaves(l)' /\ Leaves(r)'
        BY <1>17, <2>2, <3>2, <3>3
      <4> QED
        BY <1>3, <3>1, <3>3, <4>1 DEF Fate, Exited
    <3>4. CASE b # Root
      <4>1. Stays(Remains(b))' /\ Leaves(Beaten(b))'
        <5>1. CASE ~Alive(u)
          <6>1. remain'[b] = 1
            BY <1>12, <1>14, <5>1
          <6>2. Remains(b)' = r /\ Beaten(b)' = l
            BY <1>1, <1>2, <6>1 DEF Remains, Beaten, Side
          <6>3. Stays(r)' /\ Leaves(l)'
            BY <1>17, <2>2, <3>2, <3>4, <5>1
          <6> QED
            BY <6>2, <6>3 DEF Stays, Leaves
        <5>2. CASE Alive(u)
          <6>1. remain'[b] = 0
            BY <1>11, <1>12, <1>14, <2>2, <5>2
          <6>2. Remains(b)' = l /\ Beaten(b)' = r
            BY <1>1, <1>2, <6>1 DEF Remains, Beaten, Side
          <6>3. Stays(l)' /\ Leaves(r)'
            BY <1>17, <2>2, <3>2, <3>4, <5>2
          <6> QED
            BY <6>2, <6>3 DEF Stays, Leaves
        <5> QED
          BY <5>1, <5>2
      <4> QED
        BY <3>1, <3>4, <4>1 DEF Fate, Exited
    <3> QED
      BY <3>3, <3>4
  <2> QED
    BY <2>1, <2>2
<1>19. pc'[b] \in {"wait", "fight"} /\ down'[b] = <<>> /\ up'[b] = <<>>
  BY <1>3, <1>8, <1>10, <1>14
<1>20. Stable(b)
  BY <1>4, <1>8, <1>19 DEF Stable, Fights, Stays, Leaves, Awaits, Done, Exited
<1>21. Len(up'[b]) + Len(down'[b]) = IF Awaits(b)' /\ ~PassedUp(b) THEN 1 ELSE 0
  <2>1. ~Awaits(b)'
    BY <1>19 DEF Awaits
  <2> QED
    BY <1>19, <2>1, Counts
<1>22. ASSUME NEW d \in Children(b)
       PROVE  Len(up'[d]) + Len(down'[d]) =
                IF Awaits(d)' /\ ~(pc'[b] = "relayDown" /\ Remains(b)' = d) THEN 1 ELSE 0
  <2>1. Awaits(d)' /\ pc'[b] # "relayDown"
    BY <1>3, <1>6, <1>14, <1>19 DEF Awaits
  <2>2. Len(up'[d]) + Len(down'[d]) = 1
    <3>1. Len(up'[l]) + Len(down'[l]) = 1 /\ Len(up'[r]) + Len(down'[r]) = 1
      BY <1>14, Counts
    <3> QED
      BY <1>3, <3>1
  <2> QED
    BY <2>1, <2>2
<1>23. \A d \in {b} \cup Children(b) : up'[d] # <<>> => Playing(Head(up'[d]))
  BY <1>3, <1>14, <1>19
<1>24. \A d \in Children(b) : IsMoved(d)
  BY <1>3, <1>14 DEF IsMoved
<1>25. Turns' /\ Asked' /\ Fates'
  BY <1>3, <1>14, <1>18, <1>20, <1>21, <1>22, <1>23, <1>24, BattleActs
<1>26. Types' /\ Born' /\ Fresh'
  <2>1. pc' \in [Procs -> BattleStates \cup PlayerStates] /\ pc'[b] \in BattleStates \ {"unborn", "fork"}
    BY <1>3, <1>4, <1>10, <1>14 DEF BattleStates
  <2>2. up' \in [Procs -> Seq(Status)] /\ down' \in [Procs -> Seq(Status)]
    <3>1. <<>> \in Seq(Status) /\ <<u>> \in Seq(Status) /\ <<v>> \in Seq(Status)
      BY <1>11
    <3>2. Append(down[l], u) = <<u>> /\ Append(down[r], v) = <<v>>
      <4>1. Append(<<>>, u) = <<u>> /\ Append(<<>>, v) = <<v>>
        OBVIOUS
      <4> QED
        BY <1>6, <4>1
    <3>3. down' = [down EXCEPT ![l] = <<u>>, ![r] = <<v>>]
      BY <1>13, <3>2
    <3>4. up' = [up EXCEPT ![l] = <<>>, ![r] = <<>>]
      BY <1>4, <1>6
    <3> QED
      BY <1>3, <3>1, <3>3, <3>4
  <2>3. \A d \in Children(b) : pc'[d] # "unborn"
    BY <1>3, <1>6, <1>14 DEF Awaits
  <2>4. remain' \in [Battles -> {-1, 0, 1}]
    <3>1. Remaining(b, after) \in {-1, 0, 1}
      BY <1>3, <1>12
    <3> QED
      BY <1>3, <1>4, <3>1
  <2>5. pc'[b] \in {"wait", "relayUp", "relayDown"} => remain'[b] # -1
    <3>1. pc'[b] = "wait" => Remaining(b, after) \in {0, 1}
      BY <1>10, <1>11, <1>12, <1>14
    <3> QED
      BY <1>14, <1>19, <3>1
  <2>6. /\ Player' \in [Battles -> Seq(Status \cup {NoStatus})]
        /\ \A d \in Battles : Len(Player'[d]) = 2
    <3>1. after \in Seq(Status \cup {NoStatus})
      BY <1>7, SeqMonotonic
    <3>2. \A d \in Battles : Len(Player[d]) = 2
      BY DEF IInv, Types
    <3> QED
      BY <1>3, <1>4, <1>7, <3>1, <3>2
  <2>7. champion' \in RealPlayers \cup {Nobody}
    BY <1>4 DEF IInv, Types
  <2>8. /\ UNCHANGED <<roster, fifo, p, originHP>> /\ pc[b] # "unborn"
        /\ b = Root => pc'[b] \in {"fight", "wait", "last", "gone"}
        /\ \A d \in Procs \ ({b} \cup Children(b)) : pc'[d] = pc[d]
        /\ \A d \in Battles \ {b} : remain'[d] = remain[d]
    BY <1>4, <1>14, <1>19
  <2> QED
    BY <1>5, <1>24, <2>1, <2>2, <2>3, <2>4, <2>5, <2>6, <2>7, <2>8, BattleFrame
<1> QED
  BY <1>25, <1>26 DEF IInv

-----------------------------------------------------------------------------
(* The invariant of every run.                                             *)

LEMMA InitIInv == Init => IInv
<1> SUFFICES ASSUME Init PROVE IInv
  OBVIOUS
<1>1. Len(<<>>) = 0 /\ <<>> \in Seq(Status)
  OBVIOUS
<1>2. \A c \in Procs : pc[c] = IF c = Root THEN "fork" ELSE "unborn"
  BY DEF Init
<1>3. \A c \in Procs : up[c] = <<>> /\ down[c] = <<>>
  BY DEF Init
<1>4. \A b \in Battles : /\ b \in Procs /\ b \notin Players
                         /\ Children(b) \subseteq Procs /\ Root \notin Children(b)
  BY Tree
<1>5. Root \in Battles /\ Agents \subseteq Players
  BY Tree
<1>6. \A c \in Players : c \in Procs /\ c # Root
  BY <1>4, <1>5 DEF Procs
<1>7. Types
  <2>1. <<NoStatus, NoStatus>> \in Seq(Status \cup {NoStatus}) /\ Len(<<NoStatus, NoStatus>>) = 2
    OBVIOUS
  <2>2. pc \in [Procs -> BattleStates \cup PlayerStates]
    BY DEF Init, BattleStates
  <2>3. \A b \in Battles : pc[b] \in {"fork", "unborn"}
    BY <1>2, <1>4
  <2>4. \A c \in Players : pc[c] = "unborn"
    BY <1>2, <1>6
  <2>5. /\ up \in [Procs -> Seq(Status)] /\ down \in [Procs -> Seq(Status)]
        /\ fifo \in [Agents -> Seq(Status)]
    BY <1>1 DEF Init
  <2>6. Player \in [Battles -> Seq(Status \cup {NoStatus})] /\ \A b \in Battles : Len(Player[b]) = 2
    BY <2>1 DEF Init
  <2>7. /\ roster \in Rosters /\ remain \in [Battles -> {-1, 0, 1}]
        /\ p \in [Players -> Status \cup {NoStatus}] /\ originHP \in [Players -> Nat]
        /\ champion \in RealPlayers \cup {Nobody} /\ losses \in [RealPlayers -> Nat]
    BY DEF Init
  <2> QED
    BY <2>2, <2>3, <2>4, <2>5, <2>6, <2>7 DEF Types, BattleStates, PlayerStates
<1>8. Born
  BY <1>2, <1>4, <1>5 DEF Born
<1>9. Turns /\ Asked
  <2>1. \A c \in Procs : ~Awaits(c)
    BY <1>2 DEF Awaits
  <2> QED
    BY <1>3, <2>1, Counts DEF Turns, Asked
<1>10. Fates
  <2>1. \A b \in Battles : pc[b] \in {"fork", "unborn"}
    BY <1>2, <1>4
  <2> QED
    BY <2>1 DEF Fates, Fate, Exited
<1>11. Fresh
  <2>1. \A c \in Players : pc[c] = "unborn"
    BY <1>2, <1>6
  <2>2. \A a \in Agents : fifo[a] = <<>>
    BY DEF Init
  <2> QED
    BY <1>5, <2>1, <2>2 DEF Fresh
<1> QED
  BY <1>7, <1>8, <1>9, <1>10, <1>11 DEF IInv

LEMMA NextIInv == IInv /\ [Next]_vars => IInv'
<1> SUFFICES ASSUME IInv, [Next]_vars PROVE IInv'
  OBVIOUS
<1>1. ASSUME NEW b \in Battles, BattleStep(b) PROVE IInv'
  BY <1>1, ForkIInv, FightIInv, WaitLoserIInv, RelayUpIInv, RelayDownIInv, WaitLastIInv
     DEF BattleStep
<1>2. ASSUME NEW c \in Players, PlayerStep(c) PROVE IInv'
  BY <1>2, StartIInv, PlayIInv, EmbodyIInv, HandOverIInv DEF PlayerStep
<1>3. CASE UNCHANGED vars
  BY <1>3 DEF vars, IInv, Types, Born, Turns, Asked, Fates, Fate, Fresh, Remains, Beaten,
              Awaits, PassedUp, Fights, Stays, Leaves
<1> QED
  BY <1>1, <1>2, <1>3 DEF Next

LEMMA AlwaysIInv == Spec => []IInv
BY InitIInv, NextIInv, PTL DEF Spec

\* Every state has its type; a battle that relays knows its side.
THEOREM ChampionshipTypes == Spec => []TypeOK
<1>1. IInv => TypeOK
  BY DEF IInv, Types, TypeOK, BattleStates, PlayerStates
<1> QED
  BY <1>1, AlwaysIInv, PTL

\* A process and its parent talk in turns, and nobody leaves a status unread
\* (the loops of battle.c:110-143 and player.c:63-73).
THEOREM TalkInTurns == Spec => []Lockstep
<1>1. IInv => Lockstep
  <2> SUFFICES ASSUME IInv, NEW c \in Procs
               PROVE  Len(up[c]) + Len(down[c]) <= IF pc[c] \in Exited THEN 0 ELSE 1
    BY DEF Lockstep
  <2>1. Len(up[c]) + Len(down[c]) = IF Awaits(c) /\ ~PassedUp(c) THEN 1 ELSE 0
    BY DEF IInv, Turns
  <2>2. Awaits(c) => pc[c] \notin Exited
    BY DEF Awaits, Exited
  <2> DEFINE n == Len(up[c]) + Len(down[c])
  <2>3. n = 0 \/ (n = 1 /\ pc[c] \notin Exited)
    BY <2>1, <2>2
  <2> HIDE DEF n
  <2>4. n <= IF pc[c] \in Exited THEN 0 ELSE 1
    BY <2>3
  <2> QED
    BY <2>4 DEF n
<1> QED
  BY <1>1, AlwaysIInv, PTL

\* Who is to write the status that a process waits for is still there: no read
\* of battle.c or player.c meets the end of the file.
THEOREM WriterIsThere == Spec => []NeverEndOfFile
<1>1. IInv => NeverEndOfFile
  <2> SUFFICES ASSUME IInv PROVE NeverEndOfFile
    OBVIOUS
  <2>1. ASSUME NEW b \in Battles, pc[b] = "fight", NEW c \in Children(b)
        PROVE  pc[c] \notin Exited \cup {"lose"}
    BY <2>1 DEF IInv, Fates, Fate, Fights, Done
  <2>2. ASSUME NEW b \in Battles, pc[b] = "relayUp"
        PROVE  pc[Remains(b)] \notin Exited \cup {"lose"}
    BY <2>2 DEF IInv, Fates, Fate, Stays, Done
  <2>3. ASSUME NEW c \in Procs \ {Root}, pc[c] \in {"play", "relayDown"}, down[c] = <<>>, up[c] = <<>>
        PROVE  pc[Parent(c)] \notin Exited \cup {"last"}
    <3>1. PassedUp(c)
      BY <2>3, Quiet DEF Awaits
    <3>2. Parent(c) \in Battles /\ c \in Children(Parent(c))
      BY Tree
    <3>3. pc[Parent(c)] = "relayDown"
      BY <3>1, <3>2, OfParent
    <3> QED
      BY <3>3 DEF Exited
  <2> QED
    BY <2>1, <2>2, <2>3 DEF NeverEndOfFile, Remains
<1> QED
  BY <1>1, AlwaysIInv, PTL

\* The first child a battle reaps is the one that lost, though wait(NULL)
\* names none (battle.c:122).
THEOREM FirstReapedLost == Spec => []ReapsLoser
<1>1. IInv => ReapsLoser
  BY DEF IInv, Fates, Fate, Stays, Done, Remains, Beaten, ReapsLoser
<1> QED
  BY <1>1, AlwaysIInv, PTL

-----------------------------------------------------------------------------
(* What the processes tell each other.  The bracket needs messages that    *)
(* were read long ago: h[c] is the status that was last written to the     *)
(* pipe down to c, NoStatus before the first one.                          *)

Ended(b) == Player[b][1].battle_ended_flag

\* Of the two statuses after a battle, which one stands.
Stands(sides) == CHOOSE n \in 1 .. 2 : Alive(sides[n])
Winner(b) == Player[b][Stands(Player[b])]
Loser(b)  == Player[b][3 - Stands(Player[b])]

\* Who plays for c, and whether that is settled.
LostIn(c) == CHOOSE b \in DOMAIN lose : lose[b] = c
Settled(c) ==
  IF c \in Battles THEN Ended(c)
  ELSE c \in RealPlayers \/ (c \in {lose[b] : b \in DOMAIN lose} /\ Ended(LostIn(c)))
Name(c) ==
  IF c \in Battles THEN Winner(c).real_player_id
  ELSE IF c \in RealPlayers THEN c ELSE Loser(LostIn(c)).real_player_id

\* A status after a round: if its battle has ended, it is on record.
Recorded(records, s) ==
  /\ Alive(s) \/ s.battle_ended_flag
  /\ s.battle_ended_flag => \E n \in 1 .. 2 : records[s.current_battle_id][n] = s

\* What c goes on with after it has read s, and what it sent or will send next.
Rested(players, s) ==
  IF s.battle_ended_flag /\ Alive(s)
    THEN [s EXCEPT !.HP = @ + (players[s.real_player_id].HP - @) \div 2,
                   !.battle_ended_flag = FALSE]
    ELSE s
Latest(h, c) ==
  IF h[c] # NoStatus THEN h[c] ELSE IF c \in Battles THEN Winner(c) ELSE p[c]

\* The pipes of a process hold what was said.
Pipe(h, c) ==
  /\ down[c] # <<>> => Head(down[c]) = h[c] /\ h[c] # NoStatus
  /\ up[c] # <<>> => Head(up[c]) = Rested(roster, Latest(h, c))
  /\ h[c] # NoStatus =>
       Recorded(Player, h[c]) /\ Settled(c) /\ h[c].real_player_id = Name(c)

\* The HP with which c enters a battle, and the force of a blow of player id.
Entry(c) ==
  LET full == roster[Name(c)].HP
  IN IF c \in Battles THEN Winner(c).HP + (full - Winner(c).HP) \div 2 ELSE full
Impact(players, b, id) ==
  players[id].ATK * (IF players[id].attr = ATTR[b] THEN 2 ELSE 1)

\* Either side of battle b has taken n blows, and has hx and hy left.
Score(b, n, hx, hy) ==
  /\ hx = Entry(left[b]) - n * Impact(roster, b, Name(right[b]))
  /\ hy = Entry(right[b]) - n * Impact(roster, b, Name(left[b]))

\* The record of a battle: before, during and after its rounds.
OverStates == {"wait", "relayUp", "relayDown", "last"} \cup Exited
Record(b) ==
  LET x == Player[b][1]  y == Player[b][2] IN
  /\ Ended(b) <=> pc[b] \in OverStates
  /\ Ended(b) => /\ y.battle_ended_flag /\ (Alive(x) <=> ~Alive(y))
                 /\ x.current_battle_id = b /\ y.current_battle_id = b
                 /\ remain[b] # -1 => Alive(Player[b][remain[b] + 1])
  /\ ~Ended(b) => \/ x = NoStatus /\ y = NoStatus
                  \/ /\ Playing(x) /\ Playing(y) /\ pc[b] = "fight"
                     /\ \E n \in Nat : Score(b, n, x.HP, y.HP)
  /\ x # NoStatus => /\ x \in Status /\ Settled(left[b]) /\ x.real_player_id = Name(left[b])
                     /\ y \in Status /\ Settled(right[b]) /\ y.real_player_id = Name(right[b])

\* What a battle has told its children and has been told itself.
Told(h, b) ==
  /\ pc[b] \in {"unborn", "fork", "fight", "wait"} =>
       h[b] = NoStatus /\ h[left[b]] = Player[b][1] /\ h[right[b]] = Player[b][2]
  /\ pc[b] = "relayUp" \/ (pc[b] = "relayDown" /\ down[b] = <<>>) =>
       h[Remains(b)] = Latest(h, b)

\* What a player knows: whom it plays, and how it starts, or ends.
Knows(h, c) ==
  /\ pc[c] \in {"unborn", "start", "open", "read"} => h[c] = NoStatus
  /\ pc[c] = "read" => /\ c \in Agents /\ Settled(c) /\ Head(fifo[c]).real_player_id = Name(c)
                       /\ Head(fifo[c]).HP = roster[Name(c)].HP
  /\ pc[c] = "play" => /\ Settled(c) /\ originHP[c] = roster[Name(c)].HP
                       /\ h[c] = NoStatus => /\ p[c] \in Status /\ p[c].real_player_id = Name(c)
                                             /\ p[c].HP = originHP[c] /\ Playing(p[c])
  /\ pc[c] = "lose" => /\ ~Alive(p[c]) /\ Recorded(Player, p[c])
                       /\ p[c].real_player_id = c /\ originHP[c] = roster[c].HP

Story(h) ==
  /\ h \in [Procs -> Status \cup {NoStatus}]
  /\ \A c \in Procs : Pipe(h, c)
  /\ \A b \in Battles : Record(b) /\ Told(h, b)
  /\ \A c \in Players : Knows(h, c)

\* A battle that has ended has a winner and a loser.
LEMMA Finals ==
  ASSUME Types, NEW b \in Battles, Record(b), Ended(b)
  PROVE  /\ Winner(b) \in Status /\ Alive(Winner(b)) /\ Winner(b).battle_ended_flag
         /\ Loser(b) \in Status /\ ~Alive(Loser(b)) /\ Loser(b).battle_ended_flag
         /\ Winner(b).current_battle_id = b /\ Loser(b).current_battle_id = b
         /\ \A n \in 1 .. 2 : Player[b][n] = IF Alive(Player[b][n]) THEN Winner(b) ELSE Loser(b)
         /\ \E n \in 1 .. 2 : Player[b][n] = Winner(b)
         /\ \E n \in 1 .. 2 : Player[b][n] = Loser(b)
<1> DEFINE P == Player[b]
           n == Stands(P)
<1>1. P[1] # NoStatus
  BY DEF Ended, NoStatus
<1>2. /\ P[1] \in Status /\ P[2] \in Status
      /\ P[1].battle_ended_flag /\ P[2].battle_ended_flag
      /\ P[1].current_battle_id = b /\ P[2].current_battle_id = b
      /\ Alive(P[1]) <=> ~Alive(P[2])
  BY <1>1 DEF Record, Ended
<1> HIDE DEF P
<1>3. n \in 1 .. 2 /\ Alive(P[n])
  <2>1. \E m \in 1 .. 2 : Alive(P[m])
    BY <1>2
  <2> QED
    BY <2>1 DEF Stands
<1>4. Winner(b) = P[n] /\ Loser(b) = P[3 - n]
  BY DEF Winner, Loser, P
<1> HIDE DEF n
<1>5. (n = 1 /\ 3 - n = 2) \/ (n = 2 /\ 3 - n = 1)
  BY <1>3
<1>6. CASE n = 1
  <2>1. Winner(b) = P[1] /\ Loser(b) = P[2]
    BY <1>4, <1>6, <1>5
  <2> QED
    BY <1>2, <1>3, <1>6, <2>1 DEF P
<1>7. CASE n = 2
  <2>1. Winner(b) = P[2] /\ Loser(b) = P[1]
    BY <1>4, <1>7, <1>5
  <2> QED
    BY <1>2, <1>3, <1>7, <2>1 DEF P
<1> QED
  BY <1>3, <1>6, <1>7

\* Who plays for a process that is settled is a real player.
LEMMA Named ==
  ASSUME Types, \A b \in Battles : Record(b), NEW c \in Procs, Settled(c)
  PROVE  Name(c) \in RealPlayers
<1>1. CASE c \in Battles
  <2>1. Winner(c) \in Status
    BY <1>1, Finals DEF Settled
  <2> QED
    BY <1>1, <2>1 DEF Name, Status
<1>2. CASE c \notin Battles /\ c \notin RealPlayers
  <2>1. LostIn(c) \in DOMAIN lose /\ Ended(LostIn(c))
    BY <1>2 DEF Settled, LostIn
  <2>2. LostIn(c) \in Battles
    BY <2>1, BracketAssumption
  <2>3. Loser(LostIn(c)) \in Status
    BY <2>1, <2>2, Finals
  <2> QED
    BY <1>2, <2>3 DEF Name, Status
<1>3. CASE c \notin Battles /\ c \in RealPlayers
  BY <1>3 DEF Name
<1> QED
  BY <1>1, <1>2, <1>3

\* What is on record stays as it is.
Kept == roster' = roster /\ \A b \in Battles : Ended(b) => Player'[b] = Player[b]

LEMMA Steady ==
  ASSUME Kept, NEW c, Settled(c)
  PROVE  Settled(c)' /\ Name(c)' = Name(c) /\ Entry(c)' = Entry(c)
<1>1. ASSUME NEW b \in Battles, Ended(b)
      PROVE  Ended(b)' /\ Winner(b)' = Winner(b) /\ Loser(b)' = Loser(b)
  BY <1>1 DEF Kept, Ended, Winner, Loser
<1>2. CASE c \in Battles
  BY <1>1, <1>2 DEF Kept, Settled, Name, Entry
<1>3. CASE c \notin Battles /\ c \notin RealPlayers
  <2>1. LostIn(c) \in DOMAIN lose /\ Ended(LostIn(c))
    BY <1>3 DEF Settled, LostIn
  <2>2. LostIn(c) \in Battles
    BY <2>1, BracketAssumption
  <2>3. Ended(LostIn(c))' /\ Loser(LostIn(c))' = Loser(LostIn(c))
    BY <1>1, <2>1, <2>2
  <2> QED
    BY <1>3, <2>3 DEF Kept, Settled, Name, Entry
<1>4. CASE c \notin Battles /\ c \in RealPlayers
  BY <1>4 DEF Kept, Settled, Name, Entry
<1> QED
  BY <1>2, <1>3, <1>4

LEMMA SteadyRecord ==
  ASSUME Kept, \A b \in Battles : Record(b),
         NEW s \in Status, Recorded(Player, s)
  PROVE  Recorded(Player', s)
<1>1. CASE s.battle_ended_flag
  <2>1. PICK n \in 1 .. 2 : Player[s.current_battle_id][n] = s
    BY <1>1 DEF Recorded
  <2>2. PICK b \in Battles : b = s.current_battle_id
    BY DEF Status
  <2>3. Ended(b)
    <3>1. n = 1 \/ n = 2
      OBVIOUS
    <3> QED
      BY <1>1, <2>1, <2>2, <3>1 DEF Record, Ended, Playing, NoStatus
  <2>4. Player'[b] = Player[b]
    BY <2>3 DEF Kept
  <2> QED
    BY <1>1, <2>1, <2>2, <2>4 DEF Recorded
<1>2. CASE ~s.battle_ended_flag
  BY <1>2 DEF Recorded
<1> QED
  BY <1>1, <1>2

\* A step that leaves alone what a conjunct speaks of.
SamePipe(h, k, c) ==
  /\ k[c] = h[c] /\ up'[c] = up[c] /\ down'[c] = down[c]
  /\ c \in Players /\ pc[c] = "play" => p'[c] = p[c]
SameRecord(b) ==
  /\ Player'[b] = Player[b] /\ remain'[b] \in {remain[b], -1}
  /\ pc'[b] \in OverStates <=> pc[b] \in OverStates
  /\ pc[b] = "fight" => pc'[b] = "fight"
SameTold(h, k, b) ==
  /\ IsMoved(b) /\ Player'[b] = Player[b] /\ remain'[b] = remain[b] /\ down'[b] = down[b]
  /\ k[b] = h[b] /\ k[left[b]] = h[left[b]] /\ k[right[b]] = h[right[b]]
SameKnows(h, k, c) ==
  /\ IsMoved(c) /\ p'[c] = p[c] /\ originHP'[c] = originHP[c] /\ k[c] = h[c]
  /\ pc[c] = "read" => fifo'[c] = fifo[c]

LEMMA PipeSame ==
  ASSUME IInv, NEW h, Story(h), NEW k, Kept, NEW c \in Procs, SamePipe(h, k, c)
  PROVE  Pipe(k, c)'
<1>1. /\ Pipe(h, c) /\ k[c] = h[c] /\ up'[c] = up[c] /\ down'[c] = down[c]
      /\ h[c] \in Status \cup {NoStatus} /\ roster' = roster
      /\ \A b \in Battles : Record(b)
  BY DEF Story, SamePipe, Kept
<1>2. down'[c] # <<>> => Head(down'[c]) = k[c] /\ k[c] # NoStatus
  BY <1>1 DEF Pipe
<1>3. ASSUME up'[c] # <<>> PROVE Head(up'[c]) = Rested(roster', Latest(k, c)')
  <2>1. Head(up[c]) = Rested(roster, Latest(h, c))
    BY <1>1, <1>3 DEF Pipe
  <2>2. Awaits(c)
    BY <1>1, <1>3, Quiet
  <2>3. CASE c \in Battles
    <3>1. pc[c] = "relayDown"
      BY <2>2, <2>3 DEF Awaits, IInv, Types, BattleStates, Exited
    <3>2. Ended(c)
      BY <1>1, <2>3, <3>1 DEF Record, OverStates
    <3>3. Player'[c] = Player[c]
      BY <2>3, <3>2 DEF Kept
    <3>4. Winner(c)' = Winner(c)
      BY <3>3 DEF Winner
    <3>5. Latest(k, c)' = Latest(h, c)
      BY <1>1, <2>3, <3>4 DEF Latest
    <3> QED
      BY <1>1, <2>1, <3>5
  <2>4. CASE c \notin Battles
    <3>1. c \in Players /\ pc[c] = "play"
      BY <2>2, <2>4 DEF Awaits, IInv, Types, PlayerStates, Exited, Procs
    <3>2. Latest(k, c)' = Latest(h, c)
      BY <1>1, <2>4, <3>1 DEF Latest, SamePipe
    <3> QED
      BY <1>1, <2>1, <3>2
  <2> QED
    BY <2>3, <2>4
<1>4. ASSUME k[c] # NoStatus
      PROVE  Recorded(Player', k[c]) /\ Settled(c)' /\ k[c].real_player_id = Name(c)'
  <2>1. Recorded(Player, h[c]) /\ Settled(c) /\ h[c].real_player_id = Name(c) /\ h[c] \in Status
    BY <1>1, <1>4 DEF Pipe
  <2>2. Recorded(Player', h[c])
    BY <1>1, <2>1, SteadyRecord
  <2> QED
    BY <1>1, <2>1, <2>2, Steady
<1> QED
  BY <1>2, <1>3, <1>4 DEF Pipe

LEMMA RecordSame ==
  ASSUME IInv, NEW b \in Battles, Record(b), Kept, SameRecord(b)
  PROVE  Record(b)'
<1>1. /\ Player'[b] = Player[b] /\ remain'[b] \in {remain[b], -1} /\ roster' = roster
      /\ pc'[b] \in OverStates <=> pc[b] \in OverStates
      /\ pc[b] = "fight" => pc'[b] = "fight"
  BY DEF SameRecord, Kept
<1>2. PICK x, y : x = Player[b][1] /\ y = Player[b][2]
  OBVIOUS
<1>3. Player'[b][1] = x /\ Player'[b][2] = y /\ (Ended(b)' <=> Ended(b))
  BY <1>1, <1>2 DEF Ended
<1>4. ASSUME x # NoStatus
      PROVE  /\ x \in Status /\ Settled(left[b])' /\ x.real_player_id = Name(left[b])'
             /\ y \in Status /\ Settled(right[b])' /\ y.real_player_id = Name(right[b])'
             /\ \A n, hx, hy : Score(b, n, hx, hy) => Score(b, n, hx, hy)'
  <2>1. /\ x \in Status /\ Settled(left[b]) /\ x.real_player_id = Name(left[b])
        /\ y \in Status /\ Settled(right[b]) /\ y.real_player_id = Name(right[b])
    BY <1>2, <1>4 DEF Record
  <2>2. /\ Settled(left[b])' /\ Name(left[b])' = Name(left[b]) /\ Entry(left[b])' = Entry(left[b])
        /\ Settled(right[b])' /\ Name(right[b])' = Name(right[b]) /\ Entry(right[b])' = Entry(right[b])
    BY <2>1, Steady
  <2>3. \A n, hx, hy : Score(b, n, hx, hy) => Score(b, n, hx, hy)'
    BY <1>1, <2>2 DEF Score
  <2> QED
    BY <2>1, <2>2, <2>3
<1>5. ASSUME ~Ended(b)
      PROVE  \/ x = NoStatus /\ y = NoStatus
             \/ /\ Playing(x) /\ Playing(y) /\ pc'[b] = "fight"
                /\ \E n \in Nat : Score(b, n, x.HP, y.HP)'
  <2>1. CASE x = NoStatus
    <3>1. ~Playing(x)
      BY <2>1 DEF Playing, Alive, NoStatus
    <3> QED
      BY <1>2, <1>5, <2>1, <3>1 DEF Record
  <2>2. CASE x # NoStatus
    <3>1. Playing(x) /\ Playing(y) /\ pc[b] = "fight" /\ \E n \in Nat : Score(b, n, x.HP, y.HP)
      BY <1>2, <1>5, <2>2 DEF Record
    <3>2. PICK n \in Nat : Score(b, n, x.HP, y.HP)
      BY <3>1
    <3>3. Score(b, n, x.HP, y.HP)'
      BY <1>4, <2>2, <3>2
    <3> QED
      BY <1>1, <3>1, <3>3
  <2> QED
    BY <2>1, <2>2
<1>6. Ended(b) => /\ y.battle_ended_flag /\ (Alive(x) <=> ~Alive(y))
                  /\ x.current_battle_id = b /\ y.current_battle_id = b
                  /\ remain'[b] # -1 => Alive(Player'[b][remain'[b] + 1])
  BY <1>1, <1>2 DEF Record
<1>7. Ended(b)' <=> pc'[b] \in OverStates
  BY <1>1, <1>3 DEF Record
<1> QED
  BY <1>3, <1>4, <1>5, <1>6, <1>7 DEF Record

LEMMA ToldSame ==
  ASSUME NEW h, NEW k, NEW b \in Battles, Told(h, b), SameTold(h, k, b)
  PROVE  Told(k, b)'
<1>1. /\ Remains(b)' = Remains(b) /\ (Remains(b) = left[b] \/ Remains(b) = right[b])
      /\ Winner(b)' = Winner(b)
  BY DEF SameTold, Remains, Side, Winner
<1>2. k[Remains(b)] = h[Remains(b)] /\ Latest(k, b)' = Latest(h, b)
  BY <1>1 DEF SameTold, Latest
<1>3. /\ pc'[b] \in {"unborn", "fork", "fight", "wait"} => pc[b] \in {"unborn", "fork", "fight", "wait"}
      /\ \A q \in {"relayUp", "relayDown"} : pc'[b] = q => pc[b] = q
  BY DEF SameTold, IsMoved
<1> QED
  BY <1>1, <1>2, <1>3 DEF SameTold, Told

LEMMA KnowsSame ==
  ASSUME NEW h, NEW k, NEW c \in Players, Knows(h, c), SameKnows(h, k, c), Kept,
         \A b \in Battles : Record(b), IInv
  PROVE  Knows(k, c)'
<1>0. c \notin Battles
  BY BracketAssumption
<1>1. /\ p'[c] = p[c] /\ originHP'[c] = originHP[c] /\ k[c] = h[c] /\ roster' = roster
      /\ pc[c] = "read" => fifo'[c] = fifo[c]
      /\ pc'[c] = pc[c] \/ (pc[c] = "unborn" /\ pc'[c] = "start") \/ pc'[c] = "reaped"
  BY <1>0 DEF SameKnows, IsMoved, Kept
<1>2. Settled(c) => Settled(c)' /\ Name(c)' = Name(c)
  BY Steady
<1>3. pc[c] = "lose" => Recorded(Player', p[c])
  <2>1. pc[c] = "lose" => Recorded(Player, p[c]) /\ p[c] \in Status
    BY DEF Knows, IInv, Fresh
  <2> QED
    BY <2>1, SteadyRecord
<1> QED
  BY <1>1, <1>2, <1>3 DEF Knows, Playing, Alive

LEMMA Rest ==
  ASSUME IInv, NEW h, Story(h), NEW k \in [Procs -> Status \cup {NoStatus}], Kept,
         \A c \in Procs : Pipe(k, c)' \/ SamePipe(h, k, c),
         \A b \in Battles : Record(b)' \/ SameRecord(b),
         \A b \in Battles : Told(k, b)' \/ SameTold(h, k, b),
         \A c \in Players : Knows(k, c)' \/ SameKnows(h, k, c)
  PROVE  Story(k)'
<1>1. \A c \in Procs : Pipe(k, c)'
  BY PipeSame
<1>2. \A b \in Battles : Record(b)' /\ Told(k, b)'
  <2> SUFFICES ASSUME NEW b \in Battles PROVE Record(b)' /\ Told(k, b)'
    OBVIOUS
  <2>1. Record(b) /\ Told(h, b)
    BY DEF Story
  <2> QED
    BY <2>1, RecordSame, ToldSame
<1>3. \A c \in Players : Knows(k, c)'
  <2> SUFFICES ASSUME NEW c \in Players PROVE Knows(k, c)'
    OBVIOUS
  <2>1. Knows(h, c) /\ \A b \in Battles : Record(b)
    BY DEF Story
  <2> QED
    BY <2>1, KnowsSame
<1>4. Status' = Status /\ NoStatus' = NoStatus
  BY DEF Status, NoStatus
<1> QED
  BY <1>1, <1>2, <1>3, <1>4 DEF Story

-----------------------------------------------------------------------------
(* The story goes on: the steps of battles that only pass on.              *)

LEMMA ForkStory ==
  ASSUME IInv, NEW h, Story(h), NEW b \in Battles, Fork(b)
  PROVE  \E k : Story(k)'
<1>0. /\ b \in Procs /\ b \notin Players /\ b \notin Children(b) /\ Children(b) \subseteq Procs
      /\ h \in [Procs -> Status \cup {NoStatus}] /\ Told(h, b)
      /\ \A c \in Players : c \in Procs /\ c # b
      /\ \A d \in Battles : d \in Procs
  BY Tree DEF Story, Procs
<1>1. /\ pc[b] = "fork"
      /\ pc' = [c \in Procs |-> IF c = b THEN "fight"
                                ELSE IF c \notin Children(b) THEN pc[c]
                                ELSE IF c \in Battles THEN "fork" ELSE "start"]
      /\ UNCHANGED <<roster, up, down, fifo, remain, Player, p, originHP>>
  BY DEF Fork
<1>2. \A c \in Children(b) : pc[c] = "unborn"
  BY <1>1 DEF IInv, Born
<1>3. pc'[b] = "fight" /\ \A c \in Procs \ {b} : IsMoved(c)
  BY <1>0, <1>1, <1>2 DEF IsMoved
<1>4. Kept
  BY <1>1 DEF Kept
<1>5. \A c \in Procs : SamePipe(h, h, c)
  BY <1>1 DEF SamePipe
<1>6. \A d \in Battles : SameRecord(d)
  BY <1>0, <1>1, <1>3 DEF SameRecord, IsMoved, OverStates, Exited
<1>7. \A d \in Battles \ {b} : SameTold(h, h, d)
  BY <1>0, <1>1, <1>3 DEF SameTold
<1>8. Told(h, b)'
  BY <1>0, <1>1, <1>3 DEF Told
<1>9. \A c \in Players : SameKnows(h, h, c)
  BY <1>0, <1>1, <1>3 DEF SameKnows
<1>10. Story(h)'
  BY <1>0, <1>4, <1>5, <1>6, <1>7, <1>8, <1>9, Rest
<1> QED
  BY <1>10

LEMMA WaitStory ==
  ASSUME IInv, NEW h, Story(h), NEW b \in Battles, WaitLoser(b) \/ WaitLast(b)
  PROVE  \E k : Story(k)'
<1>0. /\ b \in Procs /\ b \notin Children(b) /\ Children(b) \subseteq Procs
      /\ pc \in [Procs -> BattleStates \cup PlayerStates]
      /\ h \in [Procs -> Status \cup {NoStatus}] /\ Told(h, b) /\ Record(b)
      /\ \A c \in Players : c \in Procs /\ c # b
      /\ \A d \in Battles : d \in Procs
  <2>1. pc \in [Procs -> BattleStates \cup PlayerStates]
    BY DEF IInv, Types
  <2> QED
    BY <2>1, Tree DEF Story, Procs
<1>1. UNCHANGED <<roster, up, down, fifo, remain, Player, p, originHP>>
  BY DEF WaitLoser, WaitLast
<1>2. PICK next \in {"last", "relayUp", "gone"} :
        /\ Wait(b, next) /\ pc[b] \in {"wait", "last"}
        /\ next = "relayUp" => pc[b] = "wait"
  BY DEF WaitLoser, WaitLast
<1>3. PICK c \in Children(b) : pc[c] = "gone" /\ pc' = [pc EXCEPT ![c] = "reaped", ![b] = next]
  BY <1>2 DEF Wait
<1>4. pc'[b] = next /\ \A d \in Procs \ {b} : IsMoved(d)
  BY <1>0, <1>3 DEF IsMoved
<1>5. Kept
  BY <1>1 DEF Kept
<1>6. \A d \in Procs : SamePipe(h, h, d)
  BY <1>1 DEF SamePipe
<1>7. \A d \in Battles : SameRecord(d)
  BY <1>0, <1>1, <1>2, <1>4 DEF SameRecord, IsMoved, OverStates, Exited
<1>8. \A d \in Battles \ {b} : SameTold(h, h, d)
  BY <1>0, <1>1, <1>4 DEF SameTold
<1>9. Told(h, b)'
  <2>1. CASE next # "relayUp"
    BY <1>2, <1>4, <2>1 DEF Told
  <2>2. CASE next = "relayUp"
    <3>1. h[b] = NoStatus /\ h[left[b]] = Player[b][1] /\ h[right[b]] = Player[b][2] /\ pc[b] = "wait"
      BY <1>0, <1>2, <2>2 DEF Told
    <3>2. remain[b] = 0 \/ remain[b] = 1
      BY <3>1 DEF IInv, Types
    <3>3. Ended(b)
      BY <1>0, <3>1 DEF Record, OverStates
    <3>4. h[Remains(b)] = Winner(b)
      <4>1. Alive(Player[b][remain[b] + 1])
        BY <1>0, <3>2, <3>3 DEF Record
      <4>2. CASE remain[b] = 0
        <5>1. Alive(Player[b][1]) /\ Remains(b) = left[b]
          BY <4>1, <4>2 DEF Remains, Side
        <5> QED
          BY <1>0, <3>1, <3>3, <5>1, Finals DEF IInv
      <4>3. CASE remain[b] = 1
        <5>1. Alive(Player[b][2]) /\ Remains(b) = right[b]
          BY <4>1, <4>3 DEF Remains, Side
        <5> QED
          BY <1>0, <3>1, <3>3, <5>1, Finals DEF IInv
      <4> QED
        BY <3>2, <4>2, <4>3
    <3>5. Remains(b)' = Remains(b) /\ Latest(h, b)' = Winner(b)
      BY <1>1, <3>1 DEF Remains, Latest, Winner
    <3> QED
      BY <1>4, <2>2, <3>4, <3>5 DEF Told
  <2> QED
    BY <2>1, <2>2
<1>10. \A d \in Players : SameKnows(h, h, d)
  BY <1>0, <1>1, <1>4 DEF SameKnows
<1>11. Story(h)'
  BY <1>0, <1>5, <1>6, <1>7, <1>8, <1>9, <1>10, Rest
<1> QED
  BY <1>11

\* The winner that a battle relays for.
LEMMA Stayed ==
  ASSUME Types, NEW b \in Battles, Record(b), pc[b] \in {"relayUp", "relayDown"}
  PROVE  /\ Ended(b) /\ Winner(b) # NoStatus /\ Settled(Remains(b))
         /\ Name(Remains(b)) = Name(b)
<1>1. Ended(b)
  BY DEF Record, OverStates
<1>2. remain[b] = 0 \/ remain[b] = 1
  BY DEF Types
<1>3. Alive(Player[b][remain[b] + 1])
  BY <1>1, <1>2 DEF Record
<1>4. Player[b][1] # NoStatus
  BY <1>1 DEF Ended, NoStatus
<1>5. Alive(Winner(b)) /\ Name(b) = Winner(b).real_player_id
  BY <1>1, Finals DEF Name
<1>6. Winner(b) # NoStatus
  BY <1>5 DEF Alive, NoStatus
<1>7. CASE remain[b] = 0
  <2>1. Winner(b) = Player[b][1] /\ Remains(b) = left[b]
    BY <1>1, <1>3, <1>7, Finals DEF Remains, Side
  <2> QED
    BY <1>1, <1>4, <1>5, <1>6, <2>1 DEF Record
<1>8. CASE remain[b] = 1
  <2>1. Winner(b) = Player[b][2] /\ Remains(b) = right[b]
    BY <1>1, <1>3, <1>8, Finals DEF Remains, Side
  <2> QED
    BY <1>1, <1>4, <1>5, <1>6, <2>1 DEF Record
<1> QED
  BY <1>2, <1>7, <1>8

LEMMA RelayUpStory ==
  ASSUME IInv, NEW h, Story(h), NEW b \in Battles, RelayUp(b)
  PROVE  \E k : Story(k)'
<1>0. PICK c \in Children(b) : c = Remains(b)
  BY Tree
<1>1. /\ b \in Procs /\ c \in Procs /\ Children(b) \subseteq Procs /\ b \notin Children(b) /\ c # b
      /\ pc \in [Procs -> BattleStates \cup PlayerStates] /\ up \in [Procs -> Seq(Status)]
      /\ h \in [Procs -> Status \cup {NoStatus}] /\ Told(h, b) /\ Record(b)
      /\ Pipe(h, b) /\ Pipe(h, c)
      /\ \A d \in Players : d \in Procs /\ d # b
      /\ \A d \in Battles : d \in Procs
  <2>1. b \in Procs /\ b \notin Children(b) /\ b \notin Players /\ Children(b) \subseteq Procs
    BY Tree
  <2>2. c \in Procs /\ c # b
    BY <2>1
  <2>3. pc \in [Procs -> BattleStates \cup PlayerStates] /\ up \in [Procs -> Seq(Status)]
    BY DEF IInv, Types
  <2> QED
    BY <2>1, <2>2, <2>3 DEF Story, Procs
<1>2. /\ pc[b] = "relayUp" /\ up[c] # <<>>
      /\ up' = [up EXCEPT ![c] = Tail(up[c]), ![b] = Append(up[b], Head(up[c]))]
      /\ pc' = [pc EXCEPT ![b] = "relayDown"]
      /\ UNCHANGED <<roster, down, fifo, remain, Player, p, originHP>>
  BY <1>0, <1>1 DEF RelayUp, Remains
<1>3. /\ down[c] = <<>> /\ Tail(up[c]) = <<>> /\ up[b] = <<>> /\ down[b] = <<>>
  <2>1. down[c] = <<>> /\ Len(up[c]) = 1 /\ up[c] \in Seq(Status)
    BY <1>1, <1>2, Quiet
  <2>2. up[b] = <<>> /\ down[b] = <<>>
    BY <1>1, <1>2, Quiet DEF Awaits
  <2> QED
    BY <2>1, <2>2, OnlyOne
<1> DEFINE s == Head(up[c])
<1>4. /\ up'[c] = <<>> /\ up'[b] = <<s>> /\ Head(up'[b]) = s
      /\ \A d \in Procs \ {b, c} : up'[d] = up[d]
      /\ pc'[b] = "relayDown" /\ \A d \in Procs \ {b} : pc'[d] = pc[d]
  <2>1. Append(<<>>, s) = <<s>> /\ Head(<<s>>) = s
    OBVIOUS
  <2> QED
    BY <1>1, <1>2, <1>3, <2>1
\* What goes up is what its own side said before.
<1>5. s = Rested(roster, Latest(h, b)) /\ h[c] = Latest(h, b)
  <2>1. h[c] = Latest(h, b)
    BY <1>0, <1>1, <1>2 DEF Told
  <2>2. Winner(b) # NoStatus
    BY <1>1, <1>2, Stayed DEF IInv
  <2>3. h[c] # NoStatus
    BY <2>1, <2>2 DEF Latest
  <2>4. s = Rested(roster, Latest(h, c))
    BY <1>1, <1>2 DEF Pipe
  <2> QED
    BY <2>1, <2>3, <2>4 DEF Latest
<1> HIDE DEF s
<1>6. Kept
  BY <1>2 DEF Kept
<1>7. Latest(h, b)' = Latest(h, b) /\ Remains(b)' = c
  BY <1>0, <1>2 DEF Latest, Winner, Remains
<1>8. \A d \in Battles : SameRecord(d)
  BY <1>1, <1>2, <1>4 DEF SameRecord, OverStates
<1>9. \A d \in Battles \ {b} : SameTold(h, h, d)
  BY <1>1, <1>2, <1>4 DEF SameTold, IsMoved
<1>10. Told(h, b)'
  BY <1>4, <1>5, <1>7 DEF Told
<1>11. \A d \in Players : SameKnows(h, h, d)
  BY <1>1, <1>2, <1>4 DEF SameKnows, IsMoved
<1>12. \A d \in Procs \ {b, c} : SamePipe(h, h, d)
  BY <1>2, <1>4 DEF SamePipe
<1>13. ASSUME NEW d \in Procs, h[d] # NoStatus
       PROVE  Recorded(Player', h[d]) /\ Settled(d)' /\ h[d].real_player_id = Name(d)'
  <2>1. /\ Recorded(Player, h[d]) /\ Settled(d) /\ h[d].real_player_id = Name(d) /\ h[d] \in Status
        /\ \A e \in Battles : Record(e)
    BY <1>1, <1>13 DEF Story, Pipe
  <2> QED
    BY <1>6, <2>1, Steady, SteadyRecord
<1>14. Pipe(h, b)'
  BY <1>1, <1>2, <1>3, <1>4, <1>5, <1>7, <1>13 DEF Pipe
<1>15. Pipe(h, c)'
  BY <1>1, <1>2, <1>3, <1>4, <1>13 DEF Pipe
<1>16. Story(h)'
  BY <1>1, <1>6, <1>8, <1>9, <1>10, <1>11, <1>12, <1>14, <1>15, Rest
<1> QED
  BY <1>16

LEMMA RelayDownStory ==
  ASSUME IInv, NEW h, Story(h), NEW b \in Battles, RelayDown(b)
  PROVE  \E k : Story(k)'
<1>0. PICK c \in Children(b) : c = Remains(b)
  BY Tree
<1>1. /\ b \in Procs /\ c \in Procs /\ Children(b) \subseteq Procs /\ b \notin Children(b) /\ c # b
      /\ pc \in [Procs -> BattleStates \cup PlayerStates] /\ down \in [Procs -> Seq(Status)]
      /\ remain \in [Battles -> {-1, 0, 1}]
      /\ h \in [Procs -> Status \cup {NoStatus}] /\ Told(h, b) /\ Record(b)
      /\ Pipe(h, b) /\ Pipe(h, c)
      /\ \A d \in Players : d \in Procs /\ d # b
      /\ \A d \in Battles : d \in Procs
  <2>1. b \in Procs /\ b \notin Children(b) /\ b \notin Players /\ Children(b) \subseteq Procs
    BY Tree
  <2>2. c \in Procs /\ c # b
    BY <2>1
  <2>3. /\ pc \in [Procs -> BattleStates \cup PlayerStates] /\ down \in [Procs -> Seq(Status)]
        /\ remain \in [Battles -> {-1, 0, 1}]
    BY DEF IInv, Types
  <2> QED
    BY <2>1, <2>2, <2>3 DEF Story, Procs
<1>2. PICK s : s = Head(down[b])
  OBVIOUS
<1>3. PICK q \in {"last", "relayUp"} :
        /\ pc[b] = "relayDown" /\ down[b] # <<>>
        /\ down' = [down EXCEPT ![b] = Tail(down[b]), ![c] = Append(down[c], s)]
        /\ pc' = [pc EXCEPT ![b] = q]
        /\ \A d \in Battles \ {b} : remain'[d] = remain[d]
        /\ remain'[b] \in {remain[b], -1}
        /\ q = "relayUp" => remain' = remain
        /\ UNCHANGED <<roster, up, fifo, Player, p, originHP>>
  <2> DEFINE Q(q) == /\ pc[b] = "relayDown" /\ down[b] # <<>>
                     /\ down' = [down EXCEPT ![b] = Tail(down[b]), ![c] = Append(down[c], s)]
                     /\ pc' = [pc EXCEPT ![b] = q]
                     /\ \A d \in Battles \ {b} : remain'[d] = remain[d]
                     /\ remain'[b] \in {remain[b], -1}
                     /\ q = "relayUp" => remain' = remain
                     /\ UNCHANGED <<roster, up, fifo, Player, p, originHP>>
  <2>1. /\ pc[b] = "relayDown" /\ down[b] # <<>>
        /\ down' = [down EXCEPT ![b] = Tail(down[b]), ![c] = Append(down[c], s)]
        /\ UNCHANGED <<roster, up, fifo, Player, p, originHP>>
    BY <1>0, <1>1, <1>2 DEF RelayDown, Remains
  <2>2. CASE Over(s)
    <3>1. remain' = [remain EXCEPT ![b] = -1] /\ pc' = [pc EXCEPT ![b] = "last"]
      BY <1>0, <1>2, <2>2 DEF RelayDown
    <3>2. Q("last")
      BY <1>1, <2>1, <3>1
    <3> QED
      BY <3>2
  <2>3. CASE ~Over(s)
    <3>1. remain' = remain /\ pc' = [pc EXCEPT ![b] = "relayUp"]
      BY <1>0, <1>2, <2>3 DEF RelayDown
    <3>2. Q("relayUp")
      BY <2>1, <3>1
    <3> QED
      BY <3>2
  <2> QED
    BY <2>2, <2>3
<1>4. up[b] = <<>> /\ s \in Status /\ Tail(down[b]) = <<>>
  <2>1. up[b] = <<>> /\ Len(down[b]) = 1 /\ down[b] \in Seq(Status)
    BY <1>1, <1>3, Quiet
  <2> QED
    BY <1>2, <2>1, OnlyOne
<1>5. up[c] = <<>> /\ down[c] = <<>> /\ Awaits(c)
  <2>1. PassedUp(c)
    BY <1>0, <1>3, OfParent
  <2>2. Awaits(c)
    BY <1>0, <1>3 DEF IInv, Fates, Fate
  <2> QED
    BY <1>1, <2>1, <2>2, Quiet
<1>6. /\ down'[b] = <<>> /\ down'[c] # <<>> /\ Head(down'[c]) = s
      /\ \A d \in Procs \ {b, c} : down'[d] = down[d]
      /\ pc'[b] = q /\ \A d \in Procs \ {b} : pc'[d] = pc[d]
  <2>1. Append(<<>>, s) = <<s>> /\ Head(<<s>>) = s /\ <<s>> # <<>>
    OBVIOUS
  <2>2. down'[c] = <<s>>
    BY <1>1, <1>3, <1>5, <2>1
  <2> QED
    BY <1>1, <1>3, <1>4, <2>1, <2>2
<1>7. s = h[b] /\ s # NoStatus
  BY <1>1, <1>2, <1>3 DEF Pipe
<1>8. PICK k : k = [h EXCEPT ![c] = s]
  OBVIOUS
<1>9. /\ k \in [Procs -> Status \cup {NoStatus}] /\ k[c] = s
      /\ \A d \in Procs \ {c} : k[d] = h[d]
  BY <1>1, <1>4, <1>8
<1>10. Kept
  BY <1>3 DEF Kept
<1>11. \A d \in Battles : SameRecord(d)
  BY <1>1, <1>3, <1>6 DEF SameRecord, OverStates
<1>12. \A d \in Battles \ {b} : left[d] # c /\ right[d] # c /\ left[d] \in Procs /\ right[d] \in Procs
  BY Tree
<1>13. \A d \in Battles \ {b, c} : SameTold(h, k, d)
  BY <1>1, <1>3, <1>6, <1>9, <1>12 DEF SameTold, IsMoved
<1>14. Told(k, b)'
  <2>1. CASE q = "relayUp"
    <3>1. Remains(b)' = c
      BY <1>0, <1>3, <2>1 DEF Remains
    <3>2. Latest(k, b)' = s
      BY <1>1, <1>7, <1>9 DEF Latest
    <3> QED
      BY <1>6, <1>9, <2>1, <3>1, <3>2 DEF Told
  <2>2. CASE q = "last"
    BY <1>6, <2>2 DEF Told
  <2> QED
    BY <2>1, <2>2
<1>15. ASSUME c \in Battles PROVE Told(k, c)'
  <2>1. pc[c] = "relayDown"
    BY <1>5, <1>15 DEF Awaits, IInv, Types, BattleStates, Exited
  <2>2. pc'[c] = "relayDown"
    BY <1>1, <1>6, <2>1
  <2> QED
    BY <1>6, <2>2 DEF Told
<1>16. \A d \in Players \ {c} : SameKnows(h, k, d)
  BY <1>1, <1>3, <1>6, <1>9 DEF SameKnows, IsMoved
<1>17. ASSUME c \in Players PROVE Knows(k, c)'
  <2>1. pc[c] = "play"
    <3>1. c \notin Battles
      BY <1>17, BracketAssumption
    <3> QED
      BY <1>5, <1>17 DEF Awaits, IInv, Types, PlayerStates, Exited
  <2>2. pc'[c] = "play"
    BY <1>1, <1>6, <2>1
  <2>3. Settled(c) /\ originHP[c] = roster[Name(c)].HP
    BY <1>17, <2>1 DEF Story, Knows
  <2>4. Settled(c)' /\ originHP'[c] = roster'[Name(c)']. HP
    BY <1>3, <1>10, <2>3, Steady
  <2> QED
    BY <1>7, <1>9, <2>2, <2>4 DEF Knows
<1>18. \A d \in Procs \ {b, c} : SamePipe(h, k, d)
  BY <1>3, <1>6, <1>9 DEF SamePipe
\* The side that remains is the winner, whom the answer is about.
<1>19. Recorded(Player', s) /\ Settled(c)' /\ s.real_player_id = Name(c)' /\ Settled(b)' /\ Name(b)' = Name(c)'
  <2>1. Recorded(Player, s) /\ Settled(b) /\ s.real_player_id = Name(b)
    BY <1>1, <1>7 DEF Pipe
  <2>2. Settled(c) /\ Name(c) = Name(b)
    BY <1>0, <1>1, <1>3, Stayed DEF IInv
  <2> QED
    BY <1>4, <1>10, <2>1, <2>2, Steady, SteadyRecord DEF Story
<1>20. Pipe(k, b)'
  BY <1>1, <1>3, <1>4, <1>6, <1>7, <1>9, <1>19 DEF Pipe
<1>21. Pipe(k, c)'
  BY <1>3, <1>5, <1>6, <1>7, <1>9, <1>19 DEF Pipe
<1>22. Story(k)'
  BY <1>1, <1>9, <1>10, <1>11, <1>13, <1>14, <1>15, <1>16, <1>17, <1>18, <1>20, <1>21, Rest
<1> QED
  BY <1>22

-----------------------------------------------------------------------------
(* The story goes on: the steps of players.                                *)

\* A player's step touches the player only.
LEMMA PlayerStory ==
  ASSUME IInv, NEW h, Story(h), NEW c \in Players,
         UNCHANGED <<roster, remain, Player>>,
         \A d \in Procs \ {c} : /\ pc'[d] = pc[d] \/ (d \in Players /\ Knows(h, d)')
                                /\ up'[d] = up[d] /\ down'[d] = down[d],
         \A d \in Players \ {c} : /\ p'[d] = p[d] /\ originHP'[d] = originHP[d]
                                  /\ pc[d] = "read" => fifo'[d] = fifo[d],
         down'[c] = <<>>, up'[c] # <<>> => Head(up'[c]) = Rested(roster, Latest(h, c)'),
         Knows(h, c)'
  PROVE  \E k : Story(k)'
<1>1. /\ c \in Procs /\ c \notin Battles /\ h \in [Procs -> Status \cup {NoStatus}]
      /\ \A d \in Battles : d \in Procs /\ d # c /\ d \notin Players
      /\ \A d \in Players : d \in Procs
  BY Tree DEF Story, Procs
<1>2. Kept
  BY DEF Kept
<1>3. \A d \in Battles : pc'[d] = pc[d] /\ down'[d] = down[d]
  BY <1>1
<1>4. \A d \in Battles : SameRecord(d) /\ SameTold(h, h, d)
  BY <1>3 DEF SameRecord, SameTold, IsMoved
<1>5. \A d \in Players \ {c} : Knows(h, d)' \/ SameKnows(h, h, d)
  BY <1>1 DEF SameKnows, IsMoved
<1>6. \A d \in Procs \ {c} : SamePipe(h, h, d)
  BY DEF SamePipe
<1>7. Pipe(h, c)'
  <2>1. ASSUME h[c] # NoStatus
        PROVE  Recorded(Player', h[c]) /\ Settled(c)' /\ h[c].real_player_id = Name(c)'
    <3>1. /\ Recorded(Player, h[c]) /\ Settled(c) /\ h[c].real_player_id = Name(c) /\ h[c] \in Status
          /\ \A e \in Battles : Record(e)
      BY <1>1, <2>1 DEF Story, Pipe
    <3> QED
      BY <1>2, <3>1, Steady, SteadyRecord
  <2> QED
    BY <2>1 DEF Pipe
<1>8. Story(h)'
  BY <1>1, <1>2, <1>4, <1>5, <1>6, <1>7, Rest
<1> QED
  BY <1>8

\* A first status is fresh: there is nothing to recover.
LEMMA StartStory ==
  ASSUME IInv, NEW h, Story(h), NEW c \in Players, Start(c)
  PROVE  \E k : Story(k)'
<1>1. /\ c \in Procs /\ c \notin Battles /\ c # Root /\ pc[c] = "start" /\ roster \in Rosters
      /\ pc \in [Procs -> BattleStates \cup PlayerStates] /\ up \in [Procs -> Seq(Status)]
      /\ p \in [Players -> Status \cup {NoStatus}] /\ originHP \in [Players -> Nat]
      /\ h[c] = NoStatus
      /\ UNCHANGED <<roster, down, fifo, remain, Player>>
  <2>1. c \in Procs /\ c \notin Battles /\ c # Root
    BY Tree DEF Procs
  <2> QED
    BY <2>1 DEF Start, IInv, Types, Story, Knows
<1>2. up[c] = <<>> /\ down[c] = <<>>
  BY <1>1, Quiet DEF Awaits
<1>3. CASE c \in RealPlayers
  <2>1. PICK s : s = [real_player_id |-> c, HP |-> roster[c].HP,
                      current_battle_id |-> Parent(c), battle_ended_flag |-> FALSE]
    OBVIOUS
  <2>2. Enter(c, s) /\ originHP' = [originHP EXCEPT ![c] = roster[c].HP]
    BY <1>3, <2>1 DEF Start
  <2>3. roster[c].HP \in Nat /\ roster[c].HP > 0 /\ Parent(c) \in Battles
    BY <1>1, <1>3, Tree, BracketAssumption
  <2>4. /\ s \in Status /\ Playing(s)
        /\ s.real_player_id = c /\ s.HP = roster[c].HP
    BY <1>3, <2>1, <2>3 DEF Status, Playing, Alive
  <2>5. /\ p' = [p EXCEPT ![c] = s] /\ up' = [up EXCEPT ![c] = Append(up[c], s)]
        /\ pc' = [pc EXCEPT ![c] = "play"]
    BY <2>2, <2>4 DEF Enter, Playing
  <2>6. /\ p'[c] = s /\ pc'[c] = "play" /\ originHP'[c] = roster[c].HP /\ Head(up'[c]) = s
        /\ \A d \in Procs \ {c} : pc'[d] = pc[d] /\ up'[d] = up[d] /\ down'[d] = down[d]
        /\ \A d \in Players \ {c} : p'[d] = p[d] /\ originHP'[d] = originHP[d]
    <3>1. Append(<<>>, s) = <<s>> /\ Head(<<s>>) = s
      OBVIOUS
    <3> QED
      BY <1>1, <1>2, <2>2, <2>5, <3>1
  <2>7. Head(up'[c]) = Rested(roster, Latest(h, c)')
    BY <1>1, <2>4, <2>6 DEF Latest, Rested, Playing
  <2>8. Knows(h, c)'
    <3>1. Settled(c)' /\ Name(c)' = c
      BY <1>1, <1>3 DEF Settled, Name
    <3>2. Status' = Status
      BY DEF Status
    <3> QED
      BY <1>1, <2>4, <2>6, <3>1, <3>2 DEF Knows, Playing, Alive
  <2> QED
    BY <1>1, <1>2, <2>6, <2>7, <2>8, PlayerStory
<1>4. CASE c \notin RealPlayers
  <2>1. pc' = [pc EXCEPT ![c] = "open"] /\ UNCHANGED <<p, up, originHP>>
    BY <1>4 DEF Start
  <2>2. pc'[c] = "open" /\ \A d \in Procs \ {c} : pc'[d] = pc[d]
    BY <1>1, <2>1
  <2>3. Knows(h, c)'
    BY <1>1, <2>2 DEF Knows
  <2> QED
    BY <1>1, <1>2, <2>1, <2>2, <2>3, PlayerStory
<1> QED
  BY <1>3, <1>4

LEMMA EmbodyStory ==
  ASSUME IInv, NEW h, Story(h), NEW c \in Agents, Embody(c)
  PROVE  \E k : Story(k)'
<1>1. /\ c \in Players /\ c \in Procs /\ c \notin Battles /\ pc[c] = "read"
      /\ pc \in [Procs -> BattleStates \cup PlayerStates] /\ up \in [Procs -> Seq(Status)]
      /\ p \in [Players -> Status \cup {NoStatus}] /\ originHP \in [Players -> Nat]
      /\ fifo \in [Agents -> Seq(Status)]
      /\ UNCHANGED <<roster, down, remain, Player>>
  <2>1. c \in Players /\ c \in Procs /\ c \notin Battles
    BY Tree DEF Procs
  <2> QED
    BY <2>1 DEF Embody, IInv, Types
<1>2. PICK s : s = Head(fifo[c])
  OBVIOUS
<1>3. /\ Enter(c, s) /\ originHP' = [originHP EXCEPT ![c] = s.HP]
      /\ fifo' = [fifo EXCEPT ![c] = Tail(fifo[c])]
  BY <1>2 DEF Embody
<1>4. s \in Status /\ Playing(s)
  <2>1. Len(fifo[c]) = 1 /\ Playing(s) /\ fifo[c] \in Seq(Status)
    BY <1>1, <1>2 DEF IInv, Fresh
  <2> QED
    BY <1>2, <2>1, OnlyOne
<1>5. /\ h[c] = NoStatus /\ Settled(c)
      /\ s.real_player_id = Name(c) /\ s.HP = roster[Name(c)].HP
  BY <1>1, <1>2 DEF Story, Knows
<1>6. up[c] = <<>> /\ down[c] = <<>>
  BY <1>1, Quiet DEF Awaits
<1>7. /\ p' = [p EXCEPT ![c] = s] /\ up' = [up EXCEPT ![c] = Append(up[c], s)]
      /\ pc' = [pc EXCEPT ![c] = "play"]
  BY <1>3, <1>4 DEF Enter, Playing
<1>8. s.HP \in Nat
  BY <1>4 DEF Status, Playing, Alive
<1>9. /\ p'[c] = s /\ pc'[c] = "play" /\ originHP'[c] = s.HP /\ Head(up'[c]) = s
      /\ \A d \in Procs \ {c} : pc'[d] = pc[d] /\ up'[d] = up[d] /\ down'[d] = down[d]
      /\ \A d \in Players \ {c} : p'[d] = p[d] /\ originHP'[d] = originHP[d]
      /\ \A d \in Players \ {c} : pc[d] = "read" => fifo'[d] = fifo[d]
  <2>1. Append(<<>>, s) = <<s>> /\ Head(<<s>>) = s
    OBVIOUS
  <2>2. \A d \in Players : pc[d] = "read" => d \in Agents
    BY DEF Story, Knows
  <2> QED
    BY <1>1, <1>3, <1>6, <1>7, <2>1, <2>2
<1>10. Head(up'[c]) = Rested(roster, Latest(h, c)')
  BY <1>1, <1>4, <1>5, <1>9 DEF Latest, Rested, Playing
<1>11. Knows(h, c)'
  <2>1. Settled(c)' /\ Name(c)' = Name(c)
    BY <1>1, <1>5, Steady DEF Kept
  <2>2. Status' = Status
    BY DEF Status
  <2> QED
    BY <1>1, <1>4, <1>5, <1>9, <2>1, <2>2 DEF Knows, Playing, Alive
<1> QED
  BY <1>1, <1>6, <1>9, <1>10, <1>11, PlayerStory

LEMMA PlayStory ==
  ASSUME IInv, NEW h, Story(h), NEW c \in Players, Play(c)
  PROVE  \E k : Story(k)'
<1>1. /\ c \in Procs /\ c \notin Battles /\ pc[c] = "play" /\ down[c] # <<>>
      /\ pc \in [Procs -> BattleStates \cup PlayerStates]
      /\ p \in [Players -> Status \cup {NoStatus}]
      /\ up \in [Procs -> Seq(Status)] /\ down \in [Procs -> Seq(Status)]
      /\ Pipe(h, c) /\ Knows(h, c) /\ \A b \in Battles : Record(b)
      /\ UNCHANGED <<roster, fifo, remain, Player, originHP>>
  <2>1. c \in Procs /\ c \notin Battles
    BY Tree DEF Procs
  <2> QED
    BY <2>1 DEF Play, IInv, Types, Story
<1>2. PICK s : s = Head(down[c])
  OBVIOUS
<1>3. s = h[c] /\ h[c] # NoStatus
  BY <1>1, <1>2 DEF Pipe
<1>4. up[c] = <<>> /\ Len(down[c]) = 1
  BY <1>1, Quiet
<1>5. s \in Status /\ Tail(down[c]) = <<>>
  BY <1>1, <1>2, <1>4, OnlyOne
<1>6. /\ Recorded(Player, s) /\ Settled(c) /\ s.real_player_id = Name(c)
      /\ originHP[c] = roster[Name(c)].HP
  BY <1>1, <1>3 DEF Pipe, Knows
<1> DEFINE won == s.battle_ended_flag /\ Alive(s)
<1>7. won => Healed(c, s) = Rested(roster, s) /\ Alive(Healed(c, s))
  <2>1. won => Healed(c, s) = Rested(roster, s)
    BY <1>6 DEF Healed, Rested
  <2>2. won => Alive(Healed(c, s))
    <3>1. originHP[c] \in Nat /\ originHP[c] > 0
      BY <1>1 DEF IInv, Types, Fresh
    <3> QED
      BY <1>5, <3>1, HealedStatus DEF Playing
  <2> QED
    BY <2>1, <2>2
<1>8. ~won => s = Rested(roster, s)
  BY DEF Rested
<1>9. /\ down' = [down EXCEPT ![c] = Tail(down[c])]
      /\ IF won /\ s.current_battle_id = Root
           THEN p' = [p EXCEPT ![c] = s] /\ pc' = [pc EXCEPT ![c] = "gone"] /\ UNCHANGED up
           ELSE Enter(c, Rested(roster, s))
  BY <1>2, <1>7, <1>8 DEF Play
<1> HIDE DEF won
\* Of one that leaves, only what it hands over counts.
<1>10. PICK q, t : /\ pc' = [pc EXCEPT ![c] = q] /\ p' = [p EXCEPT ![c] = t]
                   /\ q \in {"play", "lose", "gone"}
                   /\ q = "lose" => t = s /\ ~Alive(s) /\ c \in RealPlayers
                   /\ up' = [up EXCEPT ![c] = <<Rested(roster, s)>>] \/ UNCHANGED up
  <2> DEFINE Q(q, t) == /\ pc' = [pc EXCEPT ![c] = q] /\ p' = [p EXCEPT ![c] = t]
                        /\ q \in {"play", "lose", "gone"}
                        /\ q = "lose" => t = s /\ ~Alive(s) /\ c \in RealPlayers
                        /\ up' = [up EXCEPT ![c] = <<Rested(roster, s)>>] \/ UNCHANGED up
  <2>1. CASE won /\ s.current_battle_id = Root
    <3>1. Q("gone", s)
      BY <1>9, <2>1
    <3> QED
      BY <3>1
  <2>2. CASE ~(won /\ s.current_battle_id = Root) /\ Alive(Rested(roster, s))
    <3>1. Append(up[c], Rested(roster, s)) = <<Rested(roster, s)>>
      BY <1>4
    <3>2. Q("play", Rested(roster, s))
      BY <1>9, <2>2, <3>1 DEF Enter
    <3> QED
      BY <3>2
  <2>3. CASE ~(won /\ s.current_battle_id = Root) /\ ~Alive(Rested(roster, s))
    <3>1. Rested(roster, s) = s
      BY <1>7, <1>8, <2>3
    <3>2. CASE c \in RealPlayers /\ s.current_battle_id # Root
      <4>1. Q("lose", s)
        BY <1>9, <2>3, <3>1, <3>2 DEF Enter
      <4> QED
        BY <4>1
    <3>3. CASE ~(c \in RealPlayers /\ s.current_battle_id # Root)
      <4>1. Q("gone", s)
        BY <1>9, <2>3, <3>1, <3>3 DEF Enter
      <4> QED
        BY <4>1
    <3> QED
      BY <3>2, <3>3
  <2> QED
    BY <2>1, <2>2, <2>3
<1>11. /\ pc'[c] = q /\ p'[c] = t /\ down'[c] = <<>>
       /\ up'[c] # <<>> => Head(up'[c]) = Rested(roster, s)
       /\ \A d \in Procs \ {c} : pc'[d] = pc[d] /\ up'[d] = up[d] /\ down'[d] = down[d]
       /\ \A d \in Players \ {c} : p'[d] = p[d]
  <2>1. Head(<<Rested(roster, s)>>) = Rested(roster, s)
    OBVIOUS
  <2>2. \A d \in Procs \ {c} : up'[d] = up[d]
    BY <1>1, <1>10
  <2>3. up'[c] # <<>> => Head(up'[c]) = Rested(roster, s)
    BY <1>1, <1>4, <1>10, <2>1
  <2> QED
    BY <1>1, <1>5, <1>9, <1>10, <2>2, <2>3
<1>12. up'[c] # <<>> => Head(up'[c]) = Rested(roster, Latest(h, c)')
  BY <1>3, <1>11 DEF Latest
<1>13. Knows(h, c)'
  <2>1. Settled(c)' /\ Name(c)' = Name(c)
    BY <1>1, <1>6, Steady DEF Kept
  <2>2. q = "lose" => Name(c) = c /\ Recorded(Player', p'[c]) /\ ~Alive(p'[c]) /\ p'[c].real_player_id = c
    BY <1>1, <1>6, <1>10, <1>11 DEF Name
  <2> QED
    BY <1>1, <1>3, <1>6, <1>10, <1>11, <2>1, <2>2 DEF Knows, Alive
<1> QED
  BY <1>1, <1>11, <1>12, <1>13, PlayerStory

\* Of the losers of two battles, none goes to the same agent.
LEMMA HandOverStory ==
  ASSUME IInv, NEW h, Story(h), NEW c \in Players, HandOver(c)
  PROVE  \E k : Story(k)'
<1>1. /\ c \in Procs /\ pc[c] = "lose" /\ c \in RealPlayers /\ p[c] \in Status
      /\ pc \in [Procs -> BattleStates \cup PlayerStates]
      /\ p \in [Players -> Status \cup {NoStatus}] /\ fifo \in [Agents -> Seq(Status)]
      /\ \A b \in Battles : Record(b)
  BY DEF HandOver, IInv, Types, Fresh, Procs, Story
<1>2. PICK b, a, s : b = p[c].current_battle_id /\ a = lose[b] /\ s = Restored(c)
  OBVIOUS
<1>3. /\ b \in DOMAIN lose /\ b \in Battles /\ pc[a] = "open"
      /\ p' = [p EXCEPT ![c] = s]
      /\ fifo' = [fifo EXCEPT ![a] = Append(fifo[a], s)]
      /\ pc' = [pc EXCEPT ![c] = "gone", ![a] = "read"]
      /\ UNCHANGED <<roster, up, down, remain, Player, originHP>>
  BY <1>2, BracketAssumption DEF HandOver
<1>4. a \in Agents /\ a \in Players /\ a \in Procs /\ a # c /\ a \notin RealPlayers
      /\ a \notin Battles /\ c \notin Agents
  <2>1. a \in Agents
    BY <1>2, <1>3, BracketAssumption
  <2> QED
    BY <1>1, <2>1, Tree DEF Agents, Procs
<1>5. /\ ~Alive(p[c]) /\ Recorded(Player, p[c]) /\ p[c].real_player_id = c /\ originHP[c] = roster[c].HP
      /\ h[a] = NoStatus
  BY <1>1, <1>3, <1>4 DEF Story, Knows
\* The record of the battle has the player as its loser.
<1>6. Ended(b) /\ Loser(b) = p[c]
  <2>1. PICK n \in 1 .. 2 : Player[b][n] = p[c] /\ p[c].battle_ended_flag
    BY <1>2, <1>5 DEF Recorded
  <2>2. n = 1 \/ n = 2
    OBVIOUS
  <2>3. Ended(b)
    BY <1>1, <1>3, <2>1, <2>2 DEF Record, Ended, Playing, NoStatus
  <2> QED
    BY <1>1, <1>3, <1>5, <2>1, <2>3, Finals DEF IInv
<1>7. LostIn(a) = b
  <2>1. b \in DOMAIN lose /\ lose[b] = a
    BY <1>2, <1>3
  <2> QED
    BY <2>1, AgentAssumption DEF LostIn
<1>8. Settled(a) /\ Name(a) = c
  BY <1>2, <1>3, <1>4, <1>5, <1>6, <1>7 DEF Settled, Name
<1>9. s.real_player_id = c /\ s.HP = originHP[c]
  BY <1>1, <1>2, <1>5 DEF Restored, Status
<1>10. /\ pc'[c] = "gone" /\ pc'[a] = "read" /\ Head(fifo'[a]) = s
       /\ \A d \in Procs \ {c, a} : pc'[d] = pc[d]
       /\ \A d \in Agents \ {a} : fifo'[d] = fifo[d]
       /\ \A d \in Players \ {c} : p'[d] = p[d]
  <2>1. fifo[a] = <<>>
    BY <1>3, <1>4 DEF IInv, Fresh
  <2>2. Append(<<>>, s) = <<s>> /\ Head(<<s>>) = s
    OBVIOUS
  <2> QED
    BY <1>1, <1>3, <1>4, <2>1, <2>2
<1>11. Knows(h, a)'
  <2>1. Settled(a)' /\ Name(a)' = c
    BY <1>3, <1>8, Steady DEF Kept
  <2> QED
    BY <1>3, <1>4, <1>5, <1>9, <1>10, <2>1 DEF Knows
<1>12. Knows(h, c)'
  BY <1>10 DEF Knows
<1>13. up[c] = <<>> /\ down[c] = <<>>
  BY <1>1, Quiet DEF Awaits
<1>14. \A d \in Players \ {c} : pc[d] = "read" => fifo'[d] = fifo[d]
  <2>1. \A d \in Players : pc[d] = "read" => d \in Agents \ {a}
    BY <1>3 DEF Story, Knows
  <2> QED
    BY <1>10, <2>1
<1> QED
  BY <1>1, <1>3, <1>4, <1>10, <1>11, <1>12, <1>13, <1>14, PlayerStory

-----------------------------------------------------------------------------
(* The story goes on: a round of a battle.                                 *)

LEMMA ImpactNat ==
  ASSUME NEW b, NEW id \in RealPlayers, roster \in Rosters
  PROVE  Impact(roster, b, id) \in Nat
<1>1. PICK n \in Nat : n = roster[id].ATK
  BY BracketAssumption
<1>2. PICK f \in {1, 2} : f = IF roster[id].attr = ATTR[b] THEN 2 ELSE 1
  OBVIOUS
<1>3. Impact(roster, b, id) = n * f
  BY <1>1, <1>2 DEF Impact
<1>4. n * f \in Nat
  OBVIOUS
<1> QED
  BY <1>3, <1>4

LEMMA StrikeHP ==
  ASSUME NEW b \in Battles, NEW a \in Status, NEW d \in Status, roster \in Rosters
  PROVE  /\ Struck(b, a, d) \in Status
         /\ Struck(b, a, d).real_player_id = d.real_player_id
         /\ Struck(b, a, d).HP = d.HP - Impact(roster, b, a.real_player_id)
<1>1. Struck(b, a, d) = [d EXCEPT !.HP = d.HP - Impact(roster, b, a.real_player_id)]
  BY DEF Struck, Impact
<1>2. PICK n : n = d.HP - Impact(roster, b, a.real_player_id)
  OBVIOUS
<1> QED
  BY <1>1, <1>2, OneStrike DEF Status

\* The HP after a round, and who they belong to.
LEMMA RoundHP ==
  ASSUME NEW b \in Battles, NEW x \in Status, NEW y \in Status, roster \in Rosters
  PROVE  LET after == fight(b, x, y)
             fx == Impact(roster, b, x.real_player_id)
             fy == Impact(roster, b, y.real_player_id)
         IN /\ after[1].real_player_id = x.real_player_id
            /\ after[2].real_player_id = y.real_player_id
            /\ StrikesFirst(x, y) =>
                 /\ after[2].HP = y.HP - fx
                 /\ after[1].HP = IF after[2].HP > 0 THEN x.HP - fy ELSE x.HP
            /\ ~StrikesFirst(x, y) =>
                 /\ after[1].HP = x.HP - fy
                 /\ after[2].HP = IF after[1].HP > 0 THEN y.HP - fx ELSE y.HP
<1> DEFINE fx == Impact(roster, b, x.real_player_id)
           fy == Impact(roster, b, y.real_player_id)
<1>1. ASSUME NEW u \in Status, NEW v \in Status
      PROVE  LET r == Exchange(b, u, v)
             IN /\ r[1] \in Status /\ r[2] \in Status
                /\ r[1].real_player_id = u.real_player_id /\ r[2].real_player_id = v.real_player_id
                /\ r[2].HP = v.HP - Impact(roster, b, u.real_player_id)
                /\ r[1].HP = IF r[2].HP > 0 THEN u.HP - Impact(roster, b, v.real_player_id) ELSE u.HP
  <2>1. PICK z \in Status : /\ z = Struck(b, u, v) /\ z.real_player_id = v.real_player_id
                            /\ z.HP = v.HP - Impact(roster, b, u.real_player_id)
    BY StrikeHP
  <2>2. PICK w \in Status : /\ w = Struck(b, z, u) /\ w.real_player_id = u.real_player_id
                            /\ w.HP = u.HP - Impact(roster, b, v.real_player_id)
    BY <2>1, StrikeHP
  <2>3. Exchange(b, u, v) = <<IF z.HP > 0 THEN w ELSE u, z>>
    BY <2>1, <2>2 DEF Exchange, Alive
  <2> QED
    BY <2>1, <2>2, <2>3
<1>2. PICK r1, r2 \in Status :
        /\ r1 = (IF StrikesFirst(x, y) THEN Exchange(b, x, y)[1] ELSE Exchange(b, y, x)[2])
        /\ r2 = (IF StrikesFirst(x, y) THEN Exchange(b, x, y)[2] ELSE Exchange(b, y, x)[1])
  BY <1>1
<1>3. /\ r1.real_player_id = x.real_player_id /\ r2.real_player_id = y.real_player_id
      /\ StrikesFirst(x, y) =>
           r2.HP = y.HP - fx /\ r1.HP = IF r2.HP > 0 THEN x.HP - fy ELSE x.HP
      /\ ~StrikesFirst(x, y) =>
           r1.HP = x.HP - fy /\ r2.HP = IF r1.HP > 0 THEN y.HP - fx ELSE y.HP
  BY <1>1, <1>2
<1>4. /\ fight(b, x, y)[1].real_player_id = r1.real_player_id /\ fight(b, x, y)[1].HP = r1.HP
      /\ fight(b, x, y)[2].real_player_id = r2.real_player_id /\ fight(b, x, y)[2].HP = r2.HP
  <2> DEFINE s == Exchange(b, y, x)
             r == IF StrikesFirst(x, y) THEN Exchange(b, x, y) ELSE <<s[2], s[1]>>
             ended == ~ (Alive(r[1]) /\ Alive(r[2]))
  <2>1. r[1] = r1 /\ r[2] = r2
    BY <1>2
  <2>2. fight(b, x, y) = [i \in 1 .. 2 |->
           [r[i] EXCEPT !.current_battle_id = b, !.battle_ended_flag = r[i].battle_ended_flag \/ ended]]
    BY DEF fight
  <2> HIDE DEF r, ended
  <2>3. \A i \in 1 .. 2 : r[i] \in Status =>
          fight(b, x, y)[i].real_player_id = r[i].real_player_id /\ fight(b, x, y)[i].HP = r[i].HP
    BY <2>2 DEF Status
  <2>4. 1 \in 1 .. 2 /\ 2 \in 1 .. 2
    OBVIOUS
  <2> QED
    BY <2>1, <2>3, <2>4
<1> HIDE DEF fx, fy
<1>5. PICK after, gx, gy : after = fight(b, x, y) /\ gx = fx /\ gy = fy
  OBVIOUS
<1>6. /\ after[1].real_player_id = x.real_player_id /\ after[2].real_player_id = y.real_player_id
      /\ StrikesFirst(x, y) =>
           after[2].HP = y.HP - gx /\ after[1].HP = IF after[2].HP > 0 THEN x.HP - gy ELSE x.HP
      /\ ~StrikesFirst(x, y) =>
           after[1].HP = x.HP - gy /\ after[2].HP = IF after[1].HP > 0 THEN y.HP - gx ELSE y.HP
  BY <1>3, <1>4, <1>5
<1> QED
  BY <1>5, <1>6 DEF fx, fy

\* What a process sends to its parent: in whose name, and with how many HP.
LEMMA Sent ==
  ASSUME IInv, NEW h, Story(h), NEW c \in Procs, up[c] # <<>>
  PROVE  /\ Settled(c) /\ Head(up[c]) \in Status /\ Playing(Head(up[c]))
         /\ Head(up[c]).real_player_id = Name(c)
         /\ h[c] = NoStatus => Head(up[c]).HP = Entry(c)
         /\ h[c] # NoStatus /\ ~h[c].battle_ended_flag => Head(up[c]) = h[c]
<1>1. /\ Awaits(c) /\ up[c] \in Seq(Status) /\ Len(up[c]) = 1
      /\ Playing(Head(up[c])) /\ h[c] \in Status \cup {NoStatus} /\ Pipe(h, c)
      /\ \A b \in Battles : Record(b)
  BY Quiet DEF IInv, Asked, Story
<1>2. Head(up[c]) \in Status /\ Head(up[c]) = Rested(roster, Latest(h, c))
  BY <1>1, OnlyOne DEF Pipe
<1>3. CASE h[c] # NoStatus
  BY <1>1, <1>2, <1>3 DEF Pipe, Latest, Rested, Status
<1>4. CASE h[c] = NoStatus /\ c \in Battles
  <2>1. pc[c] = "relayDown"
    BY <1>1, <1>4 DEF Awaits, IInv, Types, BattleStates, Exited
  <2>2. Ended(c) /\ Settled(c)
    BY <1>1, <1>4, <2>1 DEF Record, OverStates, Settled
  <2>3. PICK w : w = Winner(c) /\ w \in Status /\ Alive(w) /\ w.battle_ended_flag /\ w.real_player_id = Name(c)
    BY <1>1, <1>4, <2>2, Finals DEF IInv, Name
  <2>4. Head(up[c]) = Rested(roster, w)
    BY <1>2, <1>4, <2>3 DEF Latest
  <2>5. PICK e : e = w.HP + (roster[w.real_player_id].HP - w.HP) \div 2
    OBVIOUS
  <2>6. Entry(c) = e
    BY <1>4, <2>3, <2>5 DEF Entry
  <2>7. Rested(roster, w) = [w EXCEPT !.HP = e, !.battle_ended_flag = FALSE]
    BY <2>3, <2>5 DEF Rested
  <2>8. Rested(roster, w).HP = e /\ Rested(roster, w).real_player_id = w.real_player_id
    BY <2>3, <2>7 DEF Status
  <2> QED
    BY <1>1, <1>2, <1>4, <2>2, <2>3, <2>4, <2>6, <2>8
<1>5. CASE h[c] = NoStatus /\ c \notin Battles
  <2>1. c \in Players /\ pc[c] = "play"
    BY <1>1, <1>5 DEF Awaits, IInv, Types, PlayerStates, Exited, Procs
  <2>2. /\ Settled(c) /\ originHP[c] = roster[Name(c)].HP
        /\ p[c].real_player_id = Name(c) /\ p[c].HP = originHP[c] /\ Playing(p[c])
    BY <1>5, <2>1 DEF Story, Knows
  <2>3. Head(up[c]) = p[c]
    BY <1>2, <1>5, <2>2 DEF Latest, Rested, Playing
  <2>4. Entry(c) = p[c].HP
    BY <1>5, <2>2 DEF Entry
  <2> QED
    BY <1>1, <1>2, <1>5, <2>2, <2>3, <2>4
<1> QED
  BY <1>3, <1>4, <1>5

\* Before a round: both sides have taken as many blows.
LEMMA BeforeRound ==
  ASSUME IInv, NEW h, Story(h), NEW b \in Battles, pc[b] = "fight",
         up[left[b]] # <<>>, up[right[b]] # <<>>
  PROVE  /\ Settled(left[b]) /\ Settled(right[b]) /\ ~Ended(b)
         /\ Head(up[left[b]]) \in Status /\ Playing(Head(up[left[b]]))
         /\ Head(up[right[b]]) \in Status /\ Playing(Head(up[right[b]]))
         /\ Head(up[left[b]]).real_player_id = Name(left[b])
         /\ Head(up[right[b]]).real_player_id = Name(right[b])
         /\ Name(left[b]) \in RealPlayers /\ Name(right[b]) \in RealPlayers
         /\ Entry(left[b]) \in Int /\ Entry(right[b]) \in Int
         /\ \E n \in Nat : Score(b, n, Head(up[left[b]]).HP, Head(up[right[b]]).HP)
<1>1. PICK l, r \in Procs : l = left[b] /\ r = right[b]
  BY Tree
<1>2. PICK x, y \in Status : x = Head(up[l]) /\ y = Head(up[r])
  BY <1>1, Sent
<1>3. /\ Settled(l) /\ Playing(x) /\ x.real_player_id = Name(l)
      /\ h[l] = NoStatus => x.HP = Entry(l)
      /\ h[l] # NoStatus /\ ~h[l].battle_ended_flag => x = h[l]
  BY <1>1, <1>2, Sent
<1>4. /\ Settled(r) /\ Playing(y) /\ y.real_player_id = Name(r)
      /\ h[r] = NoStatus => y.HP = Entry(r)
      /\ h[r] # NoStatus /\ ~h[r].battle_ended_flag => y = h[r]
  BY <1>1, <1>2, Sent
<1>5. /\ Record(b) /\ Told(h, b) /\ Types /\ roster \in Rosters /\ \A d \in Battles : Record(d)
  BY DEF Story, IInv, Types
<1>6. ~Ended(b) /\ h[l] = Player[b][1] /\ h[r] = Player[b][2]
  BY <1>1, <1>5 DEF Record, Told, OverStates, Exited
<1>7. Name(l) \in RealPlayers /\ Name(r) \in RealPlayers
  BY <1>3, <1>4, <1>5, Named
<1>8. ASSUME NEW c \in Procs, Settled(c) PROVE Entry(c) \in Int
  <2>1. roster[Name(c)].HP \in Int
    <3>1. Name(c) \in RealPlayers
      BY <1>5, <1>8, Named
    <3> QED
      BY <1>5, <3>1, BracketAssumption
  <2>2. CASE c \in Battles
    <3>1. Winner(c).HP \in Int
      BY <1>5, <1>8, <2>2, Finals DEF Settled, Status
    <3>2. PICK m, f \in Int : m = Winner(c).HP /\ f = roster[Name(c)].HP
      BY <2>1, <3>1
    <3>3. Entry(c) = m + (f - m) \div 2
      BY <2>2, <3>2 DEF Entry
    <3>4. m + (f - m) \div 2 \in Int
      OBVIOUS
    <3> QED
      BY <3>3, <3>4
  <2>3. CASE c \notin Battles
    BY <2>1, <2>3 DEF Entry
  <2> QED
    BY <2>2, <2>3
<1>9. PICK el, er \in Int : el = Entry(l) /\ er = Entry(r)
  BY <1>3, <1>4, <1>8
<1>10. PICK fl, fr \in Nat : fl = Impact(roster, b, Name(l)) /\ fr = Impact(roster, b, Name(r))
  BY <1>5, <1>7, ImpactNat
<1>11. \E n \in Nat : Score(b, n, x.HP, y.HP)
  <2>1. CASE Player[b][1] = NoStatus /\ Player[b][2] = NoStatus
    <3>1. x.HP = el /\ y.HP = er
      BY <1>3, <1>4, <1>6, <1>9, <2>1
    <3>2. el = el - 0 * fr /\ er = er - 0 * fl
      OBVIOUS
    <3>3. Score(b, 0, x.HP, y.HP)
      BY <1>1, <1>9, <1>10, <3>1, <3>2 DEF Score
    <3> QED
      BY <3>3
  <2>2. CASE ~(Player[b][1] = NoStatus /\ Player[b][2] = NoStatus)
    <3>1. PICK n \in Nat : /\ Playing(Player[b][1]) /\ Playing(Player[b][2])
                           /\ Score(b, n, Player[b][1].HP, Player[b][2].HP)
      BY <1>5, <1>6, <2>2 DEF Record
    <3>2. Player[b][1] # NoStatus /\ Player[b][2] # NoStatus
      BY <3>1 DEF Playing, Alive, NoStatus
    <3>3. x = Player[b][1] /\ y = Player[b][2]
      BY <1>3, <1>4, <1>6, <3>1, <3>2 DEF Playing
    <3> QED
      BY <3>1, <3>3
  <2> QED
    BY <2>1, <2>2
<1>12. \E n \in Nat : Score(b, n, Head(up[left[b]]).HP, Head(up[right[b]]).HP)
  BY <1>1, <1>2, <1>11
<1> QED
  BY <1>1, <1>2, <1>3, <1>4, <1>6, <1>7, <1>9, <1>12

\* A round, step by step: what is read, and what is written.
RoundOf(b, l, r, x, y, u, v) ==
  /\ l = left[b] /\ r = right[b] /\ Children(b) = {l, r} /\ l # r /\ b # l /\ b # r
  /\ pc[b] = "fight" /\ up[l] # <<>> /\ up[r] # <<>> /\ Awaits(l) /\ Awaits(r)
  /\ x = Head(up[l]) /\ y = Head(up[r]) /\ Playing(x) /\ Playing(y)
  /\ u = fight(b, x, y)[1] /\ v = fight(b, x, y)[2]
  /\ u.current_battle_id = b /\ v.current_battle_id = b
  /\ u.battle_ended_flag = v.battle_ended_flag
  /\ ~u.battle_ended_flag => Playing(u) /\ Playing(v)
  /\ u.battle_ended_flag => (Alive(u) <=> ~Alive(v))
  /\ Player'[b][1] = u /\ Player'[b][2] = v
  /\ \A d \in Battles \ {b} : Player'[d] = Player[d] /\ remain'[d] = remain[d]
  /\ remain'[b] = IF ~Alive(u) THEN 1 ELSE IF ~Alive(v) THEN 0 ELSE remain[b]
  /\ \A d \in Procs \ {l, r} : up'[d] = up[d] /\ down'[d] = down[d]
  /\ up'[l] = <<>> /\ down'[l] = <<u>> /\ up'[r] = <<>> /\ down'[r] = <<v>>
  /\ pc'[b] = IF u.battle_ended_flag THEN "wait" ELSE "fight"
  /\ \A d \in Procs \ {b} : pc'[d] = pc[d]
  /\ UNCHANGED <<roster, fifo, p, originHP>>

LEMMA FightRound ==
  ASSUME IInv, NEW b \in Battles, Fight(b)
  PROVE  \E l, r \in Procs, x, y, u, v \in Status : RoundOf(b, l, r, x, y, u, v)
<1>1. PICK l, r \in Procs : l = left[b] /\ r = right[b]
  BY Tree
<1>2. /\ b \in Procs /\ Children(b) = {l, r} /\ l # r /\ b # l /\ b # r /\ roster \in Rosters
      /\ pc \in [Procs -> BattleStates \cup PlayerStates]
      /\ up \in [Procs -> Seq(Status)] /\ down \in [Procs -> Seq(Status)]
      /\ remain \in [Battles -> {-1, 0, 1}]
      /\ Player \in [Battles -> Seq(Status \cup {NoStatus})]
  <2>1. b \in Procs /\ Children(b) = {l, r} /\ l # r /\ b # l /\ b # r
    BY <1>1, Tree
  <2> QED
    BY <2>1 DEF IInv, Types
<1>3. PICK x, y, after : x = Head(up[l]) /\ y = Head(up[r]) /\ after = fight(b, x, y)
  OBVIOUS
<1>4. /\ pc[b] = "fight" /\ up[l] # <<>> /\ up[r] # <<>>
      /\ Player' = [Player EXCEPT ![b] = after]
      /\ remain' = [remain EXCEPT ![b] = Remaining(b, after)]
      /\ up' = [up EXCEPT ![l] = Tail(up[l]), ![r] = Tail(up[r])]
      /\ down' = [down EXCEPT ![l] = Append(down[l], after[1]), ![r] = Append(down[r], after[2])]
      /\ pc' = [pc EXCEPT ![b] = IF after[1].battle_ended_flag THEN "wait" ELSE pc[b]]
      /\ UNCHANGED <<roster, fifo, p, originHP>>
  BY <1>1, <1>3 DEF Fight
<1>5. /\ down[l] = <<>> /\ Awaits(l) /\ x \in Status /\ Tail(up[l]) = <<>> /\ Playing(x)
      /\ down[r] = <<>> /\ Awaits(r) /\ y \in Status /\ Tail(up[r]) = <<>> /\ Playing(y)
  <2>1. /\ down[l] = <<>> /\ Awaits(l) /\ Len(up[l]) = 1 /\ up[l] \in Seq(Status)
        /\ down[r] = <<>> /\ Awaits(r) /\ Len(up[r]) = 1 /\ up[r] \in Seq(Status)
    BY <1>2, <1>4, Quiet
  <2>2. Playing(x) /\ Playing(y)
    BY <1>3, <1>4 DEF IInv, Asked
  <2> QED
    BY <1>3, <2>1, <2>2, OnlyOne
<1>6. /\ \A n \in 1 .. 2 : after[n] \in Status /\ after[n].current_battle_id = b
      /\ after[1].battle_ended_flag = after[2].battle_ended_flag
      /\ ~after[1].battle_ended_flag => Playing(after[1]) /\ Playing(after[2])
      /\ after[1].battle_ended_flag => (Alive(after[1]) <=> ~Alive(after[2]))
  <2>1. LET a == fight(b, x, y)
        IN /\ \A n \in 1 .. 2 : a[n] \in Status /\ a[n].current_battle_id = b
           /\ a[1].battle_ended_flag = a[2].battle_ended_flag
           /\ ~a[1].battle_ended_flag => Playing(a[1]) /\ Playing(a[2])
           /\ a[1].battle_ended_flag => (Alive(a[1]) <=> ~Alive(a[2]))
    BY <1>2, <1>5, OneRound
  <2> QED
    BY <1>3, <2>1
<1>7. PICK u, v \in Status : u = after[1] /\ v = after[2]
  BY <1>6
<1>8. u.current_battle_id = b /\ v.current_battle_id = b
  BY <1>6, <1>7
<1>9. Player'[b][1] = u /\ Player'[b][2] = v /\ \A d \in Battles \ {b} : Player'[d] = Player[d]
  BY <1>2, <1>4, <1>7
<1>10. /\ remain'[b] = IF ~Alive(u) THEN 1 ELSE IF ~Alive(v) THEN 0 ELSE remain[b]
       /\ \A d \in Battles \ {b} : remain'[d] = remain[d]
  BY <1>2, <1>4, <1>7 DEF Remaining
<1>11. /\ \A d \in Procs \ {l, r} : up'[d] = up[d] /\ down'[d] = down[d]
       /\ up'[l] = <<>> /\ down'[l] = <<u>> /\ up'[r] = <<>> /\ down'[r] = <<v>>
  <2>1. Append(<<>>, u) = <<u>> /\ Append(<<>>, v) = <<v>>
    OBVIOUS
  <2> QED
    BY <1>2, <1>4, <1>5, <1>7, <2>1
<1>12. /\ pc'[b] = IF u.battle_ended_flag THEN "wait" ELSE "fight"
       /\ \A d \in Procs \ {b} : pc'[d] = pc[d]
  BY <1>2, <1>4, <1>7
<1>13. RoundOf(b, l, r, x, y, u, v)
  BY <1>1, <1>2, <1>3, <1>4, <1>5, <1>6, <1>7, <1>8, <1>9, <1>10, <1>11, <1>12 DEF RoundOf
<1> QED
  BY <1>5, <1>13

LEMMA FightStory ==
  ASSUME IInv, NEW h, Story(h), NEW b \in Battles, Fight(b)
  PROVE  \E k : Story(k)'
<1>1. PICK l, r \in Procs, x, y, u, v \in Status : RoundOf(b, l, r, x, y, u, v)
  BY FightRound
<1>2. /\ l = left[b] /\ r = right[b] /\ Children(b) = {l, r} /\ l # r /\ b # l /\ b # r
      /\ pc[b] = "fight" /\ up[l] # <<>> /\ up[r] # <<>> /\ Awaits(l) /\ Awaits(r)
      /\ x = Head(up[l]) /\ y = Head(up[r]) /\ Playing(x) /\ Playing(y)
      /\ Player'[b][1] = u /\ Player'[b][2] = v
      /\ \A d \in Battles \ {b} : Player'[d] = Player[d] /\ remain'[d] = remain[d]
      /\ \A d \in Procs \ {l, r} : up'[d] = up[d] /\ down'[d] = down[d]
      /\ up'[l] = <<>> /\ down'[l] = <<u>> /\ up'[r] = <<>> /\ down'[r] = <<v>>
      /\ pc'[b] = IF u.battle_ended_flag THEN "wait" ELSE "fight"
      /\ \A d \in Procs \ {b} : pc'[d] = pc[d]
      /\ UNCHANGED <<roster, fifo, p, originHP>>
  BY <1>1 DEF RoundOf
<1>3. /\ b \in Procs /\ h \in [Procs -> Status \cup {NoStatus}] /\ roster \in Rosters /\ Types
      /\ Told(h, b) /\ Record(b) /\ \A d \in Battles : d \in Procs /\ Record(d)
      /\ \A d \in Players : d \in Procs /\ d # b
  BY Tree DEF IInv, Types, Story, Procs
<1>4. /\ Settled(l) /\ Settled(r) /\ ~Ended(b)
      /\ x.real_player_id = Name(l) /\ y.real_player_id = Name(r)
      /\ Name(l) \in RealPlayers /\ Name(r) \in RealPlayers
      /\ Entry(l) \in Int /\ Entry(r) \in Int
      /\ \E n \in Nat : Score(b, n, x.HP, y.HP)
  BY <1>2, BeforeRound
<1>5. Kept
  BY <1>2, <1>4 DEF Kept
<1>6. PICK k : k = [[h EXCEPT ![l] = u] EXCEPT ![r] = v]
  OBVIOUS
<1>7. /\ k \in [Procs -> Status \cup {NoStatus}] /\ k[l] = u /\ k[r] = v
      /\ \A d \in Procs \ {l, r} : k[d] = h[d]
  BY <1>2, <1>3, <1>6
<1>8. /\ Settled(l)' /\ Name(l)' = Name(l) /\ Entry(l)' = Entry(l)
      /\ Settled(r)' /\ Name(r)' = Name(r) /\ Entry(r)' = Entry(r)
  BY <1>4, <1>5, Steady
\* The statuses after the round.
<1>9. /\ u.current_battle_id = b /\ v.current_battle_id = b /\ u.battle_ended_flag = v.battle_ended_flag
      /\ u.battle_ended_flag \in BOOLEAN
      /\ ~u.battle_ended_flag => Playing(u) /\ Playing(v)
      /\ u.battle_ended_flag => (Alive(u) <=> ~Alive(v))
      /\ remain'[b] = IF ~Alive(u) THEN 1 ELSE IF ~Alive(v) THEN 0 ELSE remain[b]
  BY <1>1 DEF RoundOf, Status
<1>10. /\ u.real_player_id = Name(l) /\ v.real_player_id = Name(r)
       /\ Playing(u) /\ Playing(v) => /\ u.HP = x.HP - Impact(roster, b, Name(r))
                                      /\ v.HP = y.HP - Impact(roster, b, Name(l))
  <2>1. PICK after, fx, fy : /\ after = fight(b, x, y)
                             /\ fx = Impact(roster, b, x.real_player_id)
                             /\ fy = Impact(roster, b, y.real_player_id)
    OBVIOUS
  <2>2. u = after[1] /\ v = after[2]
    BY <1>1, <2>1 DEF RoundOf
  <2>3. /\ after[1].real_player_id = x.real_player_id /\ after[2].real_player_id = y.real_player_id
        /\ StrikesFirst(x, y) =>
             after[2].HP = y.HP - fx /\ after[1].HP = IF after[2].HP > 0 THEN x.HP - fy ELSE x.HP
        /\ ~StrikesFirst(x, y) =>
             after[1].HP = x.HP - fy /\ after[2].HP = IF after[1].HP > 0 THEN y.HP - fx ELSE y.HP
    BY <1>3, <2>1, RoundHP
  <2>4. fx = Impact(roster, b, Name(l)) /\ fy = Impact(roster, b, Name(r))
    BY <1>4, <2>1
  <2>5. Playing(u) /\ Playing(v) => u.HP = x.HP - fy /\ v.HP = y.HP - fx
    BY <2>2, <2>3 DEF Playing, Alive
  <2> QED
    BY <1>4, <2>2, <2>3, <2>4, <2>5
<1>11. u # NoStatus /\ v # NoStatus /\ Recorded(Player', u) /\ Recorded(Player', v)
  <2>1. u # NoStatus /\ v # NoStatus
    BY <1>9 DEF Playing, Alive, NoStatus
  <2>2. 1 \in 1 .. 2 /\ 2 \in 1 .. 2
    OBVIOUS
  <2> QED
    BY <1>2, <1>9, <2>1, <2>2 DEF Recorded, Playing
<1>12. Record(b)'
  <2>1. ASSUME ~u.battle_ended_flag
        PROVE  Playing(u) /\ Playing(v) /\ pc'[b] = "fight" /\ \E n \in Nat : Score(b, n, u.HP, v.HP)'
    <3>1. Playing(u) /\ Playing(v) /\ pc'[b] = "fight"
      BY <1>2, <1>9, <2>1
    <3>2. PICK n \in Nat : Score(b, n, x.HP, y.HP)
      BY <1>4
    <3>3. PICK fl, fr \in Nat : fl = Impact(roster, b, Name(l)) /\ fr = Impact(roster, b, Name(r))
      BY <1>3, <1>4, ImpactNat
    <3>4. PICK el, er \in Int : el = Entry(l) /\ er = Entry(r)
      BY <1>4
    <3>5. x.HP = el - n * fr /\ y.HP = er - n * fl
      BY <1>2, <3>2, <3>3, <3>4 DEF Score
    <3>6. u.HP = x.HP - fr /\ v.HP = y.HP - fl
      BY <1>10, <3>1, <3>3
    <3>7. el - n * fr - fr = el - (n + 1) * fr /\ er - n * fl - fl = er - (n + 1) * fl
      OBVIOUS
    <3>8. u.HP = el - (n + 1) * fr /\ v.HP = er - (n + 1) * fl
      BY <3>5, <3>6, <3>7
    <3>9. PICK m \in Nat : m = n + 1
      OBVIOUS
    <3>10. u.HP = el - m * fr /\ v.HP = er - m * fl
      BY <3>8, <3>9
    <3>11. Score(b, m, u.HP, v.HP)'
      BY <1>2, <1>8, <3>3, <3>4, <3>10 DEF Score
    <3> QED
      BY <3>1, <3>11
  <2>2. Ended(b)' <=> u.battle_ended_flag
    BY <1>2 DEF Ended
  <2>3. Ended(b)' <=> pc'[b] \in OverStates
    BY <1>2, <2>2 DEF OverStates, Exited
  <2>4. ASSUME u.battle_ended_flag PROVE Alive(Player'[b][remain'[b] + 1])
    <3>1. CASE Alive(u)
      BY <1>2, <1>9, <2>4, <3>1
    <3>2. CASE ~Alive(u)
      BY <1>2, <1>9, <2>4, <3>2
    <3> QED
      BY <3>1, <3>2
  <2>5. Status' = Status /\ NoStatus' = NoStatus
    BY DEF Status, NoStatus
  <2> QED
    BY <1>2, <1>8, <1>9, <1>10, <2>1, <2>2, <2>3, <2>4, <2>5 DEF Record
<1>13. Told(k, b)'
  <2>1. h[b] = NoStatus
    BY <1>2, <1>3 DEF Told
  <2> QED
    BY <1>2, <1>3, <1>7, <2>1 DEF Told
<1>14. \A d \in Battles \ {b} : left[d] \notin {l, r} /\ right[d] \notin {l, r}
                               /\ left[d] \in Procs /\ right[d] \in Procs
  BY <1>2, Tree
<1>15. \A d \in Battles \ {b, l, r} : SameTold(h, k, d)
  BY <1>2, <1>3, <1>7, <1>14 DEF SameTold, IsMoved
<1>16. \A d \in {l, r} : d \in Battles => Told(k, d)'
  <2> SUFFICES ASSUME NEW d \in {l, r}, d \in Battles PROVE Told(k, d)'
    OBVIOUS
  <2>1. pc[d] = "relayDown"
    BY <1>2 DEF Awaits, IInv, Types, BattleStates, Exited
  <2>2. pc'[d] = "relayDown" /\ down'[d] # <<>>
    BY <1>2, <2>1
  <2> QED
    BY <2>2 DEF Told
<1>17. \A d \in Players \ {l, r} : SameKnows(h, k, d)
  BY <1>2, <1>3, <1>7 DEF SameKnows, IsMoved
<1>18. \A d \in {l, r} : d \in Players => Knows(k, d)'
  <2> SUFFICES ASSUME NEW d \in {l, r}, d \in Players PROVE Knows(k, d)'
    OBVIOUS
  <2>1. pc[d] = "play"
    <3>1. d \notin Battles
      BY BracketAssumption
    <3> QED
      BY <1>2 DEF Awaits, IInv, Types, PlayerStates, Exited
  <2>2. pc'[d] = "play" /\ k[d] # NoStatus
    BY <1>2, <1>7, <1>11, <2>1
  <2>3. originHP[d] = roster[Name(d)].HP
    BY <2>1 DEF Story, Knows
  <2>4. Settled(d)' /\ originHP'[d] = roster'[Name(d)'].HP
    BY <1>2, <1>8, <2>3
  <2> QED
    BY <2>2, <2>4 DEF Knows
<1>19. \A d \in Procs \ {l, r} : SamePipe(h, k, d)
  BY <1>2, <1>7 DEF SamePipe
<1>20. Pipe(k, l)' /\ Pipe(k, r)'
  <2>1. \A s : <<s>> # <<>> /\ Head(<<s>>) = s
    OBVIOUS
  <2> QED
    BY <1>2, <1>7, <1>8, <1>10, <1>11, <2>1 DEF Pipe
<1>21. \A d \in Battles \ {b} : SameRecord(d)
  BY <1>2, <1>3 DEF SameRecord
<1>22. Story(k)'
  BY <1>3, <1>5, <1>7, <1>12, <1>13, <1>15, <1>16, <1>17, <1>18, <1>19, <1>20, <1>21, Rest
<1> QED
  BY <1>22

-----------------------------------------------------------------------------
(* The story of every run.                                                 *)

Telling == \E h : Story(h)

LEMMA InitTelling == Init => Telling
<1> SUFFICES ASSUME Init PROVE Telling
  OBVIOUS
<1>1. PICK h : h = [c \in Procs |-> NoStatus]
  OBVIOUS
<1>2. \A c \in Procs : h[c] = NoStatus /\ up[c] = <<>> /\ down[c] = <<>>
  BY <1>1 DEF Init
<1>3. /\ \A c \in Procs : pc[c] = IF c = Root THEN "fork" ELSE "unborn"
      /\ \A b \in Battles : Player[b][1] = NoStatus /\ Player[b][2] = NoStatus
  BY Tree DEF Init
<1>4. \A b \in Battles : b \in Procs /\ left[b] \in Procs /\ right[b] \in Procs
  BY Tree
<1>5. \A b \in Battles : Record(b)
  <2> SUFFICES ASSUME NEW b \in Battles PROVE Record(b)
    OBVIOUS
  <2>1. ~Ended(b)
    BY <1>3 DEF Ended, NoStatus
  <2>2. pc[b] \notin OverStates
    BY <1>3, <1>4 DEF OverStates, Exited
  <2> QED
    BY <1>3, <2>1, <2>2 DEF Record
<1>6. \A b \in Battles : Told(h, b)
  BY <1>2, <1>3, <1>4 DEF Told
<1>7. \A c \in Players : Knows(h, c)
  BY <1>2, <1>3, Tree DEF Knows, Procs
<1>8. h \in [Procs -> Status \cup {NoStatus}]
  BY <1>1
<1>9. \A c \in Procs : Pipe(h, c)
  BY <1>2 DEF Pipe
<1> QED
  BY <1>5, <1>6, <1>7, <1>8, <1>9 DEF Story, Telling

LEMMA NextTelling == IInv /\ Telling /\ [Next]_vars => Telling'
<1> SUFFICES ASSUME IInv, NEW h, Story(h), [Next]_vars PROVE \E k : Story(k)'
  BY DEF Telling
<1>1. ASSUME NEW b \in Battles, BattleStep(b) PROVE \E k : Story(k)'
  BY <1>1, ForkStory, FightStory, WaitStory, RelayUpStory, RelayDownStory DEF BattleStep
<1>2. ASSUME NEW c \in Players, PlayerStep(c) PROVE \E k : Story(k)'
  BY <1>2, StartStory, PlayStory, EmbodyStory, HandOverStory DEF PlayerStep
<1>3. CASE UNCHANGED vars
  <2>1. Story(h)'
    <3>1. Kept /\ h \in [Procs -> Status \cup {NoStatus}]
      BY <1>3 DEF vars, Kept, Story
    <3>2. /\ \A c \in Procs : SamePipe(h, h, c)
          /\ \A b \in Battles : SameRecord(b) /\ SameTold(h, h, b)
          /\ \A c \in Players : SameKnows(h, h, c)
      BY <1>3 DEF vars, SamePipe, SameRecord, SameTold, SameKnows, IsMoved
    <3> QED
      BY <3>1, <3>2, Rest
  <2> QED
    BY <2>1
<1> QED
  BY <1>1, <1>2, <1>3 DEF Next

LEMMA AlwaysTelling == Spec => [](IInv /\ Telling)
BY InitIInv, NextIInv, InitTelling, NextTelling, PTL DEF Spec

-----------------------------------------------------------------------------
(* The processes compute the tournament of Bracket.                        *)

\* n blows leave both standing and the next ones do not: the fight takes n + 1
\* rounds, counted as Bracket counts them.
LEMMA Count ==
  ASSUME NEW ex \in Int, NEW ey \in Int, NEW bx \in Nat, NEW by \in Nat, NEW n \in Nat,
         ex - n * by > 0, ey - n * bx > 0,
         ex - n * by - by <= 0 \/ ey - n * bx - bx <= 0
  PROVE  /\ bx + by > 0 /\ n + 1 \in 1 .. ex + ey
         /\ (n + 1) * bx >= ey \/ (n + 1) * by >= ex
         /\ ~(n * bx >= ey \/ n * by >= ex)
         /\ \A k \in Int : /\ k * bx >= ey \/ k * by >= ex
                           /\ ~((k - 1) * bx >= ey \/ (k - 1) * by >= ex)
                           => k = n + 1
<1>1. \A i, j \in Int, f \in Nat : i <= j => i * f <= j * f
  <2> SUFFICES ASSUME NEW i \in Int, NEW j \in Int, NEW f \in Nat, i <= j PROVE i * f <= j * f
    OBVIOUS
  <2>1. PICK d \in Nat : j = i + d
    <3>1. j - i \in Nat /\ j = i + (j - i)
      OBVIOUS
    <3> QED
      BY <3>1
  <2>2. j * f = i * f + d * f /\ d * f >= 0 /\ i * f \in Int /\ d * f \in Int
    BY <2>1
  <2> QED
    BY <2>2
<1>2. (n + 1) * bx = n * bx + bx /\ (n + 1) * by = n * by + by
  OBVIOUS
<1>3. n * bx \in Nat /\ n * by \in Nat
  OBVIOUS
<1>4. (n + 1) * bx >= ey \/ (n + 1) * by >= ex
  BY <1>2, <1>3
<1>5. ~(n * bx >= ey \/ n * by >= ex)
  BY <1>3
<1>6. bx + by > 0
  <2>1. bx > 0 \/ by > 0
    BY <1>3
  <2> QED
    BY <2>1
<1>7. n + 1 \in 1 .. ex + ey
  <2>1. ex > 0 /\ ey > 0
    BY <1>3
  <2>2. n < ex \/ n < ey
    <3>1. CASE bx > 0
      <4>1. PICK d \in Nat : bx = 1 + d
        <5>1. bx - 1 \in Nat /\ bx = 1 + (bx - 1)
          BY <3>1
        <5> QED
          BY <5>1
      <4>2. n * bx = n + n * d /\ n * d \in Nat
        BY <4>1
      <4> QED
        BY <1>5, <4>2
    <3>2. CASE by > 0
      <4>1. PICK d \in Nat : by = 1 + d
        <5>1. by - 1 \in Nat /\ by = 1 + (by - 1)
          BY <3>2
        <5> QED
          BY <5>1
      <4>2. n * by = n + n * d /\ n * d \in Nat
        BY <4>1
      <4> QED
        BY <1>5, <4>2
    <3> QED
      BY <1>6, <3>1, <3>2
  <2> QED
    BY <2>1, <2>2
<1>8. ASSUME NEW k \in Int, k * bx >= ey \/ k * by >= ex,
             ~((k - 1) * bx >= ey \/ (k - 1) * by >= ex)
      PROVE  k = n + 1
  <2>1. ~(k <= n)
    <3> SUFFICES ASSUME k <= n PROVE FALSE
      OBVIOUS
    <3>1. k * bx <= n * bx /\ k * by <= n * by
      BY <1>1
    <3>2. k * bx \in Int /\ k * by \in Int
      OBVIOUS
    <3> QED
      BY <1>3, <1>5, <1>8, <3>1, <3>2
  <2>2. ~(n + 1 <= k - 1)
    <3> SUFFICES ASSUME n + 1 <= k - 1 PROVE FALSE
      OBVIOUS
    <3>1. PICK m, j \in Int : m = n + 1 /\ j = k - 1
      OBVIOUS
    <3>2. m * bx <= j * bx /\ m * by <= j * by
      BY <1>1, <3>1
    <3>3. m * bx \in Int /\ m * by \in Int /\ j * bx \in Int /\ j * by \in Int
      OBVIOUS
    <3>4. m * bx >= ey \/ m * by >= ex
      BY <1>4, <3>1
    <3>5. ~(j * bx >= ey \/ j * by >= ex)
      BY <1>8, <3>1
    <3> QED
      BY <3>2, <3>3, <3>4, <3>5
  <2> QED
    BY <2>1, <2>2
<1> QED
  BY <1>4, <1>5, <1>6, <1>7, <1>8

\* The result of a battle, read off its record.
Outcome(sides) ==
  [winner |-> sides[Stands(sides)].real_player_id, HP |-> sides[Stands(sides)].HP,
   loser  |-> sides[3 - Stands(sides)].real_player_id]

LEMMA ResultIs == \A b : Result(b) = Outcome(Player[b])
  BY DEF Result, Outcome, Stands

LEMMA StandsIs ==
  ASSUME NEW sides, Alive(sides[1]) <=> ~Alive(sides[2])
  PROVE  Stands(sides) = IF Alive(sides[1]) THEN 1 ELSE 2
<1>1. \E n \in 1 .. 2 : Alive(sides[n])
  BY DEF Alive
<1>2. Stands(sides) \in 1 .. 2 /\ Alive(sides[Stands(sides)])
  BY <1>1 DEF Stands
<1>3. Stands(sides) = 1 \/ Stands(sides) = 2
  BY <1>2
<1> QED
  BY <1>2, <1>3

Results == [b \in Battles |-> IF Ended(b) THEN Result(b) ELSE NoResult]

\* Whom Bracket sends for a side that is settled, and with how many HP.
LEMMA Entrants ==
  ASSUME Types, \A b \in Battles : Record(b), NEW c \in Procs, Settled(c)
  PROVE  B!Known(c) /\ B!Entrant(c) = [id |-> Name(c), HP |-> Entry(c)]
<1>1. ASSUME NEW b \in Battles, Ended(b)
      PROVE  /\ Results[b] # B!Open
             /\ Results[b].winner = Winner(b).real_player_id /\ Results[b].HP = Winner(b).HP
             /\ Results[b].loser = Loser(b).real_player_id
  <2>1. Results[b] = Outcome(Player[b])
    BY <1>1, ResultIs DEF Results
  <2>2. Winner(b).HP > 0
    BY <1>1, Finals DEF Alive
  <2> QED
    BY <2>1, <2>2 DEF Outcome, Winner, Loser, B!Open
<1>2. CASE c \in Battles
  <2>1. Ended(c)
    BY <1>2 DEF Settled
  <2>2. PICK w : w = Winner(c)
    OBVIOUS
  <2>3. Results[c] # B!Open /\ Results[c].winner = w.real_player_id /\ Results[c].HP = w.HP
    BY <1>1, <1>2, <2>1, <2>2
  <2>4. B!Known(c)
    BY <1>2, <2>3 DEF B!Known, Results, Ended
  <2>5. B!Entrant(c) = [id |-> w.real_player_id,
                        HP |-> w.HP + (roster[w.real_player_id].HP - w.HP) \div 2]
    BY <1>2, <2>3 DEF B!Entrant, B!Regain, Results, Ended
  <2> QED
    BY <1>2, <2>2, <2>4, <2>5 DEF Name, Entry
<1>3. CASE c \notin Battles /\ c \in RealPlayers
  BY <1>3 DEF B!Known, B!Entrant, RealPlayers, Name, Entry
<1>4. CASE c \notin Battles /\ c \notin RealPlayers
  <2>1. PICK b : b = LostIn(c) /\ b \in DOMAIN lose /\ Ended(b)
    BY <1>4 DEF Settled, LostIn
  <2>2. b \in Battles /\ b = B!LostIn(c)
    BY <2>1, BracketAssumption DEF LostIn, B!LostIn
  <2>3. Results[b] # B!Open /\ Results[b].loser = Loser(b).real_player_id
    BY <1>1, <2>1, <2>2
  <2>4. B!Known(c)
    BY <1>4, <2>2, <2>3 DEF B!Known, Results, Ended, RealPlayers
  <2>5. B!Entrant(c) = [id |-> Loser(b).real_player_id, HP |-> roster[Loser(b).real_player_id].HP]
    BY <1>4, <2>2, <2>3 DEF B!Entrant, Results, Ended, RealPlayers
  <2> QED
    BY <1>4, <2>1, <2>4, <2>5 DEF Name, Entry
<1> QED
  BY <1>2, <1>3, <1>4

\* The last round of a battle ends it as Bracket says, whoever strikes first.
LEMMA LastRound ==
  ASSUME NEW b \in Battles, NEW x \in Status, NEW y \in Status, NEW u, NEW v,
         roster \in Rosters, Playing(x), Playing(y),
         u = fight(b, x, y)[1], v = fight(b, x, y)[2], Alive(u) <=> ~Alive(v),
         NEW ex \in Int, NEW ey \in Int, NEW n \in Nat,
         x.HP = ex - n * Impact(roster, b, y.real_player_id),
         y.HP = ey - n * Impact(roster, b, x.real_player_id)
  PROVE  /\ B!Blow(b, x.real_player_id) + B!Blow(b, y.real_player_id) > 0
         /\ B!Duel(b, [id |-> x.real_player_id, HP |-> ex], [id |-> y.real_player_id, HP |-> ey])
              = Outcome(<<u, v>>)
<1>1. PICK ix, iy \in RealPlayers : ix = x.real_player_id /\ iy = y.real_player_id
  BY DEF Status
<1>2. PICK bx, by \in Nat : bx = Impact(roster, b, ix) /\ by = Impact(roster, b, iy)
  BY ImpactNat
<1>3. B!Blow(b, ix) = bx /\ B!Blow(b, iy) = by
  BY <1>2 DEF B!Blow, Impact
<1>4. PICK hx, hy \in Int : hx = x.HP /\ hy = y.HP
  BY DEF Status
<1>5. hx = ex - n * by /\ hy = ey - n * bx /\ hx > 0 /\ hy > 0
  BY <1>1, <1>2, <1>4 DEF Playing, Alive
<1>6. PICK first \in BOOLEAN : first = StrikesFirst(x, y)
  BY DEF StrikesFirst
<1>7. first <=> (hx < hy \/ (hx = hy /\ Number[ix] < Number[iy]))
  BY <1>1, <1>4, <1>6 DEF StrikesFirst
<1>8. PICK ux, vy : ux = u.HP /\ vy = v.HP
  OBVIOUS
<1>9. /\ u.real_player_id = ix /\ v.real_player_id = iy
      /\ first => vy = hy - bx /\ ux = IF vy > 0 THEN hx - by ELSE hx
      /\ ~first => ux = hx - by /\ vy = IF ux > 0 THEN hy - bx ELSE hy
  <2>1. LET a == fight(b, x, y)
        IN /\ a[1].real_player_id = ix /\ a[2].real_player_id = iy
           /\ StrikesFirst(x, y) => a[2].HP = hy - bx /\ a[1].HP = IF a[2].HP > 0 THEN hx - by ELSE hx
           /\ ~StrikesFirst(x, y) => a[1].HP = hx - by /\ a[2].HP = IF a[1].HP > 0 THEN hy - bx ELSE hy
    BY <1>1, <1>2, <1>4, RoundHP
  <2> QED
    BY <1>6, <1>8, <2>1
<1>10. ux > 0 <=> ~(vy > 0)
  BY <1>8 DEF Alive
<1>11. ex - n * by - by <= 0 \/ ey - n * bx - bx <= 0
  BY <1>5, <1>9, <1>10
<1>12. /\ bx + by > 0 /\ n + 1 \in 1 .. ex + ey
       /\ (n + 1) * bx >= ey \/ (n + 1) * by >= ex
       /\ ~(n * bx >= ey \/ n * by >= ex)
       /\ \A k \in Int : /\ k * bx >= ey \/ k * by >= ex
                         /\ ~((k - 1) * bx >= ey \/ (k - 1) * by >= ex)
                         => k = n + 1
  <2>1. ex - n * by > 0 /\ ey - n * bx > 0
    BY <1>5
  <2> QED
    BY <1>11, <2>1, Count
\* The rounds that Bracket counts.
<1> DEFINE Enough(k) == B!Fells(k, bx, ey) \/ B!Fells(k, by, ex)
           N == CHOOSE k \in 1 .. ex + ey : Enough(k) /\ ~Enough(k - 1)
<1>13. N = n + 1
  <2>1. \A k \in Int : Enough(k) <=> k * bx >= ey \/ k * by >= ex
    BY DEF B!Fells
  <2>2. Enough(n + 1) /\ ~Enough(n + 1 - 1)
    <3>1. n + 1 \in Int /\ n \in Int /\ n + 1 - 1 = n
      OBVIOUS
    <3> HIDE DEF Enough
    <3> QED
      BY <1>12, <2>1, <3>1
  <2>3. \A k \in 1 .. ex + ey : Enough(k) /\ ~Enough(k - 1) => k = n + 1
    <3> SUFFICES ASSUME NEW k \in 1 .. ex + ey, Enough(k), ~Enough(k - 1) PROVE k = n + 1
      OBVIOUS
    <3>1. k \in Int /\ k - 1 \in Int
      OBVIOUS
    <3> HIDE DEF Enough
    <3>2. /\ k * bx >= ey \/ k * by >= ex
          /\ ~((k - 1) * bx >= ey \/ (k - 1) * by >= ex)
      BY <2>1, <3>1
    <3> QED
      BY <1>12, <3>1, <3>2
  <2> HIDE DEF Enough
  <2>4. N \in 1 .. ex + ey /\ Enough(N) /\ ~Enough(N - 1)
    BY <1>12, <2>2
  <2> QED
    BY <2>3, <2>4
<1> DEFINE rx == [id |-> ix, HP |-> ex]
           ry == [id |-> iy, HP |-> ey]
<1>14. B!Duel(b, rx, ry) =
         LET gx == ex - (N - 1) * by
             gy == ey - (N - 1) * bx
             xf == gx < gy \/ (gx = gy /\ Number[ix] < Number[iy])
         IN IF B!Fells(N, bx, ey) /\ (xf \/ ~B!Fells(N, by, ex))
              THEN [winner |-> ix, HP |-> IF xf THEN gx ELSE gx - by, loser |-> iy]
              ELSE [winner |-> iy, HP |-> IF xf THEN gy - bx ELSE gy, loser |-> ix]
  BY <1>3 DEF B!Duel
<1> HIDE DEF N
<1>15. ex - (N - 1) * by = hx /\ ey - (N - 1) * bx = hy
  <2>1. N - 1 = n
    BY <1>13
  <2> QED
    BY <1>5, <2>1
<1>16. /\ B!Fells(N, bx, ey) <=> hy - bx <= 0
       /\ B!Fells(N, by, ex) <=> hx - by <= 0
  <2>1. (n + 1) * bx = n * bx + bx /\ (n + 1) * by = n * by + by
    OBVIOUS
  <2>2. B!Fells(N, bx, ey) <=> (n + 1) * bx >= ey
    BY <1>13 DEF B!Fells
  <2>3. B!Fells(N, by, ex) <=> (n + 1) * by >= ex
    BY <1>13 DEF B!Fells
  <2>4. n * bx \in Nat /\ n * by \in Nat
    OBVIOUS
  <2> QED
    BY <1>5, <2>1, <2>2, <2>3, <2>4
<1> HIDE DEF rx, ry
<1>17. B!Duel(b, rx, ry) =
         IF hy - bx <= 0 /\ (first \/ ~(hx - by <= 0))
           THEN [winner |-> ix, HP |-> IF first THEN hx ELSE hx - by, loser |-> iy]
           ELSE [winner |-> iy, HP |-> IF first THEN hy - bx ELSE hy, loser |-> ix]
  BY <1>7, <1>14, <1>15, <1>16
<1>18. Outcome(<<u, v>>) =
         IF ux > 0 THEN [winner |-> ix, HP |-> ux, loser |-> iy]
                   ELSE [winner |-> iy, HP |-> vy, loser |-> ix]
  <2>1. PICK P : P = <<u, v>>
    OBVIOUS
  <2>2. P[1] = u /\ P[2] = v
    BY <2>1
  <2>3. Stands(P) = IF Alive(u) THEN 1 ELSE 2
    BY <2>2, StandsIs
  <2>4. Outcome(P) = IF Alive(u) THEN [winner |-> ix, HP |-> ux, loser |-> iy]
                                 ELSE [winner |-> iy, HP |-> vy, loser |-> ix]
    <3>1. CASE Alive(u)
      BY <1>8, <1>9, <2>2, <2>3, <3>1 DEF Outcome
    <3>2. CASE ~Alive(u)
      BY <1>8, <1>9, <2>2, <2>3, <3>2 DEF Outcome
    <3> QED
      BY <3>1, <3>2
  <2> QED
    BY <1>8, <2>1, <2>4 DEF Alive
<1>19. B!Duel(b, rx, ry) = Outcome(<<u, v>>)
  <2>1. CASE first
    <3>1. CASE hy - bx <= 0
      <4>1. ux > 0 /\ ux = hx
        BY <1>9, <1>10, <2>1, <3>1
      <4> QED
        BY <1>17, <1>18, <2>1, <3>1, <4>1
    <3>2. CASE ~(hy - bx <= 0)
      <4>1. ~(ux > 0) /\ vy = hy - bx
        BY <1>9, <1>10, <2>1, <3>2
      <4> QED
        BY <1>17, <1>18, <2>1, <3>2, <4>1
    <3> QED
      BY <3>1, <3>2
  <2>2. CASE ~first
    <3>1. CASE hx - by <= 0
      <4>1. ~(ux > 0) /\ vy = hy
        BY <1>9, <1>10, <2>2, <3>1
      <4> QED
        BY <1>17, <1>18, <2>2, <3>1, <4>1
    <3>2. CASE ~(hx - by <= 0)
      <4>1. ux > 0 /\ ux = hx - by /\ hy - bx <= 0
        BY <1>9, <1>10, <2>2, <3>2
      <4> QED
        BY <1>17, <1>18, <2>2, <3>2, <4>1
    <3> QED
      BY <3>1, <3>2
  <2> QED
    BY <2>1, <2>2
<1> QED
  BY <1>1, <1>3, <1>12, <1>19 DEF rx, ry

LEMMA Decides ==
  ASSUME IInv, Telling, NEW b \in Battles, Fight(b)
  PROVE  B!Decide(b) \/ UNCHANGED <<roster, Results>>
<1>1. PICK h : Story(h)
  BY DEF Telling
<1>2. PICK l, r \in Procs, x, y, u, v \in Status : RoundOf(b, l, r, x, y, u, v)
  BY FightRound
<1>3. /\ l = left[b] /\ r = right[b] /\ x = Head(up[l]) /\ y = Head(up[r])
      /\ pc[b] = "fight" /\ up[l] # <<>> /\ up[r] # <<>> /\ Playing(x) /\ Playing(y)
      /\ u = fight(b, x, y)[1] /\ v = fight(b, x, y)[2]
      /\ u.battle_ended_flag => (Alive(u) <=> ~Alive(v))
      /\ Player'[b][1] = u /\ Player'[b][2] = v
      /\ \A d \in Battles \ {b} : Player'[d] = Player[d]
      /\ roster' = roster
  BY <1>2 DEF RoundOf
<1>4. /\ Settled(l) /\ Settled(r) /\ ~Ended(b)
      /\ x.real_player_id = Name(l) /\ y.real_player_id = Name(r)
      /\ Entry(l) \in Int /\ Entry(r) \in Int
      /\ \E n \in Nat : Score(b, n, x.HP, y.HP)
  BY <1>1, <1>3, BeforeRound
<1>5. Types /\ roster \in Rosters /\ \A d \in Battles : Record(d)
  BY <1>1 DEF IInv, Types, Story
<1>6. \A d \in Battles \ {b} : (Ended(d)' <=> Ended(d)) /\ Result(d)' = Result(d)
  <2> SUFFICES ASSUME NEW d \in Battles \ {b} PROVE (Ended(d)' <=> Ended(d)) /\ Result(d)' = Result(d)
    OBVIOUS
  <2>1. Ended(d)' <=> Ended(d)
    BY <1>3 DEF Ended
  <2>2. Result(d)' = Outcome(Player'[d])
    BY DEF Result, Outcome, Stands
  <2> QED
    BY <1>3, <2>1, <2>2, ResultIs
<1>7. CASE ~u.battle_ended_flag
  <2>1. ~Ended(b)'
    BY <1>3, <1>7 DEF Ended
  <2>2. Results' = Results
    BY <1>4, <1>6, <2>1 DEF Results, NoResult
  <2> QED
    BY <1>3, <2>2
<1>8. CASE u.battle_ended_flag
  <2>1. PICK n \in Nat : Score(b, n, x.HP, y.HP)
    BY <1>4
  <2>2. PICK ex, ey \in Int : ex = Entry(l) /\ ey = Entry(r)
    BY <1>4
  <2>3. PICK ix, iy : ix = x.real_player_id /\ iy = y.real_player_id
    OBVIOUS
  <2>4. /\ x.HP = ex - n * Impact(roster, b, iy)
        /\ y.HP = ey - n * Impact(roster, b, ix)
    BY <1>3, <1>4, <2>1, <2>2, <2>3 DEF Score
  <2>5. /\ B!Blow(b, ix) + B!Blow(b, iy) > 0
        /\ B!Duel(b, [id |-> ix, HP |-> ex], [id |-> iy, HP |-> ey]) = Outcome(<<u, v>>)
    BY <1>3, <1>5, <1>8, <2>3, <2>4, LastRound
  <2>6. /\ B!Known(left[b]) /\ B!Entrant(left[b]) = [id |-> ix, HP |-> ex]
        /\ B!Known(right[b]) /\ B!Entrant(right[b]) = [id |-> iy, HP |-> ey]
    BY <1>3, <1>4, <1>5, <2>2, <2>3, Entrants
  <2>7. Ended(b)' /\ Result(b)' = Outcome(<<u, v>>)
    <3>1. Ended(b)'
      BY <1>3, <1>8 DEF Ended
    <3>2. Result(b)' = Outcome(Player'[b])
      BY DEF Result, Outcome, Stands
    <3>3. \A P, Q : /\ P[1] = Q[1] /\ P[2] = Q[2]
                    /\ Alive(P[1]) <=> ~Alive(P[2])
                    => Outcome(P) = Outcome(Q)
      <4> SUFFICES ASSUME NEW P, NEW Q, P[1] = Q[1], P[2] = Q[2], Alive(P[1]) <=> ~Alive(P[2])
                   PROVE  Outcome(P) = Outcome(Q)
        OBVIOUS
      <4>1. Stands(P) = Stands(Q) /\ Stands(P) = IF Alive(P[1]) THEN 1 ELSE 2
        BY StandsIs
      <4>2. P[Stands(P)] = Q[Stands(Q)] /\ P[3 - Stands(P)] = Q[3 - Stands(Q)]
        BY <4>1
      <4> QED
        BY <4>2 DEF Outcome
    <3>4. <<u, v>>[1] = u /\ <<u, v>>[2] = v
      OBVIOUS
    <3> QED
      BY <1>3, <1>8, <3>1, <3>2, <3>3, <3>4
  <2>8. Results[b] = B!Open
    BY <1>4 DEF Results, NoResult, Nobody, B!Open
  <2>9. Results' = [Results EXCEPT ![b] = Outcome(<<u, v>>)]
    BY <1>6, <2>7 DEF Results, NoResult
  <2>10. B!Decide(b)
    <3>1. /\ Results[b] = B!Open /\ B!Known(left[b]) /\ B!Known(right[b])
          /\ LET rx == B!Entrant(left[b])  ry == B!Entrant(right[b])
             IN /\ B!Blow(b, rx.id) + B!Blow(b, ry.id) > 0
                /\ Results' = [Results EXCEPT ![b] = B!Duel(b, rx, ry)]
          /\ roster' = roster
      <4>0. PICK rx, ry : rx = [id |-> ix, HP |-> ex] /\ ry = [id |-> iy, HP |-> ey]
        OBVIOUS
      <4>1. /\ rx = [id |-> ix, HP |-> ex] /\ rx.id = ix
            /\ ry = [id |-> iy, HP |-> ey] /\ ry.id = iy
        BY <4>0
      <4>2. B!Entrant(left[b]) = rx /\ B!Entrant(right[b]) = ry
        BY <2>6, <4>1
      <4>3. B!Duel(b, rx, ry) = Outcome(<<u, v>>)
        BY <2>5, <4>1
      <4>4. Results' = [Results EXCEPT ![b] = B!Duel(b, rx, ry)]
        BY <2>9, <4>3
      <4> QED
        BY <1>3, <2>5, <2>6, <2>8, <4>1, <4>2, <4>4
    <3> QED
      BY <3>1 DEF B!Decide, Results, Ended
  <2> QED
    BY <2>10
<1> QED
  BY <1>7, <1>8

\* The tree of processes, with their messages, FIFOs and waits, implements the
\* tournament of Bracket (battle.c:54-143, player.c:62-83).
THEOREM ComputesBracket == Spec => ImplementsBracket
<1>1. Init => B!Init
  <2>1. Init => \A b \in Battles : ~Ended(b)
    BY DEF Init, Ended, NoStatus
  <2>2. Init => Results = [b \in Battles |-> NoResult]
    BY <2>1 DEF Results
  <2> QED
    BY <2>2 DEF Init, B!Init, B!Open, Results, Ended, NoResult, Nobody
<1>2. IInv /\ Telling /\ [Next]_vars => [B!Next]_<<roster, Results>>
  <2> SUFFICES ASSUME IInv, Telling, [Next]_vars PROVE [B!Next]_<<roster, Results>>
    OBVIOUS
  <2>1. ASSUME NEW b \in Battles, Fight(b) PROVE [B!Next]_<<roster, Results>>
    BY <2>1, Decides DEF B!Next
  <2>2. UNCHANGED <<roster, Player>> => UNCHANGED <<roster, Results>>
    <3> SUFFICES ASSUME UNCHANGED <<roster, Player>> PROVE Results' = Results
      OBVIOUS
    <3>1. \A b : Result(b)' = Outcome(Player'[b])
      BY DEF Result, Outcome, Stands
    <3>2. \A b : (Ended(b)' <=> Ended(b)) /\ Result(b)' = Result(b)
      BY <3>1, ResultIs DEF Ended
    <3> QED
      BY <3>2 DEF Results, NoResult
  <2>3. ASSUME NEW b \in Battles, BattleStep(b), ~Fight(b) PROVE UNCHANGED <<roster, Player>>
    BY <2>3 DEF BattleStep, Fork, WaitLoser, RelayUp, RelayDown, WaitLast
  <2>4. ASSUME NEW c \in Players, PlayerStep(c) PROVE UNCHANGED <<roster, Player>>
    BY <2>4 DEF PlayerStep, Start, Play, Embody, HandOver
  <2>5. CASE UNCHANGED vars
    BY <2>2, <2>5 DEF vars
  <2> QED
    BY <2>1, <2>2, <2>3, <2>4, <2>5 DEF Next
<1>3. IInv /\ Telling /\ [Next]_vars => [B!Next]_<<roster, [b \in Battles |-> IF Player[b][1].battle_ended_flag THEN Result(b) ELSE NoResult]>>
  BY <1>2 DEF Results, Ended
<1> QED
  BY <1>1, <1>3, AlwaysTelling, PTL DEF Spec, ImplementsBracket, B!Spec
-----------------------------------------------------------------------------
(* Whom a battle beat.  f[c] is the player at the leaf that plays for c.    *)

WonSide(b)  == IF Alive(Player[b][1]) THEN left[b] ELSE right[b]
LostSide(b) == IF Alive(Player[b][1]) THEN right[b] ELSE left[b]

InPlay(c) == c \in RealPlayers \/ pc[c] \notin {"unborn", "start", "open"}
Fell(f, c) == \E b \in Battles : Ended(b) /\ f[LostSide(b)] = c

\* A process that plays, or was beaten, and is not below another that its player
\* plays for.
Top(c) ==
  /\ c \in Players \/ Ended(c)
  /\ \A b \in Battles : Ended(b) => c # WonSide(b)

\* The winner of a battle goes up, under its name; nobody has two places.
Lines(f) ==
  /\ f \in [Procs -> Procs] /\ \A c \in Players : f[c] = c
  /\ \A b \in Battles : Ended(b) =>
       /\ f[b] \in Players /\ f[b] = f[WonSide(b)] /\ Name(f[b]) = Name(b)
       /\ \A c \in Children(b) : InPlay(f[c])
  /\ \A c, d \in Procs : Top(c) /\ Top(d) /\ f[c] = f[d] => c = d

\* The status s, on its way to c or read by it, is of a battle that c's player won or lost.
Reports(f, c, s) ==
  LET b == s.current_battle_id IN
  s.battle_ended_flag =>
    b \in Battles /\ Ended(b) /\ f[c] = f[IF Alive(s) THEN b ELSE LostSide(b)]
News(f) ==
  /\ \A c \in Procs : down[c] # <<>> => Reports(f, c, Head(down[c]))
  /\ \A c \in Players : pc[c] = "lose" =>
       p[c].battle_ended_flag /\ Reports(f, c, p[c])

\* An agent plays on for a real player, and a player that has exited is through.
Seconds(f) ==
  \A a \in Agents : InPlay(a) => Settled(a) /\ f[LostSide(LostIn(a))] \in RealPlayers
Through(f, c) ==
  \/ Ended(Root) /\ c \in {f[Root], f[LostSide(Root)]}
  \/ IF c \in RealPlayers THEN \E a \in Agents : InPlay(a) /\ Name(a) = c
     ELSE Fell(f, c)

\* A player loses once, and so does its agent.
Tally(f) ==
  \A c \in RealPlayers :
    losses[c] = (IF Fell(f, c) THEN 1 ELSE 0)
                  + (IF \E a \in Agents : Fell(f, a) /\ Name(a) = c THEN 1 ELSE 0)

Bout(f) ==
  /\ Lines(f) /\ News(f) /\ Seconds(f) /\ Tally(f)
  /\ \A c \in Players : pc[c] \in Exited => Through(f, c)
  /\ pc[Root] \in {"last"} \cup Exited => champion = Winner(Root).real_player_id

\* The sides of a battle that has ended, and in whose names they fought.
LEMMA Placed ==
  ASSUME Types, NEW b \in Battles, Record(b), Ended(b)
  PROVE  /\ Children(b) = {WonSide(b), LostSide(b)} /\ WonSide(b) # LostSide(b)
         /\ \A c \in Children(b) : c \in Procs /\ c # b /\ Settled(c) /\ (c \in Players \/ Ended(c))
         /\ Name(WonSide(b)) = Winner(b).real_player_id
         /\ Name(LostSide(b)) = Loser(b).real_player_id
         /\ remain[b] # -1 => Remains(b) = WonSide(b)
<1>1. /\ Children(b) = {left[b], right[b]} /\ left[b] # right[b] /\ b \notin Children(b)
      /\ Children(b) \subseteq Procs
  BY Tree
<1>2. Player[b][1] # NoStatus
  BY DEF Ended, NoStatus
<1>3. /\ Settled(left[b]) /\ Player[b][1].real_player_id = Name(left[b])
      /\ Settled(right[b]) /\ Player[b][2].real_player_id = Name(right[b])
      /\ Alive(Player[b][1]) <=> ~Alive(Player[b][2])
      /\ remain[b] # -1 => Alive(Player[b][remain[b] + 1])
  BY <1>2 DEF Record
<1>4. /\ Winner(b) = IF Alive(Player[b][1]) THEN Player[b][1] ELSE Player[b][2]
      /\ Loser(b) = IF Alive(Player[b][1]) THEN Player[b][2] ELSE Player[b][1]
  <2>1. \A n \in 1 .. 2 : Player[b][n] = IF Alive(Player[b][n]) THEN Winner(b) ELSE Loser(b)
    BY Finals
  <2>2. 1 \in 1 .. 2 /\ 2 \in 1 .. 2
    OBVIOUS
  <2> QED
    BY <1>3, <2>1, <2>2
<1>5. ASSUME NEW c \in Children(b)
      PROVE  c \in Procs /\ c # b /\ Settled(c) /\ (c \in Players \/ Ended(c))
  <2>1. c \in Procs /\ c # b /\ Settled(c)
    BY <1>1, <1>3
  <2> QED
    BY <2>1 DEF Settled, Procs
<1>6. remain[b] # -1 => Remains(b) = WonSide(b)
  <2>1. remain[b] = -1 \/ remain[b] = 0 \/ remain[b] = 1
    BY DEF Types
  <2>2. CASE remain[b] = 0
    BY <1>3, <2>2 DEF Remains, Side, WonSide
  <2>3. CASE remain[b] = 1
    BY <1>3, <2>3 DEF Remains, Side, WonSide
  <2> QED
    BY <2>1, <2>2, <2>3
<1>7. CASE Alive(Player[b][1])
  <2>1. WonSide(b) = left[b] /\ LostSide(b) = right[b]
    BY <1>7 DEF WonSide, LostSide
  <2> QED
    BY <1>1, <1>3, <1>4, <1>5, <1>6, <1>7, <2>1
<1>8. CASE ~Alive(Player[b][1])
  <2>1. WonSide(b) = right[b] /\ LostSide(b) = left[b]
    BY <1>8 DEF WonSide, LostSide
  <2> QED
    BY <1>1, <1>3, <1>4, <1>5, <1>6, <1>8, <2>1
<1> QED
  BY <1>7, <1>8

\* Who plays for a side of a battle that has ended has its name, and may play.
LEMMA Followed ==
  ASSUME Types, \A b \in Battles : Record(b), NEW f, Lines(f),
         NEW b \in Battles, Ended(b), NEW c \in Children(b)
  PROVE  f[c] \in Players /\ Name(f[c]) = Name(c) /\ InPlay(f[c])
<1>1. c \in Procs /\ (c \in Players \/ Ended(c))
  BY Placed
<1>2. c \in Players \/ c \in Battles
  BY <1>1 DEF Procs
<1>3. Name(f[c]) = Name(c)
  BY <1>1, <1>2 DEF Lines
<1>4. f[c] \in Players
  BY <1>1, <1>2 DEF Lines
<1> QED
  BY <1>3, <1>4 DEF Lines

\* Two battles have two losers, and none of them wins the final.
LEMMA Apart ==
  ASSUME Types, \A b \in Battles : Record(b), NEW f, Lines(f)
  PROVE  /\ \A b, d \in Battles : Ended(b) /\ Ended(d) /\ f[LostSide(b)] = f[LostSide(d)] => b = d
         /\ \A b \in Battles : Ended(b) /\ Ended(Root) => f[LostSide(b)] # f[Root]
<1>1. ASSUME NEW b \in Battles, Ended(b)
      PROVE  LostSide(b) \in Procs /\ LostSide(b) \in Children(b) /\ Top(LostSide(b))
  <2>1. /\ LostSide(b) \in Children(b) /\ LostSide(b) \in Procs /\ LostSide(b) # WonSide(b)
        /\ LostSide(b) \in Players \/ Ended(LostSide(b))
    BY <1>1, Placed
  <2>2. ASSUME NEW d \in Battles, Ended(d) PROVE LostSide(b) # WonSide(d)
    <3>1. WonSide(d) \in Children(d)
      BY <2>2, Placed
    <3> QED
      BY <2>1, <3>1, Tree
  <2> QED
    BY <2>1, <2>2 DEF Top
<1>2. ASSUME Ended(Root) PROVE Root \in Procs /\ Top(Root)
  <2>1. \A d \in Battles : Ended(d) => WonSide(d) \in Children(d)
    BY Placed
  <2> QED
    BY <1>2, <2>1, Tree DEF Top
<1>3. ASSUME NEW b \in Battles, NEW d \in Battles, Ended(b), Ended(d), f[LostSide(b)] = f[LostSide(d)]
      PROVE  b = d
  <2>1. LostSide(b) = LostSide(d)
    BY <1>1, <1>3 DEF Lines
  <2> QED
    BY <1>1, <1>3, <2>1, Tree
<1>4. ASSUME NEW b \in Battles, Ended(b), Ended(Root) PROVE f[LostSide(b)] # f[Root]
  <2>1. LostSide(b) # Root
    BY <1>1, <1>4, Tree
  <2> QED
    BY <1>1, <1>2, <1>4, <2>1 DEF Lines
<1> QED
  BY <1>3, <1>4

\* An agent plays for the real player that lost the battle it is named for, and
\* no player has two agents.
LEMMA Second ==
  ASSUME Types, \A b \in Battles : Record(b), NEW f, Lines(f), Seconds(f), NEW a \in Agents, InPlay(a)
  PROVE  /\ Settled(a) /\ LostIn(a) \in Battles /\ Ended(LostIn(a)) /\ lose[LostIn(a)] = a
         /\ f[LostSide(LostIn(a))] = Name(a) /\ Name(a) \in RealPlayers
         /\ \A e \in Agents : InPlay(e) /\ Name(e) = Name(a) => e = a
<1>1. ASSUME NEW e \in Agents, InPlay(e)
      PROVE  /\ Settled(e) /\ LostIn(e) \in Battles /\ Ended(LostIn(e)) /\ lose[LostIn(e)] = e
             /\ f[LostSide(LostIn(e))] = Name(e) /\ Name(e) \in RealPlayers
  <2>1. Settled(e) /\ f[LostSide(LostIn(e))] \in RealPlayers
    BY <1>1 DEF Seconds
  <2>2. e \notin Battles /\ e \notin RealPlayers
    BY Tree DEF Agents
  <2>3. LostIn(e) \in DOMAIN lose /\ lose[LostIn(e)] = e /\ Ended(LostIn(e))
    BY <2>1, <2>2 DEF Settled, LostIn
  <2>4. PICK b \in Battles : b = LostIn(e)
    BY <2>3, BracketAssumption
  <2>5. Name(e) = Loser(b).real_player_id
    BY <2>2, <2>4 DEF Name
  <2>6. LostSide(b) \in Children(b) /\ Name(LostSide(b)) = Loser(b).real_player_id
    BY <2>3, <2>4, Placed
  <2>7. Name(f[LostSide(b)]) = Name(LostSide(b))
    BY <2>3, <2>4, <2>6, Followed
  <2>8. Name(f[LostSide(b)]) = f[LostSide(b)]
    <3>1. f[LostSide(b)] \in RealPlayers /\ f[LostSide(b)] \notin Battles
      BY <2>1, <2>4, Tree
    <3> QED
      BY <3>1 DEF Name
  <2> QED
    BY <2>1, <2>3, <2>4, <2>5, <2>6, <2>7, <2>8
<1>2. ASSUME NEW e \in Agents, InPlay(e), Name(e) = Name(a) PROVE e = a
  <2>1. LostIn(e) = LostIn(a)
    BY <1>1, <1>2, Apart
  <2> QED
    BY <1>1, <1>2, <2>1
<1> QED
  BY <1>1, <1>2

-----------------------------------------------------------------------------
(* The bout goes on: all steps but the last round of a battle.             *)

\* A step that ends no battle.
LEMMA CalmBout ==
  ASSUME IInv, \A b \in Battles : Record(b), NEW f, Bout(f), Kept,
         \A b \in Battles : Ended(b)' => Ended(b),
         \A c \in RealPlayers : losses'[c] = losses[c],
         \A c \in Players : InPlay(c) => InPlay(c)',
         \A c \in Procs : down'[c] # <<>> =>
           down'[c] = down[c] \/ Reports(f, c, Head(down'[c])),
         \A c \in Players : pc'[c] = "lose" =>
           \/ pc[c] = "lose" /\ p'[c] = p[c]
           \/ p'[c].battle_ended_flag /\ Reports(f, c, p'[c]),
         \A a \in Agents : InPlay(a)' =>
           InPlay(a) \/ (Settled(a) /\ f[LostSide(LostIn(a))] \in RealPlayers),
         \A c \in Players : pc'[c] \in Exited => pc[c] \in Exited \/ Through(f, c)',
         pc'[Root] \in {"last"} \cup Exited =>
           \/ pc[Root] \in {"last"} \cup Exited /\ champion' = champion
           \/ Ended(Root) /\ champion' = Winner(Root).real_player_id
  PROVE  Bout(f)'
<1>0. Types /\ Lines(f) /\ News(f) /\ Seconds(f) /\ Tally(f)
  BY DEF IInv, Bout
<1>1. ASSUME NEW b \in Battles
      PROVE  /\ Ended(b)' <=> Ended(b)
             /\ Ended(b) => /\ WonSide(b)' = WonSide(b) /\ LostSide(b)' = LostSide(b)
                            /\ Winner(b)' = Winner(b)
  BY DEF Kept, Ended, WonSide, LostSide, Winner
<1>2. ASSUME NEW c, Settled(c) PROVE Settled(c)' /\ Name(c)' = Name(c)
  BY <1>2, Steady
<1>3. ASSUME NEW c \in Players, InPlay(c) PROVE Name(c)' = Name(c)
  <2>1. Settled(c)
    BY <1>0, <1>3, Tree DEF Seconds, Agents, Settled
  <2> QED
    BY <1>2, <2>1
<1>4. Lines(f)'
  <2>1. ASSUME NEW b \in Battles, Ended(b)'
        PROVE  /\ f[b] \in Players /\ f[b] = f[WonSide(b)]' /\ Name(f[b])' = Name(b)'
               /\ \A c \in Children(b) : InPlay(f[c])'
    <3>1. Ended(b)
      BY <1>1, <2>1
    <3>2. WonSide(b) \in Children(b) /\ Settled(b)
      BY <1>0, <3>1, Placed DEF Settled
    <3>3. f[b] \in Players /\ f[b] = f[WonSide(b)] /\ Name(f[b]) = Name(b)
      BY <1>0, <3>1 DEF Lines
    <3>4. \A c \in Children(b) : f[c] \in Players /\ InPlay(f[c])
      BY <1>0, <3>1, Followed
    <3>5. Name(f[b])' = Name(f[b])
      BY <1>3, <3>2, <3>3, <3>4
    <3> QED
      BY <1>1, <1>2, <3>1, <3>2, <3>3, <3>4, <3>5
  <2>2. \A c : Top(c)' /\ (c \in Players \/ c \in Battles) => Top(c)
    BY <1>1 DEF Top
  <2>3. \A c \in Procs : Top(c)' => Top(c)
    BY <2>2 DEF Procs
  <2> QED
    BY <1>0, <2>1, <2>3 DEF Lines
<1>5. ASSUME NEW c, NEW s, Reports(f, c, s) PROVE Reports(f, c, s)'
  BY <1>1, <1>5 DEF Reports
<1>6. News(f)'
  <2>1. ASSUME NEW c \in Procs, down'[c] # <<>> PROVE Reports(f, c, Head(down[c]))'
    <3>1. Reports(f, c, Head(down'[c]))
      BY <1>0, <2>1 DEF News
    <3>2. PICK s : s = Head(down'[c])
      OBVIOUS
    <3>3. Reports(f, c, s)'
      BY <1>5, <3>1, <3>2
    <3> QED
      BY <3>2, <3>3 DEF Reports
  <2>2. ASSUME NEW c \in Players, pc'[c] = "lose"
        PROVE  p'[c].battle_ended_flag /\ Reports(f, c, p[c])'
    <3>1. p'[c].battle_ended_flag /\ Reports(f, c, p'[c])
      BY <1>0, <2>2 DEF News
    <3>2. PICK s : s = p'[c]
      OBVIOUS
    <3>3. Reports(f, c, s)'
      BY <1>5, <3>1, <3>2
    <3> QED
      BY <3>1, <3>2, <3>3 DEF Reports
  <2> QED
    BY <2>1, <2>2 DEF News
<1>7. Seconds(f)'
  <2> SUFFICES ASSUME NEW a \in Agents, InPlay(a)'
               PROVE  Settled(a)' /\ f[LostSide(LostIn(a))]' \in RealPlayers
    BY DEF Seconds
  <2>1. Settled(a) /\ f[LostSide(LostIn(a))] \in RealPlayers
    BY <1>0 DEF Seconds
  <2>2. LostIn(a) \in Battles /\ Ended(LostIn(a))
    <3>1. a \notin Battles /\ a \notin RealPlayers
      BY Tree DEF Agents
    <3> QED
      BY <2>1, <3>1, BracketAssumption DEF Settled, LostIn
  <2>3. LostSide(LostIn(a))' = LostSide(LostIn(a))
    BY <1>1, <2>2
  <2> QED
    BY <1>2, <2>1, <2>3
<1>8. ASSUME NEW c PROVE Fell(f, c)' <=> Fell(f, c)
  BY <1>1 DEF Fell
<1>9. ASSUME NEW c \in Players, Fell(f, c) PROVE Name(c)' = Name(c)
  <2>1. PICK b \in Battles : Ended(b) /\ f[LostSide(b)] = c
    BY <1>9 DEF Fell
  <2>2. LostSide(b) \in Children(b)
    BY <1>0, <2>1, Placed
  <2>3. InPlay(c)
    BY <1>0, <2>1, <2>2, Followed
  <2> QED
    BY <1>3, <2>3
<1>10. Tally(f)'
  <2> SUFFICES ASSUME NEW c \in RealPlayers
               PROVE  losses'[c] = (IF Fell(f, c)' THEN 1 ELSE 0)
                        + (IF \E a \in Agents : Fell(f, a)' /\ Name(a)' = c THEN 1 ELSE 0)
    BY DEF Tally
  <2>1. (\E a \in Agents : Fell(f, a)' /\ Name(a)' = c) <=> (\E a \in Agents : Fell(f, a) /\ Name(a) = c)
    BY <1>8, <1>9, Tree
  <2>2. losses'[c] = (IF Fell(f, c) THEN 1 ELSE 0)
                       + (IF \E a \in Agents : Fell(f, a) /\ Name(a) = c THEN 1 ELSE 0)
    BY <1>0 DEF Tally
  <2> QED
    BY <1>8, <2>1, <2>2
<1>11. ASSUME NEW c \in Players, pc'[c] \in Exited PROVE Through(f, c)'
  <2>1. CASE Through(f, c)
    <3>1. CASE Ended(Root) /\ c \in {f[Root], f[LostSide(Root)]}
      BY <1>1, <3>1, Tree DEF Through
    <3>2. CASE c \in RealPlayers /\ \E a \in Agents : InPlay(a) /\ Name(a) = c
      BY <1>3, <3>2, Tree DEF Through
    <3>3. CASE c \notin RealPlayers /\ Fell(f, c)
      BY <1>8, <3>3 DEF Through
    <3> QED
      BY <2>1, <3>1, <3>2, <3>3 DEF Through
  <2> QED
    BY <1>11, <2>1 DEF Bout
<1>12. pc'[Root] \in {"last"} \cup Exited => champion' = Winner(Root)'.real_player_id
  <2>1. pc[Root] \in {"last"} \cup Exited => Ended(Root) /\ champion = Winner(Root).real_player_id
    BY Tree DEF Record, OverStates, Bout
  <2> QED
    BY <1>1, <2>1, Tree
<1> QED
  BY <1>4, <1>6, <1>7, <1>10, <1>11, <1>12 DEF Bout

\* A step of a battle that ends none: players are forked, passed on to, or reaped.
LEMMA BattleBout ==
  ASSUME IInv, \A b \in Battles : Record(b), NEW f, Bout(f), UNCHANGED <<Player, roster, p, losses>>,
         \A c \in Players : IsMoved(c),
         \A c \in Procs : down'[c] # <<>> =>
           down'[c] = down[c] \/ Reports(f, c, Head(down'[c])),
         pc'[Root] \in {"last"} \cup Exited =>
           \/ pc[Root] \in {"last"} \cup Exited /\ champion' = champion
           \/ Ended(Root) /\ champion' = Winner(Root).real_player_id
  PROVE  Bout(f)'
<1>1. Kept /\ \A b \in Battles : Ended(b)' => Ended(b)
  BY DEF Kept, Ended
<1>2. \A c \in Players : \/ pc'[c] = pc[c]
                         \/ pc[c] = "unborn" /\ pc'[c] = "start"
                         \/ pc[c] = "gone" /\ pc'[c] = "reaped"
  BY Tree DEF IsMoved
<1>3. /\ \A c \in Players : InPlay(c)' <=> InPlay(c)
      /\ \A c \in Players : pc'[c] \in Exited => pc[c] \in Exited
      /\ \A c \in Players : pc'[c] = "lose" => pc[c] = "lose" /\ p'[c] = p[c]
  BY <1>2 DEF InPlay, Exited
<1>4. \A c \in RealPlayers : losses'[c] = losses[c]
  OBVIOUS
<1>5. \A a \in Agents : InPlay(a)' => InPlay(a)
  BY <1>3, Tree
<1> QED
  BY <1>1, <1>3, <1>4, <1>5, CalmBout

LEMMA ForkBout ==
  ASSUME IInv, \A b \in Battles : Record(b), NEW f, Bout(f), NEW b \in Battles, Fork(b)
  PROVE  Bout(f)'
<1>0. /\ b \in Procs /\ Root \in Procs /\ Root \notin Children(b) /\ b \notin Children(b)
      /\ \A c \in Players : c \in Procs /\ c # b
      /\ pc \in [Procs -> BattleStates \cup PlayerStates]
  <2>1. pc \in [Procs -> BattleStates \cup PlayerStates]
    BY DEF IInv, Types
  <2> QED
    BY <2>1, Tree DEF Procs
<1>1. /\ pc[b] = "fork"
      /\ pc' = [c \in Procs |-> IF c = b THEN "fight"
                                ELSE IF c \notin Children(b) THEN pc[c]
                                ELSE IF c \in Battles THEN "fork" ELSE "start"]
      /\ UNCHANGED <<roster, down, Player, p, champion, losses>>
  BY DEF Fork
<1>2. \A c \in Children(b) : pc[c] = "unborn"
  BY <1>1 DEF IInv, Born
<1>3. \A c \in Players : IsMoved(c)
  BY <1>0, <1>1, <1>2 DEF IsMoved
<1>4. pc'[Root] \in {"last"} \cup Exited => pc[Root] \in {"last"} \cup Exited /\ champion' = champion
  BY <1>0, <1>1 DEF Exited
<1> QED
  BY <1>1, <1>3, <1>4, BattleBout

\* Battle A announces its winner.
LEMMA WaitBout ==
  ASSUME IInv, \A b \in Battles : Record(b), NEW f, Bout(f), NEW b \in Battles,
         WaitLoser(b) \/ WaitLast(b)
  PROVE  Bout(f)'
<1>0. /\ b \in Procs /\ Root \in Procs /\ Children(b) \subseteq Procs
      /\ Root \notin Children(b) /\ b \notin Children(b)
      /\ \A c \in Players : c \in Procs /\ c # b
      /\ pc \in [Procs -> BattleStates \cup PlayerStates]
  <2>1. pc \in [Procs -> BattleStates \cup PlayerStates]
    BY DEF IInv, Types
  <2> QED
    BY <2>1, Tree DEF Procs
<1>1. UNCHANGED <<roster, down, remain, Player, p, losses>>
  BY DEF WaitLoser, WaitLast
<1>2. PICK next : Wait(b, next) /\ \/ pc[b] = "wait" /\ champion' = IF b = Root THEN Announced(b) ELSE champion
                                   \/ pc[b] = "last" /\ champion' = champion
  BY DEF WaitLoser, WaitLast
<1>3. PICK c \in Children(b) : pc[c] = "gone" /\ pc' = [pc EXCEPT ![c] = "reaped", ![b] = next]
  BY <1>2 DEF Wait
<1>4. /\ \A d \in Players : IsMoved(d)
      /\ b # Root => pc'[Root] = pc[Root]
  BY <1>0, <1>3 DEF IsMoved
<1>5. ASSUME pc'[Root] \in {"last"} \cup Exited
      PROVE  \/ pc[Root] \in {"last"} \cup Exited /\ champion' = champion
             \/ Ended(Root) /\ champion' = Winner(Root).real_player_id
  <2>1. CASE b # Root \/ pc[b] = "last"
    BY <1>2, <1>4, <1>5, <2>1
  <2>2. CASE b = Root /\ pc[b] = "wait"
    <3>1. remain[b] = 0 \/ remain[b] = 1
      BY <2>2 DEF IInv, Types
    <3>2. Ended(b) /\ Record(b) /\ Types
      BY <2>2 DEF Record, OverStates, IInv
    <3>3. Alive(Player[b][remain[b] + 1])
      BY <3>1, <3>2 DEF Record
    <3>4. remain[b] + 1 \in 1 .. 2
      BY <3>1
    <3>5. PICK n \in 1 .. 2 : n = remain[b] + 1
      BY <3>4
    <3>6. Player[b][n] = Winner(b)
      BY <3>2, <3>3, <3>5, Finals
    <3> QED
      BY <1>2, <2>2, <3>2, <3>5, <3>6 DEF Announced
  <2> QED
    BY <1>2, <2>1, <2>2
<1> QED
  BY <1>1, <1>4, <1>5, BattleBout

LEMMA RelayUpBout ==
  ASSUME IInv, \A b \in Battles : Record(b), NEW f, Bout(f), NEW b \in Battles, RelayUp(b)
  PROVE  Bout(f)'
<1>0. /\ Root \in Procs /\ \A c \in Players : c \in Procs /\ c # b
      /\ pc \in [Procs -> BattleStates \cup PlayerStates]
  <2>1. pc \in [Procs -> BattleStates \cup PlayerStates]
    BY DEF IInv, Types
  <2> QED
    BY <2>1, Tree DEF Procs
<1>1. pc' = [pc EXCEPT ![b] = "relayDown"] /\ UNCHANGED <<roster, down, Player, p, champion, losses>>
  BY DEF RelayUp
<1>2. \A c \in Players : IsMoved(c)
  BY <1>0, <1>1 DEF IsMoved
<1>3. pc'[Root] \in {"last"} \cup Exited => pc[Root] \in {"last"} \cup Exited /\ champion' = champion
  BY <1>0, <1>1 DEF Exited
<1> QED
  BY <1>1, <1>2, <1>3, BattleBout

\* What a battle passes down is news of the same player.
LEMMA RelayDownBout ==
  ASSUME IInv, \A b \in Battles : Record(b), NEW f, Bout(f), NEW b \in Battles, RelayDown(b)
  PROVE  Bout(f)'
<1>0. PICK c \in Children(b) : c = Remains(b)
  BY Tree
<1>1. /\ b \in Procs /\ c \in Procs /\ c # b /\ Root \in Procs
      /\ \A d \in Players : d \in Procs /\ d # b
      /\ pc \in [Procs -> BattleStates \cup PlayerStates] /\ down \in [Procs -> Seq(Status)]
  <2>1. pc \in [Procs -> BattleStates \cup PlayerStates] /\ down \in [Procs -> Seq(Status)]
    BY DEF IInv, Types
  <2> QED
    BY <2>1, Tree DEF Procs
<1>2. PICK s : s = Head(down[b])
  OBVIOUS
<1>3. /\ pc[b] = "relayDown" /\ down[b] # <<>>
      /\ down' = [down EXCEPT ![b] = Tail(down[b]), ![c] = Append(down[c], s)]
      /\ UNCHANGED <<roster, Player, p, champion, losses>>
  BY <1>0, <1>1, <1>2 DEF RelayDown, Remains
<1>4. b # Root /\ \A d \in Procs \ {b} : pc'[d] = pc[d]
  <2>1. b # Root
    BY <1>3 DEF IInv, Fates, Fate
  <2>2. \E q : pc' = [pc EXCEPT ![b] = q]
    BY DEF RelayDown
  <2> QED
    BY <1>1, <2>1, <2>2
<1>5. Tail(down[b]) = <<>>
  <2>1. Len(down[b]) = 1 /\ down[b] \in Seq(Status)
    BY <1>1, <1>3, Quiet
  <2> QED
    BY <2>1, OnlyOne
<1>6. down[c] = <<>>
  <2>1. PassedUp(c)
    BY <1>0, <1>3, OfParent
  <2> QED
    BY <1>1, <2>1, Quiet
<1>7. down'[b] = <<>> /\ Head(down'[c]) = s /\ \A d \in Procs \ {b, c} : down'[d] = down[d]
  <2>1. Append(<<>>, s) = <<s>> /\ Head(<<s>>) = s
    OBVIOUS
  <2>2. down'[c] = <<s>>
    BY <1>1, <1>3, <1>6, <2>1
  <2> QED
    BY <1>1, <1>3, <1>5, <2>1, <2>2
<1>8. Reports(f, c, s)
  <2>1. remain[b] # -1 /\ Ended(b) /\ Types
    BY <1>3 DEF IInv, Types, Record, OverStates
  <2>2. c = WonSide(b)
    BY <1>0, <2>1, Placed
  <2>3. f[c] = f[b]
    BY <2>1, <2>2 DEF Bout, Lines
  <2>4. Reports(f, b, s)
    BY <1>1, <1>2, <1>3 DEF Bout, News
  <2> QED
    BY <2>3, <2>4 DEF Reports
<1>9. \A d \in Procs : down'[d] # <<>> => down'[d] = down[d] \/ Reports(f, d, Head(down'[d]))
  BY <1>7, <1>8
<1>10. \A d \in Players : IsMoved(d)
  BY <1>1, <1>4 DEF IsMoved
<1>11. pc'[Root] \in {"last"} \cup Exited => pc[Root] \in {"last"} \cup Exited /\ champion' = champion
  BY <1>1, <1>3, <1>4
<1> QED
  BY <1>3, <1>9, <1>10, <1>11, BattleBout

LEMMA StartBout ==
  ASSUME IInv, \A b \in Battles : Record(b), NEW f, Bout(f), NEW c \in Players, Start(c)
  PROVE  Bout(f)'
<1>1. /\ c \in Procs /\ c # Root /\ pc[c] = "start" /\ Root \in Procs
      /\ pc \in [Procs -> BattleStates \cup PlayerStates]
      /\ \A d \in Players : d \in Procs
      /\ UNCHANGED <<roster, down, Player, champion, losses>>
  <2>1. c \in Procs /\ c # Root /\ \A d \in Players : d \in Procs
    BY Tree DEF Procs
  <2> QED
    BY <2>1, Tree DEF Start, IInv, Types
<1>2. PICK q : pc' = [pc EXCEPT ![c] = q] /\ q = IF c \in RealPlayers THEN "play" ELSE "open"
  <2>1. CASE c \in RealPlayers
    <3>1. PICK s : /\ s = [real_player_id |-> c, HP |-> roster[c].HP,
                           current_battle_id |-> Parent(c), battle_ended_flag |-> FALSE]
                   /\ Enter(c, s)
      BY <2>1 DEF Start
    <3>2. roster \in Rosters
      BY DEF IInv, Types
    <3>3. Alive(s)
      BY <2>1, <3>1, <3>2, BracketAssumption DEF Alive
    <3> QED
      BY <2>1, <3>1, <3>3 DEF Enter
  <2>2. CASE c \notin RealPlayers
    BY <2>2 DEF Start
  <2> QED
    BY <2>1, <2>2
<1>3. pc'[c] = q /\ \A d \in Procs \ {c} : pc'[d] = pc[d]
  BY <1>1, <1>2
<1>4. UNCHANGED p \/ \A d \in Players \ {c} : p'[d] = p[d]
  <2>1. p \in [Players -> Status \cup {NoStatus}]
    BY DEF IInv, Types
  <2> QED
    BY <2>1 DEF Start, Enter
<1>5. Kept /\ \A b \in Battles : Ended(b)' => Ended(b)
  BY <1>1 DEF Kept, Ended
<1>6. /\ \A d \in Players : InPlay(d)' <=> InPlay(d)
      /\ \A d \in Players : pc'[d] = "lose" => pc[d] = "lose" /\ p'[d] = p[d]
      /\ \A d \in Players : pc'[d] \in Exited => pc[d] \in Exited
      /\ \A d \in Agents : d \in Players
      /\ \A d \in RealPlayers : losses'[d] = losses[d]
      /\ pc'[Root] = pc[Root]
  BY <1>1, <1>2, <1>3, <1>4, Tree DEF InPlay, Exited
<1> QED
  BY <1>1, <1>5, <1>6, CalmBout

LEMMA EmbodyBout ==
  ASSUME IInv, \A b \in Battles : Record(b), NEW f, Bout(f), NEW c \in Agents, Embody(c)
  PROVE  Bout(f)'
<1>1. /\ c \in Players /\ c \in Procs /\ c # Root /\ c \notin RealPlayers /\ pc[c] = "read" /\ Root \in Procs
      /\ pc \in [Procs -> BattleStates \cup PlayerStates]
      /\ p \in [Players -> Status \cup {NoStatus}]
      /\ \A d \in Players : d \in Procs
      /\ UNCHANGED <<roster, down, Player, champion, losses>>
  <2>1. c \in Players /\ c \in Procs /\ c # Root /\ c \notin RealPlayers /\ \A d \in Players : d \in Procs
    BY Tree DEF Procs, Agents
  <2> QED
    BY <2>1, Tree DEF Embody, IInv, Types
<1>2. PICK s : s = Head(fifo[c]) /\ Enter(c, s)
  BY DEF Embody
<1>3. Alive(s)
  BY <1>1, <1>2 DEF IInv, Fresh, Playing
<1>4. p' = [p EXCEPT ![c] = s] /\ pc' = [pc EXCEPT ![c] = "play"]
  BY <1>2, <1>3 DEF Enter
<1>5. /\ pc'[c] = "play" /\ \A d \in Procs \ {c} : pc'[d] = pc[d]
      /\ \A d \in Players \ {c} : p'[d] = p[d]
  BY <1>1, <1>4
<1>6. Kept /\ \A b \in Battles : Ended(b)' => Ended(b)
  BY <1>1 DEF Kept, Ended
<1>7. /\ \A d \in Players : InPlay(d)' <=> InPlay(d)
      /\ \A d \in Players : pc'[d] = "lose" => pc[d] = "lose" /\ p'[d] = p[d]
      /\ \A d \in Players : pc'[d] \in Exited => pc[d] \in Exited
      /\ \A d \in Agents : d \in Players
      /\ \A d \in RealPlayers : losses'[d] = losses[d]
      /\ pc'[Root] = pc[Root]
  BY <1>1, <1>5, Tree DEF InPlay, Exited
<1> QED
  BY <1>1, <1>6, <1>7, CalmBout

\* A player leaves with the news of its own defeat, or as champion.
LEMMA PlayBout ==
  ASSUME IInv, \A b \in Battles : Record(b), NEW h, Story(h), NEW f, Bout(f),
         NEW c \in Players, Play(c)
  PROVE  Bout(f)'
<1>1. /\ c \in Procs /\ c # Root /\ pc[c] = "play" /\ down[c] # <<>> /\ Root \in Procs
      /\ pc \in [Procs -> BattleStates \cup PlayerStates]
      /\ p \in [Players -> Status \cup {NoStatus}]
      /\ down \in [Procs -> Seq(Status)]
      /\ Pipe(h, c) /\ \A d \in Players : d \in Procs
      /\ UNCHANGED <<roster, Player, champion, losses>>
  <2>1. c \in Procs /\ c # Root /\ \A d \in Players : d \in Procs
    BY Tree DEF Procs
  <2> QED
    BY <2>1, Tree DEF Play, IInv, Types, Story
<1>2. PICK s : s = Head(down[c])
  OBVIOUS
<1>3. s \in Status /\ Tail(down[c]) = <<>>
  <2>1. Len(down[c]) = 1 /\ down[c] \in Seq(Status)
    BY <1>1, Quiet
  <2> QED
    BY <1>2, <2>1, OnlyOne
<1>4. (Alive(s) \/ s.battle_ended_flag) /\ Reports(f, c, s) /\ f[c] = c
  BY <1>1, <1>2 DEF Pipe, Recorded, Bout, News, Lines
<1> DEFINE won == s.battle_ended_flag /\ Alive(s)
<1>5. won => Alive(Healed(c, s))
  <2>1. originHP[c] \in Nat /\ originHP[c] > 0
    BY <1>1 DEF IInv, Types, Fresh
  <2> QED
    BY <1>3, <2>1, HealedStatus DEF Playing
<1>6. /\ down' = [down EXCEPT ![c] = Tail(down[c])]
      /\ IF won /\ s.current_battle_id = Root
           THEN p' = [p EXCEPT ![c] = s] /\ pc' = [pc EXCEPT ![c] = "gone"]
           ELSE Enter(c, IF won THEN Healed(c, s) ELSE s)
  BY <1>2 DEF Play
<1> HIDE DEF won
<1>7. PICK q, t : /\ pc' = [pc EXCEPT ![c] = q] /\ p' = [p EXCEPT ![c] = t]
                  /\ \/ q = "play"
                     \/ q = "gone" /\ won /\ s.current_battle_id = Root
                     \/ q = "gone" /\ ~Alive(s) /\ (s.current_battle_id = Root \/ c \notin RealPlayers)
                     \/ q = "lose" /\ ~Alive(s) /\ t = s
  <2> DEFINE Q(q, t) == /\ pc' = [pc EXCEPT ![c] = q] /\ p' = [p EXCEPT ![c] = t]
                        /\ \/ q = "play"
                           \/ q = "gone" /\ won /\ s.current_battle_id = Root
                           \/ q = "gone" /\ ~Alive(s) /\ (s.current_battle_id = Root \/ c \notin RealPlayers)
                           \/ q = "lose" /\ ~Alive(s) /\ t = s
             t == IF won THEN Healed(c, s) ELSE s
  <2>1. CASE won /\ s.current_battle_id = Root
    <3>1. Q("gone", s)
      BY <1>6, <2>1
    <3> QED
      BY <3>1
  <2>2. CASE ~(won /\ s.current_battle_id = Root) /\ Alive(t)
    <3>1. Q("play", t)
      BY <1>6, <2>2 DEF Enter
    <3> QED
      BY <3>1
  <2>3. CASE ~(won /\ s.current_battle_id = Root) /\ ~Alive(t)
    <3>1. t = s
      BY <1>5, <2>3
    <3>2. Enter(c, s) /\ ~Alive(s)
      BY <1>6, <2>3, <3>1
    <3>3. Q("lose", s) \/ Q("gone", s)
      BY <3>2 DEF Enter
    <3> QED
      BY <3>3
  <2> QED
    BY <2>1, <2>2, <2>3
<1>8. /\ pc'[c] = q /\ p'[c] = t /\ down'[c] = <<>>
      /\ \A d \in Procs \ {c} : pc'[d] = pc[d] /\ down'[d] = down[d]
      /\ \A d \in Players \ {c} : p'[d] = p[d]
  BY <1>1, <1>3, <1>6, <1>7
<1>9. Kept /\ \A b \in Battles : (Ended(b)' <=> Ended(b)) /\ LostSide(b)' = LostSide(b)
  BY <1>1 DEF Kept, Ended, LostSide
<1>10. q = "gone" => Through(f, c)'
  <2>1. CASE q = "gone" /\ s.current_battle_id = Root
    <3>1. Ended(Root) /\ c \in {f[Root], f[LostSide(Root)]}
      BY <1>4, <1>7, <2>1 DEF Reports, won
    <3> QED
      BY <1>9, <3>1, Tree DEF Through
  <2>2. CASE q = "gone" /\ ~Alive(s) /\ c \notin RealPlayers
    <3>1. Fell(f, c)
      BY <1>4, <2>2 DEF Reports, Fell
    <3>2. Fell(f, c)'
      BY <1>9, <3>1 DEF Fell
    <3> QED
      BY <2>2, <3>2 DEF Through
  <2> QED
    BY <1>7, <2>1, <2>2
<1>11. q = "lose" => p'[c].battle_ended_flag /\ Reports(f, c, p'[c])
  BY <1>4, <1>7, <1>8
<1>12. /\ \A d \in Players : InPlay(d)' <=> InPlay(d)
       /\ \A d \in Players : pc'[d] = "lose" => \/ pc[d] = "lose" /\ p'[d] = p[d]
                                                \/ p'[d].battle_ended_flag /\ Reports(f, d, p'[d])
       /\ \A d \in Players : pc'[d] \in Exited => pc[d] \in Exited \/ Through(f, d)'
       /\ \A d \in Agents : d \in Players
       /\ \A d \in RealPlayers : losses'[d] = losses[d]
       /\ \A d \in Procs : down'[d] # <<>> => down'[d] = down[d]
       /\ pc'[Root] = pc[Root]
  <2>1. q \in {"play", "gone", "lose"} /\ q # "reaped"
    BY <1>7
  <2> QED
    BY <1>1, <1>8, <1>10, <1>11, <2>1, Tree DEF InPlay, Exited
<1> QED
  BY <1>1, <1>9, <1>12, CalmBout

\* The agent that a beaten player meets plays for that player.
LEMMA HandOverBout ==
  ASSUME IInv, \A b \in Battles : Record(b), NEW h, Story(h), NEW f, Bout(f),
         NEW c \in Players, HandOver(c)
  PROVE  Bout(f)'
<1>1. /\ c \in Procs /\ c # Root /\ pc[c] = "lose" /\ c \in RealPlayers /\ Root \in Procs
      /\ pc \in [Procs -> BattleStates \cup PlayerStates]
      /\ p \in [Players -> Status \cup {NoStatus}]
      /\ \A d \in Players : d \in Procs
      /\ UNCHANGED <<roster, down, Player, champion, losses>>
  <2>1. c \in Procs /\ c # Root /\ \A d \in Players : d \in Procs
    BY Tree DEF Procs
  <2> QED
    BY <2>1, Tree DEF HandOver, IInv, Types, Fresh
<1>2. PICK b, a, s : b = p[c].current_battle_id /\ a = lose[b] /\ s = Restored(c)
  OBVIOUS
<1>3. /\ b \in DOMAIN lose /\ b \in Battles /\ pc[a] = "open"
      /\ p' = [p EXCEPT ![c] = s]
      /\ pc' = [pc EXCEPT ![c] = "gone", ![a] = "read"]
  BY <1>2, BracketAssumption DEF HandOver
<1>4. a \in Agents /\ a \in Players /\ a \in Procs /\ a # c /\ a # Root /\ a \notin RealPlayers /\ a \notin Battles
  <2>1. a \in Agents
    BY <1>2, <1>3, BracketAssumption
  <2> QED
    BY <1>1, <2>1, Tree DEF Agents, Procs
<1>5. LostIn(a) = b
  <2>1. b \in DOMAIN lose /\ lose[b] = a
    BY <1>2, <1>3
  <2> QED
    BY <2>1, AgentAssumption DEF LostIn
<1>6. Ended(b) /\ f[LostSide(b)] = c
  <2>1. ~Alive(p[c])
    BY <1>1 DEF Story, Knows
  <2>2. p[c].battle_ended_flag /\ Reports(f, c, p[c]) /\ f[c] = c
    BY <1>1 DEF Bout, News, Lines
  <2> QED
    BY <1>2, <2>1, <2>2 DEF Reports
<1>7. Settled(a) /\ Name(a) = c
  <2>1. Settled(a) /\ Name(a) = Loser(b).real_player_id
    BY <1>2, <1>3, <1>4, <1>5, <1>6 DEF Settled, Name
  <2>2. LostSide(b) \in Children(b) /\ Name(LostSide(b)) = Loser(b).real_player_id
    BY <1>3, <1>6, Placed DEF IInv
  <2>3. Name(c) = Name(LostSide(b))
    BY <1>3, <1>6, <2>2, Followed DEF IInv, Bout
  <2>4. Name(c) = c
    BY <1>1, Tree DEF Name
  <2> QED
    BY <2>1, <2>2, <2>3, <2>4
<1>8. /\ pc'[c] = "gone" /\ pc'[a] = "read"
      /\ \A d \in Procs \ {c, a} : pc'[d] = pc[d]
      /\ \A d \in Players \ {c} : p'[d] = p[d]
  BY <1>1, <1>3, <1>4
<1>9. Kept /\ \A d \in Battles : Ended(d)' => Ended(d)
  BY <1>1 DEF Kept, Ended
<1>10. Through(f, c)'
  <2>1. Name(a)' = c
    BY <1>7, <1>9, Steady
  <2>2. InPlay(a)'
    BY <1>8 DEF InPlay
  <2> QED
    BY <1>1, <1>4, <2>1, <2>2 DEF Through
<1>11. /\ \A d \in Players : InPlay(d) => InPlay(d)'
       /\ \A d \in Agents : InPlay(d)' => InPlay(d) \/ d = a
       /\ \A d \in Players : pc'[d] = "lose" => pc[d] = "lose" /\ p'[d] = p[d]
       /\ \A d \in Players : pc'[d] \in Exited => pc[d] \in Exited \/ Through(f, d)'
       /\ \A d \in RealPlayers : losses'[d] = losses[d]
       /\ pc'[Root] = pc[Root]
  BY <1>1, <1>4, <1>8, <1>10, Tree DEF InPlay, Exited, Agents
<1>12. \A d \in Agents : InPlay(d)' =>
         InPlay(d) \/ (Settled(d) /\ f[LostSide(LostIn(d))] \in RealPlayers)
  BY <1>1, <1>5, <1>6, <1>7, <1>11
<1> QED
  BY <1>1, <1>9, <1>11, <1>12, CalmBout

-----------------------------------------------------------------------------
(* The bout goes on: a round, which may be the last of its battle.         *)

\* The last round: W wins with the status w, and D loses with z.
Ending(b, W, D, w, z) ==
  /\ Children(b) = {W, D} /\ W # D /\ W \in Procs /\ D \in Procs /\ w \in Status /\ z \in Status
  /\ Ended(b)' /\ WonSide(b)' = W /\ LostSide(b)' = D
  /\ Name(b)' = w.real_player_id /\ Winner(b)' = w
  /\ Alive(w) /\ w.current_battle_id = b /\ w.real_player_id = Name(W)
  /\ ~Alive(z) /\ z.current_battle_id = b /\ z.real_player_id = Name(D)
  /\ down'[W] = <<w>> /\ down'[D] = <<z>>
  /\ \A c \in RealPlayers : losses'[c] = losses[c] + IF c = z.real_player_id THEN 1 ELSE 0

\* What a round changes, whether it is the last one or not.
RoundFrame(b) ==
  /\ pc[b] = "fight" /\ ~Ended(b) /\ pc'[b] \in {"wait", "fight"}
  /\ \A c \in Children(b) : Awaits(c) /\ Settled(c) /\ Settled(c)' /\ Name(c)' = Name(c)
  /\ \A d \in Battles \ {b} : Player'[d] = Player[d]
  /\ \A d \in Procs \ {b} : pc'[d] = pc[d]
  /\ \A d \in Procs \ Children(b) : down'[d] = down[d]
  /\ UNCHANGED <<roster, p, champion>>

LEMMA FightEnds ==
  ASSUME IInv, NEW h, Story(h), NEW b \in Battles, Record(b)', Fight(b)
  PROVE  /\ RoundFrame(b)
         /\ \/ /\ ~Ended(b)' /\ \A c \in RealPlayers : losses'[c] = losses[c]
               /\ \A c \in Children(b) : ~Head(down'[c]).battle_ended_flag
            \/ \E W, D, w, z : Ending(b, W, D, w, z)
<1>1. PICK l, r \in Procs, x, y, u, v \in Status : RoundOf(b, l, r, x, y, u, v)
  BY FightRound
<1>2. /\ l = left[b] /\ r = right[b] /\ Children(b) = {l, r} /\ l # r /\ b # l /\ b # r
      /\ pc[b] = "fight" /\ up[l] # <<>> /\ up[r] # <<>> /\ Awaits(l) /\ Awaits(r)
      /\ Player'[b][1] = u /\ Player'[b][2] = v
      /\ \A d \in Battles \ {b} : Player'[d] = Player[d]
      /\ \A d \in Procs \ {l, r} : down'[d] = down[d]
      /\ down'[l] = <<u>> /\ down'[r] = <<v>>
      /\ pc'[b] = IF u.battle_ended_flag THEN "wait" ELSE "fight"
      /\ \A d \in Procs \ {b} : pc'[d] = pc[d]
      /\ UNCHANGED <<roster, fifo, p, originHP>>
  BY <1>1 DEF RoundOf
<1>3. /\ u.current_battle_id = b /\ v.current_battle_id = b
      /\ u.battle_ended_flag = v.battle_ended_flag
      /\ ~u.battle_ended_flag => Alive(u) /\ Alive(v)
      /\ u.battle_ended_flag => (Alive(u) <=> ~Alive(v))
  BY <1>1 DEF RoundOf, Playing
<1>4. Settled(l) /\ Settled(r) /\ ~Ended(b)
  BY <1>2, BeforeRound
<1>5. Kept /\ UNCHANGED champion
  BY <1>2, <1>4 DEF Kept, Fight
<1>6. /\ Settled(l)' /\ Name(l)' = Name(l)
      /\ Settled(r)' /\ Name(r)' = Name(r)
  BY <1>4, <1>5, Steady
<1>7. RoundFrame(b)
  BY <1>2, <1>4, <1>5, <1>6 DEF RoundFrame
<1>8. \A c \in RealPlayers :
        losses'[c] = losses[c] + IF (~Alive(u) /\ u.real_player_id = c) \/ (~Alive(v) /\ v.real_player_id = c)
                                   THEN 1 ELSE 0
  <2>1. PICK after : after = fight(b, Head(up[left[b]]), Head(up[right[b]]))
    OBVIOUS
  <2>2. after[1] = u /\ after[2] = v
    BY <1>1, <2>1 DEF RoundOf
  <2>3. losses' = [c \in RealPlayers |-> losses[c] +
                     (IF c \in {after[i].real_player_id : i \in {j \in 1 .. 2 : ~ Alive(after[j])}}
                        THEN 1 ELSE 0)]
    BY <2>1 DEF Fight
  <2>4. ASSUME NEW c
        PROVE  c \in {after[i].real_player_id : i \in {j \in 1 .. 2 : ~ Alive(after[j])}}
                 <=> (~Alive(u) /\ u.real_player_id = c) \/ (~Alive(v) /\ v.real_player_id = c)
    <3>1. \A i : i \in 1 .. 2 <=> i = 1 \/ i = 2
      OBVIOUS
    <3> QED
      BY <2>2, <3>1
  <2> QED
    BY <2>3, <2>4
<1>9. u.real_player_id = Name(l) /\ v.real_player_id = Name(r)
  <2>1. u # NoStatus
    BY <1>3 DEF Alive, NoStatus
  <2> QED
    BY <1>2, <1>6, <2>1 DEF Record
<1>10. CASE ~u.battle_ended_flag
  <2>1. ~Ended(b)'
    BY <1>2, <1>10 DEF Ended
  <2>2. \A c \in RealPlayers : losses'[c] = losses[c]
    <3>1. losses \in [RealPlayers -> Nat]
      BY DEF IInv, Types
    <3> QED
      BY <1>3, <1>8, <1>10, <3>1
  <2>3. Head(<<u>>) = u /\ Head(<<v>>) = v
    OBVIOUS
  <2> QED
    BY <1>2, <1>3, <1>7, <1>10, <2>1, <2>2, <2>3
<1>11. CASE u.battle_ended_flag
  <2>1. Ended(b)'
    BY <1>2, <1>11 DEF Ended
  <2>2. Stands(Player'[b]) = IF Alive(u) THEN 1 ELSE 2
    BY <1>2, <1>3, <1>11, StandsIs
  <2>3. Winner(b)' = IF Alive(u) THEN u ELSE v
    BY <1>2, <2>2 DEF Winner
  <2>4. CASE Alive(u)
    <3>1. WonSide(b)' = l /\ LostSide(b)' = r /\ Name(b)' = u.real_player_id /\ ~Alive(v)
      BY <1>2, <1>3, <1>11, <2>3, <2>4 DEF WonSide, LostSide, Name
    <3>2. \A c \in RealPlayers : losses'[c] = losses[c] + IF c = v.real_player_id THEN 1 ELSE 0
      BY <1>8, <2>4, <3>1
    <3>3. Ending(b, l, r, u, v)
      BY <1>2, <1>3, <1>9, <2>1, <2>3, <2>4, <3>1, <3>2 DEF Ending
    <3> QED
      BY <1>7, <3>3
  <2>5. CASE ~Alive(u)
    <3>1. WonSide(b)' = r /\ LostSide(b)' = l /\ Name(b)' = v.real_player_id /\ Alive(v)
      BY <1>2, <1>3, <1>11, <2>3, <2>5 DEF WonSide, LostSide, Name
    <3>2. \A c \in RealPlayers : losses'[c] = losses[c] + IF c = u.real_player_id THEN 1 ELSE 0
      BY <1>8, <2>5, <3>1
    <3>3. Ending(b, r, l, v, u)
      BY <1>2, <1>3, <1>9, <2>1, <2>3, <2>5, <3>1, <3>2 DEF Ending
    <3> QED
      BY <1>7, <3>3
  <2> QED
    BY <2>4, <2>5
<1> QED
  BY <1>10, <1>11

\* The winner's player goes on for the battle, and the loser's fell.
LEMMA EndBout ==
  ASSUME IInv, \A b \in Battles : Record(b), NEW f, Bout(f), NEW b \in Battles,
         RoundFrame(b), NEW W, NEW D, NEW w, NEW z, Ending(b, W, D, w, z)
  PROVE  \E g : Bout(g)'
<1>0. /\ Types /\ Lines(f) /\ News(f) /\ Seconds(f) /\ Tally(f)
      /\ b \in Procs /\ Root \in Battles /\ \A c \in Players : c \in Procs /\ c # b
      /\ \A d \in Battles : d \in Procs
      /\ f \in [Procs -> Procs]
  BY Tree DEF IInv, Bout, Lines, Procs
<1>1. /\ Children(b) = {W, D} /\ W # D /\ W \in Procs /\ D \in Procs /\ W # b /\ D # b
      /\ Ended(b)' /\ ~Ended(b) /\ WonSide(b)' = W /\ LostSide(b)' = D
      /\ Name(b)' = Name(W) /\ Name(D) = z.real_player_id /\ Winner(b)' = w
      /\ Alive(w) /\ w.current_battle_id = b /\ ~Alive(z) /\ z.current_battle_id = b
      /\ down'[W] = <<w>> /\ down'[D] = <<z>>
  BY Tree DEF Ending, RoundFrame
\* What other battles have on record stays, and is not about this one.
<1>2. ASSUME NEW d \in Battles, d # b
      PROVE  /\ Ended(d)' <=> Ended(d)
             /\ WonSide(d)' = WonSide(d) /\ LostSide(d)' = LostSide(d)
             /\ Winner(d)' = Winner(d)
  BY <1>2 DEF RoundFrame, Ended, WonSide, LostSide, Winner
<1>3. ASSUME NEW d \in Battles, Ended(d)
      PROVE  /\ d # b /\ \A c \in Children(d) : c \in Procs /\ c # b
             /\ WonSide(d) \in Children(d) /\ LostSide(d) \in Children(d)
  <2>1. ASSUME NEW c \in Children(d), c = b PROVE FALSE
    <3>1. b \in Players \/ Ended(b)
      BY <1>0, <1>3, <2>1, Placed
    <3> QED
      BY <1>0, <1>1, <3>1
  <2> QED
    BY <1>0, <1>1, <1>3, <2>1, Placed
<1>4. Kept
  BY <1>1 DEF Kept, RoundFrame
<1>5. ASSUME NEW c, Settled(c) PROVE Settled(c)' /\ Name(c)' = Name(c)
  BY <1>4, <1>5, Steady
<1>6. ASSUME NEW c \in Players
      PROVE  /\ pc'[c] = pc[c] /\ (InPlay(c)' <=> InPlay(c))
             /\ InPlay(c) => Settled(c) /\ Name(c)' = Name(c)
  <2>1. pc'[c] = pc[c] /\ (InPlay(c)' <=> InPlay(c))
    BY <1>0 DEF RoundFrame, InPlay
  <2>2. InPlay(c) => Settled(c)
    BY <1>0, Tree DEF Seconds, Agents, Settled
  <2> QED
    BY <1>5, <2>1, <2>2
\* Both sides have played so far.
<1>7. ASSUME NEW c \in Children(b)
      PROVE  /\ f[c] \in Players /\ Name(f[c]) = Name(c) /\ InPlay(f[c])
             /\ c \in Players \/ Ended(c)
             /\ Top(c)
  <2>1. c \in Procs /\ Settled(c) /\ Awaits(c)
    BY <1>1 DEF RoundFrame
  <2>2. c \in Players \/ (c \in Battles /\ Ended(c))
    BY <2>1 DEF Settled, Procs
  <2>3. \A d \in Battles : Ended(d) => c # WonSide(d)
    BY <1>3, Tree
  <2>4. CASE c \in Players
    <3>1. f[c] = c /\ pc[c] = "play"
      BY <1>0, <2>1, <2>4, Tree DEF Lines, Awaits, Types, PlayerStates, Exited
    <3> QED
      BY <2>3, <2>4, <3>1 DEF InPlay, Top
  <2>5. CASE c \in Battles /\ Ended(c)
    <3>1. f[c] \in Players /\ f[c] = f[WonSide(c)] /\ Name(f[c]) = Name(c) /\ InPlay(f[WonSide(c)])
      BY <1>0, <1>3, <2>5 DEF Lines
    <3> QED
      BY <1>0, <2>1, <2>3, <2>5, <3>1 DEF Top
  <2> QED
    BY <2>2, <2>4, <2>5
<1>8. PICK g : g = [f EXCEPT ![b] = f[W]]
  OBVIOUS
<1>9. g \in [Procs -> Procs] /\ g[b] = f[W] /\ \A c \in Procs \ {b} : g[c] = f[c]
  BY <1>0, <1>1, <1>8
<1>10. \A d \in Battles : Ended(d) => /\ g[d] = f[d] /\ g[WonSide(d)] = f[WonSide(d)]
                                      /\ g[LostSide(d)] = f[LostSide(d)]
  BY <1>0, <1>3, <1>9
<1>11. Lines(g)'
  <2>1. ASSUME NEW d \in Battles, Ended(d)'
        PROVE  /\ g[d] \in Players /\ g[d] = g[WonSide(d)]' /\ Name(g[d])' = Name(d)'
               /\ \A c \in Children(d) : InPlay(g[c])'
    <3>1. CASE d = b
      <4>1. g[b] \in Players /\ g[b] = g[W] /\ g[W] = f[W] /\ g[D] = f[D]
        BY <1>1, <1>7, <1>9
      <4>2. Name(f[W])' = Name(b)'
        BY <1>1, <1>6, <1>7
      <4>3. InPlay(f[W])' /\ InPlay(f[D])'
        BY <1>1, <1>6, <1>7
      <4> QED
        BY <1>1, <3>1, <4>1, <4>2, <4>3
    <3>2. CASE d # b
      <4>1. Ended(d) /\ WonSide(d)' = WonSide(d)
        BY <1>2, <2>1, <3>2
      <4>2. /\ f[d] \in Players /\ f[d] = f[WonSide(d)] /\ Name(f[d]) = Name(d)
            /\ \A c \in Children(d) : f[c] \in Players /\ InPlay(f[c]) /\ g[c] = f[c]
        BY <1>0, <1>3, <1>9, <4>1, Followed DEF Lines
      <4>3. Name(f[d])' = Name(d)'
        BY <1>3, <1>5, <1>6, <4>1, <4>2 DEF Settled
      <4>4. \A c \in Children(d) : InPlay(g[c])'
        BY <1>6, <4>2
      <4> QED
        BY <1>10, <4>1, <4>2, <4>3, <4>4
    <3> QED
      BY <3>1, <3>2
  <2>2. ASSUME NEW c \in Procs, Top(c)' PROVE c = b \/ (c # b /\ Top(c) /\ c # W)
    <3>1. c # W
      BY <1>1, <2>2 DEF Top
    <3>2. c # b => c \in Players \/ Ended(c)
      BY <1>2, <2>2 DEF Top, Procs
    <3>3. \A d \in Battles : Ended(d) => c # WonSide(d)
      BY <1>2, <1>3, <2>2 DEF Top
    <3> QED
      BY <3>1, <3>2, <3>3 DEF Top
  <2>3. ASSUME NEW c \in Procs, NEW d \in Procs, Top(c)', Top(d)', g[c] = g[d] PROVE c = d
    <3>1. Top(W) /\ \A e, i \in Procs : Top(e) /\ Top(i) /\ f[e] = f[i] => e = i
      BY <1>0, <1>1, <1>7 DEF Lines
    <3>2. CASE c # b /\ d # b
      BY <1>9, <2>2, <2>3, <3>1, <3>2
    <3>3. CASE c = b /\ d # b
      <4>1. f[W] = f[d] /\ Top(d) /\ d # W
        BY <1>9, <2>2, <2>3, <3>3
      <4> QED
        BY <1>1, <3>1, <4>1
    <3>4. CASE c # b /\ d = b
      <4>1. f[c] = f[W] /\ Top(c) /\ c # W
        BY <1>9, <2>2, <2>3, <3>4
      <4> QED
        BY <1>1, <3>1, <4>1
    <3> QED
      BY <3>2, <3>3, <3>4
  <2>4. \A c \in Players : g[c] = c
    BY <1>0, <1>9 DEF Lines
  <2> QED
    BY <1>9, <2>1, <2>3, <2>4 DEF Lines
\* Both sides are told; nothing is on its way to the battle.
<1>12. ASSUME NEW c \in Procs, c # b, NEW s, Reports(f, c, s) PROVE Reports(g, c, s)'
  <2> DEFINE d == s.current_battle_id
  <2> SUFFICES ASSUME s.battle_ended_flag
               PROVE  d \in Battles /\ Ended(d)' /\ g[c] = g[IF Alive(s) THEN d ELSE LostSide(d)']
    BY DEF Reports
  <2>1. d \in Battles /\ Ended(d) /\ f[c] = f[IF Alive(s) THEN d ELSE LostSide(d)]
    BY <1>12 DEF Reports
  <2>2. d # b /\ Ended(d)' /\ LostSide(d)' = LostSide(d)
    BY <1>2, <1>3, <2>1
  <2> QED
    BY <1>9, <1>10, <1>12, <2>1, <2>2
<1>13. News(g)'
  <2>1. Head(<<w>>) = w /\ Head(<<z>>) = z
    OBVIOUS
  <2>2. Reports(g, W, w)' /\ Reports(g, D, z)'
    BY <1>1, <1>9 DEF Reports
  <2>3. ASSUME NEW c \in Procs, down'[c] # <<>> PROVE Reports(g, c, Head(down[c]))'
    <3>1. CASE c \in Children(b)
      <4>1. PICK s : s = Head(down'[c]) /\ Reports(g, c, s)'
        BY <1>1, <2>1, <2>2, <3>1
      <4> QED
        BY <4>1 DEF Reports
    <3>2. CASE c \notin Children(b)
      <4>1. down'[c] = down[c]
        BY <3>2 DEF RoundFrame
      <4>2. c # b
        BY <1>0, <2>3, <4>1, Quiet DEF RoundFrame, Awaits
      <4>3. PICK s : s = Head(down[c]) /\ Reports(f, c, s)
        BY <1>0, <2>3, <4>1 DEF News
      <4>4. Reports(g, c, s)' /\ s = Head(down'[c])
        BY <1>12, <4>1, <4>2, <4>3
      <4> QED
        BY <4>4 DEF Reports
    <3> QED
      BY <3>1, <3>2
  <2>4. ASSUME NEW c \in Players, pc'[c] = "lose"
        PROVE  p'[c].battle_ended_flag /\ Reports(g, c, p[c])'
    <3>1. p'[c] = p[c] /\ p[c].battle_ended_flag /\ Reports(f, c, p[c])
      BY <1>0, <1>6, <2>4 DEF News, RoundFrame
    <3>2. PICK s : s = p[c]
      OBVIOUS
    <3>3. Reports(g, c, s)'
      BY <1>0, <1>12, <3>1, <3>2
    <3> QED
      BY <3>1, <3>2, <3>3 DEF Reports
  <2> QED
    BY <2>3, <2>4 DEF News
<1>14. Seconds(g)'
  <2> SUFFICES ASSUME NEW a \in Agents, InPlay(a)'
               PROVE  Settled(a)' /\ g[LostSide(LostIn(a))]' \in RealPlayers
    BY DEF Seconds
  <2>1. a \in Players /\ InPlay(a)
    BY <1>6, Tree
  <2>2. /\ Settled(a) /\ f[LostSide(LostIn(a))] \in RealPlayers
        /\ LostIn(a) \in Battles /\ Ended(LostIn(a))
    BY <1>0, <2>1, Second DEF Seconds
  <2>3. LostSide(LostIn(a))' = LostSide(LostIn(a)) /\ g[LostSide(LostIn(a))] = f[LostSide(LostIn(a))]
    BY <1>2, <1>3, <1>10, <2>2
  <2> QED
    BY <1>5, <2>2, <2>3
\* One player more fell: the one that the loser stands for.
<1>15. \A c : Fell(g, c)' <=> Fell(f, c) \/ c = f[D]
  <2>1. ASSUME NEW c, Fell(g, c)' PROVE Fell(f, c) \/ c = f[D]
    <3>1. PICK d \in Battles : Ended(d)' /\ g[LostSide(d)'] = c
      BY <2>1 DEF Fell
    <3>2. CASE d = b
      BY <1>1, <1>9, <3>1, <3>2
    <3>3. CASE d # b
      BY <1>2, <1>10, <3>1, <3>3 DEF Fell
    <3> QED
      BY <3>2, <3>3
  <2>2. ASSUME NEW c, Fell(f, c) PROVE Fell(g, c)'
    <3>1. PICK d \in Battles : Ended(d) /\ f[LostSide(d)] = c
      BY <2>2 DEF Fell
    <3>2. Ended(d)' /\ g[LostSide(d)'] = c
      BY <1>2, <1>3, <1>10, <3>1
    <3> QED
      BY <3>2 DEF Fell
  <2>3. Fell(g, f[D])'
    <3>1. Ended(b)' /\ g[LostSide(b)'] = f[D]
      BY <1>1, <1>9
    <3> QED
      BY <3>1 DEF Fell
  <2> QED
    BY <2>1, <2>2, <2>3
<1>16. ~Fell(f, f[D])
  <2> SUFFICES ASSUME NEW d \in Battles, Ended(d), f[LostSide(d)] = f[D] PROVE FALSE
    BY DEF Fell
  <2>1. LostSide(d) \in Children(d) /\ LostSide(d) \in Procs /\ LostSide(d) # WonSide(d)
        /\ (LostSide(d) \in Players \/ Ended(LostSide(d)))
    BY <1>0, Placed
  <2>2. \A e \in Battles : Ended(e) => LostSide(d) # WonSide(e)
    BY <1>3, <2>1, Tree
  <2>3. Top(LostSide(d)) /\ Top(D) /\ D \in Children(b)
    BY <1>1, <1>7, <2>1, <2>2 DEF Top
  <2>4. LostSide(d) = D
    BY <1>0, <1>1, <2>1, <2>3 DEF Lines
  <2> QED
    BY <1>3, <2>1, <2>3, <2>4, Tree
<1>17. f[D] \in Players /\ InPlay(f[D]) /\ Name(f[D]) = z.real_player_id
  BY <1>1, <1>7
<1>18. ASSUME NEW c \in Players, Fell(f, c) \/ c = f[D] PROVE InPlay(c) /\ Name(c)' = Name(c)
  <2>1. CASE Fell(f, c)
    <3>1. PICK d \in Battles : Ended(d) /\ f[LostSide(d)] = c
      BY <2>1 DEF Fell
    <3>2. InPlay(c)
      BY <1>0, <1>3, <3>1, Followed
    <3> QED
      BY <1>6, <3>2
  <2>2. CASE c = f[D]
    BY <1>6, <1>17, <2>2
  <2> QED
    BY <1>18, <2>1, <2>2
<1>19. Tally(g)'
  <2> SUFFICES ASSUME NEW c \in RealPlayers
               PROVE  losses'[c] = (IF Fell(g, c)' THEN 1 ELSE 0)
                        + (IF \E a \in Agents : Fell(g, a)' /\ Name(a)' = c THEN 1 ELSE 0)
    BY DEF Tally
  <2> DEFINE N1 == IF Fell(f, c) THEN 1 ELSE 0
             N2 == IF \E a \in Agents : Fell(f, a) /\ Name(a) = c THEN 1 ELSE 0
  <2>1. losses[c] = N1 + N2
    BY <1>0 DEF Tally
  <2>2. losses'[c] = losses[c] + IF c = Name(f[D]) THEN 1 ELSE 0
    BY <1>17 DEF Ending
  <2>3. c \in Players /\ c \notin Agents /\ Name(c) = c /\ \A a \in Agents : a \in Players /\ a \notin RealPlayers
    BY Tree DEF Agents, Name
  <2>4. (\E a \in Agents : Fell(g, a)' /\ Name(a)' = c)
          <=> \E a \in Agents : (Fell(f, a) \/ a = f[D]) /\ Name(a) = c
    BY <1>15, <1>18, <2>3
  <2>5. CASE f[D] \in RealPlayers
    <3>1. Name(f[D]) = f[D] /\ f[D] \notin Agents
      BY <2>5, Tree DEF Name, Agents
    <3>2. Fell(g, c)' <=> Fell(f, c) \/ c = Name(f[D])
      BY <1>15, <3>1
    <3>3. c = Name(f[D]) => ~Fell(f, c)
      BY <1>16, <3>1
    <3>4. (\E a \in Agents : Fell(g, a)' /\ Name(a)' = c) <=> (\E a \in Agents : Fell(f, a) /\ Name(a) = c)
      BY <2>4, <3>1
    <3> QED
      BY <2>1, <2>2, <3>2, <3>3, <3>4
  <2>6. CASE f[D] \in Agents
    <3>1. Fell(g, c)' <=> Fell(f, c)
      BY <1>15, <2>3, <2>6
    <3>2. (\E a \in Agents : Fell(g, a)' /\ Name(a)' = c)
            <=> (\E a \in Agents : Fell(f, a) /\ Name(a) = c) \/ c = Name(f[D])
      BY <2>4, <2>6
    <3>3. c = Name(f[D]) => ~ \E a \in Agents : Fell(f, a) /\ Name(a) = c
      <4> SUFFICES ASSUME c = Name(f[D]), NEW a \in Agents, Fell(f, a), Name(a) = c PROVE FALSE
        OBVIOUS
      <4>1. InPlay(a)
        BY <1>18, <2>3
      <4>2. a = f[D]
        BY <1>0, <1>17, <2>6, <4>1, Second
      <4> QED
        BY <1>16, <4>2
    <3> QED
      BY <2>1, <2>2, <3>1, <3>2, <3>3
  <2> QED
    BY <1>17, <2>5, <2>6 DEF Agents
<1>20. ASSUME NEW c \in Players, pc'[c] \in Exited PROVE Through(g, c)'
  <2>1. Through(f, c)
    BY <1>6, <1>20 DEF Bout
  <2>2. CASE Ended(Root) /\ c \in {f[Root], f[LostSide(Root)]}
    <3>1. Ended(Root)' /\ LostSide(Root)' = LostSide(Root)
      BY <1>0, <1>2, <1>3, <2>2
    <3> QED
      BY <1>0, <1>10, <2>2, <3>1 DEF Through
  <2>3. CASE c \in RealPlayers /\ \E a \in Agents : InPlay(a) /\ Name(a) = c
    BY <1>6, <2>3, Tree DEF Through
  <2>4. CASE c \notin RealPlayers /\ Fell(f, c)
    BY <1>15, <2>4 DEF Through
  <2> QED
    BY <2>1, <2>2, <2>3, <2>4 DEF Through
<1>21. pc'[Root] \in {"last"} \cup Exited => champion' = Winner(Root)'.real_player_id
  <2> SUFFICES ASSUME pc'[Root] \in {"last"} \cup Exited
               PROVE  champion' = Winner(Root)'.real_player_id
    OBVIOUS
  <2>1. Root # b /\ pc'[Root] = pc[Root] /\ champion' = champion
    BY <1>0 DEF RoundFrame, Exited
  <2> QED
    BY <1>0, <1>2, <2>1 DEF Bout
<1> QED
  BY <1>11, <1>13, <1>14, <1>19, <1>20, <1>21 DEF Bout

\* In a round that goes on, only the news is new.
LEMMA FightBout ==
  ASSUME IInv, \A b \in Battles : Record(b), NEW h, Story(h), NEW f, Bout(f),
         NEW b \in Battles, Record(b)', Fight(b)
  PROVE  \E g : Bout(g)'
<1>1. RoundFrame(b)
  BY FightEnds
<1>2. CASE \E W, D, w, z : Ending(b, W, D, w, z)
  BY <1>1, <1>2, EndBout
<1>3. CASE /\ ~Ended(b)' /\ \A c \in RealPlayers : losses'[c] = losses[c]
           /\ \A c \in Children(b) : ~Head(down'[c]).battle_ended_flag
  <2>1. \A d \in Battles : (Ended(d)' => Ended(d)) /\ (Ended(d) => d # b)
    BY <1>1, <1>3 DEF RoundFrame, Ended
  <2>2. Kept
    BY <1>1, <2>1 DEF Kept, RoundFrame
  <2>3. /\ \A c \in Players : c \in Procs /\ c # b /\ pc'[c] = pc[c] /\ p'[c] = p[c]
        /\ \A a \in Agents : a \in Players
    BY <1>1, Tree DEF RoundFrame, Procs
  <2>4. /\ \A c \in Players : InPlay(c)' <=> InPlay(c)
        /\ \A c \in Players : pc'[c] = "lose" => pc[c] = "lose" /\ p'[c] = p[c]
        /\ \A c \in Players : pc'[c] \in Exited => pc[c] \in Exited
    BY <2>3 DEF InPlay
  <2>5. \A c \in Procs : down'[c] # <<>> => down'[c] = down[c] \/ Reports(f, c, Head(down'[c]))
    BY <1>1, <1>3 DEF RoundFrame, Reports
  <2>6. pc'[Root] \in {"last"} \cup Exited => pc[Root] \in {"last"} \cup Exited /\ champion' = champion
    BY <1>1, Tree DEF RoundFrame, Exited
  <2>7. Bout(f)'
    BY <1>3, <2>1, <2>2, <2>3, <2>4, <2>5, <2>6, CalmBout
  <2> QED
    BY <2>7
<1> QED
  BY <1>2, <1>3, FightEnds

-----------------------------------------------------------------------------
(* The tournament is a double elimination.                                 *)

Fought == \E f : Bout(f)

LEMMA InitFought == Init => Fought
<1> SUFFICES ASSUME Init PROVE Fought
  OBVIOUS
<1>1. PICK f : f = [c \in Procs |-> c]
  OBVIOUS
<1>2. /\ Root \in Procs /\ \A b \in Battles : b \in Procs /\ ~Ended(b)
      /\ \A c \in Players : c \in Procs /\ c # Root
  BY Tree DEF Init, Ended, NoStatus, Procs
<1>3. /\ pc[Root] = "fork" /\ \A c \in Procs : down[c] = <<>>
      /\ \A c \in Players : pc[c] = "unborn"
      /\ \A c \in RealPlayers : losses[c] = 0
  BY <1>2 DEF Init
<1>4. Lines(f)
  BY <1>1, <1>2 DEF Lines
<1>5. News(f)
  BY <1>3 DEF News
<1>6. Seconds(f)
  BY <1>3 DEF Seconds, InPlay, Agents
<1>7. \A c : ~Fell(f, c)
  BY <1>2 DEF Fell
<1>8. Tally(f)
  BY <1>3, <1>7 DEF Tally
<1> QED
  BY <1>3, <1>4, <1>5, <1>6, <1>8 DEF Bout, Fought, Exited

LEMMA NextFought == IInv /\ Telling /\ Telling' /\ Fought /\ [Next]_vars => Fought'
<1> SUFFICES ASSUME IInv, NEW h, Story(h), Telling', NEW f, Bout(f), [Next]_vars
             PROVE  \E g : Bout(g)'
  BY DEF Telling, Fought
<1>0. \A b \in Battles : Record(b) /\ Record(b)'
  BY DEF Story, Telling
<1>1. ASSUME NEW b \in Battles, BattleStep(b) PROVE \E g : Bout(g)'
  <2>1. CASE Fight(b)
    BY <1>0, <2>1, FightBout
  <2>2. CASE ~Fight(b)
    BY <1>0, <1>1, <2>2, ForkBout, WaitBout, RelayUpBout, RelayDownBout DEF BattleStep
  <2> QED
    BY <2>1, <2>2
<1>2. ASSUME NEW c \in Players, PlayerStep(c) PROVE \E g : Bout(g)'
  BY <1>0, <1>2, StartBout, PlayBout, EmbodyBout, HandOverBout DEF PlayerStep
<1>3. CASE UNCHANGED vars
  <2>1. UNCHANGED <<Player, roster, p, losses, pc, down, champion>>
    BY <1>3 DEF vars
  <2>2. /\ \A c \in Players : IsMoved(c)
        /\ \A c \in Procs : down'[c] = down[c]
        /\ pc'[Root] \in {"last"} \cup Exited => pc[Root] \in {"last"} \cup Exited /\ champion' = champion
    BY <2>1 DEF IsMoved
  <2> QED
    BY <1>0, <2>1, <2>2, BattleBout
<1> QED
  BY <1>1, <1>2, <1>3 DEF Next

LEMMA AlwaysFought == Spec => [](IInv /\ Telling /\ Fought)
BY AlwaysTelling, InitFought, NextFought, PTL DEF Spec

\* Once the final has exited, all processes have: every battle is below it.
LEMMA AllExited ==
  ASSUME IInv, pc[Root] \in Exited
  PROVE  \A c \in Procs : pc[c] \in Exited
<1> DEFINE T == {b \in Battles : pc[b] \notin Exited}
<1>1. ASSUME NEW b \in Battles, pc[b] \in Exited PROVE \A c \in Children(b) : pc[c] \in Exited
  BY <1>1 DEF IInv, Fates, Fate, Exited
<1>2. T = {}
  <2> SUFFICES ASSUME T # {} PROVE FALSE
    OBVIOUS
  <2>1. T \in SUBSET (Battles \ {Root})
    OBVIOUS
  <2>2. PICK b \in T : Parent(b) \notin T
    BY <2>1, TreeAssumption
  <2>3. b \in Procs \ {Root}
    BY <2>1, Tree
  <2>4. Parent(b) \in Battles /\ b \in Children(Parent(b))
    BY <2>3, Tree
  <2> QED
    BY <1>1, <2>2, <2>4
<1>3. ASSUME NEW c \in Procs PROVE pc[c] \in Exited
  <2>1. CASE c = Root
    BY <2>1
  <2>2. CASE c # Root
    <3>1. Parent(c) \in Battles /\ c \in Children(Parent(c))
      BY <2>2, Tree
    <3> QED
      BY <1>1, <1>2, <3>1
  <2> QED
    BY <2>1, <2>2
<1> QED
  BY <1>3

\* For any table of losers: when the tournament is over, its champion lost at most
\* once, and all others twice, or once, in the final.
THEOREM TwoLossesOut == Spec => []DoubleElimination
<1>1. IInv /\ Telling /\ Fought => DoubleElimination
  <2> SUFFICES ASSUME IInv, NEW h, Story(h), NEW f, Bout(f), pc[Root] = "gone"
               PROVE  DoubleElimination
    BY DEF Telling, Fought, DoubleElimination
  <2>0. /\ Types /\ Lines(f) /\ Seconds(f) /\ Tally(f) /\ Root \in Battles
        /\ \A b \in Battles : Record(b)
        /\ champion = Winner(Root).real_player_id
    BY Tree DEF IInv, Bout, Story, Exited
  <2>1. Ended(Root)
    BY <2>0 DEF Record, OverStates, Exited
  <2>2. \A c \in Players : Through(f, c)
    <3>1. \A c \in Procs : pc[c] \in Exited
      BY AllExited DEF Exited
    <3> QED
      BY <3>1 DEF Bout, Procs
  <2>3. /\ {s.real_player_id : s \in {Player[Root][i] : i \in {n \in 1 .. 2 : Alive(Player[Root][n]) = TRUE}}}
              = {champion}
        /\ {s.real_player_id : s \in {Player[Root][i] : i \in {n \in 1 .. 2 : Alive(Player[Root][n]) = FALSE}}}
              = {Loser(Root).real_player_id}
    <3>1. /\ \A n \in 1 .. 2 : Player[Root][n] = IF Alive(Player[Root][n]) THEN Winner(Root) ELSE Loser(Root)
          /\ \E n \in 1 .. 2 : Player[Root][n] = Winner(Root)
          /\ \E n \in 1 .. 2 : Player[Root][n] = Loser(Root)
          /\ Alive(Winner(Root)) /\ ~Alive(Loser(Root))
      BY <2>0, <2>1, Finals
    <3>2. \A n : (Alive(Player[Root][n]) = TRUE <=> Alive(Player[Root][n]))
                 /\ (Alive(Player[Root][n]) = FALSE <=> ~Alive(Player[Root][n]))
      BY DEF Alive
    <3>3. {Player[Root][i] : i \in {n \in 1 .. 2 : Alive(Player[Root][n]) = TRUE}} = {Winner(Root)}
      BY <3>1, <3>2
    <3>4. {Player[Root][i] : i \in {n \in 1 .. 2 : Alive(Player[Root][n]) = FALSE}} = {Loser(Root)}
      BY <3>1, <3>2
    <3> QED
      BY <2>0, <3>3, <3>4
\* The player that won the final, and the one that lost it.
  <2>4. /\ f[Root] \in Players /\ InPlay(f[Root]) /\ Name(f[Root]) = champion
        /\ f[LostSide(Root)] \in Players /\ InPlay(f[LostSide(Root)])
        /\ Name(f[LostSide(Root)]) = Loser(Root).real_player_id
        /\ Fell(f, f[LostSide(Root)]) /\ ~Fell(f, f[Root])
    <3>1. WonSide(Root) \in Children(Root) /\ LostSide(Root) \in Children(Root)
          /\ Name(LostSide(Root)) = Loser(Root).real_player_id
      BY <2>0, <2>1, Placed
    <3>2. f[Root] \in Players /\ f[Root] = f[WonSide(Root)] /\ Name(f[Root]) = Name(Root)
      BY <2>0, <2>1 DEF Lines
    <3>3. Name(Root) = champion
      BY <2>0 DEF Name
    <3>4. /\ f[LostSide(Root)] \in Players /\ InPlay(f[LostSide(Root)]) /\ InPlay(f[WonSide(Root)])
          /\ Name(f[LostSide(Root)]) = Name(LostSide(Root))
      BY <2>0, <2>1, <3>1, Followed
    <3>5. Fell(f, f[LostSide(Root)]) /\ ~Fell(f, f[Root])
      BY <2>0, <2>1, Apart DEF Fell
    <3> QED
      BY <3>1, <3>2, <3>3, <3>4, <3>5
  <2>5. /\ \A a \in Agents : a \in Players /\ a \notin RealPlayers
        /\ \A c \in RealPlayers : c \in Players /\ c \notin Agents /\ Name(c) = c
    BY Tree DEF Agents, Name
  <2>6. ASSUME NEW a \in Agents, Fell(f, a) PROVE InPlay(a)
    <3>1. PICK b \in Battles : Ended(b) /\ f[LostSide(b)] = a
      BY <2>6 DEF Fell
    <3>2. LostSide(b) \in Children(b)
      BY <2>0, <3>1, Placed
    <3> QED
      BY <2>0, <3>1, <3>2, Followed
  <2>7. ASSUME NEW a \in Agents, InPlay(a) PROVE Fell(f, Name(a)) /\ Name(a) \in RealPlayers
    BY <2>0, <2>7, Second DEF Fell
  <2>8. champion \in RealPlayers
    BY <2>4, <2>5, <2>7 DEF Agents
  <2>9. losses[champion] <= 1
    <3>1. CASE f[Root] \in RealPlayers
      <4>1. ~Fell(f, champion)
        BY <2>4, <2>5, <3>1
      <4> QED
        BY <2>0, <2>8, <4>1 DEF Tally
    <3>2. CASE f[Root] \in Agents
      <4>1. ~ \E a \in Agents : Fell(f, a) /\ Name(a) = champion
        <5> SUFFICES ASSUME NEW a \in Agents, Fell(f, a), Name(a) = champion PROVE FALSE
          OBVIOUS
        <5>1. a = f[Root]
          BY <2>0, <2>4, <2>6, <3>2, Second
        <5> QED
          BY <2>4, <5>1
      <4> QED
        BY <2>0, <2>8, <4>1 DEF Tally
    <3> QED
      BY <2>4, <3>1, <3>2 DEF Agents
  <2>10. ASSUME NEW c \in RealPlayers \ {champion}
         PROVE  losses[c] = 2 \/ (losses[c] = 1 /\ c = Loser(Root).real_player_id)
    <3> DEFINE Again == \E a \in Agents : Fell(f, a) /\ Name(a) = c
    <3>1. losses[c] = (IF Fell(f, c) THEN 1 ELSE 0) + (IF Again THEN 1 ELSE 0)
      BY <2>0 DEF Tally
    <3>2. c # f[Root]
      BY <2>4, <2>5
    <3>3. CASE c = f[LostSide(Root)]
      <4>1. Fell(f, c) /\ c = Loser(Root).real_player_id
        BY <2>4, <2>5, <3>3
      <4> QED
        BY <3>1, <4>1
    <3>4. CASE \E a \in Agents : InPlay(a) /\ Name(a) = c
      <4>1. PICK a \in Agents : InPlay(a) /\ Name(a) = c
        BY <3>4
      <4>2. Fell(f, c)
        BY <2>7, <4>1
      <4>3. a # f[Root]
        BY <2>4, <4>1
      <4>4. Fell(f, a)
        BY <2>2, <2>4, <2>5, <4>3 DEF Through
      <4>5. Again
        BY <4>1, <4>4
      <4> QED
        BY <3>1, <4>2, <4>5
    <3> QED
      BY <2>2, <2>5, <3>2, <3>3, <3>4 DEF Through
  <2> QED
    BY <2>3, <2>9, <2>10 DEF DoubleElimination
<1> QED
  BY <1>1, AlwaysFought, PTL
=============================================================================
