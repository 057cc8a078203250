---------------------------- MODULE ProgressProofs ----------------------------
(***************************************************************************)
(* What MCProgress promises that needs no fairness.                        *)
(***************************************************************************)
EXTENDS MCProgress, TLAPS

-----------------------------------------------------------------------------
(* The threads. The main thread starts and stops them in the order of the   *)
(* configuration file, each component once.                                 *)
LEMMA OrderIs ==
  ASSUME NEW o \in {CpuFirst, CpuLast}
  PROVE  /\ Len(o) = 4 /\ o \in [1 .. 4 -> Thr!Components]
         /\ \A i, j \in 1 .. 4 : o[i] = o[j] => i = j
         /\ \A c \in Thr!Components : \E i \in 1 .. 4 : o[i] = c
BY DEF CpuFirst, CpuLast, Thr!Components

Steps == {"none", "top", "look", "loop", "transfer", "done", "ready", "ended"}
Phases == {"start", "clear", "rouse", "run", "stop", "wake", "join", "failed"}
AtOne == {"clear", "rouse", "wake", "join"}  \* phases at one component
MainTyped(m) ==
  m \in [does : Phases, at : 1 .. 5] /\ (m.does \in AtOne => m.at # 5)
ThreadsTyped ==
  /\ thrOrder \in {CpuFirst, CpuLast}
  /\ MainTyped(thrMain)
  /\ thrStop \in [Thr!Components -> BOOLEAN]
  /\ thrThread \in [Thr!Components -> Steps]
  /\ thrDead \in BOOLEAN
  /\ thrSem \in [Thr!Components -> {0, 1}]

(* A thread that goes on, with its StopThread: only that of the IDE         *)
(* controller, or that of a CPU that has set a semaphore too often, may have *)
(* ended. Then what holds of the component at a place of the order while    *)
(* the main thread is at "m".  The CPU is started with its StopThread still *)
(* set, but waits for its semaphore until all others have been started.     *)
Going(c, t, s, d) ==
  ~s /\ t # "none" /\ (t = "ended" => c = "ide" \/ (c = "cpu" /\ d))
Placed(k, m, c, t, s, w, d) ==
  /\ m.does \in {"start", "clear", "rouse"} =>
       (k < m.at => Going(c, t, s, d)) /\ (k > m.at => t = "none")
  /\ m.does = "start" /\ k = m.at => t = "none"
  /\ m.does = "clear" /\ k = m.at =>
       (c = "cpu" /\ t = "top" /\ w = 0) \/ (c = "ide" /\ t # "none")
  /\ m.does = "rouse" /\ k = m.at => Going(c, t, s, d)
  /\ m.does = "run" => Going(c, t, s, d)
  /\ m.does \in {"stop", "wake", "join"} =>
       (k < m.at => t = "none") /\ (k > m.at => Going(c, t, s, d))
  /\ m.does = "stop" /\ k = m.at => Going(c, t, s, d)
  /\ m.does \in {"wake", "join"} /\ k = m.at => s
PlacedAt(k) ==
  Placed(k, thrMain, thrOrder[k], thrThread[thrOrder[k]], thrStop[thrOrder[k]],
         thrSem[thrOrder[k]], thrDead)
AllPlaced == \A k \in 1 .. 4 : PlacedAt(k)

(* The thread of the IDE controller: only the main thread, when it joins it, *)
(* lets it go on without a command that a CPU has given. If it has ended    *)
(* otherwise, or its semaphore is still set, a command is left to be done.  *)
Joining(m, o) == m.does = "join" /\ o[m.at] = "ide"
CommandLeft(p, i) == p # "none" /\ i \notin {"ready", "wake"}
Kept(t, w, j, p, i) ==
  /\ i \in {"ready", "wake"} => p # "none"
  /\ t \in {"transfer", "done"} => CommandLeft(p, i)
  /\ ~j \/ w = 1 => (t \in {"look", "ended"} => CommandLeft(p, i))
  /\ ~j => (w = 1 => CommandLeft(p, i))
  /\ ~j => (t \in {"look", "transfer", "done"} => w = 0)
CommandKept ==
  Kept(thrThread["ide"], thrSem["ide"], Joining(thrMain, thrOrder), thrInProgress, thrIo)
ThreadsInv == ThreadsTyped /\ AllPlaced /\ CommandKept

LEMMA ThreadsInit == ASSUME Thr!Init PROVE ThreadsInv
<1>1. ThreadsTyped
  <2>1. MainTyped(thrMain) /\ thrOrder \in {CpuFirst, CpuLast}
    BY DEF Thr!Init, MainTyped, Phases, AtOne
  <2> QED BY <2>1 DEF Thr!Init, ThreadsTyped, Steps
<1>2. AllPlaced
  <2>1. \A k \in 1 .. 4 : thrThread[thrOrder[k]] = "none"
    BY OrderIs DEF Thr!Init
  <2>2. thrMain.does = "start" /\ thrMain.at = 1
    BY DEF Thr!Init
  <2> QED BY <2>1, <2>2 DEF AllPlaced, PlacedAt, Placed
<1>3. CommandKept
  BY DEF Thr!Init, CommandKept, Kept, Joining, Thr!Components
<1> QED BY <1>1, <1>2, <1>3 DEF ThreadsInv

(* A step of the thread of one component leaves each in its place.            *)
LEMMA ThreadStep ==
  ASSUME ThreadsInv, NEW c \in Thr!Components, NEW next \in Steps \ {"none"},
         thrThread[c] \notin {"none", "ended"},
         thrThread' = [thrThread EXCEPT ![c] = next],
         UNCHANGED <<thrOrder, thrMain, thrStop>>,
         thrSem' \in [Thr!Components -> {0, 1}], thrSem'["cpu"] \in {0, thrSem["cpu"]},
         thrDead' \in BOOLEAN, thrDead => thrDead',
         next = "ended" => thrStop[c] \/ (c = "cpu" /\ thrDead'),
         c = "cpu" /\ thrThread[c] = "top" => thrSem["cpu"] = 1
  PROVE  ThreadsTyped' /\ AllPlaced'
<1>1. ThreadsTyped'
  BY DEF ThreadsInv, ThreadsTyped
<1>2. ASSUME NEW k \in 1 .. 4 PROVE PlacedAt(k)'
  <2> DEFINE d == thrOrder[k]
  <2>1. d \in Thr!Components /\ thrMain.at \in Int
    BY OrderIs DEF ThreadsInv, ThreadsTyped, MainTyped
  <2>2. Placed(k, thrMain, d, thrThread[d], thrStop[d], thrSem[d], thrDead)
    BY DEF ThreadsInv, AllPlaced, PlacedAt
  <2>3. thrThread'[d] = IF d = c THEN next ELSE thrThread[d]
    BY <2>1 DEF ThreadsInv, ThreadsTyped
  <2>4. d = "cpu" => thrSem'[d] \in {0, thrSem[d]}
    OBVIOUS
  <2>5. next # "none" /\ thrStop[c] \in BOOLEAN
    BY DEF ThreadsInv, ThreadsTyped
  <2> HIDE DEF d
  <2> DEFINE moved == Placed(k, thrMain, d, thrThread'[d], thrStop[d], thrSem'[d], thrDead')
  <2>6. ASSUME d # c PROVE moved
    BY <2>1, <2>2, <2>3, <2>4, <2>6 DEF Placed, Going
  <2>7. ASSUME d = c PROVE moved
    BY <2>1, <2>2, <2>3, <2>4, <2>5, <2>7 DEF Placed, Going
  <2> QED BY <2>6, <2>7 DEF d, PlacedAt
<1> QED BY <1>1, <1>2 DEF AllPlaced

(* So does a step of the main thread, which changes one component at most:    *)
(* what it has to show of the one and of the others.                          *)
LEMMA MainMoves ==
  ASSUME ThreadsInv, thrOrder' = thrOrder, NEW c \in Thr!Components,
         NEW t \in Steps, NEW s \in BOOLEAN,
         thrThread' = [thrThread EXCEPT ![c] = t],
         thrStop' = [thrStop EXCEPT ![c] = s],
         thrDead' = thrDead, thrSem' \in [Thr!Components -> {0, 1}],
         MainTyped(thrMain'),
         \A k \in 1 .. 4 :
           /\ PlacedAt(k) /\ thrOrder[k] # c =>
                Placed(k, thrMain', thrOrder[k], thrThread[thrOrder[k]],
                       thrStop[thrOrder[k]], thrSem'[thrOrder[k]], thrDead)
           /\ PlacedAt(k) /\ thrOrder[k] = c =>
                Placed(k, thrMain', c, t, s, thrSem'[c], thrDead)
  PROVE  ThreadsTyped' /\ AllPlaced'
<1>1. ThreadsTyped'
  BY DEF ThreadsInv, ThreadsTyped
<1>2. ASSUME NEW k \in 1 .. 4 PROVE PlacedAt(k)'
  <2>1. thrOrder[k] \in Thr!Components /\ PlacedAt(k)
    BY OrderIs DEF ThreadsInv, ThreadsTyped, AllPlaced
  <2>2. /\ thrOrder[k] # c => /\ thrThread'[thrOrder[k]] = thrThread[thrOrder[k]]
                              /\ thrStop'[thrOrder[k]] = thrStop[thrOrder[k]]
        /\ thrThread'[c] = t /\ thrStop'[c] = s
    BY <2>1 DEF ThreadsInv, ThreadsTyped
  <2> QED BY <2>1, <2>2 DEF PlacedAt
<1> QED BY <1>1, <1>2 DEF AllPlaced

LEMMA MainStep ==
  ASSUME ThreadsInv, Thr!Main \/ Thr!Menu PROVE ThreadsTyped' /\ AllPlaced'
<1> DEFINE at == thrMain.at
           This == thrOrder[at]
<1>1. /\ thrOrder' = thrOrder /\ Len(thrOrder) = 4
      /\ \A i \in 1 .. 4 : thrOrder[i] \in Thr!Components
      /\ \A i, j \in 1 .. 4 : thrOrder[i] = thrOrder[j] => i = j
      /\ thrMain.does \in Phases /\ at \in 1 .. 5
      /\ thrMain.does \in AtOne => at # 5
      /\ thrMain = [does |-> thrMain.does, at |-> at]
  BY OrderIs
  DEF ThreadsInv, ThreadsTyped, MainTyped, Thr!Main, Thr!Menu, Thr!StartThread,
      Thr!ClearStop, Thr!Rouse, Thr!Release, Thr!CheckState, Thr!StopThread,
      Thr!WakeThread, Thr!Join, Thr!Continue, Thr!Restart
<1>2. /\ \A k \in 1 .. 4 : PlacedAt(k)
      /\ thrStop \in [Thr!Components -> BOOLEAN]
      /\ thrThread \in [Thr!Components -> Steps]
      /\ thrSem \in [Thr!Components -> {0, 1}]
      /\ thrDead \in BOOLEAN
  BY DEF ThreadsInv, ThreadsTyped, AllPlaced
<1>3. ASSUME NEW does \in Phases, NEW a \in 1 .. 5, thrMain' = [does |-> does, at |-> a],
             thrThread' = thrThread, thrStop' = thrStop, thrDead' = thrDead,
             thrSem' \in [Thr!Components -> {0, 1}], does \in AtOne => a # 5,
             \A k \in 1 .. 4 :
               PlacedAt(k) => Placed(k, thrMain', thrOrder[k], thrThread[thrOrder[k]],
                                     thrStop[thrOrder[k]], thrSem'[thrOrder[k]], thrDead)
      PROVE  ThreadsTyped' /\ AllPlaced'
  <2>1. MainTyped(thrMain')
    BY <1>3 DEF MainTyped
  <2>2. ThreadsTyped'
    BY <1>1, <1>2, <1>3, <2>1 DEF ThreadsInv, ThreadsTyped
  <2>3. ASSUME NEW k \in 1 .. 4 PROVE PlacedAt(k)'
    BY <1>1, <1>2, <1>3 DEF PlacedAt
  <2> QED BY <2>2, <2>3 DEF AllPlaced
<1>0. ASSUME NEW c \in Thr!Components, NEW next, Thr!MainSets(c, next)
      PROVE  /\ thrSem' \in [Thr!Components -> {0, 1}]
             /\ thrMain' \in {next, [does |-> "failed", at |-> at]}
  BY <1>1, <1>2, <1>0 DEF Thr!MainSets, Thr!Then
<1>4. CASE Thr!StartThread
  <2>1. thrMain.does = "start" /\ at \in 1 .. 4 /\ This \in Thr!Components
        /\ thrThread' = [thrThread EXCEPT ![This] = "top"] /\ thrDead' = thrDead
    BY <1>1, <1>4 DEF Thr!StartThread, Thr!This
  <2>2. thrSem' \in [Thr!Components -> {0, 1}] /\ (This = "cpu" => thrSem'["cpu"] = 0)
    BY <1>2, <1>4 DEF Thr!StartThread, Thr!This, Thr!Components
  <2>3. \/ /\ This \in {"cpu", "ide"} /\ thrStop' = thrStop
           /\ thrMain' = [does |-> "clear", at |-> at]
        \/ /\ This = "sym" /\ thrStop' = [thrStop EXCEPT ![This] = FALSE]
           /\ thrMain' = [does |-> "rouse", at |-> at]
        \/ /\ This = "poll" /\ thrStop' = [thrStop EXCEPT ![This] = FALSE]
           /\ thrMain' = [does |-> "start", at |-> at + 1]
    BY <1>1, <1>4, <2>1
    DEF Thr!StartThread, Thr!StartsClear, Thr!Then, Thr!Onward, Thr!This, Thr!Late,
        Thr!Components
  <2>4. PICK s \in BOOLEAN : /\ thrStop' = [thrStop EXCEPT ![This] = s]
                             /\ This \in {"cpu", "ide"} \/ s = FALSE
    BY <1>2, <2>1, <2>3
  <2>5. MainTyped(thrMain')
    BY <1>1, <2>1, <2>3 DEF MainTyped, Phases, AtOne
  <2>6. ASSUME NEW k \in 1 .. 4, PlacedAt(k), thrOrder[k] # This
        PROVE  Placed(k, thrMain', thrOrder[k], thrThread[thrOrder[k]],
                      thrStop[thrOrder[k]], thrSem'[thrOrder[k]], thrDead)
    <3>1. k # at
      BY <2>6
    <3> QED BY <2>1, <2>3, <2>6, <3>1 DEF PlacedAt, Placed
  <2>7. Placed(at, thrMain', This, "top", s, thrSem'[This], thrDead)
    BY <2>1, <2>2, <2>3, <2>4 DEF Placed, Going
  <2> QED BY <1>1, <2>1, <2>2, <2>4, <2>5, <2>6, <2>7, MainMoves DEF Steps
<1>5. CASE Thr!ClearStop
  <2>1. /\ thrMain.does = "clear" /\ at \in 1 .. 4 /\ This \in Thr!Components
        /\ thrStop' = [thrStop EXCEPT ![This] = FALSE]
        /\ thrMain' = [does |-> "start", at |-> at + 1]
        /\ thrThread' = thrThread /\ thrSem' = thrSem /\ thrDead' = thrDead
    BY <1>1, <1>5 DEF Thr!ClearStop, Thr!StartsClear, Thr!This, Thr!Onward, AtOne
  <2>2. thrThread' = [thrThread EXCEPT ![This] = thrThread[This]]
    BY <1>2, <2>1
  <2>3. MainTyped(thrMain')
    BY <2>1 DEF MainTyped, Phases, AtOne
  <2>4. ASSUME NEW k \in 1 .. 4, PlacedAt(k), thrOrder[k] # This
        PROVE  Placed(k, thrMain', thrOrder[k], thrThread[thrOrder[k]],
                      thrStop[thrOrder[k]], thrSem'[thrOrder[k]], thrDead)
    <3>1. k # at
      BY <2>4
    <3> QED BY <2>1, <2>4, <3>1 DEF PlacedAt, Placed
  <2>5. Placed(at, thrMain', This, thrThread[This], FALSE, thrSem'[This], thrDead)
    BY <1>2, <2>1 DEF PlacedAt, Placed, Going
  <2> QED BY <1>1, <1>2, <2>1, <2>2, <2>3, <2>4, <2>5, MainMoves
<1>6. CASE Thr!Rouse
  <2>1. /\ thrMain.does = "rouse" /\ at \in 1 .. 4
        /\ thrMain' \in {[does |-> "start", at |-> at + 1], [does |-> "failed", at |-> at]}
        /\ thrStop' = thrStop /\ thrThread' = thrThread /\ thrDead' = thrDead
        /\ thrSem' \in [Thr!Components -> {0, 1}]
    BY <1>1, <1>2, <1>6 DEF Thr!Rouse, Thr!MainSets, Thr!Then, Thr!Onward, AtOne
  <2>2. \A k \in 1 .. 4 : PlacedAt(k) =>
          Placed(k, thrMain', thrOrder[k], thrThread[thrOrder[k]], thrStop[thrOrder[k]],
                 thrSem'[thrOrder[k]], thrDead)
    BY <2>1 DEF PlacedAt, Placed
  <2> QED BY <1>3, <2>1, <2>2 DEF Phases, AtOne
<1>7. CASE Thr!Release
  <2>1. /\ thrMain.does = "start" /\ at = 5
        /\ thrMain' \in {[does |-> "run", at |-> 1], [does |-> "failed", at |-> at]}
        /\ thrStop' = thrStop /\ thrThread' = thrThread /\ thrDead' = thrDead
        /\ thrSem' \in [Thr!Components -> {0, 1}]
    BY <1>0, <1>1, <1>7 DEF Thr!Release, Thr!Components
  <2>2. \A k \in 1 .. 4 : PlacedAt(k) =>
          Placed(k, thrMain', thrOrder[k], thrThread[thrOrder[k]], thrStop[thrOrder[k]],
                 thrSem'[thrOrder[k]], thrDead)
    BY <2>1 DEF PlacedAt, Placed
  <2> QED BY <1>3, <2>1, <2>2 DEF Phases, AtOne
<1>8. CASE Thr!CheckState \/ Thr!Menu
  <2>1. /\ thrMain.does = "run"
        /\ thrMain' \in {[does |-> "stop", at |-> 1], [does |-> "failed", at |-> at]}
        /\ thrStop' = thrStop /\ thrThread' = thrThread /\ thrDead' = thrDead
        /\ thrSem' = thrSem
    BY <1>1, <1>8 DEF Thr!CheckState, Thr!Menu, Thr!Then
  <2>2. \A k \in 1 .. 4 : PlacedAt(k) =>
          Placed(k, thrMain', thrOrder[k], thrThread[thrOrder[k]], thrStop[thrOrder[k]],
                 thrSem'[thrOrder[k]], thrDead)
    BY <2>1 DEF PlacedAt, Placed
  <2> QED BY <1>1, <1>2, <1>3, <2>1, <2>2 DEF Phases, AtOne
<1>9. CASE Thr!StopThread
  <2>1. /\ thrMain.does = "stop" /\ at \in 1 .. 4 /\ This \in Thr!Components
        /\ thrMain' \in {[does |-> "wake", at |-> at], [does |-> "join", at |-> at]}
        /\ thrStop' = [thrStop EXCEPT ![This] = TRUE]
        /\ thrThread' = thrThread /\ thrSem' = thrSem /\ thrDead' = thrDead
    BY <1>1, <1>9 DEF Thr!StopThread, Thr!This, Thr!Then
  <2>2. thrThread' = [thrThread EXCEPT ![This] = thrThread[This]]
    BY <1>2, <2>1
  <2>3. MainTyped(thrMain')
    BY <2>1 DEF MainTyped, Phases, AtOne
  <2>4. ASSUME NEW k \in 1 .. 4, PlacedAt(k), thrOrder[k] # This
        PROVE  Placed(k, thrMain', thrOrder[k], thrThread[thrOrder[k]],
                      thrStop[thrOrder[k]], thrSem'[thrOrder[k]], thrDead)
    <3>1. k # at
      BY <2>4
    <3> QED BY <2>1, <2>4, <3>1 DEF PlacedAt, Placed
  <2>5. Placed(at, thrMain', This, thrThread[This], TRUE, thrSem'[This], thrDead)
    <3>1. ASSUME NEW does \in {"wake", "join"}, NEW a \in 1 .. 4, NEW c, NEW t, NEW w, NEW d,
                 NEW s \in BOOLEAN, s
          PROVE  Placed(a, [does |-> does, at |-> a], c, t, s, w, d)
      <4> DEFINE m == [does |-> does, at |-> a]
      <4>1. m.does \in {"wake", "join"} /\ m.at = a /\ ~(a < a) /\ ~(a > a)
        BY <3>1
      <4> HIDE DEF m
      <4> QED BY <3>1, <4>1 DEF Placed
    <3> QED BY <2>1, <3>1
  <2> QED BY <1>1, <1>2, <2>1, <2>2, <2>3, <2>4, <2>5, MainMoves
<1>10. CASE Thr!WakeThread
  <2>1. /\ thrMain.does = "wake" /\ at \in 1 .. 4
        /\ thrMain' \in {[does |-> "join", at |-> at], [does |-> "failed", at |-> at]}
        /\ thrStop' = thrStop /\ thrThread' = thrThread /\ thrDead' = thrDead
        /\ thrSem' \in [Thr!Components -> {0, 1}]
    <3>1. thrMain.does = "wake" /\ at \in 1 .. 4 /\ This \in Thr!Components
      BY <1>1, <1>10 DEF Thr!WakeThread, AtOne
    <3>2. Thr!MainSets(This, [does |-> "join", at |-> at])
      BY <1>1, <1>10 DEF Thr!WakeThread, Thr!This, Thr!Then
    <3> QED BY <1>0, <1>10, <3>1, <3>2 DEF Thr!WakeThread
  <2>2. \A k \in 1 .. 4 : PlacedAt(k) =>
          Placed(k, thrMain', thrOrder[k], thrThread[thrOrder[k]], thrStop[thrOrder[k]],
                 thrSem'[thrOrder[k]], thrDead)
    BY <2>1 DEF PlacedAt, Placed
  <2> QED BY <1>3, <2>1, <2>2 DEF Phases, AtOne
<1>11. CASE Thr!Join
  <2>1. /\ thrMain.does = "join" /\ at \in 1 .. 4 /\ This \in Thr!Components
        /\ thrMain' = [does |-> "stop", at |-> at + 1]
        /\ thrStop' = thrStop /\ thrThread' = [thrThread EXCEPT ![This] = "none"]
        /\ thrDead' = thrDead
    BY <1>1, <1>11 DEF Thr!Join, Thr!This, Thr!Onward, AtOne
  <2>2. thrSem' \in [Thr!Components -> {0, 1}]
    BY <1>2, <1>11 DEF Thr!Join
  <2>3. thrStop' = [thrStop EXCEPT ![This] = thrStop[This]] /\ thrStop[This] \in BOOLEAN
    BY <1>2, <2>1
  <2>4. MainTyped(thrMain')
    BY <2>1 DEF MainTyped, Phases, AtOne
  <2>5. ASSUME NEW k \in 1 .. 4, PlacedAt(k), thrOrder[k] # This
        PROVE  Placed(k, thrMain', thrOrder[k], thrThread[thrOrder[k]],
                      thrStop[thrOrder[k]], thrSem'[thrOrder[k]], thrDead)
    <3>1. k # at
      BY <2>5
    <3> QED BY <2>1, <2>5, <3>1 DEF PlacedAt, Placed
  <2>6. Placed(at, thrMain', This, "none", thrStop[This], thrSem'[This], thrDead)
    BY <2>1 DEF Placed
  <2> QED BY <1>1, <2>1, <2>2, <2>3, <2>4, <2>5, <2>6, MainMoves DEF Steps
<1>12. CASE Thr!Continue \/ Thr!Restart
  <2>1. /\ thrMain.does = "stop" /\ at = 5 /\ thrMain' = [does |-> "start", at |-> 1]
        /\ thrThread' = thrThread
    BY <1>1, <1>12 DEF Thr!Continue, Thr!Restart, Thr!Stopped
  <2>2. /\ thrStop' \in [Thr!Components -> BOOLEAN] /\ thrSem' \in [Thr!Components -> {0, 1}]
        /\ thrDead' \in BOOLEAN
    BY <1>2, <1>12 DEF Thr!Continue, Thr!Restart
  <2>3. MainTyped(thrMain')
    BY <2>1 DEF MainTyped, Phases, AtOne
  <2>4. ThreadsTyped'
    BY <1>1, <1>2, <2>1, <2>2, <2>3 DEF ThreadsInv, ThreadsTyped
  <2>5. ASSUME NEW k \in 1 .. 4 PROVE PlacedAt(k)'
    <3>1. thrThread[thrOrder[k]] = "none"
      BY <1>2, <2>1 DEF PlacedAt, Placed
    <3> QED BY <1>1, <2>1, <3>1 DEF PlacedAt, Placed
  <2> QED BY <2>4, <2>5 DEF AllPlaced
<1> QED
  BY <1>4, <1>5, <1>6, <1>7, <1>8, <1>9, <1>10, <1>11, <1>12 DEF Thr!Main

(* No command is lost sight of by the main thread ...                         *)
LEMMA MainKeeps == ASSUME ThreadsInv, Thr!Main \/ Thr!Menu PROVE CommandKept'
<1> DEFINE at == thrMain.at
           This == thrOrder[at]
<1>1. /\ thrOrder' = thrOrder /\ Len(thrOrder) = 4
      /\ \A i \in 1 .. 4 : thrOrder[i] \in Thr!Components
      /\ at \in 1 .. 5 /\ (thrMain.does \in AtOne => at # 5)
      /\ thrMain = [does |-> thrMain.does, at |-> at]
      /\ thrInProgress' = thrInProgress /\ thrIo' = thrIo
  BY OrderIs
  DEF ThreadsInv, ThreadsTyped, MainTyped, Thr!Main, Thr!Menu, Thr!StartThread,
      Thr!ClearStop, Thr!Rouse, Thr!Release, Thr!CheckState, Thr!StopThread,
      Thr!WakeThread, Thr!Join, Thr!Continue, Thr!Restart, Thr!work
<1>2. /\ thrThread \in [Thr!Components -> Steps]
      /\ thrSem \in [Thr!Components -> {0, 1}] /\ "ide" \in Thr!Components
  BY DEF ThreadsInv, ThreadsTyped, Thr!Components
<1>3. Kept(thrThread["ide"], thrSem["ide"], Joining(thrMain, thrOrder), thrInProgress, thrIo)
  BY DEF ThreadsInv, CommandKept
<1>4. ASSUME thrThread'["ide"] = thrThread["ide"], thrSem'["ide"] \in {0, thrSem["ide"]},
             ~Joining(thrMain, thrOrder), ~Joining(thrMain', thrOrder)
      PROVE  CommandKept'
  BY <1>1, <1>2, <1>3, <1>4 DEF CommandKept, Kept
<1>5. ASSUME NEW c \in Thr!Components, NEW does \in Phases, NEW a, Thr!MainSets(c, [does |-> does, at |-> a])
      PROVE  /\ thrSem'["ide"] = IF c = "ide" THEN 1 ELSE thrSem["ide"]
             /\ \/ thrMain' = [does |-> does, at |-> a]
                \/ thrMain'.does = "failed" /\ thrSem[c] = 1
  BY <1>1, <1>2, <1>5 DEF Thr!MainSets, Thr!Then
<1>6. CASE Thr!StartThread
  <2>1. /\ thrMain.does = "start" /\ at \in 1 .. 4 /\ This \in Thr!Components
        /\ thrThread' = [thrThread EXCEPT ![This] = "top"]
        /\ thrSem'["ide"] = thrSem["ide"] /\ thrMain'.does \in {"start", "clear", "rouse"}
    BY <1>1, <1>2, <1>6 DEF Thr!StartThread, Thr!This, Thr!Then, Thr!Onward
  <2>2. thrThread'["ide"] \in {"top", thrThread["ide"]}
    BY <1>2, <2>1
  <2>3. ~Joining(thrMain, thrOrder) /\ ~Joining(thrMain', thrOrder)
    BY <2>1 DEF Joining
  <2>4. thrThread'["ide"] = "top" => CommandKept'
    BY <1>1, <1>3, <2>1, <2>3 DEF CommandKept, Kept
  <2> QED BY <1>4, <2>1, <2>2, <2>3, <2>4
<1>7. CASE Thr!ClearStop \/ Thr!CheckState \/ Thr!Menu
  <2>1. thrMain.does # "join" /\ thrMain'.does # "join"
        /\ thrThread' = thrThread /\ thrSem' = thrSem
    BY <1>1, <1>7 DEF Thr!ClearStop, Thr!CheckState, Thr!Menu, Thr!Then, Thr!Onward
  <2> QED BY <1>2, <1>4, <2>1 DEF Joining
<1>8. CASE Thr!StopThread
  <2>1. thrMain.does # "join" /\ thrMain'.at = at
        /\ (This = "ide" => thrMain'.does = "wake")
        /\ thrThread' = thrThread /\ thrSem' = thrSem
    BY <1>1, <1>8 DEF Thr!StopThread, Thr!This, Thr!Then, Thr!Waiting
  <2> QED BY <1>2, <1>4, <2>1 DEF Joining
<1>9. CASE Thr!Rouse
  <2>1. thrMain.does = "rouse" /\ thrMain'.does # "join" /\ thrThread' = thrThread
        /\ thrSem'["ide"] = thrSem["ide"]
    <3>1. CASE thrExecuting
      <4>1. Thr!MainSets("sym", [does |-> "start", at |-> at + 1])
        BY <1>9, <3>1 DEF Thr!Rouse, Thr!Onward
      <4> QED BY <1>5, <1>9, <4>1 DEF Thr!Rouse, Thr!Components, Phases
    <3>2. CASE ~thrExecuting
      BY <1>9, <3>2 DEF Thr!Rouse, Thr!Onward
    <3> QED BY <3>1, <3>2
  <2> QED BY <1>4, <2>1 DEF Joining
<1>10. CASE Thr!Release
  <2>1. thrMain.does = "start" /\ thrMain'.does # "join" /\ thrThread' = thrThread
        /\ thrSem'["ide"] = thrSem["ide"]
    BY <1>5, <1>10 DEF Thr!Release, Thr!Components, Phases
  <2> QED BY <1>4, <2>1 DEF Joining
<1>11. CASE Thr!WakeThread
  <2>1. /\ thrMain.does = "wake" /\ This \in Thr!Components /\ thrThread' = thrThread
        /\ Thr!MainSets(This, [does |-> "join", at |-> at])
    BY <1>1, <1>11 DEF Thr!WakeThread, Thr!This, Thr!Then, AtOne
  <2>2. /\ thrSem'["ide"] = IF This = "ide" THEN 1 ELSE thrSem["ide"]
        /\ \/ thrMain' = [does |-> "join", at |-> at]
           \/ thrMain'.does = "failed" /\ thrSem[This] = 1
    BY <1>5, <2>1 DEF Phases
  <2>3. ~Joining(thrMain, thrOrder)
    BY <2>1 DEF Joining
  <2>4. CASE This = "ide" /\ thrMain' = [does |-> "join", at |-> at]
    <3>1. Joining(thrMain', thrOrder)
      BY <2>4 DEF Joining
    <3> QED BY <1>1, <1>3, <2>1, <2>2, <2>3, <2>4, <3>1 DEF CommandKept, Kept
  <2>5. CASE This # "ide" \/ (thrMain'.does = "failed" /\ thrSem[This] = 1)
    <3>1. ~Joining(thrMain', thrOrder)
      BY <2>2, <2>5 DEF Joining
    <3> QED BY <1>2, <1>4, <2>1, <2>2, <2>3, <2>5, <3>1
  <2> QED BY <2>2, <2>4, <2>5
<1>12. CASE Thr!Join
  <2>1. /\ thrMain.does = "join" /\ This \in Thr!Components /\ thrThread[This] = "ended"
        /\ thrThread' = [thrThread EXCEPT ![This] = "none"]
        /\ thrSem'["ide"] = thrSem["ide"] /\ thrMain'.does = "stop"
    BY <1>1, <1>2, <1>12 DEF Thr!Join, Thr!This, Thr!Onward, AtOne
  <2>2. ~Joining(thrMain', thrOrder)
    BY <2>1 DEF Joining
  <2>3. CASE This = "ide"
    <3>1. thrThread["ide"] = "ended" /\ thrThread'["ide"] = "none"
      BY <1>2, <2>1, <2>3
    <3> QED BY <1>1, <1>2, <1>3, <2>1, <2>2, <3>1 DEF CommandKept, Kept
  <2>4. CASE This # "ide"
    BY <1>2, <1>4, <2>1, <2>2, <2>4 DEF Joining
  <2> QED BY <2>3, <2>4
<1>13. CASE Thr!Continue \/ Thr!Restart
  <2>1. thrMain.does = "stop" /\ thrMain'.does = "start" /\ thrThread' = thrThread
        /\ thrSem'["ide"] \in {0, thrSem["ide"]}
    BY <1>2, <1>13 DEF Thr!Continue, Thr!Restart, Thr!Stopped
  <2> QED BY <1>4, <2>1 DEF Joining
<1> QED
  BY <1>6, <1>7, <1>8, <1>9, <1>10, <1>11, <1>12, <1>13 DEF Thr!Main

(* ... nor by the thread of a component.                                      *)
LEMMA ThreadsInvStep == ASSUME ThreadsInv, [Thr!Next]_thrVars PROVE ThreadsInv'
<1> USE DEF Thr!Components
<1> DEFINE joining == Joining(thrMain, thrOrder)
<1>0. /\ thrSem \in [Thr!Components -> {0, 1}]
      /\ thrThread \in [Thr!Components -> Steps]
      /\ thrStop \in [Thr!Components -> BOOLEAN]
      /\ thrDead \in BOOLEAN
      /\ Kept(thrThread["ide"], thrSem["ide"], joining, thrInProgress, thrIo)
  BY DEF ThreadsInv, ThreadsTyped, CommandKept
<1>1. joining => thrStop["ide"]
  <2> SUFFICES ASSUME joining PROVE thrStop["ide"]
    OBVIOUS
  <2>1. thrMain.does = "join" /\ thrMain.at \in 1 .. 4 /\ thrOrder[thrMain.at] = "ide"
    BY DEF Joining, ThreadsInv, ThreadsTyped, MainTyped, AtOne
  <2> QED BY <2>1 DEF ThreadsInv, AllPlaced, PlacedAt, Placed
<1>2. ASSUME UNCHANGED <<thrOrder, thrMain>>,
             Kept(thrThread'["ide"], thrSem'["ide"], joining, thrInProgress', thrIo')
      PROVE  CommandKept'
  BY <1>2 DEF CommandKept
<1>3. ASSUME NEW c \in Thr!Components, Thr!Wakes(c) PROVE ThreadsInv'
  <2>1. thrSem' \in [Thr!Components -> {0, 1}] /\ thrSem'["cpu"] \in {0, thrSem["cpu"]}
        /\ (c = "cpu" => thrSem["cpu"] = 1)
    BY <1>0, <1>3 DEF Thr!Wakes, Thr!Waiting
  <2>2. ThreadsTyped' /\ AllPlaced'
    BY <1>0, <1>3, <2>1, ThreadStep DEF Thr!Wakes, Steps
  <2>3. CASE c = "ide"
    <3>1. thrThread["ide"] = "top" /\ thrSem["ide"] = 1 /\ thrThread'["ide"] = "look"
          /\ thrSem'["ide"] = 0 /\ thrInProgress' = thrInProgress /\ thrIo' = thrIo
          /\ UNCHANGED <<thrOrder, thrMain>>
      BY <1>0, <1>3, <2>3 DEF Thr!Wakes, Thr!Waiting, Thr!work
    <3> HIDE DEF joining
    <3>2. Kept(thrThread'["ide"], thrSem'["ide"], joining, thrInProgress', thrIo')
      BY <1>0, <3>1 DEF Kept
    <3> QED BY <1>2, <2>2, <3>1, <3>2 DEF ThreadsInv
  <2>4. CASE c # "ide"
    <3>1. thrThread'["ide"] = thrThread["ide"] /\ thrSem'["ide"] = thrSem["ide"]
          /\ thrInProgress' = thrInProgress /\ thrIo' = thrIo
          /\ UNCHANGED <<thrOrder, thrMain>>
      BY <1>0, <1>3, <2>4 DEF Thr!Wakes, Thr!work
    <3> QED BY <1>0, <1>2, <2>2, <3>1 DEF ThreadsInv
  <2> QED BY <2>3, <2>4
<1>4. ASSUME NEW c \in Thr!Components, Thr!End(c) PROVE ThreadsInv'
  <2>1. /\ thrThread[c] = "look" /\ thrStop[c]
        /\ thrThread' = [thrThread EXCEPT ![c] = "ended"]
        /\ UNCHANGED <<thrOrder, thrMain, thrStop, thrDead, thrSem, thrInProgress, thrIo>>
    BY <1>4 DEF Thr!End, Thr!work
  <2>2. ThreadsTyped' /\ AllPlaced'
    <3>1. thrSem' \in [Thr!Components -> {0, 1}] /\ thrSem'["cpu"] \in {0, thrSem["cpu"]}
          /\ thrDead' \in BOOLEAN /\ (thrDead => thrDead')
      BY <1>0, <2>1
    <3> QED BY Zenon, <2>1, <3>1, ThreadStep DEF Steps
  <2>3. Kept(thrThread'["ide"], thrSem'["ide"], joining, thrInProgress', thrIo')
    <3> HIDE DEF joining
    <3> QED BY <1>0, <2>1 DEF Kept
  <2> QED BY <1>2, <2>1, <2>2, <2>3 DEF ThreadsInv
<1>5. ASSUME NEW c \in Thr!Components, NEW from \in Steps \ {"none", "ended", "top"},
             NEW next \in Steps \ {"none", "ended"}, Thr!Goes(c, from, next),
             thrSem' \in [Thr!Components -> {0, 1}], thrSem'["cpu"] = thrSem["cpu"],
             thrDead' = thrDead
      PROVE  ThreadsTyped' /\ AllPlaced' /\ UNCHANGED <<thrOrder, thrMain>>
  BY <1>0, <1>5, ThreadStep DEF Thr!Goes
<1>6. CASE Thr!Poll \/ Thr!Scripts \/ Thr!ExecuteScript \/ Thr!EndScripts
  <2>1. PICK c \in {"poll", "sym"}, from \in {"look", "loop"}, next \in {"top", "loop"} :
          Thr!Goes(c, from, next)
    BY <1>6 DEF Thr!Poll, Thr!Scripts, Thr!ExecuteScript, Thr!EndScripts, Thr!Runs
  <2>2. thrSem' = thrSem /\ thrDead' = thrDead /\ thrInProgress' = thrInProgress
        /\ thrIo' = thrIo
    BY <1>6 DEF Thr!Poll, Thr!Scripts, Thr!ExecuteScript, Thr!EndScripts, Thr!work
  <2>3. ThreadsTyped' /\ AllPlaced' /\ UNCHANGED <<thrOrder, thrMain>>
    BY <1>0, <1>5, <2>1, <2>2 DEF Steps
  <2>4. thrThread'["ide"] = thrThread["ide"]
    BY <1>0, <2>1 DEF Thr!Goes
  <2> QED BY <1>0, <1>2, <2>2, <2>3, <2>4 DEF ThreadsInv
<1>7. CASE Thr!IdeRound
  <2>1. PICK next \in {"transfer", "done"} : Thr!Runs("ide", next)
    BY <1>7 DEF Thr!IdeRound
  <2>2. /\ ~thrStop["ide"] /\ thrThread["ide"] = "look" /\ thrThread'["ide"] = next
        /\ Thr!Goes("ide", "look", next)
    BY <1>0, <2>1 DEF Thr!Runs, Thr!Busy, Thr!Goes
  <2>3. thrSem' = thrSem /\ thrDead' = thrDead /\ thrInProgress' = thrInProgress
        /\ thrIo' = thrIo
    BY <1>7 DEF Thr!IdeRound, Thr!work
  <2>4. ThreadsTyped' /\ AllPlaced' /\ UNCHANGED <<thrOrder, thrMain>>
    BY <1>0, <1>5, <2>2, <2>3 DEF Steps
  <2>5. Kept(thrThread'["ide"], thrSem'["ide"], joining, thrInProgress', thrIo')
    <3> HIDE DEF joining
    <3> QED BY <1>0, <1>1, <2>2, <2>3 DEF Kept
  <2> QED BY <1>2, <2>4, <2>5 DEF ThreadsInv
<1>8. CASE Thr!Transfer \/ Thr!Done \/ Thr!Ready
  <2>1. PICK from \in {"transfer", "done", "ready"}, next \in {"top", "done", "ready"} :
          /\ Thr!Goes("ide", from, next)
          /\ next = "done" => from = "transfer" /\ thrInProgress' = thrInProgress
          /\ next = "ready" => from = "done"
          /\ next = "top" => from = "ready" /\ thrInProgress' = thrInProgress
    BY <1>8 DEF Thr!Transfer, Thr!Done, Thr!Ready
  <2>2. thrSem' = thrSem /\ thrDead' = thrDead /\ thrIo' = thrIo
    BY <1>8 DEF Thr!Transfer, Thr!Done, Thr!Ready
  <2>3. ThreadsTyped' /\ AllPlaced' /\ UNCHANGED <<thrOrder, thrMain>>
    BY <1>0, <1>5, <2>1, <2>2 DEF Steps
  <2>4. thrThread["ide"] = from /\ thrThread'["ide"] = next
    BY <1>0, <2>1 DEF Thr!Goes
  <2>5. Kept(thrThread'["ide"], thrSem'["ide"], joining, thrInProgress', thrIo')
    <3> HIDE DEF joining
    <3> QED BY <1>0, <2>1, <2>2, <2>4 DEF Kept, CommandLeft
  <2> QED BY <1>2, <2>3, <2>5 DEF ThreadsInv
<1>9. ASSUME Thr!Runs("cpu", "look"),
             thrSem' \in [Thr!Components -> {0, 1}], thrSem'["cpu"] = thrSem["cpu"],
             thrDead' = thrDead
      PROVE  /\ ThreadsTyped' /\ AllPlaced' /\ UNCHANGED <<thrOrder, thrMain>>
             /\ thrThread'["ide"] = thrThread["ide"]
  <2>1. Thr!Goes("cpu", "look", "look")
    BY <1>9 DEF Thr!Runs
  <2> QED BY <1>0, <1>5, <1>9, <2>1 DEF Steps, Thr!Goes
<1>10. ASSUME NEW c \in {"ide", "sym"}, Thr!CpuSets(c)
       PROVE  /\ ThreadsTyped' /\ AllPlaced' /\ UNCHANGED <<thrOrder, thrMain>>
              /\ thrThread'["ide"] = thrThread["ide"]
              /\ thrSem'["ide"] = IF c = "ide" THEN 1 ELSE thrSem["ide"]
  <2>1. /\ thrSem' \in [Thr!Components -> {0, 1}] /\ thrSem'["cpu"] = thrSem["cpu"]
        /\ thrSem'["ide"] = IF c = "ide" THEN 1 ELSE thrSem["ide"]
    BY <1>0, <1>10 DEF Thr!CpuSets
  <2>2. CASE thrSem[c] = 0
    BY <1>9, <1>10, <2>1, <2>2 DEF Thr!CpuSets
  <2>3. CASE thrSem[c] # 0
    <3>1. /\ thrThread["cpu"] = "look" /\ thrThread' = [thrThread EXCEPT !["cpu"] = "ended"]
          /\ UNCHANGED <<thrOrder, thrMain, thrStop>> /\ thrDead'
      BY <1>10, <2>3 DEF Thr!CpuSets, Thr!Runs, Thr!Goes
    <3>2. thrDead' \in BOOLEAN
      BY <1>10, <2>3 DEF Thr!CpuSets
    <3> QED BY <1>0, <2>1, <3>1, <3>2, ThreadStep DEF Steps
  <2> QED BY <2>2, <2>3
<1>11. ASSUME NEW w \in {"pio", "dma", "scripts"}, Thr!Ask(w)
       PROVE  ThreadsInv'
  <2>1. thrIo = "none" /\ thrInProgress = "none"
    BY <1>11 DEF Thr!Ask
  <2>2. CASE w = "scripts"
    <3>1. Thr!CpuSets("sym") /\ thrInProgress' = thrInProgress /\ thrIo' = thrIo
      BY <1>11, <2>2 DEF Thr!Ask
    <3>2. /\ ThreadsTyped' /\ AllPlaced' /\ UNCHANGED <<thrOrder, thrMain>>
          /\ thrThread'["ide"] = thrThread["ide"] /\ thrSem'["ide"] = thrSem["ide"]
      BY <1>10, <3>1
    <3> QED BY <1>0, <1>2, <3>1, <3>2 DEF ThreadsInv
  <2>3. CASE w # "scripts"
    <3>1. /\ Thr!Runs("cpu", "look") /\ thrInProgress' = w /\ thrIo' = "ready"
          /\ thrSem' = thrSem /\ thrDead' = thrDead
      BY <1>11, <2>3 DEF Thr!Ask
    <3>2. /\ ThreadsTyped' /\ AllPlaced' /\ UNCHANGED <<thrOrder, thrMain>>
          /\ thrThread'["ide"] = thrThread["ide"]
      BY <1>0, <1>9, <3>1
    <3>3. Kept(thrThread'["ide"], thrSem'["ide"], joining, thrInProgress', thrIo')
      <4> HIDE DEF joining
      <4> QED BY <1>0, <2>1, <3>1, <3>2 DEF Kept, CommandLeft
    <3> QED BY <1>2, <3>2, <3>3 DEF ThreadsInv
  <2> QED BY <2>2, <2>3
<1>12. CASE Thr!AwaitReady \/ Thr!StartMaster
  <2>1. /\ Thr!Runs("cpu", "look") /\ thrInProgress' = thrInProgress
        /\ thrSem' = thrSem /\ thrDead' = thrDead
        /\ thrIo' \in {"ready", "wake"} => thrIo \in {"ready", "wake"}
    BY <1>12 DEF Thr!AwaitReady, Thr!StartMaster
  <2>2. /\ ThreadsTyped' /\ AllPlaced' /\ UNCHANGED <<thrOrder, thrMain>>
        /\ thrThread'["ide"] = thrThread["ide"]
    BY <1>0, <1>9, <2>1
  <2>3. Kept(thrThread'["ide"], thrSem'["ide"], joining, thrInProgress', thrIo')
    <3> HIDE DEF joining
    <3> QED BY <1>0, <2>1, <2>2 DEF Kept, CommandLeft
  <2> QED BY <1>2, <2>2, <2>3 DEF ThreadsInv
<1>13. CASE Thr!Wake
  <2>1. /\ thrIo = "wake" /\ Thr!CpuSets("ide") /\ thrInProgress' = thrInProgress
        /\ thrIo' \notin {"ready", "wake"}
    BY <1>13 DEF Thr!Wake
  <2>2. /\ ThreadsTyped' /\ AllPlaced' /\ UNCHANGED <<thrOrder, thrMain>>
        /\ thrThread'["ide"] = thrThread["ide"] /\ thrSem'["ide"] = 1
    BY <1>10, <2>1
  <2>3. Kept(thrThread'["ide"], thrSem'["ide"], joining, thrInProgress', thrIo')
    <3> HIDE DEF joining
    <3> QED BY <1>0, <2>1, <2>2 DEF Kept, CommandLeft
  <2> QED BY <1>2, <2>2, <2>3 DEF ThreadsInv
<1>14. CASE Thr!Main \/ Thr!Menu
  BY <1>14, MainStep, MainKeeps DEF ThreadsInv
<1>15. CASE UNCHANGED thrVars
  BY <1>15 DEF thrVars, ThreadsInv, ThreadsTyped, AllPlaced, PlacedAt, CommandKept
<1>16. ASSUME NEW w \in WorkOf[thrOrder], Thr!Ask(w) PROVE ThreadsInv'
  <2>1. WorkOf[thrOrder] \subseteq {"pio", "dma", "scripts"}
    BY WorkAssumption DEF WorkOf, ThreadsInv, ThreadsTyped
  <2> QED BY <1>11, <1>16, <2>1
<1> QED
  BY <1>3, <1>4, <1>6, <1>7, <1>8, <1>12, <1>13, <1>14, <1>15, <1>16
  DEF Thr!Next, Thr!Thread, Thr!Working

(* While the system runs no thread has ended, but that of a CPU that has set *)
(* a semaphore too often, and that of the IDE controller with a command left *)
(* to do, which may see the StopThread of the last stop: whatever the order  *)
(* of the components and however often they were stopped (start_threads(),   *)
(* release_threads(), stop_threads()).                                       *)
THEOREM ThreadsRunAlways == ProgressSpec => []ThreadsRun
<1>1. ProgressInit => ThreadsInv
  BY ThreadsInit DEF ProgressInit
<1>2. ThreadsInv /\ [ProgressNext]_progressVars => ThreadsInv'
  <2>1. progressVars' = progressVars => thrVars' = thrVars
    BY DEF progressVars
  <2>2. ProgressNext => Thr!Next \/ thrVars' = thrVars
    BY Zenon
    DEF ProgressNext, InPic, InPit, InToy, InSerial, InKbd, InFloppy, InVs, InLl
  <2> QED BY <2>1, <2>2, ThreadsInvStep
<1>3. ThreadsInv => ThreadsRun
  <2> SUFFICES ASSUME ThreadsInv, thrMain.does = "run", NEW c \in Thr!Components
               PROVE  \/ thrThread[c] \notin {"none", "ended"}
                      \/ c = "ide" /\ thrInProgress # "none"
                      \/ c = "cpu" /\ thrDead
    BY DEF ThreadsRun, Thr!AllRun
  <2>1. PICK k \in 1 .. 4 : thrOrder[k] = c
    BY OrderIs DEF ThreadsInv, ThreadsTyped
  <2>2. Going(c, thrThread[c], thrStop[c], thrDead)
    BY <2>1 DEF ThreadsInv, AllPlaced, PlacedAt, Placed
  <2>3. thrThread["ide"] = "ended" => thrInProgress # "none"
    BY DEF ThreadsInv, CommandKept, Kept, CommandLeft, Joining
  <2> QED BY <2>2, <2>3 DEF Going
<1> QED BY <1>1, <1>2, <1>3, PTL DEF ProgressSpec
=============================================================================
