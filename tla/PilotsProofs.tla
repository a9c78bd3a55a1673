---------------------------- MODULE PilotsProofs ----------------------------
(***************************************************************************)
(* What Pilots promises, for any number of sessions of a pilot and of hits *)
(* on the suit they left.  In every hurry (Overdue, SplitClaim, Swift): a  *)
(* session that loses its pilot is told, and the state keeps its shape.    *)
(* Unhurried, and as long as no two sessions wait for the same one: one    *)
(* has the record at a time, and no news of the suit is lost or undoes     *)
(* what a session saved.                                                   *)
(***************************************************************************)
EXTENDS Pilots, TLAPS

Places ==
    {"off", "waiting", "again", "inserting", "claimed", "loaded", "play", "leaving", "saved", "done"}

(* A session on the pilot's side of claim, and not yet at its release. *)
Has(c) == Holds(c) \/ pc[c] = "claimed"

(* LoserIsTold is inductive, given that each session stands somewhere. *)
ToldInv == pc \in [Sessions -> Places] /\ LoserIsTold

(* A step that takes the pilot from nobody, and gives them to nobody who hadn't got them,
   and forgets no kick. *)
Keeps ==
    /\ pc' \in [Sessions -> Places]
    /\ kicked \subseteq kicked'
    /\ \A c \in Sessions : Has(c)' => Has(c)
    /\ online' = online

(* Such a step leaves whoever had lost the pilot told. *)
LEMMA KeepsTold == ToldInv /\ Keeps => ToldInv'
BY DEF ToldInv, Keeps, LoserIsTold, Has, Holds

(* The pilot is c's by now: whoever had them is kicked (Pilots::claim drops their
   Online), and whoever had lost them before was told then. *)
LEMMA InsertedTold ==
    ASSUME ToldInv, NEW c \in Sessions, Inserted(c)
    PROVE  ToldInv'
<1>1. pc' = [pc EXCEPT ![c] = "claimed"] /\ online' = c
      BY DEF Inserted, To
<1>2. pc' \in [Sessions -> Places]
      BY <1>1 DEF ToldInv, Places
<1>3. kicked \subseteq kicked' /\ (online # NoSession => online \in kicked')
      BY DEF Inserted
<1>4. ASSUME NEW d \in Sessions, Has(d)', online' # d
      PROVE  d \in kicked'
  <2>1. d # c /\ Has(d)
        BY <1>1, <1>4 DEF ToldInv, Has, Holds
  <2>2. CASE online = d
        BY <2>2, <1>3, ConstantsAssumption
  <2>3. CASE online # d
        BY <2>1, <2>3, <1>3 DEF ToldInv, LoserIsTold, Has
  <2> QED BY <2>2, <2>3
<1> QED BY <1>2, <1>4 DEF ToldInv, LoserIsTold, Has, Holds

(* Nobody has the pilot now: they who had them are kicked. *)
LEMMA ForgottenTold ==
    ASSUME ToldInv, NEW c \in Sessions, TimedOut(c)
    PROVE  ToldInv'
<1>1. pc' = [pc EXCEPT ![c] = "again"]
      BY DEF TimedOut, To
<1>2. kicked \subseteq kicked' /\ (online # NoSession => online \in kicked')
      BY DEF TimedOut
<1>3. ASSUME NEW d \in Sessions, Has(d)'
      PROVE  d \in kicked'
  <2>1. Has(d)
        BY <1>1, <1>3 DEF ToldInv, Has, Holds
  <2>2. CASE online = d
        BY <2>2, <1>2, ConstantsAssumption
  <2>3. CASE online # d
        BY <2>1, <2>3, <1>2 DEF ToldInv, LoserIsTold, Has
  <2> QED BY <2>2, <2>3
<1> QED BY <1>1, <1>3 DEF ToldInv, LoserIsTold, Has, Holds, Places

(* A session that releases the pilot has them no longer; it takes them from nobody else. *)
LEMMA ReleasedTold ==
    ASSUME ToldInv, NEW c \in Sessions, Release(c)
    PROVE  ToldInv'
<1>1. pc' = [pc EXCEPT ![c] = "done"] /\ kicked' = kicked /\ online' \in {online, NoSession}
      BY DEF Release, To
<1>2. online' # online => online = c /\ ~Has(c)
      BY DEF Release, Has, Holds
<1>3. ASSUME NEW d \in Sessions, Has(d)', online' # d
      PROVE  d \in kicked'
  <2>1. d # c /\ Has(d)
        BY <1>1, <1>3 DEF ToldInv, Has, Holds
  <2>2. online # d
        BY <1>2, <1>3, <2>1
  <2> QED BY <2>1, <2>2, <1>1 DEF ToldInv, LoserIsTold, Has
<1> QED BY <1>1, <1>3 DEF ToldInv, LoserIsTold, Has, Holds, Places

(* The sector's news and the tasks that keep it move no session. *)
LEMMA NewsKeeps == ToldInv /\ (News \/ ParkTask) => Keeps
<1> SUFFICES ASSUME ToldInv, News \/ ParkTask PROVE Keeps
    OBVIOUS
<1>1. UNCHANGED <<session, online>>
      BY DEF News, Struck, Destroyed, ParkTask, Apply, ApplyLoad, ApplyCheck, ApplySave
<1> QED BY <1>1 DEF session, Keeps, ToldInv, Has, Holds

(* Every step of every session. *)
LEMMA SessionTold ==
    ASSUME ToldInv, NEW c \in Sessions, Claim(c) \/ Hold(c) \/ Go(c)
    PROVE  ToldInv'
<1>1. CASE Look(c)
      BY <1>1, KeepsTold DEF Look, To, Keeps, ToldInv, Has, Holds, Places
<1>2. CASE LookNone(c)
  <2>1. CASE SplitClaim
        BY <1>2, <2>1, KeepsTold DEF LookNone, To, Keeps, ToldInv, Has, Holds, Places
  <2>2. CASE ~SplitClaim
        BY <1>2, <2>2, InsertedTold DEF LookNone
  <2> QED BY <2>1, <2>2
<1>3. CASE Insert(c)
      BY <1>3, InsertedTold DEF Insert
<1>4. CASE Notified(c)
      BY <1>4, KeepsTold DEF Notified, To, Keeps, ToldInv, Has, Holds, Places
<1>5. CASE TimedOut(c)
      BY <1>5, ForgottenTold
<1>6. CASE Load(c)
      BY <1>6, KeepsTold DEF Load, To, Keeps, ToldInv, Has, Holds, Places
<1>7. CASE Enter(c)
      BY <1>7, KeepsTold DEF Enter, To, Keeps, ToldInv, Has, Holds, Places
<1>8. CASE Leave(c)
      BY <1>8, KeepsTold DEF Leave, To, Keeps, ToldInv, Has, Holds, Places
<1>9. CASE Save(c)
      BY <1>9, KeepsTold DEF Save, To, Keeps, ToldInv, Has, Holds, Places
<1>10. CASE Release(c)
      BY <1>10, ReleasedTold
<1> QED BY <1>1, <1>2, <1>3, <1>4, <1>5, <1>6, <1>7, <1>8, <1>9, <1>10 DEF Claim, Hold, Go

(* Two sessions may have a pilot at once (a takeover that timed out, two claims that both
   found nobody); but in every reachable state the one that lost them has been told. *)
THEOREM LosersAreTold == Spec => []LoserIsTold
<1>1. Init => ToldInv
      BY DEF Init, ToldInv, LoserIsTold, Holds, Places
<1>2. ToldInv /\ [Next]_vars => ToldInv'
  <2> SUFFICES ASSUME ToldInv, [Next]_vars PROVE ToldInv'
      OBVIOUS
  <2>1. CASE News \/ ParkTask
        BY <2>1, NewsKeeps, KeepsTold
  <2>2. CASE \E c \in Sessions : Claim(c) \/ Hold(c) \/ Go(c)
        BY <2>2, SessionTold
  <2>3. CASE UNCHANGED vars
        BY <2>3 DEF vars, session, ToldInv, LoserIsTold, Holds
  <2> QED BY <2>1, <2>2, <2>3 DEF Next
<1>3. ToldInv => LoserIsTold
      BY DEF ToldInv
<1> QED BY <1>1, <1>2, <1>3, PTL DEF Spec

-----------------------------------------------------------------------------
(* What each part of the state is, in every hurry. *)

NewsSet == [suit : Nat, tick : 0..MaxHits + 1]

TypeInv ==
    /\ pc \in [Sessions -> Places] /\ kicked \subseteq Sessions /\ permits \subseteq Sessions
    /\ waits \in [Sessions -> Sessions \cup {NoSession}]
    /\ carried \in [Sessions -> SUBSET NewsSet] /\ mine \in [Sessions -> Records]
    /\ online \in Sessions \cup {NoSession} /\ pending \subseteq NewsSet
    /\ pending # {} => online # NoSession
    /\ store \in Records
    /\ asleep \in Nat /\ tick \in 1..MaxHits + 1 /\ suits \in Nat
    /\ waiting \subseteq NewsSet
    /\ task \in [at : {"none", "checked", "loaded", "saving"}, news : NewsSet, record : Records]

LEMMA MakesAre ==
    ASSUME NEW s \in Nat, NEW t \in 0..MaxHits + 1, NEW c \in Sessions \cup {NoSession}
    PROVE  Record(s, t, c) \in Records /\ Hit(s, t) \in NewsSet /\ Gone(s) \in NewsSet
BY ConstantsAssumption DEF Record, Records, Hit, Gone, NewsSet

LEMMA NoTaskIs ==
    /\ NoTask \in [at : {"none", "checked", "loaded", "saving"}, news : NewsSet, record : Records]
    /\ NoTask.at = "none"
BY ConstantsAssumption DEF NoTask, Gone, Record, NoSuit, Records, NewsSet

LEMMA InsertedType ==
    ASSUME TypeInv, NEW c \in Sessions, Inserted(c),
           UNCHANGED <<waits, permits, carried, mine, store, sector, waiting, task>>
    PROVE  TypeInv'
BY ConstantsAssumption DEF TypeInv, Inserted, To, Places, sector

LEMMA SessionType ==
    ASSUME TypeInv, NEW c \in Sessions, Claim(c) \/ Hold(c) \/ Go(c)
    PROVE  TypeInv'
<1> USE DEF To, sector
<1>1. CASE Look(c)
  <2>1. pc' \in [Sessions -> Places] /\ waits' \in [Sessions -> Sessions \cup {NoSession}]
        BY <1>1 DEF Look, TypeInv, Places
  <2>2. kicked' \subseteq Sessions
        BY <1>1 DEF Look, TypeInv
  <2> QED BY <1>1, <2>1, <2>2 DEF Look, TypeInv
<1>2. CASE LookNone(c)
  <2>1. CASE SplitClaim
        BY <1>2, <2>1 DEF LookNone, TypeInv, Places
  <2>2. CASE ~SplitClaim
        BY <1>2, <2>2, InsertedType DEF LookNone
  <2> QED BY <2>1, <2>2
<1>3. CASE Insert(c)
      BY <1>3, InsertedType DEF Insert
<1>4. CASE Notified(c)
      BY <1>4 DEF Notified, TypeInv, Places
<1>5. CASE TimedOut(c)
  <2>1. pc' \in [Sessions -> Places] /\ carried' \in [Sessions -> SUBSET NewsSet]
        BY <1>5 DEF TimedOut, TypeInv, Places
  <2>2. kicked' \subseteq Sessions /\ online' = NoSession /\ pending' = {}
        BY <1>5 DEF TimedOut, TypeInv
  <2> QED BY <1>5, <2>1, <2>2 DEF TimedOut, TypeInv
<1>6. CASE Load(c)
      BY <1>6 DEF Load, TypeInv, Places
<1>7. CASE Enter(c)
  <2> DEFINE r == Record(NoSuit, 0, c)
  <2>1. r \in Records
        BY MakesAre, ConstantsAssumption DEF NoSuit
  <2> HIDE DEF r
  <2>2. mine' = [mine EXCEPT ![c] = r] /\ store' = r /\ asleep' \in {asleep, NoSuit}
        BY <1>7 DEF Enter, r
  <2>3. mine' \in [Sessions -> Records] /\ store' \in Records /\ asleep' \in Nat
        BY <2>1, <2>2 DEF TypeInv, NoSuit
  <2> QED BY <1>7, <2>3 DEF Enter, TypeInv, Places
<1>8. CASE Leave(c)
  <2> DEFINE r == Record(suits + 1, 1, c)
  <2>1. r \in Records /\ suits + 1 \in Nat /\ 1 \in 1..MaxHits + 1
    <3>1. suits + 1 \in Nat /\ 1 \in 0..MaxHits + 1 /\ 1 \in 1..MaxHits + 1
          BY ConstantsAssumption DEF TypeInv
    <3> QED BY <3>1, MakesAre
  <2> HIDE DEF r
  <2>2. \/ /\ asleep' = suits + 1 /\ suits' = suits + 1 /\ tick' = 1
           /\ mine' = [mine EXCEPT ![c] = r]
        \/ UNCHANGED <<asleep, tick, suits, mine>>
        BY <1>8 DEF Leave, r
  <2>3. mine' \in [Sessions -> Records] /\ asleep' \in Nat /\ suits' \in Nat /\ tick' \in 1..MaxHits + 1
        BY <2>1, <2>2 DEF TypeInv
  <2> QED BY <1>8, <2>3 DEF Leave, TypeInv, Places
<1>9. CASE Save(c)
      BY <1>9 DEF Save, TypeInv, Places
<1>10. CASE Release(c)
      BY <1>10 DEF Release, TypeInv, Places
<1> QED BY <1>1, <1>2, <1>3, <1>4, <1>5, <1>6, <1>7, <1>8, <1>9, <1>10 DEF Claim, Hold, Go

LEMMA NewsType ==
    ASSUME TypeInv, News \/ ParkTask
    PROVE  TypeInv'
<1> USE DEF session, sector
<1>1. CASE Struck
  <2>1. tick' = tick + 1 /\ tick + 1 \in 1..MaxHits + 1 /\ tick + 1 \in 0..MaxHits + 1
        BY <1>1, ConstantsAssumption DEF Struck, TypeInv
  <2>2. Hit(asleep, tick + 1) \in NewsSet
        BY <2>1, MakesAre DEF TypeInv
  <2>3. waiting' \subseteq NewsSet
        BY <1>1, <2>2 DEF Struck, TypeInv
  <2> QED BY <1>1, <2>1, <2>3 DEF Struck, TypeInv
<1>2. CASE Destroyed
  <2>1. Gone(asleep) \in NewsSet
        BY MakesAre, ConstantsAssumption DEF TypeInv
  <2>2. waiting' \subseteq NewsSet /\ asleep' \in Nat
        BY <1>2, <2>1 DEF Destroyed, TypeInv, NoSuit
  <2> QED BY <1>2, <2>2 DEF Destroyed, TypeInv
<1>3. ASSUME NEW n \in waiting, Apply(n)
      PROVE  TypeInv'
  <2>1. n \in NewsSet
        BY DEF TypeInv
  <2>2. CASE online # NoSession
        BY <1>3, <2>1, <2>2 DEF Apply, TypeInv
  <2>3. CASE online = NoSession
    <3>1. task' = [NoTask EXCEPT !.at = "checked", !.news = n]
          BY <1>3, <2>3 DEF Apply
    <3>2. task' \in [at : {"none", "checked", "loaded", "saving"}, news : NewsSet, record : Records]
          BY <2>1, <3>1, NoTaskIs
    <3> QED BY <1>3, <2>3, <3>2 DEF Apply, TypeInv
  <2> QED BY <2>2, <2>3
<1>4. CASE ApplyLoad
  <2> DEFINE n == task.news
             r == [store EXCEPT !.parked = n.tick]
  <2>1. r \in Records /\ n \in NewsSet
        BY DEF TypeInv, Records, NewsSet
  <2>2. task' = [at |-> "loaded", news |-> n, record |-> r] \/ task' = NoTask
        BY <1>4 DEF ApplyLoad
  <2> HIDE DEF n, r
  <2>3. task' \in [at : {"none", "checked", "loaded", "saving"}, news : NewsSet, record : Records]
        BY <2>1, <2>2, NoTaskIs
  <2> QED BY <1>4, <2>3 DEF ApplyLoad, TypeInv
<1>5. CASE ApplyCheck
  <2>1. task.news \in NewsSet
        BY DEF TypeInv
  <2>2. task' \in [at : {"none", "checked", "loaded", "saving"}, news : NewsSet, record : Records]
        BY <1>5, NoTaskIs DEF ApplyCheck, TypeInv
  <2> QED BY <1>5, <2>1, <2>2 DEF ApplyCheck, TypeInv
<1>6. CASE ApplySave
      BY <1>6, NoTaskIs DEF ApplySave, TypeInv
<1> QED BY <1>1, <1>2, <1>3, <1>4, <1>5, <1>6 DEF News, ParkTask

LEMMA TypeKept == TypeInv /\ [Next]_vars => TypeInv'
<1> SUFFICES ASSUME TypeInv, [Next]_vars PROVE TypeInv'
    OBVIOUS
<1>1. CASE UNCHANGED vars
      BY <1>1 DEF vars, session, sector, TypeInv
<1> QED BY <1>1, SessionType, NewsType DEF Next

LEMMA TypeAlways == Spec => []TypeInv
<1>1. Init => TypeInv
  <2> SUFFICES ASSUME Init PROVE TypeInv
      OBVIOUS
  <2>1. Record(NoSuit, 0, NoSession) \in Records /\ Record(1, 1, NoSession) \in Records
        BY MakesAre, ConstantsAssumption DEF NoSuit
  <2> QED BY <2>1, NoTaskIs, ConstantsAssumption DEF Init, TypeInv, Places
<1> QED BY <1>1, TypeKept, PTL DEF Spec

(* No tick, record or waiter goes astray, and no news is left waiting for a session when
   none holds the pilot (Pilots::release, and claim's taking it along). *)
THEOREM PilotKeepsShape == Spec => []TypeOK
<1>1. TypeInv => TypeOK
      BY DEF TypeInv, TypeOK
<1> QED BY <1>1, TypeAlways, PTL

-----------------------------------------------------------------------------
(* Unhurried, and as long as no two sessions wait for the same one: with two waiting, the
   one whose wait runs out forgets the other that took over (see the run takeover). *)

LoneWaiter ==
    hurry = {} => \A c, d \in Sessions :
        pc[c] = "waiting" /\ pc[d] = "waiting" /\ waits[c] = waits[d] => c = d

(* A session between its claim and its release. *)
Active(c) == pc[c] \in {"claimed", "loaded", "play", "leaving", "saved"}

(* The pilot is held by the one session that is active; whom a session waits for either
   still holds them, or has let its waiter know. *)
SeatInv ==
    /\ \A c \in Sessions : Active(c) <=> online = c
    /\ \A c \in Sessions : pc[c] # "inserting" /\ carried[c] = {}
    /\ \A c \in Sessions : pc[c] = "waiting" =>
           waits[c] \in Sessions /\ (waits[c] = online \/ waits[c] \in permits)
    /\ \A c \in permits : pc[c] = "done"

(* So nobody's wait runs out. *)
LEMMA NoneTimesOut ==
    ASSUME TypeInv, SeatInv, hurry = {}, NEW c \in Sessions
    PROVE  ~TimedOut(c)
BY DEF TimedOut, SeatInv, Active, Overdue

LEMMA SeatStep ==
    ASSUME TypeInv, SeatInv, LoneWaiter, hurry = {}, NEW c \in Sessions, Claim(c) \/ Hold(c) \/ Go(c)
    PROVE  SeatInv'
<1> USE DEF To
<1>0. ~SplitClaim
      BY DEF SplitClaim
<1>1. CASE Look(c)
  <2>1. /\ pc' = [pc EXCEPT ![c] = "waiting"] /\ waits' = [waits EXCEPT ![c] = online]
        /\ UNCHANGED <<permits, carried, online>>
        /\ online \in Sessions /\ ~Active(c) /\ pc[c] # "done"
        BY <1>1 DEF Look, TypeInv, Active
  <2> QED BY <2>1 DEF SeatInv, TypeInv, Active
<1>2. CASE LookNone(c)
  <2>1. /\ pc' = [pc EXCEPT ![c] = "claimed"] /\ online = NoSession /\ online' = c
        /\ pc[c] # "done" /\ UNCHANGED <<permits, carried, waits>>
        BY <1>0, <1>2 DEF LookNone, Inserted
  <2> QED BY <2>1, ConstantsAssumption DEF SeatInv, TypeInv, Active
<1>3. ~Insert(c)
      BY DEF Insert, SeatInv
<1>4. CASE Notified(c)
  <2>1. /\ pc' = [pc EXCEPT ![c] = "again"] /\ permits' = permits \ {waits[c]} /\ pc[c] = "waiting"
        /\ UNCHANGED <<online, carried, waits>>
        BY <1>4 DEF Notified
  <2>2. \A d \in Sessions : d # c /\ pc[d] = "waiting" => waits[d] # waits[c]
        BY <2>1 DEF LoneWaiter
  <2> QED BY <2>1, <2>2 DEF SeatInv, TypeInv, Active
<1>5. ~TimedOut(c)
      BY NoneTimesOut
<1>6. CASE Load(c) \/ Enter(c) \/ Leave(c) \/ Save(c)
  <2>1. PICK x \in {"loaded", "play", "leaving", "saved"} : pc' = [pc EXCEPT ![c] = x]
        BY <1>6 DEF Load, Enter, Leave, Save
  <2>2. Active(c) /\ UNCHANGED <<permits, carried, waits, online>>
        BY <1>6 DEF Load, Enter, Leave, Save, Active
  <2> QED BY <2>1, <2>2 DEF SeatInv, TypeInv, Active
<1>7. CASE Release(c)
  <2>1. /\ pc' = [pc EXCEPT ![c] = "done"] /\ online = c /\ online' = NoSession
        /\ permits' = permits \cup {c} /\ UNCHANGED <<carried, waits>>
        BY <1>7 DEF Release, SeatInv, Active
  <2> QED BY <2>1, ConstantsAssumption DEF SeatInv, TypeInv, Active
<1> QED BY <1>1, <1>2, <1>3, <1>4, <1>5, <1>6, <1>7 DEF Claim, Hold, Go

LEMMA SeatStill ==
    ASSUME SeatInv, UNCHANGED <<session, online>>
    PROVE  SeatInv'
BY DEF SeatInv, Active, session

LEMMA HurryKept == [Next]_vars => hurry' = hurry
BY DEF Next, News, ParkTask, Claim, Hold, Go, vars

LEMMA SeatKept ==
    TypeInv /\ (hurry = {} => SeatInv) /\ LoneWaiter /\ [Next]_vars => (hurry = {} => SeatInv)'
<1> SUFFICES ASSUME TypeInv, SeatInv, LoneWaiter, hurry = {}, [Next]_vars
             PROVE  SeatInv'
    BY HurryKept
<1>1. CASE News \/ ParkTask
  <2>1. UNCHANGED <<session, online>>
        BY <1>1 DEF News, Struck, Destroyed, ParkTask, Apply, ApplyLoad, ApplyCheck, ApplySave
  <2> QED BY <2>1, SeatStill
<1>2. CASE UNCHANGED vars
      BY <1>2, SeatStill DEF vars
<1> QED BY <1>1, <1>2, SeatStep DEF Next

LEMMA SeatAlways == Spec /\ []LoneWaiter => [](hurry = {} => SeatInv)
<1>1. Init => SeatInv
      BY ConstantsAssumption DEF Init, SeatInv, Active
<1> QED BY <1>1, TypeAlways, SeatKept, PTL DEF Spec

(* A pilot's record is in one session's hands at a time, however many sessions come for
   them, in whatever order, as long as no two wait for the same one to go (Pilots::claim,
   release): with the kick and the Notify a takeover waits for the last save. *)
THEOREM OneAtATime == Spec /\ []LoneWaiter => []OneSession
<1>1. (hurry = {} => SeatInv) => OneSession
      BY DEF SeatInv, OneSession, Holds, Active
<1> QED BY <1>1, SeatAlways, PTL

-----------------------------------------------------------------------------
(* The record.  As long as a session plays or leaves, it is the session's that counts. *)

InHand == online # NoSession /\ pc[online] \in {"play", "leaving"}
View == IF InHand THEN mine[online] ELSE store

(* All that the sector has said and nobody has yet applied. *)
Busy == task.at # "none"
InFlight == waiting \cup pending \cup (IF Busy THEN {task.news} ELSE {})

(* What a news task has read is what the store has. *)
Fresh ==
    /\ store.sleeper = task.news.suit /\ store.parked # 0 /\ Newer(task.news, store)
    /\ task.record = [store EXCEPT !.parked = task.news.tick]

(* A task with a record in hand that no session has seen to: what it read is still so. *)
TaskInv ==
    /\ task.at = "none" => task = NoTask
    /\ task.at = "loaded" => online # NoSession \/ Fresh
    /\ task.at = "saving" => Fresh /\ (online # NoSession => pc[online] \in {"claimed", "loaded"})

(* What a session has of the record; and that a news task that began before the session did
   isn't about a suit the session left. *)
HandInv ==
    online # NoSession =>
        /\ pc[online] = "loaded" => mine[online].sleeper = store.sleeper
        /\ pc[online] = "play" =>
               mine[online].sleeper = NoSuit /\ mine[online].parked = 0 /\ asleep = NoSuit
        /\ pc[online] = "saved" => mine[online] = store
        /\ Busy /\ pc[online] \in {"leaving", "saved"} /\ mine[online].parked # 0 =>
               task.news.suit # mine[online].sleeper

(* News is of suits that have slept, and of one that still does no later than its last hit. *)
OfSuits(news, n, id, t) ==
    \A x \in news : x.suit \in 1..n /\ x.tick \in Nat /\ (x.suit = id => x.tick \in 1..t)

(* The record is right about the suit asleep, or what would put it right is on its way. *)
RightOf(r, news, id, t) ==
    IF id = NoSuit THEN r.parked = 0 \/ Gone(r.sleeper) \in news
    ELSE /\ r.sleeper = id /\ r.parked \in 1..t
         /\ r.parked = t \/ Hit(id, t) \in news

NewsInv ==
    /\ suits \in Nat \ {0} /\ asleep \in 0..suits
    /\ OfSuits(InFlight, suits, asleep, tick)
    /\ RightOf(View, InFlight, asleep, tick)

CalmInv == SeatInv /\ TaskInv /\ HandInv /\ NewsInv

(* A step that touches nothing of it. *)
LEMMA SameNews ==
    ASSUME NewsInv, View' = View, InFlight' = InFlight, UNCHANGED sector
    PROVE  NewsInv'
BY DEF NewsInv, OfSuits, RightOf, sector

LEMMA LookCalm ==
    ASSUME TypeInv, CalmInv, hurry = {}, NEW c \in Sessions, Look(c) \/ Notified(c)
    PROVE  TaskInv' /\ HandInv' /\ NewsInv'
<1>1. /\ UNCHANGED <<mine, online, pending, store, sector, waiting, task>>
      /\ ~Active(c) /\ \E x : pc' = [pc EXCEPT ![c] = x]
      BY DEF Look, Notified, To, Active
<1>2. online # NoSession => online \in Sessions /\ online # c /\ pc'[online] = pc[online]
      BY <1>1 DEF CalmInv, SeatInv, TypeInv
<1>3. View' = View /\ InFlight' = InFlight
      BY <1>1, <1>2 DEF View, InHand, InFlight, Busy
<1>4. NewsInv'
      BY <1>1, <1>3, SameNews DEF CalmInv
<1>5. TaskInv' /\ HandInv'
      BY <1>1, <1>2 DEF CalmInv, TaskInv, HandInv, Fresh, Busy, sector
<1> QED BY <1>4, <1>5

LEMMA ClaimCalm ==
    ASSUME TypeInv, CalmInv, hurry = {}, NEW c \in Sessions, LookNone(c)
    PROVE  TaskInv' /\ HandInv' /\ NewsInv'
<1>1. /\ online = NoSession /\ online' = c /\ pending' = carried[c]
      /\ pc' = [pc EXCEPT ![c] = "claimed"]
      /\ UNCHANGED <<mine, store, sector, waiting, task>>
      BY DEF LookNone, Inserted, To, SplitClaim
<1>2. pc'[c] = "claimed" /\ pending = {} /\ pending' = {}
      BY <1>1 DEF TypeInv, CalmInv, SeatInv
<1>3. View' = View /\ InFlight' = InFlight
      BY <1>1, <1>2 DEF View, InHand, InFlight, Busy
<1>4. NewsInv'
      BY <1>1, <1>3, SameNews DEF CalmInv
<1>5. TaskInv' /\ HandInv'
      BY <1>1, <1>2, ConstantsAssumption DEF CalmInv, TaskInv, HandInv, Fresh, Busy
<1> QED BY <1>4, <1>5

LEMMA LoadCalm ==
    ASSUME TypeInv, CalmInv, hurry = {}, NEW c \in Sessions, Load(c)
    PROVE  TaskInv' /\ HandInv' /\ NewsInv'
<1>1. /\ pc[c] = "claimed" /\ mine' = [mine EXCEPT ![c] = store]
      /\ pc' = [pc EXCEPT ![c] = "loaded"]
      /\ UNCHANGED <<online, pending, store, sector, waiting, task>>
      BY DEF Load, To
<1>2. online = c /\ c # NoSession /\ pc'[c] = "loaded" /\ mine'[c] = store
      BY <1>1, ConstantsAssumption DEF TypeInv, CalmInv, SeatInv, Active
<1>3. View' = View /\ InFlight' = InFlight
      BY <1>1, <1>2 DEF View, InHand, InFlight, Busy
<1>4. NewsInv'
      BY <1>1, <1>3, SameNews DEF CalmInv
<1>5. TaskInv' /\ HandInv'
      BY <1>1, <1>2 DEF CalmInv, TaskInv, HandInv, Fresh, Busy
<1> QED BY <1>4, <1>5

(* The suit that was asleep is the one the session found in the record: it's awake now. *)
LEMMA EnterCalm ==
    ASSUME TypeInv, CalmInv, hurry = {}, NEW c \in Sessions, Enter(c)
    PROVE  TaskInv' /\ HandInv' /\ NewsInv'
<1> DEFINE r == Record(NoSuit, 0, c)
<1>1. /\ pc[c] = "loaded" /\ task.at # "saving" /\ mine' = [mine EXCEPT ![c] = r] /\ store' = r
      /\ asleep' = IF asleep = mine[c].sleeper THEN NoSuit ELSE asleep
      /\ pc' = [pc EXCEPT ![c] = "play"]
      /\ UNCHANGED <<online, pending, tick, suits, waiting, task>>
      BY DEF Enter, To, Unhurried, Swift
<1>2. r.sleeper = NoSuit /\ r.parked = 0
      BY DEF Record
<1> HIDE DEF r
<1>3. online = c /\ c # NoSession /\ pc'[c] = "play" /\ mine'[c] = r
      BY <1>1, ConstantsAssumption DEF TypeInv, CalmInv, SeatInv, Active
<1>4. View = store /\ View' = r /\ InFlight' = InFlight
      BY <1>1, <1>3 DEF View, InHand, InFlight, Busy
<1>5. asleep' = NoSuit
  <2>1. mine[c].sleeper = store.sleeper
        BY <1>1, <1>3 DEF CalmInv, HandInv
  <2>2. asleep # NoSuit => store.sleeper = asleep
        BY <1>4 DEF CalmInv, NewsInv, RightOf
  <2> QED BY <1>1, <2>1, <2>2
<1>6. OfSuits(InFlight, suits, NoSuit, tick)
      BY DEF CalmInv, NewsInv, OfSuits, NoSuit
<1>7. RightOf(r, InFlight, NoSuit, tick)
      BY <1>2 DEF RightOf
<1>8. NewsInv'
  <2>1. suits \in Nat \ {0} /\ NoSuit \in 0..suits
        BY DEF CalmInv, NewsInv, NoSuit
  <2> QED BY <1>1, <1>4, <1>5, <1>6, <1>7, <2>1 DEF NewsInv
<1>9. TaskInv' /\ HandInv'
      BY <1>1, <1>2, <1>3, <1>5 DEF CalmInv, TaskInv, HandInv, Busy
<1> QED BY <1>8, <1>9

LEMMA LeaveCalm ==
    ASSUME TypeInv, CalmInv, hurry = {}, NEW c \in Sessions, Leave(c)
    PROVE  TaskInv' /\ HandInv' /\ NewsInv'
<1> DEFINE r == Record(suits + 1, 1, c)
<1>1. /\ pc[c] = "play" /\ pc' = [pc EXCEPT ![c] = "leaving"]
      /\ UNCHANGED <<online, pending, store, waiting, task>>
      /\ \/ /\ asleep' = suits + 1 /\ suits' = suits + 1 /\ tick' = 1
            /\ mine' = [mine EXCEPT ![c] = r]
         \/ UNCHANGED <<sector, mine>>
      BY DEF Leave, To
<1>2. r.sleeper = suits + 1 /\ r.parked = 1
      BY DEF Record
<1> HIDE DEF r
<1>3. online = c /\ c # NoSession /\ pc'[c] = "leaving"
      BY <1>1, ConstantsAssumption DEF TypeInv, CalmInv, SeatInv, Active
<1>4. View = mine[c] /\ View' = mine'[c] /\ InFlight' = InFlight
      BY <1>1, <1>3 DEF View, InHand, InFlight, Busy
<1>5. task.at # "saving" /\ mine[c].parked = 0 /\ suits \in Nat \ {0}
      BY <1>1, <1>3 DEF CalmInv, TaskInv, HandInv, NewsInv
<1>6. TaskInv'
      BY <1>1, <1>3, <1>5 DEF CalmInv, TaskInv, Fresh
<1>7. Busy => task.news.suit \in 1..suits
      BY DEF CalmInv, NewsInv, OfSuits, InFlight
<1>8. CASE UNCHANGED <<sector, mine>>
  <2>1. NewsInv'
        BY <1>4, <1>8, SameNews DEF CalmInv
  <2>2. HandInv'
        BY <1>1, <1>3, <1>5, <1>8 DEF HandInv, Busy
  <2> QED BY <1>6, <2>1, <2>2
<1>9. CASE asleep' = suits + 1 /\ suits' = suits + 1 /\ tick' = 1 /\ mine' = [mine EXCEPT ![c] = r]
  <2>1. mine'[c] = r
        BY <1>9 DEF TypeInv
  <2>2. HandInv'
        BY <1>1, <1>2, <1>3, <1>5, <1>7, <2>1 DEF HandInv, Busy
  <2>3. OfSuits(InFlight, suits + 1, suits + 1, 1)
        BY <1>5 DEF CalmInv, NewsInv, OfSuits
  <2>4. RightOf(r, InFlight, suits + 1, 1)
        BY <1>2, <1>5 DEF RightOf, NoSuit
  <2>5. suits + 1 \in Nat \ {0} /\ suits + 1 \in 0..suits + 1
        BY <1>5
  <2>6. NewsInv'
        BY <1>4, <1>9, <2>1, <2>3, <2>4, <2>5 DEF NewsInv
  <2> QED BY <1>6, <2>2, <2>6
<1> QED BY <1>1, <1>8, <1>9

LEMMA SaveCalm ==
    ASSUME TypeInv, CalmInv, hurry = {}, NEW c \in Sessions, Save(c)
    PROVE  TaskInv' /\ HandInv' /\ NewsInv'
<1>1. /\ pc[c] = "leaving" /\ task.at # "saving" /\ store' = mine[c]
      /\ pc' = [pc EXCEPT ![c] = "saved"]
      /\ UNCHANGED <<mine, online, pending, sector, waiting, task>>
      BY DEF Save, To, Unhurried, Swift
<1>2. online = c /\ c # NoSession /\ pc'[c] = "saved"
      BY <1>1, ConstantsAssumption DEF TypeInv, CalmInv, SeatInv, Active
<1>3. View' = View /\ InFlight' = InFlight
      BY <1>1, <1>2 DEF View, InHand, InFlight, Busy
<1>4. NewsInv'
      BY <1>1, <1>3, SameNews DEF CalmInv
<1>5. TaskInv' /\ HandInv'
      BY <1>1, <1>2 DEF CalmInv, TaskInv, HandInv, Busy
<1> QED BY <1>4, <1>5

LEMMA ReleaseCalm ==
    ASSUME TypeInv, CalmInv, hurry = {}, NEW c \in Sessions, Release(c)
    PROVE  TaskInv' /\ HandInv' /\ NewsInv'
<1>1. pc[c] = "saved" /\ online = c
      BY DEF Release, CalmInv, SeatInv, Active
<1>2. /\ task.at # "loaded" /\ online' = NoSession /\ pending' = {} /\ waiting' = waiting \cup pending
      /\ UNCHANGED <<mine, store, sector, task>>
      BY <1>1 DEF Release, Unhurried, Swift
<1>3. c # NoSession /\ task.at # "saving"
      BY <1>1, ConstantsAssumption DEF CalmInv, TaskInv
<1>4. View' = View /\ InFlight' = InFlight
      BY <1>1, <1>2 DEF View, InHand, InFlight, Busy
<1>5. NewsInv'
      BY <1>2, <1>4, SameNews DEF CalmInv
<1>6. TaskInv' /\ HandInv'
      BY <1>2, <1>3 DEF CalmInv, TaskInv, HandInv
<1> QED BY <1>5, <1>6

(* The sector's news: a hit, or the end of the suit, is on its way as soon as it happens. *)
LEMMA SectorCalm ==
    ASSUME TypeInv, CalmInv, Struck \/ Destroyed
    PROVE  TaskInv' /\ HandInv' /\ NewsInv'
<1>1. /\ UNCHANGED <<session, online, pending, store, suits, task>>
      /\ asleep # NoSuit /\ asleep' \in {asleep, NoSuit}
      BY DEF Struck, Destroyed
<1>2. TaskInv'
      BY <1>1 DEF CalmInv, TaskInv, Fresh, session
<1>3. HandInv'
      BY <1>1 DEF CalmInv, HandInv, Busy, session
<1>4. View' = View
      BY <1>1 DEF View, InHand, session
<1>5. /\ suits \in Nat \ {0} /\ asleep \in 1..suits /\ tick \in Nat /\ tick >= 1
      /\ OfSuits(InFlight, suits, asleep, tick)
      /\ View.sleeper = asleep /\ View.parked \in 1..tick
      BY <1>1 DEF CalmInv, NewsInv, TypeInv, RightOf, NoSuit
<1>6. CASE Struck
  <2> DEFINE n == Hit(asleep, tick + 1)
  <2>1. n.suit = asleep /\ n.tick = tick + 1
        BY DEF Hit
  <2>2. asleep' = asleep /\ tick' = tick + 1 /\ InFlight' = InFlight \cup {n}
        BY <1>1, <1>6 DEF Struck, InFlight, Busy
  <2> HIDE DEF n
  <2>3. OfSuits(InFlight \cup {n}, suits, asleep, tick + 1)
        BY <1>5, <2>1 DEF OfSuits
  <2>4. RightOf(View, InFlight \cup {n}, asleep, tick + 1)
        BY <1>1, <1>5 DEF RightOf, n
  <2>5. NewsInv'
        BY <1>1, <1>4, <1>5, <2>2, <2>3, <2>4 DEF NewsInv
  <2> QED BY <1>2, <1>3, <2>5
<1>7. CASE Destroyed
  <2> DEFINE n == Gone(asleep)
  <2>1. n.suit = asleep /\ n.tick = 0
        BY DEF Gone
  <2>2. asleep' = NoSuit /\ tick' = tick /\ InFlight' = InFlight \cup {n}
        BY <1>1, <1>7 DEF Destroyed, InFlight, Busy
  <2>3. RightOf(View, InFlight \cup {n}, NoSuit, tick)
        BY <1>5 DEF RightOf
  <2> HIDE DEF n
  <2>4. OfSuits(InFlight \cup {n}, suits, NoSuit, tick)
        BY <1>5, <2>1 DEF OfSuits, NoSuit
  <2>5. NoSuit \in 0..suits
        BY <1>5 DEF NoSuit
  <2>6. NewsInv'
        BY <1>1, <1>4, <1>5, <2>2, <2>3, <2>4, <2>5 DEF NewsInv
  <2> QED BY <1>2, <1>3, <2>6
<1> QED BY <1>6, <1>7

LEMMA ApplyCalm ==
    ASSUME TypeInv, CalmInv, NEW n \in waiting, Apply(n)
    PROVE  TaskInv' /\ HandInv' /\ NewsInv'
<1>1. /\ task = NoTask /\ waiting' = waiting \ {n}
      /\ UNCHANGED <<session, online, store, sector>>
      /\ IF online # NoSession
         THEN pending' = pending \cup {n} /\ UNCHANGED task
         ELSE task' = [NoTask EXCEPT !.at = "checked", !.news = n] /\ UNCHANGED pending
      BY DEF Apply
<1>2. ~Busy /\ InFlight = waiting \cup pending
      BY <1>1, NoTaskIs DEF Busy, InFlight
<1>3. View' = View
      BY <1>1 DEF View, InHand, session
<1>4. CASE online # NoSession
  <2>1. InFlight' = InFlight
        BY <1>1, <1>2, <1>4 DEF InFlight, Busy
  <2>2. TaskInv' /\ HandInv'
        BY <1>1, <1>4 DEF CalmInv, TaskInv, Fresh, HandInv, Busy, session, sector
  <2> QED BY <1>1, <1>3, <2>1, <2>2, SameNews DEF CalmInv
<1>5. CASE online = NoSession
  <2>1. task'.at = "checked" /\ task'.news = n
        BY <1>1, <1>5, NoTaskIs
  <2>2. InFlight' = InFlight
        BY <1>1, <1>2, <1>5, <2>1 DEF InFlight, Busy
  <2>3. TaskInv' /\ HandInv'
        BY <1>1, <1>5, <2>1 DEF TaskInv, HandInv
  <2> QED BY <1>1, <1>3, <2>2, <2>3, SameNews DEF CalmInv
<1> QED BY <1>4, <1>5

(* News that changes nothing is let go. *)
LEMMA DroppedCalm ==
    ASSUME TypeInv, CalmInv, task.at = "checked",
           ~(store.sleeper = task.news.suit /\ store.parked # 0 /\ Newer(task.news, store)),
           task' = NoTask, UNCHANGED <<session, online, pending, store, sector, waiting>>
    PROVE  TaskInv' /\ HandInv' /\ NewsInv'
<1> DEFINE n == task.news
<1>1. task'.at = "none" /\ Busy /\ ~Busy'
      BY NoTaskIs DEF Busy
<1>2. TaskInv' /\ HandInv'
      BY <1>1 DEF CalmInv, TaskInv, HandInv, session, sector
<1>3. View' = View /\ InFlight' = waiting \cup pending /\ InFlight = InFlight' \cup {n}
      BY <1>1 DEF View, InHand, InFlight, session
<1>4. OfSuits(InFlight', suits, asleep, tick)
      BY <1>3 DEF CalmInv, NewsInv, OfSuits
<1>5. RightOf(View, InFlight', asleep, tick)
  <2>1. RightOf(View, InFlight' \cup {n}, asleep, tick) /\ OfSuits(InFlight' \cup {n}, suits, asleep, tick)
        BY <1>3 DEF CalmInv, NewsInv
  <2>2. /\ View.parked \in Nat /\ View.sleeper \in Nat /\ tick \in Nat
        /\ n.tick \in Nat /\ n.suit \in Nat
        BY ConstantsAssumption DEF View, InHand, TypeInv, Records, NewsSet
  <2>3. CASE View.parked = 0 \/ n.suit # View.sleeper
    <3> HIDE DEF n
    <3>1. n # Gone(View.sleeper) \/ View.parked = 0
          BY <2>3 DEF Gone
    <3>2. n # Hit(View.sleeper, tick) \/ View.parked = 0
          BY <2>3 DEF Hit
    <3> QED BY <2>1, <2>2, <3>1, <3>2 DEF RightOf
  <2>4. CASE View.parked # 0 /\ n.suit = View.sleeper
    <3>1. ~InHand
      <4> SUFFICES ASSUME InHand PROVE FALSE
          OBVIOUS
      <4>1. View = mine[online] /\ online # NoSession /\ pc[online] \in {"play", "leaving"}
            BY DEF View, InHand
      <4> QED BY <1>1, <2>4, <4>1 DEF CalmInv, HandInv
    <3>2. View = store
          BY <3>1 DEF View
    <3>3. n.tick # 0 /\ n.tick <= View.parked
          BY <2>2, <2>4, <3>2 DEF Newer
    <3> HIDE DEF n
    <3>4. n # Gone(View.sleeper)
          BY <3>3 DEF Gone
    <3>5. n = Hit(View.sleeper, tick) => tick <= View.parked
          BY <3>3 DEF Hit
    <3> QED BY <2>1, <2>2, <3>4, <3>5 DEF RightOf
  <2> QED BY <2>3, <2>4
<1>6. NewsInv'
      BY <1>3, <1>4, <1>5 DEF CalmInv, NewsInv, sector
<1> QED BY <1>2, <1>6

LEMMA ApplyLoadCalm ==
    ASSUME TypeInv, CalmInv, ApplyLoad
    PROVE  TaskInv' /\ HandInv' /\ NewsInv'
<1> DEFINE n == task.news
           r == [store EXCEPT !.parked = n.tick]
<1>1. task.at = "checked" /\ UNCHANGED <<session, online, pending, store, sector, waiting>>
      BY DEF ApplyLoad
<1>2. CASE store.sleeper = n.suit /\ store.parked # 0 /\ Newer(n, store)
  <2>1. task' = [at |-> "loaded", news |-> n, record |-> r]
        BY <1>2 DEF ApplyLoad
  <2>2. task'.at = "loaded" /\ task'.news = n /\ task'.record = r
        BY <2>1
  <2>3. Fresh' /\ TaskInv'
        BY <1>1, <1>2, <2>2 DEF Fresh, TaskInv
  <2>4. HandInv'
        BY <1>1, <2>2 DEF CalmInv, HandInv, Busy, session, sector
  <2>5. View' = View /\ InFlight' = InFlight
        BY <1>1, <2>2 DEF View, InHand, InFlight, Busy, session
  <2> QED BY <1>1, <2>3, <2>4, <2>5, SameNews DEF CalmInv
<1>3. CASE ~(store.sleeper = n.suit /\ store.parked # 0 /\ Newer(n, store))
  <2>1. task' = NoTask
        BY <1>3 DEF ApplyLoad
  <2> QED BY <1>1, <1>3, <2>1, DroppedCalm
<1> QED BY <1>2, <1>3

LEMMA ApplyCheckCalm ==
    ASSUME TypeInv, CalmInv, ApplyCheck
    PROVE  TaskInv' /\ HandInv' /\ NewsInv'
<1>1. task.at = "loaded" /\ UNCHANGED <<session, online, store, sector, waiting>>
      BY DEF ApplyCheck
<1>2. View' = View
      BY <1>1 DEF View, InHand, session
<1>3. CASE online # NoSession
  <2>1. pending' = pending \cup {task.news} /\ task' = NoTask /\ task'.at = "none"
        BY <1>3, NoTaskIs DEF ApplyCheck
  <2>2. InFlight' = InFlight
        BY <1>1, <2>1 DEF InFlight, Busy
  <2>3. TaskInv' /\ HandInv'
        BY <1>1, <2>1 DEF CalmInv, TaskInv, HandInv, Busy, session, sector
  <2> QED BY <1>1, <1>2, <2>2, <2>3, SameNews DEF CalmInv
<1>4. CASE online = NoSession
  <2>1. task' = [task EXCEPT !.at = "saving"] /\ pending' = pending
        BY <1>4 DEF ApplyCheck
  <2>2. task'.at = "saving" /\ task'.news = task.news /\ task'.record = task.record
        BY <2>1 DEF TypeInv
  <2>3. InFlight' = InFlight
        BY <1>1, <2>1, <2>2 DEF InFlight, Busy
  <2>4. Fresh
        BY <1>1, <1>4 DEF CalmInv, TaskInv
  <2>5. TaskInv' /\ HandInv'
        BY <1>1, <1>4, <2>2, <2>4 DEF Fresh, TaskInv, HandInv
  <2> QED BY <1>1, <1>2, <2>3, <2>5, SameNews DEF CalmInv
<1> QED BY <1>3, <1>4

LEMMA ApplySaveCalm ==
    ASSUME TypeInv, CalmInv, ApplySave
    PROVE  TaskInv' /\ HandInv' /\ NewsInv'
<1> DEFINE n == task.news
<1>1. /\ task.at = "saving" /\ store' = task.record /\ task' = NoTask /\ task'.at = "none"
      /\ UNCHANGED <<session, online, pending, sector, waiting>>
      BY NoTaskIs DEF ApplySave
<1>2. Fresh /\ (online # NoSession => pc[online] \in {"claimed", "loaded"})
      BY <1>1 DEF CalmInv, TaskInv
<1>3. store.sleeper = n.suit /\ store.parked # 0 /\ Newer(n, store)
      /\ store'.sleeper = store.sleeper /\ store'.parked = n.tick
      BY <1>1, <1>2 DEF Fresh, TypeInv, Records
<1>4. View = store /\ View' = store' /\ InFlight' = waiting \cup pending /\ InFlight = InFlight' \cup {n}
      BY <1>1, <1>2 DEF View, InHand, InFlight, Busy, session
<1>5. TaskInv' /\ HandInv'
      BY <1>1, <1>2, <1>3 DEF CalmInv, TaskInv, HandInv, Busy, session, sector
<1>6. OfSuits(InFlight', suits, asleep, tick)
      BY <1>4 DEF CalmInv, NewsInv, OfSuits
<1>7. RightOf(store', InFlight', asleep, tick)
  <2>1. /\ RightOf(store, InFlight' \cup {n}, asleep, tick)
        /\ OfSuits(InFlight' \cup {n}, suits, asleep, tick)
        BY <1>4 DEF CalmInv, NewsInv
  <2>2. store.parked \in Nat /\ store.sleeper \in Nat /\ tick \in Nat /\ n.tick \in Nat /\ n.suit \in Nat
        BY ConstantsAssumption DEF TypeInv, Records, NewsSet
  <2> HIDE DEF n
  <2>3. n = Gone(store.sleeper) => n.tick = 0
        BY DEF Gone
  <2>4. n = Hit(asleep, tick) => n.tick = tick
        BY DEF Hit
  <2>5. CASE asleep = NoSuit
        BY <1>3, <2>1, <2>3, <2>5 DEF RightOf
  <2>6. CASE asleep # NoSuit
    <3>1. store.sleeper = asleep /\ (store.parked = tick \/ Hit(asleep, tick) \in InFlight' \cup {n})
          BY <2>1, <2>6 DEF RightOf
    <3>2. n.tick \in 1..tick
          BY <1>3, <2>1, <3>1 DEF OfSuits
    <3>3. n.tick > store.parked
          BY <1>3, <2>2, <3>2 DEF Newer
    <3>4. n.tick = tick \/ Hit(asleep, tick) \in InFlight'
          BY <2>2, <2>4, <3>1, <3>2, <3>3
    <3> QED BY <1>3, <2>6, <3>1, <3>2, <3>4 DEF RightOf
  <2> QED BY <2>5, <2>6
<1>8. NewsInv'
      BY <1>1, <1>4, <1>6, <1>7 DEF CalmInv, NewsInv, sector
<1> QED BY <1>5, <1>8

LEMMA CalmKept ==
    TypeInv /\ (hurry = {} => CalmInv) /\ LoneWaiter /\ [Next]_vars => (hurry = {} => CalmInv)'
<1> SUFFICES ASSUME TypeInv, CalmInv, LoneWaiter, hurry = {}, [Next]_vars
             PROVE  CalmInv'
    BY HurryKept
<1>1. SeatInv' /\ SeatInv
      BY SeatKept, HurryKept DEF CalmInv
<1> SUFFICES TaskInv' /\ HandInv' /\ NewsInv'
    BY <1>1 DEF CalmInv
<1>2. CASE News
      BY <1>2, SectorCalm DEF News
<1>3. CASE ParkTask
      BY <1>3, ApplyCalm, ApplyLoadCalm, ApplyCheckCalm, ApplySaveCalm DEF ParkTask
<1>4. ASSUME NEW c \in Sessions, Claim(c) \/ Hold(c) \/ Go(c)
      PROVE  TaskInv' /\ HandInv' /\ NewsInv'
  <2>1. ~TimedOut(c) /\ ~Insert(c)
        BY <1>1, NoneTimesOut DEF Insert, SeatInv
  <2> QED BY <1>4, <2>1, LookCalm, ClaimCalm, LoadCalm, EnterCalm, LeaveCalm, SaveCalm, ReleaseCalm
          DEF Claim, Hold, Go
<1>5. CASE UNCHANGED vars
  <2>1. UNCHANGED <<session, online, pending, store, sector, waiting, task>>
        BY <1>5 DEF vars
  <2>2. View' = View /\ InFlight' = InFlight
        BY <2>1 DEF View, InHand, InFlight, Busy, session
  <2>3. TaskInv' /\ HandInv'
        BY <2>1 DEF CalmInv, TaskInv, HandInv, Fresh, Busy, session, sector
  <2> QED BY <2>1, <2>2, <2>3, SameNews DEF CalmInv
<1> QED BY <1>2, <1>3, <1>4, <1>5 DEF Next

LEMMA CalmAlways == Spec /\ []LoneWaiter => [](hurry = {} => CalmInv)
<1>1. Init => CalmInv
  <2> SUFFICES ASSUME Init PROVE CalmInv
      OBVIOUS
  <2>1. SeatInv
        BY ConstantsAssumption DEF Init, SeatInv, Active
  <2>2. TaskInv /\ HandInv
        BY NoTaskIs DEF Init, TaskInv, HandInv
  <2>3. View = store /\ InFlight = {}
        BY NoTaskIs DEF Init, View, InHand, InFlight, Busy
  <2>4. store.sleeper = 1 /\ store.parked = 1 /\ asleep = 1 /\ tick = 1 /\ suits = 1
        BY DEF Init, Record
  <2>5. NewsInv
        BY <2>3, <2>4 DEF NewsInv, OfSuits, RightOf, NoSuit
  <2> QED BY <2>1, <2>2, <2>5 DEF CalmInv
<1> QED BY <1>1, TypeAlways, CalmKept, PTL DEF Spec

(* Whatever order the news of a hidden suit comes in, before, during or after any number of
   sessions, once all is heard the record is right about it: a suit gone isn't put back, one
   hit is put back as it is (Pilots::apply_park_news, claim, release). *)
THEOREM RecordStaysCurrent == Spec /\ []LoneWaiter => []RecordIsCurrent
<1>1. TypeInv /\ (hurry = {} => CalmInv) => RecordIsCurrent
  <2> SUFFICES ASSUME TypeInv, CalmInv, Settled
               PROVE  IF asleep = NoSuit THEN store.parked = 0
                      ELSE store.sleeper = asleep /\ store.parked = tick
      BY DEF RecordIsCurrent
  <2>1. View = store /\ InFlight = {}
        BY NoTaskIs DEF Settled, View, InHand, InFlight, Busy, TypeInv
  <2> QED BY <2>1 DEF CalmInv, NewsInv, RightOf
<1> QED BY <1>1, TypeAlways, CalmAlways, PTL

(* A news task writes back the record it read, never over what a session has saved since:
   its second look sees every session that outlasts its read (apply_park_news). *)
THEOREM NewsUndoesNothing == Spec /\ []LoneWaiter => NoLostUpdate
<1>1. TypeInv /\ (hurry = {} => CalmInv) /\ [Next]_vars =>
         [hurry = {} /\ task.at = "saving" /\ task' = NoTask => task.record.by = store.by]_vars
  <2> SUFFICES ASSUME TypeInv, CalmInv, task.at = "saving"
               PROVE  task.record.by = store.by
      OBVIOUS
  <2>1. task.record = [store EXCEPT !.parked = task.news.tick]
        BY DEF CalmInv, TaskInv, Fresh
  <2> QED BY <2>1 DEF TypeInv, Records
<1> QED BY <1>1, TypeAlways, CalmAlways, PTL DEF Spec, NoLostUpdate

(* With two sessions, no two can wait for the same one. *)
Couple == \A c, d, e \in Sessions : c = d \/ d = e \/ c = e

LEMMA CoupleNeverWaits ==
    ASSUME Couple
    PROVE  Spec => []LoneWaiter
<1>1. TypeInv /\ (hurry = {} => SeatInv) => LoneWaiter
  <2> SUFFICES ASSUME TypeInv, SeatInv, NEW c \in Sessions, NEW d \in Sessions, c # d,
                      pc[c] = "waiting", pc[d] = "waiting", waits[c] = waits[d]
               PROVE  FALSE
      BY DEF LoneWaiter
  <2>1. PICK e \in Sessions : e = waits[c] /\ (e = online \/ e \in permits)
        BY DEF SeatInv
  <2>2. pc[e] # "waiting"
        BY <2>1 DEF SeatInv, Active
  <2> QED BY <2>2 DEF Couple
<1>2. Init => SeatInv
      BY ConstantsAssumption DEF Init, SeatInv, Active
<1> QED BY <1>1, <1>2, TypeAlways, SeatKept, PTL DEF Spec

(* So of a pair of sessions, the second taking over from the first, all three hold without
   more ado: one has the record at a time, no news is lost, and none undoes a save. *)
THEOREM TakeoverIsSafe ==
    ASSUME Couple
    PROVE  Spec => []OneSession /\ []RecordIsCurrent /\ NoLostUpdate
BY CoupleNeverWaits, OneAtATime, RecordStaysCurrent, NewsUndoesNothing, PTL
=============================================================================
