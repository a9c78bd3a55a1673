-------------------------------- MODULE Desk --------------------------------
(***************************************************************************)
(* What the Charter Board's desk and the register of homes hold for a pilot, *)
(* across four files: the Board's (charter.json), the exchange's            *)
(* (market.json), the register's (homes.json) and the pilot's record.  Each *)
(* is written whole, by its own save; the server may stop between any two   *)
(* writes, and starts again with what the files say.                        *)
(*                                                                          *)
(* One signed-in pilot's session (crates/bc-server/src/net/session.rs) and  *)
(* everyone else who writes the shared files: the clock each minute, and    *)
(* other sessions.  The colony is open.  Of the sorties' sheets there is    *)
(* the number of lines there ever were of each kind; credits and goods that *)
(* go into the register (rent, a price, what is put away) are goods.        *)
(***************************************************************************)
EXTENDS Integers, Sequences, FiniteSets

CONSTANTS
    Rifles,      \* beam rifles at the colony's desk of the exchange
    Belongings,  \* what the pilot has to put in a home
    MaxLines,    \* bound: lines of a kind on the pilot's sheets
    MaxCrashes   \* bound: times the server stops

ASSUME DeskAssumption == Rifles \in Nat /\ Belongings \in Nat /\ MaxLines \in Nat \ {0} /\ MaxCrashes \in Nat

BountyKinds == {"ace", "patrol"}
Lines == BountyKinds \cup {"certified"}        \* what the record says was paid
Things == BountyKinds \cup {"rifle", "worth"}  \* what the desk holds, and hands over
Shared == {"charter", "market", "homes"}       \* the files everyone writes

VARIABLES
    mem,        \* the Board's desk (charter), the colony's rifles (market) and what the
                \* register holds (homes), in memory
    hangar,     \* the session's: its sheets' lines, what the desk has handed over, stores
    file,       \* what the files say
    writing,    \* writes of the shared files under way
    session,    \* "away", "in", "telling" (what was done, before it's kept) or "leaving"
    todo,       \* what the session has yet to save, in order
    early,      \* a shared file was written without what the record doesn't hold yet
    crashes,
    mishaps     \* what has happened that the order of the writes doesn't cover

deskVars == <<mem, hangar, file, writing, session, todo, early, crashes, mishaps>>

DeskInit ==
    /\ mem = [charter |-> [t \in Things |-> 0], market |-> Rifles, homes |-> 0]
    /\ hangar = [sheet |-> [l \in Lines |-> 0], held |-> [t \in Things |-> 0], stores |-> Belongings]
    /\ file = [charter |-> mem.charter, market |-> mem.market, homes |-> mem.homes,
               record |-> hangar]
    /\ writing = {}
    /\ session = "away" /\ todo = <<>>
    /\ early = FALSE /\ crashes = 0 /\ mishaps = {}

Idle == session = "in" /\ todo = <<>>

-----------------------------------------------------------------------------
(* Files. *)

(* saving, of Charter, Market and HomeRegister: one write of a file at a time. *)
M_Free(f) == TRUE
Free(f) == \A w \in writing : w.file # f

(* Their save: the whole as it is when the lock is had. *)
Begin(f, who) ==
    /\ Free(f)
    /\ writing' = writing \cup {[file |-> f, by |-> who, what |-> mem[f]]}

Saving(f) == session # "telling" /\ todo # <<>> /\ Head(todo) = f

SessionWrites(f) ==
    /\ Saving(f)
    /\ \A w \in writing : w.by # "session"
    /\ Begin(f, "session")
    /\ UNCHANGED <<mem, hangar, file, session, todo, early, crashes, mishaps>>

(* The clock's, each minute, or another session's. *)
OtherWrites(f) ==
    /\ \A w \in writing : w.by # "other"
    /\ Begin(f, "other")
    /\ early' = (early \/ (f = "charter" /\ hangar.held # file.record.held)
                       \/ (f = "homes" /\ hangar.stores > file.record.stores))
    /\ UNCHANGED <<mem, hangar, file, session, todo, crashes, mishaps>>

(* write_atomically: until it is done the file says what it said. *)
Written(w) ==
    /\ file' = [file EXCEPT ![w.file] = w.what]
    /\ writing' = writing \ {w}
    /\ todo' = IF w.by = "session" THEN Tail(todo) ELSE todo
    /\ UNCHANGED <<mem, hangar, session, early, crashes, mishaps>>

(* Session::save, and the end of Session::leave. *)
SaveRecord ==
    /\ Saving("record")
    /\ file' = [file EXCEPT !.record = hangar]
    /\ todo' = Tail(todo)
    /\ early' = FALSE
    /\ UNCHANGED <<mem, hangar, writing, session, crashes, mishaps>>

-----------------------------------------------------------------------------
(* The session. *)

Enter ==
    /\ session = "away"
    /\ session' = "in"
    /\ hangar' = file.record
    /\ UNCHANGED <<mem, file, writing, todo, early, crashes, mishaps>>

(* Session::certify: the Board's rifle, once, or its worth when the colony has none. *)
M_Unissued == TRUE
Unissued == hangar.sheet["certified"] = 0
M_CertifyKeeps == <<"charter", "record">>
CertifyKeeps == <<"charter", "market", "record">>
Certify ==
    LET thing == IF mem.market > 0 THEN "rifle" ELSE "worth"
    IN  /\ Idle /\ Unissued
        /\ mem' = [mem EXCEPT !.charter[thing] = @ + 1,
                              !.market = IF thing = "rifle" THEN @ - 1 ELSE @]
        /\ hangar' = [hangar EXCEPT !.sheet["certified"] = @ + 1]
        /\ todo' = CertifyKeeps
        /\ UNCHANGED <<file, writing, session, early, crashes, mishaps>>

(* Board::pay_ace, Board::bounties: a bounty that waits at the desk, on the sheet. *)
Pays(b) ==
    /\ hangar.sheet[b] < MaxLines
    /\ mem' = [mem EXCEPT !.charter[b] = @ + 1]
    /\ hangar' = [hangar EXCEPT !.sheet[b] = @ + 1]

(* An ace downed (Session::ace_down), a patrol flown (keep_patrol): the Board is kept
   before the record. *)
M_BountyKeeps == <<"record", "charter">>
BountyKeeps == <<"charter", "record">>
Bounty(b) ==
    /\ Idle
    /\ Pays(b)
    /\ todo' = BountyKeeps
    /\ UNCHANGED <<file, writing, session, early, crashes, mishaps>>

(* Session::settle at the Board's desk (Board::collect_at_desk), on the session's tick: its
   notes are sent, then the record is kept, then the Board. *)
M_HandOverKeeps == <<"record">>
HandOverKeeps == <<"record", "charter">>
HandOver ==
    /\ Idle
    /\ \E t \in Things : mem.charter[t] > 0
    /\ hangar' = [hangar EXCEPT !.held = [t \in Things |-> @[t] + mem.charter[t]]]
    /\ mem' = [mem EXCEPT !.charter = [t \in Things |-> 0]]
    /\ session' = "telling" /\ todo' = HandOverKeeps
    /\ UNCHANGED <<file, writing, early, crashes, mishaps>>

(* Session::home_request: what goes into the register is kept there first, *)
M_PutInKeeps == <<"record", "homes">>
PutInKeeps == <<"homes", "record">>
PutIn ==
    /\ Idle /\ hangar.stores > 0
    /\ hangar' = [hangar EXCEPT !.stores = @ - 1]
    /\ mem' = [mem EXCEPT !.homes = @ + 1]
    /\ session' = "telling" /\ todo' = PutInKeeps
    /\ UNCHANGED <<file, writing, early, crashes, mishaps>>

(* what comes out of it, in the record (so too what it owes, Session::homes_tick). *)
TakeOut ==
    /\ Idle /\ mem.homes > 0
    /\ hangar' = [hangar EXCEPT !.stores = @ + 1]
    /\ mem' = [mem EXCEPT !.homes = @ - 1]
    /\ session' = "telling" /\ todo' = <<"record", "homes">>
    /\ UNCHANGED <<file, writing, early, crashes, mishaps>>

Told ==
    /\ session = "telling"
    /\ session' = "in"
    /\ UNCHANGED <<mem, hangar, file, writing, todo, early, crashes, mishaps>>

(* Session::leave keeps the record; and the register first, if they lie down in a bed of
   their home (lie_down). *)
LeaveKeeps(home) == {<<"record">>} \cup (IF home THEN {<<"homes", "record">>} ELSE {})

(* The note can't be sent, the pilot gone: the session leaves without the saves to come.
   Nobody is at home at the Board's desk. *)
Unheard ==
    /\ session = "telling"
    /\ session' = "leaving"
    /\ todo' \in LeaveKeeps(\A i \in DOMAIN todo : todo[i] # "charter")
    /\ mishaps' = mishaps \cup {"unheard"}
    /\ UNCHANGED <<mem, hangar, file, writing, early, crashes>>

(* Session::leave: perhaps an ace downed on the way out (paid_at_desk). *)
Leave ==
    /\ Idle
    /\ session' = "leaving"
    /\ \/ Pays("ace") /\ todo' = BountyKeeps
       \/ todo' \in LeaveKeeps(TRUE) /\ UNCHANGED <<mem, hangar>>
    /\ UNCHANGED <<file, writing, early, crashes, mishaps>>

Gone ==
    /\ session = "leaving" /\ todo = <<>>
    /\ session' = "away"
    /\ UNCHANGED <<mem, hangar, file, writing, todo, early, crashes, mishaps>>

(* The server stops, with what it was writing not written, and starts from its files. *)
Crash ==
    /\ crashes < MaxCrashes
    /\ crashes' = crashes + 1
    /\ mem' = [f \in Shared |-> file[f]]
    /\ hangar' = file.record
    /\ session' = "away" /\ todo' = <<>> /\ writing' = {} /\ early' = FALSE
    /\ mishaps' = mishaps \cup (IF todo # <<>> THEN {"abrupt"} ELSE {})
                          \cup (IF early THEN {"raced"} ELSE {})
    /\ UNCHANGED file

DeskNext ==
    \/ SaveRecord
    \/ \E f \in Shared : SessionWrites(f) \/ OtherWrites(f)
    \/ \E w \in writing : Written(w)
    \/ Enter \/ Certify \/ HandOver \/ PutIn \/ TakeOut \/ Told \/ Unheard \/ Leave \/ Gone
    \/ \E b \in BountyKinds : Bounty(b)
    \/ Crash

DeskSpec == DeskInit /\ [][DeskNext]_deskVars

-----------------------------------------------------------------------------
(* What of f there is for line l of the sheet. *)
Of(f, l) == IF l = "certified" THEN f["rifle"] + f["worth"] ELSE f[l]

(* The state's shape: one certificate to a hangar, however often the server stops. *)
DeskTypeOK ==
    LET Hangars == [sheet : [Lines -> 0..MaxLines], held : [Things -> Nat], stores : Nat]
    IN  /\ mem.charter \in [Things -> Nat] /\ mem.market \in 0..Rifles /\ mem.homes \in Nat
        /\ file.charter \in [Things -> Nat] /\ file.market \in 0..Rifles /\ file.homes \in Nat
        /\ {hangar, file.record} \subseteq Hangars /\ hangar.sheet["certified"] \in {0, 1}
        /\ \A w \in writing : w.file \in Shared /\ w.by \in {"session", "other"}
        /\ session \in {"away", "in", "telling", "leaving"}
        /\ todo \in Seq(Shared \cup {"record"})
        /\ early \in BOOLEAN /\ crashes \in 0..MaxCrashes
        /\ mishaps \subseteq {"unheard", "abrupt", "raced"}

(* Wherever the server stops, a pilot isn't left certified, or paid on the sheet, with
   nothing at the desk and nothing handed over (session.rs, certify and keep_patrol), if
   nobody else wrote the Board between a hand-over and the record's save.  So with what is
   put in a home and taken out of it (home_request: "out of it, the record first"), if the
   pilot was there to be told. *)
NothingGoesMissing ==
    "raced" \notin mishaps =>
        /\ \A l \in Lines : hangar.sheet[l] <= Of(mem.charter, l) + Of(hangar.held, l)
        /\ "unheard" \notin mishaps => hangar.stores + mem.homes >= Belongings

(* A server that stops with no session at work hands nothing over twice (on_tick's saves),
   if whoever was handed it was there to be told; and the certificates' rifles are moved,
   not made (Board::certify): at the colony's desk, at the Board's, or the pilot's. *)
HandedOnceIfTold ==
    mishaps \cap {"unheard", "abrupt"} = {} =>
        /\ \A l \in Lines : Of(hangar.held, l) + Of(mem.charter, l) = hangar.sheet[l]
        /\ hangar.stores + mem.homes = Belongings
        /\ mishaps = {} => mem.market + mem.charter["rifle"] + hangar.held["rifle"] = Rifles

(* A server that stops with no session at work loses nothing put in a home and hands
   nothing over twice, whatever became of the connection (session.rs, home_request: "it's
   written first"; docs/ARCHITECTURE.md: "so a restart can't hand it over twice"). *)
KeptAtRest ==
    "abrupt" \notin mishaps =>
        /\ hangar.stores + mem.homes = Belongings
        /\ \A l \in Lines : Of(hangar.held, l) <= hangar.sheet[l]
=============================================================================
